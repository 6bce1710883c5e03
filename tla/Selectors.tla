----------------------------- MODULE Selectors ------------------------------
(***************************************************************************)
(* cpp/file.py over one ResolvedFile: the definitions its header holds,    *)
(* one per fresh snapshot, and the `_<V>` selector that hands a protocol   *)
(* version its definition.  A resolved file r is the record the pool       *)
(* memoises; r.views[t][s] is the snapshot whose namespace defines t for   *)
(* snapshot s.                                                             *)
(***************************************************************************)
EXTENDS Schema

\* fresh_snapshots: the namespaces that hold a definition rather than a
\* `using` alias.
Fresh(r, t) == {s \in DOMAIN r.views[t] : r.views[t][s] = s}

\* _emit_traits: entry lo answers from lo to the next entry, the last one to
\* the declaration's until.
Selected(sch, r, t, v) ==
  {lo \in Fresh(r, t) :
     /\ lo <= v /\ v < sch.decl[t].until
     /\ \A l \in Fresh(r, t) : lo < l => v < l}

\* What the definition in namespace c holds.
Defined(sch, r, t, c) ==
  {<<p.name, p.shape, p.wire,
     [e \in p.follows |-> IF e \in r.known THEN Numbering(sch, e, c) ELSE {}]>> :
     p \in PartsAt(sch, t, c)}

\* ResolvedFile.present_at on the file that plans d.
ViewAt(r, d, s) ==
  {lo \in DOMAIN r.views[d] : lo <= s /\ \A q \in r.points : lo < q => s < q}

\* qualified_at: the namespace a reference to d is spelled with from inside
\* namespace c; home is the resolved file that plans d.
SpelledAt(home, d, c) == {home.views[d][lo] : lo \in ViewAt(home, d, c)}

\* _emit_packet_traits: packet_of<V, id> answers from the first definition to
\* the declaration's until.
PacketResolves(sch, r, t, v) ==
  /\ \E lo \in Fresh(r, t) : lo <= v
  /\ v < sch.decl[t].until

-----------------------------------------------------------------------------
(* A type alias over the types in cases, declared in r's file; home maps a *)
(* type to the resolution of its own file.  It is spelled at every         *)
(* snapshot where all of its versioned cases have a view, and a snapshot   *)
(* that spells the same C++ types as an earlier one repeats it.            *)

Spelling(cases, home, s) == [d \in cases |-> SpelledAt(home[d], d, s)]

Spellable(r, cases, home) ==
  {s \in r.points : \A d \in cases : SpelledAt(home[d], d, s) # {}}

\* _alias_plan: the snapshots whose entry names themselves.
AliasFresh(r, cases, home) ==
  {s \in Spellable(r, cases, home) :
     \A q \in Spellable(r, cases, home) :
       q < s => Spelling(cases, home, q) # Spelling(cases, home, s)}

\* _versioned_entries: an alias's last entry has no until.
AliasSelected(r, cases, home, v) ==
  {lo \in AliasFresh(r, cases, home) :
     lo <= v /\ \A l \in AliasFresh(r, cases, home) : lo < l => v < l}
=============================================================================
