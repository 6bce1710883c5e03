---------------------------- MODULE PoolContract ----------------------------
(***************************************************************************)
(* What the pool promises its backends, whatever order the files are asked *)
(* for in: a file is resolved once, after its imports, and its resolution  *)
(* is faithful to the declarations at every protocol version.              *)
(***************************************************************************)
EXTENDS Selectors

CONSTANTS Schemas, Unresolved

VARIABLES schema, resolved

Moved(f) == Owned(schema, f) \cap Moving(schema)

\* The selector of every versioned type answers exactly the versions the
\* type is declared at, each with one definition.
SelectorsTotal(f, r) ==
  \A t \in Moved(f), v \in Versions :
    IF InForce(schema.decl[t], v)
    THEN \E c \in Versions : Selected(schema, r, t, v) = {c}
    ELSE Selected(schema, r, t, v) = {}

\* The definition a version is handed is the one declared for it.
ShapesDeclared(f, r) ==
  \A t \in Moved(f), v \in Versions :
    \A c \in Selected(schema, r, t, v) :
      Defined(schema, r, t, c) = DeclaredShape(schema, t, v)

\* ... and so, transitively, are the types it is built from: the namespace it
\* spells a referenced type in is the one the referenced type's own selector
\* picks for the version.  home[d] is the resolution of d's file.
ReferencesAgree(f, r, home) ==
  \A t \in Moved(f), v \in Versions :
    \A c \in Selected(schema, r, t, v) :
      \A p \in PartsAt(schema, t, v) :
        \A d \in (p.refs \cap Moving(schema)) \ {t} :
          SpelledAt(home[d], d, c) = Selected(schema, home[d], d, v)

\* A definition is made only for a new shape: the next one differs from it, in
\* its own fields or in the namespace of a type it references.
NoneRedundant(f, r, home) ==
  \A t \in Moved(f) : \A c, n \in Fresh(r, t) :
    (c < n /\ \A l \in Fresh(r, t) : c < l => n <= l) =>
      \/ \E s \in ViewAt(r, t, n - 1) : Defined(schema, r, t, s) # Defined(schema, r, t, n)
      \/ \E d \in (References(schema, t) \cap Moving(schema)) \ {t} :
           \E s \in ViewAt(r, t, n - 1) :
             SpelledAt(home[d], d, s) # SpelledAt(home[d], d, n)

\* packet_of<V, id> answers exactly the versions the type is declared at.
PacketsTotal(f, r) ==
  \A t \in Moved(f), v \in Versions :
    PacketResolves(schema, r, t, v) <=> InForce(schema.decl[t], v)

\* Exactly the types whose definition moves are split, so a type left with one
\* definition has one shape; and the split is right.
Faithful(f, r, home) ==
  /\ r.versioned \cap Owned(schema, f) = Moved(f)
  /\ DOMAIN r.views = Moved(f)
  /\ SelectorsTotal(f, r) /\ PacketsTotal(f, r)
  /\ ShapesDeclared(f, r)
  /\ ReferencesAgree(f, r, home) /\ NoneRedundant(f, r, home)

Init == schema \in Schemas /\ resolved = [f \in Files |-> Unresolved]

Resolve(f) ==
  /\ resolved[f] = Unresolved
  /\ \A g \in Imports(schema, f) : resolved[g] # Unresolved
  /\ resolved'[f] # Unresolved
  /\ resolved' = [resolved EXCEPT ![f] = resolved'[f]]
  /\ LET home == [d \in Types |-> resolved'[Home(schema, d)]]
     IN  Faithful(f, resolved'[f], home)
  /\ UNCHANGED schema

Next == \E f \in Files : Resolve(f)

Spec == Init /\ [][Next]_<<schema, resolved>>
=============================================================================
