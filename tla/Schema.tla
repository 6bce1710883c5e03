------------------------------- MODULE Schema -------------------------------
(***************************************************************************)
(* The parsed schema, as descriptor.py holds it: files that import each    *)
(* other and the enums and structs they declare.  A schema is a record     *)
(*                                                                         *)
(*   imports : [Files -> Seq(Files)]    File.imports, sorted by name       *)
(*   decl    : [Types -> declaration]   one per module-scope declaration   *)
(*                                                                         *)
(* A declaration is [home, kind, since, until, parts].  Its parts are the  *)
(* members of an enum or the field versions of a struct, each a record     *)
(*   [name, shape, wire, refs, follows, since, until]                      *)
(* where shape stands for an enumerator's number or a field's type tree,   *)
(* wire for an enumerator's wire spelling, refs for the types the tree     *)
(* names and follows for the enums whose underlying type or member numbers *)
(* decide the field's encoding (EnumType.derived, BitsetType.enum_member,  *)
(* ArrayType.enum_member, LiteralType.enum_members).                       *)
(*                                                                         *)
(* Protocol versions are 0 .. Open-1.  A missing since= is 0 and a missing *)
(* until= is Open.                                                         *)
(***************************************************************************)
EXTENDS Naturals, Sequences

CONSTANTS
  Files,    (* the modules of the schema                                   *)
  Types,    (* the names its module-scope declarations are indexed by      *)
  Open      (* one more than the last protocol version; an open-ended until *)

ASSUME OpenAssumption == Open \in Nat \ {0}

Versions == 0 .. (Open - 1)

Span(x) == x.since \in Versions /\ x.until \in 1 .. Open

\* What the parser hands over.
IsSchema(sch) ==
  /\ sch.imports \in [Files -> Seq(Files)]
  /\ \A t \in Types :
       /\ sch.decl[t].home \in Files
       /\ Span(sch.decl[t])
       /\ \A p \in sch.decl[t].parts :
            Span(p) /\ p.refs \subseteq Types /\ p.follows \subseteq p.refs

Imports(sch, f) == {sch.imports[f][i] : i \in 1 .. Len(sch.imports[f])}

Home(sch, t)  == sch.decl[t].home
Owned(sch, f) == {t \in Types : Home(sch, t) = f}
IsEnum(sch, t) == sch.decl[t].kind = "enum"
OwnedEnums(sch, f) == {t \in Owned(sch, f) : IsEnum(sch, t)}

-----------------------------------------------------------------------------
(* Lifetimes.                                                              *)

InForce(x, v) == x.since <= v /\ v < x.until

\* The bounds a declaration, a field or a member spells out.  (A definition
\* named X_... here and below is X with a plausible mistake in it.)
Gates_Unbounded(x) == {x.since, x.until} \ {0}
Gates(x) == {x.since, x.until} \ {0, Open}

ChangePoints(sch, t) ==
  Gates(sch.decl[t]) \cup (UNION {Gates(p) : p \in sch.decl[t].parts})

PartsAt(sch, t, v) == {p \in sch.decl[t].parts : InForce(p, v)}

-----------------------------------------------------------------------------
(* References.  An enum references nothing.                                *)

References(sch, t) ==
  IF IsEnum(sch, t) THEN {} ELSE UNION {p.refs : p \in sch.decl[t].parts}

\* The files an import chain leads to from f, f included.
ImportClosed(sch, G) == \A g \in G : Imports(sch, g) \subseteq G

Visible(sch, f) ==
  {g \in Files : \A G \in SUBSET Files : f \in G /\ ImportClosed(sch, G) => g \in G}

\* A type reaches what an import chain leads to: a name comes from the file
\* itself or a direct import, and an alias brings in its own module's names.
RefsVisible(sch) ==
  \A t \in Types : \A r \in References(sch, t) : Home(sch, r) \in Visible(sch, Home(sch, t))

\* No chain of imports leads back to its start.
Acyclic(sch) == \A f \in Files : \A g \in Imports(sch, f) : f \notin Visible(sch, g)

-----------------------------------------------------------------------------
(* What the declarations mean, independently of any build.                 *)

\* The types whose definition changes at a known protocol version,
\* transitively: the least set holding every type with a change point and
\* every struct that references a member of the set.
ReferenceClosed(sch, S) ==
  /\ \A t \in Types : ChangePoints(sch, t) # {} => t \in S
  /\ \A t \in Types : References(sch, t) \cap S # {} => t \in S

Moving(sch) ==
  {t \in Types : \A S \in SUBSET Types : ReferenceClosed(sch, S) => t \in S}

\* An enum's numbering at v, which fields that follow it encode by.
Numbering(sch, e, v) == {<<p.name, p.shape>> : p \in PartsAt(sch, e, v)}

\* The declared shape of t at v: what the program on the other end of the
\* wire reads and writes at that version.
DeclaredShape(sch, t, v) ==
  {<<p.name, p.shape, p.wire, [e \in p.follows |-> Numbering(sch, e, v)]>> :
     p \in PartsAt(sch, t, v)}
=============================================================================
