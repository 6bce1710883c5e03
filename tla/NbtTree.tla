------------------------------ MODULE NbtTree -------------------------------
(***************************************************************************)
(* The tags of nbt.hpp: a client builds a CompoundTag by calls on it and   *)
(* on the tags it is given references to.                                  *)
(*                                                                         *)
(* A tag is [type, of, v].  The value tags (Byte to Double, String) are    *)
(* one type here, of one byte, and the two arrays another; v is that byte, *)
(* those bytes, a list's elements or a function from a compound's names,   *)
(* a byte each, 0 the empty one.  `of` is ListTag::type_, End elsewhere.   *)
(* (A definition named X_... is X with a plausible mistake in it.)         *)
(***************************************************************************)
EXTENDS Primitives

CONSTANTS
  Names,        (* the names calls use                                     *)
  Arguments,    (* the tags calls are given                                *)
  MaxCalls,     (* how many calls build a tag                              *)
  MaxSize,      (* how many elements a list may have                       *)
  MaxDepth      (* how deep a tree may be                                  *)

VARIABLES
  root,         (* the CompoundTag                                         *)
  calls,        (* how many calls there were                               *)
  retyped       (* whether an element of a list was assigned another type  *)

tree == <<root, calls, retyped>>

End == 0
Value == 1
Bytes == 2
List == 3
Compound == 4

Tag(type, v) == [type |-> type, of |-> End, v |-> v]
EndTag == Tag(End, <<>>)
ListOf(type) == [Tag(List, <<>>) EXCEPT !.of = type]
EmptyCompound == Tag(Compound, <<>>)

\* What a tag holds other tags by.
Parts(t) == IF t.type \in {List, Compound} THEN DOMAIN t.v ELSE {}

-----------------------------------------------------------------------------
(* References.  One is the way from a tag t to a tag in it: the names and  *)
(* indices in order, each with the tag it leads to.                        *)

Tip(t, ref) == IF ref = <<>> THEN t ELSE Last(ref).tag

Step(t, k) == [at |-> k, tag |-> t.v[k]]

Onward(t, ref) == {Append(ref, Step(Tip(t, ref), k)) : k \in Parts(Tip(t, ref))}

References(t) ==
  LET to[n \in 0 .. MaxDepth] == IF n = 0 THEN {<<>>} ELSE UNION {Onward(t, ref) : ref \in to[n - 1]}
  IN  UNION {to[n] : n \in 0 .. MaxDepth}

\* No tag of t lies deeper than that, a bound of the model.
Shallow(t) == \A ref \in References(t) : Len(ref) = MaxDepth => Parts(Tip(t, ref)) = {}

At(ref) == Tip(root, ref)

\* t with x in the place of what ref leads to, from there outwards.
With(t, ref, x) ==
  LET from[n \in 0 .. Len(ref)] ==
        IF n = 0 THEN x
        ELSE [Tip(t, SubSeq(ref, 1, Len(ref) - n)) EXCEPT !.v[ref[Len(ref) - n + 1].at] = from[n - 1]]
  IN  from[Len(ref)]

Call(ref, x) ==
  /\ calls < MaxCalls
  /\ root' = With(root, ref, x) /\ Shallow(root')
  /\ calls' = calls + 1

-----------------------------------------------------------------------------
(* Calls.  One that throws leaves a tag as it is, but an End tag has by    *)
(* then become the container that was asked for.                           *)

Become(t, empty) == IF t.type = End THEN empty ELSE t

Entry(name, x) == [n \in {name} |-> x]

\* The entries of v, and those of w under names v has not.
Joined(v, w) == [n \in DOMAIN v \cup DOMAIN w |-> IF n \in DOMAIN v THEN v[n] ELSE w[n]]

Pushed(l, x) == [type |-> List, of |-> x.type, v |-> Append(l.v, x)]

CanHold_AnyType(l, x) == x.type # End
CanHold(l, x) == x.type # End /\ l.of \in {End, x.type}

\* Tag::emplace_back, ListTag::emplace_back, push_back
EmplaceBack(ref, x) ==
  LET t == Become(At(ref), ListOf(End))
  IN  /\ ref # <<>> /\ (t.type = List => Len(t.v) < MaxSize)
      /\ Call(ref, IF t.type = List /\ CanHold(t, x) THEN Pushed(t, x) ELSE t)
      /\ UNCHANGED retyped

\* Tag::emplace, CompoundTag::emplace, insert, try_emplace: the first stays.
Emplace(ref, name, x) ==
  LET t == Become(At(ref), EmptyCompound)
  IN  /\ Call(ref, IF t.type = Compound THEN [t EXCEPT !.v = Joined(@, Entry(name, x))] ELSE t)
      /\ UNCHANGED retyped

\* Tag::operator[](key), CompoundTag::operator[]: a name that is not there is
\* inserted, with an End tag.
Subscript(ref, name) == Emplace(ref, name, EndTag)

\* CompoundTag::insert_or_assign
InsertOrAssign(ref, name, x) ==
  /\ At(ref).type = Compound
  /\ Call(ref, [At(ref) EXCEPT !.v = Joined(Entry(name, x), @)])
  /\ UNCHANGED retyped

\* An assignment through a reference: at, operator[], find, begin, get.
Assign(ref, x) ==
  /\ ref # <<>>
  /\ Call(ref, x)
  /\ retyped' = (retyped \/ (At(Front(ref)).type = List /\ At(ref).type # x.type))

\* ListTag::clear, CompoundTag::clear, ArrayTag::clear
Clear(ref) ==
  /\ At(ref).type \in {Bytes, List, Compound}
  /\ Call(ref, Tag(At(ref).type, <<>>))
  /\ UNCHANGED retyped

\* ListTag::erase: the type stays, of an empty list too.
EraseElement(ref, i) ==
  /\ At(ref).type = List /\ i \in DOMAIN At(ref).v
  /\ Call(ref, [At(ref) EXCEPT !.v = RemoveAt(@, i)])
  /\ UNCHANGED retyped

\* CompoundTag::erase
EraseEntry(ref, name) ==
  /\ At(ref).type = Compound /\ name \in DOMAIN At(ref).v
  /\ Call(ref, [At(ref) EXCEPT !.v = Restrict(@, DOMAIN @ \ {name})])
  /\ UNCHANGED retyped

\* The entries of v that a map of it comes to before `name`.
Lesser(v, name) == Restrict(v, {n \in DOMAIN v : n < name})

\* A compound as merge finds it while it goes through its entries: where it holds
\* the tag they are put in, the one that does so is copied with those before it.
Met(ref, source) ==
  LET way == SubSeq(ref, Len(source) + 1, Len(ref))
  IN  IF ~ IsStrictPrefix(source, ref) THEN At(source)
      ELSE With(At(source), way, [At(ref) EXCEPT !.v = Joined(@, Lesser(At(source).v, Head(way).at))])

\* CompoundTag::merge: as emplace, of each entry of another compound.
Merge(ref, source) ==
  /\ At(ref).type = Compound /\ At(source).type = Compound
  /\ Call(ref, [At(ref) EXCEPT !.v = Joined(@, Met(ref, source).v)])
  /\ UNCHANGED retyped

Calls ==
  \E ref \in References(root) :
    \/ \E x \in Arguments : EmplaceBack(ref, x)
    \/ \E x \in Arguments : Assign(ref, x)
    \/ \E name \in Names, x \in Arguments : Emplace(ref, name, x)
    \/ \E name \in Names : Subscript(ref, name)
    \/ \E name \in Names, x \in Arguments : InsertOrAssign(ref, name, x)
    \/ Clear(ref)
    \/ \E i \in 1..MaxSize : EraseElement(ref, i)
    \/ \E name \in Names : EraseEntry(ref, name)
    \/ \E source \in References(root) : Merge(ref, source)

Empty == root = EmptyCompound /\ calls = 0 /\ retyped = FALSE

Building == Empty /\ [][Calls]_tree

-----------------------------------------------------------------------------
\* A list has the type of its elements, and none of them is End.
Even(t) == t.type = List => \A i \in DOMAIN t.v : t.v[i].type = t.of /\ t.of # End

\* So it is for every list in t.
Uniform(t) == \A ref \in References(t) : Even(Tip(t, ref))

\* No name in t is given an End tag.
Closed(t) ==
  \A ref \in References(t) :
    Tip(t, ref).type = Compound => \A n \in Parts(Tip(t, ref)) : Tip(t, ref).v[n].type # End

\* "A homogeneous, ordered sequence of tags": whatever is called, in whatever
\* order, a list's elements keep its type, as long as no reference to one is
\* assigned a tag of another.
ListsAreUniform == ~ retyped => Uniform(root)

-----------------------------------------------------------------------------
(* What a tag is, built by calls or read: its payload is what its type     *)
(* says, and a count says how many elements it has.                        *)

Countable(v) == 2 * Len(v) < Base

IsTag(t) ==
  /\ t = [type |-> t.type, of |-> t.of, v |-> t.v]
  /\ t.type \in End .. Compound /\ t.of \in End .. Compound
  /\ t.type # List => t.of = End
  /\ t.type = End => t.v = <<>>
  /\ t.type = Value => t.v \in Byte
  /\ t.type = Bytes => t.v \in Seq(Byte) /\ Countable(t.v)
  /\ t.type = List => t.v \in Seq({t.v[i] : i \in DOMAIN t.v}) /\ Countable(t.v)
  /\ t.type = Compound => t.v = [n \in DOMAIN t.v |-> t.v[n]] /\ DOMAIN t.v \subseteq Byte

Family(S) == \A t \in S : IsTag(t) /\ Even(t) /\ \A k \in Parts(t) : t.v[k] \in S

\* What calls are given was built by such calls, and its parts can be given too.
ASSUME ArgumentsAssumption == Family(Arguments)
ASSUME NamesAssumption == Names \subseteq Byte
\* A list is no longer than its count can say.
ASSUME SizeAssumption == MaxSize \in Nat /\ 2 * MaxSize < Base
ASSUME DepthAssumption == MaxDepth \in Nat
=============================================================================
