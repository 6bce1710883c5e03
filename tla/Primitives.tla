----------------------------- MODULE Primitives -----------------------------
(***************************************************************************)
(* The fixed-width integers of stream.hpp: their bytes, and a reader.  A   *)
(* byte has Base values; a wire type is [bytes, signed, big].              *)
(* (A definition named X_... is X with a plausible mistake in it.)         *)
(***************************************************************************)
EXTENDS Integers, SequencesExt

CONSTANT Base    (* how many values a byte has                             *)

ASSUME BaseAssumption == Base \in Nat \ {0, 1}

-----------------------------------------------------------------------------
(* Numbers: two's complement of the width, in either byte order.  Varints  *)
(* are module Stream's; here they are widths like any other.               *)

Byte == 0 .. (Base - 1)

Power(k) ==
  LET power[j \in 0..k] == IF j = 0 THEN 1 ELSE Base * power[j - 1]
  IN  power[k]

Capacity(w) == Power(w.bytes)

\* static_cast
Cast(n, w) ==
  LET u == n % Capacity(w)
  IN  IF w.signed /\ 2 * u >= Capacity(w) THEN u - Capacity(w) ELSE u

Ordered(b, w) == IF w.big THEN Reverse(b) ELSE b

WriteNumber(n, w) ==
  Ordered([i \in 1..w.bytes |-> ((n % Capacity(w)) \div Power(i - 1)) % Base], w)

Number(b, w) ==
  LET lowest[k \in 0..w.bytes] == IF k = 0 THEN 0 ELSE lowest[k - 1] + Power(k - 1) * Ordered(b, w)[k]
  IN  Cast(lowest[w.bytes], w)

(* A reader is [status, pos, value]: what it has returned, its position,   *)
(* and what the place it reads into holds.  Once it has failed it stays    *)
(* as it is.                                                               *)
Fail(r, code) == [r EXCEPT !.status = code]

ReadNumber_AsZero(r, f, w) ==
  IF r.pos + w.bytes > Len(f) THEN [r EXCEPT !.value = 0]
  ELSE [r EXCEPT !.pos = @ + w.bytes, !.value = Number(SubSeq(f, r.pos + 1, r.pos + w.bytes), w)]
ReadNumber(r, f, w) ==
  IF r.pos + w.bytes > Len(f) THEN Fail(r, "message_size")
  ELSE [r EXCEPT !.pos = @ + w.bytes, !.value = Number(SubSeq(f, r.pos + 1, r.pos + w.bytes), w)]

U8 == [bytes |-> 1, signed |-> FALSE, big |-> FALSE]
I8 == [U8 EXCEPT !.signed = TRUE]

=============================================================================
