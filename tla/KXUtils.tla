------------------------------- MODULE KXUtils -------------------------------
(***************************************************************************)
(* The comparison of X server timestamps and request serials               *)
(* (src/platforms/xcb/kxutils.cpp): both count up for ever and only their  *)
(* low 32 bits are looked at.                                              *)
(***************************************************************************)
EXTENDS Integers

CONSTANT Modulus      \* 2^32

ASSUME ModulusAssumption == Modulus \in Nat /\ Modulus >= 4 /\ Modulus % 2 = 0

\* Comparison that forgets the counters wrap around.
timestampCompare_unwrapped(time1, time2) ==
  (time1 % Modulus) - (time2 % Modulus)

\* KXUtils::timestampCompare(), like strcmp()
timestampCompare(time1, time2) ==
  LET distance == (time1 - time2) % Modulus
  IN  IF distance = 0 THEN 0 ELSE IF distance < Modulus \div 2 - 1 THEN 1 ELSE -1

\* How far apart two counters may be for the comparison to be right, on the side
\* where the first is the larger one.
Reach == Modulus \div 2 - 2
=============================================================================
