------------------------- MODULE MC_MangledStrcmp -------------------------
(***************************************************************************)
(* Every pair of names of up to MaxLen characters over a small alphabet   *)
(* with a '.', a letter and two digits is compared once.                  *)
(***************************************************************************)
EXTENDS MangledStrcmp, Naturals

CONSTANTS Letters, MaxLen

Chars == Letters \cup Digits \cup {"."}

Names == UNION { [1..n -> Chars] : n \in 0..MaxLen }

VARIABLES s1, s2, res   \* res: the result once compared, -1 before

vars == << s1, s2, res >>

Init == s1 \in Names /\ s2 \in Names /\ res = -1

Compare == res = -1 /\ res' = xsplice_mangled_strcmp(s1, s2) /\ UNCHANGED << s1, s2 >>

Compared == res # -1 /\ UNCHANGED vars

Next == Compare \/ Compared

Spec == Init /\ [][Next]_vars

(* xsplice_mangled_strcmp returns 0 exactly for the pairs of names that  *)
(* are equal outside their ".<digits>" runs, runs that must be '.' and at *)
(* least one digit, in both names at the same place (spec section 4.1).   *)
MangledStrcmpIsMangledEquality ==
  res # -1 => (res = 0 <=> MangledEqual(s1, s2))
=============================================================================
