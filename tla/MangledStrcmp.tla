--------------------------- MODULE MangledStrcmp ---------------------------
(***************************************************************************)
(* xsplice_mangled_strcmp, the name comparison the correlator uses for     *)
(* gcc-mangled names, over names written as sequences of characters (the   *)
(* terminating NUL is the end of the sequence). A character is a model    *)
(* value or a short string; which of them isdigit() accepts is Digits.     *)
(* MangledEqual is the equivalence spec section 4.1 defines, written      *)
(* without reference to the code, so that the two can be compared.       *)
(***************************************************************************)
EXTENDS Sequences, SequencesExt

CONSTANT Digits   \* the characters isdigit() accepts

(* s[i] is a digit; past the end is the NUL, which is not *)
IsDigitAt(s, i) == i <= Len(s) /\ s[i] \in Digits

(* the digit-skipping while loops: the rest of s after a run of digits *)
RECURSIVE SkipDigits(_)
SkipDigits(s) == IF IsDigitAt(s, 1) THEN SkipDigits(Tail(s)) ELSE s

(* Mutant: the check that s2 has a digit run at the same place is gone. *)
RECURSIVE MangledStrcmpNoS2Digit(_, _)
MangledStrcmpNoS2Digit(s1, s2) ==
  CASE s1 = << >> /\ s2 = << >> -> 0
    [] s1 = << >> \/ s2 = << >> \/ Head(s1) # Head(s2) -> 1
    [] Head(s1) = "." /\ IsDigitAt(s1, 2) ->
         MangledStrcmpNoS2Digit(SkipDigits(Tail(s1)), SkipDigits(Tail(s2)))
    [] OTHER -> MangledStrcmpNoS2Digit(Tail(s1), Tail(s2))

(* 0 when the names are equal up to their ".<digits>" runs, else 1. At a  *)
(* '.' that s1 follows with a digit, s2 must follow it with a digit too;  *)
(* both digit runs are then skipped.                                       *)
RECURSIVE xsplice_mangled_strcmp(_, _)
xsplice_mangled_strcmp(s1, s2) ==
  CASE s1 = << >> /\ s2 = << >> -> 0
    [] s1 = << >> \/ s2 = << >> \/ Head(s1) # Head(s2) -> 1
    [] Head(s1) = "." /\ IsDigitAt(s1, 2) /\ ~IsDigitAt(s2, 2) -> 1
    [] Head(s1) = "." /\ IsDigitAt(s1, 2) ->
         xsplice_mangled_strcmp(SkipDigits(Tail(s1)), SkipDigits(Tail(s2)))
    [] OTHER -> xsplice_mangled_strcmp(Tail(s1), Tail(s2))

Mangled(s1, s2) == xsplice_mangled_strcmp(s1, s2) = 0

-----------------------------------------------------------------------------
(* The reference: position k of s is a digit of a dot-digits run when a  *)
(* dot precedes it with only digits in between. The shape of a name       *)
(* replaces the digits of each run by one hash mark, which is not a       *)
(* character of any name; two names are mangled-equal when their shapes  *)
(* are equal.                                                              *)
InRun(s, k) ==
  /\ s[k] \in Digits
  /\ \E i \in 1..(k - 1) : s[i] = "." /\ \A m \in (i + 1)..k : s[m] \in Digits

Shape(s) ==
  LET kept == SelectSeq([k \in DOMAIN s |-> k], LAMBDA k : ~InRun(s, k) \/ s[k - 1] = ".")
  IN [j \in DOMAIN kept |-> IF InRun(s, kept[j]) THEN "#" ELSE s[kept[j]]]

MangledEqual(s1, s2) == Shape(s1) = Shape(s2)
=============================================================================
