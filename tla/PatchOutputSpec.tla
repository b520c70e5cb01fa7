--------------------------- MODULE PatchOutputSpec ---------------------------
(***************************************************************************)
(* What spec sections 4.6 and 4.7 promise of the output stage, in one     *)
(* step: from the symbol list that migration leaves and the set of       *)
(* changed functions in it, either the patch table and the symbol table  *)
(* are written as described there, or the build fails because there is   *)
(* no FILE symbol, a function is not in the running image, or its running *)
(* copy is smaller than the patch site.                                   *)
(***************************************************************************)
EXTENDS Sequences, Naturals

CONSTANTS
  Symbols,       \* the symbols the output may hold
  NullSym,       \* the null symbol
  StringsSym,    \* the section symbol of .xsplice.strings
  Name(_),       \* a symbol's original name
  Type(_),       \* its STT_ type
  Bind(_),       \* its STB_ binding
  Running,       \* the running image's symbol table: set of [file, name, bind, addr, size]
  Resolve,       \* --resolve
  PatchInsnSize  \* the smallest function that can be patched

VARIABLES
  stage,    \* "idle", "writing", "written" or "failed"
  syms,     \* the output symbol list migration leaves
  changed,  \* its CHANGED functions
  table,    \* the .xsplice.funcs entries: [func, name, old_addr, old_size]
  symtab    \* the symbol table: [sym, name, index]

vars == << stage, syms, changed, table, symtab >>

(* The file hint: the name of the first FILE symbol, "" if there is none. *)
Hint(l) == LET f == SelectSeq(l, LAMBDA y : Type(y) = "FILE")
           IN IF f = << >> THEN "" ELSE Name(f[1])

(* The name a function has in the running image. *)
LiveName(l, y) == IF Bind(y) = "LOCAL" THEN Hint(l) \o "#" \o Name(y) ELSE Name(y)

Live(l, y) == { r \in Running : r.name = Name(y) /\ r.bind = Bind(y)
                                /\ (Bind(y) = "LOCAL" => r.file = Hint(l)) }
LiveEntry(l, y) == CHOOSE r \in Live(l, y) : TRUE

Patched(l) == SelectSeq(l, LAMBDA y : y \in changed)

Patchable(l) ==
  /\ Hint(l) # ""
  /\ \A i \in DOMAIN Patched(l) :
       LET y == Patched(l)[i]
       IN Live(l, y) # {} /\ LiveEntry(l, y).size >= PatchInsnSize

(* One entry per changed function, in list order. *)
Table(l) ==
  [ i \in DOMAIN Patched(l) |->
      LET y == Patched(l)[i]
      IN [ func |-> y, name |-> LiveName(l, y),
           old_addr |-> IF Resolve THEN LiveEntry(l, y).addr ELSE 0,
           old_size |-> LiveEntry(l, y).size ] ]

(* The buckets of section 4.7, in their order. *)
Bucket(y) == CASE y = NullSym -> 1
               [] Type(y) = "FILE" -> 2
               [] Bind(y) = "LOCAL" /\ Type(y) = "FUNC" -> 3
               [] Bind(y) = "LOCAL" -> 4
               [] OTHER -> 5

(* Bucket by bucket, each in the list's order. *)
Ordered(l) == LET B(k) == SelectSeq(l, LAMBDA y : Bucket(y) = k)
              IN B(1) \o B(2) \o B(3) \o B(4) \o B(5)

FinalName(l, y) ==
  IF Name(y) # "" /\ Type(y) \in {"FUNC", "OBJECT"} /\ Bind(y) = "LOCAL"
  THEN Hint(l) \o "#" \o Name(y) ELSE Name(y)

(* The symbol table: the list with the strings symbol appended, ordered, *)
(* renamed and indexed from 0.                                            *)
Symtab(l) == LET o == Ordered(Append(l, StringsSym))
             IN [ i \in DOMAIN o |-> [sym |-> o[i], name |-> FinalName(l, o[i]), index |-> i - 1] ]

Init ==
  /\ stage = "idle" /\ syms = << >> /\ changed = {}
  /\ table = << >> /\ symtab = << >>

(* The comparison and inclusion passes hand over their output. *)
Start ==
  /\ stage = "idle" /\ stage' = "writing"
  /\ syms' \in Seq(Symbols)
  /\ changed' \in SUBSET { y \in Symbols : Type(y) = "FUNC" }
  /\ UNCHANGED << table, symtab >>

Emit ==
  /\ stage = "writing" /\ Patchable(syms)
  /\ stage' = "written" /\ table' = Table(syms) /\ symtab' = Symtab(syms)
  /\ UNCHANGED << syms, changed >>

Fail ==
  /\ stage = "writing" /\ ~Patchable(syms)
  /\ stage' = "failed"
  /\ UNCHANGED << syms, changed, table, symtab >>

Next == Start \/ Emit \/ Fail

(* Once handed its input, the output stage ends, written or failed. *)
Spec == Init /\ [][Next]_vars /\ WF_vars(Emit \/ Fail)

(* Its safety part: every step the output stage takes is one of these. *)
SafetySpec == Init /\ [][Next]_vars
=============================================================================
