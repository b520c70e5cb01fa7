------------------------- MODULE MC_SpecialSection -------------------------
(***************************************************************************)
(* An x86 patched object with three exception-table entries. Entry e is    *)
(* the 8-byte group at 8(e-1) of .ex_table: a rela to the faulting        *)
(* function at +0 and a rela to .fixup+addend at +4. The fixup code of    *)
(* entry e is the .fixup group Share[e]; group k belongs to function fk,  *)
(* is 1 or 2 bytes long, and holds the jump back to fk (a rela in          *)
(* .rela.fixup at its last byte). Two entries of one function may share a *)
(* fixup group. Init ranges over the functions whose sections were        *)
(* included, the sharing pattern and the group sizes.                     *)
(***************************************************************************)
EXTENDS SpecialSection, TLC

CONSTANTS
  Unsorted,  \* may .ex_table list the fixups out of address order
  ExSize,    \* sh_size of .ex_table
  FixAlign   \* sh_addralign of .fixup

(* Sharing patterns: entry -> fixup group. In the sorted ones the fixup   *)
(* code is laid out in the order of the entries, as the compiler emits   *)
(* both sections.                                                          *)
Patterns ==
  { <<1, 2, 3>>, <<1, 1, 2>>, <<1, 2, 2>> } \cup (IF Unsorted THEN { <<2, 1, 3>> } ELSE {})

FnSeq == << "f1", "f2", "f3" >>
MCFns == Range(FnSeq)

NGroups(share) == Max(Range(share))

(* start of fixup group k *)
Start(sizes, k) == FoldLeft(LAMBDA a, b : a + b, 0, SubSeq(sizes, 1, k - 1))

ExRelas(share, sizes) ==
  FlattenSeq([e \in DOMAIN share |->
    << [sym |-> FnSeq[share[e]], off |-> 8 * (e - 1), add |-> 0],
       [sym |-> FixupSym, off |-> 8 * (e - 1) + 4, add |-> Start(sizes, share[e])] >>])

FixRelas(sizes) ==
  [k \in DOMAIN sizes |-> [sym |-> FnSeq[k], off |-> Start(sizes, k) + sizes[k] - 1, add |-> 0]]

MkInput(share, sizes, incl) ==
  LET present == {".fixup", ".ex_table"}
  IN [ secs |-> present, relaSecs |-> present,
       size |-> [s \in Range(SpecialSections) |->
                   CASE s = ".fixup" -> Start(sizes, Len(sizes) + 1)
                     [] s = ".ex_table" -> ExSize
                     [] OTHER -> 0],
       align |-> [s \in Range(SpecialSections) |->
                   CASE s = ".fixup" -> FixAlign [] s = ".ex_table" -> 8 [] OTHER -> 1],
       relas |-> [s \in Range(SpecialSections) |->
                   CASE s = ".fixup" -> FixRelas(sizes)
                     [] s = ".ex_table" -> ExRelas(share, sizes)
                     [] OTHER -> << >>],
       incl |-> incl ]

MCInputs ==
  UNION { { MkInput(share, sizes, incl) :
              sizes \in [1..NGroups(share) -> {1, 2}], incl \in SUBSET MCFns } :
          share \in Patterns }
=============================================================================
