---------------------------- MODULE SpecialTable ----------------------------
(***************************************************************************)
(* What xsplice_process_special_sections works on: the special_sections[] *)
(* table of create-diff-object.c, and the part of the patched object the   *)
(* rewriter reads and writes. Section bytes are abstracted to labels: the  *)
(* byte at original offset i of a section carries the label i, so a       *)
(* compacted section says which original bytes it holds, and a label not  *)
(* below sh_size is a byte read past the end of the source buffer.        *)
(***************************************************************************)
EXTENDS Integers, Sequences, SequencesExt

CONSTANTS
  Fns,       \* function symbols (STT_FUNC) the special sections refer to
  FixupSym,  \* the section symbol named ".fixup" (STT_SECTION)
  Inputs     \* possible states of the object when the rewriter starts

(* special_sections[], in table order *)
SpecialSections ==
  << ".bug_frames.0", ".bug_frames.1", ".bug_frames.2", ".bug_frames.3",
     ".fixup", ".ex_table", ".altinstructions" >>

(* The constant group_size callbacks; .fixup has the variable one. *)
FixedGroupSize(s) ==
  CASE s \in {".bug_frames.0", ".bug_frames.1", ".bug_frames.2", ".ex_table"} -> 8
    [] s = ".bug_frames.3" -> 16
    [] s = ".altinstructions" -> 12
    [] OTHER -> 0

RelaName(s) == ".rela" \o s

Syms == Fns \cup {FixupSym}

(* A relocation: target symbol, r_offset in the base section, r_addend. *)
Rela == [sym : Syms, off : Int, add : Int]

(* The state the rewriter starts from:                                    *)
(*  secs: special sections present; relaSecs: those with a rela section;  *)
(*  size / align: sh_size and sh_addralign; relas: the relocation lists;  *)
(*  incl: functions whose sections are included;                           *)
(*  status: status of the special sections and their rela sections.       *)
Input ==
  [ secs : SUBSET Range(SpecialSections), relaSecs : SUBSET Range(SpecialSections),
    size : [Range(SpecialSections) -> Nat], align : [Range(SpecialSections) -> Nat \ {0}],
    relas : [Range(SpecialSections) -> Seq(Rela)], incl : SUBSET Fns ]

ASSUME FixupSym \notin Fns /\ Inputs \subseteq Input

(* Section size rounded up to its alignment, as the code computes it. *)
AlignedSize(size, align) == ((size + align - 1) \div align) * align

(* The byte labels of an unmodified section of n bytes. *)
ByteLabels(n) == [i \in 1..n |-> i - 1]

(* should_keep_rela_group: a rela in [start, start + size) targets a      *)
(* function whose section is included.                                    *)
should_keep_rela_group(rl, start, size, incl) ==
  \E i \in DOMAIN rl : /\ rl[i].off >= start /\ rl[i].off < start + size
                       /\ rl[i].sym \in Fns /\ rl[i].sym \in incl
=============================================================================
