--------------------------- MODULE SpecialSection ---------------------------
(***************************************************************************)
(* xsplice_process_special_sections, xsplice_regenerate_special_section    *)
(* and fixup_group_size at byte-offset level. The loop of                  *)
(* xsplice_regenerate_special_section is modelled one group per step, so  *)
(* that the walk's progress, the buffers it copies through and the order  *)
(* in which the special sections are rewritten are visible; every other  *)
(* function is one step.                                                   *)
(***************************************************************************)
EXTENDS SpecialTable, FiniteSets

VARIABLES
  in, cur, data, relas, secInclude, symInclude, secStatus, \* as in SpecialSectionSpec
  pc,          \* "next" (loop head of xsplice_process_special_sections),
               \* "loop" (inside xsplice_regenerate_special_section), "done", "error"
  srcOff,      \* src_offset
  destOff,     \* dest_offset
  destBuf,     \* labels of the bytes memcpy'd into dest
  newrelas,    \* the newrelas list
  overrun,     \* some memcpy read past sh_size or wrote past the malloc'd sh_size
  saved        \* history: relas and symInclude when the current section began

vars == << in, cur, data, relas, secInclude, symInclude, secStatus,
           pc, srcOff, destOff, destBuf, newrelas, overrun, saved >>

AllSecs == Range(SpecialSections) \cup { RelaName(s) : s \in Range(SpecialSections) }

Init ==
  /\ in \in Inputs
  /\ cur = 1
  /\ pc = "next"
  /\ data = [s \in Range(SpecialSections) |-> ByteLabels(in.size[s])]
  /\ relas = in.relas
  /\ secInclude = {}
  /\ symInclude = in.incl
  /\ secStatus = [s \in AllSecs |-> "CHANGED"]
  /\ srcOff = 0 /\ destOff = 0 /\ destBuf = << >> /\ newrelas = << >>
  /\ overrun = FALSE
  /\ saved = [relas |-> relas, syms |-> symInclude]

Cur == SpecialSections[cur]

(* fixup_group_size: the first .fixup rela of .rela.ex_table with addend  *)
(* offset starts the group; the next .fixup rela after it in list order   *)
(* with a larger addend ends it, else the section's sh_size does.        *)
(* ok = FALSE is one of the ERRORs of the function.                        *)
(* Mutant: the next group may start at the same addend. *)
FixupEndSameAddend(size, offset, rl, i) ==
  LET later == { j \in (i + 1)..Len(rl) : rl[j].sym = FixupSym /\ rl[j].add >= offset }
  IN IF later = {} THEN size - offset ELSE rl[Min(later)].add - offset

(* Mutant: the last group is sized one byte too long. *)
FixupEndPastSize(size, offset, rl, i) ==
  LET later == { j \in (i + 1)..Len(rl) : rl[j].sym = FixupSym /\ rl[j].add > offset }
  IN IF later = {} THEN size - offset + 1 ELSE rl[Min(later)].add - offset

FixupEnd(size, offset, rl, i) ==
  LET later == { j \in (i + 1)..Len(rl) : rl[j].sym = FixupSym /\ rl[j].add > offset }
  IN IF later = {} THEN size - offset ELSE rl[Min(later)].add - offset

fixup_group_size(offset) ==
  LET rl == relas[".ex_table"]
      first == { i \in DOMAIN rl : rl[i].sym = FixupSym /\ rl[i].add = offset }
  IN IF ".ex_table" \notin in.secs \cap in.relaSecs \/ first = {}
     THEN [ok |-> FALSE, size |-> 0]
     ELSE [ok |-> TRUE, size |-> FixupEnd(in.size[".fixup"], offset, rl, Min(first))]

GroupSizeAt(s, offset) ==
  IF s = ".fixup" THEN fixup_group_size(offset)
  ELSE [ok |-> TRUE, size |-> FixedGroupSize(s)]

(* Mutant: the sign of dest_offset is wrong. *)
RebaseSwapped(r, src, dest) == [r EXCEPT !.off = @ - (src + dest)]

(* Mutant: relas are rebased to the start of the section, not of dest. *)
RebaseNoDest(r, src, dest) == [r EXCEPT !.off = @ - src]

(* "rela->offset -= src_offset - dest_offset" *)
Rebase(r, src, dest) == [r EXCEPT !.off = @ - (src - dest)]

(* The loop head of xsplice_process_special_sections: skip a special     *)
(* section that is absent or has no rela section, else start            *)
(* xsplice_regenerate_special_section on it (malloc dest, offsets 0).    *)
NextSpecial ==
  /\ pc = "next" /\ cur <= Len(SpecialSections)
  /\ IF Cur \in in.secs \cap in.relaSecs
     THEN /\ pc' = "loop"
          /\ cur' = cur
          /\ srcOff' = 0 /\ destOff' = 0 /\ destBuf' = << >> /\ newrelas' = << >>
          /\ saved' = [relas |-> relas, syms |-> symInclude]
     ELSE /\ cur' = cur + 1
          /\ UNCHANGED << pc, srcOff, destOff, destBuf, newrelas, saved >>
  /\ UNCHANGED << in, data, relas, secInclude, symInclude, secStatus, overrun >>

(* One iteration of the group loop of xsplice_regenerate_special_section:  *)
(* size the group, and if it is kept move its relas (list order) to       *)
(* newrelas rebased, include their targets and copy its bytes to dest.    *)
RegenerateGroup ==
  LET s == Cur
      g == GroupSizeAt(s, srcOff)
      gs == g.size
      inGroup(r) == r.off >= srcOff /\ r.off < srcOff + gs
      moved == SelectSeq(relas[s], inGroup)
  IN /\ pc = "loop" /\ srcOff < in.size[s]
     /\ IF ~g.ok
        THEN /\ pc' = "error"   \* "can't find .fixup rela group at offset"
             /\ UNCHANGED << relas, symInclude, srcOff, destOff, destBuf, newrelas, overrun >>
        ELSE /\ srcOff' = srcOff + gs
             /\ IF should_keep_rela_group(relas[s], srcOff, gs, in.incl)
                THEN /\ relas' = [relas EXCEPT ![s] = SelectSeq(@, LAMBDA r : ~inGroup(r))]
                     /\ newrelas' = newrelas \o [j \in DOMAIN moved |-> Rebase(moved[j], srcOff, destOff)]
                     /\ symInclude' = symInclude \cup { r.sym : r \in Range(moved) }
                     /\ destBuf' = destBuf \o [i \in 1..gs |-> srcOff + i - 1]
                     /\ destOff' = destOff + gs
                     /\ overrun' = (overrun \/ srcOff + gs > in.size[s])
                     /\ UNCHANGED pc
                ELSE UNCHANGED << pc, relas, newrelas, symInclude, destBuf, destOff, overrun >>
  /\ UNCHANGED << in, cur, data, secInclude, secStatus, saved >>

(* After the loop: the aligned-size check, then drop the section pair or *)
(* install newrelas and the dest buffer.                                  *)
RegenerateDone ==
  LET s == Cur
  IN /\ pc = "loop" /\ srcOff >= in.size[s]
     /\ IF srcOff # AlignedSize(in.size[s], in.align[s])
        THEN /\ pc' = "error"   \* "group size mismatch for section"
             /\ UNCHANGED << cur, data, relas, secInclude, secStatus >>
        ELSE /\ pc' = "next"
             /\ cur' = cur + 1
             /\ IF destOff = 0
                THEN /\ secStatus' = [secStatus EXCEPT ![s] = "SAME", ![RelaName(s)] = "SAME"]
                     /\ secInclude' = secInclude \ {s, RelaName(s)}
                     /\ UNCHANGED << data, relas >>
                ELSE /\ relas' = [relas EXCEPT ![s] = newrelas]
                     /\ data' = [data EXCEPT ![s] = destBuf]
                     /\ secInclude' = secInclude \cup {s, RelaName(s)}
                     /\ UNCHANGED secStatus
     /\ UNCHANGED << in, symInclude, srcOff, destOff, destBuf, newrelas, overrun, saved >>

(* The end of the special_sections[] loop (no .altinstr_replacement is    *)
(* present in these inputs; DiffPipeline models that loop).               *)
SpecialsDone ==
  /\ pc = "next" /\ cur > Len(SpecialSections)
  /\ pc' = "done"
  /\ UNCHANGED << in, cur, data, relas, secInclude, symInclude, secStatus,
                  srcOff, destOff, destBuf, newrelas, overrun, saved >>

Terminated == pc \in {"done", "error"} /\ UNCHANGED vars

Next == NextSpecial \/ RegenerateGroup \/ RegenerateDone \/ SpecialsDone \/ Terminated

(* A sequential program: the next step is always taken. *)
Spec == Init /\ [][Next]_vars /\ WF_vars(Next)

-----------------------------------------------------------------------------
(* Properties                                                              *)

TypeOK ==
  /\ pc \in {"next", "loop", "done", "error"}
  /\ cur \in 1..(Len(SpecialSections) + 1)
  /\ \A s \in Range(SpecialSections) : \A i \in DOMAIN relas[s] : relas[s][i] \in Rela
  /\ \A i \in DOMAIN newrelas : newrelas[i] \in Rela /\ newrelas[i].off >= 0
  /\ srcOff \in Nat /\ destOff \in Nat /\ destOff = Len(destBuf)
  /\ secInclude \subseteq AllSecs /\ symInclude \subseteq Syms
  /\ overrun \in BOOLEAN

(* The refinement mapping: inside the group loop the abstract state is     *)
(* the state before xsplice_regenerate_special_section began; an ERROR    *)
(* anywhere in the section is the abstract failing step, which consumes  *)
(* the section.                                                            *)
Abs == INSTANCE SpecialSectionSpec WITH
         phase <- CASE pc = "error" -> "error" [] pc = "done" -> "done" [] OTHER -> "run",
         cur <- IF pc = "error" THEN cur + 1 ELSE cur,
         relas <- IF pc \in {"loop", "error"} THEN saved.relas ELSE relas,
         symInclude <- IF pc \in {"loop", "error"} THEN saved.syms ELSE symInclude

(* xsplice_regenerate_special_section, with fixup_group_size deriving the  *)
(* .fixup groups from list order and the unpadded sh_size, implements the *)
(* rewriter of spec section 4.5.                                          *)
ImplementsSpecialSectionSpec == Abs!Spec

(* The group walk terminates: every group fixup_group_size or the table   *)
(* gives has a positive size, so the loop of                              *)
(* xsplice_regenerate_special_section always ends.                        *)
WalkTerminates == <>(pc \in {"done", "error"})

(* No memcpy of the group loop reads past the end of the source section   *)
(* or writes past the sh_size bytes malloc'd for dest; the aligned-size   *)
(* check runs only after the loop.                                         *)
NoBufferOverrun == ~overrun

(* After .fixup has been compacted, every .ex_table entry that is kept    *)
(* still points at the fixup code it pointed at: the addend of its        *)
(* .fixup rela is the new offset of the byte that was at the old addend.  *)
ExTableFixupTargets ==
  pc = "done" /\ ".fixup" \in secInclude =>
    \A r \in Range(relas[".ex_table"]) :
      r.sym = FixupSym =>
        LET orig == data[".ex_table"][r.off + 1]   \* original offset of the rela
            r0 == CHOOSE x \in Range(in.relas[".ex_table"]) : x.off = orig
        IN /\ r.add < Len(data[".fixup"])
           /\ data[".fixup"][r.add + 1] = r0.add
=============================================================================
