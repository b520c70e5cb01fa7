------------------------- MODULE SpecialSectionSpec -------------------------
(***************************************************************************)
(* What the special-section rewriter promises (spec section 4.5 and the    *)
(* compaction property of section 8), one special section per step, in    *)
(* table order:                                                            *)
(*  - the section is cut into groups: fixed-size ones, or for .fixup the  *)
(*    ranges between the ordered .fixup offsets referenced from           *)
(*    .rela.ex_table, the last one ending at the padded section end;      *)
(*  - the walk must end exactly at the aligned size, or the run fails;     *)
(*  - a group is kept iff one of its relas targets an included function;  *)
(*  - the section becomes the kept groups in original order, its relas    *)
(*    those of the kept groups rebased by dest_offset - src_offset, and   *)
(*    their targets are included;                                          *)
(*  - with no group kept, both sections are dropped and made SAME.         *)
(***************************************************************************)
EXTENDS SpecialTable, FiniteSets

VARIABLES
  in,          \* the input the run started from
  cur,         \* index into SpecialSections of the next section
  phase,       \* "run", "done" or "error"
  data,        \* [section -> Seq(label)], the section contents
  relas,       \* [section -> Seq(Rela)], the relas of its rela section
  secInclude,  \* included sections (base names, and RelaName of them)
  symInclude,  \* included symbols
  secStatus    \* [sections and rela sections -> status]

avars == << in, cur, phase, data, relas, secInclude, symInclude, secStatus >>

AllSecs == Range(SpecialSections) \cup { RelaName(s) : s \in Range(SpecialSections) }

Init ==
  /\ in \in Inputs
  /\ cur = 1
  /\ phase = "run"
  /\ data = [s \in Range(SpecialSections) |-> ByteLabels(in.size[s])]
  /\ relas = in.relas
  /\ secInclude = {}
  /\ symInclude = in.incl
  /\ secStatus = [s \in AllSecs |-> "CHANGED"]

(* The groups of section s as the spec defines them: [start, size]. *)
SpecGroups(s) ==
  IF s = ".fixup"
  THEN LET starts == SetToSortSeq({ r.add : r \in { x \in Range(relas[".ex_table"]) :
                                                     x.sym = FixupSym } },
                                  LAMBDA a, b : a < b)
           padded == AlignedSize(in.size[s], in.align[s])
           endOf(k) == IF k < Len(starts) THEN starts[k + 1] ELSE padded
       IN [k \in DOMAIN starts |-> [start |-> starts[k], size |-> endOf(k) - starts[k]]]
  ELSE LET gs == FixedGroupSize(s)
       IN [k \in 1..((in.size[s] + gs - 1) \div gs) |-> [start |-> (k - 1) * gs, size |-> gs]]

(* The groups tile the section from offset 0 to its aligned size. *)
WalkOK(s) ==
  LET g == SpecGroups(s)
      aligned == AlignedSize(in.size[s], in.align[s])
  IN IF g = << >> THEN aligned = 0
     ELSE g[1].start = 0 /\ g[Len(g)].start + g[Len(g)].size = aligned

Compacted(s) ==
  LET kept == SelectSeq(SpecGroups(s),
                        LAMBDA g : should_keep_rela_group(relas[s], g.start, g.size, in.incl))
      destStart(k) == FoldLeft(LAMBDA acc, g : acc + g.size, 0, SubSeq(kept, 1, k - 1))
      groupRelas(k) ==
        LET rs == SelectSeq(relas[s], LAMBDA r : r.off >= kept[k].start
                                              /\ r.off < kept[k].start + kept[k].size)
        IN [j \in DOMAIN rs |-> [rs[j] EXCEPT !.off = @ - kept[k].start + destStart(k)]]
      newRelas == FlattenSeq([k \in DOMAIN kept |-> groupRelas(k)])
  IN [ kept |-> kept,
       data |-> FlattenSeq([k \in DOMAIN kept |->
                  [i \in 1..kept[k].size |-> kept[k].start + i - 1]]),
       relas |-> newRelas ]

Regenerate ==
  LET s == SpecialSections[cur]
      c == Compacted(s)
  IN /\ phase = "run" /\ cur <= Len(SpecialSections)
     /\ cur' = cur + 1
     /\ IF s \notin in.secs \cap in.relaSecs
        THEN UNCHANGED << phase, data, relas, secInclude, symInclude, secStatus >>
        ELSE IF ~WalkOK(s)
        THEN phase' = "error" /\ UNCHANGED << data, relas, secInclude, symInclude, secStatus >>
        ELSE IF c.kept = << >>
        THEN /\ secStatus' = [secStatus EXCEPT ![s] = "SAME", ![RelaName(s)] = "SAME"]
             /\ secInclude' = secInclude \ {s, RelaName(s)}
             /\ UNCHANGED << phase, data, relas, symInclude >>
        ELSE /\ data' = [data EXCEPT ![s] = c.data]
             /\ relas' = [relas EXCEPT ![s] = c.relas]
             /\ secInclude' = secInclude \cup {s, RelaName(s)}
             /\ symInclude' = symInclude \cup { r.sym : r \in Range(c.relas) }
             /\ UNCHANGED << phase, secStatus >>
     /\ UNCHANGED in

Finish ==
  /\ phase = "run" /\ cur > Len(SpecialSections)
  /\ phase' = "done"
  /\ UNCHANGED << in, cur, data, relas, secInclude, symInclude, secStatus >>

Next == Regenerate \/ Finish

Spec == Init /\ [][Next]_avars
=============================================================================
