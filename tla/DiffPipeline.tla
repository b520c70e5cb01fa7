---------------------------- MODULE DiffPipeline ----------------------------
(***************************************************************************)
(* The passes of main() in create-diff-object.c that run on the patched   *)
(* object once it has been correlated with the base object, from          *)
(* xsplice_mark_ignored_sections to xsplice_migrate_included_elements,    *)
(* preceded by the header checks and xsplice_mark_grouped_sections, which *)
(* main runs before correlation and which nothing in between reads.      *)
(* The program is single-threaded: each pass is one action that models    *)
(* the whole function, pc names the pass that runs next, and every        *)
(* nondeterministic choice is made in Init, over the inputs: which        *)
(* sections and symbols have a twin in the base object, which twinned     *)
(* sections compare unequal, and the relocation lists.                    *)
(***************************************************************************)
EXTENDS XspliceObject, SequencesExt

CONSTANTS
  Inputs,            \* set of possible correlated inputs (records, see Input)
  IgnoreSections,    \* relas of .xsplice.ignore.sections: Seq([str, sec])
  IgnoreFunctions    \* relas of .xsplice.ignore.functions: Seq(Syms)

RelaSecs == { s \in Secs : IsRelaSection(s) }

(* One correlated pair of objects, as seen from the patched side.          *)
(*  twinSecs / twinSyms: sec->twin / sym->twin is set (correlation),      *)
(*  differs: twinned sections whose size, bytes or relas compare unequal, *)
(*  baseSecTwin[s]: sym->twin->sec->twin, the patched section that twins   *)
(*     the section of s's base counterpart,                                *)
(*  relas: the relocation lists of the patched object,                    *)
(*  headersOK: the ELF headers agree and neither object has program       *)
(*     headers.                                                            *)
Input ==
  [ twinSecs : SUBSET Secs, twinSyms : SUBSET Syms, differs : SUBSET Secs,
    baseSecTwin : [Syms -> Secs \cup {NoSec}], relas : [RelaSecs -> Seq(Rela)],
    headersOK : BOOLEAN ]

ASSUME Inputs \subseteq Input
ASSUME \A i \in 1..Len(IgnoreSections) :
         IgnoreSections[i] \in [str : Secs, sec : Secs]

VARIABLES
  pc,         \* the pass of main() that runs next, or how the program ended
  in,         \* the input, read but never written
  secStatus,  \* sec->status
  symStatus,  \* sym->status
  secIgnore,  \* sections with sec->ignore set
  secGrouped, \* sections with sec->grouped set
  secInclude, \* sections with sec->include set
  symInclude, \* symbols with sym->include set
  relas,      \* [RelaSecs -> Seq(Rela)], sec->relas
  secSym,     \* sec->sym, the bundled symbol
  secSecsym,  \* sec->secsym
  symSec,     \* sym->sec
  numChanged, \* return value of xsplice_include_changed_functions
  newGlobals  \* return value of xsplice_include_new_globals

vars == << pc, in, secStatus, symStatus, secIgnore, secGrouped, secInclude, symInclude,
           relas, secSym, secSecsym, symSec, numChanged, newGlobals >>

Ended == { "done", "noChange", "diffFatal", "error" }

Init ==
  /\ in \in Inputs
  /\ pc = "checkHeaders"
  \* set by xsplice_correlate_sections (and _symbols, lines 412-415): twins
  \* start SAME, every other element keeps the zero of enum status, NEW
  /\ secStatus = [s \in Secs |-> IF s \in in.twinSecs THEN "SAME" ELSE "NEW"]
  /\ symStatus = [s \in Syms |-> IF s \in in.twinSyms THEN "SAME" ELSE "NEW"]
  /\ secIgnore = {}
  /\ secGrouped = {}
  /\ secInclude = {}
  /\ symInclude = {}
  /\ relas = in.relas
  /\ secSym = Bundled0
  /\ secSecsym = Secsym0
  /\ symSec = SymSec0
  /\ numChanged = 0
  /\ newGlobals = 0

Goto(from, to) == pc = from /\ pc' = to

-----------------------------------------------------------------------------
(* Checks on the whole objects                                             *)

(* xsplice_compare_elf_headers and xsplice_check_program_headers on both  *)
(* objects, as main calls them: a DIFF_FATAL unless the headers agree and  *)
(* neither object has program headers.                                    *)
CheckHeaders ==
  /\ pc = "checkHeaders"
  /\ pc' = IF in.headersOK THEN "markGrouped" ELSE "diffFatal"
  /\ UNCHANGED << in, secGrouped, secStatus, symStatus, secIgnore, secInclude, symInclude,
                  relas, secSym, secSecsym, symSec, numChanged, newGlobals >>

(* The member indexes of the SHT_GROUP sections: every word after the     *)
(* flag word.                                                              *)
GroupMembers ==
  UNION { { GroupData[g][k] : k \in 2..Len(GroupData[g]) } : g \in { s \in Secs : SecKind[s] = "group" } }

(* xsplice_mark_grouped_sections: sec->grouped for every section a group   *)
(* lists; find_section_by_index knows the indexes 1..n of the section     *)
(* list, and any other word is an ERROR.                                   *)
xsplice_mark_grouped_sections ==
  /\ pc = "markGrouped"
  /\ IF GroupMembers \subseteq 1..Len(SecOrder)
     THEN pc' = "markIgnoredSections" /\ secGrouped' = { SecOrder[i] : i \in GroupMembers }
     ELSE pc' = "error" /\ UNCHANGED secGrouped     \* "group section not found"
  /\ UNCHANGED << in, secStatus, symStatus, secIgnore, secInclude, symInclude,
                  relas, secSym, secSecsym, symSec, numChanged, newGlobals >>

-----------------------------------------------------------------------------
(* Comparison and ignore directives                                        *)

xsplice_mark_ignored_sections ==
  LET dirs == ToSet(IgnoreSections)
      ignored == { IF IsRelaSection(d.sec) THEN RelaBase[d.sec] ELSE d.sec : d \in dirs }
  IN /\ Goto("markIgnoredSections", "compare")
     /\ secStatus' = [s \in Secs |-> IF \E d \in dirs : d.str = s THEN "CHANGED" ELSE secStatus[s]]
     /\ secInclude' = secInclude \cup { d.str : d \in dirs }
     /\ secIgnore' = secIgnore \cup ignored
     /\ UNCHANGED << in, secGrouped, symStatus, symInclude, relas, secSym, secSecsym, symSec,
                     numChanged, newGlobals >>

(* Mutant: relocation sections compared by size only. *)
CompareSectionSizeOnly(s) ==
  IF s \notin in.twinSecs THEN "NEW"
  ELSE IF s \in in.differs /\ ~IsRelaSection(s) THEN "CHANGED" ELSE "SAME"

(* xsplice_compare_sections, first loop: NEW when untwinned, else the      *)
(* outcome of xsplice_compare_correlated_section.                          *)
CompareSection(s) ==
  IF s \notin in.twinSecs THEN "NEW"
  ELSE IF s \in in.differs THEN "CHANGED" ELSE "SAME"

(* xsplice_compare_sections, second loop, one section: the bundled symbol  *)
(* of the section (or of its base) takes the section's status unless it   *)
(* is already CHANGED.                                                     *)
SyncSymStatus(st, newSec, s) ==
  LET b == IF IsRelaSection(s) THEN RelaBase[s] ELSE s
  IN IF secSym[b] # NoSym /\ st[secSym[b]] # "CHANGED"
     THEN [st EXCEPT ![secSym[b]] = newSec[s]]
     ELSE st

(* A correlated symbol whose section is not the twin of its twin's section *)
Moved(s) == symSec[s] # NoSec /\ in.baseSecTwin[s] # symSec[s]

(* xsplice_compare_correlated_symbol, the status it leaves *)
CompareSymbol(st, s) ==
  IF s \notin in.twinSyms THEN "NEW"
  ELSE IF Moved(s) THEN "CHANGED"
  ELSE IF symSec[s] = NoSec THEN "SAME"
  ELSE st[s]

xsplice_compare_correlated_elements ==
  LET newSec == [s \in Secs |-> CompareSection(s)]
      synced == FoldLeft(LAMBDA st, s : SyncSymStatus(st, newSec, s), symStatus, SecOrder)
  IN /\ pc = "compare"
     /\ secStatus' = newSec
     /\ IF \E s \in in.twinSyms : Moved(s) /\ in.baseSecTwin[s] \notin secIgnore
        THEN /\ pc' = "diffFatal"   \* "symbol changed sections"
             /\ UNCHANGED symStatus
        ELSE /\ pc' = "ignoreFunctions"
             /\ symStatus' = [s \in Syms |-> CompareSymbol(synced, s)]
     /\ UNCHANGED << in, secGrouped, secIgnore, secInclude, symInclude, relas, secSym,
                     secSecsym, symSec, numChanged, newGlobals >>

xsplice_mark_ignored_functions_same ==
  LET fns == ToSet(IgnoreFunctions)
      fsecs == { symSec[f] : f \in fns }
  IN /\ pc = "ignoreFunctions"
     /\ IF \E f \in fns : symSec[f] = NoSec \/ SymType[f] # "FUNC"
        THEN /\ pc' = "error"       \* "expected bundled/function symbol"
             /\ UNCHANGED << secStatus, symStatus >>
        ELSE /\ pc' = "ignoreSections"
             /\ symStatus' = [s \in Syms |->
                  IF s \in fns \/ \E f \in fsecs : secSecsym[f] = s
                  THEN "SAME" ELSE symStatus[s]]
             /\ secStatus' = [s \in Secs |->
                  IF s \in fsecs \/ \E f \in fsecs : RelaOf(f) = s
                  THEN "SAME" ELSE secStatus[s]]
     /\ UNCHANGED << in, secGrouped, secIgnore, secInclude, symInclude, relas, secSym,
                     secSecsym, symSec, numChanged, newGlobals >>

xsplice_mark_ignored_sections_same ==
  /\ Goto("ignoreSections", "constantLabels")
  /\ secStatus' = [s \in Secs |->
       IF s \in secIgnore \/ RelaBase[s] \in secIgnore THEN "SAME" ELSE secStatus[s]]
  /\ symStatus' = [s \in Syms |->
       IF symSec[s] \in secIgnore \/ \E g \in secIgnore : secSecsym[g] = s
       THEN "SAME" ELSE symStatus[s]]
  /\ UNCHANGED << in, secGrouped, secIgnore, secInclude, symInclude, relas, secSym,
                  secSecsym, symSec, numChanged, newGlobals >>

xsplice_mark_constant_labels_same ==
  /\ Goto("constantLabels", "standard")
  /\ symStatus' = [s \in Syms |-> IF s \in ConstLabels THEN "SAME" ELSE symStatus[s]]
  /\ UNCHANGED << in, secGrouped, secStatus, secIgnore, secInclude, symInclude, relas,
                  secSym, secSecsym, symSec, numChanged, newGlobals >>

-----------------------------------------------------------------------------
(* Inclusion. The include flags are carried through the recursion of      *)
(* xsplice_include_symbol as a record [secs, syms] of the included sets.   *)

xsplice_include_standard_elements ==
  LET std == { s \in Secs : SecKind[s] \in {"strtab", "rodatastr"} }
  IN /\ Goto("standard", "changedFunctions")
     /\ secInclude' = secInclude \cup std
     /\ symInclude' = symInclude \cup ({ secSecsym[s] : s \in std } \ {NoSym}) \cup {NullSym}
     /\ UNCHANGED << in, secGrouped, secStatus, symStatus, secIgnore, relas, secSym,
                     secSecsym, symSec, numChanged, newGlobals >>

(* xsplice_include_symbol: include s; unless s has no section, its section *)
(* is already included, or s is an unchanged non-section symbol, include   *)
(* the section, its section symbol and its relocation section, and recurse *)
(* on the target of every relocation, in list order.                       *)
(* Mutant: a section symbol of an unchanged section stops the recursion. *)
IncludeBaseCaseNoSecsym(s, st) ==
  symSec[s] = NoSec \/ symSec[s] \in st.secs \/ symStatus[s] = "SAME"

(* The base case of the recursion: no section (an undefined global), the  *)
(* section already included, or an unchanged symbol other than a section  *)
(* symbol.                                                                 *)
IncludeBaseCase(s, st) ==
  symSec[s] = NoSec \/ symSec[s] \in st.secs \/ (SymType[s] # "SECTION" /\ symStatus[s] = "SAME")

RECURSIVE xsplice_include_symbol(_, _), IncludeTargets(_, _)
xsplice_include_symbol(s, st) ==
  LET sec == symSec[s]
      st1 == [st EXCEPT !.syms = @ \cup {s}]
  IN IF IncludeBaseCase(s, st)
     THEN st1
     ELSE LET st2 == [secs |-> st1.secs \cup {sec} \cup ({RelaOf(sec)} \ {NoSec}),
                      syms |-> st1.syms \cup ({secSecsym[sec]} \ {NoSym})]
          IN IF RelaOf(sec) = NoSec THEN st2
             ELSE IncludeTargets(relas[RelaOf(sec)], st2)

IncludeTargets(rs, st) ==
  IF rs = << >> THEN st
  ELSE IncludeTargets(Tail(rs), xsplice_include_symbol(Head(rs).sym, st))

(* Run xsplice_include_symbol on each of roots from the current flags. *)
IncludeAll(roots) ==
  FoldLeft(LAMBDA st, s : xsplice_include_symbol(s, st),
           [secs |-> secInclude, syms |-> symInclude], roots)

(* The symbols of S in list order (kelf->symbols); the order is that of    *)
(* the symbol table and does not change the included sets.                 *)
SymList(S) == SetToSeq(S)

xsplice_include_changed_functions ==
  LET changed == { s \in Syms : symStatus[s] = "CHANGED" /\ SymType[s] = "FUNC" }
      st == IncludeAll(SymList(changed))
  IN /\ Goto("changedFunctions", "debug")
     /\ secInclude' = st.secs
     /\ symInclude' = st.syms \cup { s \in Syms : SymType[s] = "FILE" }
     /\ numChanged' = Cardinality(changed)
     /\ UNCHANGED << in, secGrouped, secStatus, symStatus, secIgnore, relas, secSym,
                     secSecsym, symSec, newGlobals >>

(* Include every debug section; then drop the relas of .rela.debug_*     *)
(* whose target's section is not included at this point.                  *)
xsplice_include_debug_sections ==
  LET dbg == { s \in Secs : IsDebugSection(s) }
      incl == secInclude \cup dbg
  IN /\ Goto("debug", "hooks")
     /\ secInclude' = incl
     /\ symInclude' = symInclude \cup { secSecsym[s] : s \in { d \in dbg : ~IsRelaSection(d) } }
     /\ relas' = [r \in RelaSecs |->
          IF IsDebugSection(r)
          THEN SelectSeq(relas[r], LAMBDA x : symSec[x.sym] \in incl)
          ELSE relas[r]]
     /\ UNCHANGED << in, secGrouped, secStatus, symStatus, secIgnore, secSym, secSecsym,
                     symSec, numChanged, newGlobals >>

(* Mutant: the rela is redirected to sec->sym after it has been cleared.  *)
HookStepClearedSym(st, s) ==
  IF SecKind[s] = "hooks"
  THEN [st EXCEPT !.secs = @ \cup {s}, !.syms = @ \cup ({secSecsym[s]} \ {NoSym})]
  ELSE IF IsRelaSection(s) /\ SecKind[RelaBase[s]] = "hooks"
  THEN LET fn == Head(st.relas[s]).sym
           hsec == symSec[fn]
           inc == xsplice_include_symbol(fn, [secs |-> st.secs \cup {s}, syms |-> st.syms])
           cleared == [st.secSym EXCEPT ![hsec] = NoSym]
       IN [secs |-> inc.secs,
           syms |-> inc.syms \ {fn},
           secSym |-> cleared,
           relas |-> [st.relas EXCEPT ![s][1].sym = cleared[hsec]]]
  ELSE st

(* One section of the loop over kelf->sections in                         *)
(* xsplice_include_hook_elements. For a hook relocation section, only the *)
(* first rela is looked at: its target (the hook function) is included,   *)
(* then stripped, unbundled from its section, and the rela is redirected  *)
(* to that section's section symbol.                                       *)
HookStep(st, s) ==
  IF SecKind[s] = "hooks"
  THEN [st EXCEPT !.secs = @ \cup {s}, !.syms = @ \cup ({secSecsym[s]} \ {NoSym})]
  ELSE IF IsRelaSection(s) /\ SecKind[RelaBase[s]] = "hooks"
  THEN LET fn == Head(st.relas[s]).sym
           hsec == symSec[fn]
           inc == xsplice_include_symbol(fn, [secs |-> st.secs \cup {s}, syms |-> st.syms])
       IN [secs |-> inc.secs,
           syms |-> inc.syms \ {fn},
           secSym |-> [st.secSym EXCEPT ![hsec] = NoSym],
           relas |-> [st.relas EXCEPT ![s][1].sym = secSecsym[hsec]]]
  ELSE st

xsplice_include_hook_elements ==
  LET st == FoldLeft(HookStep, [secs |-> secInclude, syms |-> symInclude,
                                secSym |-> secSym, relas |-> relas], SecOrder)
  IN /\ Goto("hooks", "newGlobals")
     /\ secInclude' = st.secs
     /\ symInclude' = st.syms \ HookData
     /\ secSym' = st.secSym
     /\ relas' = st.relas
     /\ UNCHANGED << in, secGrouped, secStatus, symStatus, secIgnore, secSecsym, symSec,
                     numChanged, newGlobals >>

xsplice_include_new_globals ==
  LET roots == { s \in Syms : SymBind[s] = "GLOBAL" /\ symSec[s] # NoSec
                              /\ symStatus[s] = "NEW" }
      st == IncludeAll(SymList(roots))
  IN /\ Goto("newGlobals", "special")
     /\ secInclude' = st.secs
     /\ symInclude' = st.syms
     /\ newGlobals' = Cardinality(roots)
     /\ UNCHANGED << in, secGrouped, secStatus, symStatus, secIgnore, relas, secSym,
                     secSecsym, symSec, numChanged >>

(* main: "if (!num_changed && !new_globals_exist) return 3;" *)
NoChangesFound ==
  /\ pc = "special" /\ numChanged = 0 /\ newGlobals = 0
  /\ pc' = "noChange"
  /\ UNCHANGED << in, secGrouped, secStatus, symStatus, secIgnore, secInclude, symInclude,
                  relas, secSym, secSecsym, symSec, numChanged, newGlobals >>

-----------------------------------------------------------------------------
(* Special sections, at group granularity (fixed-size groups).            *)

CeilDiv(a, b) == (a + b - 1) \div b

(* should_keep_rela_group: some rela of the group targets a function whose *)
(* section is included.                                                    *)
should_keep_rela_group(rs, start, size, incl) ==
  \E i \in DOMAIN relas[rs] :
    LET r == relas[rs][i]
    IN /\ r.off >= start /\ r.off < start + size
       /\ SymType[r.sym] = "FUNC" /\ symSec[r.sym] \in incl

(* Mutant: dest_offset counted from one group too far. *)
RebasedOffByOne(off, g, k, gs) == off - (g - (k - 2)) * gs

(* "rela->offset -= src_offset - dest_offset" for a rela of source group  *)
(* g copied as the k-th kept group: dest_offset = (k - 1) * gs.           *)
Rebased(off, g, k, gs) == off - (g - (k - 1)) * gs

(* xsplice_regenerate_special_section on relocation section rs *)
xsplice_regenerate_special_section(st, rs) ==
  LET base == RelaBase[rs]
      gs == GroupSize[base]
      n == CeilDiv(SecSize[base], gs)
      aligned == CeilDiv(SecSize[base], SecAlign[base]) * SecAlign[base]
      kept == SetToSortSeq({ g \in 0..(n - 1) : should_keep_rela_group(rs, g * gs, gs, st.secs) },
                           LAMBDA a, b : a < b)
      inGroup(g) == SelectSeq(relas[rs], LAMBDA x : x.off >= g * gs /\ x.off < g * gs + gs)
      \* the relas of the k-th kept group, rebased by dest_offset - src_offset
      group(k) == [ j \in DOMAIN inGroup(kept[k]) |->
                    [inGroup(kept[k])[j] EXCEPT !.off = Rebased(@, kept[k], k, gs)] ]
      newrelas == FlattenSeq([ k \in DOMAIN kept |-> group(k) ])
  IN IF n * gs # aligned THEN [st EXCEPT !.err = TRUE]  \* "group size mismatch"
     ELSE IF kept = << >>
     THEN [st EXCEPT !.secs = @ \ {rs, base},
                     !.status = [@ EXCEPT ![rs] = "SAME", ![base] = "SAME"]]
     ELSE [st EXCEPT !.secs = @ \cup {rs, base},
                     !.syms = @ \cup { newrelas[j].sym : j \in DOMAIN newrelas },
                     !.relas = [@ EXCEPT ![rs] = newrelas]]

(* The .altinstr_replacement loop of xsplice_process_special_sections:    *)
(* the section, its symbols, its rela section and every rela target.      *)
AltReplStep(st, s) ==
  IF SecKind[s] # "altrepl" THEN st
  ELSE [st EXCEPT
          !.secs = @ \cup {s} \cup ({RelaOf(s)} \ {NoSec}),
          !.syms = @ \cup { y \in Syms : symSec[y] = s }
                     \cup (IF RelaOf(s) = NoSec THEN {}
                           ELSE { st.relas[RelaOf(s)][j].sym : j \in DOMAIN st.relas[RelaOf(s)] })]

xsplice_process_special_sections ==
  LET specials == SelectSeq([ i \in DOMAIN SpecialTable |-> RelaOf(SpecialTable[i]) ],
                            LAMBDA r : r # NoSec)
      st0 == [secs |-> secInclude, syms |-> symInclude, relas |-> relas,
              status |-> secStatus, err |-> FALSE]
      st1 == FoldLeft(xsplice_regenerate_special_section, st0, specials)
      st == FoldLeft(AltReplStep, st1, SecOrder)
  IN /\ pc = "special" /\ (numChanged > 0 \/ newGlobals > 0)
     /\ IF st1.err
        THEN pc' = "error" /\ UNCHANGED << secInclude, symInclude, relas, secStatus >>
        ELSE /\ pc' = "verify"
             /\ secInclude' = st.secs
             /\ symInclude' = st.syms
             /\ relas' = st.relas
             /\ secStatus' = st.status
     /\ UNCHANGED << in, secGrouped, symStatus, secIgnore, secSym, secSecsym, symSec,
                     numChanged, newGlobals >>

-----------------------------------------------------------------------------
(* xsplice_verify_patchability: the sections that make the diff fatal *)
UnsupportedSections ==
  { s \in Secs :
      \/ secStatus[s] = "CHANGED" /\ s \notin secInclude
      \/ secStatus[s] # "SAME" /\ s \in secGrouped
      \/ SecKind[s] = "group" /\ secStatus[s] = "NEW"
      \/ s \in secInclude /\ secStatus[s] # "NEW" /\ SecKind[s] \in {"data", "bss"} }

xsplice_verify_patchability ==
  /\ pc = "verify"
  /\ pc' = IF UnsupportedSections = {} THEN "migrate" ELSE "diffFatal"
  /\ UNCHANGED << in, secGrouped, secStatus, symStatus, secIgnore, secInclude, symInclude,
                  relas, secSym, secSecsym, symSec, numChanged, newGlobals >>

(* Mutant: the link to a section symbol left behind is not broken. *)
MigrateKeepSecsym ==
  /\ Goto("migrate", "done")
  /\ symSec' = [y \in Syms |->
       IF y \in symInclude /\ symSec[y] \notin secInclude THEN NoSec ELSE symSec[y]]
  /\ UNCHANGED << in, secGrouped, secStatus, symStatus, secIgnore, secInclude, symInclude,
                  relas, secSym, secSecsym, numChanged, newGlobals >>

(* xsplice_migrate_included_elements: the included sections and symbols    *)
(* form the output; links to elements left behind are broken.             *)
xsplice_migrate_included_elements ==
  /\ Goto("migrate", "done")
  /\ secSecsym' = [s \in Secs |->
       IF s \in secInclude /\ ~IsRelaSection(s) /\ secSecsym[s] \notin symInclude
       THEN NoSym ELSE secSecsym[s]]
  /\ symSec' = [y \in Syms |->
       IF y \in symInclude /\ symSec[y] \notin secInclude THEN NoSec ELSE symSec[y]]
  /\ UNCHANGED << in, secGrouped, secStatus, symStatus, secIgnore, secInclude, symInclude,
                  relas, secSym, numChanged, newGlobals >>

Terminated == pc \in Ended /\ UNCHANGED vars

Next ==
  \/ CheckHeaders
  \/ xsplice_mark_grouped_sections
  \/ xsplice_mark_ignored_sections
  \/ xsplice_compare_correlated_elements
  \/ xsplice_mark_ignored_functions_same
  \/ xsplice_mark_ignored_sections_same
  \/ xsplice_mark_constant_labels_same
  \/ xsplice_include_standard_elements
  \/ xsplice_include_changed_functions
  \/ xsplice_include_debug_sections
  \/ xsplice_include_hook_elements
  \/ xsplice_include_new_globals
  \/ NoChangesFound
  \/ xsplice_process_special_sections
  \/ xsplice_verify_patchability
  \/ xsplice_migrate_included_elements
  \/ Terminated

(* The passes run one after another to completion: weak fairness of Next  *)
(* is what a sequential program that never blocks guarantees.             *)
Spec == Init /\ [][Next]_vars /\ WF_vars(Next)

-----------------------------------------------------------------------------
(* Properties                                                              *)

TypeOK ==
  /\ pc \in { "checkHeaders", "markGrouped", "markIgnoredSections", "compare", "ignoreFunctions", "ignoreSections",
              "constantLabels", "standard", "changedFunctions", "debug", "hooks",
              "newGlobals", "special", "verify", "migrate" } \cup Ended
  /\ secStatus \in [Secs -> Statuses] /\ symStatus \in [Syms -> Statuses]
  /\ secIgnore \subseteq Secs /\ secGrouped \subseteq Secs /\ secInclude \subseteq Secs /\ symInclude \subseteq Syms
  /\ relas \in [RelaSecs -> Seq(Rela)]
  /\ secSym \in [Secs -> Syms \cup {NoSym}] /\ secSecsym \in [Secs -> Syms \cup {NoSym}]
  /\ symSec \in [Syms -> Secs \cup {NoSec}]
  /\ numChanged \in Nat /\ newGlobals \in Nat

(* Reference definition of the closure of section 4.4 of the spec: a      *)
(* symbol with a section that is a section symbol or not SAME brings in   *)
(* its section, section symbol and relocation section, and the targets of *)
(* those relocations, to a fixed point.                                    *)
Expands(y) == symSec[y] # NoSec /\ (SymType[y] = "SECTION" \/ symStatus[y] # "SAME")
Targets(sec) == IF RelaOf(sec) = NoSec THEN {} ELSE { r.sym : r \in Range(relas[RelaOf(sec)]) }

RECURSIVE Reach(_)
Reach(S) ==
  LET S2 == S \cup UNION { Targets(symSec[y]) : y \in { z \in S : Expands(z) } }
  IN IF S2 = S THEN S ELSE Reach(S2)

StandardSecs == { s \in Secs : SecKind[s] \in {"strtab", "rodatastr"} }
ChangedFuncs == { s \in Syms : symStatus[s] = "CHANGED" /\ SymType[s] = "FUNC" }
RefIncludedSecs ==
  LET ex == { symSec[y] : y \in { z \in Reach(ChangedFuncs) : Expands(z) } }
  IN StandardSecs \cup { d.str : d \in ToSet(IgnoreSections) } \cup ex
     \cup ({ RelaOf(s) : s \in ex } \ {NoSec})
RefIncludedSyms ==
  Reach(ChangedFuncs) \cup {NullSym} \cup { y \in Syms : SymType[y] = "FILE" }
  \cup ({ secSecsym[s] : s \in StandardSecs \cup
                          { symSec[y] : y \in { z \in Reach(ChangedFuncs) : Expands(z) } } } \ {NoSym})

(* After xsplice_include_changed_functions, the recursion of               *)
(* xsplice_include_symbol, with its early return on an already included   *)
(* section, has included exactly the closure of the changed functions     *)
(* (plus the standard elements included before it).                      *)
InclusionIsClosure ==
  pc = "debug" => /\ secInclude = RefIncludedSecs
                  /\ symInclude = RefIncludedSyms

(* The output object is self-contained (spec section 3, invariant 6, and  *)
(* the inclusion closure of section 8): after                             *)
(* xsplice_migrate_included_elements every relocation section kept has   *)
(* its base section, every relocation it keeps targets a kept symbol,     *)
(* and no kept symbol or section points at an element left behind.        *)
OutputSelfContained ==
  pc = "done" =>
    /\ \A rs \in secInclude \cap RelaSecs :
         /\ RelaBase[rs] \in secInclude
         /\ \A i \in DOMAIN relas[rs] : relas[rs][i].sym \in symInclude
    /\ \A y \in symInclude : symSec[y] \in secInclude \cup {NoSec}
    /\ \A s \in secInclude : secSecsym[s] \in symInclude \cup {NoSym}

(* A function of the base object whose code or relocations differ: its    *)
(* text section compares unequal, or its relocation section does or has   *)
(* no twin because the base function had none.                             *)
CodeDiffers(fn) ==
  LET t == SymSec0[fn]
  IN \/ t \in in.differs
     \/ RelaOf(t) # NoSec /\ (RelaOf(t) \in in.differs \/ RelaOf(t) \notin in.twinSecs)

(* No change is lost: when the program ends with "no changed functions"   *)
(* (exit 3) or writes a patch, every function that exists in both objects *)
(* and whose code or relocations differ, and that no ignore directive     *)
(* names, is in the patch as a CHANGED function (so that it gets a        *)
(* .xsplice.funcs entry); exit 3 is only for identical functions.          *)
NoChangeLost ==
  pc \in {"done", "noChange"} =>
    \A fn \in { y \in in.twinSyms : SymType[y] = "FUNC" /\ SymSec0[y] # NoSec } :
      (CodeDiffers(fn) /\ fn \notin ToSet(IgnoreFunctions) /\ SymSec0[fn] \notin secIgnore)
        => /\ pc = "done"
           /\ symStatus[fn] = "CHANGED"
           /\ fn \in symInclude

(* Debug information is kept for all the code in the patch: at the end,   *)
(* a relocation of a .rela.debug_* section is still there whenever the    *)
(* section it points into is in the output.                                *)
DebugRelasPreserved ==
  pc = "done" =>
    \A rs \in { r \in RelaSecs : IsDebugSection(r) } :
      \A r \in Range(in.relas[rs]) :
        SymSec0[r.sym] \in secInclude => r \in Range(relas[rs])

(* The hook indirection objects are stripped (spec section 4.4, hook      *)
(* sections): xsplice_include_hook_elements clears the include flag of    *)
(* xsplice_load_data / xsplice_unload_data, and no later pass of the     *)
(* inclusion sets it again, so the written object does not define them.   *)
HookDataStripped ==
  pc = "done" => HookData \cap symInclude = {}
=============================================================================
