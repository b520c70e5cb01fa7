----------------------------- MODULE Correlate -----------------------------
(***************************************************************************)
(* The passes of main from xsplice_replace_sections_syms to the comparison *)
(* of the correlated relocation sections, in their order:                  *)
(* xsplice_replace_sections_syms (base, then patched),                     *)
(* xsplice_rename_mangled_functions, xsplice_correlate_elfs (sections,     *)
(* then symbols), xsplice_correlate_static_local_variables (one loop      *)
(* iteration per step: the iterations read the twins earlier ones set)    *)
(* and the relocation-section part of xsplice_compare_sections.            *)
(*                                                                         *)
(* An object is a record of two lists, in list order:                      *)
(*   syms[i] = [id, name, type, bind, sec, value, size]                    *)
(*   secs[j] = [id, name, kind, base, rela, sym, relas, content]           *)
(* sec, base (of a rela section), rela (its rela section) and sym (its    *)
(* bundled symbol) are list indices, 0 for NULL; content stands for the   *)
(* bytes of a section group. kind is "text", "data", "rela" or "group".  *)
(* A rela is [type, off, add, tail, sym, ss, tid, delta]: sym is the      *)
(* target symbol, or 0 when the target is the section symbol of section   *)
(* ss; tail is what the instruction decoder finds, the bytes from the     *)
(* relocation to the end of its instruction. Section symbols are not in   *)
(* syms: a section symbol has its section's name, and no pass but the     *)
(* comparison reads them. A name is a sequence of tokens: a word, "." or  *)
(* a digit, so that a word holds no '.' and no digit and strcmp, strstr,  *)
(* strncmp and xsplice_mangled_strcmp on tokens agree with them on        *)
(* characters.                                                             *)
(*                                                                         *)
(* Ghost fields, not in the code, give the properties the truth: id says  *)
(* which base and patched elements are the same element of the program,  *)
(* corr whether spec section 4.1 correlates them, and a rela's tid and    *)
(* delta the element and byte within it that the instruction refers to.   *)
(* The SAME status the correlation passes give twins is left out:         *)
(* xsplice_compare_sections and xsplice_compare_symbols set the status of *)
(* every patched element from its twin before anything reads it.          *)
(***************************************************************************)
EXTENDS MangledStrcmp, FiniteSets

CONSTANT Inputs   \* [base : object, patched : object] pairs

VARIABLES
  in,         \* the two objects
  psym,       \* names of the patched symbols (renamed in place)
  psec,       \* names of the patched sections
  symTwinB,   \* base symbol -> patched symbol, 0 when untwinned
  symTwinP,   \* patched symbol -> base symbol
  secTwinB,   \* base section -> patched section
  secTwinP,   \* patched section -> base section
  brel,       \* base section -> its relas, as xsplice_replace_sections_syms leaves them
  prel,       \* patched section -> its relas
  pssym,      \* names of the section symbols of the patched sections
  relaStatus, \* patched rela section -> status given by the comparison
  pc,         \* "replace", "rename", "sections", "symbols", "statics", "compare",
              \* "done", "error", "crash"
  k           \* the patched symbol of the static-local loop

vars == << in, psym, psec, symTwinB, symTwinP, secTwinB, secTwinP,
           brel, prel, pssym, relaStatus, pc, k >>

B == in.base
P == in.patched

RelaSecs(obj) == { j \in DOMAIN obj.secs : obj.secs[j].kind = "rela" }

Init ==
  /\ in \in Inputs
  /\ psym = [i \in DOMAIN P.syms |-> P.syms[i].name]
  /\ psec = [j \in DOMAIN P.secs |-> P.secs[j].name]
  /\ symTwinB = [i \in DOMAIN B.syms |-> 0]
  /\ symTwinP = [i \in DOMAIN P.syms |-> 0]
  /\ secTwinB = [j \in DOMAIN B.secs |-> 0]
  /\ secTwinP = [j \in DOMAIN P.secs |-> 0]
  /\ brel = [j \in DOMAIN B.secs |-> B.secs[j].relas]
  /\ prel = [j \in DOMAIN P.secs |-> P.secs[j].relas]
  /\ pssym = psec
  /\ relaStatus = [j \in RelaSecs(P) |-> "none"]
  /\ pc = "replace"
  /\ k = 1

Indices(s) == [i \in DOMAIN s |-> i]

-----------------------------------------------------------------------------
(* xsplice_replace_sections_syms *)

(* add_off: for R_X86_64_PC32 the distance from the relocation to the end *)
(* of its instruction, as the decoder finds it; 0 for the absolute        *)
(* R_X86_64_64 and R_X86_64_32S. Other types are left alone.             *)
AddOff(r) == IF r.type = "PC32" THEN r.tail ELSE 0

Handled == {"PC32", "64", "32S"}

(* The first symbol of the list in section s whose [st_value,             *)
(* st_value + st_size) holds offset a.                                     *)
Covering(obj, s, a) ==
  SelectInSeq(obj.syms, LAMBDA y : y.sec = s /\ y.value <= a /\ a < y.value + y.size)

(* Mutant: the effective offset leaves out add_off. *)
ReplaceRelaNoAddOff(obj, r) ==
  LET c == Covering(obj, r.ss, r.add)
  IN CASE r.ss = 0 -> r
       [] obj.secs[r.ss].sym # 0 -> [r EXCEPT !.sym = obj.secs[r.ss].sym, !.ss = 0]
       [] r.type \notin Handled \/ c = 0 -> r
       [] OTHER -> [r EXCEPT !.sym = c, !.ss = 0, !.add = @ - obj.syms[c].value]

(* One rela of the inner loop: a reference through the section symbol of  *)
(* a bundled section goes to the bundled symbol, addend unchanged; one    *)
(* into another section goes to the first symbol covering the effective   *)
(* offset addend + add_off, less the symbol's value; else it stays.       *)
ReplaceRela(obj, r) ==
  LET c == Covering(obj, r.ss, r.add + AddOff(r))
  IN CASE r.ss = 0 -> r
       [] obj.secs[r.ss].sym # 0 -> [r EXCEPT !.sym = obj.secs[r.ss].sym, !.ss = 0]
       [] r.type \notin Handled \/ c = 0 -> r
       [] OTHER -> [r EXCEPT !.sym = c, !.ss = 0, !.add = @ - obj.syms[c].value]

(* Every rela of every rela section (no .debug section is in these        *)
(* objects, so the is_debug_section test never skips one).                *)
ReplacedRelas(obj) ==
  [j \in DOMAIN obj.secs |->
     IF obj.secs[j].kind = "rela"
     THEN [n \in DOMAIN obj.secs[j].relas |-> ReplaceRela(obj, obj.secs[j].relas[n])]
     ELSE obj.secs[j].relas]

(* main calls it on the base object, then on the patched one. *)
ReplaceSectionsSyms ==
  /\ pc = "replace"
  /\ brel' = ReplacedRelas(B)
  /\ prel' = ReplacedRelas(P)
  /\ pc' = "rename"
  /\ UNCHANGED << in, psym, psec, symTwinB, symTwinP, secTwinB, secTwinP, pssym, relaStatus, k >>

-----------------------------------------------------------------------------
(* xsplice_rename_mangled_functions *)

MangleMarks == { << ".", "isra", "." >>, << ".", "constprop", "." >>, << ".", "part", "." >> }

IsMangledName(name) == \E m \in MangleMarks : m \in SubSeqs(name)

RodataName(name) == << ".", "rodata", "." >> \o name

(* Mutant: the "if (sym->sec->rela)" and "if (sec->rela)" checks are gone. *)
RenamedSectionsNoCheck(pairs) == pairs

(* Of the <<patched, base>> section pairs, those whose patched section    *)
(* exists: "if (sym->sec->rela)", "if (sec->rela)".                        *)
RenamedSections(pairs) == { pr \in pairs : pr[1] # 0 }

(* One iteration for patched symbol i. acc holds the patched symbol,      *)
(* section and section-symbol names and whether a NULL rela section was  *)
(* dereferenced. The section symbol of the .rodata sibling takes its new *)
(* name ("sec->secsym->name = sec->name"); that of .text keeps the old.  *)
(* The *)
(* first base symbol mangled-equal to the name is the match; a bundled     *)
(* symbol's .text section, its .rodata sibling and their rela sections   *)
(* take the names of the base ones, and "basesec->rela->name" faults      *)
(* when the patched section has a rela section and the base one has none. *)
RenameOne(acc, i) ==
  LET name == acc.sym[i]
      b == SelectInSeq(B.syms, LAMBDA x : Mangled(x.name, name))
      bs == B.syms[b]
      s == P.syms[i].sec
      bundled == P.secs[s].sym = i
      ro == SelectInSeq(acc.sec, LAMBDA n : n = RodataName(name))
      bro == SelectInSeq(B.secs, LAMBDA x : x.name = RodataName(bs.name))
      \* <<patched section, base section it is named after>>, rela ones included
      pairs == (IF bundled THEN { << s, bs.sec >>, << P.secs[s].rela, B.secs[bs.sec].rela >> }
                ELSE {})
               \cup (IF bundled /\ ro # 0 /\ bro # 0
                     THEN { << ro, bro >>, << P.secs[ro].rela, B.secs[bro].rela >> } ELSE {})
      renamed == RenamedSections(pairs)
  IN IF acc.crash \/ P.syms[i].type # "FUNC" \/ ~IsMangledName(name) \/ b = 0 \/ name = bs.name
     THEN acc
     ELSE [ sym |-> [acc.sym EXCEPT ![i] = bs.name],
            ssym |-> IF bundled /\ ro # 0 /\ bro # 0
                     THEN [acc.ssym EXCEPT ![ro] = B.secs[bro].name] ELSE acc.ssym,
            sec |-> [j \in DOMAIN acc.sec |->
                       IF \E pr \in renamed : pr[1] = j /\ pr[2] # 0
                       THEN B.secs[(CHOOSE pr \in renamed : pr[1] = j)[2]].name
                       ELSE acc.sec[j]],
            crash |-> \E pr \in renamed : pr[2] = 0 ]

RenameMangledFunctions ==
  LET r == FoldLeft(RenameOne, [sym |-> psym, sec |-> psec, ssym |-> pssym, crash |-> FALSE],
                    Indices(P.syms))
  IN /\ pc = "rename"
     /\ psym' = r.sym /\ psec' = r.sec /\ pssym' = r.ssym
     /\ pc' = IF r.crash THEN "crash" ELSE "sections"
     /\ UNCHANGED << in, symTwinB, symTwinP, secTwinB, secTwinP, brel, prel, relaStatus, k >>

-----------------------------------------------------------------------------
(* is_special_static and is_constant_label *)

SpecialPrefixes ==
  { << "__key", "." >>, << "__warned", "." >>, << "descriptor", "." >>,
    << "__func__", "." >>, << "_rs", "." >> }

is_special_static(sym, name) ==
  /\ sym.type = "OBJECT" /\ sym.bind = "LOCAL"
  /\ \E p \in SpecialPrefixes : IsPrefix(p, name)

(* is_special_static of the section symbol of base section j: the        *)
(* __verbose section, or a section whose bundled symbol is special.       *)
SecSymSpecial(j) ==
  \/ B.secs[j].name = << "__verbose" >>
  \/ B.secs[j].sym # 0 /\ is_special_static(B.syms[B.secs[j].sym], B.syms[B.secs[j].sym].name)

(* ".LC" followed by at least one digit and nothing else *)
is_constant_label(sym, name) ==
  /\ sym.bind = "LOCAL"
  /\ IsPrefix(<< ".", "LC" >>, name) /\ Len(name) > 2
  /\ \A j \in 3..Len(name) : name[j] \in Digits
-----------------------------------------------------------------------------
(* xsplice_correlate_elfs *)

(* Mutant: special statics are not excluded. *)
SecMatchNoSpecial(b, p) ==
  /\ B.secs[b].name = psec[p]
  /\ B.secs[b].kind = "group" => B.secs[b].content = P.secs[p].content

(* The conditions under which the inner loop of xsplice_correlate_sections *)
(* pairs base section b with patched section p: the same name, not the    *)
(* section of a special static (for a rela section, that of its base),  *)
(* and for a section group the same contents.                              *)
SecMatch(b, p) ==
  /\ B.secs[b].name = psec[p]
  /\ ~SecSymSpecial(IF B.secs[b].kind = "rela" THEN B.secs[b].base ELSE b)
  /\ B.secs[b].kind = "group" => B.secs[b].content = P.secs[p].content

(* The inner loop breaks at the first match. *)
SecPartner(b) == SelectInSeq(Indices(P.secs), LAMBDA p : SecMatch(b, p))

(* Mutant: each side is given the twins of the other. *)
CorrelateSectionsSwapped ==
  /\ pc = "sections"
  /\ secTwinP' = [b \in DOMAIN B.secs |-> SecPartner(b)]
  /\ secTwinB' = [p \in DOMAIN P.secs |->
                    SelectLastInSeq(Indices(B.secs), LAMBDA b : SecPartner(b) = p)]
  /\ pc' = "symbols"
  /\ UNCHANGED << in, psym, psec, symTwinB, symTwinP, brel, prel, pssym, relaStatus, k >>

(* Every base section takes its partner; a patched section keeps the last *)
(* base section that took it, as the later write of sec2->twin wins.       *)
CorrelateSections ==
  /\ pc = "sections"
  /\ secTwinB' = [b \in DOMAIN B.secs |-> SecPartner(b)]
  /\ secTwinP' = [p \in DOMAIN P.secs |->
                    SelectLastInSeq(Indices(B.secs), LAMBDA b : SecPartner(b) = p)]
  /\ pc' = "symbols"
  /\ UNCHANGED << in, psym, psec, symTwinB, symTwinP, brel, prel, pssym, relaStatus, k >>

(* xsplice_correlate_symbols: same name and type, neither a special static *)
(* nor a constant label, and a symbol of a section group only with a     *)
(* symbol of the group's twin.                                            *)
SymMatch(b, p) ==
  LET s1 == B.syms[b]
  IN /\ s1.name = psym[p] /\ s1.type = P.syms[p].type
     /\ ~is_special_static(s1, s1.name)
     /\ ~is_constant_label(s1, s1.name)
     /\ ~(s1.sec # 0 /\ B.secs[s1.sec].kind = "group" /\ secTwinB[s1.sec] # P.syms[p].sec)

SymPartner(b) == SelectInSeq(Indices(P.syms), LAMBDA p : SymMatch(b, p))

CorrelateSymbols ==
  /\ pc = "symbols"
  /\ symTwinB' = [b \in DOMAIN B.syms |-> SymPartner(b)]
  /\ symTwinP' = [p \in DOMAIN P.syms |->
                    SelectLastInSeq(Indices(B.syms), LAMBDA b : SymPartner(b) = p)]
  /\ pc' = "statics"
  /\ UNCHANGED << in, psym, psec, secTwinB, secTwinP, brel, prel, pssym, relaStatus, k >>
-----------------------------------------------------------------------------
(* xsplice_correlate_static_local_variables *)

(* The symbols the relas of a section target; a section symbol left as a *)
(* target has a name that starts with '.', so no static local's name is  *)
(* mangled-equal to it and the loops below pass over it.                  *)
Targets(rl) == { rl[n].sym : n \in DOMAIN rl } \ {0}

(* xsplice_find_static_twin for patched rela section t and symbol i:     *)
(* ERROR if another untwinned symbol that t references is mangled-equal   *)
(* to i, or if t's twin references two untwinned base symbols that are;  *)
(* else the one it references, or 0.                                       *)
FindStaticTwin(t, i) ==
  LET bt == secTwinP[t]
      others == { j \in Targets(prel[t]) :
                    j # i /\ symTwinP[j] = 0 /\ Mangled(psym[j], psym[i]) }
      cands == { j \in Targets(brel[bt]) :
                   symTwinB[j] = 0 /\ Mangled(B.syms[j].name, psym[i]) }
  IN CASE bt = 0 -> [err |-> FALSE, sym |-> 0]
       [] others # {} \/ Cardinality(cands) > 1 -> [err |-> TRUE, sym |-> 0]
       [] cands = {} -> [err |-> FALSE, sym |-> 0]
       [] OTHER -> [err |-> FALSE, sym |-> CHOOSE j \in cands : TRUE]

(* The patched symbols the loop looks at: local objects, untwinned, not   *)
(* special, whose name holds a '.'.                                        *)
IsStaticCandidate(i) ==
  /\ P.syms[i].type = "OBJECT" /\ P.syms[i].bind = "LOCAL" /\ symTwinP[i] = 0
  /\ ~is_special_static(P.syms[i], psym[i])
  /\ "." \in Range(psym[i])

(* The rela sections of text sections that reference symbol i, in list   *)
(* order (is_debug_section never holds for the rela section of a .text  *)
(* section).                                                               *)
StaticUsers(i) ==
  SelectSeq(Indices(P.secs), LAMBDA t : /\ P.secs[t].kind = "rela"
                                         /\ P.secs[P.secs[t].base].kind = "text"
                                         /\ i \in Targets(prel[t]))

(* The search over all users: ERROR from a find, or two users finding     *)
(* different base symbols; else the first base symbol found, or 0.        *)
StaticSearch(i) ==
  LET u == StaticUsers(i)
      found == [n \in DOMAIN u |-> FindStaticTwin(u[n], i)]
      syms == { found[n].sym : n \in DOMAIN u } \ {0}
      first == SelectInSeq(found, LAMBDA f : f.sym # 0)
  IN [ used |-> u # << >>,
       err |-> (\E n \in DOMAIN u : found[n].err) \/ Cardinality(syms) > 1,
       sym |-> IF first = 0 THEN 0 ELSE found[first].sym ]

StaticSkip ==
  /\ pc = "statics" /\ k <= Len(P.syms) /\ ~IsStaticCandidate(k)
  /\ k' = k + 1
  /\ UNCHANGED << in, psym, psec, symTwinB, symTwinP, secTwinB, secTwinP,
                  brel, prel, pssym, relaStatus, pc >>

(* One candidate: ERROR when unused, ambiguous, bundled on one side only, *)
(* or unbundled in sections that are not twins; a warning and no change  *)
(* when no base symbol is found; else rename it to the base symbol, twin  *)
(* the two and, when bundled, their sections.                             *)
CorrelateStatic ==
  LET r == StaticSearch(k)
      bs == r.sym
      ps == P.syms[k].sec
      bsec == B.syms[bs].sec
      bundled == P.secs[ps].sym = k
      basebundled == B.secs[bsec].sym = bs
  IN /\ pc = "statics" /\ k <= Len(P.syms) /\ IsStaticCandidate(k)
     /\ k' = k + 1
     /\ CASE ~r.used \/ r.err -> pc' = "error" /\ UNCHANGED << psym, symTwinB, symTwinP, secTwinB, secTwinP >>
          [] bs = 0 -> UNCHANGED << pc, psym, symTwinB, symTwinP, secTwinB, secTwinP >>
          [] bundled # basebundled \/ (~bundled /\ secTwinP[ps] # bsec) ->
               pc' = "error" /\ UNCHANGED << psym, symTwinB, symTwinP, secTwinB, secTwinP >>
          [] OTHER ->
               /\ psym' = [psym EXCEPT ![k] = B.syms[bs].name]
               /\ symTwinP' = [symTwinP EXCEPT ![k] = bs]
               /\ symTwinB' = [symTwinB EXCEPT ![bs] = k]
               /\ secTwinP' = IF bundled THEN [secTwinP EXCEPT ![ps] = bsec] ELSE secTwinP
               /\ secTwinB' = IF bundled THEN [secTwinB EXCEPT ![bsec] = ps] ELSE secTwinB
               /\ UNCHANGED pc
     /\ UNCHANGED << in, psec, brel, prel, pssym, relaStatus >>

StaticsDone ==
  /\ pc = "statics" /\ k > Len(P.syms)
  /\ pc' = "compare"
  /\ UNCHANGED << in, psym, psec, symTwinB, symTwinP, secTwinB, secTwinP,
                  brel, prel, pssym, relaStatus, k >>
-----------------------------------------------------------------------------
(* xsplice_compare_sections, for the relocation sections of the patched    *)
(* object (xsplice_mark_ignored_sections, which main calls in between,    *)
(* changes no rela and no twin).                                           *)

(* The name of a rela's target: its symbol's, or its section symbol's.   *)
TargetName(symNames, secNames, r) == IF r.sym # 0 THEN symNames[r.sym] ELSE secNames[r.ss]

BaseSymNames == [i \in DOMAIN B.syms |-> B.syms[i].name]
BaseSecNames == [j \in DOMAIN B.secs |-> B.secs[j].name]

(* is_constant_label of a target; a section name never starts with .LC. *)
TargetLabel(obj, symNames, r) == r.sym # 0 /\ is_constant_label(obj.syms[r.sym], symNames[r.sym])

(* is_special_static of a patched target: for a section symbol, the       *)
(* __verbose section or the section's bundled symbol.                      *)
TargetSpecial(r) ==
  IF r.sym # 0 THEN is_special_static(P.syms[r.sym], psym[r.sym])
  ELSE \/ pssym[r.ss] = << "__verbose" >>
       \/ P.secs[r.ss].sym # 0 /\ is_special_static(P.syms[P.secs[r.ss].sym], psym[P.secs[r.ss].sym])

(* Mutant: the addends are not compared. *)
rela_equalNoAddend(r1, r2) ==
  LET n1 == TargetName(psym, pssym, r1)
      n2 == TargetName(BaseSymNames, BaseSecNames, r2)
  IN /\ r1.type = r2.type /\ r1.off = r2.off
     /\ CASE TargetLabel(P, psym, r1) /\ TargetLabel(B, BaseSymNames, r2) -> TRUE
          [] TargetSpecial(r1) -> Mangled(n1, n2)
          [] OTHER -> n1 = n2

(* rela_equal(rela1, rela2), rela1 of the patched section and rela2 of   *)
(* its twin: type, offset and addend, then the targets: two constant      *)
(* labels match, a special static matches by xsplice_mangled_strcmp, any  *)
(* other target by name. No rela here points into a string section, so   *)
(* rela->string, which the loader sets for those, is NULL.               *)
rela_equal(r1, r2) ==
  LET n1 == TargetName(psym, pssym, r1)
      n2 == TargetName(BaseSymNames, BaseSecNames, r2)
  IN /\ r1.type = r2.type /\ r1.off = r2.off
     /\ r1.add = r2.add
     /\ CASE TargetLabel(P, psym, r1) /\ TargetLabel(B, BaseSymNames, r2) -> TRUE
          [] TargetSpecial(r1) -> Mangled(n1, n2)
          [] OTHER -> n1 = n2

(* xsplice_compare_correlated_rela_section: the two lists in step, SAME   *)
(* unless some pair is not rela_equal.                                     *)
RelaSectionSame(p, b) == \A n \in DOMAIN prel[p] : rela_equal(prel[p][n], brel[b][n])

(* xsplice_compare_correlated_section for a rela section: a different     *)
(* sh_size (a different number of relas) is CHANGED, else the rela walk.  *)
CompareRelaSection(p, b) ==
  IF Len(prel[p]) # Len(brel[b]) \/ ~RelaSectionSame(p, b) THEN "CHANGED" ELSE "SAME"

(* The loop of xsplice_compare_sections: a twinned section is compared, an *)
(* untwinned one is NEW.                                                    *)
CompareRelaSections ==
  /\ pc = "compare"
  /\ relaStatus' = [p \in RelaSecs(P) |->
                      IF secTwinP[p] = 0 THEN "NEW" ELSE CompareRelaSection(p, secTwinP[p])]
  /\ pc' = "done"
  /\ UNCHANGED << in, psym, psec, symTwinB, symTwinP, secTwinB, secTwinP, brel, prel, pssym, k >>

Terminated == pc \in {"done", "error", "crash"} /\ UNCHANGED vars

Next ==
  \/ ReplaceSectionsSyms \/ RenameMangledFunctions \/ CorrelateSections \/ CorrelateSymbols
  \/ StaticSkip \/ CorrelateStatic \/ StaticsDone \/ CompareRelaSections \/ Terminated

Spec == Init /\ [][Next]_vars
-----------------------------------------------------------------------------
(* Properties                                                              *)

Pcs == {"replace", "rename", "sections", "symbols", "statics", "compare", "done", "error", "crash"}

TypeOK ==
  /\ pc \in Pcs
  /\ k \in 1..(Len(P.syms) + 1)
  /\ DOMAIN psym = DOMAIN P.syms /\ DOMAIN psec = DOMAIN P.secs
  /\ symTwinB \in [DOMAIN B.syms -> 0..Len(P.syms)]
  /\ symTwinP \in [DOMAIN P.syms -> 0..Len(B.syms)]
  /\ secTwinB \in [DOMAIN B.secs -> 0..Len(P.secs)]
  /\ secTwinP \in [DOMAIN P.secs -> 0..Len(B.secs)]
  /\ relaStatus \in [RelaSecs(P) -> {"none", "SAME", "CHANGED", "NEW"}]

(* The patched element that is the same element of the program as x. *)
Counterpart(list, x) == SelectInSeq(list, LAMBDA y : y.id = x.id)

(* When the correlation passes finish, every base symbol and section that *)
(* spec section 4.1 correlates is twinned with its counterpart in the    *)
(* patched build and with nothing else, the others with nothing; twins    *)
(* point at each other; and a twinned patched symbol carries the name of *)
(* its twin, whatever numbers gcc chose for mangled functions and static *)
(* locals (renaming by xsplice_rename_mangled_functions and               *)
(* xsplice_correlate_static_local_variables, pairing by                   *)
(* xsplice_correlate_elfs).                                                *)
CorrelationExact ==
  pc = "done" =>
    /\ \A b \in DOMAIN B.syms :
         symTwinB[b] = IF B.syms[b].corr THEN Counterpart(P.syms, B.syms[b]) ELSE 0
    /\ \A b \in DOMAIN B.secs :
         secTwinB[b] = IF B.secs[b].corr THEN Counterpart(P.secs, B.secs[b]) ELSE 0
    /\ \A p \in DOMAIN P.syms :
         symTwinP[p] # 0 => symTwinB[symTwinP[p]] = p /\ psym[p] = B.syms[symTwinP[p]].name
    /\ \A p \in DOMAIN P.secs : secTwinP[p] # 0 => secTwinB[secTwinP[p]] = p

(* xsplice_rename_mangled_functions never dereferences the missing rela  *)
(* section of a base function or .rodata section.                         *)
NoNullDeref == pc # "crash"

(* No two patched functions have the same name once the mangled ones are  *)
(* renamed, as the name lookups of the later passes assume.               *)
PatchedFunctionNamesUnique ==
  pc \notin {"rename", "crash"} =>
    \A p, q \in DOMAIN P.syms :
      p # q /\ P.syms[p].type = "FUNC" /\ P.syms[q].type = "FUNC" => psym[p] # psym[q]
(* What a rela refers to: the element, the byte within it and the        *)
(* instruction's relocation type, place and length.                       *)
Meaning(r) == [tid |-> r.tid, delta |-> r.delta, type |-> r.type, off |-> r.off, tail |-> r.tail]

(* Patched rela section p and its twin refer to the same things, in order. *)
SameMeanings(p) ==
  LET pr == P.secs[p].relas
      br == B.secs[secTwinP[p]].relas
  IN Len(pr) = Len(br) /\ \A n \in DOMAIN pr : Meaning(pr[n]) = Meaning(br[n])

(* No change is missed: a relocation section the comparison finds SAME    *)
(* refers, relocation by relocation, to the same elements and bytes as   *)
(* its twin, although xsplice_replace_sections_syms, the renaming passes *)
(* and rela_equal's special cases all changed what is compared.           *)
RelaCompareSound ==
  pc = "done" =>
    \A p \in RelaSecs(P) : relaStatus[p] = "SAME" => SameMeanings(p)

(* No change is invented: a twinned relocation section whose relocations  *)
(* refer to the same things as its twin's is SAME, wherever the two       *)
(* builds placed the objects in a shared section and whatever numbers gcc *)
(* gave clones and static locals: the purpose of                          *)
(* xsplice_replace_sections_syms and of the renaming passes.               *)
RelaCompareComplete ==
  pc = "done" =>
    \A p \in RelaSecs(P) : secTwinP[p] # 0 /\ SameMeanings(p) => relaStatus[p] = "SAME"
=============================================================================
