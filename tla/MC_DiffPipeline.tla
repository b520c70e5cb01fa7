-------------------------- MODULE MC_DiffPipeline --------------------------
(***************************************************************************)
(* A patched object compiled with -ffunction-sections -fdata-sections:    *)
(* three functions f (local), g (global) and h (local) in bundled text     *)
(* sections with relocation sections, a bundled static object x, an        *)
(* unbundled .rodata, a string section, .symtab, .debug_info, an .ex_table *)
(* with one 8-byte entry per function, and a load hook naming the new      *)
(* function hookfn (or, with HookOnExisting, one of f, g, h). Init ranges  *)
(* over what the base object may have been: each function unchanged,      *)
(* changed in its code or only in its relocations, or new; x unchanged,    *)
(* changed, new, or moved (the base object had it in .rodata, as a const  *)
(* object); and a choice of relocation lists.                              *)
(***************************************************************************)
EXTENDS DiffPipeline, TLC

CONSTANTS
  Fates,          \* what a function may be relative to the base object
  WithHook,       \* does the patch declare a load hook
  HookOnExisting, \* may the load hook name a function the base object has
  WithIgnores,    \* does the patch ignore function g and section .rodata
  GroupF          \* are .text.f and .rela.text.f members of a COMDAT group

HookSecs == << "text.hookfn", "hooks.load", "rela.hooks.load" >>
MCSecOrder ==
  << "text.f", "rela.text.f", "text.g", "rela.text.g", "text.h", "rela.text.h",
     "rodata", "data.x", "rodata.str", "symtab", "debug_info", "rela.debug_info",
     "ex_table", "rela.ex_table" >> \o (IF WithHook THEN HookSecs ELSE << >>)
  \o (IF GroupF THEN << "group.f" >> ELSE << >>)
MCSecs == Range(MCSecOrder)

Fns == {"f", "g", "h"}
Text(fn) == "text." \o fn
RelaText(fn) == "rela.text." \o fn
SecSymOf(s) == "S." \o s

MCSyms == { "", "file", "f", "g", "h", "x", "printk", ".LC0" }
          \cup { SecSymOf(s) : s \in { "text.f", "text.g", "text.h", "rodata", "data.x",
                                      "rodata.str", "debug_info", "ex_table" } }
          \cup (IF WithHook
                THEN { "hookfn", "xsplice_load_data", "S.text.hookfn", "S.hooks.load" }
                ELSE {})

MCSecKind ==
  [ s \in MCSecs |->
      CASE s \in {"text.f", "text.g", "text.h", "text.hookfn"} -> "text"
        [] s = "rodata" -> "rodata"
        [] s = "data.x" -> "data"
        [] s = "rodata.str" -> "rodatastr"
        [] s = "symtab" -> "strtab"
        [] s = "debug_info" -> "debug"
        [] s = "ex_table" -> "special"
        [] s = "hooks.load" -> "hooks"
        [] s = "group.f" -> "group"
        [] OTHER -> "rela" ]

MCRelaBase ==
  [ s \in MCSecs |->
      CASE s = "rela.debug_info" -> "debug_info"
        [] s = "rela.ex_table" -> "ex_table"
        [] s = "rela.hooks.load" -> "hooks.load"
        [] \E fn \in Fns : s = RelaText(fn) -> Text(CHOOSE fn \in Fns : s = RelaText(fn))
        [] OTHER -> NoSec ]

MCSymType ==
  [ y \in MCSyms |->
      CASE y \in Fns \cup {"hookfn", "printk"} -> "FUNC"
        [] y \in {"x", "xsplice_load_data"} -> "OBJECT"
        [] y = "file" -> "FILE"
        [] y \in {"", ".LC0"} -> "NOTYPE"
        [] OTHER -> "SECTION" ]

MCSymBind ==
  [ y \in MCSyms |-> IF y \in {"g", "printk", "xsplice_load_data"} THEN "GLOBAL" ELSE "LOCAL" ]

MCSymSec0 ==
  [ y \in MCSyms |->
      CASE y \in Fns \cup {"hookfn"} -> Text(y)
        [] y = "x" -> "data.x"
        [] y = ".LC0" -> "rodata.str"
        [] y = "xsplice_load_data" -> "hooks.load"
        [] \E s \in MCSecs : y = SecSymOf(s) -> CHOOSE s \in MCSecs : y = SecSymOf(s)
        [] OTHER -> NoSec ]

MCBundled0 ==
  [ s \in MCSecs |->
      CASE \E fn \in Fns : s = Text(fn) -> CHOOSE fn \in Fns : s = Text(fn)
        [] s = "text.hookfn" -> "hookfn"
        [] s = "data.x" -> "x"
        [] OTHER -> NoSym ]

MCSecsym0 ==
  [ s \in MCSecs |-> IF SecSymOf(s) \in MCSyms THEN SecSymOf(s) ELSE NoSym ]

MCSecSize == [ s \in MCSecs |-> IF s = "ex_table" THEN 24 ELSE 0 ]
MCSecAlign == [ s \in MCSecs |-> IF s = "ex_table" THEN 8 ELSE 1 ]
MCGroupSize == [ s \in MCSecs |-> IF s = "ex_table" THEN 8 ELSE 0 ]

(* The group lists f's text and relocation sections by their index (the  *)
(* position in the section list) after the GRP_COMDAT flag word.          *)
MCIndex(s) == CHOOSE i \in DOMAIN MCSecOrder : MCSecOrder[i] = s
MCGroupData ==
  [ s \in MCSecs |-> IF s = "group.f" THEN << 1, MCIndex("text.f"), MCIndex("rela.text.f") >> ELSE << >> ]

MCSpecialTable == << "ex_table" >>
MCIgnoreSections == IF WithIgnores THEN << [str |-> "rodata.str", sec |-> "rodata"] >> ELSE << >>
MCIgnoreFunctions == IF WithIgnores THEN << "g" >> ELSE << >>

R(sym, off) == [sym |-> sym, off |-> off]
RelaList(l) == [ i \in DOMAIN l |-> R(l[i], 4 * (i - 1)) ]

(* Relocation lists the patched functions may have. *)
RelaChoices(fn) ==
  CASE fn = "f" -> { <<"g">>, <<"g", "x">>, <<"printk", "S.rodata">>, <<"h", ".LC0">> }
    [] fn = "g" -> { << >>, <<"f">> }
    [] fn = "h" -> { << >>, <<"g">> }

(* The input that a choice of fates describes.                             *)
(*  "same": text and relas twinned and equal; "text": the code differs;   *)
(*  "rela": only the relocations differ; "relaNew": the code compares      *)
(*  equal but the base function had no relocation section; "new": the     *)
(*  function does not exist in the base object.                           *)
(* x "moved": x is correlated by name, its base section is .rodata, and    *)
(* .data.x is new.                                                          *)
MkInput(fate, xfate, rodiff, extdiff, rl, hook, hdr) ==
  LET old == { fn \in Fns : fate[fn] # "new" }
      twinSecs == { Text(fn) : fn \in old }
                  \cup { RelaText(fn) : fn \in { o \in old : fate[o] # "relaNew" } }
                  \cup (IF xfate \in {"new", "moved"} THEN {} ELSE {"data.x"})
                  \cup { "rodata", "rodata.str", "symtab", "debug_info", "rela.debug_info",
                         "ex_table", "rela.ex_table" }
                  \cup (IF GroupF /\ fate["f"] # "new" THEN {"group.f"} ELSE {})
      twinSyms == { y \in MCSyms : \/ y \in {"", "file", "printk"}
                                   \/ MCSymSec0[y] \in twinSecs /\ y \notin {".LC0"}
                                   \/ y = "x" /\ xfate = "moved" }
      differs == { Text(fn) : fn \in { o \in old : fate[o] = "text" } }
                 \cup { RelaText(fn) : fn \in { o \in old : fate[o] = "rela" } }
                 \cup (IF xfate = "changed" THEN {"data.x"} ELSE {})
                 \cup (IF rodiff THEN {"rodata"} ELSE {})
                 \cup (IF extdiff THEN {"ex_table", "rela.ex_table"} ELSE {})
  IN [ twinSecs |-> twinSecs, twinSyms |-> twinSyms, differs |-> differs,
       headersOK |-> hdr,
       baseSecTwin |-> [ y \in MCSyms |-> CASE y = "x" /\ xfate = "moved" -> "rodata"
                                          [] y \in twinSyms -> MCSymSec0[y]
                                          [] OTHER -> NoSec ],
       relas |-> [ r \in { s \in MCSecs : MCRelaBase[s] # NoSec } |->
                    CASE r = "rela.debug_info" ->
                           RelaList(<<"S.text.f", "S.text.g", "S.text.h", "S.data.x">>
                                   \o (IF WithHook THEN <<"S.text.hookfn">> ELSE << >>))
                      [] r = "rela.ex_table" -> << R("f", 0), R("g", 8), R("h", 16) >>
                      [] r = "rela.hooks.load" -> << R(hook, 0) >>
                      [] OTHER -> RelaList(rl[CHOOSE fn \in Fns : r = RelaText(fn)]) ] ]

MCInputs ==
  { MkInput(fate, xfate, rodiff, extdiff, rl, hook, hdr) :
      fate \in [Fns -> Fates], xfate \in {"same", "changed", "new", "moved"},
      rodiff \in BOOLEAN, extdiff \in BOOLEAN,
      rl \in { c \in [Fns -> UNION { RelaChoices(fn) : fn \in Fns }] :
                 \A fn \in Fns : c[fn] \in RelaChoices(fn) },
      hook \in IF HookOnExisting THEN Fns ELSE {"hookfn"}, hdr \in BOOLEAN }
=============================================================================
