----------------------------- MODULE PatchTable -----------------------------
(***************************************************************************)
(* The rest of main after xsplice_migrate_included_elements: the search    *)
(* for the file hint, xsplice_create_strings_elements,                     *)
(* xsplice_create_patches_sections, xsplice_build_strings_section_data,    *)
(* xsplice_rename_local_symbols, xsplice_reorder_symbols,                  *)
(* xsplice_reindex_elements and the loop that sets the headers of the     *)
(* relocation sections, one action each, run on the output object that     *)
(* DiffPipeline leaves when it reaches "done". The writers that follow     *)
(* (shstrtab, strtab, symtab, the ELF file) are library code.             *)
(*                                                                         *)
(* A symbol's original name is the symbol itself (the MC modules name     *)
(* symbols by their names); names are TLA+ strings, and the terminating   *)
(* NUL of a string in the pool is the character Nul, which no name holds. *)
(* Of a .xsplice.funcs entry the fields the lookup fills are kept         *)
(* (old_addr, old_size); new_addr and name are 0 and filled by the two    *)
(* relocations, new_size is copied from the symbol and pad is zero.      *)
(***************************************************************************)
EXTENDS DiffPipeline

CONSTANTS
  SymOrder,      \* kelf->symbols: the list order of Syms
  SymtabSec,     \* the section named .symtab
  StringsSec,    \* .xsplice.strings, created by xsplice_create_strings_elements
  StringsSym,    \* its section symbol
  FuncsSec,      \* .xsplice.funcs, created by create_section_pair
  FuncsRelaSec,  \* .rela.xsplice.funcs
  Running,       \* the running image's symbol table: set of [file, name, bind, addr, size]
  Resolve,       \* the --resolve option
  PatchInsnSize, \* PATCH_INSN_SIZE
  EntrySize,     \* sizeof(struct xsplice_patch_func)
  NameOff        \* offsetof(struct xsplice_patch_func, name)

ASSUME SymOrder \in Seq(Syms) /\ \A y \in Syms : \E i \in DOMAIN SymOrder : SymOrder[i] = y

VARIABLES
  ostage,    \* the output pass that runs next: "hint" ... "headers", "written", "error"
  hint,      \* the file hint, "" before it is found
  osecs,     \* kelf_out->sections
  osyms,     \* kelf_out->symbols
  symName,   \* sym->name of the output symbols
  strings,   \* kelf_out->strings
  entries,   \* the .xsplice.funcs entries: [old_addr, old_size]
  frelas,    \* .rela.xsplice.funcs: [sym, off, add]
  strData,   \* the data of .xsplice.strings
  secIndex,  \* sec->index
  symIndex,  \* sym->index
  shndx,     \* sym->sym.st_shndx: a section index, "UNDEF" or "ABS"
  relaHdr    \* sh_link and sh_info of the relocation sections

outVars == << ostage, hint, osecs, osyms, symName, strings, entries, frelas, strData,
              secIndex, symIndex, shndx, relaHdr >>

NewSecs == {StringsSec, FuncsSec, FuncsRelaSec}
OutSecs == Secs \cup NewSecs
OutSyms == Syms \cup {StringsSym}
Nul == "|"

(* The 1-based position of e in the list l, 0 when it is not there. *)
Pos(l, e) == SelectInSeq(l, LAMBDA x : x = e)

(* Attributes of the output elements, the created ones included. *)
OutType(y) == IF y = StringsSym THEN "SECTION" ELSE SymType[y]
OutBind(y) == IF y = StringsSym THEN "LOCAL" ELSE SymBind[y]
OutSec(y) == IF y = StringsSym THEN StringsSec ELSE symSec[y]
OutBase(s) == CASE s = FuncsRelaSec -> FuncsSec
                [] s \in NewSecs -> NoSec
                [] OTHER -> RelaBase[s]

(* The lists xsplice_migrate_included_elements moves to kelf_out, in     *)
(* order.                                                                  *)
MigratedSecs == SelectSeq(SecOrder, LAMBDA s : s \in secInclude)
MigratedSyms == SelectSeq(SymOrder, LAMBDA y : y \in symInclude)

OutInit ==
  /\ ostage = "hint" /\ hint = ""
  /\ osecs = << >> /\ osyms = << >>
  /\ symName = [y \in OutSyms |-> IF y = StringsSym THEN "" ELSE y]
  /\ strings = << >> /\ entries = << >> /\ frelas = << >> /\ strData = ""
  /\ secIndex = [s \in OutSecs |-> 0] /\ symIndex = [y \in OutSyms |-> 0]
  /\ shndx = [y \in OutSyms |-> IF y = StringsSym \/ SymSec0[y] = NoSec THEN "UNDEF" ELSE "sec"]
  /\ relaHdr = [s \in OutSecs |-> [link |-> 0, info |-> 0]]

MainInit == Init /\ OutInit

-----------------------------------------------------------------------------
(* The search for the source file name in main: the name of the first     *)
(* FILE symbol of the output, or ERROR.                                    *)
FindHint ==
  LET sl == MigratedSyms
      i == SelectInSeq(sl, LAMBDA y : SymType[y] = "FILE")
  IN /\ pc = "done" /\ ostage = "hint"
     /\ osecs' = MigratedSecs /\ osyms' = sl
     /\ IF i = 0
        THEN ostage' = "error" /\ UNCHANGED hint
        ELSE ostage' = "strings" /\ hint' = symName[sl[i]]
     /\ UNCHANGED << symName, strings, entries, frelas, strData, secIndex, symIndex, shndx, relaHdr >>

(* xsplice_create_strings_elements: the section and its section symbol,   *)
(* appended to the lists.                                                  *)
xsplice_create_strings_elements ==
  /\ pc = "done" /\ ostage = "strings"
  /\ ostage' = "patches"
  /\ osecs' = Append(osecs, StringsSec)
  /\ osyms' = Append(osyms, StringsSym)
  /\ symName' = [symName EXCEPT ![StringsSym] = ".xsplice.strings"]
  /\ UNCHANGED << hint, strings, entries, frelas, strData, secIndex, symIndex, shndx, relaHdr >>

(* Mutant: the '#' separator left out. *)
MangleNoSep(file, name) == file \o name

(* mangle_local_symbol: filename + '#' + symbolname *)
mangle_local_symbol(file, name) == file \o "#" \o name

(* offset_of_string (library): the offset of name in the pool, appending *)
(* it when it is not there yet.                                            *)
PoolOffset(l, n) == FoldLeft(LAMBDA a, s : a + Len(s) + 1, 0, SubSeq(l, 1, n - 1))
offset_of_string(l, name) ==
  LET i == SelectInSeq(l, LAMBDA s : s = name)
  IN IF i # 0 THEN [list |-> l, off |-> PoolOffset(l, i)]
     ELSE [list |-> Append(l, name), off |-> PoolOffset(Append(l, name), Len(l) + 1)]

(* lookup_local_symbol and lookup_global_symbol (library): the matching   *)
(* symbols of the running image.                                           *)
LookupLocal(name, file) == { r \in Running : r.bind = "LOCAL" /\ r.name = name /\ r.file = file }
LookupGlobal(name) == { r \in Running : r.bind = "GLOBAL" /\ r.name = name }

Patched(y) == OutType(y) = "FUNC" /\ symStatus[y] = "CHANGED"

(* One iteration of the populate loop for symbol y: look the function up, *)
(* ERROR when it is not found or is smaller than PATCH_INSN_SIZE, else    *)
(* emit the entry and its new_addr and name relocations.                  *)
AddEntry(acc, y) ==
  LET local == OutBind(y) = "LOCAL"
      funcname == IF local THEN mangle_local_symbol(hint, symName[y]) ELSE symName[y]
      found == IF local THEN LookupLocal(symName[y], hint) ELSE LookupGlobal(symName[y])
      res == CHOOSE r \in found : TRUE
      str == offset_of_string(acc.strings, funcname)
      base == Len(acc.entries) * EntrySize
  IN CASE acc.err \/ ~Patched(y) -> acc
       [] found = {} \/ res.size < PatchInsnSize -> [acc EXCEPT !.err = TRUE]
       [] OTHER ->
            [ acc EXCEPT
                !.entries = Append(@, [old_addr |-> IF Resolve THEN res.addr ELSE 0,
                                       old_size |-> res.size]),
                !.frelas = @ \o << [sym |-> y, off |-> base, add |-> 0],
                                   [sym |-> StringsSym, off |-> base + NameOff, add |-> str.off] >>,
                !.strings = str.list ]

(* create_section_pair: the section, then its .rela section, whose base   *)
(* it is (OutBase); both are appended to the section list.                 *)
create_section_pair(l) == l \o << FuncsSec, FuncsRelaSec >>

(* xsplice_create_patches_sections: the .xsplice.funcs pair is appended,  *)
(* then one entry per CHANGED function in symbol-list order.              *)
xsplice_create_patches_sections ==
  LET r == FoldLeft(AddEntry, [entries |-> << >>, frelas |-> << >>, strings |-> strings,
                                err |-> FALSE], osyms)
  IN /\ pc = "done" /\ ostage = "patches"
     /\ osecs' = create_section_pair(osecs)
     /\ IF r.err
        THEN ostage' = "error" /\ UNCHANGED << entries, frelas, strings >>
        ELSE ostage' = "pool" /\ entries' = r.entries /\ frelas' = r.frelas /\ strings' = r.strings
     /\ UNCHANGED << hint, osyms, symName, strData, secIndex, symIndex, shndx, relaHdr >>

(* Mutant: strings are laid out without their NULs. *)
StringPoolNoNul(l) == FoldLeft(LAMBDA a, s : a \o s, "", l)

(* Each string with its terminating NUL, in list order. *)
StringPool(l) == FoldLeft(LAMBDA a, s : a \o s \o Nul, "", l)

xsplice_build_strings_section_data ==
  /\ pc = "done" /\ ostage = "pool"
  /\ ostage' = "renameLocals"
  /\ strData' = StringPool(strings)
  /\ UNCHANGED << hint, osecs, osyms, symName, strings, entries, frelas,
                  secIndex, symIndex, shndx, relaHdr >>

(* xsplice_rename_local_symbols: every named local function and object    *)
(* becomes hint#name.                                                      *)
xsplice_rename_local_symbols ==
  /\ pc = "done" /\ ostage = "renameLocals"
  /\ ostage' = "reorder"
  /\ symName' = [y \in OutSyms |->
                   IF /\ y \in Range(osyms) /\ symName[y] # ""
                      /\ OutType(y) \in {"FUNC", "OBJECT"} /\ OutBind(y) = "LOCAL"
                   THEN mangle_local_symbol(hint, symName[y]) ELSE symName[y]]
  /\ UNCHANGED << hint, osecs, osyms, strings, entries, frelas, strData,
                  secIndex, symIndex, shndx, relaHdr >>

(* The selectors of xsplice_reorder_symbols; is_local_sym is library code. *)
is_null_sym(y) == symName[y] = ""
is_file_sym(y) == OutType(y) = "FILE"
is_local_func_sym(y) == OutBind(y) = "LOCAL" /\ OutType(y) = "FUNC"
is_local_sym(y) == OutBind(y) = "LOCAL"

(* Mutant: the pass that migrates the other local symbols is missing. *)
ReorderNoLocals(l) ==
  LET a == SelectSeq(l, is_null_sym)
      b == SelectSeq(l, LAMBDA y : ~is_null_sym(y))
      c == SelectSeq(b, is_file_sym)
      d == SelectSeq(b, LAMBDA y : ~is_file_sym(y))
  IN a \o c \o SelectSeq(d, is_local_func_sym) \o SelectSeq(d, LAMBDA y : ~is_local_func_sym(y))

(* The five xsplice_migrate_symbols calls: each moves the symbols its     *)
(* selector accepts, in order, from what is left to the new list.         *)
ReorderedSyms(l) ==
  LET Move(acc, sel(_)) == [out |-> acc.out \o SelectSeq(acc.rest, sel),
                            rest |-> SelectSeq(acc.rest, LAMBDA y : ~sel(y))]
      r1 == Move([out |-> << >>, rest |-> l], is_null_sym)
      r2 == Move(r1, is_file_sym)
      r3 == Move(r2, is_local_func_sym)
      r4 == Move(r3, is_local_sym)
  IN r4.out \o r4.rest

xsplice_reorder_symbols ==
  /\ pc = "done" /\ ostage = "reorder"
  /\ ostage' = "reindex"
  /\ osyms' = ReorderedSyms(osyms)
  /\ UNCHANGED << hint, osecs, symName, strings, entries, frelas, strData,
                  secIndex, symIndex, shndx, relaHdr >>

(* xsplice_reindex_elements: sections from 1, symbols from 0; a symbol's  *)
(* st_shndx is its section's index, else SHN_UNDEF unless it is SHN_ABS.  *)
xsplice_reindex_elements ==
  LET si == [s \in OutSecs |-> IF s \in Range(osecs) THEN Pos(osecs, s) ELSE 0]
  IN /\ pc = "done" /\ ostage = "reindex"
     /\ ostage' = "headers"
     /\ secIndex' = si
     /\ symIndex' = [y \in OutSyms |-> IF y \in Range(osyms) THEN Pos(osyms, y) - 1 ELSE 0]
     /\ shndx' = [y \in OutSyms |->
                    CASE y \notin Range(osyms) -> shndx[y]
                      [] OutSec(y) # NoSec -> si[OutSec(y)]
                      [] shndx[y] = "ABS" -> "ABS"
                      [] OTHER -> "UNDEF"]
     /\ UNCHANGED << hint, osecs, osyms, symName, strings, entries, frelas, strData, relaHdr >>

(* The loop of main over the relocation sections of the output: sh_link  *)
(* is the index of .symtab, sh_info that of the base section.             *)
SetRelaHeaders ==
  /\ pc = "done" /\ ostage = "headers"
  /\ ostage' = "written"
  /\ relaHdr' = [s \in OutSecs |->
                   IF s \in Range(osecs) /\ OutBase(s) # NoSec
                   THEN [link |-> secIndex[SymtabSec], info |-> secIndex[OutBase(s)]]
                   ELSE relaHdr[s]]
  /\ UNCHANGED << hint, osecs, osyms, symName, strings, entries, frelas, strData,
                  secIndex, symIndex, shndx >>

OutputNext ==
  \/ FindHint \/ xsplice_create_strings_elements \/ xsplice_create_patches_sections
  \/ xsplice_build_strings_section_data \/ xsplice_rename_local_symbols
  \/ xsplice_reorder_symbols \/ xsplice_reindex_elements \/ SetRelaHeaders

(* main: the passes of DiffPipeline, then those of the output object. *)
MainNext == (Next /\ UNCHANGED outVars) \/ (OutputNext /\ UNCHANGED vars)

MainSpec == MainInit /\ [][MainNext]_<< vars, outVars >> /\ WF_<< vars, outVars >>(MainNext)
-----------------------------------------------------------------------------
(* Properties                                                              *)

(* The string the loader finds at offset a of the pool: up to the NUL. *)
CStringAt(d, a) ==
  LET ends == { j \in a + 1..Len(d) : SubSeq(d, j, j) = Nul }
  IN IF ends = {} THEN SubSeq(d, a + 1, Len(d)) ELSE SubSeq(d, a + 1, Min(ends) - 1)

(* The relocations the loader applies to entry i, and what it reads from *)
(* them: the name through the relocation of the name slot, the function  *)
(* through the other one.                                                 *)
EntryRelas(i) == SelectSeq(frelas, LAMBDA r : (i - 1) * EntrySize <= r.off /\ r.off < i * EntrySize)
NameSlot(i) == (i - 1) * EntrySize + NameOff
LoadedName(i) ==
  LET n == SelectSeq(EntryRelas(i), LAMBDA r : r.off = NameSlot(i))
  IN IF Len(n) = 1 /\ n[1].sym = StringsSym THEN CStringAt(strData, n[1].add) ELSE ""
LoadedFunc(i) ==
  LET f == SelectSeq(EntryRelas(i), LAMBDA r : r.off # NameSlot(i))
  IN IF Len(f) = 1 THEN f[1].sym ELSE NoSym

(* The refinement mapping: the output stage is idle until the pipeline is *)
(* done, and the abstract table and symbol table are what the written     *)
(* object holds, read through the relocations and the indexes.            *)
OrigName(y) == IF y = StringsSym THEN ".xsplice.strings" ELSE y
AbsStage == IF pc # "done" THEN "idle"
            ELSE CASE ostage = "written" -> "written"
                   [] ostage = "error" -> "failed"
                   [] OTHER -> "writing"
AbsSyms == IF pc = "done" THEN MigratedSyms ELSE << >>
AbsChanged == IF pc = "done" THEN { y \in Range(MigratedSyms) : Patched(y) } ELSE {}
AbsTable ==
  IF ostage = "written"
  THEN [ i \in DOMAIN entries |-> [ func |-> LoadedFunc(i), name |-> LoadedName(i),
                                    old_addr |-> entries[i].old_addr,
                                    old_size |-> entries[i].old_size ] ]
  ELSE << >>
AbsSymtab ==
  IF ostage = "written"
  THEN [ i \in DOMAIN osyms |-> [ sym |-> osyms[i], name |-> symName[osyms[i]],
                                  index |-> symIndex[osyms[i]] ] ]
  ELSE << >>

Abstract == INSTANCE PatchOutputSpec
              WITH Symbols <- OutSyms, Name <- OrigName, Type <- OutType, Bind <- OutBind,
                   stage <- AbsStage, syms <- AbsSyms, changed <- AbsChanged,
                   table <- AbsTable, symtab <- AbsSymtab

(* main implements spec sections 4.6 and 4.7: the output stage only goes  *)
(* from idle, once the pipeline is done, to written or failed; it fails   *)
(* exactly when there is no FILE symbol or                                 *)
(* a changed function is missing from the running image or too small, and *)
(* otherwise the loader finds one entry per changed function, in list     *)
(* order, whose name in the string pool is the running image's name for   *)
(* it, with that image's size (and address with --resolve), and a symbol  *)
(* table in bucket order, each bucket in list order, indexed from 0, with *)
(* local functions and objects renamed. This ties together lookup,        *)
(* offset_of_string, the pool layout of                                   *)
(* xsplice_build_strings_section_data, the rename after the table, the   *)
(* reorder and the reindex.                                                *)
ImplementsPatchOutputSpec == Abstract!SafetySpec

(* The written symbol table is one the ELF rules accept and the links     *)
(* into it are right: the null symbol is index 0, every local precedes    *)
(* every global, a symbol's st_shndx is the index of its section in the   *)
(* output, a relocation section's sh_link is .symtab and sh_info its base, *)
(* and the patch-table relocations target symbols of the output. This is  *)
(* about xsplice_reorder_symbols run after symbols were appended, and     *)
(* xsplice_reindex_elements run after the last section was appended.      *)
SymtabLinkCompliant ==
  ostage = "written" =>
    /\ symIndex[NullSym] = 0
    /\ \A a, b \in Range(osyms) :
         OutBind(a) = "LOCAL" /\ OutBind(b) = "GLOBAL" => symIndex[a] < symIndex[b]
    /\ \A y \in Range(osyms) :
         OutSec(y) # NoSec => shndx[y] \in DOMAIN osecs /\ osecs[shndx[y]] = OutSec(y)
    /\ \A s \in Range(osecs) :
         OutBase(s) # NoSec =>
           /\ relaHdr[s].link \in DOMAIN osecs /\ osecs[relaHdr[s].link] = SymtabSec
           /\ relaHdr[s].info \in DOMAIN osecs /\ osecs[relaHdr[s].info] = OutBase(s)
    /\ \A i \in DOMAIN frelas : frelas[i].sym \in Range(osyms)
=============================================================================
