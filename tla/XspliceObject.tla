--------------------------- MODULE XspliceObject ---------------------------
(***************************************************************************)
(* The in-memory object model of one relocatable ELF file as the loader   *)
(* (xsplice_elf_open, outside src/) builds it for create-diff-object.c:   *)
(* the ordered section and symbol lists, the section kinds the passes     *)
(* test by name, and the fixed links between sections and symbols.        *)
(* Sections, symbols and names are model values; a section's name is      *)
(* abstracted to its kind, because every name test of the code is a      *)
(* prefix or equality test that the kind decides.                         *)
(***************************************************************************)
EXTENDS Naturals, Sequences, FiniteSets

CONSTANTS
  Secs,        \* sections of the patched object
  Syms,        \* symbols of the patched object
  NoSec,       \* NULL section pointer
  NoSym,       \* NULL symbol pointer
  SecOrder,    \* kelf->sections: the list order of Secs
  SecKind,     \* [Secs -> SecKinds], what the section's name says
  RelaBase,    \* sec->base of a relocation section, NoSec otherwise
  SymType,     \* [Syms -> SymTypes]
  SymBind,     \* [Syms -> {"LOCAL", "GLOBAL"}]
  SymSec0,     \* sym->sec as loaded (NoSec for SHN_UNDEF / SHN_ABS)
  Bundled0,    \* sec->sym as loaded: the bundled function/object
  Secsym0,     \* sec->secsym as loaded: the STT_SECTION symbol
  NullSym,     \* the zeroth symbol (empty name)
  ConstLabels, \* symbols named .LC<digits> (is_constant_label)
  HookData,    \* symbols named xsplice_load_data / xsplice_unload_data
  GroupData,   \* [Secs -> Seq(Nat)], the words of an SHT_GROUP section: a flag word,
               \* then the indexes of its member sections
  SecSize,     \* [Secs -> Nat], sh_size
  SecAlign,    \* [Secs -> Nat \ {0}], sh_addralign
  GroupSize,   \* [Secs -> Nat], group size of a fixed-size special section
  SpecialTable \* special_sections[] present in the object, in table order

SecKinds ==
  { "text", "rodata", "rodatastr", "data", "dataunlikely", "bss", "strtab",
    "debug", "hooks", "special", "altrepl", "group", "rela", "other" }
SymTypes == { "FUNC", "OBJECT", "SECTION", "FILE", "NOTYPE" }
Statuses == { "NEW", "CHANGED", "SAME" }

ASSUME /\ NoSec \notin Secs /\ NoSym \notin Syms /\ NullSym \in Syms
       /\ SecOrder \in Seq(Secs) /\ \A s \in Secs : \E i \in DOMAIN SecOrder : SecOrder[i] = s
       /\ SecKind \in [Secs -> SecKinds]
       /\ RelaBase \in [Secs -> Secs \cup {NoSec}]
       /\ \A s \in Secs : (RelaBase[s] # NoSec) <=> (SecKind[s] = "rela")
       /\ SymType \in [Syms -> SymTypes] /\ SymBind \in [Syms -> {"LOCAL", "GLOBAL"}]
       /\ SymSec0 \in [Syms -> Secs \cup {NoSec}]
       /\ Bundled0 \in [Secs -> Syms \cup {NoSym}] /\ Secsym0 \in [Secs -> Syms \cup {NoSym}]
       /\ SpecialTable \in Seq(Secs)
       /\ GroupData \in [Secs -> Seq(Nat)]

(* is_rela_section *)
IsRelaSection(s) == RelaBase[s] # NoSec

(* sec->rela: the relocation section whose base is s *)
RelaOf(s) == IF \E r \in Secs : RelaBase[r] = s
             THEN CHOOSE r \in Secs : RelaBase[r] = s
             ELSE NoSec

(* is_debug_section: ".debug_" or, for a relocation section, ".rela.debug_" *)
IsDebugSection(s) ==
  SecKind[IF IsRelaSection(s) THEN RelaBase[s] ELSE s] = "debug"

(* A relocation: its target symbol and its offset in the base section. *)
Rela == [sym : Syms, off : Nat]
=============================================================================
