# TLA+ models of create-diff-object (xsplice-build)

`src/create-diff-object.c` compares a base and a patched relocatable ELF
object. Both are compiled with `-ffunction-sections -fdata-sections`. From
the comparison it builds an object that holds only the changed and new code,
plus the tables the hypervisor's live-patching loader needs. The program is a
single-threaded sequence of passes run by `main()`. All of them work on an
in-memory object model (lists of sections, symbols and relocations) that the
ELF library builds outside `src/`.

There are no threads, signals or callbacks, and nothing persists between
runs. What makes the code hard to test is **the order of the passes and the
data flowing between them**:

- a pass reads flags that an earlier pass set;
- a later pass sets flags that an earlier pass has already acted on;
- a recursion stops at a flag that someone else set.

So each model has one action per pass. A `pc` variable holds the next pass.
The nondeterminism is in the **inputs**: `Init` ranges over every way the
base object can relate to the patched one.

## 1. Inventory

| Component | Code (create-diff-object.c) | State it changes | Status |
|---|---|---|---|
| Command line | `parse_opt`, `main` 1645-1716 | `arguments` (operands, `-d`, `-r`) | `ParseOpt`, composed in front of `Correlate` by `MainFront` |
| ELF loader / writer, lookup table | outside `src/` | the object model | not modelled (I/O; its result is the constants of `XspliceObject`) |
| Header checks | `xsplice_compare_elf_headers`, `xsplice_check_program_headers` 58-91 | none (abort or continue) | `DiffPipeline` (`CheckHeaders`) |
| Grouped sections | `xsplice_mark_grouped_sections` 92-113 | `sec->grouped` | `DiffPipeline` (`xsplice_mark_grouped_sections`, from the group data `GroupData`) |
| Section-symbol replacement | `xsplice_replace_sections_syms` 122-192 | `rela->sym`, `rela->addend` | `Correlate` (`ReplaceSectionsSyms`) |
| Mangled renaming | `xsplice_mangled_strcmp`, `xsplice_rename_mangled_functions` 198-286 | symbol and section names | `MangledStrcmp`, `Correlate` |
| Correlation | `xsplice_correlate_*`, `xsplice_find_static_twin` 295-569 | `twin` links, static-local names | `Correlate`; its outcome is the input of `DiffPipeline` |
| Comparator | 571-732 | `status` of sections and symbols | `DiffPipeline`; relocation sections also `Correlate` |
| Ignore directives, constant labels | 734-827 | `status`, `ignore`, `include` | `DiffPipeline` |
| Inclusion engine | 1063-1223 | `include`, hook relas, `sec->sym` | `DiffPipeline` |
| Special sections | 829-1061 | special section relas, data, include, status | `DiffPipeline` (group level, inside the pipeline); `SpecialSection` (byte level, `.fixup` sizes, buffers), refining `SpecialSectionSpec` |
| Verification, migration | 1239-1337 | output lists, links | `DiffPipeline` |
| Strings, patch tables, local renaming | 1339-1590, `main` 1800-1824 | new sections, names, string pool | `PatchTable` |
| Reorder, reindex, rela headers | 1592-1643, `main` 1833-1850 | symbol order, indexes, `sh_link`/`sh_info` | `PatchTable`; rela data rebuild and writers are library code |

**Interactions.** Each pass communicates with the next only through the
status and include flags and through the relocation lists.

- The comparator's status decides what the inclusion engine starts from.
- Every include pass, and the recursion of `xsplice_include_symbol`, reads
  the include flags that the earlier passes set.
- The debug, hook and special-section passes rewrite relocation lists that
  later passes and the writer read.

**Correctness properties** (from spec sections 3, 4.4 and 8, and the comments
in the code):

- the output is self-contained: every kept relocation targets a kept symbol,
  and no kept element links to one left behind;
- the inclusion is the closure of the changed functions under relocations;
- a change is never lost: a correlated function whose code differs is in the
  patch as CHANGED, or the program fails. Exit 3 ("no changed functions")
  means that nothing changed;
- debug information is kept for all the code in the patch;
- the hook indirection objects are stripped;
- special-section entries are kept exactly for included functions, with
  their relocations rebased to the compacted offsets.

## 2. Plan and status

1. `XspliceObject` (done): the object model as CONSTANTS (section kinds,
   rela/base links, symbol type and binding, bundled and section symbols),
   with the library predicates `is_rela_section` and `is_debug_section`,
   modelled from the spec because that code is not under `src/`.
2. `DiffPipeline` (done): the passes from `xsplice_mark_ignored_sections`
   to `xsplice_migrate_included_elements`.
3. `SpecialTable`, `SpecialSectionSpec`, `SpecialSection` (done): the
   special-section rewriter at byte-offset level, one group per step, with
   `fixup_group_size`, the copy buffers and the `.ex_table` entries that
   point into `.fixup`; an abstract specification from spec section 4.5
   and the refinement that shows the code implements it; termination of
   the group walk.
4. `MangledStrcmp`, `Correlate` (done): `xsplice_mangled_strcmp` checked
   against the spec's mangled equality; renaming, section and symbol
   correlation and static-local correlation, checked against the pairing
   the program's elements call for.
5. `Correlate` extended (done): `xsplice_replace_sections_syms` in front
   of the correlation passes and the relocation comparison after them.
6. `PatchTable` (done): the rest of `main` after migration, composed
   after `DiffPipeline` in `MC_Main`: the file hint, `.xsplice.strings`,
   `.xsplice.funcs` and its relocations, the string pool, local renaming,
   the symbol reorder, reindexing and the relocation-section headers.
7. Header checks, grouped sections and `PatchOutputSpec` (done): the
   first two steps of `main`, and an abstract specification of the output
   stage from spec sections 4.6 and 4.7 that `PatchTable` is shown to
   implement.
8. `ParseOpt`, `MainFront` and moved symbols (done): the command line
   (`parse_opt` under argp) composed in front of the correlation passes;
   an input of `MC_DiffPipeline` that moves a symbol between sections, so
   both outcomes of the check at line 691 are reached in the pipeline
   runs.
9. Left: composing `Correlate`'s outcome with `DiffPipeline`'s input
   (the two state spaces multiply past what TLC finishes in minutes); a
   stable-partition abstract specification of `xsplice_reorder_symbols`.

## 3. The modules

### XspliceObject
Constants only.

- Section names are abstracted to a **kind**, because every name test in the
  code is an equality or prefix test that the kind decides:
  - `text`, `rodata`, `rodatastr` (`.rodata.str1.*`), `data`, `bss`;
  - `strtab` (`.symtab`, `.strtab`, `.shstrtab`);
  - `debug`, `hooks`, `special`, `altrepl`, `group`, `rela`.
- `RelaBase` is `sec->base`, and `RelaOf` is `sec->rela`.
- `SymSec0`, `Bundled0` and `Secsym0` are `sym->sec`, `sec->sym` and
  `sec->secsym` as loaded.

### DiffPipeline

**Variables.** Each mirrors a field of the object model:

| Variable | Code field |
|---|---|
| `secStatus`, `symStatus` | `status` |
| `secIgnore` | `sec->ignore` |
| `secInclude`, `symInclude` | the `include` flags, as sets |
| `relas` | `sec->relas` |
| `secSym` | `sec->sym` |
| `secSecsym` | `sec->secsym` |
| `symSec` | `sym->sec` |
| `numChanged`, `newGlobals` | the two counters of `main` |
| `secGrouped` | `sec->grouped`, as a set |
| `pc` | the next pass, or how the program ended |

The ending values of `pc` are `done`, `noChange` (exit 3), `diffFatal`
(exit 2) and `error` (exit 1).

**Input record** (`Input`). What correlation leaves behind:

- the twinned sections and symbols;
- the twinned sections that compare unequal (size, bytes or relocation
  list);
- for each symbol, the patched twin of its base counterpart's section;
- the relocation lists;
- whether the ELF headers of the two objects agree and neither has program
  headers (`headersOK`): nothing else reads the headers, so only the
  outcome of the comparison is kept.

**Actions.** One per function called by `main`, each modelling the whole
function:

| Action | Function |
|---|---|
| `CheckHeaders` | `xsplice_compare_elf_headers` and both `xsplice_check_program_headers` calls of `main`: DIFF_FATAL unless the input's `headersOK` |
| `xsplice_mark_grouped_sections` | every section whose index an SHT_GROUP section lists after its flag word (`GroupMembers`) becomes grouped (`secGrouped`); ERROR "group section not found" for an index that names no section |
| `xsplice_mark_ignored_sections` | `xsplice_mark_ignored_sections` |
| `xsplice_compare_correlated_elements` | the comparison. `CompareSection` is the outcome of `xsplice_compare_correlated_section`. `SyncSymStatus` is one iteration of the status-sync loop, folded over the section list in order. `CompareSymbol` and `Moved` model `xsplice_compare_correlated_symbol`, including the "symbol changed sections" DIFF_FATAL. |
| `xsplice_mark_ignored_functions_same` | with its ERROR branches |
| `xsplice_mark_ignored_sections_same` | `xsplice_mark_ignored_sections_same` |
| `xsplice_mark_constant_labels_same` | `xsplice_mark_constant_labels_same` |
| `xsplice_include_standard_elements` | `xsplice_include_standard_elements` |
| `xsplice_include_changed_functions` | through the RECURSIVE `xsplice_include_symbol`. The include flags are carried through the recursion as a record `[secs, syms]`, and the relocations are visited in list order. |
| `xsplice_include_debug_sections` | `xsplice_include_debug_sections` |
| `xsplice_include_hook_elements` | one `HookStep` per section, in list order |
| `xsplice_include_new_globals` | `xsplice_include_new_globals` |
| `NoChangesFound` | the `return 3` of `main` |
| `xsplice_process_special_sections` | `xsplice_regenerate_special_section` for each special section in table order, then the `.altinstr_replacement` loop |
| `xsplice_verify_patchability` | over `UnsupportedSections` |
| `xsplice_migrate_included_elements` | `xsplice_migrate_included_elements` |
| `Terminated` | stuttering after the program has ended |

**Special sections** are modelled at group granularity, for the
fixed-group-size sections (`.ex_table`, `.bug_frames.*`,
`.altinstructions`):

- a group is kept when one of its relocations targets a FUNC whose section
  is included;
- the kept relocations are rebased by `src_offset - dest_offset`;
- the aligned-size check is the ERROR branch;
- a section with no kept group becomes SAME and is dropped.

### MC_DiffPipeline
One patched object:

- functions `f` (local), `g` (global) and `h` (local), each in its own text
  section with a relocation section;
- a bundled static `x` in `.data.x`, `.rodata`, a string section holding
  `.LC0`, `.symtab` and `.debug_info` with relocations to every code
  section;
- an `.ex_table` of three 8-byte entries, one per function;
- optionally, a load hook (`.xsplice.hooks.load` with `xsplice_load_data`)
  naming a new function `hookfn`, or, with `HookOnExisting`, one of
  `f`, `g`, `h`;
- optionally (`GroupF`), a COMDAT group section `group.f` whose data is
  the flag word and the indexes of `.text.f` and `.rela.text.f`; the base
  object has the group when it has `f`.

`Init` ranges over:

- the **fate** of each function: unchanged, code changed, relocations
  changed, new, or (`relaNew`) code equal while the base function had no
  relocations;
- the fate of `x`: unchanged, changed, new, or moved. A moved `x` was a
  `const` object in `.rodata` in the base object; its patched section
  `.data.x` is new, and `x` is correlated by name. This reaches the
  "symbol changed sections" branch of `xsplice_compare_correlated_symbol`:
  fatal in `MC_Main.cfg`, tolerated in `MC_Main_nohook.cfg`, where the
  author ignores `.rodata`;
- whether `.rodata` differs, and whether `.ex_table` differs;
- whether the header checks pass;
- the relocation list of each function, from a small menu. This covers:
  - calls between functions, which give recursion through an already
    included section;
  - a reference to `x`, a data section that verification rejects;
  - a call to the undefined `printk`;
  - references to `.rodata` through its section symbol;
  - a reference to the constant label `.LC0`.

Together these are 32,768 initial states. Every pass runs to completion in
one step, so the depth is 16. The bounds are small, but they reach every
branch that the properties are about:

- included and not-included sections at every recursion base case;
- kept and dropped `.ex_table` groups at every position, so that rebasing
  moves relocations;
- every exit of `main`.

### PatchTable and MC_Main

`PatchTable` EXTENDS `DiffPipeline` and continues `main` where the
pipeline reaches `done`. Its own counter, `ostage`, names the next output
pass, and `MainNext` is a pipeline step that leaves the output variables
alone, or an output step that leaves the pipeline's variables alone.

| Action | Code |
|---|---|
| `FindHint` | the search for the first FILE symbol in `main` (ERROR if none); it reads the output lists `xsplice_migrate_included_elements` built (`MigratedSecs`, `MigratedSyms`) |
| `xsplice_create_strings_elements` | appends `.xsplice.strings` and its LOCAL SECTION symbol |
| `xsplice_create_patches_sections` | appends the `.xsplice.funcs` pair (`create_section_pair`), then one `AddEntry` per CHANGED FUNC in symbol-list order: lookup by `hint#name` (local) or name (global), ERROR when not found or smaller than `PATCH_INSN_SIZE`, the entry's `old_addr`/`old_size`, and the two relocations (function at `index * sizeof`, `.xsplice.strings + offset_of_string` at `index * sizeof + offsetof(name)`) |
| `xsplice_build_strings_section_data` | lays the strings out NUL-terminated, in list order (`StringPool`) |
| `xsplice_rename_local_symbols` | named local FUNC/OBJECT symbols become `hint#name` |
| `xsplice_reorder_symbols` | the five `xsplice_migrate_symbols` calls (`ReorderedSyms`): null, FILE, local functions, other locals, the rest |
| `xsplice_reindex_elements` | sections from 1, symbols from 0, `st_shndx` from `sym->sec`, else UNDEF unless ABS |
| `SetRelaHeaders` | the loop of `main` that sets `sh_link` to `.symtab` and `sh_info` to the base section |

Names are TLA+ strings, so the mangling, the pool offsets and the pool
itself are computed, not assumed; the NUL terminator is the character
`Nul` (`|`), which no name holds. `offset_of_string`, `lookup_*_symbol`
and `is_local_sym` are library code, modelled from the spec (sections 4.6
and 6). The lookup ERRORs for `.xsplice.strings` itself are left out: the
element was created the step before.

`MC_Main` EXTENDS `MC_DiffPipeline` and `PatchTable`. Its symbol list puts
the FILE symbol after `f`, and globals and section symbols among the
locals, so that the reorder moves every bucket. The running image has `f`,
`g`, `h` and `x` of file `file`, and a second local `f` of another file,
which the file hint must rule out. `SmallH` makes `h`'s running copy 3
bytes, below `PATCH_INSN_SIZE` = 5. `EntrySize` = 40 and `NameOff` = 24
follow the record of spec section 6. `MC_Main.cfg` also groups `f`, so a
changed or new `f` is rejected as a changed grouped section while `g` and
`h` are still patched; `MC_Main_nohook.cfg` leaves `f` ungrouped, because
there `g` is ignored and `h` too small, and `f` is the only function that
can be written. About 218k states in 65 s with the hook, 241k in 55 s
without.

**The refinement.** `PatchOutputSpec` states what spec sections 4.6 and
4.7 promise of the output stage, in one step from the symbol list migration
leaves: either the build fails (no FILE symbol, a changed function not in
the running image or smaller than the patch site), or one `.xsplice.funcs`
entry is written per changed function in list order, named by the running
image's name for it (`hint#name` for a local) with that image's size and,
with `--resolve`, address, together with a symbol table in bucket order,
each bucket in list order, indexed from 0, with named local functions and
objects renamed. `PatchTable` maps its state onto it: the abstract stage
is idle until the pipeline is done and `written` or `failed` when `ostage`
is; the abstract table is what a loader reads from the written object,
the function through the entry's first relocation and the name as the
NUL-terminated string at the addend of the name relocation in the laid-out
pool (`LoadedFunc`, `LoadedName`, `CStringAt`). `ImplementsPatchOutputSpec`
checks the safety part of the abstract specification. Its weak fairness
is not checked: TLC's liveness checker is far too slow on this state space
(hours, not minutes), and in `MainSpec` every state has at most one
successor, so a stage that cannot end is a deadlock, which TLC reports.

**The `new_addr` relocation.** The code writes the relocation that "will
populate the funcs[index].new_addr field" at `index * sizeof(*funcs)`,
offset 0 of the entry. In the record of spec section 6 (`old_addr`,
`new_addr`, `old_size`, `new_size`, `name`) offset 0 is `old_addr`. The
structure is declared outside `src/`, so the spec's field list is the only
layout available. If it is right, the loader overwrites `old_addr` with
the new function and `new_addr` stays 0. `ImplementsPatchOutputSpec`
reads the function from the entry's relocation that is not at the name
slot, so it does not tell the fields apart. The disagreement is a hazard
in `PROJECT.json`, not a run, because the run list is full.

### SpecialTable, SpecialSectionSpec and SpecialSection

`SpecialTable` holds what the rewriter works on: the `special_sections[]`
table in order, the constant group sizes, `AlignedSize` and
`should_keep_rela_group`. Section bytes are **labels**: the byte at
original offset `i` carries `i`. A compacted section then says which
original bytes it holds, and a label not below `sh_size` is a byte read
past the end of the source buffer.

`SpecialSectionSpec` is what spec section 4.5 promises, one special
section per step: the groups (fixed size, or for `.fixup` the ranges
between the *ordered* `.fixup` offsets referenced from `.rela.ex_table`,
the last ending at the *padded* end), the walk that must end at the
aligned size, the kept groups in order, their relas rebased, their targets
included, and a section with nothing kept dropped and made SAME.

`SpecialSection` is the code: `xsplice_process_special_sections` and the
loop of `xsplice_regenerate_special_section`, **one group per step**
(`RegenerateGroup`), so that the walk's progress and the copy buffers are
visible. `fixup_group_size` is translated as written: the group ends at
the next `.fixup` reference *after it in list order* with a larger addend,
else at `sh_size`. Variables: `srcOff`, `destOff`, `destBuf` (the labels
memcpy'd into `dest`), `newrelas`, and `overrun` (some memcpy went past
`sh_size`). `pc` is `next` (the table loop), `loop` (inside a section),
`done` or `error` (an ERROR).

**Refinement.** `Abs == INSTANCE SpecialSectionSpec WITH ...` maps the
code's state to the spec's. Inside the group loop the abstract state is the
one before the section began: a history variable `saved` keeps the relas
and the included symbols of that moment. An ERROR anywhere in a section is
the abstract failing step, which consumes the section. The property
`ImplementsSpecialSectionSpec == Abs!Spec` is checked by TLC.

### MC_SpecialSection
An x86 patched object with three `.ex_table` entries. Entry `e` has a rela
to its function `f1..f3` at +0 and a rela to `.fixup`+addend at +4. The
fixup code of entry `e` is the `.fixup` group `Share[e]`: group `k` belongs
to `fk`, is 1 or 2 bytes, and ends with the jump back to `fk`. `Init`
ranges over the sharing pattern (two entries may share a group), the group
sizes and the functions whose sections were included: 2,112 states. The
constants `Unsorted`, `ExSize` and `FixAlign` select the inputs of the
violation runs.

### MangledStrcmp and MC_MangledStrcmp
`xsplice_mangled_strcmp` is a RECURSIVE operator over names as sequences of
characters, translated branch by branch (the look-ahead at `s1[1]` and
`s2[1]`, the two digit-skipping loops, the fall-through `return 1`).
`MangledEqual` is the reference, written from the spec alone: replace the
digits of each `.<digits>` run by one mark and compare. The harness compares
every pair of names of up to 5 characters over `{a, ., 0, 1}`
(3.7 million states, 15 s).

### Correlate and MC_Correlate
The passes of `main` from section-symbol replacement to the comparison of
the relocation sections, in order. An object is two lists, `syms`
and `secs`, whose fields are the code's (`sec`, `base`, `rela`, `sym`,
and the relocations as records). A name is a sequence of
**tokens**: a word, `.` or a digit. Words hold neither `.` nor digits, so
`strcmp`, `strstr`, `strncmp` and `xsplice_mangled_strcmp` on tokens agree
with them on characters, and `Correlate` calls the `MangledStrcmp`
operator itself. A relocation has the code's `type`, `offset` and `addend`,
and `tail`, the number of bytes from the relocation to the end of its
instruction, as the instruction decoder finds it. Its target is either a
symbol or the section symbol of a section. Section symbols are not in the
symbol list. The comparison reads their names, which are the section names
(a `.rodata` sibling's follows its section's rename, a `.text` one's does
not), and no other pass reads them. Ghost fields give the properties the
truth, and the code never reads them:

- `id` says which base and patched elements are the same element of the
  program;
- `corr` says whether spec section 4.1 correlates them;
- a relocation's `tid` and `delta` give the element, and the byte within
  it, that its instruction refers to.

| Action | Function |
|---|---|
| `ReplaceSectionsSyms` | `xsplice_replace_sections_syms` on the base object, then the patched one: `ReplaceRela` moves a reference through a bundled section's symbol to the bundled symbol, and one into another section to the first symbol that covers `addend + add_off` (`AddOff`: the tail for PC32, 0 for 64 and 32S, other types left alone), less its value |
| `RenameMangledFunctions` | `xsplice_rename_mangled_functions`, a fold of `RenameOne` over the patched symbols in order: the first mangled-equal base symbol, the `.text`, `.rodata` and rela renames, and `crash` when a rela section it renames has no base counterpart (`basesym->sec->rela->name`) |
| `CorrelateSections` | `xsplice_correlate_sections`: `SecMatch` (name, special static through the section symbol, section-group contents); a patched section keeps the last base section that chose it |
| `CorrelateSymbols` | `xsplice_correlate_symbols`: `SymMatch` (name, type, special static, constant label, group twin) |
| `StaticSkip`, `CorrelateStatic` | one iteration of `xsplice_correlate_static_local_variables`: `StaticUsers`, `FindStaticTwin` for each user, and the ERRORs (unused, ambiguous, bundle mismatch, sections not twinned), the warning, or the rename and twinning |
| `CompareRelaSections` | the relocation-section part of `xsplice_compare_sections`: NEW when untwinned, CHANGED on a different size, else the walk of `xsplice_compare_correlated_rela_section` with `rela_equal` (type, offset, addend; two constant labels match; a special static matches under `xsplice_mangled_strcmp`; else the names) |
| `StaticsDone`, `Terminated` | end of the correlation; `error` and `crash` end the program |

The SAME status these passes set is left out: `xsplice_compare_sections`
and `xsplice_compare_symbols` set the status of every patched element from
its twin before anything reads it.

`MC_Correlate` builds the base and a patched build of the same source in
which gcc chose other numbers:

- `f` (global) uses the statics `c.N` (bundled in `.bss.c.N`), `__key.N`
  (special) and `d.N` (in the shared `.data`), and the label `.LC0`;
- the clone `g.isra.N` has a jump table in `.rodata.g.isra.N`, and a rela
  section in both builds, in neither, or only in the base;
- a `.group` section whose contents may differ;
- `d` and a global `v` share `.data`, `d` first or `v` first, independently
  in each build;
- `f` reaches `d` with a rip-relative load (tail 4), a rip-relative store of
  an immediate (tail 8), or an absolute 32S address, and the patched `f` may
  touch another byte of `d`.

Each reference is emitted as the assembler emits it (`Encode`). A global
symbol or a constant label is the target itself. A local symbol is reached
through its section's symbol, with the symbol's value in the addend. For
PC32 the addend is biased by the tail. `Init` ranges over all of these
(2,304 object inputs times four command lines, 96,768 states, 35 s). `DupClones` adds a second clone of `g`,
`SharedStem` a second static named `c` used by `g`, and `GainRela` a clone
whose rela section exists only in the patched build.

### ParseOpt and MainFront
`ParseOpt` is the command line. `main` zeroes `debug` and `resolve` and
calls `argp_parse`, which calls `parse_opt` once per callback: the
options, then the operands (getopt permutes them behind the options),
then `ARGP_KEY_END`, with the special keys `INIT`, `NO_ARGS`, `SUCCESS`
and `FINI` around them. The constant `Calls` holds the callback
sequences argp can make; one action per `case` of `parse_opt`:

| Action | Code |
|---|---|
| `ParseDebug`, `ParseResolve` | `case 'd'`, `case 'r'` |
| `ParseArg` | `ARGP_KEY_ARG`: usage on a fifth operand, else `args[arg_num] = arg` |
| `ParseEnd` | `ARGP_KEY_END`: usage with fewer than four operands |
| `ParseUnknown` | `default: ARGP_ERR_UNKNOWN` |
| `ParseDone`, `UsageExit` | `argp_parse` returns; `argp_usage` has exited |

`args` holds only the entries written: the array is not initialised, so
an entry read but never written would be undefined. `MainFront` composes
`ParseOpt` with `Correlate`: the correlation passes start only once
`argp_parse` has returned. `MC_Correlate` gives four command lines:
`-d -r` and four operands, three operands, five operands, and none.

## 4. Runs

| Run | Config | Expect | What it shows |
|---|---|---|---|
| `pipeline` | `MC_Main.cfg` | pass | With a load hook on a new function and `--resolve`, every input ends with an output closed under references (`OutputSelfContained`), inclusion equal to the reference closure `Reach` (`InclusionIsClosure`), no change lost (`NoChangeLost`), and `TypeOK`. `f` is in a COMDAT group, so a change to it ends in DIFF_FATAL while changes to `g` and `h` are patched. `ImplementsPatchOutputSpec`: the output stage implements `PatchOutputSpec` (spec sections 4.6 and 4.7); it fails exactly when the spec says, and otherwise the loader finds one entry per changed function, in list order, whose name, read through its relocation and the string pool, is the running image's name for that function, with the image's size and address, and the symbol table the spec prescribes. `SymtabLinkCompliant`: null symbol first, locals before globals, `st_shndx`, `sh_link` and `sh_info` index the right sections. A moved `x` (from `.rodata` to a new `.data.x`) ends in "symbol changed sections". |
| `pipeline_nohook` | `MC_Main_nohook.cfg` | pass | The same with no hook, with `g` and `.rodata` ignored, without `--resolve`, and with `h` too small to patch. The exit-3 path and the too-small ERROR are reachable; with `f` ungrouped, a changed `f` is written. With `.rodata` ignored, `x` moving out of it is tolerated and the properties hold on what follows. |
| `hook_on_existing` | `MC_DiffPipeline_hookexisting.cfg` | violation | `OutputSelfContained`: a hook on an unchanged function. `xsplice_include_symbol` returns early, the function's section and section symbol stay out, and the hook rela is redirected to that section symbol, which is not in the output. |
| `rela_new` | `MC_DiffPipeline_relanew.cfg` | violation | `NoChangeLost`: the status-sync loop copies the NEW status of an uncorrelated `.rela.text.f` to a correlated `f`, so the change is lost (exit 3). |
| `special` | `MC_SpecialSection.cfg` | pass | `ImplementsSpecialSectionSpec` (the refinement), `WalkTerminates`, `NoBufferOverrun`, `TypeOK` for sorted, shared and unshared fixups and every inclusion. |
| `fixup_addend` | `MC_SpecialSection_fixupaddend.cfg` | violation | `ExTableFixupTargets`: `.fixup` is compacted before `.ex_table`, and only the relas of the section being compacted are rebased, so a kept `.ex_table` entry keeps its old `.fixup` addend and points at another function's fixup code. |
| `mangled_strcmp` | `MC_MangledStrcmp.cfg` | pass | `MangledStrcmpIsMangledEquality`: the code returns 0 exactly for the pairs the spec calls mangled-equal. |
| `correlate` | `MC_Correlate.cfg` | pass | `CorrelationExact`: each base element the spec correlates is twinned with its counterpart and nothing else, twins point at each other, and twinned patched symbols carry the base names. `RelaCompareSound`: a relocation section found SAME refers, relocation by relocation, to the same elements and bytes as its twin. `RelaCompareComplete`: one that does is found SAME, however `.data` is laid out and whatever numbers gcc chose. `NoNullDeref`, `TypeOK`. `ParsedArgsComplete`: when `argp_parse` returns, exactly the four entries of `args` that `main` reads are written, and the program exits with the usage exactly when the command line does not have four operands. |
| `correlate_dupclones` | `MC_Correlate_dupclones.cfg` | violation | `PatchedFunctionNamesUnique`: with clones `g.isra.1` and `g.isra.2` in both builds, the patched `g.isra.2` is renamed `g.isra.1`, the first mangled-equal base name. |
| `correlate_sharedstem` | `MC_Correlate_sharedstem.cfg` | violation | `CorrelationExact`: `f` uses `c.1` and `g` uses `c.2`; in the patched build gcc swapped the numbers. Name correlation twins `f`'s base `c.1` with `g`'s patched `c.1`, and `f`'s patched `c.2` then finds its base variable taken and becomes NEW. |
| `hook_data` | `MC_DiffPipeline_hookdata.cfg` | violation | `HookDataStripped`: `xsplice_include_hook_elements` strips `xsplice_load_data`, which its comment at line 1200 calls a temporary global object; `xsplice_include_new_globals`, run next, includes every untwinned global with a section, so the object is included again and written. |
| `correlate_gainrela` | `MC_Correlate_gainrela.cfg` | violation | `NoNullDeref`: a renamed clone whose rela section exists only in the patched build makes the rename read `basesym->sec->rela->name` through NULL. |

**Reproductions kept beside the runs.** Three more configurations show
disagreements that the runs above leave out, to keep the run list to the
most consequential questions. `MC_DiffPipeline_debug.cfg` violates
`DebugRelasPreserved`: debug relas are filtered before the hook and
new-global passes include their code.
`MC_SpecialSection_unsorted.cfg` violates `ImplementsSpecialSectionSpec`:
with `.ex_table` listing fixups out of address order, two `.fixup` groups
merge. `MC_SpecialSection_unpadded.cfg` violates it too: the last `.fixup`
group ends at `sh_size`, not the padded end, and an unaligned `.fixup`
fails with "group size mismatch".

**Mutants.** Every property of a passing run has a mutant in
`PROJECT.json`: a plausible bug in a mapped definition that TLC catches
under the run's configuration.

| Run | Property | Mutant | Bug it models |
|---|---|---|---|
| pipeline(s) | `NoChangeLost` | `CompareSectionSizeOnly` | relocation sections compared by size only |
| pipeline(s) | `InclusionIsClosure` | `IncludeBaseCaseNoSecsym` | section symbols stop the recursion |
| pipeline(s) | `OutputSelfContained` | `MigrateKeepSecsym` | the section-symbol link is not broken |
| pipeline | `ImplementsPatchOutputSpec` | `StringPoolNoNul` | strings laid out without their NULs, off by one from `offset_of_string` |
| pipeline_nohook | `ImplementsPatchOutputSpec` | `MangleNoSep` | the `#` left out of `hint#name` (only `f` can be written there, so the pool holds one string) |
| pipeline(s) | `SymtabLinkCompliant` | `ReorderNoLocals` | the "other locals" reorder pass missing |
| pipeline | `TypeOK` | `HookStepClearedSym` | the rela is redirected to the cleared `sec->sym` |
| pipeline_nohook | `TypeOK` | `RebasedOffByOne` | an off-by-one in `dest_offset` |
| special | `TypeOK` | `RebaseSwapped` | the sign of `dest_offset` |
| special | `NoBufferOverrun` | `FixupEndPastSize` | the last `.fixup` group one byte too long |
| special | `ImplementsSpecialSectionSpec` | `RebaseNoDest` | relas rebased to the section start |
| special | `WalkTerminates` | `FixupEndSameAddend` | the next group may start at the same addend (a zero-size group) |
| mangled_strcmp | `MangledStrcmpIsMangledEquality` | `MangledStrcmpNoS2Digit` | no check that `s2` has a digit run too |
| correlate | `TypeOK` | `CorrelateSectionsSwapped` | the twins of each side written to the other |
| correlate | `CorrelationExact` | `SecMatchNoSpecial` | special statics' sections correlated |
| correlate | `NoNullDeref` | `RenamedSectionsNoCheck` | the `if (sym->sec->rela)` checks dropped |
| correlate | `RelaCompareSound` | `rela_equalNoAddend` | addends not compared |
| correlate | `RelaCompareComplete` | `ReplaceRelaNoAddOff` | the effective offset without the decoder's `add_off` |
| correlate | `ParsedArgsComplete` | `ParseArgLate` | the too-many-operands check one operand late, writing `args[4]` |

**Fairness and liveness.** The program is sequential and never blocks:
every pass is a bounded loop, and `main` calls the passes one after
another. `DiffPipeline` and `SpecialSection` assert `WF_vars(Next)`, and
`PatchTable`'s `MainSpec` asserts weak fairness of `MainNext`, which
only rules out stopping between two steps. `PatchOutputSpec`'s weak
fairness on its final step is not checked (see the refinement above). `WalkTerminates` checks under it
that the group walk of `xsplice_regenerate_special_section` ends; it would
not if a group could have size 0 (the `FixupEndSameAddend` mutant). The
ended states stutter through `Terminated`, so deadlock checking stays on.
`Correlate` and `MC_MangledStrcmp` state no liveness and no fairness.

## 5. Not modelled, and why

- **`--help`, `--version` and argp's own errors.** argp handles them
  inside `argp_parse` before `parse_opt` sees anything; they print and
  exit. `Calls` holds only the callbacks that reach `parse_opt`.
- **The ELF loader and writer** (`xsplice_elf_open`, `xsplice_write_output_elf`,
  `lookup_open`): library code outside `src/`, and file I/O. Their result is
  the constants of `XspliceObject` and the inputs of the `MC_` modules.

- **Byte contents and names.** Section data is abstracted to "compares equal
  or not" (`Input.differs`), and section names to kinds. Comparing bytes,
  or section names built from strings, tells no property apart.
  `PatchTable` is the exception: the names that go into the string pool are
  strings, because `ImplementsPatchOutputSpec` is about them.
- **Log output, `xsplice_print_changes`, `xsplice_dump_kelf`.** Logging
  only.
- **The DIFF_FATALs of the header comparisons** (section or symbol header
  details, object size). They abort on malformed pairs, and the enumerated
  inputs are well formed.
- **Undefined behaviour on malformed input** is abstracted, and listed as
  hazards in `PROJECT.json`:
  - the NULL dereference of `rela->sym->sec` in the debug strip (in
    `should_keep_rela_group` the `STT_FUNC` test comes first, and gcc
    gives undefined symbols `STT_NOTYPE`, so it is not reached);
  - the buffer overrun of the special-section copy, which needs a special
    section whose `sh_size` is not a whole number of groups.
    `NoBufferOverrun` checks that well-formed sections stay in bounds.
- **The fields the header checks compare.** `CheckHeaders` keeps only
  the outcome (`headersOK`); the libelf ERRORs for an unreadable header
  take the same exit as a mismatch in the model (exit 2, not 1), as no
  property tells the two apart.
- **The SAME status that correlation gives twins.** The comparison passes
  overwrite it for every patched element before anyone reads it
  (section 3). `Correlate` models the comparison of relocation sections
  only. Byte comparison of the other sections is `DiffPipeline`'s
  `differs`.
- **The correlation of section symbols.** Section symbols are not in
  `Correlate`'s symbol list. Only their names matter, for `rela_equal`.
- **The instruction decoder and `rela->string`.** Both are library code.
  The decoder's result is the relocation's `tail`. No relocation in the
  inputs points into a string section, so `rela->string` is NULL.
- **References that no symbol covers.** These are zero-size symbols,
  one-past-the-end addresses, gaps, and relocation types other than PC32,
  64 and 32S. They stay on the section symbol. A layout shift can then make
  an unchanged access compare CHANGED, or a changed access compare SAME.
  The spec prescribes the same rule. This is a hazard in `PROJECT.json`;
  the inputs use sized objects and handled types.
- **`sprintf(name, ...)` into `char name[256]`** in the renaming pass
  overflows for a name of 250 characters or more. This is a property of
  name lengths, which the token-level names do not have. It is listed as a
  hazard with no property.
- **The end of `main`**: `xsplice_rebuild_rela_section_data` and the
  writers of `.shstrtab`, `.strtab`, `.symtab` and the file serialise the
  model's state, and they are library code. `parse_opt` is argument
  parsing; its one option that matters is the constant `Resolve`.
- **`new_size` and `pad`** of a patch entry are copies and zeros, and no
  property tells them apart.
- **Symbol binding of `xsplice_load_data`.** The patch-side macro that
  defines `xsplice_load_data` is not in this repository. The model makes it
  GLOBAL, as the spec's "global pointer symbol" says. A weak definition
  would not be re-included by `xsplice_include_new_globals`, and the
  `hook_data` finding would not arise.
