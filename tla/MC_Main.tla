------------------------------ MODULE MC_Main ------------------------------
(***************************************************************************)
(* main from the comparison passes to the written output: the object of   *)
(* MC_DiffPipeline, its symbol list in an order that puts globals and     *)
(* section symbols among the locals and the FILE symbol after a function, *)
(* and a running image in which the local f also exists in another file.  *)
(***************************************************************************)
EXTENDS MC_DiffPipeline, PatchTable

CONSTANT SmallH  \* is h's running copy smaller than PATCH_INSN_SIZE

MCSymOrder ==
  << "", "S.text.f", "f", "file", "g", "printk", "S.text.g", "h", "S.text.h", "x",
     "S.data.x", "S.rodata", ".LC0", "S.rodata.str", "S.debug_info", "S.ex_table" >>
  \o (IF WithHook THEN << "xsplice_load_data", "hookfn", "S.text.hookfn", "S.hooks.load" >>
      ELSE << >>)

MCRunning ==
  { [file |-> "file", name |-> "f", bind |-> "LOCAL", addr |-> 4096, size |-> 64],
    [file |-> "other", name |-> "f", bind |-> "LOCAL", addr |-> 8192, size |-> 16],
    [file |-> "file", name |-> "g", bind |-> "GLOBAL", addr |-> 4160, size |-> 32],
    [file |-> "file", name |-> "h", bind |-> "LOCAL", addr |-> 4192,
     size |-> IF SmallH THEN 3 ELSE 24],
    [file |-> "file", name |-> "x", bind |-> "LOCAL", addr |-> 12288, size |-> 8] }
=============================================================================
