----------------------------- MODULE MainFront -----------------------------
(***************************************************************************)
(* The front of main: argp_parse, then, once it has returned, the passes  *)
(* that correlate the two objects it names. When argp_usage exits, no     *)
(* object is opened. (The header checks and the grouped-section marking  *)
(* that main runs in between read nothing the correlation passes write;  *)
(* they are in DiffPipeline.)                                              *)
(***************************************************************************)
EXTENDS Correlate, ParseOpt

FrontInit == Init /\ ParseInit

FrontNext ==
  \/ ParseNext /\ UNCHANGED vars
  \/ apc = "parsed" /\ Next /\ UNCHANGED argVars

FrontSpec == FrontInit /\ [][FrontNext]_<< vars, argVars >>
=============================================================================
