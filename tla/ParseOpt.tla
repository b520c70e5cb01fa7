------------------------------ MODULE ParseOpt ------------------------------
(***************************************************************************)
(* The command line of create-diff-object: main initialises struct        *)
(* arguments and calls argp_parse, which calls parse_opt once per option  *)
(* and per operand (after getopt has moved the operands behind the        *)
(* options), then with ARGP_KEY_END, and with the special keys INIT,      *)
(* NO_ARGS, SUCCESS and FINI that parse_opt does not handle. argp_usage   *)
(* prints the usage and exits, so nothing after it runs.                  *)
(* args is the part of arguments.args that has been written: the array    *)
(* is not initialised, and reading an entry nobody wrote is undefined.    *)
(***************************************************************************)
EXTENDS Naturals, Sequences, TLC

CONSTANT
  Calls   \* the possible sequences of callbacks argp makes for an argv:
          \* records [key] with key in {"init", "d", "r", "noargs", "end",
          \* "success", "fini"}, or [key |-> "arg", arg] for an operand

NumArgs == 4   \* char *args[4]: original.o patched.o kernel-object output.o

VARIABLES
  calls,   \* the callbacks argp has still to make
  argNum,  \* state->arg_num, the operands parsed so far
  args,    \* the entries of arguments.args written so far
  debug,   \* arguments.debug
  resolve, \* arguments.resolve
  apc      \* "parse", "parsed" (argp_parse returned) or "usage" (exit 64)

argVars == << calls, argNum, args, debug, resolve, apc >>

(* main: arguments.debug = 0, arguments.resolve = 0, argp_parse(...). *)
ParseInit ==
  /\ calls \in Calls
  /\ argNum = 0 /\ args = << >>
  /\ debug = 0 /\ resolve = 0
  /\ apc = "parse"

ArgpCall == Head(calls)
Calling(k) == apc = "parse" /\ calls # << >> /\ ArgpCall.key = k

(* case 'd' / case 'r' *)
ParseDebug ==
  /\ Calling("d")
  /\ debug' = 1 /\ calls' = Tail(calls)
  /\ UNCHANGED << argNum, args, resolve, apc >>

ParseResolve ==
  /\ Calling("r")
  /\ resolve' = 1 /\ calls' = Tail(calls)
  /\ UNCHANGED << argNum, args, debug, apc >>

(* Mutant: the too-many check one operand late. *)
ParseArgLate ==
  /\ Calling("arg")
  /\ IF argNum > NumArgs
     THEN apc' = "usage" /\ UNCHANGED << calls, argNum, args >>
     ELSE /\ args' = (argNum :> ArgpCall.arg) @@ args
          /\ argNum' = argNum + 1 /\ calls' = Tail(calls)
          /\ UNCHANGED apc
  /\ UNCHANGED << debug, resolve >>

(* case ARGP_KEY_ARG: usage on a fifth operand, else store it; argp counts *)
(* it in arg_num when parse_opt returns 0.                                  *)
ParseArg ==
  /\ Calling("arg")
  /\ IF argNum >= NumArgs
     THEN apc' = "usage" /\ UNCHANGED << calls, argNum, args >>
     ELSE /\ args' = (argNum :> ArgpCall.arg) @@ args
          /\ argNum' = argNum + 1 /\ calls' = Tail(calls)
          /\ UNCHANGED apc
  /\ UNCHANGED << debug, resolve >>

(* case ARGP_KEY_END: usage with fewer than four operands. *)
ParseEnd ==
  /\ Calling("end")
  /\ IF argNum < NumArgs
     THEN apc' = "usage" /\ UNCHANGED calls
     ELSE calls' = Tail(calls) /\ UNCHANGED apc
  /\ UNCHANGED << argNum, args, debug, resolve >>

(* default: ARGP_ERR_UNKNOWN, which argp ignores for its special keys. *)
ParseUnknown ==
  /\ apc = "parse" /\ calls # << >>
  /\ ArgpCall.key \in {"init", "noargs", "success", "fini"}
  /\ calls' = Tail(calls)
  /\ UNCHANGED << argNum, args, debug, resolve, apc >>

(* argp_parse returns to main. *)
ParseDone ==
  /\ apc = "parse" /\ calls = << >>
  /\ apc' = "parsed"
  /\ UNCHANGED << calls, argNum, args, debug, resolve >>

(* The program has exited in argp_usage. *)
UsageExit == apc = "usage" /\ UNCHANGED argVars

ParseNext ==
  \/ ParseDebug \/ ParseResolve \/ ParseArg \/ ParseEnd \/ ParseUnknown
  \/ ParseDone \/ UsageExit

-----------------------------------------------------------------------------
(* main reads args[0] and args[1] (xsplice_elf_open), args[2]              *)
(* (lookup_open) and args[3] (the output): when argp_parse returns, all    *)
(* four entries are written and nothing past the array is, and the        *)
(* program exits with the usage exactly when the command line does not    *)
(* have four operands (those it parsed and those still to come).          *)
ParsedArgsComplete ==
  /\ apc = "parsed" => DOMAIN args = 0..(NumArgs - 1)
  /\ apc = "usage" =>
       argNum + Len(SelectSeq(calls, LAMBDA c : c.key = "arg")) # NumArgs
=============================================================================
