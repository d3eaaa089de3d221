----------------------------- MODULE Arguments ------------------------------
(***************************************************************************)
(* The command line: the loop over the arguments in main.c.  args is       *)
(* argv[1] to argv[argc-1].                                                *)
(*                                                                         *)
(* at, the place in the program, and the two paths are shared with the     *)
(* part that opens the files (InputFile).                                  *)
(***************************************************************************)
EXTENDS Words, Integers, Sequences

VARIABLES args, i, service_id, from_path, out_path, at

vars == <<args, i, service_id, from_path, out_path, at>>

-----------------------------------------------------------------------------

Init ==
  /\ args \in Seq(Names)
  /\ i = 1
  /\ service_id = 0
  /\ from_path = NoName
  /\ out_path = NoName
  /\ at = "args"

(* A word is an option if there is an argument behind it.                  *)
check_param(option) == args[i] = option /\ i < Len(args)

(* The value of an option is not looked at again.                          *)
BehindValue_ReadAgain == i + 1
BehindValue           == i + 2

Argument == at = "args" /\ i <= Len(args)

(* sscanf stores an int in 16 bits; without a number nothing is stored.    *)
Stored_Wide(n) == n
Stored(n)      == n % 2^16

TakeServiceId ==
  /\ Argument
  /\ check_param(ServiceOption)
  /\ service_id' = IF Number[args[i + 1]] = NoNumber THEN service_id
                   ELSE Stored(Number[args[i + 1]].value)
  /\ i' = BehindValue
  /\ UNCHANGED <<args, from_path, out_path, at>>

TakeOutput ==
  /\ Argument
  /\ check_param(OutputOption)
  /\ out_path' = args[i + 1]
  /\ i' = BehindValue
  /\ UNCHANGED <<args, service_id, from_path, at>>

TakeInput ==
  /\ Argument
  /\ ~check_param(ServiceOption)
  /\ ~check_param(OutputOption)
  /\ from_path' = args[i]
  /\ i' = i + 1
  /\ UNCHANGED <<args, service_id, out_path, at>>

(* Without an input the usage is shown and the program ends; otherwise it  *)
(* goes on with the files.                                                 *)
EndOfArguments ==
  /\ at = "args"
  /\ i > Len(args)
  /\ at' = IF from_path = NoName THEN "usage" ELSE "stat"
  /\ UNCHANGED <<args, i, service_id, from_path, out_path>>

Next ==
  \/ TakeServiceId
  \/ TakeOutput
  \/ TakeInput
  \/ EndOfArguments

Spec == Init /\ [][Next]_vars

-----------------------------------------------------------------------------
(* The reference: which positions are what, with all of args at hand.      *)

(* The run of option words that ends before position k has this many.      *)
OptionsBefore(k) ==
  CHOOSE n \in 0 .. k - 1 :
    /\ \A j \in k - n .. k - 1 : args[j] \in Options
    /\ n = k - 1 \/ args[k - n - 1] \notin Options

(* Options take turns with their values, which may look like options.      *)
IsValue(k) == OptionsBefore(k) % 2 = 1

Given(option) ==
  {k \in 1 .. Len(args) - 1 : ~IsValue(k) /\ args[k] = option}

Inputs ==
  {k \in 1 .. Len(args) :
     ~IsValue(k) /\ (args[k] \in Options => k = Len(args))}

LastOf(S) == CHOOSE k \in S : \A j \in S : j <= k

ServiceIds ==
  {k \in Given(ServiceOption) : Number[args[k + 1]] # NoNumber}

(***************************************************************************)
(* Once the arguments are read, the last input, the last output and the    *)
(* last number win, wherever they stood and whatever stood between them;   *)
(* the value of an option is never taken for an input or an option; an     *)
(* option word at the end is an input.  Only without an input is the       *)
(* usage shown.                                                            *)
(***************************************************************************)
LastOnesWin ==
  at # "args" =>
    /\ from_path = IF Inputs = {} THEN NoName ELSE args[LastOf(Inputs)]
    /\ out_path = IF Given(OutputOption) = {} THEN NoName
                  ELSE args[LastOf(Given(OutputOption)) + 1]
    /\ service_id = IF ServiceIds = {} THEN 0
                    ELSE Number[args[LastOf(ServiceIds) + 1]].value % 2^16
    /\ at = "usage" <=> Inputs = {}

(***************************************************************************)
(* The three forms of README.md: the output option may stand before or     *)
(* behind the input, or be left out.                                       *)
(***************************************************************************)
Forms(in, out) == {<<in, OutputOption, out>>, <<OutputOption, out, in>>}

DocumentedForms ==
  at \notin {"args", "usage"} =>
    \A in \in Names \ Options :
      /\ args = <<in>> => from_path = in /\ out_path = NoName
      /\ \A out \in Names :
           args \in Forms(in, out) => from_path = in /\ out_path = out

(***************************************************************************)
(* The loop stays within argv, also with an option as the last word, and   *)
(* the paths are words of the command line.                                *)
(***************************************************************************)
ArgumentsTypeOK ==
  /\ args \in Seq(Names)
  /\ i \in 1 .. Len(args) + 1
  /\ service_id \in 0 .. 2^16 - 1
  /\ {from_path, out_path} \subseteq Names \cup {NoName}
=============================================================================
