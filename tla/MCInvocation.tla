---------------------------- MODULE MCInvocation ----------------------------
(* Every short command line on a directory that nobody else uses, and the  *)
(* documented ones with everything others may do in between.               *)
EXTENDS Invocation

CONSTANTS
  MaxArgs,          \* the words of a command line
  MaxSize,          \* the bytes of a file at first
  MaxDisturbances   \* the steps of others

MCNames == {"in", "ab", "7", "-o", "-s"}

MCNumber ==
  [word \in MCNames |->
     IF word = "7" THEN [value |-> 2^16 + 7]
     ELSE IF word = "ab" THEN [value |-> 5] ELSE NoNumber]

Sequences(S, max) == UNION {[1 .. n -> S] : n \in 0 .. max}

(* "ab" may be a second name of the input, a file of its own, nothing, or  *)
(* no file.                                                                *)
Directories(others) ==
  {[name \in MCNames |-> CASE name = "in" -> "f1" [] name = "ab" -> other
                           [] OTHER -> NoFile] :
     other \in others}

MCInodes == {"f1", "f2", "f3"}
MCBytes  == {"b1", "b2", "b3", "b4", "b5"}

(* No two bytes of a file are the same, and f3 is not in use.              *)
Content(f, size) ==
  CASE f = "f1" -> SubSeq(<<"b1", "b2", "b3", "b4", "b5">>, 1, size)
    [] f = "f2" -> <<"b4", "b5", "b1">>
    [] f = "f3" -> <<>>

Quiet ==
  /\ args \in Sequences(MCNames, MaxArgs)
  /\ dir \in Directories({"f2"})
  /\ data = [f \in Inodes |-> Content(f, 3)]
  /\ disturbances = MaxDisturbances

Busy ==
  /\ args \in {<<"in">>, <<"in", "-o", "ab">>, <<"-o", "ab", "in">>,
               <<"in", "-o", "in">>}
  /\ dir \in Directories({"f1", "f2", NoFile, NotRegular})
  /\ \E size \in 0 .. MaxSize :
       data = [f \in Inodes |-> Content(f, size)]
  /\ disturbances = 0

MCInit ==
  /\ Quiet \/ Busy
  /\ i = 1 /\ service_id = 0 /\ from_path = NoName /\ out_path = NoName
  /\ at = "args"
  /\ F!InitProgram

MCDisturb == disturbances < MaxDisturbances /\ Disturb

MCNext == Program \/ MCDisturb

MCSpec == MCInit /\ [][MCNext]_vars /\ WF_vars(Program)
=============================================================================
