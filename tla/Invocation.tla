----------------------------- MODULE Invocation -----------------------------
(***************************************************************************)
(* One run of the program from its command line to its end: the arguments  *)
(* (Arguments) decide which files are read and written (InputFile).        *)
(*                                                                         *)
(* disturbances is a history variable: the steps of other processes.       *)
(***************************************************************************)
EXTENDS Words, Disk, Integers, Sequences

VARIABLES
  args, i, service_id,
  at, from_path, out_path,
  filesize, fp_in, fp_out, pos, ahead, eof, p_cnt, buf, digest,
  dir, data, promised, cut,
  disturbances

A == INSTANCE Arguments
F == INSTANCE InputFile

words == <<args, i, service_id>>
files == <<filesize, fp_in, fp_out, pos, ahead, eof, p_cnt, buf, digest, dir,
           data, promised, cut>>

vars == <<words, at, from_path, out_path, files, disturbances>>

-----------------------------------------------------------------------------

Init ==
  /\ A!Init
  /\ F!InitProgram
  /\ F!InitDisk
  /\ disturbances = 0

ReadArguments == A!Next /\ UNCHANGED <<files, disturbances>>

Analyse == F!Program /\ UNCHANGED <<words, disturbances>>

Disturb == F!Others /\ disturbances' = disturbances + 1 /\ UNCHANGED words

Program == ReadArguments \/ Analyse

Next == Program \/ Disturb

Spec == Init /\ [][Next]_vars /\ WF_vars(Program)

-----------------------------------------------------------------------------

(***************************************************************************)
(* The variables of both halves have their types.                          *)
(***************************************************************************)
TypeOK == A!ArgumentsTypeOK /\ F!InputFileTypeOK

(***************************************************************************)
(* The three forms of README.md mean what it says: the input is read, and  *)
(* the output is written where the option says, on either side of it.      *)
(***************************************************************************)
DocumentedForms == A!DocumentedForms

(***************************************************************************)
(* Of every command line the last input, the last output and the last      *)
(* number are what the program works with, from the loop of main.c to its  *)
(* end.                                                                    *)
(***************************************************************************)
LastOnesWin == A!LastOnesWin

(***************************************************************************)
(* The hashes of the whole program are of as many bytes as the report      *)
(* says.                                                                   *)
(***************************************************************************)
HashedAsLongAsSize == F!HashedAsLongAsSize

(***************************************************************************)
(* They are of the bytes that were there when the size was looked up,      *)
(* unless someone took them away.                                          *)
(***************************************************************************)
HashedAsPromised == F!HashedAsPromised

(***************************************************************************)
(* A command line that names one file twice, as input and as output, loses *)
(* it: no byte of it is hashed.                                            *)
(***************************************************************************)
OwnOutputIsLost == F!OwnOutputIsLost

(***************************************************************************)
(* The program writes to no file but the one that the last output option   *)
(* of the command line names at that moment; without one it writes to no   *)
(* file at all.                                                            *)
(***************************************************************************)
OnlyOutputIsWritten ==
  [][\A f \in Inodes :
       data'[f] # data[f] /\ disturbances' = disturbances =>
         LET given == A!Given(OutputOption)
         IN /\ given # {}
            /\ at = "open output" => dir'[args[A!LastOf(given) + 1]] = f
            /\ at # "open output" => fp_out = f]_vars

(***************************************************************************)
(* The program comes to an end, whatever the arguments are and the others  *)
(* do, also if the file has become shorter than its size was.              *)
(***************************************************************************)
Terminates == <>F!Ended
=============================================================================
