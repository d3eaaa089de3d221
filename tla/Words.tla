------------------------------- MODULE Words --------------------------------
(***************************************************************************)
(* The words of a command line, which may be names of files as well.       *)
(***************************************************************************)

EXTENDS Integers

CONSTANTS
  Names,        \* the words that may be arguments
  NoName,       \* a path that is NULL
  Number        \* the number that sscanf finds in a word, or NoNumber

NoNumber == [none |-> TRUE]

ServiceOption == "-s"
OutputOption  == "-o"
Options       == {ServiceOption, OutputOption}

ASSUME WordsAssumption ==
  /\ Options \subseteq Names
  /\ NoName \notin Names
  /\ Number \in [Names -> {NoNumber} \cup [value : Int]]
=============================================================================
