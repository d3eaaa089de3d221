-------------------------- MODULE InvocationProofs --------------------------
(***************************************************************************)
(* The whole program, from its command line on, for command lines and      *)
(* files of every length: the two halves keep what is proved of them and   *)
(* their types, and the only file that is written is the one that the      *)
(* command line names.  The loop over the command line is told apart by    *)
(* what precedes each word, and its last word of a kind is the one taken.  *)
(***************************************************************************)
EXTENDS Invocation, TLAPS

FP == INSTANCE InputFileProofs

(* What is assumed of the constants, of the two halves.                    *)
LEMMA LoopAssumption ==
  /\ A!Options \subseteq Names /\ NoName \notin Names
  /\ Number \in [Names -> {A!NoNumber} \cup [value : Int]]
BY WordsAssumption
   DEF Options, ServiceOption, OutputOption, A!Options, A!ServiceOption,
       A!OutputOption, A!NoNumber, NoNumber

LEMMA SameAssumptions ==
  /\ NoName \notin Names /\ FP!Options \subseteq Names
  /\ Number \in [Names -> {FP!NoNumber} \cup [value : Int]]
  /\ PacketSize \in Nat \ {0} /\ BufferSize \in Nat \ {0}
  /\ Inodes \cap {FP!NoFile, FP!NotRegular, FP!Stdout} = {}
  /\ Bytes \cap NewBytes = {}
  /\ (Bytes \cup NewBytes) \cap {FP!Stale, FP!ReportByte} = {}
BY WordsAssumption, DiskAssumption
   DEF Options, ServiceOption, OutputOption, NoNumber, FP!NoNumber, FP!Options,
       FP!ServiceOption, FP!OutputOption, NoFile, NotRegular, Stdout, Stale,
       ReportByte, FP!NoFile, FP!NotRegular, FP!Stdout, FP!Stale, FP!ReportByte

-----------------------------------------------------------------------------
(* The command line, for every length of it: the loop of main.c, which     *)
(* looks only at one word and the next, takes what the whole command line  *)
(* says, and so understands the forms that README.md gives.                *)

(* The run of option words that ends before position k has n of them.      *)
Run(k, n) ==
  /\ n \in 0 .. k - 1
  /\ \A j \in k - n .. k - 1 : args[j] \in A!Options
  /\ n = k - 1 \/ args[k - n - 1] \notin A!Options

(* The two options are different words.                                    *)
LEMMA TwoWords == A!ServiceOption # A!OutputOption /\ A!Options = {A!ServiceOption, A!OutputOption}
BY DEF A!ServiceOption, A!OutputOption, A!Options

(* Only one number of words can be that of the run.                        *)
LEMMA RunIsUnique ==
  ASSUME NEW k \in Nat \ {0}, NEW n, NEW m, Run(k, n), Run(k, m)
  PROVE  n = m
<1>1. n \in 0 .. k - 1 /\ m \in 0 .. k - 1
  BY DEF Run
<1>2. ASSUME NEW a \in 0 .. k - 1, NEW b \in 0 .. k - 1, Run(k, a), Run(k, b), a < b
      PROVE  FALSE
  <2>1. k - a - 1 \in k - b .. k - 1 /\ a # k - 1
    BY <1>2
  <2>2. args[k - a - 1] \in A!Options
    BY <1>2, <2>1 DEF Run
  <2>. QED
    BY <1>2, <2>1, <2>2 DEF Run
<1>. QED
  BY <1>1, <1>2

(* It is the one that the reference chooses.                               *)
LEMMA RunIsChosen ==
  ASSUME NEW k \in Nat \ {0}, NEW n, Run(k, n)
  PROVE  A!OptionsBefore(k) = n
<1>1. \E m \in 0 .. k - 1 : Run(k, m)
  BY DEF Run
<1>2. Run(k, CHOOSE m \in 0 .. k - 1 : Run(k, m))
  BY <1>1
<1>3. A!OptionsBefore(k) = CHOOSE m \in 0 .. k - 1 : Run(k, m)
  <2>1. \A m \in 0 .. k - 1 :
          Run(k, m) <=> /\ \A j \in k - m .. k - 1 : args[j] \in A!Options
                        /\ m = k - 1 \/ args[k - m - 1] \notin A!Options
    BY DEF Run
  <2>. QED
    BY <2>1 DEF A!OptionsBefore
<1>. QED
  BY <1>2, <1>3, RunIsUnique

(* One word more.                                                          *)
LEMMA NextRun ==
  ASSUME NEW k \in Nat \ {0}, NEW n, Run(k, n)
  PROVE  Run(k + 1, IF args[k] \in A!Options THEN n + 1 ELSE 0)
<1>1. n \in 0 .. k - 1
  BY DEF Run
<1>2. CASE args[k] \in A!Options
  <2>1. n + 1 \in 0 .. (k + 1) - 1 /\ (k + 1) - (n + 1) = k - n
    BY <1>1
  <2>2. \A j \in k - n .. (k + 1) - 1 : j = k \/ j \in k - n .. k - 1
    BY <1>1
  <2>3. \A j \in k - n .. (k + 1) - 1 : args[j] \in A!Options
    BY <1>2, <2>2 DEF Run
  <2>4. n + 1 = (k + 1) - 1 \/ args[(k - n) - 1] \notin A!Options
    BY <1>1 DEF Run
  <2>. QED
    BY <1>2, <2>1, <2>3, <2>4 DEF Run
<1>3. CASE args[k] \notin A!Options
  <2>1. 0 \in 0 .. (k + 1) - 1 /\ (k + 1) - 0 - 1 = k
    OBVIOUS
  <2>2. \A j : j \notin (k + 1) - 0 .. (k + 1) - 1
    OBVIOUS
  <2>. QED
    BY <1>3, <2>1, <2>2 DEF Run
<1>. QED
  BY <1>2, <1>3

(* Whether a word is the value of an option depends on the word before it: *)
(* on whether that is an option word, and itself a value.                  *)
LEMMA ValueOrNot ==
  ASSUME NEW k \in Nat \ {0}, NEW n, Run(k, n)
  PROVE  A!IsValue(k + 1) <=> args[k] \in A!Options /\ ~A!IsValue(k)
<1>1. n \in Nat
  BY DEF Run
<1>2. A!OptionsBefore(k) = n
  BY RunIsChosen
<1>3. A!OptionsBefore(k + 1) = IF args[k] \in A!Options THEN n + 1 ELSE 0
  <2>1. k + 1 \in Nat \ {0}
    OBVIOUS
  <2>. QED
    BY <2>1, NextRun, RunIsChosen
<1>4. (n + 1) % 2 = 1 <=> n % 2 # 1
  BY <1>1
<1>. QED
  BY <1>2, <1>3, <1>4 DEF A!IsValue

(* The last one of a set that gets a greater one.                          *)
LEMMA NewLast ==
  ASSUME NEW S, NEW k \in Nat, S \subseteq Nat, \A j \in S : j < k
  PROVE  A!LastOf(S \cup {k}) = k
<1>. DEFINE T == S \cup {k}
<1>1. k \in T /\ \A j \in T : j <= k
  OBVIOUS
<1>2. \A m \in T : (\A j \in T : j <= m) => m = k
  OBVIOUS
<1>. QED
  BY <1>1, <1>2 DEF A!LastOf

-----------------------------------------------------------------------------
(* The invariant.                                                          *)

Before(S, m) == {k \in S : k < m}

ChosenInput ==
  IF Before(A!Inputs, i) = {} THEN NoName ELSE args[A!LastOf(Before(A!Inputs, i))]

ChosenOutput ==
  IF Before(A!Given(A!OutputOption), i) = {} THEN NoName
  ELSE args[A!LastOf(Before(A!Given(A!OutputOption), i)) + 1]

ChosenId ==
  IF Before(A!ServiceIds, i) = {} THEN 0
  ELSE A!Stored(Number[args[A!LastOf(Before(A!ServiceIds, i)) + 1]].value)

(* What was taken is the last of what stands before the place that the     *)
(* loop has come to, and that place is no value.                           *)
Taken ==
  /\ from_path = ChosenInput
  /\ from_path = NoName <=> Before(A!Inputs, i) = {}
  /\ out_path = ChosenOutput
  /\ service_id = ChosenId

InPlace ==
  /\ args \in Seq(Names)
  /\ i \in 1 .. Len(args) + 1
  /\ \E n : Run(i, n)
  /\ i <= Len(args) => ~A!IsValue(i)

(* The paths are words, and the number is one of 16 bits.                  *)
StoredTypes ==
  /\ from_path \in Names \cup {NoName}
  /\ out_path \in Names \cup {NoName}
  /\ service_id \in 0 .. 2^16 - 1

ArgumentsInv == InPlace /\ Taken /\ StoredTypes

(* The next place, and the places passed over.                             *)
LEMMA PassWords ==
  ASSUME InPlace, NEW next \in {i + 1, i + 2}, next <= Len(args) + 1,
         next = i + 1 => args[i] \notin A!Options \/ i = Len(args),
         next = i + 2 => args[i] \in A!Options
  PROVE  /\ \E n : Run(next, n)
         /\ next <= Len(args) => ~A!IsValue(next)
         /\ next = i + 2 => A!IsValue(i + 1)
<1>1. PICK n : Run(i, n)
  BY DEF InPlace
<1>2. i \in Nat \ {0} /\ Len(args) \in Nat
  BY DEF InPlace
<1>. DEFINE m == IF args[i] \in A!Options THEN n + 1 ELSE 0
<1>3. Run(i + 1, m)
  BY <1>1, <1>2, NextRun
<1>. HIDE DEF m
<1>4. A!IsValue(i + 1) <=> args[i] \in A!Options /\ ~A!IsValue(i)
  BY <1>1, <1>2, ValueOrNot
<1>5. CASE next = i + 1
  BY <1>2, <1>3, <1>4, <1>5
<1>6. CASE next = i + 2
  <2>1. i <= Len(args) /\ i + 1 \in Nat \ {0} /\ (i + 1) + 1 = i + 2
    BY <1>2, <1>6
  <2>2. A!IsValue(i + 1)
    BY <1>4, <1>6, <2>1 DEF InPlace
  <2>3. A!IsValue((i + 1) + 1) <=> args[i + 1] \in A!Options /\ ~A!IsValue(i + 1)
    BY <1>3, <2>1, ValueOrNot
  <2>4. \E l : Run((i + 1) + 1, l)
    BY <1>3, <2>1, NextRun
  <2>. QED
    BY <1>6, <2>1, <2>2, <2>3, <2>4
<1>. QED
  BY <1>5, <1>6

(* The words of a step: the place itself and, with i + 2, its value.       *)
LEMMA WordsOfStep ==
  ASSUME NEW S, S \subseteq Nat, i \in Nat, NEW next \in {i + 1, i + 2},
         next = i + 2 => i + 1 \notin S
  PROVE  /\ i \notin S => Before(S, next) = Before(S, i)
         /\ i \in S => Before(S, next) # {} /\ A!LastOf(Before(S, next)) = i
<1>1. \A k \in S : k < next <=> k < i \/ k = i
  OBVIOUS
<1>2. CASE i \notin S
  BY <1>1, <1>2 DEF Before
<1>3. CASE i \in S
  <2>1. Before(S, next) = Before(S, i) \cup {i}
    BY <1>1, <1>3 DEF Before
  <2>2. Before(S, i) \subseteq Nat /\ \A j \in Before(S, i) : j < i
    BY DEF Before
  <2>3. A!LastOf(Before(S, i) \cup {i}) = i
    BY <2>2, NewLast
  <2>. QED
    BY <1>3, <2>1, <2>3
<1>. QED
  BY <1>2, <1>3

(* The words are all that the reference depends on.                        *)
LEMMA SameWords ==
  ASSUME args' = args
  PROVE  /\ A!Inputs' = A!Inputs
         /\ A!Given(A!OutputOption)' = A!Given(A!OutputOption)
         /\ A!ServiceIds' = A!ServiceIds
BY DEF A!Inputs, A!Given, A!ServiceIds, A!IsValue, A!OptionsBefore, A!ServiceOption, A!OutputOption

(* What the word at the place of the loop is.                              *)
LEMMA WordAtPlace ==
  ASSUME InPlace, i <= Len(args)
  PROVE  /\ Len(args) \in Nat /\ i \in Nat \ {0}
         /\ A!Inputs \subseteq Nat /\ A!Given(A!OutputOption) \subseteq Nat
         /\ A!ServiceIds \subseteq Nat
         /\ i \in A!Inputs <=> (args[i] \in A!Options => i = Len(args))
         /\ i \in A!Given(A!OutputOption) <=> args[i] = A!OutputOption /\ i < Len(args)
         /\ i \in A!ServiceIds <=> /\ args[i] = A!ServiceOption /\ i < Len(args)
                               /\ Number[args[i + 1]] # A!NoNumber
         /\ A!IsValue(i + 1) => /\ i + 1 \notin A!Inputs
                              /\ i + 1 \notin A!Given(A!OutputOption)
                              /\ i + 1 \notin A!ServiceIds
<1>1. Len(args) \in Nat /\ i \in 1 .. Len(args) /\ ~A!IsValue(i)
  BY DEF InPlace
<1>2. i \in 1 .. Len(args) - 1 <=> i < Len(args)
  BY <1>1
<1>. QED
  BY <1>1, <1>2 DEF A!Inputs, A!Given, A!ServiceIds

(* Elsewhere nothing touches the arguments.                                *)
LEMMA ArgumentsStay ==
  ASSUME ArgumentsInv, UNCHANGED <<args, i, service_id, from_path, out_path>>
  PROVE  ArgumentsInv'
BY SameWords DEF ArgumentsInv, StoredTypes, InPlace, Taken, ChosenInput, ChosenOutput,
   ChosenId, Before, Run, A!IsValue, A!OptionsBefore

(* What is left of a number is within its bits.                            *)
LEMMA Remainder ==
  ASSUME NEW n \in Int, NEW m \in Nat \ {0}
  PROVE  n % m \in 0 .. m - 1
OBVIOUS

(* The words taken are of the command line, whatever number is stored.     *)
LEMMA StoredKeepTypes == InPlace /\ StoredTypes /\ A!Next => StoredTypes'
<1>. SUFFICES ASSUME InPlace, StoredTypes, A!Next PROVE StoredTypes'
  OBVIOUS
<1>1. args \in Seq(Names) /\ i \in 1 .. Len(args) + 1 /\ Len(args) \in Nat
  BY DEF InPlace
<1>2. CASE A!TakeServiceId
  <2>1. i + 1 \in 1 .. Len(args)
    BY <1>1, <1>2 DEF A!TakeServiceId, A!check_param
  <2>2. args[i + 1] \in Names
    BY <1>1, <2>1
  <2>3. Number[args[i + 1]] \in {A!NoNumber} \cup [value : Int]
    BY <2>2, LoopAssumption
  <2>4. \A n \in Int : A!Stored(n) \in 0 .. 2^16 - 1
    <3>1. 2^16 \in Nat \ {0}
      <4>1. 2^16 = 65536
        OBVIOUS
      <4>. QED
        BY <4>1
    <3>. QED
      BY <3>1, Remainder DEF A!Stored
  <2>5. service_id' \in 0 .. 2^16 - 1
    <3>1. CASE Number[args[i + 1]] = A!NoNumber
      BY <1>2, <3>1 DEF A!TakeServiceId, StoredTypes
    <3>2. CASE Number[args[i + 1]] # A!NoNumber
      <4>1. Number[args[i + 1]].value \in Int
        BY <2>3, <3>2
      <4>2. service_id' = A!Stored(Number[args[i + 1]].value)
        BY <1>2, <3>2 DEF A!TakeServiceId
      <4>. QED
        BY <2>4, <4>1, <4>2
    <3>. QED
      BY <3>1, <3>2
  <2>. QED
    BY <1>2, <2>5 DEF A!TakeServiceId, StoredTypes
<1>3. CASE A!TakeOutput
  <2>1. i + 1 \in 1 .. Len(args) /\ out_path' = args[i + 1]
    BY <1>1, <1>3 DEF A!TakeOutput, A!check_param
  <2>2. out_path' \in Names
    BY <1>1, <2>1
  <2>. QED
    BY <1>3, <2>2 DEF A!TakeOutput, StoredTypes
<1>4. CASE A!TakeInput
  <2>1. i \in 1 .. Len(args) /\ from_path' = args[i]
    BY <1>1, <1>4 DEF A!TakeInput, A!Argument
  <2>2. from_path' \in Names
    BY <1>1, <2>1
  <2>. QED
    BY <1>4, <2>2 DEF A!TakeInput, StoredTypes
<1>5. CASE A!EndOfArguments
  BY <1>5 DEF A!EndOfArguments, StoredTypes
<1>. QED
  BY <1>2, <1>3, <1>4, <1>5 DEF A!Next

(* Each pass of the loop.                                                  *)
LEMMA ArgumentsStep == ArgumentsInv /\ A!Next => ArgumentsInv'
<1>. SUFFICES ASSUME ArgumentsInv, A!Next PROVE ArgumentsInv'
  OBVIOUS
<1>1. InPlace /\ Taken /\ StoredTypes'
  BY StoredKeepTypes DEF ArgumentsInv
<1>2. args' = args
  BY DEF A!Next, A!TakeServiceId, A!TakeOutput, A!TakeInput, A!EndOfArguments
<1>3. Len(args) \in Nat /\ i \in Nat \ {0} /\ args \in Seq(Names)
  BY <1>1 DEF InPlace
<1>4. ASSUME A!Argument, i' \in {i + 1, i + 2}, i' <= Len(args) + 1,
             i' = i + 1 => args[i] \notin A!Options \/ i = Len(args),
             i' = i + 2 => args[i] \in A!Options
      PROVE  /\ InPlace'
             /\ \A S : S \in {A!Inputs, A!Given(A!OutputOption), A!ServiceIds} =>
                  /\ i \notin S => Before(S, i') = Before(S, i)
                  /\ i \in S => Before(S, i') # {} /\ A!LastOf(Before(S, i')) = i
  <2>0. i <= Len(args)
    BY <1>4 DEF A!Argument
  <2>1. /\ \E n : Run(i', n)
        /\ i' <= Len(args) => ~A!IsValue(i')
        /\ i' = i + 2 => A!IsValue(i + 1)
    BY <1>1, <1>4, PassWords
  <2>2. i' \in 1 .. Len(args) + 1
    BY <1>3, <1>4
  <2>3. InPlace'
    BY <1>2, <1>3, <2>1, <2>2 DEF InPlace, Run, A!IsValue, A!OptionsBefore
  <2>4. ASSUME NEW S \in {A!Inputs, A!Given(A!OutputOption), A!ServiceIds}
        PROVE  /\ i \notin S => Before(S, i') = Before(S, i)
               /\ i \in S => Before(S, i') # {} /\ A!LastOf(Before(S, i')) = i
    <3>1. S \subseteq Nat /\ (i' = i + 2 => i + 1 \notin S)
      BY <1>1, <2>0, <2>1, WordAtPlace
    <3>. QED
      BY <1>3, <1>4, <3>1, WordsOfStep
  <2>. QED
    BY <2>3, <2>4
<1>5. CASE A!TakeServiceId
  <2>1. /\ A!Argument /\ args[i] = A!ServiceOption /\ i < Len(args) /\ i' = i + 2
        /\ from_path' = from_path /\ out_path' = out_path
        /\ service_id' = IF Number[args[i + 1]] = A!NoNumber THEN service_id
                         ELSE A!Stored(Number[args[i + 1]].value)
    BY <1>5 DEF A!TakeServiceId, A!check_param, A!BehindValue
  <2>2. i + 2 <= Len(args) + 1 /\ i + 2 # i + 1 /\ i <= Len(args) /\ i # Len(args)
    BY <1>3, <2>1
  <2>3. args[i] \in A!Options /\ args[i] # A!OutputOption
    BY <2>1, TwoWords
  <2>4. /\ InPlace'
        /\ \A S : S \in {A!Inputs, A!Given(A!OutputOption), A!ServiceIds} =>
             /\ i \notin S => Before(S, i') = Before(S, i)
             /\ i \in S => Before(S, i') # {} /\ A!LastOf(Before(S, i')) = i
    BY <1>4, <2>1, <2>2, <2>3
  <2>5. /\ i \notin A!Inputs /\ i \notin A!Given(A!OutputOption)
        /\ i \in A!ServiceIds <=> Number[args[i + 1]] # A!NoNumber
    BY <1>1, <2>1, <2>2, <2>3, WordAtPlace
  <2>6. Taken'
    <3>1. Before(A!Inputs, i') = Before(A!Inputs, i)
          /\ Before(A!Given(A!OutputOption), i') = Before(A!Given(A!OutputOption), i)
      BY <2>4, <2>5
    <3>2. from_path' = ChosenInput' /\ out_path' = ChosenOutput'
      BY <1>1, <1>2, <2>1, <3>1, SameWords DEF Taken, ChosenInput, ChosenOutput, Before
    <3>3. service_id' = ChosenId'
      <4>1. CASE i \in A!ServiceIds
        <5>1. Before(A!ServiceIds, i') # {} /\ A!LastOf(Before(A!ServiceIds, i')) = i
          BY <2>4, <4>1
        <5>. QED
          BY <1>2, <2>1, <2>5, <4>1, <5>1, SameWords DEF ChosenId, Before
      <4>2. CASE i \notin A!ServiceIds
        <5>1. Before(A!ServiceIds, i') = Before(A!ServiceIds, i)
          BY <2>4, <4>2
        <5>. QED
          BY <1>1, <1>2, <2>1, <2>5, <4>2, <5>1, SameWords DEF Taken, ChosenId, Before
      <4>. QED
        BY <4>1, <4>2
    <3>4. (from_path = NoName <=> Before(A!Inputs, i) = {})'
      BY <1>1, <1>2, <2>1, <3>1, SameWords DEF Taken, Before
    <3>. QED
      BY <3>2, <3>3, <3>4 DEF Taken
  <2>. QED
    BY <1>1, <2>4, <2>6 DEF ArgumentsInv
<1>6. CASE A!TakeOutput
  <2>1. /\ A!Argument /\ args[i] = A!OutputOption /\ i < Len(args) /\ i' = i + 2
        /\ from_path' = from_path /\ out_path' = args[i + 1] /\ service_id' = service_id
    BY <1>6 DEF A!TakeOutput, A!check_param, A!BehindValue
  <2>2. i + 2 <= Len(args) + 1 /\ i + 2 # i + 1 /\ i <= Len(args) /\ i # Len(args)
    BY <1>3, <2>1
  <2>3. args[i] \in A!Options /\ args[i] # A!ServiceOption
    BY <2>1, TwoWords
  <2>4. /\ InPlace'
        /\ \A S : S \in {A!Inputs, A!Given(A!OutputOption), A!ServiceIds} =>
             /\ i \notin S => Before(S, i') = Before(S, i)
             /\ i \in S => Before(S, i') # {} /\ A!LastOf(Before(S, i')) = i
    BY <1>4, <2>1, <2>2, <2>3
  <2>5. i \notin A!Inputs /\ i \in A!Given(A!OutputOption) /\ i \notin A!ServiceIds
    BY <1>1, <2>1, <2>2, <2>3, WordAtPlace
  <2>6. Taken'
    <3>1. /\ Before(A!Inputs, i') = Before(A!Inputs, i)
          /\ Before(A!ServiceIds, i') = Before(A!ServiceIds, i)
          /\ Before(A!Given(A!OutputOption), i') # {}
          /\ A!LastOf(Before(A!Given(A!OutputOption), i')) = i
      BY <2>4, <2>5
    <3>2. from_path' = ChosenInput' /\ service_id' = ChosenId'
      BY <1>1, <1>2, <2>1, <3>1, SameWords DEF Taken, ChosenInput, ChosenOutput, ChosenId, Before
    <3>3. out_path' = ChosenOutput'
      BY <1>2, <2>1, <3>1, SameWords DEF ChosenInput, ChosenOutput, Before
    <3>4. (from_path = NoName <=> Before(A!Inputs, i) = {})'
      BY <1>1, <1>2, <2>1, <3>1, SameWords DEF Taken, Before
    <3>. QED
      BY <3>2, <3>3, <3>4 DEF Taken
  <2>. QED
    BY <1>1, <2>4, <2>6 DEF ArgumentsInv
<1>7. CASE A!TakeInput
  <2>1. /\ A!Argument /\ i' = i + 1
        /\ i < Len(args) => args[i] # A!ServiceOption /\ args[i] # A!OutputOption
        /\ from_path' = args[i] /\ out_path' = out_path /\ service_id' = service_id
    BY <1>7 DEF A!TakeInput, A!check_param
  <2>2. /\ i + 1 <= Len(args) + 1 /\ i + 2 # i + 1 /\ i <= Len(args)
        /\ i < Len(args) \/ i = Len(args)
    BY <1>3, <2>1 DEF A!Argument
  <2>3. args[i] \notin A!Options \/ i = Len(args)
    BY <2>1, <2>2, TwoWords
  <2>4. /\ InPlace'
        /\ \A S : S \in {A!Inputs, A!Given(A!OutputOption), A!ServiceIds} =>
             /\ i \notin S => Before(S, i') = Before(S, i)
             /\ i \in S => Before(S, i') # {} /\ A!LastOf(Before(S, i')) = i
    BY <1>4, <2>1, <2>2, <2>3
  <2>5. i \in A!Inputs /\ i \notin A!Given(A!OutputOption) /\ i \notin A!ServiceIds
    BY <1>1, <2>1, <2>2, <2>3, WordAtPlace
  <2>6. Taken'
    <3>1. /\ Before(A!Given(A!OutputOption), i') = Before(A!Given(A!OutputOption), i)
          /\ Before(A!ServiceIds, i') = Before(A!ServiceIds, i)
          /\ Before(A!Inputs, i') # {} /\ A!LastOf(Before(A!Inputs, i')) = i
      BY <2>4, <2>5
    <3>2. out_path' = ChosenOutput' /\ service_id' = ChosenId'
      BY <1>1, <1>2, <2>1, <3>1, SameWords DEF Taken, ChosenInput, ChosenOutput, ChosenId, Before
    <3>3. from_path' = ChosenInput'
      BY <1>2, <2>1, <3>1, SameWords DEF ChosenInput, Before
    <3>4. (from_path = NoName <=> Before(A!Inputs, i) = {})'
      <4>1. args[i] \in Names
        BY <1>3, <2>2
      <4>. QED
        BY <1>2, <2>1, <3>1, <4>1, SameWords, LoopAssumption DEF Before
    <3>. QED
      BY <3>2, <3>3, <3>4 DEF Taken
  <2>. QED
    BY <1>1, <2>4, <2>6 DEF ArgumentsInv
<1>8. CASE A!EndOfArguments
  BY <1>8, ArgumentsStay DEF A!EndOfArguments
<1>. QED
  BY <1>5, <1>6, <1>7, <1>8 DEF A!Next

(* Nothing stands before the first word.                                   *)
LEMMA ArgumentsStart == A!Init => ArgumentsInv
<1>. SUFFICES ASSUME A!Init PROVE ArgumentsInv
  OBVIOUS
<1>1. args \in Seq(Names) /\ i = 1 /\ Len(args) \in Nat
  BY DEF A!Init
<1>2. Run(1, 0)
  <2>1. 0 \in 0 .. 1 - 1 /\ 0 = 1 - 1 /\ \A j : j \notin 1 - 0 .. 1 - 1
    OBVIOUS
  <2>. QED
    BY <2>1 DEF Run
<1>3. ~A!IsValue(1)
  <2>1. A!OptionsBefore(1) = 0
    BY <1>2, RunIsChosen
  <2>. QED
    BY <2>1 DEF A!IsValue
<1>4. InPlace
  BY <1>1, <1>2, <1>3 DEF InPlace
<1>5. /\ Before(A!Inputs, i) = {} /\ Before(A!Given(A!OutputOption), i) = {}
      /\ Before(A!ServiceIds, i) = {}
  BY <1>1 DEF Before, A!Inputs, A!Given, A!ServiceIds
<1>6. Taken
  BY <1>5 DEF A!Init, Taken, ChosenInput, ChosenOutput, ChosenId
<1>7. StoredTypes
  <2>1. 2^16 = 65536
    OBVIOUS
  <2>2. 2^16 - 1 \in Nat /\ \A m \in Nat : 0 \in 0 .. m
    BY <2>1
  <2>. QED
    BY <2>2 DEF A!Init, StoredTypes
<1>. QED
  BY <1>4, <1>6, <1>7 DEF ArgumentsInv

(* Behind the loop.                                                        *)
Finished ==
  at # "args" => i > Len(args) /\ (at = "usage" <=> from_path = NoName)

(* What was taken behind the last word is what the whole line says.        *)
LEMMA AllTaken == ArgumentsInv /\ Finished => A!LastOnesWin
<1>. SUFFICES ASSUME ArgumentsInv, Finished, at # "args" PROVE A!LastOnesWin
  BY DEF A!LastOnesWin
<1>1. i > Len(args) /\ (at = "usage" <=> from_path = NoName)
  BY DEF Finished
<1>2. i \in Nat /\ Len(args) \in Nat /\ args \in Seq(Names)
  BY DEF ArgumentsInv, InPlace
<1>3. /\ Before(A!Inputs, i) = A!Inputs
      /\ Before(A!Given(A!OutputOption), i) = A!Given(A!OutputOption)
      /\ Before(A!ServiceIds, i) = A!ServiceIds
  BY <1>1, <1>2 DEF Before, A!Inputs, A!Given, A!ServiceIds
<1>4. /\ from_path = IF A!Inputs = {} THEN NoName ELSE args[A!LastOf(A!Inputs)]
      /\ from_path = NoName <=> A!Inputs = {}
      /\ out_path = IF A!Given(A!OutputOption) = {} THEN NoName
                    ELSE args[A!LastOf(A!Given(A!OutputOption)) + 1]
      /\ service_id = IF A!ServiceIds = {} THEN 0
                      ELSE Number[args[A!LastOf(A!ServiceIds) + 1]].value % 2^16
  BY <1>3 DEF ArgumentsInv, Taken, ChosenInput, ChosenOutput, ChosenId, A!Stored
<1>. QED
  BY <1>1, <1>4 DEF A!LastOnesWin

(* The invariant of the loop.                                              *)
THEOREM LoopInvariance == A!Spec => [](ArgumentsInv /\ Finished)
<1>1. A!Init => ArgumentsInv /\ Finished
  BY ArgumentsStart DEF A!Init, Finished
<1>2. ArgumentsInv /\ Finished /\ [A!Next]_(A!vars) => ArgumentsInv' /\ Finished'
  <2>1. ArgumentsInv /\ Finished /\ UNCHANGED A!vars => ArgumentsInv' /\ Finished'
    BY ArgumentsStay DEF A!vars, Finished
  <2>2. ArgumentsInv /\ Finished /\ A!Next => Finished'
    BY DEF A!Next, A!TakeServiceId, A!TakeOutput, A!TakeInput, A!EndOfArguments, A!Argument,
           Finished
  <2>. QED
    BY <2>1, <2>2, ArgumentsStep
<1>. QED
  BY <1>1, <1>2, PTL DEF A!Spec

(***************************************************************************)
(* For every command line, of any length and in any order: the last input, *)
(* the last output and the last number are what the program works with,    *)
(* no value of an option is taken for anything else, and the usage is      *)
(* shown only without an input.                                            *)
(***************************************************************************)
THEOREM LoopTakesLastWords == A!Spec => []A!LastOnesWin
BY LoopInvariance, AllTaken, PTL

-----------------------------------------------------------------------------

(***************************************************************************)
(* The loop stays within argv, also with an option as the last word; what  *)
(* it stores are words of the command line and a number of 16 bits.        *)
(***************************************************************************)
THEOREM LoopTypeCorrect == A!Spec => []A!ArgumentsTypeOK
<1>1. ArgumentsInv => A!ArgumentsTypeOK
  BY DEF ArgumentsInv, InPlace, StoredTypes, A!ArgumentsTypeOK
<1>. QED
  BY <1>1, LoopInvariance, PTL

(* The first word is no value, and the next one is behind an option.       *)
LEMMA FirstValues ==
  /\ ~A!IsValue(1)
  /\ A!IsValue(2) <=> args[1] \in A!Options
  /\ A!IsValue(3) <=> args[2] \in A!Options /\ args[1] \notin A!Options
<1>1. Run(1, 0)
  <2>1. 0 \in 0 .. 1 - 1 /\ 0 = 1 - 1 /\ \A j : j \notin 1 - 0 .. 1 - 1
    OBVIOUS
  <2>. QED
    BY <2>1 DEF Run
<1>2. ~A!IsValue(1)
  <2>1. A!OptionsBefore(1) = 0
    BY <1>1, RunIsChosen
  <2>. QED
    BY <2>1 DEF A!IsValue
<1>3. \E n : Run(1 + 1, n)
  BY <1>1, NextRun
<1>4. 1 + 1 = 2 /\ 2 + 1 = 3 /\ 1 \in Nat \ {0} /\ 2 \in Nat \ {0}
  OBVIOUS
<1>5. A!IsValue(1 + 1) <=> args[1] \in A!Options /\ ~A!IsValue(1)
  BY <1>1, <1>4, ValueOrNot
<1>6. A!IsValue(2 + 1) <=> args[2] \in A!Options /\ ~A!IsValue(2)
  BY <1>3, <1>4, ValueOrNot
<1>. QED
  BY <1>2, <1>4, <1>5, <1>6

(* The last one of a set with one place.                                   *)
LEMMA OnlyOne == ASSUME NEW k \in Nat PROVE A!LastOf({k}) = k
<1>1. A!LastOf({} \cup {k}) = k
  BY NewLast
<1>2. {} \cup {k} = {k}
  OBVIOUS
<1>. QED
  BY <1>1, <1>2

(* What the documented forms are, place by place.                          *)
LEMMA FormsAreRead ==
  ASSUME NEW in \in Names \ A!Options
  PROVE  /\ args = <<in>> => A!Inputs = {1} /\ A!Given(A!OutputOption) = {}
         /\ \A out \in Names :
              /\ args = <<in, A!OutputOption, out>>
                   => A!Inputs = {1} /\ A!Given(A!OutputOption) = {2}
              /\ args = <<A!OutputOption, out, in>>
                   => A!Inputs = {3} /\ A!Given(A!OutputOption) = {1}
<1>1. in \notin A!Options /\ A!OutputOption \in A!Options
  BY TwoWords
<1>2. \A k \in 1 .. 3 : k = 1 \/ k = 2 \/ k = 3
  OBVIOUS
<1>3. \A k \in 1 .. 2 : k = 1 \/ k = 2
  OBVIOUS
<1>4. CASE args = <<in>>
  <2>1. Len(args) = 1 /\ args[1] = in /\ \A k \in 1 .. 1 : k = 1
    BY <1>4
  <2>2. 1 \in 1 .. 1 /\ \A k : k \notin 1 .. 1 - 1
    OBVIOUS
  <2>. QED
    BY <1>1, <1>4, <2>1, <2>2, FirstValues DEF A!Inputs, A!Given
<1>5. ASSUME NEW out, args = <<in, A!OutputOption, out>>
      PROVE  A!Inputs = {1} /\ A!Given(A!OutputOption) = {2}
  <2>1. /\ Len(args) = 3 /\ args[1] = in /\ args[2] = A!OutputOption
        /\ 3 - 1 = 2 /\ {1, 2, 3} \subseteq 1 .. 3 /\ {1, 2} \subseteq 1 .. 2
        /\ 2 # 3
    BY <1>5
  <2>2. ~A!IsValue(1) /\ ~A!IsValue(2) /\ A!IsValue(3)
    BY <1>1, <2>1, FirstValues
  <2>. QED
    BY <1>1, <1>2, <1>3, <2>1, <2>2 DEF A!Inputs, A!Given
<1>6. ASSUME NEW out, args = <<A!OutputOption, out, in>>
      PROVE  A!Inputs = {3} /\ A!Given(A!OutputOption) = {1}
  <2>1. /\ Len(args) = 3 /\ args[1] = A!OutputOption /\ args[3] = in
        /\ 3 - 1 = 2 /\ {1, 2, 3} \subseteq 1 .. 3 /\ {1, 2} \subseteq 1 .. 2
        /\ 1 # 3
    BY <1>6
  <2>2. ~A!IsValue(1) /\ A!IsValue(2) /\ ~A!IsValue(3)
    BY <1>1, <2>1, FirstValues
  <2>. QED
    BY <1>1, <1>2, <1>3, <2>1, <2>2 DEF A!Inputs, A!Given
<1>. QED
  BY <1>4, <1>5, <1>6, TwoWords

(* They are instances of what the whole line says.                         *)
LEMMA FormsFollow == A!LastOnesWin => A!DocumentedForms
<1>. SUFFICES ASSUME A!LastOnesWin, at \notin {"args", "usage"},
                     NEW in \in Names \ A!Options
              PROVE  /\ args = <<in>> => from_path = in /\ out_path = NoName
                     /\ \A out \in Names :
                          args \in A!Forms(in, out)
                            => from_path = in /\ out_path = out
  BY DEF A!DocumentedForms
<1>1. /\ from_path = IF A!Inputs = {} THEN NoName ELSE args[A!LastOf(A!Inputs)]
      /\ out_path = IF A!Given(A!OutputOption) = {} THEN NoName
                    ELSE args[A!LastOf(A!Given(A!OutputOption)) + 1]
  BY DEF A!LastOnesWin
<1>2. A!LastOf({1}) = 1 /\ A!LastOf({2}) = 2 /\ A!LastOf({3}) = 3
  BY OnlyOne
<1>3. ASSUME args = <<in>> PROVE from_path = in /\ out_path = NoName
  <2>1. A!Inputs = {1} /\ A!Given(A!OutputOption) = {} /\ args[1] = in
    BY <1>3, FormsAreRead
  <2>. QED
    BY <1>1, <1>2, <2>1
<1>4. ASSUME NEW out \in Names, args = <<in, A!OutputOption, out>>
      PROVE  from_path = in /\ out_path = out
  <2>1. A!Inputs = {1} /\ A!Given(A!OutputOption) = {2} /\ args[1] = in /\ args[2 + 1] = out
    BY <1>4, FormsAreRead
  <2>. QED
    BY <1>1, <1>2, <2>1
<1>5. ASSUME NEW out \in Names, args = <<A!OutputOption, out, in>>
      PROVE  from_path = in /\ out_path = out
  <2>1. A!Inputs = {3} /\ A!Given(A!OutputOption) = {1} /\ args[3] = in /\ args[1 + 1] = out
    BY <1>5, FormsAreRead
  <2>. QED
    BY <1>1, <1>2, <2>1
<1>. QED
  BY <1>3, <1>4, <1>5 DEF A!Forms

(***************************************************************************)
(* The three forms that README.md gives work, whatever the names are, as   *)
(* long as the input does not have the name of an option; the output may.  *)
(***************************************************************************)
THEOREM LoopReadsForms == A!Spec => []A!DocumentedForms
BY LoopTakesLastWords, FormsFollow, PTL

-----------------------------------------------------------------------------
(* The same for the part that opens, reads and writes files.               *)
LEMMA SameFiles ==
  /\ F!InitProgram <=> FP!InitProgram
  /\ F!InitDisk <=> FP!InitDisk
  /\ F!Program <=> FP!Program
  /\ F!Others <=> FP!Others
  /\ F!HashedAsLongAsSize <=> FP!HashedAsLongAsSize
  /\ F!HashedAsPromised <=> FP!HashedAsPromised
  /\ F!OwnOutputIsLost <=> FP!OwnOutputIsLost
  /\ F!InputFileTypeOK <=> FP!InputFileTypeOK
<1>. USE DEF F!NoFile, FP!NoFile, F!NotRegular, FP!NotRegular, F!Stdout, FP!Stdout,
       F!Stale, FP!Stale, F!ReportByte, FP!ReportByte, F!path, FP!path,
       F!stream, FP!stream, F!opened, FP!opened, F!reading, FP!reading,
       F!disk, FP!disk, F!packet_count, FP!packet_count,
       F!last_bytes, FP!last_bytes
<1>1. F!InitProgram <=> FP!InitProgram
  BY DEF F!InitProgram, FP!InitProgram
<1>2. F!InitDisk <=> FP!InitDisk
  BY DEF F!InitDisk, FP!InitDisk
<1>3. F!Program <=> FP!Program
  BY DEF F!Program, FP!Program, F!GetFileSize, FP!GetFileSize, F!NoInput, FP!NoInput,
    F!OpenInput, FP!OpenInput, F!InputRefused, FP!InputRefused, F!UseStdout,
    FP!UseStdout, F!OpenOutput, FP!OpenOutput, F!Emptied, FP!Emptied,
    F!CreateOutput, FP!CreateOutput, F!Unnamed, FP!Unnamed, F!OutputRefused,
    FP!OutputRefused, F!ReadPacket, FP!ReadPacket, F!ReadTail, FP!ReadTail,
    F!PrintReport, FP!PrintReport, F!Fread, FP!Fread, F!Fetched, FP!Fetched,
    F!Available, FP!Available, F!Smaller, FP!Smaller, F!HashedPart, FP!HashedPart
<1>4. F!Others <=> FP!Others
  BY DEF F!Others, FP!Others, F!Ended, FP!Ended, F!OnDisk, FP!OnDisk, F!Record, FP!Record,
    F!Shorten, FP!Shorten, F!Rename, FP!Rename
<1>5. F!HashedAsLongAsSize <=> FP!HashedAsLongAsSize
  BY DEF F!HashedAsLongAsSize, FP!HashedAsLongAsSize
<1>6. F!HashedAsPromised <=> FP!HashedAsPromised
  BY DEF F!HashedAsPromised, FP!HashedAsPromised, F!Kept, FP!Kept
<1>7. F!OwnOutputIsLost <=> FP!OwnOutputIsLost
  BY DEF F!OwnOutputIsLost, FP!OwnOutputIsLost, F!Range, FP!Range
<1>8. F!InputFileTypeOK <=> FP!InputFileTypeOK
  BY DEF F!InputFileTypeOK, FP!InputFileTypeOK, F!OnDiskByte, FP!OnDiskByte
<1>. QED
  BY <1>1, <1>2, <1>3, <1>4, <1>5, <1>6, <1>7, <1>8

-----------------------------------------------------------------------------

(* Without a name for it no file is open for writing.                      *)
Named == fp_out \in Inodes => out_path # NoName

InvocationInv ==
  /\ ArgumentsInv
  /\ Finished
  /\ FP!FilesInv
  /\ Named
  /\ disturbances \in Nat

(* The invariant holds when the program starts.                            *)
LEMMA InvocationStarts == Init => InvocationInv
<1>. SUFFICES ASSUME Init PROVE InvocationInv
  OBVIOUS
<1>1. A!Init /\ FP!InitProgram /\ FP!InitDisk /\ disturbances = 0
  BY SameFiles DEF Init
<1>2. at = "args"
  BY <1>1 DEF A!Init
<1>3. ArgumentsInv
  BY <1>1, SameAssumptions, ArgumentsStart
<1>4. FP!FilesInv
  BY <1>1, <1>2, SameAssumptions, FP!FilesStart
<1>5. fp_out = FP!NoFile /\ FP!NoFile \notin Inodes
  BY <1>1, SameAssumptions DEF FP!InitProgram
<1>. QED
  BY <1>1, <1>2, <1>3, <1>4, <1>5 DEF InvocationInv, Finished, Named

(* The loop over the arguments.                                            *)
LEMMA ReadArgumentsKeeps == InvocationInv /\ ReadArguments => InvocationInv'
<1>. SUFFICES ASSUME InvocationInv, ReadArguments PROVE InvocationInv'
  OBVIOUS
<1>. USE DEF InvocationInv
<1>1. A!Next /\ UNCHANGED <<files, disturbances>>
  BY DEF ReadArguments
<1>2. at = "args" /\ at' \in {"args", "usage", "stat"}
  BY <1>1 DEF A!Next, A!TakeServiceId, A!TakeOutput, A!TakeInput, A!EndOfArguments,
     A!Argument
<1>3. ArgumentsInv'
  BY <1>1, SameAssumptions, ArgumentsStep
<1>4. Finished'
  BY <1>1, <1>2 DEF Finished, A!Next, A!TakeServiceId, A!TakeOutput, A!TakeInput,
     A!EndOfArguments, A!Argument
<1>5. UNCHANGED <<filesize, FP!opened, FP!reading, FP!disk, promised, cut>>
  BY <1>1 DEF files, FP!opened, FP!reading, FP!stream, FP!disk
<1>6. FP!FilesInv'
  BY <1>2, <1>5, SameAssumptions, FP!FilesUntouched
<1>7. fp_out' = FP!NoFile /\ FP!NoFile \notin Inodes
  BY <1>1, <1>2, SameAssumptions
     DEF files, FP!FilesInv, FP!InputFileInv, FP!AtStart, FP!Reading
<1>8. Named' /\ disturbances' \in Nat
  BY <1>1, <1>7 DEF Named
<1>. QED
  BY <1>3, <1>4, <1>6, <1>8

(* What the program does with the files.                                   *)
LEMMA AnalyseKeeps ==
  InvocationInv /\ Analyse => InvocationInv' /\ at # "args" /\ UNCHANGED out_path
<1>. SUFFICES ASSUME InvocationInv, Analyse
              PROVE  InvocationInv' /\ at # "args" /\ UNCHANGED out_path
  OBVIOUS
<1>. USE DEF InvocationInv
<1>1. FP!Program /\ UNCHANGED <<words, disturbances>>
  BY SameFiles DEF Analyse
<1>2. /\ UNCHANGED <<from_path, out_path>>
      /\ at \notin {"args", "usage"} /\ at' \notin {"args", "usage"}
  BY <1>1 DEF FP!Program, FP!GetFileSize, FP!NoInput, FP!OpenInput, FP!InputRefused,
     FP!UseStdout, FP!OpenOutput, FP!CreateOutput, FP!OutputRefused, FP!ReadPacket,
     FP!ReadTail, FP!PrintReport, FP!path
<1>3. UNCHANGED <<args, i, service_id>>
  BY <1>1 DEF words
<1>4. ArgumentsInv'
  BY <1>2, <1>3, SameAssumptions, ArgumentsStay
<1>5. Finished'
  BY <1>2, <1>3 DEF Finished
<1>6. FP!FilesInv'
  BY <1>1, SameAssumptions, FP!FilesStep
<1>7. fp_out' = fp_out \/ out_path # NoName \/ fp_out' = FP!Stdout
  BY <1>1 DEF FP!Program, FP!GetFileSize, FP!NoInput, FP!OpenInput, FP!InputRefused,
     FP!UseStdout, FP!OpenOutput, FP!CreateOutput, FP!OutputRefused, FP!ReadPacket,
     FP!ReadTail, FP!PrintReport, FP!opened
<1>8. Named'
  BY <1>2, <1>7, SameAssumptions DEF Named
<1>. QED
  BY <1>1, <1>2, <1>4, <1>5, <1>6, <1>8

(* What others do.                                                         *)
LEMMA DisturbKeeps == InvocationInv /\ Disturb => InvocationInv'
<1>. SUFFICES ASSUME InvocationInv, Disturb PROVE InvocationInv'
  OBVIOUS
<1>. USE DEF InvocationInv
<1>1. FP!Others /\ disturbances' = disturbances + 1 /\ UNCHANGED words
  BY SameFiles DEF Disturb
<1>2. UNCHANGED <<args, i, service_id, at, from_path, out_path, fp_out>>
  BY <1>1 DEF words, FP!Others, FP!Record, FP!Shorten, FP!Rename, FP!OnDisk, FP!path, FP!opened
<1>3. ArgumentsInv'
  BY <1>2, SameAssumptions, ArgumentsStay
<1>4. Finished' /\ Named'
  BY <1>2 DEF Finished, Named
<1>5. FP!FilesInv'
  BY <1>1, SameAssumptions, FP!FilesStep
<1>. QED
  BY <1>1, <1>3, <1>4, <1>5

(* The invariant of the whole program.                                     *)
THEOREM Invariance == Spec => []InvocationInv
<1>1. InvocationInv /\ UNCHANGED vars => InvocationInv'
  <2>. SUFFICES ASSUME InvocationInv, UNCHANGED vars PROVE InvocationInv'
    OBVIOUS
  <2>1. /\ UNCHANGED <<args, i, service_id, at, from_path, out_path, fp_out, disturbances>>
        /\ UNCHANGED <<filesize, FP!opened, FP!reading, FP!disk, promised, cut>>
    BY DEF vars, words, files, FP!opened, FP!reading, FP!stream, FP!disk
  <2>2. ArgumentsInv'
    BY <2>1, SameAssumptions, ArgumentsStay DEF InvocationInv
  <2>3. FP!FilesInv'
    BY <2>1, SameAssumptions, FP!FilesUntouched DEF InvocationInv
  <2>. QED
    BY <2>1, <2>2, <2>3 DEF InvocationInv, Finished, Named
<1>2. InvocationInv /\ [Next]_vars => InvocationInv'
  BY <1>1, ReadArgumentsKeeps, AnalyseKeeps, DisturbKeeps DEF Next, Program
<1>. QED
  BY <1>2, InvocationStarts, PTL DEF Spec

(***************************************************************************)
(* The variables have their types for every command line and every file:   *)
(* the loop over the arguments stays within argv, and the number of        *)
(* packets read never passes what fits into the size of the file.          *)
(***************************************************************************)
THEOREM TypeCorrect == Spec => []TypeOK
<1>1. InvocationInv => A!ArgumentsTypeOK
  BY DEF InvocationInv, ArgumentsInv, InPlace, StoredTypes,
    A!ArgumentsTypeOK
<1>2. InvocationInv => FP!InputFileTypeOK
  BY DEF InvocationInv, FP!FilesInv, FP!InputFileInv
<1>. QED
  BY <1>1, <1>2, SameFiles, Invariance, PTL DEF TypeOK

(***************************************************************************)
(* The forms of README.md are understood by the whole program, whatever    *)
(* the names are.                                                          *)
(***************************************************************************)
THEOREM FormsAreUnderstood == Spec => []DocumentedForms
<1>1. InvocationInv => A!LastOnesWin
  BY SameAssumptions, AllTaken DEF InvocationInv
<1>2. A!LastOnesWin => A!DocumentedForms
  BY SameAssumptions, FormsFollow
<1>. QED
  BY <1>1, <1>2, Invariance, PTL DEF DocumentedForms

(***************************************************************************)
(* In the whole program, for every command line, the last input, the last  *)
(* output and the last number win.                                         *)
(***************************************************************************)
THEOREM LastWordsWin == Spec => []LastOnesWin
<1>1. InvocationInv => LastOnesWin
  BY SameAssumptions, AllTaken DEF InvocationInv, LastOnesWin
<1>. QED
  BY <1>1, Invariance, PTL

(* What the invariant of the files says of the hashes.                     *)
LEMMA HashesOfFiles ==
  InvocationInv => HashedAsLongAsSize /\ HashedAsPromised /\ OwnOutputIsLost
<1>1. InvocationInv
        => FP!HashedAsLongAsSize /\ FP!HashedAsPromised /\ FP!OwnOutputIsLost
  BY SameAssumptions, FP!FilesResults DEF InvocationInv
<1>. QED
  BY <1>1, SameFiles DEF HashedAsLongAsSize, HashedAsPromised, OwnOutputIsLost

(***************************************************************************)
(* Whatever the command line is and whatever others do, what is hashed is  *)
(* as long as the report says.                                             *)
(***************************************************************************)
THEOREM SizeIsHashed == Spec => []HashedAsLongAsSize
BY HashesOfFiles, Invariance, PTL

(***************************************************************************)
(* Whatever the command line is, what is hashed is what the file was when  *)
(* its size was looked up, unless bytes of it were taken away, another     *)
(* file came to its name, or it is the output.                             *)
(***************************************************************************)
THEOREM PromiseIsHashed == Spec => []HashedAsPromised
BY HashesOfFiles, Invariance, PTL

(***************************************************************************)
(* Whatever the command line is, if it makes the input the output, under   *)
(* one name or two, nothing of it is hashed.                               *)
(***************************************************************************)
THEOREM OverwrittenInputIsLost == Spec => []OwnOutputIsLost
BY HashesOfFiles, Invariance, PTL

(* A step of the program that changes a file.                              *)
LEMMA WritesOutput ==
  ASSUME InvocationInv, Analyse, NEW f \in Inodes, data'[f] # data[f]
  PROVE  /\ out_path # NoName
         /\ at = "open output" => dir'[out_path] = f
         /\ at # "open output" => fp_out = f
<1>1. FP!Program
  BY SameFiles DEF Analyse
<1>2. /\ DOMAIN data = Inodes /\ DOMAIN dir = Names
      /\ data = [g \in Inodes |-> data[g]]
  BY DEF InvocationInv, FP!FilesInv, FP!InputFileInv, FP!InputFileTypeOK
<1>3. out_path \in Names \cup {NoName}
  BY DEF InvocationInv, ArgumentsInv, StoredTypes
<1>4. CASE FP!OpenOutput
  <2>1. /\ out_path # NoName /\ at = "open output" /\ dir' = dir
        /\ data' = [data EXCEPT ![dir[out_path]] = <<>>]
    BY <1>4 DEF FP!OpenOutput, FP!Emptied
  <2>. QED
    BY <1>2, <2>1
<1>5. CASE FP!CreateOutput
  <2>1. PICK g \in FP!Unnamed : /\ dir' = [dir EXCEPT ![out_path] = g]
                                /\ data' = [data EXCEPT ![g] = <<>>]
    BY <1>5 DEF FP!CreateOutput
  <2>2. out_path # NoName /\ at = "open output"
    BY <1>5 DEF FP!CreateOutput
  <2>3. dir'[out_path] = g
    BY <1>2, <1>3, <2>1, <2>2
  <2>4. f = g
    BY <1>2, <2>1
  <2>. QED
    BY <2>2, <2>3, <2>4
<1>6. CASE FP!PrintReport
  <2>1. /\ at = "print"
        /\ fp_out # FP!Stdout
        /\ data' = [data EXCEPT ![fp_out] = <<FP!ReportByte>> \o SubSeq(@, 2, Len(@))]
    BY <1>6 DEF FP!PrintReport
  <2>2. fp_out = f
    BY <1>2, <2>1
  <2>. QED
    BY <2>1, <2>2 DEF InvocationInv, Named
<1>7. CASE data' = data
  BY <1>7
<1>. QED
  BY <1>1, <1>4, <1>5, <1>6, <1>7
     DEF FP!Program, FP!GetFileSize, FP!NoInput, FP!OpenInput, FP!InputRefused,
     FP!UseStdout, FP!OutputRefused, FP!ReadPacket, FP!ReadTail, FP!disk

(***************************************************************************)
(* The program writes to one file, the one that the last output option of  *)
(* the command line names when it is opened, and to none without one.      *)
(***************************************************************************)
THEOREM WritesNothingElse == Spec => OnlyOutputIsWritten
<1>1. InvocationInv /\ [Next]_vars =>
        \A f \in Inodes :
          data'[f] # data[f] /\ disturbances' = disturbances =>
            LET given == A!Given(OutputOption)
            IN /\ given # {}
               /\ at = "open output" => dir'[args[A!LastOf(given) + 1]] = f
               /\ at # "open output" => fp_out = f
  <2>. SUFFICES ASSUME InvocationInv, [Next]_vars, NEW f \in Inodes,
                       data'[f] # data[f], disturbances' = disturbances
                PROVE  /\ A!Given(OutputOption) # {}
                       /\ at = "open output" =>
                            dir'[args[A!LastOf(A!Given(OutputOption)) + 1]] = f
                       /\ at # "open output" => fp_out = f
    OBVIOUS
  <2>1. Analyse
    <3>1. CASE ReadArguments
      BY <3>1 DEF ReadArguments, files
    <3>2. CASE Disturb
      BY <3>2 DEF Disturb, InvocationInv
    <3>3. CASE UNCHANGED vars
      BY <3>3 DEF vars, files
    <3>. QED
      BY <3>1, <3>2, <3>3 DEF Next, Program
  <2>2. /\ out_path # NoName
        /\ at = "open output" => dir'[out_path] = f
        /\ at # "open output" => fp_out = f
    BY <2>1, WritesOutput
  <2>3. at # "args"
    BY <2>1, AnalyseKeeps
  <2>4. A!LastOnesWin
    BY SameAssumptions, AllTaken DEF InvocationInv
  <2>5. out_path = IF A!Given(OutputOption) = {} THEN NoName
                   ELSE args[A!LastOf(A!Given(OutputOption)) + 1]
    BY <2>3, <2>4 DEF A!LastOnesWin, A!OutputOption, OutputOption
  <2>. QED
    BY <2>2, <2>5
<1>. QED
  BY <1>1, Invariance, PTL DEF Spec, OnlyOutputIsWritten
=============================================================================
