# tsanalytics in TLA+

`tsanalytics` reads a recorded MPEG-2 transport stream once, from start to end,
and prints a JSON report: four hashes of the file, the number of packets that
were lost, damaged or left scrambled (per PID, per percentage of the file and
per time stamp of the stream), the first and last time, and the ids of the
stream. This directory holds a TLA+ model of it, the TLC runs that check the
model and the proofs that TLAPS checks.

## The system

The program is one thread without callbacks or timers. Two things make it hard.
The first is the *order of packets*: a recording interleaves up to 8192 PIDs,
packets are missing, repeated, damaged or malformed anywhere, sections are cut
over packets of one PID, and every counter and flag depends on what came before.
The second is the *file*: its size is taken from a name, its bytes from a later
look-up of the name, and other processes, a recorder for one, may be at work on
it all the time.

| Component | Source | State | Operations | What makes it correct |
|---|---|---|---|---|
| Command line | `main.c` | `from_path`, `out_path`, `service_id`, the loop index | the argument loop | the last value of each kind wins; a value is never read as anything else |
| Files | `tsanalytics.c`, `getFileSize` in `m2tlib/util.c` | `filesize`, the two streams, `p_cnt`, `buf`, the hash contexts | `stat`, the opens, `fread`, the report | the hashes are of the file whose size is printed, whatever others do; nothing but the output is written |
| Packet header | `m2tlib/head.c`, `head_adapt.c` | none | `st_head`, `extract_adaptation_field` | a field that runs over its end leaves no flag behind; the payload position may lie behind the packet |
| Continuity checker | `m2tlib/drop_count.c` | `ts_drop_count[8192]`: counters, verdict on the last packet, `repeat`, the last packet itself | `drop_check_and_count`, `mark_last_drop_count` | counts kept from packet to packet equal those of the whole stream; the last packet is read only after one was stored |
| Section reassembler | `m2tlib/packet.c` | `packet_list[8192]`: block, `size`, `copybytes`, `loading`, `enable` | `st_packet`, `free_packet_list(_all)` | no copy leaves its block; a decoder gets exactly the payloads since the last start |
| Bit reader | `getBit` in `m2tlib/util.c` | none | shifts in eight bytes | the bits asked for and no others, for every offset and width |
| PAT decoder | `m2tlib/pat.c` | `TS_PAT` | `st_pat` | nothing is read outside the block; the list is that of the section |
| TOT decoder and dates | `m2tlib/tot.c`, `util.c` | `TS_TOT` | `st_tot`, `mjd_to_tm`, `time_to_tm`, `tm_to_text` | the right date on every day; the text fits |
| PMT and EIT decoders | `m2tlib/pmt.c`, `eit.c` | a list; a list of lists | `st_pmt`; `st_eit`, `free_eit` | all of a section and nothing beside it; all is freed |
| Drop lists | `drop_list.c` | a linked list of keys and counters | `add_drop_list` | one node per key, exact counts up to a maximum |
| Main loop | `tsanalytics.c` | the above, sync counters, hash contexts, PAT, times | one pass per packet | every packet judged once and hashed once; the parts of the report agree |
| Report | `conv_json.c`, `tsanalytics.c` | none | printing | valid JSON that leaves nothing out, up to the limit of entries |
| CRC | `m2tlib/crc32.c` | none | `crc32_check` | |
| Descriptors | `m2tlib/descriptor.c` | none | not called | |

`main` reads the arguments and calls `tsanalytics`, which takes the size, opens
both files and runs the main loop. The loop calls everything else: header, then
checker, then (if something is wrong with the packet) both drop lists with the
key that is current *before* the packet is looked into, then the reassembler
for PIDs 0x00 and 0x14, and a decoder when a section is complete. The checker's
element `total` is written by both sides, `packet_list[pid].enable` only by the
main loop, `loading` only by the reassembler, and the decoders read the
reassembler's block directly. The decoders of PMT and EIT are part of the
library, not of the program.

## The modules

| Module | Models | How it corresponds |
|---|---|---|
| `Words`, `Disk` | words of a command line, bytes and files | Constants and their assumptions, shared by the next three. |
| `Arguments` | `main.c` | One pass of the loop is one step: `TakeServiceId`, `TakeOutput`, `TakeInput`, and `EndOfArguments`. A word has a number in it or not (`sscanf`), which is cut to 16 bits. |
| `InputFile` | the files of `tsanalytics.c`, `getFileSize` | Names denote files, an open file outlives its name. `Program` is what the program does (`GetFileSize`, the opens, `ReadPacket`, `ReadTail`, `PrintReport`), `Others` what any other process may do between two of its steps: extend a file, make it shorter, or move names. `fread` fills the buffer of the stream with reads of `BufferSize` bytes, and its result is ignored as in the code. |
| `Invocation` | one run of the program | Composes the two: the arguments decide which files `InputFile` works on. |
| `TSHead` | the packet | A packet is a record of the fields the program reads. Two packets are the same 188 bytes exactly if their records are equal. `payload_start_pos`, `extract_adaptation_field` and its overrun checks are computed as in the code. |
| `Subsequences`, `Totals` | | Parts of a sequence by their positions, and sums as the number of units counted. The references are written with them because there are theorems about cardinalities and none about the recursive operators of the community modules. |
| `Streams` | reference | Gaps, errors and scrambled packets of a stream, defined on the whole sequence. |
| `DropCount` | `drop_count.c` | `ts_drop_count` as a function of PIDs; `Count` is one packet through the caller's and the checker's code, `mark_last_drop_count` the end of the file. |
| `PacketList` | `packet.c`, with the caller's filter | `packet_list` as a function of PIDs. A block is the sequence of the packets copied into it and a capacity. `Offer` is one call of `st_packet` with the conditions of the call and the change of `enable` after it. |
| `DropList` | `drop_list.c` | The list is a sequence. The search limit (100000) and the maximum (99999999) are constants. |
| `Pat` | `pat.c` | `st_pat`, with its 16-bit count of programs and the condition under which its loop leaves the block. |
| `Report` | `conv_json.c`, the programs in `tsanalytics.c` | What is printed of a list is a sequence of entries and commas, next to what JSON wants of it (`Separated`). |
| `Analysis` | abstract specification | From a file to one outcome: a report with exact counts and a hash of all of the file, a failure to open, or, only for a file that is not clean, a crash. |
| `TSAnalytics` | `tsanalytics.c` | The composition. One pass of the loop is one step, each path through its body an action: `HashOnly`, `SyncError`, `NotCollected`, `Collected`, `PatComplete`, `TotComplete`, `TotDisabled`, `DecoderCrash`; around it `Open`, `Finish`, `PrintReport`, `Crash`. `DropCount`, `PacketList`, `Report` and two copies of `DropList` are instances. |
| `Bits` | `getBit` | A `uint64_t` is its 64 bits; the shifts are the code's; `Slice` is the reference. |
| `Dates` | `mjd_to_tm`, `hex_to_digi`, `time_to_tm`, `tm_to_text` | Integer arithmetic as in the code, next to a calendar that goes day by day. |
| `Layout` | | How a table lies in memory: what the decoders are compared with. |
| `Pmt`, `Eit`, `Tot` | `pmt.c`, `eit.c`, `tot.c` | `Pmt` and `Eit` are state machines, one step for a pass of a loop, on a section in a block with other memory behind it; `Tot` is `st_tot`, a day for a step. `Table` and the operators `...Bytes` are the reference: what a table is, and how it is sent. |
| `Decoders` | | The three side by side, each with sections of its own: any that lie in a block of the size that they claim, and are either damaged or the bytes of a table. `Calendar`, by its assumption, is the date of every day that 16 bits number. |
| `MC...` | | Values of the constants and alphabets for TLC. |
| `...Proofs`, `ListLemmas` | | Theorems; lemmas about flattening, sorting and filtering lists that several of them need. |

The variables `seen`, `offered`, `added`, `tots`, `abnormal`, `promised`, `cut`,
`sent` and `disturbances` are histories that the code does not have; no guard of
the code's actions reads them. Operators such as `HashTail_Never`, next to the
definition they resemble, are plausible mistakes in it; nothing uses them, each
is there to see that a property would notice.

What is abstracted:

* in `TSAnalytics`, times and ids are one value of `Contents`, the four hashes
  are one sequence of what they were given, the CRC of a section matches or
  not, freely, and the file lies still. `InputFile` says what holds of a file
  that does not, `Tot` and `Dates` what a time is;
* a section header is a field of the packet (`sec`): what a decoder reads if the
  payload of this packet is at the start of a block. A start has its whole
  header or no byte of payload: the packets of the runs have no payload of 1 to
  7 bytes. If the payload begins at or behind the end of the packet the code
  reads the header from its stack: the model lets it be any header;
* `eit.c:92-94` calls `getBit` several times in one expression, whose order C
  leaves open: `Eit` takes the calls from left to right, which is the
  order of the fields;
* what a read outside a block or of the uninitialized `pat` does: in
  `TSAnalytics` it gives garbage or ends the program, in `Pmt` and `Eit` it is
  an end of its own;
* a report is one byte that is written over the beginning of the output.

## What the runs check

Passing runs:

* `checker` (`MCDropCount`): all streams of up to five packets of one PID and
  of null packets: counters around the wrap, a packet with the same counter and
  another payload, damaged and scrambled ones, ones without payload, a
  discontinuity and one cut short. `CountsExact` compares the counters with
  `Streams`, `BeforeIsLastSeen` says that the remembered packet is the last one,
  `MarkedIsLastPrinted` that the mark ends the printed list. Five packets are
  three repetitions with something between them; the state does not remember
  more than the last packet and `repeat`.
* `reassembler` (`MCPacketList`): up to four packets for PIDs 0 and 20: starts
  with sections that end in the packet, just fill it, need one or two more, or
  have no contents, starts and continuations with long, full and overlong
  adaptation fields. `NoOverrun`, `CountIsContents`, `DeliveredIsSinceStart`,
  `LoadingUntilFilled`. The longest section takes three packets, so four allow
  one disturbance at any place.
* `drop_lists` (`MCDropList`): five calls with four keys, a search limit of two
  and a maximum of two: `KeysDistinct`, `CountsPerKey`.
* `program_files` (`MCTSAnalytics`): every file of up to three packets of sixteen
  kinds (`Wide`), and every file of up to six packets that are no packets,
  repetitions, losses or a PAT (`Runs`), with and without a tail. `SyncLimit` is
  1, so that a file is given up at three errors in a row and six packets hold two
  runs. `ImplementsAnalysis` is the refinement of `Analysis`, `AnalysisEnds` its
  liveness;
  `NotTSExact`, `HashCoversFile`, `FirstPatStays`; `EveryPacketOnce` compares what
  the checker was given, what was counted as a sync error and what the
  reassembler was given with the packets of the file up to the one that ended
  the analysis, damaged packets of a PAT and ones without a payload among them;
  `DropListsAreJson` and `ProgramsAreOfPat` are about what is printed. Two
  entries are printed of a drop list, and three percentages make lists of one,
  two and three nodes.
* `program_times`: every file of up to five packets of times and drops
  (`Times`).
  `TimesAreOfTots`, `BreakdownsAgree`, and the two lists implement `DropList`
  with calls computed from the histories (`TotListSpec`, `PercentListSpec`).
* `invocation` (`MCInvocation`): every command line of up to five words out of
  the two options, a number, and two names, on a directory nobody else uses; and
  the documented command lines, and the one that names one file twice, with two
  steps of others at any moment, on files of up to five bytes, with packets of
  two and a stream buffer of three. The output is a second name of the input, a
  file of its own, a new one, or a directory. `LastOnesWin` compares what the
  loop took with the whole command line, `DocumentedForms` are those of
  `README.md`, `HashedAsLongAsSize`, `HashedAsPromised` and `OwnOutputIsLost`
  say what the hashes are of, `OnlyOutputIsWritten` what the program may change,
  and `Terminates` that it ends. Five bytes are two packets and a tail, and the
  buffer ends inside a packet, so that a read takes what is left of it and more;
  two disturbances are enough to shorten and extend, or to move two names.
* `decoders` (`MCDecoders`): tables of up to three streams, tables of up to
  three events with up to three descriptors (limits of two for 100, so that both
  are reached and passed), each section also with any one byte changed to seven
  values, and every day that 16 bits can name with the clock running through all
  digits and all bytes. The events start at one time and last one time; for all
  others there is a theorem. `PmtExact` and `EitExact` say that what was sent is
  what is read, `PmtReadsInside` and `InPlaceUntilCut` what holds of damaged
  sections, `OnlyWrongEventLeaks` what `free_eit` frees, `TimeIsRight` and
  `TextFits` what a time is. The block is 12 bytes longer than its section
  instead of 188: what is read beyond a section shows earlier.

Bounds: `SyncLimit` 1 for 100 (the code compares it only with a counter),
`Percent` 3 for 100, `MAX_PRINTED` 2 for 20000, `MAX_COUNT` and `LIST_LIMIT`
small in `MCDropList` and out of reach in the program, `PacketSize` 2 and
`BufferSize` 3 for 188 and 4096 in `MCInvocation`, `MAX_EVENTS`, `MAX_DESC` and
`Slack` in `MCDecoders`. `MaxSeen`, `MaxOffered`, `MaxAdded`, `MaxWide`,
`MaxRuns`, `MaxTimes`, `MaxArgs`, `MaxSize`, `MaxDisturbances`, `MaxStreams` and
`MaxEvents` bound the histories and the inputs, in the guards of
the MC modules or in the set of files.

Deadlock is checked for the reassembler. The program, the decoders, and the
checker once the mark is set, do stop, and a drop list stops at `MaxAdded`.

Fairness: `WF_vars(Next)` in `TSAnalytics`, which is one thread that waits for
nobody, and `WF_vars(Program)` in `InputFile` and `Invocation`: the program goes
on, and the other processes owe it nothing. `Terminates` does not depend on how
many steps they take: they cannot undo a step of the program, and each brings it
closer to its end. No action has fairness of its own: which way
the program goes is decided by the file, and the open choices (a file that
cannot be opened, garbage that crashes) may fall either way. The other modules
state no fairness.

### Where the code and its documentation disagree

Each of these runs states what a comment or `README.md` says and finds a
counterexample.

| Run | Property | What the program does |
|---|---|---|
| `total_twice` | `TotalIsPacketCount` | `total` is counted in `tsanalytics.c:173` and again in `drop_count.c:94`. |
| `stale_loading` | `StartGivenUpIsNotRead` | While a section is collected, a start with an overlong adaptation field is given up (`packet.c:83`) with `loading` still 1 and `copybytes` 0; the next continuation becomes the beginning of its block, which is handed to a decoder. `packet.c:31-34` says that a start initializes `loading`, `packet.c:81-82` that reading is given up. |
| `exact_fit` | `CompleteWhenAllBytesAreThere` | `copybytes > size` (`packet.c:100`): a section that just fills its packets is not complete. |
| `no_pat` | `ReportedIdWasRead` | `pat` is printed uninitialized if the file has no PAT. |
| `crc_ignored` | `TimesPassedTheirCrc` | `crc_check` is stored and never read; `head.c:32-34` says that such a section is reset. |

Other facts that the model has, and that a reader of the comments may not
expect:

* a drop resets `repeat` (`drop_count.c:55`), so of a packet that stays the same
  every second repetition is a drop, and not each from the second one on;
  `Streams` counts it so;
* `packet.c:52` and `55` allocate twice: one block of every start is lost, and
  `free_packet_list_all` cannot find it;
* the limit of sync errors is compared before the error is counted
  (`tsanalytics.c:162`): a file is given up at 102 errors in a row, not 100;
  `NotTSExact` says `SyncLimit + 2`;
* a PAT with programs whose last entry is the network leaves a comma behind its
  last program (`tsanalytics.c:310`), which is no JSON; `ProgramsAreOfPat` has
  this one exception;
* input and output may be one file: it is emptied before it is read
  (`tsanalytics.c:49`), and the size printed is the old one;
* of a file that became shorter, the last packets are hashed with what `buf`
  held before, and counted (`tsanalytics.c:139`);
* `free_eit` clears `sizeof(out)` bytes (`eit.c:197`), which is the size of a
  pointer, although the comment above it says that it zeroes the structure:
  `events` still points to what was freed;
* an event that announces more bytes of descriptors than its section has ends
  the loop before it is linked, and is never freed; `OnlyWrongEventLeaks` says
  that it is the only one.

## What is proved

The proofs hold for files, streams and command lines of every length, and for
every set of PIDs that has 0, 20 and 8191 in it (`PIDsAssumption`), every set of
contents, every program loop (`PatAssumption`), every limit
(`TSAnalyticsAssumption`, `DropListAssumption`), every set of words that has the
two options (`WordsAssumption`), every set of files and bytes, every size of
a packet and of the stream buffer (`DiskAssumption`), and every set of sections
that lie in a block of the size that they claim, with any bytes in it, whatever
the limits of the decoders are, and whatever undamaged tables are among them
(`DecodersAssumption`). All of the 32 invariants that the passing runs check are
theorems, and of the 8 action and temporal properties all but the two liveness
properties.

`PacketListProofs`. `NoOverrun` (copybytes within the block) is not inductive: a
continuation adds up to 188 bytes, so one must know that `copybytes <= size`
held before and that the block has 188 bytes more than `size`. That is so while
`loading` is 1, and a packet is copied only then or into a block just allocated:
this is `WellFilled`. With it go `TypeOK` (the 16-bit fields do not wrap: 4095 +
3 + 188 is below 65535) and `HandedOver`: a section that is handed over has a
packet to begin with, because it has more bytes than its size, and once a PAT
is handed over PID 0 is disabled. Results: `NeverOverruns`, `TypeCorrect`,
`HandsOverPackets`, and the action property `DisabledForGood`.
What a block contains is compared with the packets that were offered:
`Collects` says that the block holds the useful ones since the last start that
was taken, that `copybytes` is the number of their bytes, and that an element
which is no longer loading has got more than it announced. A packet more
changes `SinceStart`, the fragments and their bytes in a known way
(`SinceStartGrows`, `FragmentsGrow`, `BytesGrow`), whichever of the ways
through `st_packet` it takes. Results: `CountsContents`, `DeliversSinceStart`,
`LoadsUntilFilled`, and `DecodesFirstPayload`: the header that a decoder reads is
that of the first packet with a payload since the last start, in a block of the
length that this start announced. The two belong together exactly if the start
has a payload itself (`HeaderDecoded`); `stale_loading` shows a case in which it
has none. `DecodesStart` is the part of it that the whole program uses.

`HandsOverOffered`, which the printed programs need: a PAT that a decoder is
given is a packet that was offered.

`ListLemmas`. The operators of the community modules that flatten, sort and
filter a sequence are recursive, or choose a sequence, and the induction theorems
of the library take an operator as a parameter. What is needed is proved without
them: `LeastNumber` is well-foundedness of a fixed set of numbers, and
`ByInduction` follows for a *set* of numbers, which a `DEFINE` can name.
`FlattenExists` and `Flattened` give the recursive function of `FlattenSeq` and
its steps, `JoinedAt` says where each part lies in what they are joined
to. `Selected` and `Marked` say what becomes of the elements chosen from a list,
without and with a comma between any two, and `OneOrder` and `Ranked` that a set
of numbers has one ascending sequence and that sorting gives it.

`DropCountProofs`. `TypeOK /\ BeforeIsLastSeen` is inductive: `TypeCorrect`,
`ComparesWithLastSeen`. `CountsExactTheorem` says that the counters are those of
the whole stream. Its invariant, `Summary`, adds to the counts what the element
remembers: the last packet, and that `repeat` is the parity of the number of its
copies just before it, since every second copy is a drop and resets it. A packet
more adds at most its own position to each of the three sets, and the
cardinalities follow. `MarkTheorem` needs the greatest PID in use, which exists because the
PIDs are bounded by 8191 (well-founded induction on a fixed set).

`DropListProofs`. That no counter exceeds the maximum is part of `TypeOK`: a new
node counts nothing, and a counter grows by one and only below the maximum
(`CountedWithinMaximum`). `TypeCorrect` and `NoKeyTwice` come from what `Slot` can be: a
node of the key, a new last one, or the one behind the search limit.
`CountsAreOfKeys` needs that, while the keys fit, a search ends at a node of its
own key, and that the nodes are the keys in the order of their first calls
(`NodesAreKeys`). `KeepsTotals`: the nodes together count every packet, also
behind the search limit, while there are fewer than a counter can hold.

`TSAnalyticsProofs`. Every step of the program is a step of the reassembler or
leaves it alone (`UsesReassembler`), and the same for the checker
(`UsesChecker`, which needs that no element is marked before the loop is over).
So the theorems above hold in the program: `NeverOverruns`,
`ComparesWithLastSeen`, `CountsExactInProgram`, `MarkInProgram`. On top of them:

* `FirstPatIsKept` (a PAT disables its PID, and no PID is enabled again) and
  `TimesCorrect` (the time of an accepted TOT is never the word unknown, so the
  first one is written once);
* `HashesCoverFile` (the digest is the prefix that was read; the tail completes
  it);
* `SyncDetectionExact`, with `RunCounted`: `sync_err_repeat` is the length of the
  run of errors that ends at `p_cnt`, as long as the file is analysed;
* `ImplementsTotList` and `ImplementsPercentList`: the calls that `Keyed`
  computes from the histories do not change when a TOT comes later (`CallsGrow`),
  and the percentage that the code divides for is the one whose bounds hold
  (`PlaceOfPosition`), so that a pass of the loop is one call of `add_drop_list`
  with the right key or none;
* `JudgesEveryPacketOnce`: the checker has seen, PID by PID, the packets of the
  file up to `p_cnt`, or up to the one that ended the analysis (`Judged`). What
  the reassembler was given follows from which PIDs are read: the TOT always, the
  PAT as long as none was read (`Enabling`), on every path through the loop
  (`LoopOffers`), and a packet more is at most one more for it (`GivenGrows`);
* `KeepsToAnalysis`: every step of the program is a step of `Analysis` or none.
  The last step needs all of the above: the exact counts, the exact end of the
  analysis, the hashes, that a PAT which fits into a packet is read when it
  comes (`PatRead`), and that a decoder which leaves its block was given a start
  of the file that is not clean (`DecodesStart`, `OfferedOfFile`);
* `BreakdownsOfSamePackets`: each of the three sums is the number of packets in
  `abnormal` that have the flag, of the PIDs by `PidTotals`, of the lists by
  `KeepsTotals` for the calls of `ImplementsTotList` and `ImplementsPercentList`;
* `TypeCorrect`, the types of all variables. That of `pat` needs that the number
  of programs, which wraps in 16 bits for a section shorter than its header,
  is never beyond what the longest section holds when it is used;
* `ListsAreJson`: the three lists of drops are valid JSON and have an entry for
  every element to be printed, in order. For the PIDs the comma depends on the
  mark at the last element in use, which stands when the report is printed
  (`PrintedAtEnd`); for the two drop lists on the limit of entries;
* `ProgramsOfPat`: the PAT that is printed is one of the file (`PatOfFile`, with
  `HandsOverOffered`), its programs are printed in order without the network,
  and the commas are right except behind a last program that the network follows.

`InputFileProofs`. `SizeIsHashed`: `Measured` counts the bytes hashed by the
passes of the loop. `PromiseIsHashed`: `Promised` says that the file still
begins with what `stat` promised as long as `Kept` holds, `Following` that the
digest and the buffer of the stream, one behind the other, are the beginning of
the file; then `fread` finds all it is asked for. `OverwrittenInputIsLost`: once
the output is open over the input, file, buffer and digest are clean of the old
bytes, and only `Others` add new ones (`Lost`).

`InvocationProofs`. First the loop over the command line by itself.
`LoopTakesLastWords`: the loop looks at a word and the next one, and the
reference at runs of option words, since `-o -o x` is an output called `-o`. The
invariant says that the place of the loop is never a value (`InPlace`) and that
what was taken is the last before it (`Taken`). `LoopReadsForms` is what follows
for the three documented forms, and `LoopTypeCorrect` says that the loop never
looks behind `argv`. Then the two halves together, for the whole program: each
leaves what the other is about alone, so both invariants stay (`Invariance`).
Results: `TypeCorrect`, `FormsAreUnderstood`, `LastWordsWin`, `SizeIsHashed`,
`PromiseIsHashed`, `OverwrittenInputIsLost`, and the action property
`WritesNothingElse`, which needs both: the output that is open is the one the
command line named last.

`DecodersProofs`. `GetBitIsSlice`: the two shifts cut off what is left of the
field and the third what is right of it, for every offset and width that the
eight bytes hold. From it the value of every kind of field follows as arithmetic
on bytes (`Fields`), and with that what the decoders do with sections whose
bytes are anything:

* `ReadsInside`: the loop of `st_pmt` is at a whole byte and ends where
  `section_length` says less 4, so that the five bytes of an entry that begins
  before this end lie in the section;
* `InPlace`: `EitInPlace` says the same of the middle of an event, where
  `loaded_desc` is the sum of its descriptors so far;
* `FreesAllButOne`: `Allocated` is the account of the elements of the lists at
  every step, and within the limits `free_eit` finds all of them
  (`AllEventsFreed`). It needs the types of the lists (`EitTypeOK`), and those
  that every read is of bytes of the block (`ReadInside`);
* `TimesFit`: for every number of 16 bits the formula of `mjd_to_tm` gives a
  year of four digits, a month and a day from 1 to 31 (`DateOfDay`), and for
  every byte `hex_to_digi` gives at most 99, so that a text has 19 characters;
* `KeepsCalendar`: from day to day `mjd_to_tm` goes on as a calendar with the
  months and leap years does, starting from its first day. Its products with
  1461 / 4 and 153 / 5 are written as years and months that begin in March
  (`MarchYear`, `MonthOfDay`), and a day is the next one of the same month, or
  the first of the next month, or of the next year (`DayAfter`);
* `TimesAreRight`: with it the bytes of a TOT of any day, header and clock give
  the date of the calendar and the digits of the clock, and a table that is no
  TOT is refused (`TotIsRead`).

Of undamaged sections it is proved that what is read is what was sent, for
tables of any size that fits into a section:

* `PmtIsExact`. The bytes of a table are joined from parts, and `PlacesExist`
  says where each lies; from this and `Fields`, `PmtRead` gives every field at
  its bit of the block (`PmtLaid`). The invariant, `PmtRight`, says that the
  streams read so far are the first of the table, and that `boff` is where the
  next one begins (`PmtGot`). The loop ends three bytes before the last entry
  does, and none is left over because an entry has at least five;
* `EitIsExact`. The same at two levels: `EitLaid` for the events and `EventLaid`
  for the descriptors of each. `EitRight` follows the decoder through both loops
  (`AtEvent`, `AtDescriptor`): between two events `loaded` is two more than the
  number of the byte that comes next. That is one more than `section_length`
  after the last event and, since an event has at least twelve bytes, less than
  `section_length` before it. The dates are those of the calendar by
  `CalendarIs`, an induction over the days.

Only model-checked is the liveness, `Terminates` and `AnalysisEnds`, since the
provers have no rules for fairness and `ENABLED`; and the five runs above that
find a counterexample, which is what they are for.

## Not modelled

* The CRC polynomial and its table: the result is a free choice that nobody
  reads in the program. The lengths that make `crc32_check` leave a block are
  modelled.
* `descriptor.c`: three fixed fields and a copy, called by nobody.
* `get_pmt_pid` and `free_pat_pids`, called by nobody, and `free_drop_list` at
  the end of the program; the `dump_...` functions, which print for debugging.
* The two bytes behind `service_id` that `sscanf` overwrites (`main.c:45` and
  `47` store an int): which variable they belong to is the compiler's choice.
* Text: indentation, the format of numbers (`%d` of 64-bit counters), texts that
  are constant; results of `fprintf`, which the code does not look at.
* A search in a drop list that gives up (more than 100000 different keys) counts
  into the wrong node; `DropList` models this and `CountsPerKey` says only what
  holds up to one key more than the limit.

## Plan

What is modelled above was planned as: the core (`TSHead` to `TSAnalytics`) and
its invariants; the remaining invariants of the core and the refinements to
`DropList` proved; `Pat` and `Report`; the files and the command line, composed
and proved; the bit reader and the decoders; what is printed, the calendar, and
what is read of undamaged tables, proved. It is done. What is left:

* `InputFile` under `TSAnalytics`: the analysis of the packets that `fread`
  leaves in `buf` of a file that became shorter. Both modules are about one
  file and meet in what `buf` holds.
