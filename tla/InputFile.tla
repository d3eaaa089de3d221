----------------------------- MODULE InputFile ------------------------------
(***************************************************************************)
(* The files of the program: how tsanalytics.c looks up, opens and reads   *)
(* the input, and what the output does to it, while other processes go on  *)
(* working on the same directory.  TSAnalytics is about a file that lies   *)
(* still; this module says when that is so.                                *)
(*                                                                         *)
(* A name denotes a file; a file is a sequence of bytes and keeps existing *)
(* while it is open, whatever becomes of its names.  stat and the opens    *)
(* look the name up each time.  fread goes through the buffer of the       *)
(* stream, which is filled by reads of up to BufferSize bytes.             *)
(*                                                                         *)
(* History variables: promised, the file and its bytes at the time of      *)
(* stat; cut, the files that another process made shorter.                 *)
(***************************************************************************)
EXTENDS Words, Disk, Integers, SequencesExt

VARIABLES
  at,                     \* where the program is
  from_path, out_path,
  filesize,
  fp_in, fp_out,          \* the files that are open
  pos, ahead, eof,        \* the stream of fp_in
  p_cnt,
  buf,                    \* the packet read last
  digest,                 \* the bytes that were hashed
  dir, data,              \* the directory and the files
  promised, cut

path    == <<from_path, out_path>>
stream  == <<pos, ahead, eof>>
opened  == <<fp_in, fp_out>>
reading == <<stream, p_cnt, buf, digest>>
disk    == <<dir, data>>

vars == <<at, path, filesize, opened, reading, disk, promised, cut>>

packet_count_RoundedUp == (filesize + PacketSize - 1) \div PacketSize
packet_count == filesize \div PacketSize
last_bytes   == filesize - packet_count * PacketSize

-----------------------------------------------------------------------------

InitProgram ==
  /\ filesize = 0
  /\ fp_in = NoFile /\ fp_out = NoFile
  /\ pos = 0 /\ ahead = <<>> /\ eof = FALSE
  /\ p_cnt = 0
  /\ buf = [k \in 1 .. PacketSize |-> Stale]
  /\ digest = <<>>
  /\ promised = [inode |-> NoFile, bytes |-> <<>>]
  /\ cut = {}

InitDisk ==
  /\ dir \in [Names -> Inodes \cup {NoFile, NotRegular}]
  /\ data \in [Inodes -> Seq(Bytes)]

Init ==
  /\ at = "stat"
  /\ from_path \in Names
  /\ out_path \in Names \cup {NoName}
  /\ InitProgram
  /\ InitDisk

-----------------------------------------------------------------------------
(* The program.                                                            *)

(* getFileSize.  Only the name is looked at; nothing is opened.            *)
GetFileSize ==
  /\ at = "stat"
  /\ dir[from_path] \in Inodes
  /\ at' = "open input"
  /\ filesize' = Len(data[dir[from_path]])
  /\ promised' = [inode |-> dir[from_path], bytes |-> data[dir[from_path]]]
  /\ UNCHANGED <<path, opened, reading, disk, cut>>

NoInput ==
  /\ at = "stat"
  /\ dir[from_path] \notin Inodes
  /\ at' = "failed"
  /\ UNCHANGED <<path, filesize, opened, reading, disk, promised, cut>>

(* fopen(from_path, "rb"), which may also be refused.                      *)
OpenInput ==
  /\ at = "open input"
  /\ dir[from_path] \in Inodes
  /\ fp_in' = dir[from_path]
  /\ at' = "open output"
  /\ UNCHANGED <<path, filesize, fp_out, reading, disk, promised, cut>>

InputRefused ==
  /\ at = "open input"
  /\ at' = "failed"
  /\ UNCHANGED <<path, filesize, opened, reading, disk, promised, cut>>

(* fopen(out_path, "wb"): the file is emptied at once, or made; "r+b"      *)
(* would leave it as it is.                                                *)
Emptied_Never(bytes) == bytes
Emptied(bytes)       == <<>>

UseStdout ==
  /\ at = "open output"
  /\ out_path = NoName
  /\ fp_out' = Stdout
  /\ at' = "loop"
  /\ UNCHANGED <<path, filesize, fp_in, reading, disk, promised, cut>>

OpenOutput ==
  /\ at = "open output"
  /\ out_path # NoName
  /\ dir[out_path] \in Inodes
  /\ fp_out' = dir[out_path]
  /\ data' = [data EXCEPT ![dir[out_path]] = Emptied(@)]
  /\ at' = "loop"
  /\ UNCHANGED <<path, filesize, fp_in, reading, dir, promised, cut>>

Unnamed == {f \in Inodes : f # fp_in /\ \A name \in Names : dir[name] # f}

CreateOutput ==
  /\ at = "open output"
  /\ out_path # NoName
  /\ dir[out_path] = NoFile
  /\ \E f \in Unnamed :
       /\ fp_out' = f
       /\ dir' = [dir EXCEPT ![out_path] = f]
       /\ data' = [data EXCEPT ![f] = <<>>]
  /\ at' = "loop"
  /\ UNCHANGED <<path, filesize, fp_in, reading, promised, cut>>

OutputRefused ==
  /\ at = "open output"
  /\ out_path # NoName
  /\ at' = "failed"
  /\ UNCHANGED <<path, filesize, opened, reading, disk, promised, cut>>

(* What fread(buf, 1, n, fp_in) finds.  The stream is read again while it  *)
(* gives less than what is wanted, and not any more once it gave nothing.  *)
Smaller(m, n) == IF m < n THEN m ELSE n

Fetched(n) ==
  IF Len(ahead) >= n \/ eof THEN <<>>
  ELSE LET reads == (n - Len(ahead) + BufferSize - 1) \div BufferSize
       IN SubSeq(data[fp_in], pos + 1,
                 Smaller(pos + reads * BufferSize, Len(data[fp_in])))

Available(n) == ahead \o Fetched(n)

Fread(n) ==
  /\ pos' = pos + Len(Fetched(n))
  /\ eof' = (eof \/ Len(Available(n)) < n)
  /\ ahead' = SubSeq(Available(n), n + 1, Len(Available(n)))
  /\ buf' = [k \in 1 .. PacketSize |->
               IF k <= Smaller(n, Len(Available(n))) THEN Available(n)[k]
               ELSE buf[k]]

HashedPart_Whole(n) == buf'
HashedPart(n)       == SubSeq(buf', 1, n)

ReadPacket_TriesAgain ==
  /\ at = "loop"
  /\ p_cnt < packet_count
  /\ Fread(PacketSize)
  /\ IF Len(Available(PacketSize)) < PacketSize THEN UNCHANGED <<p_cnt, digest>>
     ELSE /\ p_cnt' = p_cnt + 1
          /\ digest' = digest \o buf'
  /\ UNCHANGED <<at, path, filesize, opened, disk, promised, cut>>

(* A packet is hashed whole and counted, however much of it was read.      *)
ReadPacket ==
  /\ at = "loop"
  /\ p_cnt < packet_count
  /\ Fread(PacketSize)
  /\ p_cnt' = p_cnt + 1
  /\ digest' = digest \o HashedPart(PacketSize)
  /\ UNCHANGED <<at, path, filesize, opened, disk, promised, cut>>

ReadTail ==
  /\ at = "loop"
  /\ p_cnt = packet_count
  /\ IF last_bytes > 0
     THEN /\ Fread(last_bytes)
          /\ digest' = digest \o HashedPart(last_bytes)
     ELSE UNCHANGED <<stream, buf, digest>>
  /\ at' = "print"
  /\ UNCHANGED <<path, filesize, opened, p_cnt, disk, promised, cut>>

(* The report is written over the beginning of the output.                 *)
PrintReport ==
  /\ at = "print"
  /\ data' = IF fp_out = Stdout THEN data
             ELSE [data EXCEPT ![fp_out] = <<ReportByte>> \o SubSeq(@, 2, Len(@))]
  /\ at' = "done"
  /\ UNCHANGED <<path, filesize, opened, reading, dir, promised, cut>>

Program ==
  \/ GetFileSize
  \/ NoInput
  \/ OpenInput
  \/ InputRefused
  \/ UseStdout
  \/ OpenOutput
  \/ CreateOutput
  \/ OutputRefused
  \/ ReadPacket
  \/ ReadTail
  \/ PrintReport

-----------------------------------------------------------------------------
(* The other processes.                                                    *)

Ended == at \in {"done", "failed", "usage"}

OnDisk == UNCHANGED <<at, path, filesize, opened, reading, promised>>

(* A recorder goes on writing to a file.                                   *)
Record(f, byte) ==
  /\ data' = [data EXCEPT ![f] = Append(@, byte)]
  /\ UNCHANGED <<dir, cut>>
  /\ OnDisk

(* A file is made shorter.                                                 *)
Shorten(f, length) ==
  /\ length < Len(data[f])
  /\ data' = [data EXCEPT ![f] = SubSeq(@, 1, length)]
  /\ cut' = cut \cup {f}
  /\ UNCHANGED dir
  /\ OnDisk

(* A name is removed, or a file is moved to it.                            *)
Rename(name, f) ==
  /\ dir' = [dir EXCEPT ![name] = f]
  /\ UNCHANGED <<data, cut>>
  /\ OnDisk

Others ==
  /\ ~Ended
  /\ \/ \E f \in Inodes, byte \in NewBytes : Record(f, byte)
     \/ \E f \in Inodes : \E length \in 0 .. Len(data[f]) : Shorten(f, length)
     \/ \E name \in Names, f \in Inodes \cup {NoFile} : Rename(name, f)

Next == Program \/ Others

(* One thread that waits for nobody; the others owe it nothing.            *)
Spec == Init /\ [][Next]_vars /\ WF_vars(Program)

-----------------------------------------------------------------------------

OnDiskByte == Bytes \cup NewBytes \cup {ReportByte}

(***************************************************************************)
(* The variables have the types of the program's.                          *)
(***************************************************************************)
InputFileTypeOK ==
  /\ filesize \in Nat /\ pos \in Nat /\ p_cnt \in 0 .. packet_count
  /\ fp_in \in Inodes \cup {NoFile}
  /\ fp_out \in Inodes \cup {NoFile, Stdout}
  /\ eof \in BOOLEAN
  /\ ahead \in Seq(OnDiskByte)
  /\ buf \in [1 .. PacketSize -> OnDiskByte \cup {Stale}]
  /\ digest \in Seq(OnDiskByte \cup {Stale})
  /\ dir \in [Names -> Inodes \cup {NoFile, NotRegular}]
  /\ data \in [Inodes -> Seq(OnDiskByte)]

(***************************************************************************)
(* Whatever others do to the file, the hashes cover as many bytes as the   *)
(* report gives as its size, even if they were never in the file.          *)
(***************************************************************************)
HashedAsLongAsSize == at \in {"print", "done"} => Len(digest) = filesize

(* Nobody took the bytes away that stat promised.                          *)
Kept == promised.inode = fp_in /\ fp_in # fp_out /\ fp_in \notin cut

(***************************************************************************)
(* A recording that goes on while it is analysed, and a file that loses    *)
(* its name, are hashed as they were when the program looked at their      *)
(* size, byte for byte, if stat and fopen met the same file, nobody made   *)
(* it shorter and it is not the output as well.                            *)
(***************************************************************************)
HashedAsPromised ==
  at \in {"print", "done"} /\ Kept => digest = promised.bytes

(***************************************************************************)
(* With the input as the output, under whatever name, no byte that was in  *)
(* it is hashed: only what others added after that, and stale bytes.       *)
(* README.md promises the hashes of the input.                             *)
(***************************************************************************)
OwnOutputIsLost == fp_in = fp_out => Range(digest) \cap Bytes = {}
=============================================================================
