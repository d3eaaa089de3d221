-------------------------- MODULE InputFileProofs ---------------------------
(***************************************************************************)
(* What the hashes are of, for files of every length, packets and buffers  *)
(* of every size, and whatever other processes do at any moment: as many   *)
(* bytes as stat found; the bytes stat found, if nobody took them away;    *)
(* and none of them, if the output is the input.                           *)
(***************************************************************************)
EXTENDS InputFile, SequenceTheorems, TLAPS

Reading == {"loop", "print", "done"}

Byte == OnDiskByte \cup {Stale}

(* Nothing is read before the loop, and no output is open.                 *)
AtStart ==
  at \notin Reading =>
    /\ pos = 0 /\ ahead = <<>> /\ eof = FALSE
    /\ p_cnt = 0 /\ digest = <<>>
    /\ fp_out = NoFile

(* Both files are open in the loop, and the input just before it.          *)
HasFiles ==
  /\ at \in Reading \cup {"open output"} => fp_in \in Inodes
  /\ at \in Reading => fp_out \in Inodes \cup {Stdout}

(* One packet of bytes is hashed for each pass of the loop.                *)
Measured ==
  /\ at = "loop" => Len(digest) = p_cnt * PacketSize
  /\ at \in {"print", "done"} => Len(digest) = filesize

InputFileInv ==
  /\ InputFileTypeOK
  /\ AtStart
  /\ HasFiles
  /\ Measured

-----------------------------------------------------------------------------
(* Numbers.                                                                *)

(* The tail is shorter than a packet, and what is left in the loop is at   *)
(* least a packet or the tail.                                             *)
LEMMA Division ==
  ASSUME filesize \in Nat
  PROVE  /\ packet_count \in Nat
         /\ last_bytes \in 0 .. PacketSize - 1
         /\ filesize = packet_count * PacketSize + last_bytes
<1>. DEFINE n == PacketSize
<1>1. n \in Nat \ {0}
  BY DiskAssumption
<1>2. \A a \in Nat, b \in Nat \ {0} : a \div b \in Nat /\ a = b * (a \div b) + (a % b)
                                     /\ a % b \in 0 .. b - 1
  OBVIOUS
<1>3. \A a \in Nat, b \in Nat \ {0} : a - (a \div b) * b \in 0 .. b - 1
  <2>1. \A q \in Nat, b \in Nat : b * q = q * b
    OBVIOUS
  <2>. QED
    BY <1>2, <2>1
<1>4. packet_count \in Nat
  BY <1>1, <1>2 DEF packet_count
<1>5. last_bytes \in 0 .. PacketSize - 1
  BY <1>1, <1>3 DEF packet_count, last_bytes
<1>6. packet_count * PacketSize \in Nat
  BY <1>1, <1>4
<1>7. last_bytes = filesize - packet_count * PacketSize
  BY DEF last_bytes
<1>. QED
  BY <1>4, <1>5, <1>6, <1>7

(* The count of packets starts in its range.                               *)
LEMMA FirstPacket == \A n \in Nat : 0 \in 0 .. n
OBVIOUS

(* A whole packet more is still in the file.                               *)
LEMMA RoomForPacket ==
  ASSUME NEW k \in Nat, NEW m \in Nat, k < m, NEW n \in Nat
  PROVE  k * n + n <= m * n /\ (k + 1) * n = k * n + n
<1>1. (k + 1) * n = k * n + n
  OBVIOUS
<1>2. m = (k + 1) + (m - (k + 1)) /\ m - (k + 1) \in Nat
  OBVIOUS
<1>3. \A x \in Nat, y \in Nat : (x + y) * n = x * n + y * n /\ y * n \in Nat
  OBVIOUS
<1>4. m * n = (k + 1) * n + (m - (k + 1)) * n /\ (m - (k + 1)) * n \in Nat
  BY <1>2, <1>3
<1>. QED
  BY <1>1, <1>4

(* A number of buffers that holds what is missing.                         *)
LEMMA Rounded ==
  ASSUME NEW x \in Nat \ {0}, NEW b \in Nat \ {0}
  PROVE  ((x + b - 1) \div b) * b >= x /\ ((x + b - 1) \div b) * b \in Nat
<1>. DEFINE y == x + b - 1
            q == y \div b
<1>1. y \in Nat /\ q \in Nat /\ y = b * q + (y % b) /\ y % b \in 0 .. b - 1
  OBVIOUS
<1>2. q * b = b * q /\ q * b \in Nat
  BY <1>1
<1>. QED
  BY <1>1, <1>2

-----------------------------------------------------------------------------
(* The stream.                                                             *)

(* A sequence cut out of another one, byte by byte.                        *)
LEMMA Cut ==
  ASSUME NEW S, NEW s \in Seq(S), NEW m \in Nat \ {0}, NEW n \in Nat, n <= Len(s)
  PROVE  /\ SubSeq(s, m, n) \in Seq(S)
         /\ Len(SubSeq(s, m, n)) = IF m <= n THEN n - m + 1 ELSE 0
         /\ \A k \in 1 .. Len(SubSeq(s, m, n)) : SubSeq(s, m, n)[k] = s[m + k - 1]
<1>1. \A k \in m .. n : s[k] \in S
  BY ElementOfSeq
<1>2. m \in Int /\ n \in Int
  OBVIOUS
<1>. QED
  BY <1>1, <1>2, SubSeqProperties

(* fread takes bytes of the file, however it is changed, and none that     *)
(* are not in it.                                                          *)
LEMMA FetchedBytes ==
  ASSUME InputFileTypeOK, fp_in \in Inodes, NEW n \in Nat
  PROVE  LET D == data[fp_in]
             F == Fetched(n)
         IN /\ F \in Seq(OnDiskByte)
            /\ \A k \in 1 .. Len(F) : F[k] = D[pos + k]
            /\ F # <<>> => pos + Len(F) <= Len(D)
<1>. DEFINE D == data[fp_in]
            reads == (n - Len(ahead) + BufferSize - 1) \div BufferSize
            m == Smaller(pos + reads * BufferSize, Len(D))
<1>1. D \in Seq(OnDiskByte) /\ pos \in Nat /\ ahead \in Seq(OnDiskByte)
  BY DEF InputFileTypeOK
<1>2. CASE Len(ahead) >= n \/ eof
  <2>1. Fetched(n) = <<>>
    BY <1>2 DEF Fetched
  <2>. QED
    BY <2>1, EmptySeq
<1>3. CASE ~(Len(ahead) >= n \/ eof)
  <2>1. n - Len(ahead) \in Nat \ {0}
    BY <1>1, <1>3
  <2>2. reads * BufferSize \in Nat
    BY <2>1, Rounded, DiskAssumption
  <2>3. m \in Nat /\ m <= Len(D)
    BY <1>1, <2>2 DEF Smaller
  <2>4. Fetched(n) = SubSeq(D, pos + 1, m)
    BY <1>3 DEF Fetched
  <2>5. pos + 1 \in Nat \ {0}
    BY <1>1
  <2>. HIDE DEF D, m
  <2>6. /\ SubSeq(D, pos + 1, m) \in Seq(OnDiskByte)
        /\ Len(SubSeq(D, pos + 1, m)) = IF pos + 1 <= m THEN m - (pos + 1) + 1 ELSE 0
        /\ \A k \in 1 .. Len(SubSeq(D, pos + 1, m)) :
             SubSeq(D, pos + 1, m)[k] = D[pos + 1 + k - 1]
    BY <1>1, <2>3, <2>5, Cut
  <2>7. Len(D) \in Nat
    BY <1>1
  <2>8. SubSeq(D, pos + 1, m) # <<>> => Len(SubSeq(D, pos + 1, m)) # 0
    BY <2>6, EmptySeq
  <2>9. \A k \in 1 .. Len(SubSeq(D, pos + 1, m)) : pos + 1 + k - 1 = pos + k
    BY <1>1
  <2>10. SubSeq(D, pos + 1, m) = <<>> \/ pos + Len(SubSeq(D, pos + 1, m)) <= Len(D)
    BY <1>1, <2>3, <2>6, <2>7, <2>8
  <2>11. \A k \in 1 .. Len(SubSeq(D, pos + 1, m)) :
           SubSeq(D, pos + 1, m)[k] = D[pos + k]
    BY <2>6, <2>9
  <2>. QED
    BY <2>4, <2>6, <2>10, <2>11 DEF D
<1>. QED
  BY <1>2, <1>3

(* What fread finds is bytes of files.                                     *)
LEMMA AvailableBytes ==
  ASSUME InputFileTypeOK, fp_in \in Inodes, NEW n \in Nat
  PROVE  /\ Available(n) \in Seq(OnDiskByte)
         /\ Len(Available(n)) = Len(ahead) + Len(Fetched(n))
         /\ Len(Available(n)) \in Nat
<1>1. Fetched(n) \in Seq(OnDiskByte)
  BY FetchedBytes
<1>2. ahead \in Seq(OnDiskByte)
  BY DEF InputFileTypeOK
<1>. QED
  BY <1>1, <1>2, ConcatProperties, LenProperties DEF Available

(* A call of fread for n bytes leaves n of them to hash: those it read     *)
(* and, behind them, what was in buf before.                               *)
LEMMA AfterFread ==
  ASSUME InputFileTypeOK, fp_in \in Inodes, NEW n \in 1 .. PacketSize, Fread(n)
  PROVE  /\ pos' \in Nat /\ eof' \in BOOLEAN
         /\ ahead' \in Seq(OnDiskByte)
         /\ Len(ahead') = IF n <= Len(Available(n)) THEN Len(Available(n)) - n ELSE 0
         /\ \A k \in 1 .. Len(ahead') : ahead'[k] = Available(n)[n + k]
         /\ buf' \in [1 .. PacketSize -> Byte]
         /\ HashedPart(n) \in Seq(Byte)
         /\ Len(HashedPart(n)) = n
         /\ \A k \in 1 .. n :
              HashedPart(n)[k] = IF k <= Len(Available(n)) THEN Available(n)[k]
                                 ELSE buf[k]
         /\ \A k \in 1 .. PacketSize :
              buf'[k] = IF k <= n /\ k <= Len(Available(n)) THEN Available(n)[k]
                        ELSE buf[k]
<1>. DEFINE Av == Available(n)
<1>1. Av \in Seq(OnDiskByte) /\ Len(Av) \in Nat
  BY AvailableBytes
<1>2. n \in Nat /\ n + 1 \in Nat \ {0} /\ n <= PacketSize /\ PacketSize \in Nat
  BY DiskAssumption
<1>3. Len(Fetched(n)) \in Nat
  BY <1>2, FetchedBytes, LenProperties
<1>4. pos' \in Nat /\ eof' \in BOOLEAN
  <2>1. pos \in Nat /\ eof \in BOOLEAN
    BY DEF InputFileTypeOK
  <2>2. pos' \in Nat
    BY <2>1, <1>3 DEF Fread
  <2>3. eof' \in BOOLEAN
    BY <2>1, Zenon DEF Fread
  <2>. QED
    BY <2>2, <2>3
<1>5. /\ ahead' = SubSeq(Av, n + 1, Len(Av))
      /\ buf' = [k \in 1 .. PacketSize |->
                   IF k <= Smaller(n, Len(Av)) THEN Av[k] ELSE buf[k]]
  BY DEF Fread
<1>. HIDE DEF Av
<1>6. /\ ahead' \in Seq(OnDiskByte)
      /\ Len(ahead') = IF n + 1 <= Len(Av) THEN Len(Av) - (n + 1) + 1 ELSE 0
      /\ \A k \in 1 .. Len(ahead') : ahead'[k] = Av[n + 1 + k - 1]
  BY <1>1, <1>2, <1>5, Cut
<1>7. \A k : k \in Nat => (k <= Smaller(n, Len(Av)) <=> k <= n /\ k <= Len(Av))
  BY <1>1, <1>2 DEF Smaller
<1>8. \A k \in 1 .. PacketSize :
        buf'[k] = IF k <= n /\ k <= Len(Av) THEN Av[k] ELSE buf[k]
  BY <1>5, <1>7
<1>9. \A k \in 1 .. PacketSize : buf'[k] \in Byte
  <2>1. \A k \in 1 .. PacketSize : buf[k] \in Byte
    BY DEF InputFileTypeOK, Byte
  <2>2. \A k \in 1 .. Len(Av) : Av[k] \in Byte
    BY <1>1, ElementOfSeq DEF Byte
  <2>. QED
    BY <1>8, <2>1, <2>2, <1>1, <1>2
<1>10. buf' \in [1 .. PacketSize -> Byte]
  BY <1>5, <1>9
<1>11. buf' \in Seq(Byte) /\ Len(buf') = PacketSize
  BY <1>10, <1>2
<1>12. /\ SubSeq(buf', 1, n) \in Seq(Byte)
       /\ Len(SubSeq(buf', 1, n)) = IF 1 <= n THEN n - 1 + 1 ELSE 0
       /\ \A k \in 1 .. Len(SubSeq(buf', 1, n)) : SubSeq(buf', 1, n)[k] = buf'[1 + k - 1]
  BY <1>11, <1>2, Cut
<1>13. /\ HashedPart(n) \in Seq(Byte) /\ Len(HashedPart(n)) = n
       /\ \A k \in 1 .. n : HashedPart(n)[k] = buf'[k]
  BY <1>12, <1>2 DEF HashedPart
<1>14. \A k \in 1 .. n :
         HashedPart(n)[k] = IF k <= Len(Av) THEN Av[k] ELSE buf[k]
  BY <1>8, <1>13, <1>2
<1>15. Len(ahead') = IF n <= Len(Av) THEN Len(Av) - n ELSE 0
  BY <1>6, <1>1, <1>2
<1>16. \A k \in 1 .. Len(ahead') : ahead'[k] = Av[n + k]
  BY <1>6, <1>1, <1>2
<1>. QED
  BY <1>4, <1>6, <1>8, <1>10, <1>13, <1>14, <1>15, <1>16 DEF Av

-----------------------------------------------------------------------------
(* The invariant.                                                          *)

(* Before anything is read.                                                *)
LEMMA InputFileStarts == InitProgram /\ InitDisk /\ at \notin Reading \cup {"open output"}
                           => InputFileInv
<1>. SUFFICES ASSUME InitProgram, InitDisk, at \notin Reading \cup {"open output"}
              PROVE  InputFileInv
  OBVIOUS
<1>1. filesize \in Nat /\ p_cnt = 0
  BY DEF InitProgram
<1>2. packet_count \in Nat
  BY <1>1, Division
<1>3. data \in [Inodes -> Seq(OnDiskByte)]
  <2>1. \A f \in Inodes : data[f] \in Seq(OnDiskByte)
    BY SeqMonotonic DEF InitDisk, OnDiskByte
  <2>. QED
    BY <2>1 DEF InitDisk
<1>4. ahead \in Seq(OnDiskByte) /\ digest \in Seq(Byte)
  BY EmptySeq DEF InitProgram
<1>5. buf \in [1 .. PacketSize -> Byte]
  BY DEF InitProgram, Byte
<1>6. /\ pos = 0 /\ eof = FALSE /\ p_cnt \in 0 .. packet_count
      /\ fp_in = NoFile /\ fp_out = NoFile
      /\ dir \in [Names -> Inodes \cup {NoFile, NotRegular}]
  <2>1. p_cnt \in 0 .. packet_count
    BY <1>1, <1>2, FirstPacket
  <2>. QED
    BY <2>1 DEF InitProgram, InitDisk
<1>7. InputFileTypeOK
  BY <1>1, <1>3, <1>4, <1>5, <1>6 DEF InputFileTypeOK, Byte
<1>8. AtStart /\ HasFiles /\ Measured
  BY DEF AtStart, HasFiles, Measured, InitProgram, Reading
<1>. QED
  BY <1>7, <1>8 DEF InputFileInv

(* A pass of the loop hashes one packet more.                              *)
LEMMA ReadPacketKeepsInv == InputFileInv /\ ReadPacket => InputFileInv'
<1>. SUFFICES ASSUME InputFileInv, ReadPacket PROVE InputFileInv'
  OBVIOUS
<1>. USE DEF InputFileInv
<1>1. fp_in \in Inodes /\ fp_out \in Inodes \cup {Stdout}
  BY DEF HasFiles, ReadPacket, Reading
<1>2. PacketSize \in 1 .. PacketSize
  BY DiskAssumption
<1>3. Fread(PacketSize)
  BY DEF ReadPacket
<1>4. /\ pos' \in Nat /\ eof' \in BOOLEAN
      /\ ahead' \in Seq(OnDiskByte)
      /\ buf' \in [1 .. PacketSize -> Byte]
      /\ HashedPart(PacketSize) \in Seq(Byte)
      /\ Len(HashedPart(PacketSize)) = PacketSize
  BY <1>1, <1>2, <1>3, AfterFread
<1>5. digest \in Seq(Byte)
  BY DEF InputFileTypeOK, Byte
<1>6. digest' = digest \o HashedPart(PacketSize)
  BY DEF ReadPacket
<1>7. digest' \in Seq(Byte) /\ Len(digest') = Len(digest) + PacketSize
  BY <1>4, <1>5, <1>6, ConcatProperties
<1>8. filesize \in Nat /\ p_cnt \in Nat /\ packet_count \in Nat /\ p_cnt < packet_count
  BY Division DEF InputFileTypeOK, ReadPacket
<1>9. filesize' = filesize /\ packet_count' = packet_count /\ p_cnt' = p_cnt + 1
  BY DEF ReadPacket, packet_count
<1>10. p_cnt' \in 0 .. packet_count'
  BY <1>8, <1>9
<1>11. InputFileTypeOK'
  BY <1>4, <1>7, <1>8, <1>9, <1>10
     DEF InputFileTypeOK, ReadPacket, opened, disk, Byte
<1>12. AtStart' /\ HasFiles'
  BY <1>1 DEF ReadPacket, opened, AtStart, HasFiles, Reading
<1>13. Measured'
  <2>1. at = "loop" /\ at' = "loop"
    BY DEF ReadPacket
  <2>2. Len(digest) = p_cnt * PacketSize
    BY <2>1 DEF Measured
  <2>3. (p_cnt + 1) * PacketSize = p_cnt * PacketSize + PacketSize
    BY <1>8, RoomForPacket, DiskAssumption
  <2>. QED
    BY <2>1, <2>2, <2>3, <1>7, <1>9 DEF Measured
<1>. QED
  BY <1>11, <1>12, <1>13

(* The tail is what is missing to the size of the file.                    *)
LEMMA ReadTailKeepsInv == InputFileInv /\ ReadTail => InputFileInv'
<1>. SUFFICES ASSUME InputFileInv, ReadTail PROVE InputFileInv'
  OBVIOUS
<1>. USE DEF InputFileInv
<1>1. fp_in \in Inodes /\ fp_out \in Inodes \cup {Stdout}
  BY DEF HasFiles, ReadTail, Reading
<1>2. /\ at = "loop" /\ at' = "print" /\ p_cnt = packet_count
      /\ filesize' = filesize /\ p_cnt' = p_cnt
      /\ fp_in' = fp_in /\ fp_out' = fp_out /\ dir' = dir /\ data' = data
  BY DEF ReadTail, opened, disk
<1>3. Len(digest) = packet_count * PacketSize /\ packet_count' = packet_count
  BY <1>2 DEF Measured, packet_count
<1>4. /\ filesize \in Nat
      /\ filesize = packet_count * PacketSize + last_bytes
      /\ last_bytes \in 0 .. PacketSize - 1
  BY Division DEF InputFileTypeOK
<1>5. digest \in Seq(Byte)
  BY DEF InputFileTypeOK, Byte
<1>6. /\ pos' \in Nat /\ eof' \in BOOLEAN
      /\ ahead' \in Seq(OnDiskByte)
      /\ buf' \in [1 .. PacketSize -> Byte]
      /\ digest' \in Seq(Byte)
      /\ Len(digest') = Len(digest) + last_bytes
  <2>1. CASE last_bytes > 0
    <3>1. last_bytes \in 1 .. PacketSize
      BY <1>4, <2>1, DiskAssumption
    <3>2. Fread(last_bytes) /\ digest' = digest \o HashedPart(last_bytes)
      BY <2>1 DEF ReadTail
    <3>3. /\ pos' \in Nat /\ eof' \in BOOLEAN
          /\ ahead' \in Seq(OnDiskByte)
          /\ buf' \in [1 .. PacketSize -> Byte]
          /\ HashedPart(last_bytes) \in Seq(Byte)
          /\ Len(HashedPart(last_bytes)) = last_bytes
      BY <1>1, <3>1, <3>2, AfterFread
    <3>4. digest' \in Seq(Byte) /\ Len(digest') = Len(digest) + last_bytes
      BY <1>5, <3>2, <3>3, ConcatProperties
    <3>. QED
      BY <3>3, <3>4
  <2>2. CASE ~(last_bytes > 0)
    <3>1. /\ pos' = pos /\ eof' = eof /\ ahead' = ahead /\ buf' = buf
          /\ digest' = digest
      BY <2>2 DEF ReadTail, stream
    <3>2. last_bytes = 0 /\ Len(digest) \in Nat
      BY <1>4, <1>5, <2>2, DiskAssumption
    <3>. QED
      BY <3>1, <3>2 DEF InputFileTypeOK, Byte
  <2>. QED
    BY <2>1, <2>2
<1>7. InputFileTypeOK'
  BY <1>2, <1>3, <1>6 DEF InputFileTypeOK, Byte
<1>8. AtStart' /\ HasFiles'
  BY <1>1, <1>2 DEF AtStart, HasFiles, Reading
<1>9. Measured'
  BY <1>2, <1>3, <1>4, <1>6 DEF Measured
<1>. QED
  BY <1>7, <1>8, <1>9

(* A step that leaves the stream and the hashes alone.                     *)
LEMMA StillMeasured ==
  ASSUME InputFileInv, UNCHANGED <<filesize, reading>>,
         fp_in' \in Inodes \cup {NoFile},
         fp_out' \in Inodes \cup {NoFile, Stdout},
         dir' \in [Names -> Inodes \cup {NoFile, NotRegular}],
         data' \in [Inodes -> Seq(OnDiskByte)],
         AtStart', HasFiles',
         at' = at \/ at' \notin Reading \/ (at \notin Reading /\ at' = "loop")
           \/ (at = "print" /\ at' = "done")
  PROVE  InputFileInv'
<1>1. packet_count' = packet_count
  BY DEF packet_count
<1>2. InputFileTypeOK'
  BY <1>1 DEF InputFileInv, InputFileTypeOK, reading, stream
<1>3. at \notin Reading => Len(digest) = 0 * PacketSize /\ p_cnt = 0
  BY EmptySeq, DiskAssumption DEF InputFileInv, AtStart
<1>4. Measured'
  BY <1>3 DEF InputFileInv, Measured, Reading, reading
<1>. QED
  BY <1>2, <1>4 DEF InputFileInv

(* The other steps of the program.                                         *)
LEMMA ProgramKeepsInv == InputFileInv /\ Program => InputFileInv'
<1>. SUFFICES ASSUME InputFileInv, Program PROVE InputFileInv'
  OBVIOUS
<1>. USE DEF InputFileInv, Reading, opened, disk
<1>0. /\ fp_in \in Inodes \cup {NoFile} /\ fp_out \in Inodes \cup {NoFile, Stdout}
      /\ dir \in [Names -> Inodes \cup {NoFile, NotRegular}]
      /\ data \in [Inodes -> Seq(OnDiskByte)]
  BY DEF InputFileTypeOK
<1>1. CASE GetFileSize
  <2>1. filesize' \in Nat /\ packet_count' \in Nat
    <3>1. filesize' \in Nat
      BY <1>0, <1>1, LenProperties DEF GetFileSize
    <3>2. \A n \in Nat : n \div PacketSize \in Nat
      BY DiskAssumption
    <3>. QED
      BY <3>1, <3>2 DEF packet_count
  <2>2. p_cnt' \in 0 .. packet_count'
    <3>1. p_cnt' = 0
      BY <1>1 DEF GetFileSize, AtStart, reading
    <3>. QED
      BY <2>1, <3>1
  <2>3. InputFileTypeOK'
    <3>1. /\ UNCHANGED <<pos, ahead, eof, buf, digest, fp_in, fp_out, dir, data>>
      BY <1>1 DEF GetFileSize, reading, stream
    <3>. QED
      BY <2>1, <2>2, <3>1 DEF InputFileTypeOK
  <2>4. AtStart' /\ HasFiles' /\ Measured'
    BY <1>1 DEF GetFileSize, AtStart, HasFiles, Measured, reading, stream
  <2>. QED
    BY <2>3, <2>4
<1>2. CASE NoInput \/ InputRefused \/ OutputRefused
  <2>1. AtStart' /\ HasFiles'
    BY <1>2 DEF NoInput, InputRefused, OutputRefused, AtStart, HasFiles, reading, stream
  <2>. QED
    BY <1>0, <1>2, <2>1, StillMeasured DEF NoInput, InputRefused, OutputRefused
<1>3. CASE OpenInput
  <2>1. AtStart' /\ HasFiles'
    BY <1>3 DEF OpenInput, AtStart, HasFiles, reading, stream
  <2>. QED
    BY <1>0, <1>3, <2>1, StillMeasured DEF OpenInput
<1>4. CASE UseStdout
  <2>1. AtStart' /\ HasFiles'
    BY <1>4 DEF UseStdout, AtStart, HasFiles, reading, stream
  <2>. QED
    BY <1>0, <1>4, <2>1, StillMeasured DEF UseStdout
<1>5. CASE OpenOutput
  <2>1. AtStart' /\ HasFiles'
    BY <1>5 DEF OpenOutput, AtStart, HasFiles, reading, stream
  <2>2. data' \in [Inodes -> Seq(OnDiskByte)]
    BY <1>0, <1>5, EmptySeq DEF OpenOutput, Emptied
  <2>3. fp_out' \in Inodes /\ UNCHANGED <<filesize, reading, fp_in, dir>> /\ at' = "loop"
        /\ at = "open output"
    BY <1>5 DEF OpenOutput
  <2>. QED
    BY <1>0, <2>1, <2>2, <2>3, StillMeasured
<1>6. CASE CreateOutput
  <2>1. PICK f \in Unnamed : /\ fp_out' = f
                             /\ dir' = [dir EXCEPT ![out_path] = f]
                             /\ data' = [data EXCEPT ![f] = <<>>]
    BY <1>6 DEF CreateOutput
  <2>2. f \in Inodes
    BY DEF Unnamed
  <2>3. UNCHANGED <<filesize, reading, fp_in>> /\ at' = "loop" /\ at = "open output"
    BY <1>6 DEF CreateOutput
  <2>4. AtStart' /\ HasFiles'
    BY <2>1, <2>2, <2>3 DEF AtStart, HasFiles, reading, stream
  <2>5. data' \in [Inodes -> Seq(OnDiskByte)]
    BY <1>0, <2>1, EmptySeq
  <2>6. dir' \in [Names -> Inodes \cup {NoFile, NotRegular}]
    BY <1>0, <2>1, <2>2
  <2>. QED
    BY <1>0, <2>1, <2>2, <2>3, <2>4, <2>5, <2>6, StillMeasured
<1>7. CASE PrintReport
  <2>1. AtStart' /\ HasFiles'
    BY <1>7 DEF PrintReport, AtStart, HasFiles, reading, stream
  <2>2. data' \in [Inodes -> Seq(OnDiskByte)]
    <3>1. \A s \in Seq(OnDiskByte) : <<ReportByte>> \o SubSeq(s, 2, Len(s)) \in Seq(OnDiskByte)
      <4>1. <<ReportByte>> \in Seq(OnDiskByte)
        BY DEF OnDiskByte
      <4>2. ASSUME NEW s \in Seq(OnDiskByte)
            PROVE  SubSeq(s, 2, Len(s)) \in Seq(OnDiskByte)
        BY Cut, LenProperties
      <4>. QED
        BY <4>1, <4>2, ConcatProperties
    <3>. QED
      BY <1>0, <1>7, <3>1 DEF PrintReport
  <2>3. UNCHANGED <<filesize, reading, fp_in, fp_out, dir>> /\ at' = "done" /\ at = "print"
    BY <1>7 DEF PrintReport
  <2>. QED
    BY <1>0, <2>1, <2>2, <2>3, StillMeasured
<1>. QED
  BY <1>1, <1>2, <1>3, <1>4, <1>5, <1>6, <1>7, ReadPacketKeepsInv, ReadTailKeepsInv
     DEF Program

(* Other processes change only what is on the disk.                        *)
LEMMA OthersKeepInv == InputFileInv /\ Others => InputFileInv'
<1>. SUFFICES ASSUME InputFileInv, Others PROVE InputFileInv'
  OBVIOUS
<1>1. /\ fp_in \in Inodes \cup {NoFile} /\ fp_out \in Inodes \cup {NoFile, Stdout}
      /\ dir \in [Names -> Inodes \cup {NoFile, NotRegular}]
      /\ data \in [Inodes -> Seq(OnDiskByte)]
  BY DEF InputFileInv, InputFileTypeOK
<1>2. /\ data' \in [Inodes -> Seq(OnDiskByte)]
      /\ dir' \in [Names -> Inodes \cup {NoFile, NotRegular}]
      /\ OnDisk
  <2>1. ASSUME NEW f \in Inodes, NEW byte \in NewBytes, Record(f, byte)
        PROVE  data' \in [Inodes -> Seq(OnDiskByte)] /\ dir' = dir /\ OnDisk
    <3>1. Append(data[f], byte) \in Seq(OnDiskByte)
      BY <1>1, AppendProperties DEF OnDiskByte
    <3>. QED
      BY <1>1, <2>1, <3>1 DEF Record
  <2>2. ASSUME NEW f \in Inodes, NEW length \in 0 .. Len(data[f]), Shorten(f, length)
        PROVE  data' \in [Inodes -> Seq(OnDiskByte)] /\ dir' = dir /\ OnDisk
    <3>1. data[f] \in Seq(OnDiskByte) /\ length \in Nat /\ length <= Len(data[f])
      BY <1>1, LenProperties
    <3>2. SubSeq(data[f], 1, length) \in Seq(OnDiskByte)
      BY <3>1, Cut
    <3>. QED
      BY <1>1, <2>2, <3>2 DEF Shorten
  <2>3. ASSUME NEW name \in Names, NEW f \in Inodes \cup {NoFile}, Rename(name, f)
        PROVE  data' = data /\ OnDisk
               /\ dir' \in [Names -> Inodes \cup {NoFile, NotRegular}]
    BY <1>1, <2>3 DEF Rename
  <2>. QED
    BY <1>1, <2>1, <2>2, <2>3 DEF Others
<1>3. AtStart' /\ HasFiles'
  BY <1>2 DEF OnDisk, opened, reading, stream, AtStart, HasFiles, InputFileInv
<1>. QED
  BY <1>1, <1>2, <1>3, StillMeasured DEF OnDisk, opened

(* The invariant holds from the beginning on.                              *)
THEOREM Invariance == Spec => []InputFileInv
<1>1. Init => InputFileInv
  BY InputFileStarts DEF Init, Reading
<1>2. InputFileInv /\ UNCHANGED vars => InputFileInv'
  <2>. SUFFICES ASSUME InputFileInv, UNCHANGED vars PROVE InputFileInv'
    OBVIOUS
  <2>1. /\ UNCHANGED <<filesize, reading, at>>
        /\ fp_in' = fp_in /\ fp_out' = fp_out /\ dir' = dir /\ data' = data
    BY DEF vars, opened, disk
  <2>2. AtStart' /\ HasFiles'
    BY <2>1 DEF AtStart, HasFiles, InputFileInv, reading, stream
  <2>. QED
    BY <2>1, <2>2, StillMeasured DEF InputFileInv, InputFileTypeOK
<1>3. InputFileInv /\ [Next]_vars => InputFileInv'
  BY <1>2, ProgramKeepsInv, OthersKeepInv DEF Next
<1>. QED
  BY <1>1, <1>3, PTL DEF Spec

(***************************************************************************)
(* The report gives the size of what was hashed, whatever becomes of the   *)
(* file meanwhile: no byte less if it is made shorter, no byte more if a   *)
(* recorder goes on.                                                       *)
(***************************************************************************)
THEOREM SizeIsHashed == Spec => []HashedAsLongAsSize
<1>1. InputFileInv => HashedAsLongAsSize
  BY DEF InputFileInv, Measured, HashedAsLongAsSize
<1>. QED
  BY <1>1, Invariance, PTL

-----------------------------------------------------------------------------
(* What is hashed of a file that nobody takes bytes from.                  *)

(* stat and, if the name still denoted the same file, fopen met it.  While *)
(* nobody makes it shorter and the output is another file, it begins with  *)
(* the bytes that it had then.                                             *)
Measuring == at \in Reading \cup {"open input", "open output"}

Begins(D, bytes) ==
  Len(bytes) <= Len(D) /\ \A k \in 1 .. Len(bytes) : D[k] = bytes[k]

Promised ==
  Measuring =>
    /\ promised.inode \in Inodes
    /\ promised.bytes \in Seq(OnDiskByte)
    /\ Len(promised.bytes) = filesize
    /\ promised.inode \notin cut /\ promised.inode # fp_out
         => Begins(data[promised.inode], promised.bytes)

(* The hashes and the buffer of the stream are, one behind the other, the  *)
(* beginning of the file.                                                  *)
Following ==
  at \in Reading /\ Kept =>
    /\ \A k \in 1 .. Len(digest) : digest[k] = promised.bytes[k]
    /\ at = "loop" =>
         /\ eof = FALSE
         /\ pos = Len(digest) + Len(ahead)
         /\ pos <= Len(data[fp_in])
         /\ \A k \in 1 .. Len(ahead) : ahead[k] = data[fp_in][Len(digest) + k]

(* fread finds all that is wanted of a file that is long enough.           *)
LEMMA FindsAll ==
  ASSUME InputFileInv, at = "loop", Kept, Following,
         NEW n \in 1 .. PacketSize, Len(digest) + n <= Len(data[fp_in])
  PROVE  /\ n <= Len(Available(n))
         /\ \A k \in 1 .. Len(Available(n)) :
              Available(n)[k] = data[fp_in][Len(digest) + k]
         /\ Len(digest) + Len(Available(n)) <= Len(data[fp_in])
         /\ pos + Len(Fetched(n)) = Len(digest) + Len(Available(n))
<1>. DEFINE D == data[fp_in]
            h == Len(digest)
            F == Fetched(n)
<1>1. /\ eof = FALSE /\ pos = h + Len(ahead) /\ pos <= Len(D)
      /\ \A k \in 1 .. Len(ahead) : ahead[k] = D[h + k]
  BY DEF Following, Reading
<1>2. fp_in \in Inodes /\ InputFileTypeOK
  BY DEF InputFileInv, HasFiles, Reading
<1>3. n \in Nat /\ n <= PacketSize
  BY DiskAssumption
<1>4. /\ F \in Seq(OnDiskByte)
      /\ \A k \in 1 .. Len(F) : F[k] = D[pos + k]
      /\ F # <<>> => pos + Len(F) <= Len(D)
  BY <1>2, <1>3, FetchedBytes
<1>5. /\ ahead \in Seq(OnDiskByte) /\ D \in Seq(OnDiskByte) /\ digest \in Seq(Byte)
  BY <1>2 DEF InputFileTypeOK, Byte
<1>6. h \in Nat /\ Len(ahead) \in Nat /\ Len(F) \in Nat /\ Len(D) \in Nat
  BY <1>4, <1>5, LenProperties
<1>7. Available(n) = ahead \o F
  BY DEF Available
<1>8. Len(ahead) < n => F # <<>> /\ Len(F) >= n - Len(ahead)
  <2>. SUFFICES ASSUME Len(ahead) < n PROVE Len(F) >= n - Len(ahead) /\ F # <<>>
    OBVIOUS
  <2>. DEFINE missing == n - Len(ahead)
              reads == (missing + BufferSize - 1) \div BufferSize
              m == Smaller(pos + reads * BufferSize, Len(D))
  <2>1. missing \in Nat \ {0}
    BY <1>3, <1>6
  <2>2. reads * BufferSize >= missing /\ reads * BufferSize \in Nat
    BY <2>1, Rounded, DiskAssumption
  <2>3. F = SubSeq(D, pos + 1, m)
    <3>1. ~(Len(ahead) >= n)
      BY <1>3, <1>6
    <3>2. ~(Len(ahead) >= n \/ eof)
      BY <1>1, <3>1
    <3>. QED
      BY <3>2 DEF Fetched
  <2>. HIDE DEF reads, D, h, F
  <2>4. m >= pos + missing /\ m <= Len(D) /\ m \in Nat
    BY <1>1, <1>3, <1>6, <2>1, <2>2 DEF Smaller, D, h
  <2>5. Len(SubSeq(D, pos + 1, m)) = IF pos + 1 <= m THEN m - (pos + 1) + 1 ELSE 0
    <3>1. pos + 1 \in Nat \ {0}
      BY <1>1, <1>6
    <3>. QED
      BY <1>5, <2>4, <3>1, Cut
  <2>6. Len(F) >= missing
    BY <1>1, <1>6, <2>1, <2>3, <2>4, <2>5
  <2>. QED
    BY <2>1, <2>6, EmptySeq
<1>. HIDE DEF D, h, F
<1>9. /\ Len(Available(n)) = Len(ahead) + Len(F)
      /\ \A k \in 1 .. Len(ahead) + Len(F) :
           Available(n)[k] = IF k <= Len(ahead) THEN ahead[k] ELSE F[k - Len(ahead)]
  BY <1>4, <1>5, <1>7, ConcatProperties
<1>10. n <= Len(Available(n))
  BY <1>3, <1>6, <1>8, <1>9
<1>11. pos + Len(F) = h + Len(Available(n))
  BY <1>1, <1>6, <1>9
<1>12. h + Len(Available(n)) <= Len(D)
  <2>1. F = <<>> => Len(F) = 0
    BY EmptySeq
  <2>. QED
    BY <1>1, <1>4, <1>6, <1>9, <2>1
<1>13. ASSUME NEW k \in 1 .. Len(Available(n))
       PROVE  Available(n)[k] = D[h + k]
  <2>1. CASE k <= Len(ahead)
    BY <1>1, <1>6, <1>9, <2>1
  <2>2. CASE ~(k <= Len(ahead))
    <3>1. k - Len(ahead) \in 1 .. Len(F) /\ pos + (k - Len(ahead)) = h + k
      BY <1>1, <1>6, <1>9, <2>2
    <3>. QED
      BY <1>4, <1>6, <1>9, <2>2, <3>1
  <2>. QED
    BY <2>1, <2>2
<1>. QED
  BY <1>10, <1>11, <1>12, <1>13 DEF D, h, F

(* A read of n bytes of such a file hashes the next n bytes of it.         *)
LEMMA HashesTheNext ==
  ASSUME InputFileInv, at = "loop", Kept, Following, Promised,
         NEW n \in 1 .. PacketSize, Len(digest) + n <= filesize,
         Fread(n), digest' = digest \o HashedPart(n)
  PROVE  /\ Len(digest') = Len(digest) + n
         /\ \A k \in 1 .. Len(digest') : digest'[k] = promised.bytes[k]
         /\ eof' = FALSE
         /\ pos' = Len(digest') + Len(ahead')
         /\ pos' <= Len(data[fp_in])
         /\ \A k \in 1 .. Len(ahead') : ahead'[k] = data[fp_in][Len(digest') + k]
<1>. DEFINE D == data[fp_in]
            h == Len(digest)
            Av == Available(n)
            H == HashedPart(n)
<1>0. fp_in \in Inodes /\ InputFileTypeOK
  BY DEF InputFileInv, HasFiles, Reading
<1>1. /\ promised.bytes \in Seq(OnDiskByte) /\ Len(promised.bytes) = filesize
      /\ Begins(D, promised.bytes)
  BY DEF Promised, Measuring, Reading, Kept
<1>2. digest \in Seq(Byte) /\ D \in Seq(OnDiskByte) /\ filesize \in Nat
  BY <1>0 DEF InputFileTypeOK, Byte
<1>3. h \in Nat /\ n \in Nat /\ n <= PacketSize /\ Len(D) \in Nat
  BY <1>2, LenProperties, DiskAssumption
<1>4. Len(digest) + n <= Len(data[fp_in])
  BY <1>1, <1>2, <1>3 DEF Begins
<1>5. /\ n <= Len(Av)
      /\ \A k \in 1 .. Len(Av) : Av[k] = D[h + k]
      /\ h + Len(Av) <= Len(D)
      /\ pos + Len(Fetched(n)) = h + Len(Av)
  BY <1>4, FindsAll
<1>6. /\ Len(ahead') = IF n <= Len(Av) THEN Len(Av) - n ELSE 0
      /\ \A k \in 1 .. Len(ahead') : ahead'[k] = Av[n + k]
      /\ H \in Seq(Byte) /\ Len(H) = n
      /\ \A k \in 1 .. n : H[k] = IF k <= Len(Av) THEN Av[k] ELSE buf[k]
  BY <1>0, AfterFread
<1>7. Len(Av) \in Nat
  BY <1>0, <1>3, AvailableBytes
<1>8. /\ Len(digest \o H) = h + Len(H)
      /\ \A k \in 1 .. h + Len(H) : (digest \o H)[k] = IF k <= h THEN digest[k] ELSE H[k - h]
  BY <1>2, <1>6, ConcatProperties
<1>9. pos' = pos + Len(Fetched(n)) /\ eof' = (eof \/ Len(Av) < n)
  BY DEF Fread
<1>10. eof = FALSE /\ \A k \in 1 .. h : digest[k] = promised.bytes[k]
  BY DEF Following, Reading
<1>. HIDE DEF D, h, Av, H
<1>11. Len(digest') = h + n
  BY <1>6, <1>8 DEF H
<1>12. ASSUME NEW k \in 1 .. h + n
       PROVE  digest'[k] = promised.bytes[k]
  <2>1. CASE k <= h
    BY <1>3, <1>6, <1>8, <1>10, <2>1 DEF H
  <2>2. CASE ~(k <= h)
    <3>1. k - h \in 1 .. n /\ k - h \in 1 .. Len(Av) /\ h + (k - h) = k
      BY <1>3, <1>5, <1>7, <2>2
    <3>2. digest'[k] = H[k - h]
      BY <1>3, <1>6, <1>8, <2>2 DEF H
    <3>3. H[k - h] = Av[k - h]
      BY <1>6, <3>1
    <3>4. Av[k - h] = D[k]
      BY <1>5, <3>1
    <3>5. k \in 1 .. Len(promised.bytes)
      BY <1>1, <1>2, <1>3 DEF h
    <3>. QED
      BY <1>1, <3>2, <3>3, <3>4, <3>5 DEF Begins
  <2>. QED
    BY <2>1, <2>2
<1>13. eof' = FALSE
  <2>1. ~(Len(Av) < n)
    BY <1>3, <1>5, <1>7
  <2>. QED
    BY <1>9, <1>10, <2>1, Zenon
<1>14. Len(ahead') = Len(Av) - n
  BY <1>5, <1>6
<1>15. pos' = h + Len(Av) /\ h + Len(Av) = (h + n) + Len(ahead')
  BY <1>3, <1>5, <1>7, <1>9, <1>14
<1>16. ASSUME NEW k \in 1 .. Len(ahead')
       PROVE  ahead'[k] = D[(h + n) + k]
  <2>1. n + k \in 1 .. Len(Av) /\ h + (n + k) = (h + n) + k
    BY <1>3, <1>7, <1>14
  <2>. QED
    BY <1>5, <1>6, <2>1
<1>. QED
  BY <1>5, <1>11, <1>12, <1>13, <1>15, <1>16 DEF D, h

(* The reading steps.                                                      *)
LEMMA ReadingFollows ==
  InputFileInv /\ Promised /\ Following /\ (ReadPacket \/ ReadTail)
    => Promised' /\ Following'
<1>. SUFFICES ASSUME InputFileInv, Promised, Following, ReadPacket \/ ReadTail
              PROVE  Promised' /\ Following'
  OBVIOUS
<1>1. /\ at = "loop" /\ at' \in {"loop", "print"}
      /\ filesize' = filesize /\ promised' = promised /\ cut' = cut
      /\ fp_in' = fp_in /\ fp_out' = fp_out /\ data' = data
  BY DEF ReadPacket, ReadTail, opened, disk
<1>2. Promised' /\ (Kept' <=> Kept)
  BY <1>1 DEF Promised, Measuring, Reading, Begins, Kept
<1>3. /\ filesize \in Nat /\ p_cnt \in Nat /\ packet_count \in Nat
      /\ filesize = packet_count * PacketSize + last_bytes
      /\ last_bytes \in 0 .. PacketSize - 1
      /\ Len(digest) = p_cnt * PacketSize
  BY <1>1, Division DEF InputFileInv, InputFileTypeOK, Measured
<1>4. ASSUME NEW n \in 1 .. PacketSize, Len(digest) + n <= filesize,
             Fread(n), digest' = digest \o HashedPart(n), Kept
      PROVE  Following'
  <2>1. /\ \A k \in 1 .. Len(digest') : digest'[k] = promised.bytes[k]
        /\ eof' = FALSE
        /\ pos' = Len(digest') + Len(ahead')
        /\ pos' <= Len(data[fp_in])
        /\ \A k \in 1 .. Len(ahead') : ahead'[k] = data[fp_in][Len(digest') + k]
    BY <1>1, <1>4, HashesTheNext
  <2>. QED
    BY <1>1, <2>1 DEF Following
<1>5. CASE ReadPacket
  <2>1. p_cnt < packet_count /\ Fread(PacketSize) /\ digest' = digest \o HashedPart(PacketSize)
    BY <1>5 DEF ReadPacket
  <2>2. PacketSize \in 1 .. PacketSize /\ PacketSize \in Nat
    BY DiskAssumption
  <2>3. p_cnt * PacketSize + PacketSize <= packet_count * PacketSize
    BY <1>3, <2>1, <2>2, RoomForPacket
  <2>4. p_cnt * PacketSize \in Nat /\ packet_count * PacketSize \in Nat
    BY <1>3, <2>2
  <2>5. Len(digest) + PacketSize <= filesize
    BY <1>3, <2>2, <2>3, <2>4
  <2>6. Kept => Following'
    BY <1>4, <2>1, <2>2, <2>5
  <2>. QED
    BY <1>2, <2>6 DEF Following
<1>6. CASE ReadTail
  <2>1. p_cnt = packet_count /\ at' = "print"
    BY <1>6 DEF ReadTail
  <2>2. CASE last_bytes > 0
    <3>1. Fread(last_bytes) /\ digest' = digest \o HashedPart(last_bytes)
      BY <1>6, <2>2 DEF ReadTail
    <3>2. last_bytes \in 1 .. PacketSize
      BY <1>3, <2>2, DiskAssumption
    <3>3. Len(digest) + last_bytes <= filesize
      BY <1>3, <2>1
    <3>4. Kept => Following'
      BY <1>4, <3>1, <3>2, <3>3
    <3>. QED
      BY <1>2, <3>4 DEF Following
  <2>3. CASE ~(last_bytes > 0)
    <3>1. digest' = digest
      BY <1>6, <2>3 DEF ReadTail
    <3>. QED
      BY <1>1, <1>2, <2>1, <3>1 DEF Following, Reading
  <2>. QED
    BY <2>2, <2>3
<1>. QED
  BY <1>2, <1>5, <1>6

(* A file that begins with another one has its bytes at the same places.   *)
LEMMA StillAhead ==
  ASSUME NEW S, NEW D \in Seq(S), NEW E \in Seq(S), Begins(E, D),
         NEW a \in Seq(S), NEW h \in Nat, h + Len(a) <= Len(D),
         \A k \in 1 .. Len(a) : a[k] = D[h + k]
  PROVE  /\ h + Len(a) <= Len(E)
         /\ \A k \in 1 .. Len(a) : a[k] = E[h + k]
<1>1. Len(D) \in Nat /\ Len(E) \in Nat /\ Len(a) \in Nat
  BY LenProperties
<1>2. Len(D) <= Len(E) /\ \A k \in 1 .. Len(D) : E[k] = D[k]
  BY DEF Begins
<1>3. \A k \in 1 .. Len(a) : h + k \in 1 .. Len(D)
  BY <1>1
<1>. QED
  BY <1>1, <1>2, <1>3

(* And it begins with whatever that one begins with.                       *)
LEMMA StillThere ==
  ASSUME NEW S, NEW D \in Seq(S), NEW E \in Seq(S), Begins(E, D),
         NEW b \in Seq(S), Begins(D, b)
  PROVE  Begins(E, b)
<1>1. Len(D) \in Nat /\ Len(E) \in Nat /\ Len(b) \in Nat
  BY LenProperties
<1>2. Len(D) <= Len(E) /\ \A k \in 1 .. Len(D) : E[k] = D[k]
  BY DEF Begins
<1>3. Len(b) <= Len(D) /\ \A k \in 1 .. Len(b) : D[k] = b[k]
  BY DEF Begins
<1>4. \A k \in 1 .. Len(b) : k \in 1 .. Len(D)
  BY <1>1, <1>3
<1>5. Len(b) <= Len(E)
  BY <1>1, <1>2, <1>3
<1>. QED
  BY <1>2, <1>3, <1>4, <1>5 DEF Begins

(* The ways past the opening and the printing.                             *)
Onward ==
  /\ \/ at' = at
     \/ at' = "failed"
     \/ at = "open output" /\ at' = "loop"
     \/ at = "print" /\ at' = "done"
  /\ \/ fp_out' = fp_out
     \/ at = "open output" /\ fp_out = NoFile

(* A step on the disk that takes no byte from a file.                      *)
LEMMA StillBegins ==
  ASSUME InputFileInv, InputFileInv', Promised, Following,
         UNCHANGED <<filesize, promised, reading, fp_in>>,
         Onward,
         cut \subseteq cut',
         \A f \in Inodes : f \notin cut' /\ f # fp_out' => Begins(data'[f], data[f])
  PROVE  Promised' /\ Following'
<1>1. at \in Reading \cup {"open output"} => fp_in \in Inodes
  BY DEF InputFileInv, HasFiles
<1>2. NoFile \notin Inodes
  BY DiskAssumption
<1>3. \A f \in Inodes : data[f] \in Seq(OnDiskByte) /\ data'[f] \in Seq(OnDiskByte)
  BY DEF InputFileInv, InputFileTypeOK
<1>4. ASSUME Measuring, promised.inode \notin cut', promised.inode # fp_out'
      PROVE  Begins(data'[promised.inode], promised.bytes)
  <2>. DEFINE f == promised.inode
              b == promised.bytes
  <2>1. f \in Inodes /\ b \in Seq(OnDiskByte)
    BY <1>4 DEF Promised
  <2>2. f \notin cut /\ f # fp_out
    BY <1>2, <1>4, <2>1 DEF Onward
  <2>3. Begins(data[f], b)
    BY <1>4, <2>2 DEF Promised
  <2>4. Begins(data'[f], data[f])
    BY <1>4, <2>1
  <2>5. data[f] \in Seq(OnDiskByte) /\ data'[f] \in Seq(OnDiskByte)
    BY <1>3, <2>1
  <2>. QED
    BY <2>1, <2>3, <2>4, <2>5, StillThere
<1>5. Measuring' => Measuring
  BY DEF Measuring, Reading, Onward
<1>6. Promised'
  BY <1>4, <1>5 DEF Promised
<1>7. ASSUME at' \in Reading, Kept'
      PROVE  /\ \A k \in 1 .. Len(digest') : digest'[k] = promised'.bytes[k]
             /\ at' = "loop" =>
                  /\ eof' = FALSE
                  /\ pos' = Len(digest') + Len(ahead')
                  /\ pos' <= Len(data'[fp_in'])
                  /\ \A k \in 1 .. Len(ahead') :
                       ahead'[k] = data'[fp_in'][Len(digest') + k]
  <2>. DEFINE f == fp_in
              h == Len(digest)
  <2>1. /\ pos' = pos /\ ahead' = ahead /\ eof' = eof /\ digest' = digest
        /\ promised' = promised /\ fp_in' = fp_in
    BY DEF reading, stream
  <2>2. CASE at \in Reading
    <3>1. Kept /\ fp_out' = fp_out /\ (at' = "loop" => at = "loop")
      BY <1>7, <2>1, <2>2 DEF Kept, Reading, Onward
    <3>2. f \in Inodes /\ f \notin cut' /\ f # fp_out'
      BY <1>1, <1>7, <2>1, <2>2 DEF Kept
    <3>3. Begins(data'[f], data[f])
      BY <3>2
    <3>4. \A k \in 1 .. h : digest[k] = promised.bytes[k]
      BY <2>2, <3>1 DEF Following
    <3>5. CASE at = "loop"
      <4>1. /\ eof = FALSE
            /\ pos = h + Len(ahead)
            /\ pos <= Len(data[f])
            /\ \A k \in 1 .. Len(ahead) : ahead[k] = data[f][h + k]
        BY <2>2, <3>1, <3>5 DEF Following
      <4>2. /\ ahead \in Seq(OnDiskByte) /\ h \in Nat
            /\ data[f] \in Seq(OnDiskByte) /\ data'[f] \in Seq(OnDiskByte)
        BY <1>3, <3>2, LenProperties DEF InputFileInv, InputFileTypeOK
      <4>. DEFINE D == data[f]
                  E == data'[f]
      <4>. HIDE DEF f, h
      <4>3. h + Len(ahead) <= Len(data[f])
        BY <4>1
      <4>4. \A k \in 1 .. Len(ahead) : ahead[k] = data[f][h + k]
        BY <4>1
      <4>5. /\ h + Len(ahead) <= Len(data'[f])
            /\ \A k \in 1 .. Len(ahead) : ahead[k] = data'[f][h + k]
        <5>. HIDE DEF D, E
        <5>1. D \in Seq(OnDiskByte) /\ E \in Seq(OnDiskByte) /\ Begins(E, D)
          BY <3>3, <4>2 DEF D, E
        <5>2. h + Len(ahead) <= Len(D) /\ \A k \in 1 .. Len(ahead) : ahead[k] = D[h + k]
          BY <4>3, <4>4 DEF D
        <5>3. h + Len(ahead) <= Len(E) /\ \A k \in 1 .. Len(ahead) : ahead[k] = E[h + k]
          BY <4>2, <5>1, <5>2, StillAhead
        <5>. QED
          BY <5>3 DEF E
      <4>. QED
        BY <2>1, <3>4, <4>1, <4>5 DEF f, h
    <3>6. CASE at # "loop"
      <4>1. at' # "loop"
        BY <3>1, <3>6
      <4>. QED
        BY <2>1, <3>4, <4>1
    <3>. QED
      BY <3>5, <3>6
  <2>3. CASE at \notin Reading
    <3>1. pos = 0 /\ ahead = <<>> /\ eof = FALSE /\ digest = <<>>
      BY <2>3 DEF InputFileInv, AtStart
    <3>2. at = "open output"
      BY <1>7, <2>3 DEF Reading, Onward
    <3>3. Len(ahead) = 0 /\ h = 0
      BY <3>1, EmptySeq
    <3>4. pos <= Len(data'[f])
      <4>1. Len(data'[f]) \in Nat
        BY <1>1, <1>3, <3>2, LenProperties
      <4>. QED
        BY <3>1, <4>1
    <3>5. eof' = FALSE
      BY <2>1, <3>1
    <3>6. pos = h + Len(ahead)
      BY <3>1, <3>3
    <3>7. \A k : k \notin 1 .. h /\ k \notin 1 .. Len(ahead)
      BY <3>3
    <3>. HIDE DEF f, h
    <3>. QED
      BY <2>1, <3>4, <3>5, <3>6, <3>7 DEF f, h
  <2>. QED
    BY <2>2, <2>3
<1>. QED
  BY <1>6, <1>7 DEF Following

(* The bytes that stat promised stay where they are in every other step.   *)
LEMMA ProgramFollows ==
  InputFileInv /\ InputFileInv' /\ Promised /\ Following /\ Program
    => Promised' /\ Following'
<1>. SUFFICES ASSUME InputFileInv, InputFileInv', Promised, Following, Program
              PROVE  Promised' /\ Following'
  OBVIOUS
<1>. USE DEF opened, disk
<1>0. /\ \A f \in Inodes : Begins(data[f], data[f])
      /\ at \notin Reading => fp_out = NoFile
      /\ data \in [Inodes -> Seq(OnDiskByte)]
  BY LenProperties DEF InputFileInv, InputFileTypeOK, AtStart, Begins
<1>1. CASE GetFileSize
  <2>1. /\ promised' = [inode |-> dir[from_path], bytes |-> data[dir[from_path]]]
        /\ filesize' = Len(data[dir[from_path]])
        /\ dir[from_path] \in Inodes /\ data' = data /\ at' = "open input"
    BY <1>1 DEF GetFileSize
  <2>2. /\ promised'.inode \in Inodes
        /\ promised'.bytes = data'[promised'.inode]
        /\ promised'.bytes \in Seq(OnDiskByte)
        /\ Len(promised'.bytes) = filesize' /\ filesize' \in Nat
    BY <1>0, <2>1, LenProperties
  <2>3. Begins(data'[promised'.inode], promised'.bytes)
    BY <1>0, <2>1, <2>2
  <2>. QED
    BY <2>1, <2>2, <2>3 DEF Promised, Following, Reading
<1>2. CASE NoInput \/ InputRefused \/ OutputRefused \/ OpenInput \/ UseStdout
  <2>1. CASE at = "stat"
    BY <1>2, <2>1 DEF NoInput, InputRefused, OutputRefused, OpenInput, UseStdout,
       Promised, Following, Measuring, Reading
  <2>2. CASE at # "stat" /\ ~OpenInput
    <3>1. /\ UNCHANGED <<filesize, promised, reading, data, cut>>
          /\ fp_in' = fp_in
      BY <1>2, <2>2 DEF NoInput, InputRefused, OutputRefused, OpenInput, UseStdout
    <3>2. Onward
      BY <1>0, <1>2, <2>2
         DEF Onward, NoInput, InputRefused, OutputRefused, OpenInput, UseStdout, Reading
    <3>. QED
      BY <1>0, <2>2, <3>1, <3>2, StillBegins
  <2>3. CASE OpenInput
    <3>1. /\ at = "open input" /\ at' = "open output"
          /\ UNCHANGED <<filesize, promised, fp_out, data, cut>>
      BY <2>3 DEF OpenInput
    <3>. QED
      BY <3>1 DEF Promised, Measuring, Following, Reading, Begins
  <2>. QED
    BY <1>2, <2>1, <2>2, <2>3
       DEF NoInput, InputRefused, OutputRefused, OpenInput, UseStdout
<1>3. CASE OpenOutput
  <2>1. /\ fp_out' = dir[out_path] /\ at = "open output" /\ at' = "loop"
        /\ data' = [data EXCEPT ![dir[out_path]] = <<>>]
        /\ UNCHANGED <<filesize, promised, reading, fp_in, cut>>
    BY <1>3 DEF OpenOutput, Emptied
  <2>2. \A f \in Inodes : f # fp_out' => data'[f] = data[f]
    BY <1>0, <2>1
  <2>. QED
    BY <1>0, <2>1, <2>2, StillBegins DEF Reading, Onward
<1>4. CASE CreateOutput
  <2>1. PICK f \in Unnamed : fp_out' = f /\ data' = [data EXCEPT ![f] = <<>>]
    BY <1>4 DEF CreateOutput
  <2>2. at = "open output" /\ at' = "loop" /\ UNCHANGED <<filesize, promised, reading, fp_in, cut>>
    BY <1>4 DEF CreateOutput
  <2>3. \A g \in Inodes : g # fp_out' => data'[g] = data[g]
    BY <1>0, <2>1
  <2>. QED
    BY <1>0, <2>1, <2>2, <2>3, StillBegins DEF Reading, Onward
<1>5. CASE PrintReport
  <2>1. at = "print" /\ at' = "done"
        /\ UNCHANGED <<filesize, promised, reading, fp_in, fp_out, cut>>
    BY <1>5 DEF PrintReport
  <2>2. \A f \in Inodes : f # fp_out' => data'[f] = data[f]
    BY <1>0, <1>5, <2>1 DEF PrintReport
  <2>. QED
    BY <1>0, <2>1, <2>2, StillBegins DEF Onward
<1>. QED
  BY <1>1, <1>2, <1>3, <1>4, <1>5, ReadingFollows DEF Program

(* Others only add to the files that are not in cut.                       *)
LEMMA OthersFollow ==
  InputFileInv /\ InputFileInv' /\ Promised /\ Following /\ Others
    => Promised' /\ Following'
<1>. SUFFICES ASSUME InputFileInv, InputFileInv', Promised, Following, Others
              PROVE  Promised' /\ Following'
  OBVIOUS
<1>0. /\ \A f \in Inodes : data[f] \in Seq(OnDiskByte) /\ Begins(data[f], data[f])
      /\ data \in [Inodes -> Seq(OnDiskByte)]
  BY LenProperties DEF InputFileInv, InputFileTypeOK, Begins
<1>1. /\ OnDisk /\ cut \subseteq cut'
      /\ \A f \in Inodes : f \notin cut' => Begins(data'[f], data[f])
  <2>1. ASSUME NEW g \in Inodes, NEW byte \in NewBytes, Record(g, byte)
        PROVE  /\ OnDisk /\ cut' = cut
               /\ \A f \in Inodes : Begins(data'[f], data[f])
    <3>1. data' = [data EXCEPT ![g] = Append(data[g], byte)] /\ OnDisk /\ cut' = cut
      BY <2>1 DEF Record
    <3>2. ASSUME NEW s \in Seq(OnDiskByte)
          PROVE  Begins(Append(s, byte), s)
      <4>1. byte \in OnDiskByte
        BY DEF OnDiskByte
      <4>. QED
        BY <4>1, AppendProperties, LenProperties DEF Begins
    <3>3. \A f \in Inodes : data'[f] = IF f = g THEN Append(data[f], byte) ELSE data[f]
      BY <1>0, <3>1
    <3>4. ASSUME NEW f \in Inodes
          PROVE  Begins(data'[f], data[f])
      BY <1>0, <3>2, <3>3
    <3>. QED
      BY <3>1, <3>4
  <2>2. ASSUME NEW g \in Inodes, NEW length \in 0 .. Len(data[g]), Shorten(g, length)
        PROVE  /\ OnDisk /\ cut \subseteq cut'
               /\ \A f \in Inodes : f \notin cut' => data'[f] = data[f]
    BY <1>0, <2>2 DEF Shorten
  <2>3. ASSUME NEW name \in Names, NEW g \in Inodes \cup {NoFile}, Rename(name, g)
        PROVE  OnDisk /\ cut' = cut /\ data' = data
    BY <2>3 DEF Rename
  <2>. QED
    BY <1>0, <2>1, <2>2, <2>3 DEF Others
<1>2. UNCHANGED <<filesize, promised, reading, fp_in>> /\ at' = at /\ fp_out' = fp_out
  BY <1>1 DEF OnDisk, opened
<1>. QED
  BY <1>1, <1>2, StillBegins DEF Onward

(* At the end there is nothing but what was promised.                      *)
LEMMA PromiseKept == InputFileInv /\ Promised /\ Following => HashedAsPromised
<1>. SUFFICES ASSUME InputFileInv, Promised, Following, at \in {"print", "done"}, Kept
              PROVE  digest = promised.bytes
  BY DEF HashedAsPromised
<1>1. /\ \A k \in 1 .. Len(digest) : digest[k] = promised.bytes[k]
      /\ promised.bytes \in Seq(OnDiskByte) /\ Len(promised.bytes) = filesize
  BY DEF Following, Promised, Measuring, Reading
<1>2. Len(digest) = filesize /\ digest \in Seq(Byte)
  BY DEF InputFileInv, Measured, InputFileTypeOK, Byte
<1>3. promised.bytes \in Seq(Byte)
  BY <1>1, SeqMonotonic DEF Byte
<1>. QED
  BY <1>1, <1>2, <1>3, SeqEqual

(***************************************************************************)
(* The hashes are of the bytes that the file had when its size was looked  *)
(* up, for every length of files, packets and buffers and every number of  *)
(* other processes, unless one made the file shorter, another file came to *)
(* its name before it was opened, or it is the output.                     *)
(***************************************************************************)
THEOREM PromiseIsHashed == Spec => []HashedAsPromised
<1>1. Init => Promised /\ Following
  BY DEF Init, Promised, Following, Measuring, Reading
<1>2. InputFileInv /\ InputFileInv' /\ Promised /\ Following /\ [Next]_vars
        => Promised' /\ Following'
  <2>1. Promised /\ Following /\ UNCHANGED vars => Promised' /\ Following'
    BY DEF vars, opened, disk, reading, stream, Promised, Following, Measuring, Begins, Kept
  <2>. QED
    BY <2>1, ProgramFollows, OthersFollow DEF Next
<1>3. InputFileInv /\ Promised /\ Following => HashedAsPromised
  BY PromiseKept
<1>4. Spec => [](Promised /\ Following)
  BY <1>1, <1>2, Invariance, PTL DEF Spec
<1>. QED
  BY <1>3, <1>4, Invariance, PTL

-----------------------------------------------------------------------------
(* What is hashed of a file that is also the output.                       *)

Clean(s) == \A k \in DOMAIN s : s[k] \notin Bytes

(* Opening the output emptied the file, and only others add to it.         *)
Lost ==
  /\ at \notin Reading => Clean(buf)
  /\ fp_in = fp_out =>
       /\ Clean(digest) /\ Clean(ahead) /\ Clean(buf)
       /\ fp_in \in Inodes => Clean(data[fp_in])

(* Clean sequences stay so when they are cut or put together.              *)
LEMMA CleanSequences ==
  ASSUME NEW S, NEW s \in Seq(S), Clean(s)
  PROVE  /\ \A t \in Seq(S) : Clean(t) => Clean(s \o t)
         /\ \A m \in Nat \ {0}, n \in Nat : n <= Len(s) => Clean(SubSeq(s, m, n))
<1>1. Len(s) \in Nat /\ DOMAIN s = 1 .. Len(s)
  BY LenProperties
<1>2. ASSUME NEW t \in Seq(S), Clean(t) PROVE Clean(s \o t)
  <2>1. Len(t) \in Nat /\ DOMAIN t = 1 .. Len(t)
    BY LenProperties
  <2>2. /\ Len(s \o t) = Len(s) + Len(t) /\ DOMAIN (s \o t) = 1 .. Len(s \o t)
        /\ \A k \in 1 .. Len(s) + Len(t) :
             (s \o t)[k] = IF k <= Len(s) THEN s[k] ELSE t[k - Len(s)]
    BY ConcatProperties, LenProperties
  <2>3. ASSUME NEW k \in 1 .. Len(s) + Len(t) PROVE (s \o t)[k] \notin Bytes
    <3>1. CASE k <= Len(s)
      <4>1. k \in 1 .. Len(s)
        BY <1>1, <2>1, <3>1
      <4>. QED
        BY <1>1, <2>2, <3>1, <4>1 DEF Clean
    <3>2. CASE ~(k <= Len(s))
      <4>1. k - Len(s) \in 1 .. Len(t)
        BY <1>1, <2>1, <3>2
      <4>. QED
        BY <1>2, <2>1, <2>2, <3>2, <4>1 DEF Clean
    <3>. QED
      BY <3>1, <3>2
  <2>. QED
    BY <2>2, <2>3 DEF Clean
<1>3. ASSUME NEW m \in Nat \ {0}, NEW n \in Nat, n <= Len(s)
      PROVE  Clean(SubSeq(s, m, n))
  <2>. DEFINE c == SubSeq(s, m, n)
  <2>1. /\ c \in Seq(S)
        /\ Len(c) = IF m <= n THEN n - m + 1 ELSE 0
        /\ \A k \in 1 .. Len(c) : c[k] = s[m + k - 1]
    BY <1>3, Cut
  <2>2. DOMAIN c = 1 .. Len(c)
    BY <2>1, LenProperties
  <2>. HIDE DEF c
  <2>3. \A k \in 1 .. Len(c) : m + k - 1 \in 1 .. Len(s)
    BY <1>1, <1>3, <2>1
  <2>4. \A k \in 1 .. Len(c) : c[k] \notin Bytes
    BY <1>1, <2>1, <2>3 DEF Clean
  <2>5. Clean(c)
    BY <2>2, <2>4 DEF Clean
  <2>. QED
    BY <2>5 DEF c
<1>. QED
  BY <1>2, <1>3

(* fread on a clean file, with a clean buffer, leaves both clean.          *)
LEMMA ReadsClean ==
  ASSUME InputFileInv, fp_in \in Inodes, NEW n \in 1 .. PacketSize, Fread(n),
         Clean(digest), Clean(ahead), Clean(buf), Clean(data[fp_in]),
         digest' = digest \o HashedPart(n)
  PROVE  Clean(digest') /\ Clean(ahead') /\ Clean(buf')
<1>0. InputFileTypeOK /\ n \in Nat /\ n <= PacketSize /\ PacketSize \in Nat
  BY DiskAssumption DEF InputFileInv
<1>1. /\ data[fp_in] \in Seq(OnDiskByte) /\ ahead \in Seq(OnDiskByte)
      /\ digest \in Seq(Byte) /\ buf \in [1 .. PacketSize -> Byte] /\ pos \in Nat
  BY <1>0 DEF InputFileTypeOK, Byte
<1>2. /\ Fetched(n) \in Seq(OnDiskByte)
      /\ \A k \in 1 .. Len(Fetched(n)) : Fetched(n)[k] = data[fp_in][pos + k]
      /\ Fetched(n) # <<>> => pos + Len(Fetched(n)) <= Len(data[fp_in])
  BY <1>0, FetchedBytes
<1>3. Clean(Fetched(n))
  <2>. DEFINE F == Fetched(n)
              D == data[fp_in]
  <2>. HIDE DEF F, D
  <2>1. /\ F \in Seq(OnDiskByte) /\ D \in Seq(OnDiskByte)
        /\ \A k \in 1 .. Len(F) : F[k] = D[pos + k]
        /\ F # <<>> => pos + Len(F) <= Len(D)
    BY <1>1, <1>2 DEF F, D
  <2>2. Len(F) \in Nat /\ Len(D) \in Nat /\ DOMAIN F = 1 .. Len(F) /\ DOMAIN D = 1 .. Len(D)
    BY <2>1, LenProperties
  <2>3. F = <<>> => Len(F) = 0
    BY EmptySeq
  <2>4. \A k \in 1 .. Len(F) : pos + k \in 1 .. Len(D)
    BY <1>1, <2>1, <2>2, <2>3
  <2>5. \A k \in 1 .. Len(D) : D[k] \notin Bytes
    BY <2>2 DEF Clean, D
  <2>6. \A k \in 1 .. Len(F) : F[k] \notin Bytes
    BY <2>1, <2>4, <2>5
  <2>7. Clean(F)
    BY <2>2, <2>6 DEF Clean
  <2>. QED
    BY <2>7 DEF F
<1>4. Clean(Available(n))
  BY <1>1, <1>2, <1>3, CleanSequences DEF Available
<1>5. /\ Available(n) \in Seq(OnDiskByte) /\ Len(Available(n)) \in Nat
      /\ DOMAIN Available(n) = 1 .. Len(Available(n))
  BY <1>0, AvailableBytes, LenProperties
<1>6. Clean(ahead')
  <2>1. ahead' = SubSeq(Available(n), n + 1, Len(Available(n)))
    BY DEF Fread
  <2>2. n + 1 \in Nat \ {0}
    BY <1>0
  <2>. QED
    BY <1>4, <1>5, <2>1, <2>2, CleanSequences
<1>7. /\ buf' \in [1 .. PacketSize -> Byte]
      /\ HashedPart(n) \in Seq(Byte) /\ Len(HashedPart(n)) = n
      /\ \A k \in 1 .. n :
           HashedPart(n)[k] = IF k <= Len(Available(n)) THEN Available(n)[k] ELSE buf[k]
      /\ \A k \in 1 .. PacketSize :
           buf'[k] = IF k <= n /\ k <= Len(Available(n)) THEN Available(n)[k] ELSE buf[k]
  BY <1>0, AfterFread
<1>8. /\ \A k \in 1 .. Len(Available(n)) : Available(n)[k] \notin Bytes
      /\ \A k \in 1 .. PacketSize : buf[k] \notin Bytes
  BY <1>1, <1>4, <1>5 DEF Clean
<1>9. Clean(buf')
  <2>1. \A k \in 1 .. PacketSize : buf'[k] \notin Bytes
    BY <1>0, <1>5, <1>7, <1>8
  <2>. QED
    BY <1>7, <2>1 DEF Clean
<1>10. Clean(HashedPart(n))
  <2>1. DOMAIN HashedPart(n) = 1 .. n
    BY <1>7, LenProperties
  <2>2. \A k \in 1 .. n : HashedPart(n)[k] \notin Bytes
    BY <1>0, <1>5, <1>7, <1>8
  <2>. QED
    BY <2>1, <2>2 DEF Clean
<1>11. Clean(digest')
  BY <1>1, <1>7, <1>10, CleanSequences
<1>. QED
  BY <1>6, <1>9, <1>11

(* The steps of the program.                                               *)
LEMMA ProgramLoses == InputFileInv /\ Lost /\ Program => Lost'
<1>. SUFFICES ASSUME InputFileInv, Lost, Program PROVE Lost'
  OBVIOUS
<1>. USE DEF opened, disk, reading, stream
<1>0. /\ NoFile \notin Inodes /\ Stdout \notin Inodes
      /\ at \notin Reading => fp_out = NoFile /\ ahead = <<>> /\ digest = <<>>
      /\ at \in Reading \cup {"open output"} => fp_in \in Inodes
      /\ \A f \in Inodes : data[f] \in Seq(OnDiskByte)
      /\ data \in [Inodes -> Seq(OnDiskByte)]
  BY DiskAssumption DEF InputFileInv, InputFileTypeOK, AtStart, HasFiles
<1>1. CASE GetFileSize \/ NoInput \/ InputRefused \/ OutputRefused
  <2>1. /\ UNCHANGED <<fp_in, fp_out, digest, ahead, buf, data>>
        /\ at \notin Reading
    BY <1>1 DEF GetFileSize, NoInput, InputRefused, OutputRefused, Reading
  <2>. QED
    BY <2>1 DEF Lost
<1>2. CASE OpenInput
  BY <1>0, <1>2 DEF OpenInput, Lost, Reading
<1>3. CASE UseStdout
  BY <1>0, <1>3 DEF UseStdout, Lost, Reading
<1>4. ASSUME at = "open output", at' = "loop",
             fp_out' \in Inodes, data' = [data EXCEPT ![fp_out'] = <<>>],
             UNCHANGED <<fp_in, digest, ahead, buf>>
      PROVE  Lost'
  <2>1. Clean(<<>>)
    BY DEF Clean
  <2>2. ahead = <<>> /\ digest = <<>> /\ Clean(buf)
    BY <1>0, <1>4 DEF Reading, Lost
  <2>3. fp_in = fp_out' => data'[fp_in] = <<>>
    BY <1>0, <1>4
  <2>. QED
    BY <1>4, <2>1, <2>2, <2>3 DEF Lost, Reading
<1>5. CASE OpenOutput
  BY <1>4, <1>5 DEF OpenOutput, Emptied
<1>6. CASE CreateOutput
  BY <1>4, <1>6 DEF CreateOutput, Unnamed
<1>7. CASE PrintReport
  <2>1. /\ UNCHANGED <<fp_in, fp_out, digest, ahead, buf>> /\ at' \in Reading
        /\ fp_in \in Inodes
    BY <1>0, <1>7 DEF PrintReport, Reading
  <2>2. CASE fp_in = fp_out
    <3>. DEFINE s == data[fp_in]
                t == SubSeq(s, 2, Len(s))
    <3>1. s \in Seq(OnDiskByte) /\ Clean(s) /\ Len(s) \in Nat
      BY <1>0, <2>1, <2>2, LenProperties DEF Lost
    <3>2. t \in Seq(OnDiskByte) /\ Clean(t)
      BY <3>1, Cut, CleanSequences
    <3>3. <<ReportByte>> \in Seq(OnDiskByte) /\ Clean(<<ReportByte>>)
      BY DiskAssumption DEF OnDiskByte, Clean
    <3>4. Clean(<<ReportByte>> \o t)
      BY <3>2, <3>3, CleanSequences
    <3>5. data'[fp_in] = <<ReportByte>> \o t
      BY <1>0, <1>7, <2>1, <2>2 DEF PrintReport
    <3>. QED
      BY <2>1, <2>2, <3>4, <3>5 DEF Lost
  <2>3. CASE fp_in # fp_out
    BY <2>1, <2>3 DEF Lost
  <2>. QED
    BY <2>2, <2>3
<1>8. CASE ReadPacket \/ ReadTail
  <2>1. /\ at = "loop" /\ at' \in Reading /\ fp_in \in Inodes
        /\ UNCHANGED <<fp_in, fp_out, data>>
    BY <1>0, <1>8 DEF ReadPacket, ReadTail, Reading
  <2>2. ASSUME fp_in = fp_out, NEW n \in 1 .. PacketSize, Fread(n),
               digest' = digest \o HashedPart(n)
        PROVE  Clean(digest') /\ Clean(ahead') /\ Clean(buf')
    BY <2>1, <2>2, ReadsClean DEF Lost
  <2>3. ASSUME fp_in = fp_out
        PROVE  Clean(digest') /\ Clean(ahead') /\ Clean(buf')
    <3>1. CASE ReadPacket
      <4>1. PacketSize \in 1 .. PacketSize
        BY DiskAssumption
      <4>. QED
        BY <2>2, <2>3, <3>1, <4>1 DEF ReadPacket
    <3>2. CASE ReadTail /\ last_bytes > 0
      <4>1. last_bytes \in 1 .. PacketSize
        BY <3>2, Division, DiskAssumption DEF InputFileInv, InputFileTypeOK
      <4>. QED
        BY <2>2, <2>3, <3>2, <4>1 DEF ReadTail
    <3>3. CASE ReadTail /\ ~(last_bytes > 0)
      BY <2>3, <3>3 DEF ReadTail, Lost
    <3>. QED
      BY <1>8, <3>1, <3>2, <3>3
  <2>. QED
    BY <2>1, <2>3 DEF Lost
<1>. QED
  BY <1>1, <1>2, <1>3, <1>5, <1>6, <1>7, <1>8 DEF Program

(* What others write is new.                                               *)
LEMMA OthersLose == InputFileInv /\ Lost /\ Others => Lost'
<1>. SUFFICES ASSUME InputFileInv, Lost, Others PROVE Lost'
  OBVIOUS
<1>0. /\ \A f \in Inodes : data[f] \in Seq(OnDiskByte)
      /\ data \in [Inodes -> Seq(OnDiskByte)]
  BY DEF InputFileInv, InputFileTypeOK
<1>1. /\ OnDisk
      /\ \A f \in Inodes : Clean(data[f]) => Clean(data'[f])
  <2>1. ASSUME NEW g \in Inodes, NEW byte \in NewBytes, Record(g, byte)
        PROVE  OnDisk /\ \A f \in Inodes : Clean(data[f]) => Clean(data'[f])
    <3>1. <<byte>> \in Seq(OnDiskByte) /\ Clean(<<byte>>)
      BY DiskAssumption DEF OnDiskByte, Clean
    <3>2. Append(data[g], byte) = data[g] \o <<byte>>
      BY <1>0, AppendIsConcat DEF OnDiskByte
    <3>3. \A f \in Inodes : data'[f] = IF f = g THEN data[g] \o <<byte>> ELSE data[f]
      BY <1>0, <2>1, <3>2 DEF Record
    <3>4. Clean(data[g]) => Clean(data[g] \o <<byte>>)
      BY <1>0, <3>1, CleanSequences
    <3>. QED
      BY <2>1, <3>3, <3>4 DEF Record
  <2>2. ASSUME NEW g \in Inodes, NEW length \in 0 .. Len(data[g]), Shorten(g, length)
        PROVE  OnDisk /\ \A f \in Inodes : Clean(data[f]) => Clean(data'[f])
    <3>1. length \in Nat /\ length <= Len(data[g])
      BY <1>0, LenProperties
    <3>2. \A f \in Inodes : data'[f] = IF f = g THEN SubSeq(data[g], 1, length) ELSE data[f]
      BY <1>0, <2>2 DEF Shorten
    <3>3. Clean(data[g]) => Clean(SubSeq(data[g], 1, length))
      BY <1>0, <3>1, CleanSequences
    <3>. QED
      BY <2>2, <3>2, <3>3 DEF Shorten
  <2>3. ASSUME NEW name \in Names, NEW g \in Inodes \cup {NoFile}, Rename(name, g)
        PROVE  OnDisk /\ data' = data
    BY <2>3 DEF Rename
  <2>. QED
    BY <2>1, <2>2, <2>3 DEF Others
<1>. QED
  BY <1>1 DEF OnDisk, opened, reading, stream, Lost

(***************************************************************************)
(* With the output over the input, under one name or two, no byte that the *)
(* file had is ever hashed.                                                *)
(***************************************************************************)
THEOREM OverwrittenInputIsLost == Spec => []OwnOutputIsLost
<1>1. Init => Lost
  <2>. SUFFICES ASSUME Init PROVE Lost
    OBVIOUS
  <2>1. Clean(<<>>) /\ Clean(buf)
    BY DiskAssumption DEF Init, InitProgram, Clean
  <2>. QED
    BY <2>1, DiskAssumption DEF Init, InitProgram, Lost
<1>2. InputFileInv /\ Lost /\ [Next]_vars => Lost'
  <2>1. Lost /\ UNCHANGED vars => Lost'
    BY DEF vars, opened, disk, reading, stream, Lost
  <2>. QED
    BY <2>1, ProgramLoses, OthersLose DEF Next
<1>3. Lost => OwnOutputIsLost
  BY DEF Lost, Clean, OwnOutputIsLost, Range
<1>4. Spec => []Lost
  BY <1>1, <1>2, Invariance, PTL DEF Spec
<1>. QED
  BY <1>3, <1>4, PTL

-----------------------------------------------------------------------------
(* All of it together, for the program that InputFile is a part of.        *)

FilesInv == InputFileInv /\ Promised /\ Following /\ Lost

(* The program and the others keep it.                                     *)
LEMMA FilesStep == FilesInv /\ (Program \/ Others) => FilesInv'
BY ProgramKeepsInv, OthersKeepInv, ProgramFollows, OthersFollow, ProgramLoses, OthersLose
   DEF FilesInv

(* It holds before the files are looked up.                                *)
LEMMA FilesStart ==
  ASSUME InitProgram, InitDisk, at = "args"
  PROVE  FilesInv
<1>1. InputFileInv
  BY InputFileStarts DEF Reading
<1>2. Promised /\ Following
  BY DEF Promised, Following, Measuring, Reading
<1>3. Clean(<<>>) /\ Clean(buf)
  BY DiskAssumption DEF InitProgram, Clean
<1>4. Lost
  BY <1>3, DiskAssumption DEF InitProgram, Lost
<1>. QED
  BY <1>1, <1>2, <1>4 DEF FilesInv

(* What comes before leaves the files alone.                               *)
LEMMA FilesUntouched ==
  ASSUME FilesInv, UNCHANGED <<filesize, opened, reading, disk, promised, cut>>,
         at' = at \/ (at = "args" /\ at' \in {"usage", "stat"})
  PROVE  FilesInv'
<1>. USE DEF FilesInv, opened, disk
<1>1. AtStart' /\ HasFiles'
  BY DEF InputFileInv, AtStart, HasFiles, reading, stream, Reading
<1>2. InputFileInv'
  BY <1>1, StillMeasured DEF InputFileInv, InputFileTypeOK, Reading
<1>3. Promised' /\ Following'
  BY DEF Promised, Following, Measuring, Reading, Begins, Kept, reading, stream
<1>4. Lost'
  BY DEF Lost, Reading, reading, stream
<1>. QED
  BY <1>2, <1>3, <1>4

(* What it says of the hashes.                                             *)
LEMMA FilesResults ==
  FilesInv => HashedAsLongAsSize /\ HashedAsPromised /\ OwnOutputIsLost
<1>1. InputFileInv => HashedAsLongAsSize
  BY DEF InputFileInv, Measured, HashedAsLongAsSize
<1>2. Lost => OwnOutputIsLost
  BY DEF Lost, Clean, OwnOutputIsLost, Range
<1>. QED
  BY <1>1, <1>2, PromiseKept DEF FilesInv
=============================================================================
