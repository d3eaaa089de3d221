-------------------------------- MODULE Disk --------------------------------
(***************************************************************************)
(* The files there may be and what may be in them.                         *)
(***************************************************************************)
EXTENDS Naturals

CONSTANTS
  Inodes,         \* the files there may be
  Bytes,          \* what is in the files
  NewBytes,       \* what others write later
  PacketSize,     \* 188
  BufferSize      \* the buffer of a stream: 4096

NoFile       == "none"        \* a name of nothing
NotRegular   == "directory"   \* a name of something that is no file
Stdout       == "stdout"
Stale        == "stale"       \* a byte of buf before the first read
ReportByte   == "report"      \* stands for all that is printed

ASSUME DiskAssumption ==
  /\ PacketSize \in Nat \ {0}
  /\ BufferSize \in Nat \ {0}
  /\ Inodes \cap {NoFile, NotRegular, Stdout} = {}
  /\ Bytes \cap NewBytes = {}
  /\ (Bytes \cup NewBytes) \cap {Stale, ReportByte} = {}
=============================================================================
