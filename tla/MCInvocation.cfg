SPECIFICATION MCSpec
CONSTANTS
  Names <- MCNames
  NoName = "NULL"
  Number <- MCNumber
  Inodes <- MCInodes
  Bytes <- MCBytes
  NewBytes = {"n"}
  PacketSize = 2
  BufferSize = 3
  MaxArgs = 5
  MaxSize = 5
  MaxDisturbances = 2
INVARIANTS TypeOK LastOnesWin DocumentedForms HashedAsLongAsSize HashedAsPromised OwnOutputIsLost
PROPERTIES OnlyOutputIsWritten Terminates
CHECK_DEADLOCK FALSE
