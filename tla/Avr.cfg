SPECIFICATION LiveSpec
CONSTANTS
  Platform = "AVR"
  PageSize = 4
  AddrMod = 32
  FlashStart = 0
  FlashEnd = 16
  BootSize = 4
  Byte <- MCByte
  Words <- MCWords
  NoWord = NoWord
  Chunks <- MCChunks
  Crc <- MCCrc
  Erased = 1
  Junk = Junk
  Empty = Empty
  Images <- MCImages
INVARIANTS
  CommitAckFaithful
  UnlockedIsOpen
  HandOver
  IInv
PROPERTIES
  ProgrammingDiscipline
  CommitSucceeds
  KeepsPages
  ProgDoneJumps
  CommandsEnd
