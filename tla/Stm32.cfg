SPECIFICATION Spec
CONSTANTS
  Platform = "STM32"
  PageSize = 4
  AddrMod = 32
  FlashStart = 4
  FlashEnd = 20
  BootSize = 4
  Byte <- MCByte
  Words <- MCWords
  NoWord = NoWord
  Chunks <- MCChunks
  Crc <- MCCrc
  Erased = 1
  Junk = Junk
  Images <- MCImages
INVARIANTS
  CommitAckFaithful
  UnlockedIsOpen
  HandOver
  IInv
PROPERTIES
  OnlyProgDoneEndsSession
  ProgrammingDiscipline
  CommitSucceeds
  KeepsPages
