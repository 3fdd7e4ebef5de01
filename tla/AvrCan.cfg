SPECIFICATION Spec
CONSTANTS
  Devices <- MCDevices
  RXF1 <- MCRXF1
  Second <- MCSecond
  Misread <- MCMisread
  Commands <- MCCommands
  Replies <- MCReplies
  Payloads <- MCPayloads
  Stale = Stale
  MaxLen = 1
  Free = Free
INVARIANTS
  TypeOK
  OnlyForMe
  NotInSecond
PROPERTIES
  RepliesKept
