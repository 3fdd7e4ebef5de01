SPECIFICATION Spec
CONSTANTS
  Devices <- MCDevices
  Commands <- MCCommands
  Replies <- MCReplies
  Others <- MCOthers
  Payloads <- MCPayloads
  Free = Free
INVARIANTS
  OnlyForMe
  CanInv
  DispatchedAsSent
PROPERTIES
  RepliesKept
