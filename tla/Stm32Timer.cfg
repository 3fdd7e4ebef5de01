SPECIFICATION LiveSpec
CONSTANTS
  Reg = 8
  Mhz = 3
  Delays <- MCDelays
  Functions = {onTimeout, onOther}
  NoCall = NoCall
INVARIANTS
  OnTime
  IInv
PROPERTIES
  KeepsPromise
  Rings
