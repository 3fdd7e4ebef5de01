SPECIFICATION LiveSpec
CONSTANTS
  Reg = 8
  Wide = 128
  Mhz = 3
  Prescalers <- MCPrescalers
  Delays <- MCDelays
  Functions = {onTimeout, onOther}
  NoCall = NoCall
INVARIANTS
  OnCount
PROPERTIES
  KeepsPromise
  Rings
