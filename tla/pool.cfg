SPECIFICATION Spec
CONSTANTS
  NoEntry = NoEntry
  NoBuffer = NoBuffer
  NoCall = NoCall
  Callers = {p1, p2}
  Entries = {e1, e2, e3, e4}
  Buffers = {b1, b2}
  ChannelSize = 1
  MayBlock = {p1}
  MaxCalls = 2
SYMMETRY Symmetry
INVARIANTS WrittenAsLogged OneOwner
CHECK_DEADLOCK FALSE
