SPECIFICATION AdapterSpec
CONSTANTS
  Width = 9
  Radix = 2
  Microsecond = 2
  Millisecond = 4
  Minute = 64
  Hour = 128
  Setups <- AllSetups
  Origins <- SomeOrigins
  GroupNames <- SomeGroupNames
  Attrs <- SomeAttrs
  Depth <- SomeDepth
  Symbols <- AllSymbols
  TypedCalls <- SomeTypedCalls
  StringCalls <- SomeStringCalls
  BoundAttrs <- SomeBoundAttrs
  Contexts <- SomeContexts
  SlogLevels <- SomeSlogLevels
  MaxHandlers = 4
INVARIANTS AttrsAsBound LinesReadBack EnabledAgrees
CHECK_DEADLOCK FALSE
