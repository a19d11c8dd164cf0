SPECIFICATION Spec
CONSTANTS
  Caller = Caller
  Other = Other
  Absent = Absent
  Empty = Empty
  Calls <- TeamCalls
  Setups <- AllSetups
  TTL = 1
  Leeway = 1
  MaxTime = 2
INVARIANT TeamToolsServed
