SPECIFICATION Spec
CONSTANTS
  Caller = Caller
  Other = Other
  Absent = Absent
  Empty = Empty
  Calls <- AllCalls
  Setups <- AllSetups
  TTL = 1
  Leeway = 1
  MaxTime = 4
INVARIANTS TypeOK ActsForItsCaller ForwardedWithPermission PromptTokenAccepted LateTokenRefused AnswerIsTrue
