SPECIFICATION Spec
CONSTANTS
  Clients <- Two
  Script <- Mixed
  Pipelining <- One
  MaxConns = 1
  IdleTimeout = 1
INVARIANT TypeOK
INVARIANT AnswersMatchRequests
INVARIANT NoRequestWaits
PROPERTY SlotReleased
