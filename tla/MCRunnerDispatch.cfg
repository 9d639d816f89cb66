\* One request and its retry over two sessions that break; one request of the
\* gateway with up to two images or frames and two withdrawals; conversations
\* of two messages, answers of two items.  It ends.
SPECIFICATION MCSpec
CONSTANTS
  r1 = r1  r2 = r2  q1 = q1  NoRemote = NoRemote
  RemoteRunner = {r1, r2}
  Request = {q1}
  Streaming = {q1}
  Removable = {r2}
  MaxSessions = 2
  MaxInflight = 1
  EventCap = 2
  MaxChunks = 1
  MaxImages = 2
  MaxChanges = 2
  ModelOrder <- MCModelOrder
  Requested <- MCRequested
  MaxMessages = 2
  MaxBlocks = 3
  Asker = {a1, a2}
  MaxItems = 2
  MaxParts = 2
  MaxPieces = 2
  MaxModelChanges = 2
INVARIANTS UpstreamAtMostOnce AnswerDelivered ChargedAsExecuted DispatchAuthorized AdaptersFaithful
CHECK_DEADLOCK FALSE
