CONSTANTS
  capacity_bytes = 5
  kHeader = 2
  Base = 2
  Wrap = 16
  OutSize = 3
  NoMessage = NoMessage
  Messages <- MCMessages
SPECIFICATION Spec
INVARIANT QueueIntact
PROPERTIES Delivers CallsReturn
