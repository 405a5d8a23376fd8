SPECIFICATION Spec
CONSTANTS
  Ids = {1}
  OUTBOX = 2
  INBOUND = 1
  WINDOW = 2
  SILENCE = 1
  Sizes = {1, 2}
  Asks = {"Request", "Websocket"}
  Kinds = {"Body", "Message", "End", "Close"}
  Speaks = {"Health", "Goodbye", "Rejection"}
  Keepalive = FALSE
  MaxIn = 3
  MaxOut = 2
  MaxWire = 1
  MaxSessions = 1
CHECK_DEADLOCK FALSE
INVARIANTS TypeOK CreditConserved RelayNotFlooded UploadsCredited LastWord
