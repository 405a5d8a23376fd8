SPECIFICATION Spec
CONSTANTS
  Ids = {1}
  OUTBOX = 4
  INBOUND = 1
  WINDOW = 1
  SILENCE = 1
  Sizes = {2}
  Asks = {"Request"}
  Kinds = {"Body"}
  Speaks = {"Pong", "Hang"}
  Keepalive = TRUE
  MaxIn = 0
  MaxOut = 2
  MaxWire = 1
  MaxSessions = 1
CHECK_DEADLOCK FALSE
PROPERTIES SenderNotStuck RequestsEnd SilenceNoticed
