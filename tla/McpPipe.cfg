\* A client alone and a server: the handshake and two requests after it.
CONSTANTS
  Clients = {"c1"}
  MaxLines = 5
SPECIFICATION Spec
INVARIANT OwnReply
CHECK_DEADLOCK FALSE
