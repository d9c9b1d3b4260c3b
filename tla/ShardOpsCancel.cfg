SPECIFICATION Spec
CONSTANTS
  Ops = {o1, o2}
  SOCKET_CAP = 1
PROPERTIES
  CancelledNeverDelivered
