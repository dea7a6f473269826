CONSTANTS
  Session = {1, 2}
  Address = {"a", "b"}
  NoAddress = "none"
  Garbled = "garbled"
  Script <- Typed
  Bodies <- Mails
  DataLines = 1
  Leavers = {1}
  MaxReplies = 0
SPECIFICATION Spec
INVARIANTS TypeOK PartiesKnown ListFaithful GetFaithful Answered
CHECK_DEADLOCK FALSE
