CONSTANTS
  A = a
  B = b
  IdCount = 3
  WhoRetransmits = "phy"
  FirstRevision <- BothRev3
  MaxMessages <- Send21
  ClientResets <- SoftDetachBoth
  LateOutcomes = FALSE
  MaxEvents = 2
SPECIFICATION Spec
CHECK_DEADLOCK FALSE
PROPERTIES KeepsPromise
