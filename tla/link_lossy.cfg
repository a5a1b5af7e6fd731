CONSTANTS
  A = a
  B = b
  IdCount = 2
  WhoRetransmits = "protocol_layer"
  FirstRevision <- OneRev2
  MaxMessages <- Send31
  ClientResets <- None
  LateOutcomes = FALSE
  MaxEvents = 2
SPECIFICATION FairSpec
CHECK_DEADLOCK FALSE
INVARIANTS TypeOK
PROPERTIES DropsOnlyRepeatsOrWraps
