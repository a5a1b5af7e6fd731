CONSTANTS
  A = a
  B = b
  IdCount = 8
  WhoRetransmits = "protocol_layer"
  FirstRevision <- OneRev2
  MaxMessages <- Send20
  ClientResets <- SoftHardB
  LateOutcomes = TRUE
  MaxEvents = 2
SPECIFICATION FairSpec
CHECK_DEADLOCK FALSE
INVARIANTS DeliveredInOrder RestartsAtZero
PROPERTIES EveryTransmissionConcludes
