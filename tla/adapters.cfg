SPECIFICATION FairSpec
CONSTANTS
  MaxEvents = 3
  Overlaps = FALSE
  Faults = {"OCP_VBUS", "OCP_VCONN", "OVP_VBUS"}
  MaxFailures = 1
CHECK_DEADLOCK FALSE
INVARIANTS AdaptersTypeOK NothingStranded OneOutcomeEach CcUpToDate OnePathUnlessFailed InPosition NeverSourceIntoSink
PROPERTIES AllReported SteadyIsTold Recovers
