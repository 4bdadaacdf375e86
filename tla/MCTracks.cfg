SPECIFICATION MCSpec
CONSTANT SectorBytes = 3
CHECK_DEADLOCK FALSE
INVARIANTS
  ResultsInTrackOrder LossBounded AcceptedLosesOnlyEnds MisfiledOnlyByLostMarks
PROPERTY Terminates
