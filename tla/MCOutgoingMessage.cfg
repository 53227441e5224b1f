\* Two threads send, reply and edit; three calls.
SPECIFICATION Spec
CONSTANTS
  Threads = {t1, t2}
  Bodies <- SomeBodies
  Extras <- FewExtras
  MaxCalls = 3
SYMMETRY Symmetry
CHECK_DEADLOCK FALSE
INVARIANT MentionsMatchText
INVARIANT PostedIsJson
PROPERTY EditChangesWhatIsGiven
PROPERTY TextReadsAsWritten
