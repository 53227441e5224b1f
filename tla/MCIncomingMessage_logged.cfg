\* Does every message reach its conversion, whatever is logged?
SPECIFICATION Spec
CONSTANTS
  Commands <- SomeCommands
CHECK_DEADLOCK FALSE
INVARIANT MessageReachesConversion
