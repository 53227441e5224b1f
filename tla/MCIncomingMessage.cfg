\* Every kind of item alone, pairs of attachments, triples of entities; DEBUG on or off.
SPECIFICATION Spec
CONSTANTS
  Commands <- SomeCommands
CHECK_DEADLOCK FALSE
INVARIANT MessageIsFaithful
INVARIANT EditIsWhole
INVARIANT UnknownIsTolerated
INVARIANT RefusalTellsWhy
