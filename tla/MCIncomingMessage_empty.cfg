\* Is an empty mention_data really accepted?
SPECIFICATION Spec
CONSTANTS
  Commands <- EntityCommands
CHECK_DEADLOCK FALSE
INVARIANT EmptyMentionDataAccepted
