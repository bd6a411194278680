SPECIFICATION Spec
CONSTANTS
  Status <- MCStatus
  Rc <- MCRc
INVARIANT
  AcceptedHasQueue
