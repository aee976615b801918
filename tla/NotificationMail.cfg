\* Two events, each of which may be delivered three times.
SPECIFICATION FairSpec
CONSTANTS
  e1 = e1
  e2 = e2
  Events = {e1, e2}
  None = None
  MaxCopies = 3
INVARIANTS
  MailInv
PROPERTIES
  EventuallyTold
CHECK_DEADLOCK FALSE
