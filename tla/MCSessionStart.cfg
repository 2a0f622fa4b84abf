CONSTANTS
  t1 = t1
  t2 = t2
  None = None
  Gone = Gone
  Tasks = {t1, t2}
SPECIFICATION FairSpec
CHECK_DEADLOCK FALSE
INVARIANTS BandIsTrue NoStalePolicy
PROPERTIES NoAgentOrphaned NothingHangs
