CONSTANTS
  a = a
  b = b
  c = c
  s1 = s1
  Ids = {a, b, c}
  Tools = {c}
  Phones = {s1}
  Subscribers = {s1}
  Older <- OneOlder
  Depth = 1
  MaxWrites = 3
  MaxFaults = 3
  Disks = {"whole", "tears", "cuts"}
  Cold = Cold
SPECIFICATION LogSpec
CHECK_DEADLOCK FALSE
INVARIANTS FoldIsTrue FeedIsLoad
PROPERTY HistoryStays
