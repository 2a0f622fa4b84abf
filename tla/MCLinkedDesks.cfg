CONSTANTS
  r1 = r1
  Asker = Asker
  Answerer = Answerer
  Nothing = Nothing
  Desks = {Asker, Answerer}
  Requests = {r1}
  MaxFaults = 2
SPECIFICATION DesksSpec
CHECK_DEADLOCK FALSE
INVARIANTS OnceOverTheLink EndsAgree
PROPERTY LinkStartsFromNothing
