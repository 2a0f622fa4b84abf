CONSTANTS
  dm = dm
  side = side
  c1 = c1
  c2 = c2
  None = None
  Nobody = Nobody
  Person = Person
  Agents = {dm, side}
  Mains = {dm}
  Callers = {dm, side, Person}
  Calls = {c1, c2}
  MaxBearer = 2
SPECIFICATION Spec
SYMMETRY Symmetry
INVARIANTS GateIsTrue ContainerIsTrue
