SPECIFICATION Spec
CONSTANTS
  a = a
  b = b
  Omitted = Omitted
  Teammates = {a, b}
  Keys = {"models"}
  Subs = {1, 2}
  Capacity = 3
  RoomDepth = 1
  InfoDepth = 1
  PhoneMax = 1
  Scenes <- MCScenes
CHECK_DEADLOCK FALSE
INVARIANTS SeatIsServedInOrder ClientIsInStep
PROPERTIES CutEndsWork SeatSettles
