CONSTANTS
  Slots = 3
  MaxAsked = 4
  MaxEvents = 2
SPECIFICATION Spec
CHECK_DEADLOCK FALSE
INVARIANTS TypeOK InOrder
PROPERTIES NotReplaced AdStarts
