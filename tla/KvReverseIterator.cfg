SPECIFICATION Spec
CONSTANTS
  MaxKey = 3
  Iterator = {i1, i2}
INVARIANT
  EqualReverseIteratorsStepBackAlike
CHECK_DEADLOCK FALSE
