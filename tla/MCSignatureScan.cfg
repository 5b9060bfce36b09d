SPECIFICATION Spec
CONSTANTS
  Signatures = {load, push}
  Bytes = {a, b}
  Wild = wild
  Size = 5
  MaxLength = 3
INVARIANT RunIsRight
PROPERTY RunReturns
CHECK_DEADLOCK FALSE
