SPECIFICATION Spec
CONSTANTS
  MaxStripc = 1
  Pens = {0, 1}
  Kinds <- MCKinds
  NPtsMax = 2
  Grow = 1
  Xs = {0, 3, 4, 6, 7, 11}
  Ys <- MCYs
  YTop = 10
  MaxPoints = 5
CHECK_DEADLOCK FALSE
INVARIANT PensApart
