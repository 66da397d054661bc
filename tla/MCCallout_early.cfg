SPECIFICATION Spec
CONSTANTS
  Callouts = {c1, c2}
  MaxTime = 3
PROPERTY NotEarly
