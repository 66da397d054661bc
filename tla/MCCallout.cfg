SPECIFICATION Spec
CONSTANTS
  Callouts = {c1, c2}
  MaxTime = 4
INVARIANT QueueInv
INVARIANT NoAbort
INVARIANT NoLostWakeup
PROPERTY ArmedFires
