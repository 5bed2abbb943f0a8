SPECIFICATION ActivationSpec
CONSTANTS
  Mains = {m1, m2}
  MaxUpsets = 2
CHECK_DEADLOCK FALSE
INVARIANT SilentElsewhere
PROPERTY ActiveIsListening
