SPECIFICATION Spec
CONSTANTS
  hook = hook
  shell = shell
  Procs = {hook, shell}
  None = None
  Throttle = 2
  Lockout = 1
  LockoutMax = 2
  Drift = 1
  MaxTime = 2
  MaxSecrets = 2
  MaxTries = 3
  MaxAsks = 1
  MaxMishaps = 1
SYMMETRY Symmetric
INVARIANTS TypeOK SaidIsKept 
PROPERTIES  YesOnce
