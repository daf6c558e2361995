\* Bounds: an environment of 2 variables, loops of at most 4 rounds.
SPECIFICATION ScriptSpec
CONSTANTS
  EnvMax = 2
  MaxLoop = 4
  Programs <- MCPrograms
INVARIANT Documented
CHECK_DEADLOCK FALSE
