SPECIFICATION BootSpec
CONSTANTS
  Lists <- MCAny
  SvcMax = 18
  HpetKinds = {"absent", "zero", "periodic", "oneshot"}
  Sleeps = 2
  SleepMs = 2
  MaxEvents = 2
INVARIANTS
  BootSound
PROPERTIES
  LineReleased
  BootProgress
