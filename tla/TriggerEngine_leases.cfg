SPECIFICATION Spec
CONSTANTS
  Timers = {}
  Schedules = {s}
  Watches = {w}
  Managed = {}
  Objects = {o1}
  Ticks = {t1, t2}
  None = None
  LeaseLen = 3
  HeartbeatEvery = 1
  Period = 1
  MaxAge = 3
  MaxCrashes = 1
  Faulty = {s, w}
SYMMETRY AnyTick
INVARIANTS TypeOK LeaseExcludes ToldOncePerCrash
