SPECIFICATION FairSpec
CONSTANTS
  Timers = {x}
  Schedules = {s}
  Watches = {}
  Managed = {x}
  Objects = {}
  Ticks = {t1, t2}
  None = None
  LeaseLen = 3
  HeartbeatEvery = 1
  Period = 1
  MaxAge = 2
  MaxCrashes = 1
  Faulty = {}
INVARIANT TimerFiresOnce
PROPERTIES ScheduleForward DueTimerSettles
