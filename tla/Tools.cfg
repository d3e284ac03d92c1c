SPECIFICATION Spec
CONSTANTS
  Limits <- MCLimits
  DefaultLimit = 2
  MaxTasks = 5
  Instances = {default, other}
  DefaultJobs = default
  Ids = {a, b}
  Controls = {c1, c2}
  NoControl = none
INVARIANTS
  NoTaskLost
  NoOverlap
PROPERTIES
  EveryTaskRuns
  OnlyLiveJobsRun
  JobsKeepRunning
