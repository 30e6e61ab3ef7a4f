CONSTANTS
  AutoTask = auto
  Tasks = {auto, manual}
  MaxTries = 3
  Ports = {p1, p2}
  Procs = {c1}
  MaxCmds = 1
  JobObject = FALSE
  Environments = {{"child_dies", "prepare_raises"}}
  None = None
SPECIFICATION EngineFairSpec
INVARIANTS LoopCanDispatch ConnectedMeansRouted
PROPERTIES NeverForced DegradedRecovers SelectionEnds LossIsNoticed
