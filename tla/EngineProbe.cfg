CONSTANTS
  AutoTask = auto
  Tasks = {auto, manual}
  MaxTries = 2
  Ports = {p1, p2, p3}
  Procs = {c1, c2}
  MaxCmds = 1
  JobObject = FALSE
  Environments = {{}}
  None = None
SPECIFICATION EngineSpec
SYMMETRY Symmetry
INVARIANT ChecksProbeTheTunnel
