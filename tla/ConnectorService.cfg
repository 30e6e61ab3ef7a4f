CONSTANTS
  Tasks = {t1, t2}
  Ports = {p1, p2, p3}
  Procs = {c1, c2}
  MaxCmds = 1
  JobObject = FALSE
  Environments = {{"child_dies", "prepare_raises"}}
  None = None
SPECIFICATION FairSpec
PROPERTIES ImplementsFairService EveryCallReturns
