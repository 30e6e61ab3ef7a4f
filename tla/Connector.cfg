CONSTANTS
  Tasks = {t1, t2}
  Ports = {p1, p2, p3}
  Procs = {c1, c2, c3}
  MaxCmds = 2
  JobObject = FALSE
  Environments = {{"child_dies"}, {"prepare_raises", "proxy_cmd_fails", "proxy_cmd_ignored", "child_dies", "exit"}}
  None = None
SPECIFICATION Spec
SYMMETRY Symmetry
VIEW SlotsSeen
INVARIANTS TypeOK OneAttemptAtATime NoBlackHole SessionMatchesChildren
PROPERTIES TestReachesOwnTunnel LostOnlyByFailedReplacement DiagnoseOnlyKeepsProxy
