CONSTANTS
  Jobs = {j1, j2, j3}
  SubLists = {s1}
  HasSocks = TRUE
  Environments = {{"write_fails"}, {"read_fails", "write_fails"}}
  None = None
SPECIFICATION FairSpec
INVARIANTS TypeOK OneFetchAtATime TorServesItsJob
PROPERTIES AccountsSurvive EveryFetchEnds
