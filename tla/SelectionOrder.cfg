CONSTANTS
  Observations <- SomeObservations
  Personal <- PersonalLinks
  Collected <- CollectedLinks
  Extras <- AllExtras
  Installations <- Installed
  MaxHistory = 1
SPECIFICATION Spec
INVARIANTS TypeOK TriedInOrder LastResortTried UdpOnlyLeftOut AttemptsCarryTraffic NoDowngrade
