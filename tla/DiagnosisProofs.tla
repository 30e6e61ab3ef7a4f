-------------------------- MODULE DiagnosisProofs --------------------------
(***************************************************************************)
(* Theorems about Diagnosis, for every set of servers and of speeds, with  *)
(* the proofs TLAPS checks.                                                *)
(***************************************************************************)
EXTENDS Diagnosis, TLAPS

\* What the probes of each layer may conclude.
DnsResults == {"dns_ok", "dns_dropped", "dns_hijacked", "dns_system_broken",
               "udp_dns_blocked", "dns_unknown"}
DpiResults == {"dpi_none", "dpi_rst", "dpi_aggressive", "dpi_unknown"}
SpeedResults == {"speed_ok", "speed_slow", "throttled_intl", "intl_cut", "speed_failed"}
UdpResults == {"udp_ok", "udp_dropped", "udp_unknown"}

\* The phases after the probe of a layer.
UdpTested == {"ready"}
SpeedTested == UdpTested \cup {"udp"}
DpiTested == SpeedTested \cup {"speed"}
DnsTested == DpiTested \cup {"dpi"}

\* The phases after the query over UDP.
Queried == DnsTested \cup {"doh", "random_name"}

\* The result of a layer is there exactly when its probe is over.
ResultsInv ==
  /\ states \in [dns : DnsResults \cup {"unseen"}, dpi : DpiResults \cup {"unseen"},
                 speed : SpeedResults \cup {"unseen"}, udp : UdpResults \cup {"unseen"}]
  /\ phase \in DnsTested <=> states.dns # "unseen"
  /\ phase \in DpiTested <=> states.dpi # "unseen"
  /\ phase \in SpeedTested <=> states.speed # "unseen"
  /\ phase \in UdpTested <=> states.udp # "unseen"

\* While the servers stay as they were, a good udp_status has a server that
\* answers to vouch for it, and test_udp_status meets that server again.
WitnessInv ==
  /\ phase \in Queried /\ steady /\ udp = "ok" =>
       \E s \in Servers : replies[s] \in {"answer", "empty"}
  /\ steady /\ udp = "ok" => states.udp # "udp_dropped"

\* When no way to resolve a name worked, test_dns_layer said so.
OutageInv ==
  phase \in DnsTested /\ ~resolves /\ udp # "ok" /\ doh # "ok" =>
    states.dns \in {"dns_dropped", "dns_hijacked", "dns_unknown"}

\* The inductive invariant.
Inv == TypeOK /\ ResultsInv /\ DnsOkIsEarned /\ WitnessInv /\ OutageInv

USE DEF UdpTested, SpeedTested, DpiTested, DnsTested

-----------------------------------------------------------------------------
\* What the classifications of the layers return.
LEMMA LayerTypes ==
  ASSUME udp \in Outcomes, doh \in Outcomes, resolves \in BOOLEAN
  PROVE  /\ \A publicFound \in BOOLEAN : DnsLayer(publicFound) \in DnsResults
         /\ \A kernel, google, youtube : DpiLayer(kernel, google, youtube) \in DpiResults
         /\ \A national, international : SpeedLayer(national, international) \in SpeedResults
         /\ \A answers : UdpLayer(answers) \in UdpResults
         /\ \A reply : UdpStatus(reply) \in Outcomes
         /\ \A results : DohStatus(results) \in Outcomes
<1>1. \A publicFound \in BOOLEAN : DnsLayer(publicFound) \in DnsResults
  BY DEF DnsLayer, DnsResults
<1>2. \A kernel, google, youtube : DpiLayer(kernel, google, youtube) \in DpiResults
  <2>1. \A google, youtube : Behaviour(google, youtube) \in DpiResults
    BY DEF Behaviour, DpiResults
  <2>2. QED
    BY <2>1 DEF DpiLayer, DpiResults
<1>3. \A national, international : SpeedLayer(national, international) \in SpeedResults
  BY DEF SpeedLayer, SpeedResults
<1>4. \A answers : UdpLayer(answers) \in UdpResults
  BY DEF UdpLayer, UdpResults
<1>5. \A reply : UdpStatus(reply) \in Outcomes
  BY DEF UdpStatus, Outcomes
<1>6. \A results : DohStatus(results) \in Outcomes
  BY DEF DohStatus, Outcomes
<1>7. QED
  BY <1>1, <1>2, <1>3, <1>4, <1>5, <1>6

\* test_dns_layer says dns_ok only with a working resolver and a good direct query.
LEMMA DnsLayerEarnsOk ==
  ASSUME udp \in Outcomes, doh \in Outcomes, resolves \in BOOLEAN,
         NEW publicFound \in BOOLEAN, DnsLayer(publicFound) = "dns_ok"
  PROVE  resolves /\ udp = "ok"
  BY DEF DnsLayer, Outcomes

\* Of those with no working way, all come out as one of three failures.
LEMMA DnsLayerNamesOutage ==
  ASSUME udp \in Outcomes, doh \in Outcomes, ~resolves, udp # "ok", doh # "ok",
         NEW publicFound \in BOOLEAN
  PROVE  DnsLayer(publicFound) \in {"dns_dropped", "dns_hijacked", "dns_unknown"}
  BY DEF DnsLayer, Outcomes

\* The rules have a diagnosis for each of the three.
LEMMA FailuresAreInterference ==
  ASSUME NEW o \in Observation, o.dns \in {"dns_dropped", "dns_hijacked", "dns_unknown"}
  PROVE  "dns_interference" \in Evaluate(o)
<1>1. PICK r \in Rules : /\ r.on = "dns" /\ o.dns \in r.in
                        /\ r.diagnosis = "dns_interference"
  BY DEF Rules
<1>2. r \in Matching(o)
  BY <1>1 DEF Matching, Observation
<1>3. QED
  BY <1>1, <1>2 DEF Evaluate

\* The first diagnosis begins in a state that satisfies the invariant.
LEMMA InitInv == Init => Inv
<1> SUFFICES ASSUME Init PROVE Inv
  OBVIOUS
<1>1. TypeOK
  BY DEF Init, TypeOK, Phases, Outcomes
<1>2. ResultsInv
  BY DEF Init, ResultsInv, Nothing
<1>3. DnsOkIsEarned /\ WitnessInv /\ OutageInv
  BY DEF Init, DnsOkIsEarned, WitnessInv, OutageInv, Nothing
<1>4. QED
  BY <1>1, <1>2, <1>3 DEF Inv

\* Every step of a diagnosis preserves the invariant.
LEMMA NextInv == Inv /\ [Next]_vars => Inv'
<1> SUFFICES ASSUME Inv, [Next]_vars PROVE Inv'
  OBVIOUS
<1> USE DEF Inv, TypeOK, ResultsInv, DnsOkIsEarned, WitnessInv, OutageInv, Phases, Queried,
            Observation, DnsResults, DpiResults, SpeedResults, UdpResults
<1>1. CASE Shift
  <2>1. TypeOK'
    <3>1. replies' \in [Servers -> Replies] /\ steady' \in BOOLEAN
      BY <1>1 DEF Shift
    <3>2. UNCHANGED <<phase, resolves, udp, doh, states>>
      BY <1>1 DEF Shift, found
    <3>3. QED
      BY <3>1, <3>2
  <2>2. ResultsInv' /\ DnsOkIsEarned' /\ OutageInv'
    BY <1>1 DEF Shift, found
  <2>3. WitnessInv'
    BY <1>1 DEF Shift
  <2>4. QED
    BY <2>1, <2>2, <2>3
<1>2. CASE Geolocate
  BY <1>2 DEF Geolocate, Passes, found
<1>3. CASE CheckPortal
  BY <1>3 DEF CheckPortal, Passes, found
<1>4. CASE CheckHealth
  <2>1. \E next \in {"resting", "resolver"} : Passes("health", next)
    BY <1>4 DEF CheckHealth
  <2>2. QED
    BY <1>4, <2>1 DEF CheckHealth, Passes, found
<1>5. CASE AskResolver
  BY <1>5 DEF AskResolver, Passes
<1>6. CASE AskServer
  <2>1. PICK s \in Servers : udp' = UdpStatus(replies[s])
    BY <1>6 DEF AskServer
  <2>2. udp' \in Outcomes
    BY <2>1, LayerTypes
  <2>3. udp' = "ok" => replies[s] \in {"answer", "empty"}
    BY <2>1 DEF UdpStatus, Replies
  <2>4. QED
    BY <1>6, <2>2, <2>3 DEF AskServer, Passes
<1>7. CASE AskDoh
  <2>1. doh' \in Outcomes
    BY <1>7, LayerTypes DEF AskDoh
  <2>2. QED
    BY <1>7, <2>1 DEF AskDoh, Passes
<1>8. CASE AskRandomName
  <2>1. PICK publicFound \in BOOLEAN : states' = [states EXCEPT !.dns = DnsLayer(publicFound)]
    BY <1>8 DEF AskRandomName
  <2>2. DnsLayer(publicFound) \in DnsResults
    BY LayerTypes
  <2>3. DnsLayer(publicFound) = "dns_ok" => resolves /\ udp = "ok"
    BY DnsLayerEarnsOk
  <2>4. ~resolves /\ udp # "ok" /\ doh # "ok" =>
          DnsLayer(publicFound) \in {"dns_dropped", "dns_hijacked", "dns_unknown"}
    BY DnsLayerNamesOutage
  <2>5. QED
    BY <1>8, <2>1, <2>2, <2>3, <2>4 DEF AskRandomName, Passes
<1>9. CASE TestDpi
  <2>1. PICK result \in DpiResults : states' = [states EXCEPT !.dpi = result]
    BY <1>9, LayerTypes DEF TestDpi
  <2>2. QED
    BY <1>9, <2>1 DEF TestDpi, Passes
<1>10. CASE TestSpeed
  <2>1. PICK result \in SpeedResults : states' = [states EXCEPT !.speed = result]
    BY <1>10, LayerTypes DEF TestSpeed
  <2>2. QED
    BY <1>10, <2>1 DEF TestSpeed, Passes
<1>11. CASE TestUdp
  <2>1. UdpLayer(Range(replies)) \in UdpResults
    BY LayerTypes
  <2>2. steady /\ udp = "ok" => UdpLayer(Range(replies)) # "udp_dropped"
    <3>1. ASSUME NEW s \in Servers, replies[s] \in {"answer", "empty"}
          PROVE  Range(replies) # {"none"}
      BY <3>1 DEF Range
    <3>2. QED
      BY <1>11, <3>1 DEF TestUdp, Passes, UdpLayer
  <2>3. QED
    BY <1>11, <2>1, <2>2 DEF TestUdp, Passes
<1>12. CASE Again
  BY <1>12 DEF Again, Outcomes, Nothing
<1>13. CASE UNCHANGED vars
  BY <1>13 DEF vars
<1>14. QED
  BY <1>1, <1>2, <1>3, <1>4, <1>5, <1>6, <1>7, <1>8, <1>9, <1>10, <1>11, <1>12, <1>13
  DEF Next

-----------------------------------------------------------------------------
\* The invariant holds in every reachable state.
THEOREM Invariant == Spec => []Inv
  BY InitInv, NextInv, PTL DEF Spec

\* An observation that reaches the rules has a known result for every layer.
THEOREM ObservationsAreComplete == Spec => []TypeOK
<1>1. Inv => TypeOK
  BY DEF Inv
<1>2. QED
  BY <1>1, Invariant, PTL

\* DNS is called healthy only when the system's resolver and a direct query both
\* worked (test_dns_layer), whatever the network does between the probes.  Nothing
\* is claimed of DoH, or of a random name with a private address.
THEOREM HealthyDnsIsEarned == Spec => []DnsOkIsEarned
<1>1. Inv => DnsOkIsEarned
  BY DEF Inv
<1>2. QED
  BY <1>1, Invariant, PTL

\* For any number of servers, test_udp_status does not call UDP dropped after
\* test_dns_layer called DNS healthy, as long as the servers stay as they are.
THEOREM ProbesAgree == Spec => []UdpProbesAgree
<1>1. Inv => UdpProbesAgree
  BY DEF Inv, DnsOkIsEarned, WitnessInv, UdpProbesAgree
<1>2. QED
  BY <1>1, Invariant, PTL

\* Where no way to resolve a name worked, the rules name DNS interference, for
\* every number of servers and whatever the network does between the probes.
THEOREM OutageIsNamed == Spec => []DnsOutageIsNamed
<1>1. Inv => DnsOutageIsNamed
  <2> SUFFICES ASSUME Inv, phase = "ready", ~resolves, udp # "ok", doh # "ok"
               PROVE  "dns_interference" \in Evaluate(states)
    BY DEF DnsOutageIsNamed
  <2>1. states \in Observation
    BY DEF Inv, TypeOK
  <2>2. states.dns \in {"dns_dropped", "dns_hijacked", "dns_unknown"}
    BY DEF Inv, OutageInv
  <2>3. QED
    BY <2>1, <2>2, FailuresAreInterference
<1>2. QED
  BY <1>1, Invariant, PTL

=============================================================================
