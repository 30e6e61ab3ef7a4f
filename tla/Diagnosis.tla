----------------------------- MODULE Diagnosis -----------------------------
(***************************************************************************)
(* One diagnosis after the other: Orchestrator.diagnose with the probes of *)
(* diagnosis/*.py and how each turns what it saw into an observation.      *)
(*                                                                         *)
(* The network answers as it likes and may change at any moment.  Only the *)
(* UDP servers are remembered between probes, because two probes ask them; *)
(* every other answer is chosen when it is asked for.  A lost packet is a   *)
(* change of the servers.                                                  *)
(***************************************************************************)
EXTENDS Decision, FiniteSets

CONSTANTS
  Servers,  \* CONFIG.targets.external_ips
  Speeds    \* medians of a speed test, in kbps

ASSUME DiagnosisAssumption == Speeds \subseteq Nat

VARIABLES
  phase,     \* what diagnose() waits for
  replies,   \* what each server does with a DNS query over UDP
  steady,    \* the servers have not changed since the diagnosis began
  resolves,  \* system_dns_ok
  udp,       \* udp_status
  doh,       \* doh_res
  states     \* the results of the layers, which become self.states

vars == <<phase, replies, steady, resolves, udp, doh, states>>

Phases == {"geolocation", "captive", "health", "resolver", "query", "doh",
           "random_name", "dpi", "speed", "udp", "ready", "resting"}

\* What send_dns_query returns: an answer section, a good answer that is empty,
\* an error, an answer to another question, or None.
Replies == {"answer", "empty", "error", "spoofed", "none"}

\* The three outcomes of a test that may succeed, be dropped, or confuse.
Outcomes == {"ok", "dropped", "unknown"}

\* What a request for generate_204 brings back: no content, some page, a
\* redirect to the consent page, the page of the filter with status 200, a
\* redirect to it, or an exception.
Pages == {"no_content", "page", "consent", "filter_page", "filter_redirect", "exception"}

\* The results before the probes.
Nothing == [dns |-> "unseen", dpi |-> "unseen", speed |-> "unseen", udp |-> "unseen"]

TypeOK ==
  /\ phase \in Phases
  /\ replies \in [Servers -> Replies]
  /\ steady \in BOOLEAN
  /\ resolves \in BOOLEAN
  /\ udp \in Outcomes
  /\ doh \in Outcomes
  /\ phase = "ready" => states \in Observation

-----------------------------------------------------------------------------
\* check_direct_health: a status of 200 or 204 is good, whatever the body.
LooksHealthy(page) == page \in {"no_content", "page", "filter_page"}

\* udp_status of test_dns_layer, from one server.
UdpStatus(reply) ==
  CASE reply = "none"                -> "dropped"
    [] reply \in {"spoofed", "error"} -> "unknown"
    [] OTHER                         -> "ok"

\* test_doh_resolution, from the set of what the endpoints gave.
DohStatus(results) ==
  CASE "ok" \in results        -> "ok"
    [] results = {"dropped"}   -> "dropped"
    [] OTHER                   -> "unknown"

\* Mutation: a broken system resolver needs both other ways to work.
DnsLayerNeedsBoth(publicFound) ==
  IF publicFound THEN "dns_hijacked"
  ELSE IF ~resolves /\ udp = "ok" /\ doh = "ok" THEN "dns_system_broken"
  ELSE IF udp = "dropped" /\ doh = "ok" THEN "udp_dns_blocked"
  ELSE IF udp = "dropped" /\ doh = "dropped" THEN "dns_dropped"
  ELSE IF "unknown" \in {udp, doh} THEN "dns_unknown"
  ELSE "dns_ok"

\* Mutation: one clear outcome is enough.
DnsLayerTrustsOne(publicFound) ==
  IF publicFound THEN "dns_hijacked"
  ELSE IF ~resolves /\ "ok" \in {udp, doh} THEN "dns_system_broken"
  ELSE IF udp = "dropped" /\ doh = "ok" THEN "udp_dns_blocked"
  ELSE IF udp = "dropped" /\ doh = "dropped" THEN "dns_dropped"
  ELSE IF udp = "unknown" /\ doh = "unknown" THEN "dns_unknown"
  ELSE "dns_ok"

\* What test_dns_layer concludes, when it knows whether a random name has a
\* public address.
DnsLayer(publicFound) ==
  IF publicFound THEN "dns_hijacked"
  ELSE IF ~resolves /\ "ok" \in {udp, doh} THEN "dns_system_broken"
  ELSE IF udp = "dropped" /\ doh = "ok" THEN "udp_dns_blocked"
  ELSE IF udp = "dropped" /\ doh = "dropped" THEN "dns_dropped"
  ELSE IF "unknown" \in {udp, doh} THEN "dns_unknown"
  ELSE "dns_ok"

\* What test_dpi_layer takes for a free site.
SiteLooksFree(page) == page \in {"no_content", "consent"}

\* What it takes for a blocked one.
SiteIsFiltered(page) == page \in {"filter_page", "filter_redirect"}

\* test_dpi_layer for what the two sites gave.
Behaviour(google, youtube) ==
  CASE SiteLooksFree(google) /\ SiteLooksFree(youtube)   -> "dpi_none"
    [] SiteLooksFree(google) /\ SiteIsFiltered(youtube)  -> "dpi_rst"
    [] ~SiteLooksFree(google) /\ ~SiteLooksFree(youtube) -> "dpi_aggressive"
    [] OTHER                                             -> "dpi_unknown"

\* Mutation: nothing stands in for a missing packet driver.
DpiLayerWithoutFallback(kernel, google, youtube) ==
  CASE kernel = "rst"   -> "dpi_aggressive"
    [] kernel = "quiet" -> "dpi_none"
    [] OTHER            -> "none"

\* test_kernel_dpi, and test_dpi_layer where there is no packet driver.
DpiLayer(kernel, google, youtube) ==
  CASE kernel = "rst"   -> "dpi_aggressive"
    [] kernel = "quiet" -> "dpi_none"
    [] OTHER            -> Behaviour(google, youtube)

\* test_throttling for the medians of the national and international speeds.
SpeedLayer(national, international) ==
  IF international = 0 THEN IF national > 0 THEN "intl_cut" ELSE "speed_failed"
  ELSE IF international < 20 /\ national > 3 * international THEN "throttled_intl"
  ELSE IF international < 500 THEN "speed_slow"
  ELSE "speed_ok"

\* Mutation: one silent server is enough.
UdpLayerOneSilent(answers) ==
  CASE "none" \in answers   -> "udp_dropped"
    [] "answer" \in answers -> "udp_ok"
    [] OTHER                -> "udp_unknown"

\* test_udp_status, from the set of what the servers gave.
UdpLayer(answers) ==
  CASE "answer" \in answers -> "udp_ok"
    [] answers = {"none"}   -> "udp_dropped"
    [] OTHER                -> "udp_unknown"

-----------------------------------------------------------------------------
Init ==
  /\ phase = "geolocation"
  /\ replies \in [Servers -> Replies]
  /\ steady = TRUE
  /\ resolves = FALSE
  /\ udp = "unknown"
  /\ doh = "unknown"
  /\ states = Nothing

\* What the probes found.
found == <<resolves, udp, doh, states>>

\* The network does something else with UDP from now on.
Shift ==
  /\ replies' \in [Servers -> Replies]
  /\ steady' = FALSE
  /\ UNCHANGED <<phase, found>>

\* A probe is over and diagnose() goes on.
Passes(from, next) ==
  /\ phase = from
  /\ phase' = next
  /\ UNCHANGED <<replies, steady>>

\* check_geolocation: not in the country, or in it or not to be told.
Geolocate ==
  /\ \E next \in {"captive", "resting"} : Passes("geolocation", next)
  /\ UNCHANGED found

\* check_captive_portal.
CheckPortal ==
  /\ \E next \in {"health", "resting"} : Passes("captive", next)
  /\ UNCHANGED found

\* check_direct_health: two good answers of three are enough.
CheckHealth ==
  /\ \E google, youtube \in Pages, cloudflare \in BOOLEAN :
       LET good == {s \in {"google", "youtube", "cloudflare"} :
                      CASE s = "google"  -> LooksHealthy(google)
                        [] s = "youtube" -> LooksHealthy(youtube)
                        [] OTHER         -> cloudflare}
       IN Passes("health", IF Cardinality(good) >= 2 THEN "resting" ELSE "resolver")
  /\ UNCHANGED found

\* getaddrinfo of a name that exists.
AskResolver ==
  /\ Passes("resolver", "query")
  /\ resolves' \in BOOLEAN
  /\ UNCHANGED <<udp, doh, states>>

\* send_dns_query to a server picked at random.
AskServer ==
  /\ Passes("query", "doh")
  /\ \E s \in Servers : udp' = UdpStatus(replies[s])
  /\ UNCHANGED <<resolves, doh, states>>

\* One request to every DoH endpoint.
AskDoh ==
  /\ Passes("doh", "random_name")
  /\ \E results \in SUBSET Outcomes \ {{}} : doh' = DohStatus(results)
  /\ UNCHANGED <<resolves, udp, states>>

\* getaddrinfo of a name that does not exist; the phase has its result.
AskRandomName ==
  /\ Passes("random_name", "dpi")
  /\ \E publicFound \in BOOLEAN : states' = [states EXCEPT !.dns = DnsLayer(publicFound)]
  /\ UNCHANGED <<resolves, udp, doh>>

\* The last disjunct: no session could be opened.
TestDpi ==
  /\ Passes("dpi", "speed")
  /\ \/ \E kernel \in {"absent", "quiet", "rst"}, google, youtube \in Pages :
           states' = [states EXCEPT !.dpi = DpiLayer(kernel, google, youtube)]
     \/ states' = [states EXCEPT !.dpi = "dpi_unknown"]
  /\ UNCHANGED <<resolves, udp, doh>>

\* Downloads from inside and outside the country.
TestSpeed ==
  /\ Passes("speed", "udp")
  /\ \E national, international \in Speeds :
       states' = [states EXCEPT !.speed = SpeedLayer(national, international)]
  /\ UNCHANGED <<resolves, udp, doh>>

\* Every server is asked; the diagnosis is ready for the rules.
TestUdp ==
  /\ Passes("udp", "ready")
  /\ states' = [states EXCEPT !.udp = UdpLayer(Range(replies))]
  /\ UNCHANGED <<resolves, udp, doh>>

\* Later the engine diagnoses again.
Again ==
  /\ phase \in {"ready", "resting"}
  /\ phase' = "geolocation"
  /\ steady' = TRUE
  /\ resolves' = FALSE
  /\ udp' = "unknown"
  /\ doh' = "unknown"
  /\ states' = Nothing
  /\ UNCHANGED replies

Next ==
  \/ Shift
  \/ Geolocate \/ CheckPortal \/ CheckHealth
  \/ AskResolver \/ AskServer \/ AskDoh \/ AskRandomName
  \/ TestDpi \/ TestSpeed \/ TestUdp
  \/ Again

Spec == Init /\ [][Next]_vars

-----------------------------------------------------------------------------
(***************************************************************************)
(* Properties.                                                             *)
(***************************************************************************)

\* DNS is called healthy only when the resolver of the system found the name that
\* exists and a direct query was answered without an error (test_dns_layer).  DoH
\* may have been dropped and the random name may have a private address.
DnsOkIsEarned ==
  states.dns = "dns_ok" => resolves /\ udp = "ok"

\* Where no way to resolve a name worked, the rules name DNS interference,
\* however confusing the three failures were.
DnsOutageIsNamed ==
  phase = "ready" /\ ~resolves /\ udp # "ok" /\ doh # "ok" =>
    "dns_interference" \in Evaluate(states)

\* As long as the network keeps its ways, two probes that ask the same servers
\* minutes apart do not contradict each other: UDP is not called dropped after
\* a direct query was answered, though one asks a random server and the other
\* all of them.
UdpProbesAgree ==
  phase = "ready" /\ steady /\ states.dns = "dns_ok" => states.udp # "udp_dropped"

=============================================================================
