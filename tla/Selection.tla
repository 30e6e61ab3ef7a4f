----------------------------- MODULE Selection -----------------------------
(***************************************************************************)
(* One selection after the other: select_and_connect (orchestrator.py) and *)
(* bypass_executor_wrapper (BypssEng.py) rank the candidates of a          *)
(* diagnosis with the scores of Decision and try them in that order, and   *)
(* the outcomes go to the telemetry, from which later scores are computed. *)
(* What an attempt does with its children is the business of module        *)
(* Connector; what it starts is Adapters'.                                 *)
(***************************************************************************)
EXTENDS Decision, Adapters

CONSTANTS
  Observations,  \* what a diagnosis may observe, a subset of Observation
  Personal,      \* personal_configs of cnfg.json, links in file order
  Collected,     \* collected_configs
  Extras,        \* which of "cloudflare_worker", "warp" and "dnstt" cnfg.json has
  Installations, \* sets of binaries that may be installed
  MaxHistory     \* newest rows of strategy_history that the model keeps

ASSUME SelectionAssumption ==
  /\ Observations \subseteq Observation
  /\ \A link \in Range(Personal) \cup Range(Collected) : link \in Link
  /\ Extras \subseteq {"cloudflare_worker", "warp", "dnstt"}
  /\ MaxHistory \in Nat \ {0}

VARIABLES
  binaries, \* the binaries that were found when the program started
  phase,    \* where the cycle is
  obs,      \* orchestrator.states
  queue,    \* candidates of this cycle that were not looked at yet, with their scores
  tried,    \* candidates of this cycle that were attempted, in that order
  history   \* strategy_history, newest row first

vars == <<binaries, phase, obs, queue, tried, history>>

-----------------------------------------------------------------------------
Candidate(tier, place, creds) == [tier |-> tier, place |-> place, creds |-> creds]

\* The links of one list that can be parsed, in their places.
FromFile(tier, links) ==
  {Candidate(tier, i, Parse(links[i])) : i \in {j \in DOMAIN links : Parse(links[j]) # Unsupported}}

\* One candidate behind the links, or none.
Offer(tier, place, protocol, offered) ==
  IF offered THEN {Candidate(tier, place, [protocol |-> protocol])} ELSE {}

\* The three tiers of bypass_executor_wrapper.
Candidates ==
  FromFile(1, Personal)
    \cup FromFile(2, Collected)
    \cup Offer(2, Len(Collected) + 1, "cloudflare_worker", "cloudflare_worker" \in Extras)
    \cup Offer(3, 1, "warp", "warp" \in Extras)
    \cup Offer(3, 2, "psiphon", "psiphon" \in binaries)
    \cup Offer(3, 3, "dnstt", "dnstt" \in Extras /\ "dnstt-client" \in binaries)
    \cup Offer(3, 4, "tor_proxy", TRUE)
    \cup Offer(3, 5, "tor_snowflake", TRUE)

\* A candidate without its score.
Unscored(c) == Candidate(c.tier, c.place, c.creds)

\* What a row of strategy_history may hold.
Protocols ==
  LinkProtocols \cup {"cloudflare_worker", "warp", "psiphon", "dnstt", "tor_proxy", "tor_snowflake"}
Row == [strategy : Protocols \cup {"all_failed"}, condition : SUBSET Diagnoses,
        success : BOOLEAN, age : Ages]

TypeOK ==
  /\ phase \in {"diagnosing", "trying", "calling", "connected", "failed"}
  /\ obs \in Observations
  /\ binaries \in Installations
  /\ \A c \in queue \cup Range(tried) : Unscored(c) \in Candidates /\ c.score \in Nat
  /\ history \in Seq(Row)
  /\ Len(history) <= MaxHistory

Init ==
  /\ binaries \in Installations
  /\ phase = "diagnosing"
  /\ obs \in Observations
  /\ queue = {}
  /\ tried = <<>>
  /\ history = <<>>

-----------------------------------------------------------------------------
\* The rows a query for a strategy and a condition finds.  A condition is the set
\* of the strings that are joined to make it.
Rows(strategy, condition) ==
  Restrict(history, {i \in DOMAIN history : /\ history[i].strategy = strategy
                                            /\ history[i].condition = condition})

\* The condition under which a score asks for rows: the state of the DPI layer.
Asked == {obs.dpi}

\* score_strategy.
ScoreNow(strategy) == Score(strategy, obs, SuccessRate(Rows(strategy, Asked)))

\* Every candidate with its score.
Scored ==
  {[tier |-> c.tier, place |-> c.place, creds |-> c.creds,
    score |-> ScoreNow(c.creds.protocol)] : c \in Candidates}

\* Mutation: the candidates stay in the order of the file.
BeforeInFile(c, d) == c.tier < d.tier \/ (c.tier = d.tier /\ c.place < d.place)

\* The order of ordered_candidates: tier by tier, the best score first, ties in
\* the order of the file.
Before(c, d) ==
  \/ c.tier < d.tier
  \/ /\ c.tier = d.tier
     /\ c.score >= d.score
     /\ c.score = d.score => c.place < d.place

\* The candidate the loop comes to next.
IsNext(c) == c \in queue /\ \A d \in queue \ {c} : Before(c, d)

\* The condition under which outcomes are recorded: all diagnoses, joined.
Condition == Evaluate(obs)

\* Mutation: the query's LIMIT is off by one.
RecordedTooMany(strategy, success) ==
  LET row == [strategy |-> strategy, condition |-> Condition, success |-> success, age |-> 0]
      all == <<row>> \o history
  IN SubSeq(all, 1, IF Len(all) <= MaxHistory THEN Len(all) ELSE MaxHistory + 1)

\* The newest rows after one more.
Recorded(strategy, success) ==
  LET row == [strategy |-> strategy, condition |-> Condition, success |-> success, age |-> 0]
      all == <<row>> \o history
  IN SubSeq(all, 1, IF Len(all) < MaxHistory THEN Len(all) ELSE MaxHistory)

\* The diagnosis is ready: evaluate the rules and score the candidates.
Select ==
  /\ phase = "diagnosing"
  /\ queue' = Scored
  /\ tried' = <<>>
  /\ phase' = "trying"
  /\ UNCHANGED <<binaries, obs, history>>

\* Mutation: the fallbacks go through the cutoff as well.
SkipAny ==
  /\ phase = "trying"
  /\ \E c \in queue :
       /\ IsNext(c)
       /\ c.score <= Cutoff
       /\ queue' = queue \ {c}
  /\ UNCHANGED <<binaries, phase, obs, tried, history>>

\* A candidate that is not worth an attempt is passed over.
Skip ==
  /\ phase = "trying"
  /\ \E c \in queue :
       /\ IsNext(c)
       /\ ~WorthTrying(c.creds.protocol, c.score)
       /\ queue' = queue \ {c}
  /\ UNCHANGED <<binaries, phase, obs, tried, history>>

\* execute_bypass_and_connect is called for the next candidate.
Attempt ==
  /\ phase = "trying"
  /\ \E c \in queue :
       /\ IsNext(c)
       /\ WorthTrying(c.creds.protocol, c.score)
       /\ queue' = queue \ {c}
       /\ tried' = Append(tried, c)
  /\ phase' = "calling"
  /\ UNCHANGED <<binaries, obs, history>>

\* The credentials of the attempt that is under way.
Current == tried[Len(tried)].creds

\* The attempt starts a program; the scan of prepare() for a clean address may
\* find one.
Starts(creds) ==
  /\ Prepared(creds, binaries, TRUE) # NoFile
  /\ Commands(creds, binaries) # {}

\* It connected: the outcome is recorded and the loop is left.
Connects ==
  /\ phase = "calling"
  /\ Starts(Current)
  /\ history' = Recorded(Current.protocol, TRUE)
  /\ phase' = "connected"
  /\ UNCHANGED <<binaries, obs, queue, tried>>

\* It did not: the outcome is recorded and the next candidate follows.
Fails ==
  /\ phase = "calling"
  /\ history' = Recorded(Current.protocol, FALSE)
  /\ phase' = "trying"
  /\ UNCHANGED <<binaries, obs, queue, tried>>

\* Another cycle begins with another diagnosis.
Anew ==
  /\ phase' = "diagnosing"
  /\ obs' \in Observations
  /\ queue' = {}
  /\ tried' = <<>>

\* The attempt raises: the cycle is over and nothing is recorded.
Raises ==
  /\ phase = "calling"
  /\ Anew
  /\ UNCHANGED <<binaries, history>>

\* Nothing is left to try: "all_failed" is recorded.
GiveUp ==
  /\ phase = "trying"
  /\ queue = {}
  /\ history' = Recorded("all_failed", FALSE)
  /\ phase' = "failed"
  /\ UNCHANGED <<binaries, obs, queue, tried>>

\* Later: the rows are older, the engine diagnoses again.
NextCycle ==
  /\ phase \in {"connected", "failed"}
  /\ Anew
  /\ \E later \in Ages :
       history' = [i \in DOMAIN history |->
                     [history[i] EXCEPT !.age = IF @ + later > 4 THEN 4 ELSE @ + later]]
  /\ UNCHANGED binaries

Next ==
  \/ Select \/ Skip \/ Attempt \/ Connects \/ Fails \/ Raises \/ GiveUp
  \/ NextCycle

Spec == Init /\ [][Next]_vars

-----------------------------------------------------------------------------
(***************************************************************************)
(* Properties.                                                             *)
(***************************************************************************)

\* The attempts of a cycle follow the tiers, personal configs first, and
\* within a tier the scores.
TriedInOrder ==
  \A i, j \in DOMAIN tried : i < j =>
    \/ tried[i].tier < tried[j].tier
    \/ tried[i].tier = tried[j].tier /\ tried[i].score >= tried[j].score

\* A selection fails only after the two Tor strategies were attempted, however
\* low every score is.
LastResortTried ==
  phase = "failed" =>
    {"tor_proxy", "tor_snowflake"} \subseteq {tried[i].creds.protocol : i \in DOMAIN tried}

\* Where UDP is dropped no strategy that runs on UDP is attempted, whatever its
\* DPI resistance, its record and the throttling add up to, except WARP, which
\* is exempt from the cutoff.
UdpOnlyLeftOut ==
  obs.udp = "udp_dropped" =>
    \A i \in DOMAIN tried : tried[i].creds.protocol \notin {"hysteria2", "tuic"}

\* Whatever a candidate is carried by: if its attempt starts programs, one of
\* them listens where the connector tests and points the system, ordinary traffic
\* leaves through the tunnel on a way that exists to its end, and for a link of
\* the file the routing rules name outbounds the configuration has
\* (strategies/adapters).
AttemptsCarryTraffic ==
  phase = "calling" /\ Starts(Current) =>
    LET file == Prepared(Current, binaries, TRUE)
    IN /\ "http" \in file.listens
       /\ Carries(file, Commands(Current, binaries))
       /\ Current.protocol \in LinkProtocols => file.rules \subseteq Tags(file)

\* A link that asks for TLS is never carried without, and a VLESS link that asks
\* for REALITY gets REALITY, whatever transport comes with it (make_outbound_for).
\* A VMess link whose tls field says "reality" is left out: the parser accepts it
\* (_parse_vmess) and make_vmess_outbound builds it with security "none".
NoDowngrade ==
  phase = "calling" /\ Starts(Current) /\ Current.protocol \in LinkProtocols =>
    \/ Current.security = "none"
    \/ Current.protocol = "vmess" /\ Current.security = "reality"
    \/ Prepared(Current, binaries, TRUE).first.security = Current.security

\* README.md: success rates are computed from the outcomes and decide later cycles.
\* At least an outcome of the same network is found when the next cycle, with the
\* same diagnoses, is about to compute its scores.
OutcomesAreUsed ==
  phase = "diagnosing" /\ history # <<>> /\ history[1].strategy # "all_failed"
    /\ history[1].condition = Condition =>
      DOMAIN Rows(history[1].strategy, Asked) # {}

\* README.md: Tor and the other fallbacks are run when all configs failed.
FallbackAfterConfigs ==
  \A i \in DOMAIN tried : tried[i].tier = 3 =>
    \A c \in Candidates : c.tier < 3 =>
      \/ Impossible(c.creds.protocol, obs)
      \/ \E j \in 1..i : Unscored(tried[j]) = c

=============================================================================
