------------------------------ MODULE Decision ------------------------------
(***************************************************************************)
(* The pure part of the decision engine: the rules that turn observations  *)
(* into diagnoses (decision/policies.py, engine/rule_engine.py), the       *)
(* success rate of a strategy with its time decay (telemetry/storage.py,   *)
(* telemetry/statistics.py) and the score of a strategy                    *)
(* (decision/scorer.py).                                                   *)
(*                                                                         *)
(* Floating point numbers become integers in these units: capabilities in  *)
(* tenths, rates, posteriors and confidences in thousandths, scores in     *)
(* billionths.  Rates and posteriors are rounded down.                      *)
(***************************************************************************)
EXTENDS Integers, Sequences, SequencesExt

\* The observed states of the layers; "captive" never gets this far.
Observation ==
  [dns   : {"dns_ok", "dns_dropped", "dns_hijacked", "dns_system_broken",
            "udp_dns_blocked", "dns_unknown"},
   dpi   : {"dpi_none", "dpi_rst", "dpi_aggressive", "dpi_unknown"},
   speed : {"speed_ok", "speed_slow", "throttled_intl", "intl_cut", "speed_failed"},
   udp   : {"udp_ok", "udp_dropped", "udp_unknown"}]

\* The rules: what each looks at, and what it says.
Rules ==
  {[on |-> "dns",   in |-> {"dns_dropped", "dns_hijacked", "udp_dns_blocked"},
    diagnosis |-> "dns_interference"],
   [on |-> "dns",   in |-> {"dns_unknown"}, diagnosis |-> "dns_interference"],
   [on |-> "dpi",   in |-> {"dpi_aggressive", "dpi_rst"}, diagnosis |-> "dpi_filtering"],
   [on |-> "dpi",   in |-> {"dpi_unknown"}, diagnosis |-> "dpi_filtering"],
   [on |-> "speed", in |-> {"throttled_intl", "speed_slow", "intl_cut"},
    diagnosis |-> "bandwidth_throttling"],
   [on |-> "udp",   in |-> {"udp_dropped"}, diagnosis |-> "udp_blocking"]}

\* The rules that match an observation, at most one of each layer.
Matching(obs) == {r \in Rules : obs[r.on] \in r.in}

\* What evaluate() may say.
Diagnoses == {"dns_interference", "dpi_filtering", "bandwidth_throttling", "udp_blocking",
              "speed_failed"}

\* evaluate(): what the matching rules say; one answer when none matches.  The
\* answers come in the order of the layers, so that their set says it all.
Evaluate(obs) ==
  IF Matching(obs) = {} THEN {"speed_failed"} ELSE {r.diagnosis : r \in Matching(obs)}

-----------------------------------------------------------------------------
\* STRATEGY_CAPABILITIES, as far as the score uses it.
Capabilities(strategy) ==
  LET caps(udp, tcp, resistance) == [udp |-> udp, tcp |-> tcp, dpi_resistance |-> resistance]
  IN CASE strategy = "vless"             -> caps(FALSE, TRUE, 5)
       [] strategy = "trojan"            -> caps(FALSE, TRUE, 2)
       [] strategy = "shadowtls"         -> caps(FALSE, TRUE, 8)
       [] strategy = "hysteria2"         -> caps(TRUE, FALSE, 8)
       [] strategy = "tuic"              -> caps(TRUE, FALSE, 7)
       [] strategy = "tor_proxy"         -> caps(FALSE, TRUE, 9)
       [] strategy = "tor_snowflake"     -> caps(FALSE, TRUE, 10)
       [] strategy = "warp"              -> caps(TRUE, FALSE, 5)
       [] strategy = "naive"             -> caps(FALSE, TRUE, 8)
       [] strategy = "cloudflare_worker" -> caps(FALSE, TRUE, 9)
       [] strategy = "psiphon"           -> caps(FALSE, TRUE, 9)
       [] strategy = "dnstt"             -> caps(FALSE, FALSE, 10)
       [] OTHER                          -> caps(TRUE, TRUE, 0)

\* Age classes of a row: under 1, 7, 30 and 90 days, and older.
Ages == 0..4

\* The weight of a row by its age class, in hundredths.
Weight(age) == <<100, 85, 50, 15, 5>>[age + 1]

\* get_strategy_success_rate over the rows the query found, whatever their
\* numbers; 0 when it found none.
SuccessRate(rows) ==
  LET weight(row) == Weight(row.age)
      add(x, y)   == x + y
      total       == FoldFunction(add, 0, [i \in DOMAIN rows |-> weight(rows[i])])
      successful  == FoldFunction(add, 0, [i \in DOMAIN rows |->
                                             IF rows[i].success THEN weight(rows[i]) ELSE 0])
  IN IF DOMAIN rows = {} THEN 0 ELSE (1000 * successful) \div total

\* get_strategy_posterior: no history and no success look the same.
Posterior(rate) == IF rate = 0 THEN 500 ELSE (8 * rate) \div 10 + 100

\* get_confidence.
Confidence(posterior) ==
  LET distance == IF posterior >= 500 THEN posterior - 500 ELSE 500 - posterior
  IN IF posterior = 500 THEN 100
     ELSE IF 2 * distance > 950 THEN 950 ELSE 2 * distance

\* calculate_health_score: the default latency and no throughput, as no
\* observation has these keys.
HealthScore(posterior) == 65 * posterior + 7500

\* Mutation: only strategies without UDP are pointless where UDP is dropped.
ImpossibleWithoutUdp(strategy, obs) ==
  obs.udp = "udp_dropped" /\ ~Capabilities(strategy).udp

\* Without a TCP transport a strategy is pointless where UDP is dropped.
Impossible(strategy, obs) == obs.udp = "udp_dropped" /\ ~Capabilities(strategy).tcp

\* score_strategy for a success rate.
Score(strategy, obs, rate) ==
  LET caps       == Capabilities(strategy)
      posterior  == Posterior(rate)
      resistance == IF obs.dpi \in {"dpi_aggressive", "dpi_rst"}
                      THEN caps.dpi_resistance * 50000000 ELSE 0
      throughput == IF obs.speed \in {"throttled_intl", "speed_slow"} /\ caps.udp
                      THEN 300000000 ELSE 0
      history    == HealthScore(posterior) * 4 * Confidence(posterior)
  IN IF Impossible(strategy, obs) THEN 0 ELSE resistance + throughput + history

\* The score under which an ordinary candidate is not tried (0.1).
Cutoff == 100000000

\* Candidates that are tried whatever their score.
LastResorts == {"tor_proxy", "tor_snowflake", "psiphon", "dnstt", "warp"}

\* The condition of the if before an attempt.
WorthTrying(strategy, score) == score > Cutoff \/ strategy \in LastResorts

=============================================================================
