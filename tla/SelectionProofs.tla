-------------------------- MODULE SelectionProofs --------------------------
(***************************************************************************)
(* Theorems about Selection, for every list of links, every installation   *)
(* and every set of observations, with the proofs TLAPS checks.            *)
(***************************************************************************)
EXTENDS Selection, SequenceTheorems, TLAPS

\* A candidate with a score.
Entry ==
  {[tier |-> c.tier, place |-> c.place, creds |-> c.creds, score |-> n] : c \in Candidates, n \in Nat}

\* TypeOK, with the lists as a set and a sequence of entries.
TypeInv ==
  /\ phase \in {"diagnosing", "trying", "calling", "connected", "failed"}
  /\ obs \in Observations
  /\ binaries \in Installations
  /\ queue \subseteq Entry
  /\ tried \in Seq(Entry)
  /\ history \in Seq(Row)
  /\ Len(history) <= MaxHistory

\* While a cycle tries its candidates.
Trying == {"trying", "calling"}

\* Nothing is left of an earlier cycle when a diagnosis begins, and a call has a
\* candidate.
PhaseInv ==
  /\ phase = "diagnosing" => queue = {} /\ tried = <<>>
  /\ phase = "calling" => tried # <<>>
  /\ phase = "failed" => queue = {}

\* What was tried goes before what is left, and before what was tried later.
GoesBefore(c, d) == c.tier < d.tier \/ (c.tier = d.tier /\ c.score >= d.score)
OrderInv ==
  /\ \A i \in DOMAIN tried : \A d \in queue : GoesBefore(tried[i], d)
  /\ TriedInOrder

\* The two Tor candidates are in hand or were tried.
Tor == {"tor_proxy", "tor_snowflake"}
TorInv ==
  phase \in Trying \cup {"failed"} =>
    \A p \in Tor : \/ \E c \in queue : c.creds.protocol = p
                   \/ \E i \in DOMAIN tried : tried[i].creds.protocol = p

\* The scores are those of the observation at hand, and of no history.
ScoreInv == \A c \in queue : c.score = Score(c.creds.protocol, obs, 0)

\* A config is attempted only where connections are reset or the throughput is
\* throttled: with no history its score reaches the cutoff nowhere else.
ConfigsNeedPressure ==
  \A i \in DOMAIN tried :
    \/ tried[i].creds.protocol \in LastResorts
    \/ obs.dpi \in {"dpi_aggressive", "dpi_rst"}
    \/ obs.speed \in {"throttled_intl", "speed_slow"}

\* No score is computed from a recorded outcome: outcomes are recorded under the
\* diagnoses and asked for under the state of the DPI layer.
OutcomesAreNeverFound ==
  \A strategy \in Protocols : DOMAIN Rows(strategy, Asked) = {}

\* The inductive invariant.
Inv == TypeInv /\ PhaseInv /\ OrderInv /\ TorInv /\ ScoreInv /\ UdpOnlyLeftOut
       /\ ConfigsNeedPressure

-----------------------------------------------------------------------------
(***************************************************************************)
(* The rules and the score.                                                *)
(***************************************************************************)

\* The rules only give diagnoses.
LEMMA EvaluateType ==
  ASSUME NEW o
  PROVE  Evaluate(o) \subseteq Diagnoses
BY DEF Evaluate, Matching, Rules, Diagnoses

\* No observation of the DPI layer is the name of a diagnosis.
LEMMA DpiIsNoDiagnosis ==
  ASSUME NEW o \in Observation
  PROVE  {o.dpi} \notin SUBSET Diagnoses
BY DEF Observation, Diagnoses

\* Where UDP is dropped a strategy without TCP scores nothing, whatever its record.
LEMMA ImpossibleScoresNothing ==
  ASSUME NEW strategy, NEW o, NEW rate, Impossible(strategy, o)
  PROVE  Score(strategy, o, rate) = 0
BY DEF Score

\* The score of a strategy nothing is known about.
LEMMA UnknownScore ==
  ASSUME NEW strategy, NEW o
  PROVE  Score(strategy, o, 0) \in Nat
<1>1. Capabilities(strategy).dpi_resistance \in Nat
  BY DEF Capabilities
<1>2. Posterior(0) = 500 /\ Confidence(500) = 100 /\ HealthScore(500) = 40000
  BY DEF Posterior, Confidence, HealthScore
<1>3. QED
  BY <1>1, <1>2 DEF Score

\* Without resets and throttling it is under the cutoff.
LEMMA CalmScore ==
  ASSUME NEW strategy, NEW o,
         o.dpi \notin {"dpi_aggressive", "dpi_rst"}, o.speed \notin {"throttled_intl", "speed_slow"}
  PROVE  Score(strategy, o, 0) <= Cutoff
<1>1. Posterior(0) = 500 /\ Confidence(500) = 100 /\ HealthScore(500) = 40000
  BY DEF Posterior, Confidence, HealthScore
<1>2. QED
  BY <1>1 DEF Score, Cutoff

\* The strategies that run on UDP alone.
LEMMA UdpOnlyStrategies ==
  ASSUME NEW strategy \in {"hysteria2", "tuic"}
  PROVE  ~Capabilities(strategy).tcp /\ strategy \notin LastResorts
BY DEF Capabilities, LastResorts

-----------------------------------------------------------------------------
(***************************************************************************)
(* The candidates.                                                         *)
(***************************************************************************)

\* The credentials that links turn into.
LinkCreds ==
  {creds \in [protocol : LinkProtocols, transport : Transports, security : Securities] :
     /\ creds.security = "reality" => creds.protocol \in {"vless", "vmess"}
     /\ creds.protocol \notin {"vless", "vmess", "ss"} => creds.security = "tls"
     /\ creds.protocol = "ss" => creds.security = "none"}

\* The candidates that come with no link.
Others == {"cloudflare_worker", "warp", "psiphon", "dnstt"} \cup Tor
OtherCreds == {[protocol |-> p] : p \in Others}

\* The schemes and the protocols of links, spelled out.
TlsSchemes == {"trojan", "shadowtls", "hysteria2", "hy2", "tuic", "naive"}

LEMMA LinkProtocolsAre ==
  /\ DOMAIN TlsProtocols = TlsSchemes
  /\ \A s \in TlsSchemes : TlsProtocols[s] \in {"trojan", "shadowtls", "hysteria2", "tuic", "naive"}
  /\ LinkProtocols = {"vless", "vmess", "ss", "trojan", "shadowtls", "hysteria2", "tuic", "naive"}
<1>1. {TlsProtocols[s] : s \in DOMAIN TlsProtocols}
        = {"trojan", "shadowtls", "hysteria2", "tuic", "naive"}
  BY DEF TlsProtocols
<1>2. DOMAIN TlsProtocols = TlsSchemes
  BY DEF TlsProtocols, TlsSchemes
<1>3. \A s \in TlsSchemes : TlsProtocols[s] \in {"trojan", "shadowtls", "hysteria2", "tuic", "naive"}
  BY <1>1, <1>2
<1>4. QED
  BY <1>1, <1>2, <1>3 DEF LinkProtocols

LEMMA ParsedCreds ==
  ASSUME NEW link \in Link, Parse(link) # Unsupported
  PROVE  Parse(link) \in LinkCreds
<1>1. /\ link.transport \in Transports /\ link.security \in Securities
      /\ link.complete
  BY DEF Link, Parse
<1> DEFINE Shaped(p, t, s) ==
      /\ p \in LinkProtocols /\ t \in Transports /\ s \in Securities
      /\ s = "reality" => p \in {"vless", "vmess"}
      /\ p \notin {"vless", "vmess", "ss"} => s = "tls"
      /\ p = "ss" => s = "none"
<1>2. ASSUME NEW p, NEW t, NEW s, Shaped(p, t, s)
      PROVE  Creds(p, t, s) \in LinkCreds
  BY <1>2 DEF Creds, LinkCreds
<1> HIDE DEF Shaped
<1>3. CASE link.scheme = "vless"
  <2>1. Parse(link) = Creds("vless", link.transport, link.security)
    BY <1>1, <1>3, LinkProtocolsAre DEF Parse, ParseVless, TlsSchemes
  <2>2. Shaped("vless", link.transport, link.security)
    BY <1>1, LinkProtocolsAre DEF Shaped
  <2>3. QED
    BY <1>2, <2>1, <2>2
<1>4. CASE link.scheme = "vmess"
  <2>1. Parse(link) = Creds("vmess", link.transport, link.security)
    BY <1>1, <1>4, LinkProtocolsAre DEF Parse, ParseVmess, TlsSchemes
  <2>2. Shaped("vmess", link.transport, link.security)
    BY <1>1, <1>4, LinkProtocolsAre DEF Shaped
  <2>3. QED
    BY <1>2, <2>1, <2>2
<1>5. CASE link.scheme = "ss"
  <2>1. Parse(link) = Creds("ss", "tcp", "none")
    BY <1>1, <1>5, LinkProtocolsAre DEF Parse, ParseSs, TlsSchemes
  <2>2. Shaped("ss", "tcp", "none")
    BY LinkProtocolsAre DEF Shaped, Transports, Securities
  <2>3. QED
    BY <1>2, <2>1, <2>2
<1>6. CASE link.scheme \in DOMAIN TlsProtocols
  <2>1. link.scheme \notin {"vless", "vmess", "ss"}
    BY <1>6, LinkProtocolsAre DEF TlsSchemes
  <2>2. TlsProtocols[link.scheme] \in {"trojan", "shadowtls", "hysteria2", "tuic", "naive"}
    BY <1>6, LinkProtocolsAre
  <2>3. Parse(link) = Creds(TlsProtocols[link.scheme], "tcp", "tls")
    BY <1>1, <1>6, <2>1 DEF Parse
  <2>4. Shaped(TlsProtocols[link.scheme], "tcp", "tls")
    BY <2>2, LinkProtocolsAre DEF Shaped, Transports, Securities
  <2>5. QED
    BY <1>2, <2>3, <2>4
<1>7. QED
  BY <1>3, <1>4, <1>5, <1>6, <1>1 DEF Parse

LEMMA CandidateCreds ==
  ASSUME NEW c \in Candidates
  PROVE  /\ c = Candidate(c.tier, c.place, c.creds)
         /\ c.creds \in LinkCreds \cup OtherCreds
         /\ c.creds.protocol \in Protocols
<1>1. ASSUME NEW tier, NEW links, c \in FromFile(tier, links),
             \A link \in Range(links) : link \in Link
      PROVE  c = Candidate(c.tier, c.place, c.creds) /\ c.creds \in LinkCreds
  BY <1>1, ParsedCreds DEF FromFile, Candidate, Range
<1>2. ASSUME NEW tier, NEW place, NEW p \in Others, NEW offered, c \in Offer(tier, place, p, offered)
      PROVE  c = Candidate(c.tier, c.place, c.creds) /\ c.creds \in OtherCreds
  BY <1>2 DEF Offer, Candidate, OtherCreds
<1>3. c = Candidate(c.tier, c.place, c.creds) /\ c.creds \in LinkCreds \cup OtherCreds
  BY <1>1, <1>2, SelectionAssumption DEF Candidates, Others, Tor
<1>4. QED
  BY <1>3 DEF LinkCreds, OtherCreds, Others, Tor, Protocols

\* Both Tor candidates are offered, whatever is installed.
LEMMA TorIsOffered ==
  \A p \in Tor : \E c \in Candidates : c.creds.protocol = p
<1> SUFFICES ASSUME NEW p \in Tor
             PROVE  \E c \in Candidates : c.creds.protocol = p
  OBVIOUS
<1>1. CASE p = "tor_proxy"
  <2>1. Candidate(3, 4, [protocol |-> "tor_proxy"]) \in Candidates
    BY DEF Candidates, Offer
  <2>2. QED
    BY <1>1, <2>1 DEF Candidate
<1>2. CASE p = "tor_snowflake"
  <2>1. Candidate(3, 5, [protocol |-> "tor_snowflake"]) \in Candidates
    BY DEF Candidates, Offer
  <2>2. QED
    BY <1>2, <2>1 DEF Candidate
<1>3. QED
  BY <1>1, <1>2 DEF Tor

-----------------------------------------------------------------------------
(***************************************************************************)
(* The history.                                                            *)
(***************************************************************************)

\* One row more, and the newest of them.
LEMMA RecordedType ==
  ASSUME TypeInv, NEW strategy \in Protocols \cup {"all_failed"}, NEW success \in BOOLEAN
  PROVE  Recorded(strategy, success) \in Seq(Row) /\ Len(Recorded(strategy, success)) <= MaxHistory
<1> DEFINE row == [strategy |-> strategy, condition |-> Condition, success |-> success, age |-> 0]
           all == <<row>> \o history
           n   == IF Len(all) < MaxHistory THEN Len(all) ELSE MaxHistory
<1>1. MaxHistory \in Nat \ {0}
  BY SelectionAssumption
<1>2. row \in Row
  BY EvaluateType DEF Row, Condition, Ages
<1>3. all \in Seq(Row) /\ Len(all) \in Nat \ {0}
  <2>1. <<row>> \in Seq(Row) /\ Len(<<row>>) = 1
    BY <1>2
  <2>2. QED
    BY <2>1, ConcatProperties, LenProperties DEF TypeInv
<1> HIDE DEF row, all
<1>4. n \in Nat /\ 1 <= n /\ n <= Len(all) /\ n <= MaxHistory
  BY <1>1, <1>3
<1> HIDE DEF n
<1>5. \A i \in 1..n : all[i] \in Row
  BY <1>3, <1>4, ElementOfSeq
<1>6. SubSeq(all, 1, n) \in Seq(Row) /\ Len(SubSeq(all, 1, n)) = n
  BY <1>4, <1>5, SubSeqProperties
<1>7. Recorded(strategy, success) = SubSeq(all, 1, n)
  BY DEF Recorded, row, all, n
<1>8. QED
  BY <1>4, <1>6, <1>7

\* The rows get older.
LEMMA AgedType ==
  ASSUME TypeInv, NEW later \in Ages
  PROVE  LET aged == [i \in DOMAIN history |->
                        [history[i] EXCEPT !.age = IF @ + later > 4 THEN 4 ELSE @ + later]]
         IN aged \in Seq(Row) /\ Len(aged) <= MaxHistory
<1> DEFINE aged == [i \in DOMAIN history |->
                      [history[i] EXCEPT !.age = IF @ + later > 4 THEN 4 ELSE @ + later]]
<1>1. Len(history) \in Nat /\ DOMAIN history = 1..Len(history)
  BY LenProperties DEF TypeInv
<1>2. \A i \in 1..Len(history) : history[i] \in Row
  BY ElementOfSeq DEF TypeInv
<1>3. \A i \in 1..Len(history) : aged[i] \in Row
  BY <1>1, <1>2 DEF Row, Ages
<1>4. aged \in [1..Len(history) -> Row]
  BY <1>1, <1>3
<1>5. aged \in Seq(Row)
  BY <1>1, <1>4
<1>6. Len(aged) = Len(history)
  BY <1>1
<1>7. QED
  BY <1>5, <1>6 DEF TypeInv

\* No row has the state of the DPI layer for its condition.
LEMMA NothingFound ==
  ASSUME TypeInv, NEW strategy
  PROVE  DOMAIN Rows(strategy, Asked) = {}
<1>1. \A i \in DOMAIN history : history[i].condition \in SUBSET Diagnoses
  <2>1. \A i \in DOMAIN history : history[i] \in Row
    BY LenProperties, ElementOfSeq DEF TypeInv
  <2>2. QED
    BY <2>1 DEF Row
<1>2. Asked \notin SUBSET Diagnoses
  BY DpiIsNoDiagnosis, SelectionAssumption DEF TypeInv, Asked
<1>3. QED
  BY <1>1, <1>2 DEF Rows, Restrict

\* So that every score is that of a strategy nothing is known about.
LEMMA ScoreNowIs ==
  ASSUME TypeInv, NEW strategy
  PROVE  ScoreNow(strategy) = Score(strategy, obs, 0) /\ ScoreNow(strategy) \in Nat
<1>1. SuccessRate(Rows(strategy, Asked)) = 0
  BY NothingFound DEF SuccessRate
<1>2. QED
  BY <1>1, UnknownScore DEF ScoreNow

-----------------------------------------------------------------------------
(***************************************************************************)
(* The lists of a cycle.                                                   *)
(***************************************************************************)

\* What an entry is.
LEMMA EntryType ==
  ASSUME NEW c \in Entry
  PROVE  /\ Unscored(c) \in Candidates /\ c.score \in Nat
         /\ c.creds \in LinkCreds \cup OtherCreds
         /\ c.creds.protocol \in Protocols
BY CandidateCreds DEF Entry, Unscored, Candidate

\* The entries depend on what is installed alone.
LEMMA EntriesStay ==
  ASSUME UNCHANGED binaries
  PROVE  UNCHANGED <<Candidates, Entry>>
BY DEF Candidates, Entry

\* Every candidate gets an entry with a score.
LEMMA ScoredType ==
  ASSUME TypeInv
  PROVE  /\ Scored \subseteq Entry
         /\ \A c \in Scored : c.score = ScoreNow(c.creds.protocol)
         /\ \A p \in Tor : \E c \in Scored : c.creds.protocol = p
<1>1. Scored \subseteq Entry
  BY ScoreNowIs DEF Scored, Entry
<1>2. \A c \in Scored : c.score = ScoreNow(c.creds.protocol)
  BY DEF Scored
<1>3. ASSUME NEW p \in Tor
      PROVE  \E c \in Scored : c.creds.protocol = p
  <2>1. PICK c \in Candidates : c.creds.protocol = p
    BY TorIsOffered
  <2> DEFINE e == [tier |-> c.tier, place |-> c.place, creds |-> c.creds,
                   score |-> ScoreNow(c.creds.protocol)]
  <2>2. e \in Scored
    BY DEF Scored
  <2>3. e.creds.protocol = p
    BY <2>1
  <2> QED
    BY <2>2, <2>3
<1>4. QED
  BY <1>1, <1>2, <1>3

\* The attempt under way is one of an entry.
LEMMA CurrentType ==
  ASSUME TypeInv, PhaseInv, phase = "calling"
  PROVE  /\ Len(tried) \in DOMAIN tried
         /\ tried[Len(tried)] \in Entry
         /\ Current \in LinkCreds \cup OtherCreds
         /\ Current.protocol \in Protocols
<1>1. Len(tried) \in Nat \ {0} /\ DOMAIN tried = 1..Len(tried)
  BY EmptySeq, LenProperties DEF TypeInv, PhaseInv
<1>2. tried[Len(tried)] \in Entry
  BY <1>1, ElementOfSeq DEF TypeInv
<1>3. QED
  BY <1>1, <1>2, EntryType DEF Current

LEMMA InitInv == Init => Inv
<1> SUFFICES ASSUME Init PROVE Inv
  OBVIOUS
<1>1. TypeInv
  BY SelectionAssumption, EmptySeq DEF Init, TypeInv
<1>2. PhaseInv /\ OrderInv /\ TorInv /\ ScoreInv /\ UdpOnlyLeftOut /\ ConfigsNeedPressure
  BY DEF Init, PhaseInv, OrderInv, TriedInOrder, TorInv, Trying, ScoreInv, UdpOnlyLeftOut,
         ConfigsNeedPressure
<1>3. QED
  BY <1>1, <1>2 DEF Inv

\* The candidates of a cycle are scored.
LEMMA SelectInv ==
  ASSUME Inv, Select
  PROVE  Inv'
<1> USE DEF Inv, Select
<1>1. TypeInv'
  BY ScoredType, EntriesStay, EmptySeq DEF TypeInv
<1>2. PhaseInv' /\ OrderInv' /\ UdpOnlyLeftOut' /\ ConfigsNeedPressure'
  BY DEF PhaseInv, OrderInv, TriedInOrder, UdpOnlyLeftOut, ConfigsNeedPressure
<1>3. TorInv'
  BY ScoredType DEF TorInv
<1>4. ScoreInv'
  BY ScoredType, ScoreNowIs DEF ScoreInv
<1>5. QED
  BY <1>1, <1>2, <1>3, <1>4

\* A candidate is passed over: never one of the last resorts.
LEMMA SkipInv ==
  ASSUME Inv, Skip
  PROVE  Inv'
<1> USE DEF Inv
<1>1. PICK c \in queue : ~WorthTrying(c.creds.protocol, c.score) /\ queue' = queue \ {c}
  BY DEF Skip
<1>2. UNCHANGED <<binaries, phase, obs, tried, history>> /\ phase = "trying"
  BY DEF Skip
<1>3. TypeInv'
  BY <1>1, <1>2, EntriesStay DEF TypeInv
<1>4. PhaseInv' /\ OrderInv' /\ ScoreInv' /\ UdpOnlyLeftOut' /\ ConfigsNeedPressure'
  BY <1>1, <1>2 DEF PhaseInv, OrderInv, TriedInOrder, GoesBefore, ScoreInv, UdpOnlyLeftOut,
                    ConfigsNeedPressure
<1>5. c.creds.protocol \notin Tor
  BY <1>1 DEF WorthTrying, LastResorts, Tor
<1>6. TorInv'
  BY <1>1, <1>2, <1>5 DEF TorInv
<1>7. QED
  BY <1>3, <1>4, <1>6

\* A candidate is attempted: the first of those that are left.
LEMMA AttemptInv ==
  ASSUME Inv, Attempt
  PROVE  Inv'
<1> USE DEF Inv
<1>1. PICK c \in queue :
        /\ \A d \in queue \ {c} : Before(c, d)
        /\ WorthTrying(c.creds.protocol, c.score)
        /\ queue' = queue \ {c}
        /\ tried' = Append(tried, c)
  BY DEF Attempt, IsNext
<1>2. UNCHANGED <<binaries, obs, history>> /\ phase = "trying" /\ phase' = "calling"
  BY DEF Attempt
<1> DEFINE n == Len(tried)
<1>3. n \in Nat /\ DOMAIN tried = 1..n /\ c \in Entry
  BY LenProperties DEF TypeInv
<1>4. /\ tried' \in Seq(Entry) /\ tried' # <<>>
      /\ DOMAIN tried' = 1..(n + 1)
      /\ \A i \in 1..n : tried'[i] = tried[i]
      /\ tried'[n + 1] = c
  <2>1. /\ tried' \in Seq(Entry) /\ tried' # <<>>
        /\ Len(tried') = n + 1
        /\ \A i \in 1..n : tried'[i] = tried[i]
        /\ tried'[n + 1] = c
    BY <1>1, <1>3, AppendProperties DEF TypeInv
  <2>2. DOMAIN tried' = 1..Len(tried')
    BY <2>1, LenProperties
  <2>3. QED
    BY <2>1, <2>2
<1> HIDE DEF n
<1>5. TypeInv'
  BY <1>1, <1>2, <1>4, EntriesStay DEF TypeInv
<1>6. PhaseInv' /\ ScoreInv'
  BY <1>1, <1>2, <1>4 DEF PhaseInv, ScoreInv
<1>7. OrderInv'
  <2>1. \A d \in queue' : GoesBefore(c, d)
    BY <1>1 DEF Before, GoesBefore
  <2>2. \A i \in 1..(n + 1) : \A d \in queue' : GoesBefore(tried'[i], d)
    BY <1>1, <1>3, <1>4, <2>1 DEF OrderInv
  <2>3. ASSUME NEW i \in 1..(n + 1), NEW j \in 1..(n + 1), i < j
        PROVE  GoesBefore(tried'[i], tried'[j])
    <3>1. i \in 1..n
      BY <1>3, <2>3
    <3>2. CASE j \in 1..n
      BY <1>3, <1>4, <2>3, <3>1, <3>2 DEF OrderInv, TriedInOrder, GoesBefore
    <3>3. CASE j = n + 1
      BY <1>3, <1>4, <3>1, <3>3, <1>1 DEF OrderInv
    <3>4. QED
      BY <1>3, <3>2, <3>3
  <2>4. QED
    BY <1>4, <2>2, <2>3 DEF OrderInv, TriedInOrder, GoesBefore
<1>8. TorInv'
  <2>1. SUFFICES ASSUME NEW p \in Tor, ~ \E d \in queue' : d.creds.protocol = p
                 PROVE  \E i \in DOMAIN tried' : tried'[i].creds.protocol = p
    BY DEF TorInv
  <2>2. CASE \E d \in queue : d.creds.protocol = p
    <3>1. c.creds.protocol = p
      BY <1>1, <2>1, <2>2
    <3>2. QED
      BY <1>3, <1>4, <3>1
  <2>3. CASE \E i \in DOMAIN tried : tried[i].creds.protocol = p
    BY <1>3, <1>4, <2>3
  <2>4. QED
    BY <1>2, <2>2, <2>3 DEF TorInv, Trying
<1>9. UdpOnlyLeftOut'
  <2>1. obs.udp = "udp_dropped" => c.creds.protocol \notin {"hysteria2", "tuic"}
    <3>1. SUFFICES ASSUME obs.udp = "udp_dropped", c.creds.protocol \in {"hysteria2", "tuic"}
                   PROVE  FALSE
      OBVIOUS
    <3>2. c.score = 0
      BY <3>1, UdpOnlyStrategies, ImpossibleScoresNothing DEF ScoreInv, Impossible
    <3>3. QED
      BY <1>1, <3>1, <3>2, UdpOnlyStrategies DEF WorthTrying, Cutoff
  <2>2. QED
    BY <1>2, <1>3, <1>4, <2>1 DEF UdpOnlyLeftOut
<1>10. ConfigsNeedPressure'
  <2>1. \/ c.creds.protocol \in LastResorts
        \/ obs.dpi \in {"dpi_aggressive", "dpi_rst"}
        \/ obs.speed \in {"throttled_intl", "speed_slow"}
    <3>1. SUFFICES ASSUME obs.dpi \notin {"dpi_aggressive", "dpi_rst"},
                          obs.speed \notin {"throttled_intl", "speed_slow"}
                   PROVE  c.creds.protocol \in LastResorts
      OBVIOUS
    <3>2. c.score = Score(c.creds.protocol, obs, 0) /\ c.score \in Nat
      BY <1>3, EntryType DEF ScoreInv
    <3>3. c.score <= Cutoff
      BY <3>1, <3>2, CalmScore
    <3>4. QED
      BY <1>1, <3>2, <3>3 DEF WorthTrying, Cutoff
  <2>2. QED
    BY <1>2, <1>3, <1>4, <2>1 DEF ConfigsNeedPressure
<1>11. QED
  BY <1>5, <1>6, <1>7, <1>8, <1>9, <1>10

\* An outcome is recorded, after a call or when nothing is left.
LEMMA ConnectsInv ==
  ASSUME Inv, Connects
  PROVE  Inv'
<1> USE DEF Inv
<1>1. /\ UNCHANGED <<binaries, obs, queue, tried>> /\ phase = "calling" /\ phase' = "connected"
      /\ history' = Recorded(Current.protocol, TRUE)
  BY DEF Connects
<1>2. history' \in Seq(Row) /\ Len(history') <= MaxHistory
  BY <1>1, CurrentType, RecordedType
<1>3. TypeInv'
  BY <1>1, <1>2, EntriesStay DEF TypeInv
<1>4. PhaseInv' /\ OrderInv' /\ TorInv' /\ ScoreInv' /\ UdpOnlyLeftOut' /\ ConfigsNeedPressure'
  BY <1>1 DEF PhaseInv, OrderInv, TriedInOrder, GoesBefore, TorInv, Trying, ScoreInv,
              UdpOnlyLeftOut, ConfigsNeedPressure
<1>5. QED
  BY <1>3, <1>4

LEMMA FailsInv ==
  ASSUME Inv, Fails
  PROVE  Inv'
<1> USE DEF Inv
<1>1. /\ UNCHANGED <<binaries, obs, queue, tried>> /\ phase = "calling" /\ phase' = "trying"
      /\ history' = Recorded(Current.protocol, FALSE)
  BY DEF Fails
<1>2. history' \in Seq(Row) /\ Len(history') <= MaxHistory
  BY <1>1, CurrentType, RecordedType
<1>3. TypeInv'
  BY <1>1, <1>2, EntriesStay DEF TypeInv
<1>4. PhaseInv' /\ OrderInv' /\ TorInv' /\ ScoreInv' /\ UdpOnlyLeftOut' /\ ConfigsNeedPressure'
  BY <1>1 DEF PhaseInv, OrderInv, TriedInOrder, GoesBefore, TorInv, Trying, ScoreInv,
              UdpOnlyLeftOut, ConfigsNeedPressure
<1>5. QED
  BY <1>3, <1>4

LEMMA GiveUpInv ==
  ASSUME Inv, GiveUp
  PROVE  Inv'
<1> USE DEF Inv
<1>1. /\ UNCHANGED <<binaries, obs, queue, tried>> /\ phase = "trying" /\ phase' = "failed"
      /\ queue = {} /\ history' = Recorded("all_failed", FALSE)
  BY DEF GiveUp
<1>2. history' \in Seq(Row) /\ Len(history') <= MaxHistory
  BY <1>1, RecordedType
<1>3. TypeInv'
  BY <1>1, <1>2, EntriesStay DEF TypeInv
<1>4. PhaseInv' /\ OrderInv' /\ TorInv' /\ ScoreInv' /\ UdpOnlyLeftOut' /\ ConfigsNeedPressure'
  BY <1>1 DEF PhaseInv, OrderInv, TriedInOrder, GoesBefore, TorInv, Trying, ScoreInv,
              UdpOnlyLeftOut, ConfigsNeedPressure
<1>5. QED
  BY <1>3, <1>4

\* Another cycle begins with nothing of the last one but the history.
LEMMA AnewInv ==
  ASSUME Inv, Anew, UNCHANGED binaries, history' \in Seq(Row), Len(history') <= MaxHistory
  PROVE  Inv'
<1> USE DEF Inv, Anew
<1>1. TypeInv'
  BY EmptySeq DEF TypeInv
<1>2. PhaseInv' /\ OrderInv' /\ TorInv' /\ ScoreInv' /\ UdpOnlyLeftOut' /\ ConfigsNeedPressure'
  BY DEF PhaseInv, OrderInv, TriedInOrder, TorInv, Trying, ScoreInv, UdpOnlyLeftOut,
         ConfigsNeedPressure
<1>3. QED
  BY <1>1, <1>2

LEMMA NextInv ==
  ASSUME Inv, [Next]_vars
  PROVE  Inv'
<1>1. CASE Select
  BY <1>1, SelectInv
<1>2. CASE Skip
  BY <1>2, SkipInv
<1>3. CASE Attempt
  BY <1>3, AttemptInv
<1>4. CASE Connects
  BY <1>4, ConnectsInv
<1>5. CASE Fails
  BY <1>5, FailsInv
<1>6. CASE Raises
  <2>1. history' \in Seq(Row) /\ Len(history') <= MaxHistory
    BY <1>6 DEF Raises, Inv, TypeInv
  <2>2. QED
    BY <1>6, <2>1, AnewInv DEF Raises
<1>7. CASE GiveUp
  BY <1>7, GiveUpInv
<1>8. CASE NextCycle
  <2>1. history' \in Seq(Row) /\ Len(history') <= MaxHistory
    BY <1>8, AgedType DEF NextCycle, Inv
  <2>2. QED
    BY <1>8, <2>1, AnewInv DEF NextCycle
<1>9. CASE UNCHANGED vars
  <2> USE DEF Inv, vars
  <2>1. TypeInv'
    BY <1>9, EntriesStay DEF TypeInv
  <2>2. PhaseInv' /\ OrderInv' /\ TorInv' /\ ScoreInv' /\ UdpOnlyLeftOut' /\ ConfigsNeedPressure'
    BY <1>9 DEF PhaseInv, OrderInv, TriedInOrder, GoesBefore, TorInv, Trying, ScoreInv,
                UdpOnlyLeftOut, ConfigsNeedPressure
  <2>3. QED
    BY <2>1, <2>2
<1>10. QED
  BY <1>1, <1>2, <1>3, <1>4, <1>5, <1>6, <1>7, <1>8, <1>9 DEF Next

\* The inductive invariant holds.
THEOREM Invariance == Spec => []Inv
<1>1. Init => Inv
  BY InitInv
<1>2. Inv /\ [Next]_vars => Inv'
  BY NextInv
<1>3. QED
  BY <1>1, <1>2, PTL DEF Spec

-----------------------------------------------------------------------------
(***************************************************************************)
(* What is proved of the selection.                                        *)
(***************************************************************************)

\* Candidates, scores and history are what they are meant to be.
THEOREM TypeCorrect == Spec => []TypeOK
<1>1. Inv => TypeOK
  <2> SUFFICES ASSUME Inv PROVE TypeOK
    OBVIOUS
  <2>1. Range(tried) \subseteq Entry
    BY LenProperties, ElementOfSeq DEF Inv, TypeInv, Range
  <2>2. \A c \in queue \cup Range(tried) : Unscored(c) \in Candidates /\ c.score \in Nat
    BY <2>1, EntryType DEF Inv, TypeInv
  <2>3. QED
    BY <2>2 DEF Inv, TypeInv, TypeOK
<1>2. QED
  BY <1>1, Invariance, PTL

\* The attempts of a cycle follow the tiers and the scores, for every list of
\* links, every observation and every history.
THEOREM AttemptsAreOrdered == Spec => []TriedInOrder
<1>1. Inv => TriedInOrder
  BY DEF Inv, OrderInv
<1>2. QED
  BY <1>1, Invariance, PTL

\* No selection fails without an attempt with Tor and with Snowflake.
THEOREM TorBeforeFailure == Spec => []LastResortTried
<1>1. Inv => LastResortTried
  BY DEF Inv, PhaseInv, TorInv, Tor, LastResortTried
<1>2. QED
  BY <1>1, Invariance, PTL

\* Where UDP is dropped Hysteria and TUIC are not attempted.
THEOREM UdpStrategiesStayOut == Spec => []UdpOnlyLeftOut
<1>1. Inv => UdpOnlyLeftOut
  BY DEF Inv
<1>2. QED
  BY <1>1, Invariance, PTL

\* Without resets and throttling only the last resorts are attempted, however well
\* the configs did before: what FallbackAfterConfigs runs into, for all constants.
THEOREM CalmMeansFallbacks == Spec => []ConfigsNeedPressure
<1>1. Inv => ConfigsNeedPressure
  BY DEF Inv
<1>2. QED
  BY <1>1, Invariance, PTL

\* No lookup ever finds what was recorded, so that the engine scores every cycle
\* as if it were its first: why OutcomesAreUsed fails, and not only at its trace.
THEOREM LearningIsLost == Spec => []OutcomesAreNeverFound
<1>1. Inv => OutcomesAreNeverFound
  BY NothingFound DEF Inv, OutcomesAreNeverFound
<1>2. QED
  BY <1>1, Invariance, PTL

-----------------------------------------------------------------------------
(***************************************************************************)
(* What an attempt starts.                                                 *)
(***************************************************************************)

\* The outbound of a link: "proxy" with the security the link asks for, through
\* the fragmenter or straight; REALITY for VMess is not known to it.
LEMMA LinkOutboundIs ==
  ASSUME NEW creds \in LinkCreds,
         creds.protocol \in {"vless", "trojan", "vmess", "ss", "shadowtls"},
         NEW o \in LinkOutbound(creds)
  PROVE  /\ o.tag = "proxy" /\ o.dialer \in {Direct, "fragment-out"}
         /\ \/ creds.security = "none"
            \/ creds.protocol = "vmess" /\ creds.security = "reality"
            \/ o.security = creds.security
<1> USE DEF Fragmented, NoDelay, Outbound
<1>1. CASE creds.protocol = "vless"
  BY <1>1 DEF LinkOutbound, VlessOutbound
<1>2. CASE creds.protocol \in {"trojan", "shadowtls"}
  BY <1>2 DEF LinkOutbound, TrojanOutbound, ShadowtlsOutbound, LinkCreds
<1>3. CASE creds.protocol = "vmess"
  BY <1>3 DEF LinkOutbound, VmessOutbound, LinkCreds, Securities
<1>4. CASE creds.protocol = "ss"
  BY <1>4 DEF LinkOutbound, SsOutbound, LinkCreds
<1>5. QED
  BY <1>1, <1>2, <1>3, <1>4

\* The configuration of a link that has one.
LEMMA LinkFileIs ==
  ASSUME NEW creds \in LinkCreds,
         creds.protocol \in {"vless", "trojan", "vmess", "ss", "shadowtls"},
         LinkFile(creds) # NoFile
  PROVE  LET file == LinkFile(creds)
         IN /\ "http" \in file.listens
            /\ \A programs : Carries(file, programs)
            /\ file.rules \subseteq Tags(file)
            /\ \/ creds.security = "none"
               \/ creds.protocol = "vmess" /\ creds.security = "reality"
               \/ file.first.security = creds.security
<1> DEFINE o      == CHOOSE u \in LinkOutbound(creds) : TRUE
           others == {Plain("fragment-out"), Plain("dns-out"), Plain("direct"), Plain("block")}
           file   == XrayFile(o, others)
<1>1. LinkFile(creds) = file /\ o \in LinkOutbound(creds)
  BY DEF LinkFile
<1>2. /\ o.tag = "proxy" /\ o.dialer \in {Direct, "fragment-out"}
      /\ \/ creds.security = "none"
         \/ creds.protocol = "vmess" /\ creds.security = "reality"
         \/ o.security = creds.security
  BY <1>1, LinkOutboundIs
<1> HIDE DEF o
<1>3. file.first = o /\ file.outbounds = {o} \cup others /\ file.rules = RuleTags /\ "http" \in file.listens
  BY DEF XrayFile
<1> HIDE DEF file
<1>4. \A programs : Carries(file, programs)
  <2>1. Outbound("fragment-out", "none", Direct) \in file.outbounds
    BY <1>3 DEF Plain
  <2>2. QED
    BY <1>2, <1>3, <2>1 DEF Carries
<1>5. file.rules \subseteq Tags(file)
  <2>1. \A t \in {"dns-out", "direct", "block"} : Plain(t) \in file.outbounds /\ Plain(t).tag = t
    BY <1>3 DEF Plain, Outbound
  <2>2. QED
    BY <1>3, <2>1 DEF RuleTags, Tags
<1>6. QED
  BY <1>1, <1>2, <1>3, <1>4, <1>5

\* The configurations of the other strategies.
LEMMA OtherFileIs ==
  ASSUME NEW creds, NEW installed,
         creds.protocol \in Others \cup {"hysteria2", "tuic", "naive"},
         Prepared(creds, installed, TRUE) # NoFile, Commands(creds, installed) # {}
  PROVE  LET file == Prepared(creds, installed, TRUE)
         IN /\ "http" \in file.listens
            /\ Carries(file, Commands(creds, installed))
            /\ creds.protocol \in {"hysteria2", "tuic", "naive"} =>
                 file.first.security = "tls" /\ file.rules = {}
<1> DEFINE file == Prepared(creds, installed, TRUE)
<1> USE DEF Others, Tor, Prepared, Outbound, Plain
<1>1. CASE creds.protocol = "warp"
  BY <1>1 DEF WarpFile, XrayFile, Carries
<1>2. CASE creds.protocol = "cloudflare_worker"
  BY <1>2 DEF WorkerFile, XrayFile, Carries, Fragmented
<1>3. CASE creds.protocol = "dnstt"
  <2>1. "dnstt-client" \in Commands(creds, installed)
    BY <1>3 DEF Commands
  <2>2. file = DnsttFile
    BY <1>3
  <2>3. file.first = Outbound("proxy", "none", "dnstt-client") /\ "http" \in file.listens
    BY <2>2 DEF DnsttFile, XrayFile
  <2>4. QED
    BY <1>3, <2>1, <2>3 DEF Carries
<1>4. CASE creds.protocol \in {"hysteria2", "tuic", "naive"}
  BY <1>4 DEF HysteriaFile, TuicFile, NaiveFile, OwnFile, Carries
<1>5. CASE creds.protocol \in {"psiphon"} \cup Tor
  BY <1>5 DEF PsiphonFile, TorFile, OwnFile, Carries
<1>6. QED
  BY <1>1, <1>2, <1>3, <1>4, <1>5

\* The attempt under way starts programs that carry ordinary traffic, with the
\* protection the link asked for.
LEMMA AttemptIsSound == Inv => AttemptsCarryTraffic /\ NoDowngrade
<1> SUFFICES ASSUME Inv, phase = "calling", Starts(Current)
             PROVE  AttemptsCarryTraffic /\ NoDowngrade
  BY DEF AttemptsCarryTraffic, NoDowngrade
<1> DEFINE file == Prepared(Current, binaries, TRUE)
           xray == {"vless", "trojan", "vmess", "ss", "shadowtls"}
<1>1. Current \in LinkCreds \cup OtherCreds
  BY CurrentType DEF Inv
<1>2. file # NoFile /\ Commands(Current, binaries) # {}
  BY DEF Starts
<1>3. CASE Current.protocol \in xray
  <2>1. Current \in LinkCreds
    BY <1>1, <1>3 DEF OtherCreds, Others, Tor
  <2>2. file = LinkFile(Current)
    BY <1>3 DEF Prepared
  <2>3. QED
    BY <1>2, <1>3, <2>1, <2>2, LinkFileIs DEF AttemptsCarryTraffic, NoDowngrade
<1>4. CASE Current.protocol \notin xray
  <2>1. Current.protocol \in Others \cup {"hysteria2", "tuic", "naive"}
    BY <1>1, <1>4, LinkProtocolsAre DEF LinkCreds, OtherCreds
  <2>2. Current.protocol \in LinkProtocols =>
          Current \in LinkCreds /\ Current.protocol \in {"hysteria2", "tuic", "naive"}
    BY <1>1, <1>4, LinkProtocolsAre DEF OtherCreds, Others, Tor
  <2>3. Current.protocol \in LinkProtocols => Current.security = "tls"
    BY <2>2 DEF LinkCreds
  <2>4. QED
    BY <1>2, <2>1, <2>2, <2>3, OtherFileIs DEF AttemptsCarryTraffic, NoDowngrade
<1>5. QED
  BY <1>3, <1>4

\* What an attempt starts listens for the system and carries its traffic to the
\* end of the tunnel, whatever the candidate is and whatever is installed.
THEOREM AttemptsCarry == Spec => []AttemptsCarryTraffic
<1>1. Inv => AttemptsCarryTraffic
  BY AttemptIsSound
<1>2. QED
  BY <1>1, Invariance, PTL

\* A link is carried with the TLS or the REALITY it asks for, for all lists of links
\* and all installations, a VMess link that says "reality" excepted.
THEOREM SecurityIsKept == Spec => []NoDowngrade
<1>1. Inv => NoDowngrade
  BY AttemptIsSound
<1>2. QED
  BY <1>1, Invariance, PTL

=============================================================================
