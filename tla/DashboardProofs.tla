--------------------------- MODULE DashboardProofs ---------------------------
(***************************************************************************)
(* Theorems about Dashboard, for every number of clients, broadcasts and   *)
(* records, with the proofs TLAPS checks.                                  *)
(***************************************************************************)
EXTENDS Dashboard, FiniteSetTheorems, TLAPS

\* A broadcast is sending to a client.  If its set did not change it has the
\* others behind or before it, and its iterator knows the right size.
Covers(k, members) ==
  k.sending =>
    /\ k.at \in Clients
    /\ ~k.touched =>
         /\ k.size = Cardinality(members)
         /\ members \subseteq k.served \cup k.dead \cup {k.at} \cup k.left
CoverInv == \A b \in Casts : Covers(cast[b], clients)

\* A record is in the transaction as long as its connection is open, and in the
\* file from its commit on.
RowInv ==
  \A d \in Inserts :
    /\ insert[d] = "executing" /\ conn = "open" => row[d] # "none"
    /\ insert[d] \in {"committing", "saved"} => row[d] = "durable"

\* The loop takes every task with it.
GoneInv == phase = "gone" => \A d \in Inserts : insert[d] = "idle"

Inv == TypeOK /\ CoverInv /\ RowInv /\ GoneInv

-----------------------------------------------------------------------------
(***************************************************************************)
(* The set of clients and the iterators over it.                           *)
(***************************************************************************)

\* A set of clients has a size an iterator can have.
LEMMA SizeTyped ==
  ASSUME NEW members \in SUBSET Clients
  PROVE  Cardinality(members) \in 0..Cardinality(Clients)
<1>1. IsFiniteSet(Clients)
  BY DashboardAssumption
<1>2. /\ Cardinality(members) <= Cardinality(Clients)
      /\ Cardinality(members) \in Nat
      /\ Cardinality(Clients) \in Nat
  BY <1>1, FS_Subset, FS_CardinalityType
<1>3. QED
  BY <1>2

\* A task that does not send is one.
LEMMA NoCastTyped == NoCast \in Broadcasts /\ ~NoCast.sending
<1>1. Cardinality({}) \in 0..Cardinality(Clients)
  BY SizeTyped
<1>2. 0 \in 0..Cardinality(Clients)
  BY <1>1, FS_EmptySet
<1>3. QED
  BY <1>2 DEF NoCast, Broadcasts

\* Changing the set keeps types and covers; no broadcast begins or ends by it.
LEMMA ChangeKeeps ==
  ASSUME NEW members \in SUBSET Clients, NEW casts \in [Casts -> Broadcasts],
         \A b \in Casts : Covers(casts[b], clients),
         ChangeClients(members, casts)
  PROVE  /\ clients' \in SUBSET Clients
         /\ cast' \in [Casts -> Broadcasts]
         /\ CoverInv'
         /\ \A b \in Casts : cast'[b].sending = casts[b].sending
<1>1. CASE members = clients /\ cast' = casts
  BY <1>1 DEF ChangeClients, CoverInv, Covers
<1>2. CASE members # clients
  <2>1. PICK rest \in [Casts -> SUBSET members] :
          cast' = [b \in Casts |->
             IF casts[b].sending
               THEN [casts[b] EXCEPT !.left = rest[b], !.served = {}, !.touched = TRUE]
               ELSE casts[b]]
    BY <1>2 DEF ChangeClients
  <2>2. \A b \in Casts :
          /\ cast'[b] \in Broadcasts
          /\ cast'[b].sending = casts[b].sending
          /\ cast'[b].at = casts[b].at
          /\ cast'[b].sending => cast'[b].touched
    BY <2>1 DEF Broadcasts
  <2>3. QED
    BY <2>1, <2>2 DEF ChangeClients, CoverInv, Covers
<1>3. QED
  BY <1>1, <1>2 DEF ChangeClients

\* So does a step of an iterator; a broadcast that ends by it, with a set that did
\* not change, has covered the set.
LEMMA IterateKeeps ==
  ASSUME TypeOK, CoverInv, NEW b \in Casts, NEW k \in Broadcasts, k.sending,
         ~k.touched => /\ k.size = Cardinality(clients)
                       /\ clients \subseteq k.served \cup k.dead \cup k.left,
         Iterate(b, k)
  PROVE  /\ clients' \in SUBSET Clients
         /\ cast' \in [Casts -> Broadcasts]
         /\ CoverInv'
         /\ \A e \in Casts : e # b => cast'[e].sending = cast[e].sending
         /\ ~cast'[b].sending /\ ~k.touched => clients \subseteq k.served \cup k.dead
<1> USE DEF TypeOK, SameSize
<1>0. /\ [cast EXCEPT ![b] = NoCast] \in [Casts -> Broadcasts]
      /\ \A e \in Casts : Covers([cast EXCEPT ![b] = NoCast][e], clients)
  BY NoCastTyped DEF CoverInv, Covers
<1>1. CASE k.size # Cardinality(clients)
  <2>1. cast' = [cast EXCEPT ![b] = NoCast] /\ UNCHANGED clients /\ k.touched
    BY <1>1 DEF Iterate
  <2>2. CoverInv'
    BY <1>0, <2>1 DEF CoverInv
  <2>3. QED
    BY <1>0, <2>1, <2>2
<1>2. CASE k.size = Cardinality(clients) /\ k.left # {}
  <2>1. PICK c \in k.left :
          /\ cast' = [cast EXCEPT ![b] = [k EXCEPT !.at = c, !.left = @ \ {c}]]
          /\ UNCHANGED clients
    BY <1>2 DEF Iterate
  <2> DEFINE k2 == [k EXCEPT !.at = c, !.left = @ \ {c}]
  <2>2. k2 \in Broadcasts /\ k2.sending
    BY DEF Broadcasts
  <2>3. Covers(k2, clients)
    <3>1. /\ k2.size = k.size /\ k2.served = k.served /\ k2.dead = k.dead
          /\ k2.touched = k.touched /\ k2.at = c /\ k2.left = k.left \ {c}
      BY DEF Broadcasts
    <3>2. c \in Clients /\ k.left = {c} \cup (k.left \ {c})
      BY DEF Broadcasts
    <3> HIDE DEF k2
    <3>3. QED
      BY <1>2, <3>1, <3>2 DEF Covers
  <2> HIDE DEF k2
  <2>4. cast' = [cast EXCEPT ![b] = k2]
    BY <2>1 DEF k2
  <2>5. CoverInv'
    BY <2>1, <2>3, <2>4 DEF CoverInv, Covers
  <2>6. QED
    BY <2>1, <2>2, <2>4, <2>5
<1>3. CASE k.size = Cardinality(clients) /\ k.left = {}
  <2>1. ChangeClients(clients \ k.dead, [cast EXCEPT ![b] = NoCast])
    BY <1>3 DEF Iterate
  <2>2. clients \ k.dead \in SUBSET Clients
    OBVIOUS
  <2>3. /\ clients' \in SUBSET Clients
        /\ cast' \in [Casts -> Broadcasts]
        /\ CoverInv'
        /\ \A e \in Casts : cast'[e].sending = [cast EXCEPT ![b] = NoCast][e].sending
    BY <1>0, <2>1, <2>2, ChangeKeeps
  <2>4. QED
    BY <1>3, <2>3
<1>4. QED
  BY <1>1, <1>2, <1>3

\* A new broadcast starts with the whole set before it.
LEMMA BeginKeeps ==
  ASSUME TypeOK, CoverInv, NEW b \in Casts, Begin(b)
  PROVE  /\ clients' \in SUBSET Clients
         /\ cast' \in [Casts -> Broadcasts]
         /\ CoverInv'
         /\ \A e \in Casts : Sending(e) => cast'[e].sending
<1> DEFINE k == [NoCast EXCEPT !.sending = TRUE, !.size = Cardinality(clients), !.left = clients]
<1>1. k \in Broadcasts /\ k.sending
  BY SizeTyped, NoCastTyped DEF TypeOK, NoCast, Broadcasts
<1>2. k.size = Cardinality(clients) /\ clients \subseteq k.left
  BY DEF NoCast
<1>3. Iterate(b, k)
  BY DEF Begin
<1> HIDE DEF k
<1>4. /\ clients' \in SUBSET Clients
      /\ cast' \in [Casts -> Broadcasts]
      /\ CoverInv'
      /\ \A e \in Casts : e # b => cast'[e].sending = cast[e].sending
  BY <1>1, <1>2, <1>3, IterateKeeps
<1>5. QED
  BY <1>4 DEF Begin, Sending

\* A send that comes back puts its client behind the broadcast.
LEMMA SendKeeps ==
  ASSUME TypeOK, CoverInv, NEW b \in Casts, Send(b)
  PROVE  /\ clients' \in SUBSET Clients
         /\ cast' \in [Casts -> Broadcasts]
         /\ CoverInv'
         /\ \A e \in Casts : e # b => cast'[e].sending = cast[e].sending
         /\ ~cast'[b].sending /\ ~cast[b].touched =>
              clients \subseteq cast[b].served \cup cast[b].dead \cup {cast[b].at}
<1> USE DEF TypeOK
<1>1. PICK k : /\ Iterate(b, k)
               /\ \/ k = [cast[b] EXCEPT !.served = @ \cup {cast[b].at}]
                  \/ k = [cast[b] EXCEPT !.dead = @ \cup {cast[b].at}]
  BY DEF Send
<1>2. cast[b].sending /\ cast[b].at \in Clients /\ cast[b] \in Broadcasts
  BY DEF Send, Sending, CoverInv, Covers
<1>3. /\ k \in Broadcasts
      /\ k.sending
      /\ k.touched = cast[b].touched /\ k.size = cast[b].size /\ k.left = cast[b].left
      /\ k.served \cup k.dead = cast[b].served \cup cast[b].dead \cup {cast[b].at}
  <2> DEFINE old == cast[b]
  <2>1. /\ old \in Broadcasts /\ old.sending
        /\ old.served \cup {old.at} \in SUBSET Clients
        /\ old.dead \cup {old.at} \in SUBSET Clients
    BY <1>2 DEF Broadcasts
  <2>2. \/ k = [old EXCEPT !.served = @ \cup {old.at}]
        \/ k = [old EXCEPT !.dead = @ \cup {old.at}]
    BY <1>1
  <2> HIDE DEF old
  <2>3. CASE k = [old EXCEPT !.served = @ \cup {old.at}]
    <3>1. /\ k \in Broadcasts /\ k.sending
          /\ k.touched = old.touched /\ k.size = old.size /\ k.left = old.left
          /\ k.served = old.served \cup {old.at} /\ k.dead = old.dead
      BY <2>1, <2>3 DEF Broadcasts
    <3>2. QED
      BY <3>1 DEF old
  <2>4. CASE k = [old EXCEPT !.dead = @ \cup {old.at}]
    <3>1. /\ k \in Broadcasts /\ k.sending
          /\ k.touched = old.touched /\ k.size = old.size /\ k.left = old.left
          /\ k.served = old.served /\ k.dead = old.dead \cup {old.at}
      BY <2>1, <2>4 DEF Broadcasts
    <3>2. QED
      BY <3>1 DEF old
  <2>5. QED
    BY <2>2, <2>3, <2>4
<1>4. ~k.touched => /\ k.size = Cardinality(clients)
                    /\ clients \subseteq k.served \cup k.dead \cup k.left
  <2>1. ~cast[b].touched =>
          /\ cast[b].size = Cardinality(clients)
          /\ clients \subseteq cast[b].served \cup cast[b].dead \cup {cast[b].at} \cup cast[b].left
    BY <1>2 DEF CoverInv, Covers
  <2>2. QED
    BY <1>3, <2>1
<1>5. QED
  BY <1>1, <1>3, <1>4, IterateKeeps

-----------------------------------------------------------------------------
\* The program starts in a state that satisfies the invariant.
LEMMA InitInv == Init => Inv
<1> SUFFICES ASSUME Init PROVE Inv
  OBVIOUS
<1>1. TypeOK
  BY NoCastTyped DEF Init, TypeOK, Phases, Links, AtWork
<1>2. CoverInv /\ RowInv /\ GoneInv
  BY NoCastTyped DEF Init, CoverInv, Covers, RowInv, GoneInv
<1>3. QED
  BY <1>1, <1>2 DEF Inv

\* A broadcast, or a change of its set, is no matter of the telemetry.
LEMMA SocketsKeepInv ==
  ASSUME Inv, clients' \in SUBSET Clients, cast' \in [Casts -> Broadcasts], CoverInv',
         link' \in [Clients -> Links], UNCHANGED <<phase, storage>>
  PROVE  Inv'
BY DEF Inv, TypeOK, RowInv, GoneInv, storage

\* A step of the telemetry is no matter of the broadcasts.
LEMMA StorageKeepsInv ==
  ASSUME Inv, UNCHANGED <<sockets, cast>>, TypeOK', RowInv', GoneInv'
  PROVE  Inv'
BY DEF Inv, CoverInv, Covers, sockets

\* A record that is asked for.
LEMMA InsertKeeps ==
  ASSUME TypeOK, RowInv, NEW d \in Inserts, insert[d] \notin AtWork, InsertBegins(d),
         UNCHANGED conn
  PROVE  /\ insert' \in [Inserts -> AtWork \cup {"idle", "saved"}]
         /\ row' \in [Inserts -> {"none", "written", "durable"}]
         /\ RowInv'
BY DEF TypeOK, RowInv, InsertBegins, AtWork

\* Broadcasts, connections and records preserve the invariant.
LEMMA TaskInv ==
  ASSUME Inv,
         \/ \E b \in Casts : CastStep(b) \/ HookedReport(b)
         \/ \E b \in Casts, d \in Inserts : HookedLog(b, d)
         \/ \E d \in Inserts : InsertStep(d)
         \/ \E c \in Clients : Join(c) \/ Network(c) \/ HandlerEnds(c)
  PROVE  Inv'
<1> USE DEF Inv
<1>0. \A b \in Casts : Covers(cast[b], clients)
  BY DEF CoverInv
<1>1. CASE \E b \in Casts : Send(b)
  BY <1>1, SendKeeps, SocketsKeepInv DEF Send, TypeOK
<1>2. CASE \E b \in Casts : Cancelled(b)
  BY <1>2, SocketsKeepInv, NoCastTyped
  DEF Cancelled, TypeOK, sockets, CoverInv, Covers
<1>3. CASE \E b \in Casts : HookedReport(b)
  BY <1>3, BeginKeeps, SocketsKeepInv DEF HookedReport, TypeOK
<1>4. CASE \E b \in Casts, d \in Inserts : HookedLog(b, d)
  <2>1. PICK b \in Casts, d \in Inserts : HookedLog(b, d)
    BY <1>4
  <2>2. /\ clients' \in SUBSET Clients
        /\ cast' \in [Casts -> Broadcasts]
        /\ CoverInv'
    BY <2>1, BeginKeeps DEF HookedLog
  <2>3. /\ insert' \in [Inserts -> AtWork \cup {"idle", "saved"}]
        /\ row' \in [Inserts -> {"none", "written", "durable"}]
        /\ RowInv'
    BY <2>1, InsertKeeps DEF HookedLog
  <2>4. TypeOK'
    BY <2>1, <2>2, <2>3 DEF HookedLog, TypeOK
  <2>5. GoneInv'
    BY <2>1 DEF HookedLog, GoneInv
  <2>6. QED
    BY <2>2, <2>3, <2>4, <2>5
<1>5. CASE \E d \in Inserts : InsertStep(d)
  <2>1. PICK d \in Inserts : Executed(d) \/ Committed(d)
    BY <1>5 DEF InsertStep
  <2>2. TypeOK' /\ RowInv' /\ GoneInv'
    BY <2>1 DEF Executed, Committed, TypeOK, RowInv, GoneInv, sockets, AtWork
  <2>3. QED
    BY <2>1, <2>2, StorageKeepsInv DEF Executed, Committed
<1>6. CASE \E c \in Clients : Join(c) \/ HandlerEnds(c)
  <2>1. PICK c \in Clients, members \in SUBSET Clients :
          /\ Join(c) \/ HandlerEnds(c)
          /\ ChangeClients(members, cast)
    BY <1>6 DEF Join, HandlerEnds, TypeOK
  <2>2. clients' \in SUBSET Clients /\ cast' \in [Casts -> Broadcasts] /\ CoverInv'
    BY <1>0, <2>1, ChangeKeeps DEF TypeOK
  <2>3. link' \in [Clients -> Links] /\ UNCHANGED <<phase, storage>>
    BY <2>1 DEF Join, HandlerEnds, TypeOK, Links
  <2>4. QED
    BY <2>2, <2>3, SocketsKeepInv
<1>7. CASE \E c \in Clients : Network(c)
  BY <1>7, SocketsKeepInv DEF Network, TypeOK, Links, CoverInv, Covers
<1>8. QED
  BY <1>1, <1>2, <1>3, <1>4, <1>5, <1>6, <1>7 DEF CastStep

\* So do shutdown and restart.
LEMMA ProgramInv ==
  ASSUME Inv, Interrupt \/ Shutdown \/ Restart \/ UNCHANGED vars
  PROVE  Inv'
<1> USE DEF Inv
<1>1. CASE Interrupt
  BY <1>1, StorageKeepsInv
  DEF Interrupt, TypeOK, RowInv, GoneInv, Phases, storage, sockets
<1>2. CASE CancelAll
  <2>1. \A b \in Casts : cast'[b] = IF cast[b].sending THEN [cast[b] EXCEPT !.cancelled = TRUE]
                                                     ELSE cast[b]
    BY <1>2 DEF CancelAll, Sending
  <2>2. cast' \in [Casts -> Broadcasts]
    <3>0. \A k \in Broadcasts : [k EXCEPT !.cancelled = TRUE] \in Broadcasts
      BY DEF Broadcasts
    <3>1. \A b \in Casts : cast'[b] \in Broadcasts
      BY <2>1, <3>0 DEF TypeOK
    <3>2. cast' = [b \in Casts |-> cast'[b]]
      BY <1>2 DEF CancelAll
    <3>3. QED
      BY <3>1, <3>2
  <2>3. \A b \in Casts : Covers(cast[b], clients) => Covers(cast'[b], clients)
    <3>1. TAKE b \in Casts
    <3>2. cast[b] \in Broadcasts
      BY DEF TypeOK
    <3>3. /\ cast'[b].sending = cast[b].sending /\ cast'[b].touched = cast[b].touched
          /\ cast'[b].size = cast[b].size /\ cast'[b].served = cast[b].served
          /\ cast'[b].dead = cast[b].dead /\ cast'[b].left = cast[b].left
          /\ cast'[b].at = cast[b].at
      BY <2>1, <3>2 DEF Broadcasts
    <3>4. QED
      BY <3>3 DEF Covers
  <2>4. CoverInv'
    BY <1>2, <2>3 DEF CancelAll, CoverInv, sockets
  <2>5. TypeOK' /\ RowInv' /\ GoneInv'
    BY <1>2, <2>2 DEF CancelAll, TypeOK, RowInv, GoneInv, Phases, AtWork, sockets
  <2>6. QED
    BY <2>4, <2>5
<1>3. CASE CloseDb
  BY <1>3, StorageKeepsInv DEF CloseDb, TypeOK, RowInv, GoneInv, Phases, sockets
<1>4. CASE DbClosed
  BY <1>4, StorageKeepsInv DEF DbClosed, TypeOK, RowInv, GoneInv, Phases, sockets
<1>5. CASE LoopCloses
  <2>1. cast' \in [Casts -> Broadcasts] /\ CoverInv'
    BY <1>5, NoCastTyped DEF LoopCloses, CoverInv, Covers
  <2>2. TypeOK' /\ RowInv' /\ GoneInv'
    BY <1>5, <2>1 DEF LoopCloses, TypeOK, RowInv, GoneInv, Phases, sockets
  <2>3. QED
    BY <2>1, <2>2
<1>6. CASE Restart
  BY <1>6, StorageKeepsInv
  DEF Restart, TypeOK, RowInv, GoneInv, Phases, sockets
<1>7. CASE UNCHANGED vars
  BY <1>7 DEF vars, sockets, storage, TypeOK, CoverInv, Covers, RowInv, GoneInv
<1>8. QED
  BY <1>1, <1>2, <1>3, <1>4, <1>5, <1>6, <1>7 DEF Shutdown

\* The invariant is one.
THEOREM Invariance == Spec => []Inv
<1>1. Inv /\ [Next]_vars => Inv'
  BY TaskInv, ProgramInv DEF Next
<1>2. QED
  BY InitInv, <1>1, PTL DEF Spec

\* The dashboard's variables keep their types, for any number of clients and
\* broadcasts.
THEOREM TypeCorrect == Spec => []TypeOK
BY Invariance, PTL DEF Inv

\* What insert_log acknowledged is in the file, whenever close() comes between its
\* awaits and whoever else commits (TelemetryDB.insert_log, close).
THEOREM RecordsAreKept == Spec => []RecordedIsKept
<1>1. Inv => RecordedIsKept
  BY DEF Inv, RowInv, RecordedIsKept
<1>2. QED
  BY Invariance, <1>1, PTL

\* An event reaches every client of a set that was left alone, whatever dies
\* during the iteration (WebSocketBroadcaster.broadcast).
THEOREM EventsReachStayers == Spec => EventReachesStayers
<1> DEFINE Reached ==
      \A b \in Casts :
        LET k == cast[b] IN
        Sending(b) /\ ~Sending(b)' /\ ~k.touched /\ ~k.cancelled /\ phase' # "gone" =>
          clients \subseteq k.served \cup k.dead \cup {k.at}
<1>1. Inv /\ [Next]_vars => [Reached]_vars
  <2>1. SUFFICES ASSUME Inv, Next, NEW b \in Casts,
                        cast[b].sending, ~cast'[b].sending, ~cast[b].touched,
                        ~cast[b].cancelled, phase' # "gone"
                 PROVE  clients \subseteq cast[b].served \cup cast[b].dead \cup {cast[b].at}
    BY DEF Sending
  <2> USE <2>1 DEF Inv
  <2>2. CASE \E e \in Casts : Send(e)
    <3>1. PICK e \in Casts : Send(e)
      BY <2>2
    <3>2. e = b
      BY <3>1, SendKeeps
    <3>3. QED
      BY <3>1, <3>2, SendKeeps
  <2>3. CASE \E e \in Casts : Cancelled(e)
    BY <2>3 DEF Cancelled, TypeOK
  <2>4. CASE \E e \in Casts : HookedReport(e) \/ \E d \in Inserts : HookedLog(e, d)
    BY <2>4, BeginKeeps DEF HookedReport, HookedLog, Sending
  <2>5. CASE \E c \in Clients : Join(c) \/ HandlerEnds(c)
    <3>1. PICK members \in SUBSET Clients : ChangeClients(members, cast)
      BY <2>5 DEF Join, HandlerEnds, TypeOK
    <3>2. QED
      BY <3>1, ChangeKeeps DEF TypeOK, CoverInv
  <2>6. CASE CancelAll
    BY <2>6 DEF CancelAll, Sending, TypeOK, Broadcasts
  <2>7. CASE UNCHANGED cast
    BY <2>7
  <2>8. QED
    BY <2>2, <2>3, <2>4, <2>5, <2>6, <2>7
    DEF Next, CastStep, InsertStep, Executed, Committed, Network, Interrupt, Shutdown,
        CloseDb, DbClosed, LoopCloses, Restart
<1>2. QED
  BY Invariance, <1>1, PTL DEF Spec, EventReachesStayers

=============================================================================
