----------------------------- MODULE Dashboard -----------------------------
(***************************************************************************)
(* The dashboard's server side: the WebSocket connections and the          *)
(* broadcaster (api_server.py), the tasks the log hooks start              *)
(* (run_dashboard.py), the telemetry connection they write to              *)
(* (telemetry/storage.py), and the shutdown that meets all of them.        *)
(*                                                                         *)
(* An action is what a coroutine does between two awaits.  A send may      *)
(* suspend its task (a full buffer, a compression in another thread), so   *)
(* that many broadcasts iterate over the set of clients at once.           *)
(***************************************************************************)
EXTENDS Naturals, FiniteSets

CONSTANTS
  Clients,  \* WebSocket connections that can exist together
  Casts,    \* broadcast tasks that can exist together
  Inserts,  \* insert_log tasks that can exist together
  None      \* Python's None

ASSUME DashboardAssumption ==
  /\ IsFiniteSet(Clients)
  /\ None \notin Clients

VARIABLES
  phase,    \* where the program is between its start and the end of the loop
  link,     \* each connection, as the network has it
  clients,  \* broadcaster.clients
  cast,     \* each broadcast task
  conn,     \* db.conn
  insert,   \* where each insert_log is suspended, or whether it ended well
  row       \* what became of its record

sockets == <<link, clients>>
storage == <<conn, insert, row>>
vars == <<phase, sockets, cast, storage>>

Phases == {"serving", "restoring", "stopping", "closing", "closed", "gone"}
Links == {"none", "open", "stalled", "lost"}
AtWork == {"executing", "committing"}

(***************************************************************************)
(* A task of broadcast(): "size" is the number of clients its iterator was *)
(* made for, "left" what the iterator will still yield, "at" the client it *)
(* sends to.  "touched" remembers that the set changed under the iterator, *)
(* "served" who was sent the event as long as it had not.                  *)
(***************************************************************************)
Broadcasts ==
  [sending : BOOLEAN, size : 0..Cardinality(Clients), left : SUBSET Clients,
   at : Clients \cup {None}, served : SUBSET Clients, dead : SUBSET Clients,
   touched : BOOLEAN, cancelled : BOOLEAN]

NoCast ==
  [sending |-> FALSE, size |-> 0, left |-> {}, at |-> None, served |-> {},
   dead |-> {}, touched |-> FALSE, cancelled |-> FALSE]

TypeOK ==
  /\ phase \in Phases
  /\ link \in [Clients -> Links]
  /\ clients \in SUBSET Clients
  /\ cast \in [Casts -> Broadcasts]
  /\ conn \in {"open", "closing", "none"}
  /\ insert \in [Inserts -> AtWork \cup {"idle", "saved"}]
  /\ row \in [Inserts -> {"none", "written", "durable"}]

Init ==
  /\ phase = "serving"
  /\ link = [c \in Clients |-> "none"]
  /\ clients = {}
  /\ cast = [b \in Casts |-> NoCast]
  /\ conn = "open"
  /\ insert = [d \in Inserts |-> "idle"]
  /\ row = [d \in Inserts |-> "none"]

Sending(b) == cast[b].sending

-----------------------------------------------------------------------------
(***************************************************************************)
(* The set of clients and the iterators over it.  An iterator notices that *)
(* the set has another size than at its start and raises; when as many     *)
(* came as went it goes on through a table that may have been rebuilt, and *)
(* yields any of the present members.                                      *)
(***************************************************************************)
SameSize(k, members) == Cardinality(members) = k.size

ChangeClients(members, casts) ==
  /\ clients' = members
  /\ \/ members = clients /\ cast' = casts
     \/ /\ members # clients
        /\ \E rest \in [Casts -> SUBSET members] :
             /\ \A b \in Casts :
                  rest[b] # {} => casts[b].sending /\ SameSize(casts[b], members)
             /\ cast' = [b \in Casts |->
                  IF casts[b].sending
                    THEN [casts[b] EXCEPT !.left = rest[b], !.served = {}, !.touched = TRUE]
                    ELSE casts[b]]

\* "for ws in self.clients" takes its next step in task b, whose state is k:
\* it raises, yields a client, or ends, and the dead clients are removed.
Iterate(b, k) ==
  \/ /\ ~SameSize(k, clients)
     /\ cast' = [cast EXCEPT ![b] = NoCast]
     /\ UNCHANGED clients
  \/ /\ SameSize(k, clients)
     /\ \E c \in k.left :
          cast' = [cast EXCEPT ![b] = [k EXCEPT !.at = c, !.left = @ \ {c}]]
     /\ UNCHANGED clients
  \/ /\ SameSize(k, clients)
     /\ k.left = {}
     /\ ChangeClients(clients \ k.dead, [cast EXCEPT ![b] = NoCast])

\* A task of broadcast() starts.
Begin(b) ==
  /\ ~Sending(b)
  /\ Iterate(b, [NoCast EXCEPT !.sending = TRUE, !.size = Cardinality(clients), !.left = clients])

\* Mutation: the "try" is around the loop, so a dead client ends it.
SendEndsLoop(b) ==
  LET k == cast[b] IN
  /\ Sending(b) /\ ~k.cancelled
  /\ \/ link[k.at] = "open" /\ Iterate(b, [k EXCEPT !.served = @ \cup {k.at}])
     \/ /\ link[k.at] \in {"lost", "none"}
        /\ ChangeClients(clients \ {k.at}, [cast EXCEPT ![b] = NoCast])
  /\ UNCHANGED <<phase, link, storage>>

\* send_json comes back: the message is on its way, or the connection is gone
\* and the client counts as dead.  A stalled one keeps the task waiting.
Send(b) ==
  LET k == cast[b] IN
  /\ Sending(b) /\ ~k.cancelled
  /\ \/ link[k.at] = "open" /\ Iterate(b, [k EXCEPT !.served = @ \cup {k.at}])
     \/ link[k.at] \in {"lost", "none"} /\ Iterate(b, [k EXCEPT !.dead = @ \cup {k.at}])
  /\ UNCHANGED <<phase, link, storage>>

\* CancelledError is no Exception: it leaves the loop and the task.
Cancelled(b) ==
  /\ Sending(b) /\ cast[b].cancelled
  /\ cast' = [cast EXCEPT ![b] = NoCast]
  /\ UNCHANGED <<phase, sockets, storage>>

-----------------------------------------------------------------------------
Accepting == phase \in {"serving", "restoring"}

\* A connection is a new object: no broadcast sends to it or holds it for dead.
Unseen(c) ==
  \A b \in Casts : Sending(b) =>
    c \notin cast[b].dead \cup {cast[b].at}

\* websocket_handler: the handshake is over, the client is added.
Join(c) ==
  /\ Accepting
  /\ link[c] = "none"
  /\ Unseen(c)
  /\ link' = [link EXCEPT ![c] = "open"]
  /\ ChangeClients(clients \cup {c}, cast)
  /\ UNCHANGED <<phase, storage>>

\* The peer stops reading, reads again, or is gone.
Network(c) ==
  /\ \/ link[c] = "open" /\ \E l \in {"stalled", "lost"} : link' = [link EXCEPT ![c] = l]
     \/ link[c] = "stalled" /\ \E l \in {"open", "lost"} : link' = [link EXCEPT ![c] = l]
  /\ UNCHANGED <<phase, clients, cast, storage>>

\* Mutation: the handler takes its cancellation for a message.
LeavesWhenLost(c) == link[c] = "lost"

\* The handler's "async for" ends with its connection, or by cancellation.
Leaves(c) == link[c] = "lost" \/ (phase = "stopping" /\ link[c] # "none")

\* Mutation: remove_client is not in a finally clause.
HandlerForgets(c) ==
  /\ Leaves(c)
  /\ link' = [link EXCEPT ![c] = "none"]
  /\ UNCHANGED <<phase, clients, cast, storage>>

\* The handler ends, and its finally clause removes the client.
HandlerEnds(c) ==
  /\ Leaves(c)
  /\ link' = [link EXCEPT ![c] = "none"]
  /\ ChangeClients(clients \ {c}, cast)
  /\ UNCHANGED <<phase, storage>>

-----------------------------------------------------------------------------
\* What is asked of the connection takes effect in the order in which it is
\* asked, as one thread works on it.  insert_log up to its first await: it
\* gives up without a connection and fails on one that is being closed.
InsertBegins(d) ==
  \/ /\ conn = "open"
     /\ insert' = [insert EXCEPT ![d] = "executing"]
     /\ row' = [row EXCEPT ![d] = "written"]
  \/ /\ conn # "open"
     /\ insert' = [insert EXCEPT ![d] = "idle"]
     /\ row' = [row EXCEPT ![d] = "none"]

\* hooked_log: a broadcast task and an insert task, one after the other.
HookedLog(b, d) ==
  /\ phase # "gone"
  /\ insert[d] \notin AtWork
  /\ Begin(b)
  /\ InsertBegins(d)
  /\ UNCHANGED <<phase, link, conn>>

\* hooked_report: a broadcast; the event goes to a database nobody opened.
HookedReport(b) ==
  /\ phase # "gone"
  /\ Begin(b)
  /\ UNCHANGED <<phase, link, storage>>

\* Mutation: nobody commits, as if the connection did by itself.
ExecutedIsSaved(d) ==
  /\ insert[d] = "executing"
  /\ insert' = [insert EXCEPT ![d] = "saved"]
  /\ UNCHANGED <<phase, sockets, cast, conn, row>>

\* The statement has run; self.conn.commit() makes every record durable that is
\* written in the one transaction all tasks share, or finds no connection.
Executed(d) ==
  /\ insert[d] = "executing"
  /\ \/ /\ conn = "open"
        /\ insert' = [insert EXCEPT ![d] = "committing"]
        /\ row' = [e \in Inserts |-> IF row[e] = "written" THEN "durable" ELSE row[e]]
     \/ /\ conn # "open"
        /\ insert' = [insert EXCEPT ![d] = "idle"]
        /\ UNCHANGED row
  /\ UNCHANGED <<phase, sockets, cast, conn>>

\* commit() comes back.
Committed(d) ==
  /\ insert[d] = "committing"
  /\ insert' = [insert EXCEPT ![d] = "saved"]
  /\ UNCHANGED <<phase, sockets, cast, conn, row>>

-----------------------------------------------------------------------------
\* Ctrl-C: main() is left and safe_cleanup runs on the loop, whose tasks go on.
Interrupt ==
  /\ phase = "serving"
  /\ phase' = "restoring"
  /\ UNCHANGED <<sockets, cast, storage>>

\* Every task of the moment is cancelled; an insert ends at its await.
CancelAll ==
  /\ phase = "restoring"
  /\ phase' = "stopping"
  /\ cast' = [b \in Casts |-> IF Sending(b) THEN [cast[b] EXCEPT !.cancelled = TRUE]
                                            ELSE cast[b]]
  /\ insert' = [d \in Inserts |-> IF insert[d] \in AtWork THEN "idle" ELSE insert[d]]
  /\ UNCHANGED <<sockets, conn, row>>

\* main()'s finally: the server has ended its handlers, the database is closed
\* and what was not committed is gone.
CloseDb ==
  /\ phase = "stopping"
  /\ \A c \in Clients : link[c] = "none"
  /\ phase' = "closing"
  /\ conn' = "closing"
  /\ row' = [d \in Inserts |-> IF row[d] = "written" THEN "none" ELSE row[d]]
  /\ UNCHANGED <<sockets, cast, insert>>

\* close() returns and forgets the connection.
DbClosed ==
  /\ phase = "closing"
  /\ phase' = "closed"
  /\ conn' = "none"
  /\ UNCHANGED <<sockets, cast, insert, row>>

\* gather() has every cancelled task back; tasks that were started since do not
\* count and go down with the loop.
LoopCloses ==
  /\ phase = "closed"
  /\ \A b \in Casts : ~cast[b].cancelled
  /\ phase' = "gone"
  /\ cast' = [b \in Casts |-> NoCast]
  /\ insert' = [d \in Inserts |-> "idle"]
  /\ UNCHANGED <<sockets, conn, row>>

\* The next run.
Restart ==
  /\ phase = "gone"
  /\ phase' = "serving"
  /\ conn' = "open"
  /\ row' = [d \in Inserts |-> "none"]
  /\ UNCHANGED <<sockets, cast, insert>>

-----------------------------------------------------------------------------
CastStep(b) == Send(b) \/ Cancelled(b)
InsertStep(d) == Executed(d) \/ Committed(d)
Shutdown == CancelAll \/ CloseDb \/ DbClosed \/ LoopCloses

Next ==
  \/ \E b \in Casts : CastStep(b) \/ HookedReport(b)
  \/ \E b \in Casts, d \in Inserts : HookedLog(b, d)
  \/ \E d \in Inserts : InsertStep(d)
  \/ \E c \in Clients : Join(c) \/ Network(c) \/ HandlerEnds(c)
  \/ Interrupt \/ Shutdown \/ Restart

Spec == Init /\ [][Next]_vars

\* The loop runs what can run; connections, events and Ctrl-C are not fair, nor
\* is a peer that does not read.
FairSpec ==
  /\ Spec
  /\ \A b \in Casts : WF_vars(CastStep(b))
  /\ \A d \in Inserts : WF_vars(InsertStep(d))
  /\ \A c \in Clients : WF_vars(HandlerEnds(c))
  /\ WF_vars(Shutdown)

-----------------------------------------------------------------------------
(***************************************************************************)
(* Properties.                                                             *)
(***************************************************************************)

\* A broadcast that ends, and whose set of clients stayed as it was, has sent
\* its event to every one of them but those that turned out to be dead, however
\* many died on the way (WebSocketBroadcaster.broadcast).
EventReachesStayers ==
  [][\A b \in Casts :
       LET k == cast[b] IN
       Sending(b) /\ ~Sending(b)' /\ ~k.touched /\ ~k.cancelled /\ phase' # "gone" =>
         clients \subseteq k.served \cup k.dead \cup {k.at}]_vars

\* The set of clients forgets a lost connection, with or without an event to
\* send to it and whatever broadcasts prune the set meanwhile.
DeadClientsForgotten ==
  \A c \in Clients : link[c] = "lost" ~> c \notin clients

\* A record whose insert_log ended well is in the file: close() may come between
\* its awaits and then takes back what the task had written.
RecordedIsKept ==
  \A d \in Inserts : insert[d] = "saved" => row[d] = "durable"

\* After Ctrl-C the program ends, whatever broadcasts hang on clients that do
\* not read (run_dashboard.py, gather of the cancelled tasks).
ShutdownEnds == phase = "restoring" ~> phase = "gone"

=============================================================================
