---------------------------- MODULE ConfigFetch ----------------------------
(***************************************************************************)
(* fetch_fresh_configs (BypssEng.py) and cnfg.main (core/cnfg.py), which   *)
(* rewrite the configuration file cnfg.json from the user's subscriptions  *)
(* and from public lists, next to save_subscription (api_server.py), which *)
(* edits the same file.  A fetch may use a temporary Tor process           *)
(* (start_bootstrap_tor, strategies/adapters/tor.py).                      *)
(*                                                                         *)
(* A job is one call of fetch_fresh_configs.  An action is what a          *)
(* coroutine does between two awaits.  The links found in a list of        *)
(* subscriptions are named by that list.                                   *)
(***************************************************************************)
EXTENDS Naturals, Sequences, FiniteSets

CONSTANTS
  Jobs,         \* calls of fetch_fresh_configs that can be in flight
  SubLists,     \* the lists of subscription URLs a user may save
  HasSocks,     \* the package aiohttp_socks is installed
  Environments, \* the sets of FaultKinds a behaviour may be exposed to
  None          \* an empty list, or Python's None

FaultKinds ==
  { "read_fails",    \* cnfg.json cannot be read, and counts as empty
    "write_fails" }  \* it cannot be written (only logged)

ASSUME ConfigFetchAssumption ==
  /\ HasSocks \in BOOLEAN
  /\ Environments \subseteq SUBSET FaultKinds
  /\ None \notin SubLists

VARIABLES
  env,           \* what may go wrong with the file in this behaviour
  file,          \* cnfg.json
  saved,         \* the list the user saved last
  pc,            \* where each call is suspended
  queue,         \* _fetch_lock: who asked for it, the head may hold it
  data,          \* output_data of each job
  fetchOk,       \* personal_fetch_ok of each job
  directFailed,  \* _direct_fetch_failed
  imported,      \* the module cnfg was imported
  tor            \* the bootstrap process of each job

shared == <<file, saved>>
flags == <<directFailed, imported>>
vars == <<env, shared, pc, queue, data, fetchOk, flags, tor>>

\* "warp" and "worker" say whether the file has a registered WARP account and a
\* Cloudflare worker.
Lists == SubLists \cup {None}
Configs ==
  [subs : Lists, personal : Lists, collected : BOOLEAN, warp : BOOLEAN, worker : BOOLEAN]
NoConfigs ==
  [subs |-> None, personal |-> None, collected |-> FALSE, warp |-> FALSE, worker |-> FALSE]

\* Between acquiring and releasing _fetch_lock.
Locked ==
  {"bootstrapping", "fetching", "testing", "public", "registering", "subprocess", "stopping"}
PCs == Locked \cup {"idle", "called", "created", "waiting"}

TypeOK ==
  /\ env \in Environments
  /\ file \in Configs
  /\ saved \in Lists
  /\ pc \in [Jobs -> PCs]
  /\ queue \in Seq(Jobs)
  /\ data \in [Jobs -> Configs]
  /\ fetchOk \in [Jobs -> BOOLEAN]
  /\ directFailed \in BOOLEAN
  /\ imported \in BOOLEAN
  /\ tor \in [Jobs -> {"none", "starting", "registered"}]

Init ==
  /\ env \in Environments
  /\ file = NoConfigs
  /\ saved = None
  /\ pc = [j \in Jobs |-> "idle"]
  /\ queue = <<>>
  /\ data = [j \in Jobs |-> NoConfigs]
  /\ fetchOk = [j \in Jobs |-> TRUE]
  /\ directFailed = FALSE
  /\ imported = FALSE
  /\ tor = [j \in Jobs |-> "none"]

Goto(j, next) == pc' = [pc EXCEPT ![j] = next]

\* Mutation: _fetch_lock is not taken.
TurnOfAll(j) == TRUE

\* It is the job's turn to have the lock.
TurnOf(j) == queue # <<>> /\ Head(queue) = j

-----------------------------------------------------------------------------
\* What a reader of the file may get: both readers go on with their defaults
\* after an error.
Loaded == {file} \cup (IF "read_fails" \in env THEN {NoConfigs} ELSE {})

\* atomic_write_json(): an error is logged and forgotten.
Write(configs) ==
  \/ file' = configs
  \/ "write_fails" \in env /\ file' = file

\* The dashboard saves a list: the file is loaded, changed and written without
\* an await, and a fetch is called for.
SaveSubscription(j) ==
  /\ pc[j] = "idle"
  /\ \E urls \in SubLists, loaded \in Loaded :
       /\ Write([loaded EXCEPT !.subs = urls])
       /\ saved' = urls
  /\ Goto(j, "called")
  /\ UNCHANGED <<env, queue, data, fetchOk, flags, tor>>

\* The orchestrator finds the network healthy and calls for a fetch.
FetchInBackground(j) ==
  /\ pc[j] = "idle"
  /\ Goto(j, "called")
  /\ UNCHANGED <<env, shared, queue, data, fetchOk, flags, tor>>

\* fetch_fresh_configs runs: a locked lock makes it return, otherwise the job
\* becomes a task, which will run later.
CheckLock(j) ==
  /\ pc[j] = "called"
  /\ Goto(j, IF \E k \in Jobs : pc[k] \in Locked THEN "idle" ELSE "created")
  /\ UNCHANGED <<env, shared, queue, data, fetchOk, flags, tor>>

\* The task runs up to "async with _fetch_lock".
Enqueue(j) ==
  /\ pc[j] = "created"
  /\ queue' = Append(queue, j)
  /\ Goto(j, "waiting")
  /\ UNCHANGED <<env, shared, data, fetchOk, flags, tor>>

\* The task has the lock and imports cnfg, which works from then on.
HasLock(j) == pc[j] = "waiting" /\ TurnOf(j)

\* The import aborts by SystemExit.
ImportAborts(j) ==
  /\ HasLock(j) /\ ~imported
  /\ directFailed' = TRUE
  /\ Goto(j, "stopping")
  /\ UNCHANGED <<env, shared, queue, data, fetchOk, imported, tor>>

\* The import fails: cnfg.py is run as a program instead.
ImportFails(j) ==
  /\ HasLock(j) /\ ~imported
  /\ Goto(j, "subprocess")
  /\ UNCHANGED <<env, shared, queue, data, fetchOk, flags, tor>>

\* It cannot find the package core from where it lies, and fails as well.
SubprocessEnds(j) ==
  /\ pc[j] = "subprocess"
  /\ Goto(j, "stopping")
  /\ UNCHANGED <<env, shared, queue, data, fetchOk, flags, tor>>

\* What cnfg.main takes over from what it read: the list, WARP and the worker.
Kept(loaded) ==
  [NoConfigs EXCEPT !.subs = loaded.subs, !.warp = loaded.warp, !.worker = loaded.worker]

\* Where it goes first: to the user's subscriptions, if there are any.
First(loaded) == IF loaded.subs = None THEN "public" ELSE "fetching"

\* Mutation: only the list is taken over.
StartForgets(j) ==
  /\ \E loaded \in Loaded :
       /\ data' = [data EXCEPT ![j] = [NoConfigs EXCEPT !.subs = loaded.subs]]
       /\ Goto(j, First(loaded))
  /\ fetchOk' = [fetchOk EXCEPT ![j] = TRUE]

\* Mutation: the whole file is kept where its list of subscriptions belongs.
StartNested(j) ==
  /\ \E loaded \in Loaded :
       /\ data' = [data EXCEPT ![j] = [Kept(loaded) EXCEPT !.subs = loaded]]
       /\ Goto(j, First(loaded))
  /\ fetchOk' = [fetchOk EXCEPT ![j] = TRUE]

\* cnfg.main starts from the file and drops both lists of configs.
StartMain(j) ==
  /\ \E loaded \in Loaded :
       /\ data' = [data EXCEPT ![j] = Kept(loaded)]
       /\ Goto(j, First(loaded))
  /\ fetchOk' = [fetchOk EXCEPT ![j] = TRUE]

\* With the lock, and nothing known against a direct fetch.
Begin(j) ==
  /\ HasLock(j)
  /\ ~(directFailed /\ HasSocks)
  /\ imported' = TRUE
  /\ StartMain(j)
  /\ UNCHANGED <<env, shared, queue, directFailed, tor>>

\* With the lock, after a direct fetch that failed: Tor is started.
LaunchTor(j) ==
  /\ HasLock(j)
  /\ directFailed /\ HasSocks
  /\ imported' = TRUE
  /\ tor' = [tor EXCEPT ![j] = "starting"]
  /\ Goto(j, "bootstrapping")
  /\ UNCHANGED <<env, shared, queue, data, fetchOk, directFailed>>

\* Tor has a circuit and is registered, or it is ended (no binary, timeout,
\* early exit) and the fetch goes on without.
TorReady(j) ==
  /\ pc[j] = "bootstrapping"
  /\ \E result \in {"registered", "none"} : tor' = [tor EXCEPT ![j] = result]
  /\ StartMain(j)
  /\ UNCHANGED <<env, shared, queue, flags>>

\* Its directory cannot be made: the exception ends the job.
TorRaises(j) ==
  /\ pc[j] = "bootstrapping"
  /\ tor' = [tor EXCEPT ![j] = "none"]
  /\ Goto(j, "stopping")
  /\ UNCHANGED <<env, shared, queue, data, fetchOk, flags>>

\* No subscription answers, or none of the answers holds a link.
NothingFound(j) ==
  /\ pc[j] = "fetching"
  /\ \E answered \in BOOLEAN : fetchOk' = [fetchOk EXCEPT ![j] = answered]
  /\ Goto(j, "public")
  /\ UNCHANGED <<env, shared, queue, data, flags, tor>>

\* Links were found and are tested.
LinksFound(j) ==
  /\ pc[j] = "fetching"
  /\ Goto(j, "testing")
  /\ UNCHANGED <<env, shared, queue, data, fetchOk, flags, tor>>

\* Some or none are alive; either way the file is written for the first time.
LinksTested(j) ==
  /\ pc[j] = "testing"
  /\ \E alive \in {data[j].subs, None} :
       /\ data' = [data EXCEPT ![j].personal = alive]
       /\ fetchOk' = [fetchOk EXCEPT ![j] = (alive # None)]
       /\ Write([data[j] EXCEPT !.personal = alive])
  /\ Goto(j, "public")
  /\ UNCHANGED <<env, saved, queue, flags, tor>>

\* The public lists are in and tested; without a worker one may be found among
\* the links that are alive.
PublicTested(j) ==
  /\ pc[j] = "public"
  /\ \E found, seen \in BOOLEAN :
       /\ seen => found \/ data[j].personal # None
       /\ data' = [data EXCEPT ![j].collected = found, ![j].worker = @ \/ seen]
  /\ Goto(j, "registering")
  /\ UNCHANGED <<env, shared, queue, fetchOk, flags, tor>>

\* Without a WARP account one is registered, if that works.  The file is written
\* for the last time, the outcome for the personal configs is remembered.
Registered(j) ==
  /\ pc[j] = "registering"
  /\ \E account \in BOOLEAN : Write([data[j] EXCEPT !.warp = @ \/ account])
  /\ directFailed' = ~fetchOk[j]
  /\ Goto(j, "stopping")
  /\ UNCHANGED <<env, saved, queue, data, fetchOk, imported, tor>>

\* cnfg.main raises: SystemExit, or an error nobody caught.
FetchRaises(j) ==
  /\ pc[j] \in {"fetching", "testing", "public", "registering"}
  /\ directFailed' = TRUE
  /\ Goto(j, "stopping")
  /\ UNCHANGED <<env, shared, queue, data, fetchOk, imported, tor>>

\* Mutation: the finally clause forgets the bootstrap process.
StopKeepsTor(j) ==
  /\ pc[j] = "stopping"
  /\ queue' = Tail(queue)
  /\ data' = [data EXCEPT ![j] = NoConfigs]
  /\ fetchOk' = [fetchOk EXCEPT ![j] = TRUE]
  /\ Goto(j, "idle")
  /\ UNCHANGED <<env, shared, flags, tor>>

\* Mutation: the lock is kept when the fetch failed.
StopKeepsLock(j) ==
  /\ pc[j] = "stopping"
  /\ tor' = [tor EXCEPT ![j] = "none"]
  /\ queue' = IF directFailed THEN queue ELSE Tail(queue)
  /\ data' = [data EXCEPT ![j] = NoConfigs]
  /\ fetchOk' = [fetchOk EXCEPT ![j] = TRUE]
  /\ Goto(j, "idle")
  /\ UNCHANGED <<env, shared, flags>>

\* The finally clause ends Tor (stop_bootstrap_proc), the lock is released.
Stop(j) ==
  /\ pc[j] = "stopping"
  /\ tor' = [tor EXCEPT ![j] = "none"]
  /\ queue' = Tail(queue)
  /\ data' = [data EXCEPT ![j] = NoConfigs]
  /\ fetchOk' = [fetchOk EXCEPT ![j] = TRUE]
  /\ Goto(j, "idle")
  /\ UNCHANGED <<env, shared, flags>>

\* The program is killed and started again; the file stays as it is.  What
\* becomes of a Tor process depends on the system and is no job's any more.
Restart ==
  /\ pc' = [j \in Jobs |-> "idle"]
  /\ queue' = <<>>
  /\ data' = [j \in Jobs |-> NoConfigs]
  /\ fetchOk' = [j \in Jobs |-> TRUE]
  /\ directFailed' = FALSE
  /\ imported' = FALSE
  /\ tor' = [j \in Jobs |-> "none"]
  /\ UNCHANGED <<env, shared>>

-----------------------------------------------------------------------------
Step(j) ==
  \/ CheckLock(j) \/ Enqueue(j)
  \/ ImportAborts(j) \/ ImportFails(j) \/ SubprocessEnds(j)
  \/ Begin(j) \/ LaunchTor(j) \/ TorReady(j) \/ TorRaises(j)
  \/ NothingFound(j) \/ LinksFound(j) \/ LinksTested(j)
  \/ PublicTested(j) \/ Registered(j) \/ FetchRaises(j) \/ Stop(j)

Next ==
  \/ \E j \in Jobs : SaveSubscription(j) \/ FetchInBackground(j) \/ Step(j)
  \/ Restart

Spec == Init /\ [][Next]_vars

\* Every await of a job is a request or a connection with a timeout, a wait for Tor
\* with one, or the end of a program that fails at its first import; that one
\* (proc.communicate) and the closing of a connection are taken to end on their own.
FairSpec == Spec /\ \A j \in Jobs : WF_vars(Step(j))

-----------------------------------------------------------------------------
(***************************************************************************)
(* Properties.                                                             *)
(***************************************************************************)

\* Two jobs never fetch together, although several may find the lock open and
\* become tasks: the working directory and the file have one job at a time.
OneFetchAtATime ==
  \A j, k \in Jobs : pc[j] \in Locked /\ pc[k] \in Locked => j = k

\* A bootstrap Tor lives only as long as the job that started it, so there is
\* never a second one.
TorServesItsJob ==
  \A j \in Jobs : tor[j] # "none" => pc[j] \in Locked

\* As long as the file can be read, a registered WARP account and a worker that was
\* found stay in it, whatever saves, fetches, failed writes and kills come between
\* the reading of the file and its two rewritings (cnfg.main, save_subscription).
\* One failed read is enough to lose both: either reader writes its defaults back.
AccountsSurvive ==
  [][env \subseteq {"write_fails"} =>
       (file.warp => file'.warp) /\ (file.worker => file'.worker)]_vars

\* Every call for a fetch ends, however many queue on the lock.
EveryFetchEnds ==
  \A j \in Jobs : pc[j] = "called" ~> pc[j] = "idle"

\* README.md: the list a user saves in the dashboard is the one in use.
LastSaveWins == file.subs = saved

=============================================================================
