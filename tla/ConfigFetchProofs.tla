------------------------- MODULE ConfigFetchProofs -------------------------
(***************************************************************************)
(* Theorems about ConfigFetch, for every number of jobs and every set of   *)
(* lists, with the proofs TLAPS checks.                                    *)
(***************************************************************************)
EXTENDS ConfigFetch, SequenceTheorems, TLAPS

\* Only the head of the queue is past "async with _fetch_lock".
LockInv == \A j \in Jobs : pc[j] \in Locked => TurnOf(j)

\* The file can be read.
Readable == env \subseteq {"write_fails"}

\* From its read of the file to its last write, a job knows every account that is
\* in the file.
Working == {"fetching", "testing", "public", "registering"}
KnowsAccounts(j) ==
  (file.warp => data[j].warp) /\ (file.worker => data[j].worker)
KeptInv == Readable => \A j \in Jobs : pc[j] \in Working => KnowsAccounts(j)

\* The inductive invariant.
Inv == TypeOK /\ LockInv /\ TorServesItsJob /\ KeptInv

-----------------------------------------------------------------------------
\* A job that joins the queue does not change who heads it.
LEMMA JoinKeepsHead ==
  ASSUME NEW q \in Seq(Jobs), NEW j \in Jobs
  PROVE  /\ Append(q, j) \in Seq(Jobs)
         /\ q # <<>> => Append(q, j) # <<>> /\ Head(Append(q, j)) = Head(q)
  BY AppendProperties, LenProperties, EmptySeq

\* A job that has its turn moves within the lock.
LEMMA HolderKeepsLock ==
  ASSUME TypeOK, LockInv, NEW j \in Jobs, NEW next \in Locked, TurnOf(j),
         Goto(j, next), UNCHANGED queue
  PROVE  pc' \in [Jobs -> PCs] /\ LockInv'
  BY DEF TypeOK, LockInv, TurnOf, Goto, PCs

\* While a job is past "async with", no other one is.
LEMMA HolderIsAlone ==
  ASSUME LockInv, NEW j \in Jobs, TurnOf(j), NEW k \in Jobs, pc[k] \in Locked
  PROVE  k = j
  BY DEF LockInv, TurnOf

\* The steps of a job outside the lock leave file, data and Tor to the others.
LEMMA OutsideKeepsInv ==
  ASSUME Inv, NEW j \in Jobs, NEW next \in PCs \ Locked, Goto(j, next),
         pc[j] \notin Locked, LockInv', queue' \in Seq(Jobs),
         UNCHANGED <<env, file, saved, data, fetchOk, directFailed, imported, tor>>
  PROVE  Inv'
<1> USE DEF Inv, TypeOK, Goto
<1>1. pc' \in [Jobs -> PCs]
  OBVIOUS
<1>2. TorServesItsJob'
  BY DEF TorServesItsJob
<1>3. KeptInv'
  BY DEF KeptInv, Readable, KnowsAccounts, Working, Locked
<1>4. QED
  BY <1>1, <1>2, <1>3

\* A step within the lock that changes neither file nor data.
LEMMA InsideKeepsInv ==
  ASSUME Inv, NEW j \in Jobs, NEW next \in Locked \ Working, Goto(j, next), TurnOf(j),
         UNCHANGED <<env, file, saved, queue, data, fetchOk>>,
         directFailed' \in BOOLEAN, imported' \in BOOLEAN,
         NEW process \in {"none", "starting", "registered"},
         tor' = [tor EXCEPT ![j] = process]
  PROVE  Inv'
<1> USE DEF Inv, TypeOK, Goto
<1>1. pc' \in [Jobs -> PCs] /\ LockInv'
  BY HolderKeepsLock DEF PCs
<1>2. TorServesItsJob'
  BY DEF TorServesItsJob
<1>3. KeptInv'
  BY DEF KeptInv, Readable, KnowsAccounts
<1>4. QED
  BY <1>1, <1>2, <1>3

\* The same without Tor.
LEMMA InsideKeepsInvToo ==
  ASSUME Inv, NEW j \in Jobs, NEW next \in Locked \ Working, Goto(j, next), TurnOf(j),
         UNCHANGED <<env, file, saved, queue, data, fetchOk, tor>>,
         directFailed' \in BOOLEAN, imported' \in BOOLEAN
  PROVE  Inv'
<1>1. tor[j] \in {"none", "starting", "registered"} /\ tor' = [tor EXCEPT ![j] = tor[j]]
  BY DEF Inv, TypeOK
<1>2. QED
  BY <1>1, InsideKeepsInv

\* A reader gets configs; while the file can be read, those of the file.
LEMMA LoadedIs ==
  ASSUME TypeOK, NEW loaded \in Loaded
  PROVE  loaded \in Configs /\ (Readable => loaded = file)
<1>1. loaded = file \/ (loaded = NoConfigs /\ "read_fails" \in env)
  BY DEF Loaded
<1>2. NoConfigs \in Configs
  BY DEF NoConfigs, Configs, Lists
<1>3. QED
  BY <1>1, <1>2 DEF TypeOK, Readable

\* A write leaves the new configs in the file, or the old ones.
LEMMA WriteIs ==
  ASSUME TypeOK, NEW configs \in Configs, Write(configs)
  PROVE  file' \in Configs /\ (file' = configs \/ file' = file)
  BY DEF TypeOK, Write

\* What cnfg.main takes over is a set of configs with the accounts it read.
LEMMA KeptIsConfigs ==
  ASSUME NEW loaded \in Configs
  PROVE  /\ Kept(loaded) \in Configs
         /\ Kept(loaded).warp = loaded.warp /\ Kept(loaded).worker = loaded.worker
  BY DEF Kept, NoConfigs, Configs, Lists

\* cnfg.main reads the file.
LEMMA ReadKeepsInv ==
  ASSUME Inv, NEW j \in Jobs, TurnOf(j), StartMain(j),
         UNCHANGED <<env, file, saved, queue, directFailed>>, imported' \in BOOLEAN,
         NEW process \in {"none", "starting", "registered"},
         tor' = [tor EXCEPT ![j] = process]
  PROVE  Inv'
<1> USE DEF Inv, TypeOK
<1>0. PICK loaded \in Loaded :
        data' = [data EXCEPT ![j] = Kept(loaded)] /\ Goto(j, First(loaded))
  BY DEF StartMain
<1>1. PICK next \in Working : Goto(j, next)
  BY <1>0 DEF First, Working
<1>2. next \in Locked
  BY DEF Working, Locked
<1>3. pc' \in [Jobs -> PCs] /\ LockInv'
  BY <1>1, <1>2, HolderKeepsLock
<1>4. data' \in [Jobs -> Configs] /\ fetchOk' \in [Jobs -> BOOLEAN]
  BY <1>0, LoadedIs, KeptIsConfigs DEF StartMain
<1>5. TorServesItsJob'
  BY <1>1, <1>2 DEF Goto, TorServesItsJob
<1>6. KeptInv'
  <2>1. SUFFICES ASSUME Readable, NEW k \in Jobs, pc'[k] \in Working
                 PROVE  KnowsAccounts(k)'
    BY DEF KeptInv, Readable
  <2>2. CASE k = j
    BY <1>0, <2>1, <2>2, LoadedIs, KeptIsConfigs DEF KnowsAccounts
  <2>3. CASE k # j
    BY <1>0, <1>1, <2>1, <2>3 DEF Goto, KeptInv, KnowsAccounts
  <2>4. QED
    BY <2>2, <2>3
<1>7. QED
  BY <1>3, <1>4, <1>5, <1>6

\* A working job learns accounts, or writes what it knows, and works on.
LEMMA WorkKeepsInv ==
  ASSUME Inv, NEW j \in Jobs, pc[j] \in Working, TurnOf(j),
         NEW next \in Locked, Goto(j, next),
         NEW configs \in Configs, data' = [data EXCEPT ![j] = configs],
         fetchOk' \in [Jobs -> BOOLEAN], directFailed' \in BOOLEAN, file' \in Configs,
         UNCHANGED <<env, saved, queue, imported, tor>>,
         Readable /\ next \in Working =>
           (file'.warp => configs.warp) /\ (file'.worker => configs.worker)
  PROVE  Inv'
<1> USE DEF Inv, TypeOK
<1>1. pc' \in [Jobs -> PCs] /\ LockInv'
  BY HolderKeepsLock
<1>2. data' \in [Jobs -> Configs]
  OBVIOUS
<1>3. TorServesItsJob'
  BY DEF Goto, TorServesItsJob
<1>4. KeptInv'
  <2>1. SUFFICES ASSUME Readable, NEW k \in Jobs, pc'[k] \in Working
                 PROVE  KnowsAccounts(k)'
    BY DEF KeptInv, Readable
  <2>2. k = j
    <3>1. SUFFICES ASSUME k # j PROVE FALSE
      OBVIOUS
    <3>2. pc[k] \in Locked
      BY <2>1, <3>1 DEF Goto, Working, Locked
    <3>3. QED
      BY <3>1, <3>2, HolderIsAlone
  <2>3. QED
    BY <2>1, <2>2 DEF Goto, KnowsAccounts
<1>5. QED
  BY <1>1, <1>2, <1>3, <1>4

-----------------------------------------------------------------------------
\* An empty set of configs is one.
LEMMA NoConfigsTyped == NoConfigs \in Configs
  BY DEF NoConfigs, Configs, Lists

\* The program starts in a state that satisfies the invariant.
LEMMA InitInv == Init => Inv
<1> SUFFICES ASSUME Init PROVE Inv
  OBVIOUS
<1>1. TypeOK
  BY NoConfigsTyped, EmptySeq DEF Init, TypeOK, PCs, Lists
<1>2. LockInv /\ TorServesItsJob /\ KeptInv
  BY DEF Init, LockInv, TorServesItsJob, KeptInv, Working, Locked
<1>3. QED
  BY <1>1, <1>2 DEF Inv


\* A step of a job preserves the invariant, one action at a time.
LEMMA StepInv ==
  ASSUME Inv, NEW j \in Jobs, Step(j)
  PROVE  Inv'
<1> USE DEF Inv
<1>0. pc[j] \in Locked => TurnOf(j)
  BY DEF LockInv
<1>1. CASE CheckLock(j)
  <2>1. PICK next \in PCs \ Locked : Goto(j, next)
    BY <1>1 DEF CheckLock, PCs, Locked
  <2>2. LockInv' /\ queue' \in Seq(Jobs)
    BY <1>1, <2>1 DEF CheckLock, Goto, LockInv, TurnOf, TypeOK
  <2>3. QED
    BY <1>1, <2>1, <2>2, OutsideKeepsInv DEF CheckLock, Locked, shared, flags
<1>2. CASE Enqueue(j)
  <2>1. "waiting" \in PCs \ Locked /\ pc[j] \notin Locked
    BY <1>2 DEF Enqueue, PCs, Locked
  <2>2. queue' \in Seq(Jobs) /\ (queue # <<>> => queue' # <<>> /\ Head(queue') = Head(queue))
    BY <1>2, JoinKeepsHead DEF Enqueue, TypeOK
  <2>3. LockInv'
    BY <1>2, <2>1, <2>2 DEF Enqueue, Goto, LockInv, TurnOf, TypeOK
  <2>4. QED
    BY <1>2, <2>1, <2>2, <2>3, OutsideKeepsInv DEF Enqueue, shared, flags
<1>3. CASE ImportAborts(j)
  BY <1>3, InsideKeepsInvToo DEF ImportAborts, HasLock, Locked, Working, TypeOK, shared
<1>4. CASE ImportFails(j)
  BY <1>4, InsideKeepsInvToo
  DEF ImportFails, HasLock, Locked, Working, TypeOK, shared, flags
<1>5. CASE SubprocessEnds(j)
  BY <1>0, <1>5, InsideKeepsInvToo
  DEF SubprocessEnds, Locked, Working, TypeOK, shared, flags
<1>6. CASE Begin(j)
  <2>1. tor[j] \in {"none", "starting", "registered"} /\ tor' = [tor EXCEPT ![j] = tor[j]]
    BY <1>6 DEF Begin, TypeOK
  <2>2. QED
    BY <1>6, <2>1, ReadKeepsInv DEF Begin, HasLock, shared
<1>7. CASE LaunchTor(j)
  BY <1>7, InsideKeepsInv DEF LaunchTor, HasLock, Locked, Working, TypeOK, shared
<1>8. CASE TorReady(j)
  BY <1>0, <1>8, ReadKeepsInv DEF TorReady, Locked, TypeOK, shared, flags
<1>9. CASE TorRaises(j)
  BY <1>0, <1>9, InsideKeepsInv DEF TorRaises, Locked, Working, TypeOK, shared, flags
<1>10. CASE NothingFound(j) \/ LinksFound(j)
  <2>1. PICK next \in Working : Goto(j, next)
    BY <1>10 DEF NothingFound, LinksFound, Working
  <2>2. pc[j] \in Working /\ next \in Locked
    BY <1>10 DEF NothingFound, LinksFound, Working, Locked
  <2>3. data[j] \in Configs /\ data' = [data EXCEPT ![j] = data[j]]
    BY <1>10 DEF NothingFound, LinksFound, TypeOK
  <2>4. fetchOk' \in [Jobs -> BOOLEAN] /\ UNCHANGED <<env, file, saved, queue, directFailed, imported, tor>>
    BY <1>10 DEF NothingFound, LinksFound, TypeOK, shared, flags
  <2>5. Readable => (file.warp => data[j].warp) /\ (file.worker => data[j].worker)
    BY <2>2 DEF KeptInv, KnowsAccounts
  <2>6. TurnOf(j)
    BY <1>0, <2>2 DEF Working, Locked
  <2>7. QED
    BY <2>1, <2>2, <2>3, <2>4, <2>5, <2>6, WorkKeepsInv DEF TypeOK
<1>11. CASE LinksTested(j)
  <2>1. PICK alive \in {data[j].subs, None} :
          /\ data' = [data EXCEPT ![j].personal = alive]
          /\ fetchOk' = [fetchOk EXCEPT ![j] = (alive # None)]
          /\ Write([data[j] EXCEPT !.personal = alive])
    BY <1>11 DEF LinksTested
  <2> DEFINE configs == [data[j] EXCEPT !.personal = alive]
  <2>2. data[j] \in Configs /\ configs \in Configs
    BY DEF TypeOK, Configs, Lists
  <2>3. data' = [data EXCEPT ![j] = configs] /\ Write(configs)
    BY <2>1 DEF TypeOK
  <2>4. fetchOk' \in [Jobs -> BOOLEAN]
    BY <2>1 DEF TypeOK
  <2>5. pc[j] \in Working /\ "public" \in Locked /\ TurnOf(j) /\ Goto(j, "public")
    BY <1>0, <1>11 DEF LinksTested, Working, Locked
  <2>6. configs.warp = data[j].warp /\ configs.worker = data[j].worker
    BY <2>2 DEF Configs
  <2>7. Readable => (file.warp => configs.warp) /\ (file.worker => configs.worker)
    BY <2>5, <2>6 DEF KeptInv, KnowsAccounts
  <2> HIDE DEF configs
  <2>8. file' \in Configs /\ (file' = configs \/ file' = file)
    BY <2>2, <2>3, WriteIs
  <2>9. Readable => (file'.warp => configs.warp) /\ (file'.worker => configs.worker)
    BY <2>7, <2>8
  <2>10. UNCHANGED <<env, saved, queue, imported, tor>> /\ directFailed' \in BOOLEAN
    BY <1>11 DEF LinksTested, TypeOK, flags
  <2>11. QED
    BY <2>2, <2>3, <2>4, <2>5, <2>8, <2>9, <2>10, WorkKeepsInv
<1>12. CASE PublicTested(j)
  <2>1. PICK found \in BOOLEAN, seen \in BOOLEAN :
          data' = [data EXCEPT ![j].collected = found, ![j].worker = @ \/ seen]
    BY <1>12 DEF PublicTested
  <2> DEFINE configs == [data[j] EXCEPT !.collected = found, !.worker = @ \/ seen]
  <2>2. data[j] \in Configs /\ data[j].worker \in BOOLEAN
    BY DEF TypeOK, Configs
  <2>3. (data[j].worker \/ seen) \in BOOLEAN
    OBVIOUS
  <2>4. configs \in Configs
    BY <2>2, <2>3 DEF Configs
  <2>5. /\ configs.warp = data[j].warp
        /\ configs.worker = (data[j].worker \/ seen)
    BY <2>2 DEF Configs
  <2>6. data' = [data EXCEPT ![j] = configs]
    BY <2>1 DEF TypeOK
  <2>7. pc[j] \in Working /\ "registering" \in Locked /\ TurnOf(j) /\ Goto(j, "registering")
    BY <1>0, <1>12 DEF PublicTested, Working, Locked
  <2>8. Readable => (file.warp => configs.warp) /\ (file.worker => configs.worker)
    BY <2>5, <2>7 DEF KeptInv, KnowsAccounts
  <2> HIDE DEF configs
  <2>9. QED
    BY <1>12, <2>4, <2>6, <2>7, <2>8, WorkKeepsInv DEF PublicTested, TypeOK, flags, shared
<1>13. CASE Registered(j)
  <2>1. PICK account \in BOOLEAN : Write([data[j] EXCEPT !.warp = @ \/ account])
    BY <1>13 DEF Registered
  <2>2. data[j] \in Configs /\ (data[j].warp \/ account) \in BOOLEAN
    BY DEF TypeOK
  <2>3. file' \in Configs
    <3>1. [data[j] EXCEPT !.warp = @ \/ account] \in Configs
      BY <2>2 DEF Configs
    <3>2. QED
      BY <2>1, <3>1, WriteIs
  <2>4. pc[j] \in Working /\ TurnOf(j) /\ "stopping" \in Locked \ Working
    BY <1>0, <1>13 DEF Registered, Working, Locked
  <2>5. directFailed' \in BOOLEAN
    BY <1>13 DEF Registered, TypeOK
  <2>6. data' = [data EXCEPT ![j] = data[j]]
    BY <1>13 DEF Registered, TypeOK
  <2>7. QED
    BY <1>13, <2>2, <2>3, <2>4, <2>5, <2>6, WorkKeepsInv DEF Registered, TypeOK
<1>14. CASE FetchRaises(j)
  BY <1>0, <1>14, InsideKeepsInvToo DEF FetchRaises, Locked, Working, TypeOK, shared
<1>15. CASE Stop(j)
  <2>1. TurnOf(j) /\ queue # <<>> /\ queue \in Seq(Jobs)
    BY <1>0, <1>15 DEF Stop, Locked, TurnOf, TypeOK
  <2>2. queue' \in Seq(Jobs)
    BY <1>15, <2>1, HeadTailProperties DEF Stop
  <2>3. \A k \in Jobs : pc'[k] \notin Locked
    BY <1>15, <2>1, HolderIsAlone DEF Stop, Goto, TypeOK, Locked
  <2>4. TypeOK'
    BY <1>15, <2>2, NoConfigsTyped DEF Stop, Goto, TypeOK, PCs, shared, flags
  <2>5. TorServesItsJob'
    BY <1>15, <2>1, HolderIsAlone DEF Stop, TorServesItsJob, TypeOK
  <2>6. LockInv' /\ KeptInv'
    BY <2>3 DEF LockInv, KeptInv, Working, Locked
  <2>7. QED
    BY <2>4, <2>5, <2>6
<1>16. QED
  BY <1>1, <1>2, <1>3, <1>4, <1>5, <1>6, <1>7, <1>8, <1>9, <1>10, <1>11, <1>12, <1>13,
     <1>14, <1>15 DEF Step

\* Saving a list keeps the accounts that could be read.
LEMMA SavedIs ==
  ASSUME TypeOK, NEW urls \in SubLists, NEW loaded \in Loaded,
         Write([loaded EXCEPT !.subs = urls])
  PROVE  /\ file' \in Configs
         /\ Readable => file'.warp = file.warp /\ file'.worker = file.worker
<1> DEFINE configs == [loaded EXCEPT !.subs = urls]
<1>1. loaded \in Configs /\ (Readable => loaded = file)
  BY LoadedIs
<1>2. configs \in Configs /\ configs.warp = loaded.warp /\ configs.worker = loaded.worker
  BY <1>1 DEF Configs, Lists
<1> HIDE DEF configs
<1>3. file' \in Configs /\ (file' = configs \/ file' = file)
  <2>1. Write(configs)
    BY DEF configs
  <2>2. QED
    BY <1>2, <2>1, WriteIs
<1>4. QED
  BY <1>1, <1>2, <1>3

\* So do the calls of the dashboard and of the orchestrator, and a new start.
LEMMA OtherInv ==
  ASSUME Inv,
         \/ \E j \in Jobs : SaveSubscription(j) \/ FetchInBackground(j)
         \/ Restart
         \/ UNCHANGED vars
  PROVE  Inv'
<1> USE DEF Inv
<1>1. CASE \E j \in Jobs : SaveSubscription(j)
  <2>1. PICK j \in Jobs, urls \in SubLists, loaded \in Loaded :
          /\ SaveSubscription(j)
          /\ Write([loaded EXCEPT !.subs = urls])
          /\ saved' = urls
    BY <1>1 DEF SaveSubscription
  <2>2. /\ file' \in Configs
        /\ Readable => file'.warp = file.warp /\ file'.worker = file.worker
    BY <2>1, SavedIs
  <2>3. pc' \in [Jobs -> PCs] /\ saved' \in Lists
    BY <2>1 DEF SaveSubscription, Goto, TypeOK, PCs, Lists
  <2>4. \A k \in Jobs : pc'[k] \in Locked => pc[k] \in Locked /\ pc'[k] = pc[k]
    BY <2>1 DEF SaveSubscription, Goto, TypeOK, Locked
  <2>5. TypeOK'
    BY <2>1, <2>2, <2>3 DEF SaveSubscription, TypeOK, flags
  <2>6. LockInv'
    BY <2>1, <2>4 DEF SaveSubscription, LockInv, TurnOf
  <2>7. TorServesItsJob'
    BY <2>1 DEF SaveSubscription, Goto, TypeOK, TorServesItsJob, Locked
  <2>8. KeptInv'
    <3>1. \A k \in Jobs : pc'[k] \in Working => pc[k] \in Working
      BY <2>4 DEF Working, Locked
    <3>2. QED
      BY <2>1, <2>2, <3>1 DEF SaveSubscription, KeptInv, Readable, KnowsAccounts
  <2>9. QED
    BY <2>5, <2>6, <2>7, <2>8
<1>2. CASE \E j \in Jobs : FetchInBackground(j)
  <2>1. PICK j \in Jobs : FetchInBackground(j)
    BY <1>2
  <2>2. "called" \in PCs \ Locked /\ pc[j] \notin Locked
    BY <2>1 DEF FetchInBackground, PCs, Locked
  <2>3. LockInv' /\ queue' \in Seq(Jobs)
    BY <2>1, <2>2 DEF FetchInBackground, Goto, LockInv, TurnOf, TypeOK
  <2>4. QED
    BY <2>1, <2>2, <2>3, OutsideKeepsInv DEF FetchInBackground, shared, flags
<1>3. CASE Restart
  <2>1. queue' \in Seq(Jobs)
    BY <1>3, EmptySeq DEF Restart
  <2>2. TypeOK'
    BY <1>3, <2>1, NoConfigsTyped DEF Restart, TypeOK, PCs, shared
  <2>3. LockInv' /\ TorServesItsJob' /\ KeptInv'
    BY <1>3 DEF Restart, LockInv, TorServesItsJob, KeptInv, Working, Locked
  <2>4. QED
    BY <2>2, <2>3
<1>4. CASE UNCHANGED vars
  BY <1>4 DEF vars, shared, flags, TypeOK, LockInv, TurnOf, TorServesItsJob, KeptInv,
              Readable, KnowsAccounts
<1>5. QED
  BY <1>1, <1>2, <1>3, <1>4

\* The invariant is one.
THEOREM Invariance == Spec => []Inv
<1>1. Inv /\ [Next]_vars => Inv'
  BY StepInv, OtherInv DEF Next
<1>2. QED
  BY InitInv, <1>1, PTL DEF Spec

\* The variables of a fetch keep their types: the file never holds anything but
\* configs, whatever a fetch meets (cnfg.main).
THEOREM TypeCorrect == Spec => []TypeOK
BY Invariance, PTL DEF Inv

\* Jobs that passed the look at the lock together still fetch one after the other
\* (fetch_fresh_configs).
THEOREM FetchesExclude == Spec => []OneFetchAtATime
<1>1. Inv => OneFetchAtATime
  BY HolderIsAlone DEF Inv, LockInv, OneFetchAtATime
<1>2. QED
  BY Invariance, <1>1, PTL

\* A bootstrap Tor never outlives the job that started it (the finally clause of
\* fetch_fresh_configs).
THEOREM TorEndsWithItsJob == Spec => []TorServesItsJob
BY Invariance, PTL DEF Inv

\* While the file can be read, no write of it, by any number of jobs, saves and kills,
\* drops an account (cnfg.main, save_subscription).
THEOREM AccountsAreKept == Spec => AccountsSurvive
<1>1. Inv /\ [Next]_vars =>
        [Readable => (file.warp => file'.warp) /\ (file.worker => file'.worker)]_vars
  <2>1. SUFFICES ASSUME Inv, Next, Readable
                 PROVE  (file.warp => file'.warp) /\ (file.worker => file'.worker)
    OBVIOUS
  <2>2. CASE UNCHANGED file
    BY <2>2
  <2>3. CASE \E j \in Jobs : SaveSubscription(j)
    <3>1. PICK urls \in SubLists, loaded \in Loaded : Write([loaded EXCEPT !.subs = urls])
      BY <2>3 DEF SaveSubscription
    <3>2. QED
      BY <2>1, <3>1, SavedIs DEF Inv
  <2>4. CASE \E j \in Jobs : LinksTested(j)
    <3>1. PICK j \in Jobs, alive \in Lists :
            pc[j] \in Working /\ Write([data[j] EXCEPT !.personal = alive])
      BY <2>1, <2>4 DEF LinksTested, Working, Inv, TypeOK, Configs, Lists
    <3>2. data[j] \in Configs /\ KnowsAccounts(j)
      BY <2>1, <3>1 DEF Inv, TypeOK, KeptInv
    <3>3. file' = [data[j] EXCEPT !.personal = alive] \/ file' = file
      BY <3>1 DEF Write
    <3>4. file' # file => file'.warp = data[j].warp /\ file'.worker = data[j].worker
      BY <3>2, <3>3 DEF Configs
    <3>5. QED
      BY <3>2, <3>4 DEF KnowsAccounts
  <2>5. CASE \E j \in Jobs : Registered(j)
    <3>1. PICK j \in Jobs, account \in BOOLEAN :
            pc[j] \in Working /\ Write([data[j] EXCEPT !.warp = @ \/ account])
      BY <2>5 DEF Registered, Working
    <3>2. data[j] \in Configs /\ KnowsAccounts(j)
      BY <2>1, <3>1 DEF Inv, TypeOK, KeptInv
    <3>3. file' = [data[j] EXCEPT !.warp = @ \/ account] \/ file' = file
      BY <3>1 DEF Write
    <3>4. file' # file =>
            file'.warp = (data[j].warp \/ account) /\ file'.worker = data[j].worker
      BY <3>2, <3>3 DEF Configs
    <3>5. QED
      BY <3>2, <3>4 DEF KnowsAccounts
  <2>6. QED
    BY <2>1, <2>2, <2>3, <2>4, <2>5
    DEF Next, Step, FetchInBackground, CheckLock, Enqueue, ImportAborts, ImportFails,
        SubprocessEnds, Begin, LaunchTor, TorReady, TorRaises, NothingFound, LinksFound,
        PublicTested, FetchRaises, Stop, Restart, shared
<1>2. QED
  BY Invariance, <1>1, PTL DEF Spec, AccountsSurvive, Readable

=============================================================================
