------------------------ MODULE SystemNetworkProofs ------------------------
(***************************************************************************)
(* Theorems about SystemNetwork, for every number of requests and of       *)
(* interfaces, all lists of DNS servers and all sets of faults, with the   *)
(* proofs TLAPS checks.                                                    *)
(***************************************************************************)
EXTENDS SystemNetwork, TLAPS

\* The coroutines that may work on the DNS servers.
DnsWorkers == DnsCallers \cup {Main}

\* Where each kind of coroutine can be suspended, and with what in its hands.
PlaceInv ==
  \A c \in Callers :
    /\ pc[c] \in {"interface", "reading", "saving", "applying"} =>
         c \in DnsCallers /\ arg[c] \in DnsLists
    /\ pc[c] \in {"reading", "saving", "applying"} => iface[c] \in Interfaces
    /\ pc[c] \in {"restoring", "clearing"} =>
         /\ c \in DnsWorkers
         /\ snap[c].original_dns \in Settings /\ snap[c].interface \in Interfaces
    /\ pc[c] \in {"proxying", "noting"} =>
         c \in ProxyCallers /\ arg[c] \in {"engine", "off"}
    /\ pc[c] = "saving" => cur[c] # "none"

\* What holds whatever fails and overlaps.
Inv == TypeOK /\ PlaceInv /\ FlagHasBackup

\* Without overlaps one coroutine works on the DNS servers at a time, and the
\* requests have the time between recovery and safe_cleanup to themselves.
SerialInv ==
  "overlap" \notin env =>
    /\ \A c, d \in DnsWorkers : pc[c] # "idle" /\ pc[d] # "idle" => c = d
    /\ \A c \in DnsCallers : pc[c] # "idle" => mode = "up"
    /\ pc[Main] # "idle" => mode \in {"recovering", "closing"}

\* The machine and the faults DnsRestorable is about.
Steady == env \subseteq {"exit", "tool_raises"}

\* Every interface has the servers of its user.
AllOwn == \A i \in Interfaces : osDns[i] = i

\* Where a request is between its backup and its change, or between its
\* change and the clearing of the backup, tells what the file holds.
BackupInv ==
  Steady =>
    /\ \A i \in Interfaces : osDns[i] # i => i = default /\ file.dns_changed
    /\ file.dns_changed => file.original_dns = default /\ file.interface = default
    /\ \A c \in DnsWorkers :
         /\ pc[c] = "reading" => ~file.dns_changed /\ iface[c] = default
         /\ pc[c] = "saving" => cur[c] = default /\ iface[c] = default
         /\ pc[c] = "applying" => file.dns_changed /\ iface[c] = default
         /\ pc[c] = "restoring" =>
              /\ snap[c].original_dns = default /\ snap[c].interface = default
              /\ file.dns_changed
         /\ pc[c] = "clearing" => AllOwn

\* When main has finished its part of recovery the servers are the user's.
RecoveryInv ==
  env \subseteq {"exit"} /\ mode = "recovering" /\ pc[Main] = "idle" => AllOwn

-----------------------------------------------------------------------------
\* A machine that never ran the engine satisfies the invariant.
LEMMA InitInv == Init => Inv
<1> SUFFICES ASSUME Init PROVE Inv
  OBVIOUS
<1> USE DEF Init, Idle, NoState
<1>1. TypeOK
  <2>1. PICK bare \in SUBSET Interfaces :
          osDns = [i \in Interfaces |-> IF i \in bare THEN "bare" ELSE i]
    OBVIOUS
  <2>2. osDns \in [Interfaces -> Settings]
    BY <2>1 DEF Settings
  <2>3. QED
    BY <2>2 DEF TypeOK, Modes, States, Backups, PCs
<1>2. PlaceInv
  BY DEF PlaceInv
<1>3. FlagHasBackup
  BY DEF FlagHasBackup
<1>4. QED
  BY <1>1, <1>2, <1>3 DEF Inv

\* What a coroutine that returns leaves of its locals.
LEMMA FinishInv ==
  ASSUME Inv, NEW c \in Callers, Finish(c)
  PROVE  /\ pc' \in [Callers -> PCs]
         /\ arg' \in [Callers -> DnsLists \cup {"engine", "off", "none"}]
         /\ iface' \in [Callers -> Interfaces \cup {"none"}]
         /\ snap' \in [Callers -> States]
         /\ cur' \in [Callers -> Backups]
         /\ PlaceInv'
<1>1. NoState \in States
  BY DEF NoState, States, Backups
<1>2. pc' \in [Callers -> PCs]
  BY DEF Finish, Goto, Inv, TypeOK, PCs
<1>3. /\ arg' \in [Callers -> DnsLists \cup {"engine", "off", "none"}]
      /\ iface' \in [Callers -> Interfaces \cup {"none"}]
      /\ cur' \in [Callers -> Backups]
  BY DEF Finish, Inv, TypeOK, Settings, Backups
<1>4. snap' \in [Callers -> States]
  BY <1>1 DEF Finish, Inv, TypeOK
<1>5. ASSUME NEW d \in Callers
      PROVE  \/ pc'[d] = "idle"
             \/ /\ pc'[d] = pc[d] /\ arg'[d] = arg[d] /\ iface'[d] = iface[d]
                /\ snap'[d] = snap[d] /\ cur'[d] = cur[d]
  BY DEF Finish, Goto, Inv, TypeOK
<1>6. PlaceInv'
  BY <1>5 DEF Inv, PlaceInv
<1>7. QED
  BY <1>2, <1>3, <1>4, <1>6

-----------------------------------------------------------------------------
\* What load_state returns, the file or nothing, is a state; one with the flag
\* has a backup and its interface.
LEMMA LoadedState ==
  ASSUME Inv, NEW state \in Loaded
  PROVE  /\ state \in States
         /\ state.dns_changed => state.original_dns # "none" /\ state.interface # "none"
<1>1. CASE state = file
  BY <1>1 DEF Inv, TypeOK, FlagHasBackup
<1>2. CASE state = NoState
  BY <1>2 DEF NoState, States, Backups
<1>3. QED
  BY <1>1, <1>2 DEF Loaded

\* The beginning of a restore preserves the invariant, whoever begins it.
LEMMA RestoreDnsInv ==
  ASSUME Inv, NEW c \in DnsWorkers, RestoreDns(c), mode' \in Modes
  PROVE  Inv'
<1> USE DEF Inv
<1>1. c \in Callers
  BY DEF DnsWorkers, Callers
<1>2. CASE UNCHANGED <<file, pc, snap>>
  BY <1>2 DEF RestoreDns, system, TypeOK, PlaceInv, FlagHasBackup
<1>3. ASSUME NEW state \in Loaded, state.dns_changed, state.original_dns = "none"
      PROVE  FALSE
  BY <1>3, LoadedState
<1>4. ASSUME NEW state \in Loaded, state.dns_changed,
             snap' = [snap EXCEPT ![c] = state], Goto(c, "restoring"), UNCHANGED file
      PROVE  Inv'
  <2>1. state \in States /\ state.original_dns \in Settings /\ state.interface \in Interfaces
    BY <1>4, LoadedState DEF States, Backups
  <2>2. pc' \in [Callers -> PCs] /\ snap' \in [Callers -> States]
    BY <1>4, <2>1 DEF TypeOK, Goto, PCs
  <2>3. TypeOK' /\ FlagHasBackup'
    BY <1>4, <2>2 DEF RestoreDns, system, TypeOK, FlagHasBackup
  <2>4. PlaceInv'
    <3>1. UNCHANGED <<arg, iface, cur>>
      BY DEF RestoreDns
    <3>2. pc'[c] = "restoring" /\ snap'[c] = state
      BY <1>1, <1>4 DEF TypeOK, Goto
    <3>3. \A d \in Callers : d # c => pc'[d] = pc[d] /\ snap'[d] = snap[d]
      BY <1>1, <1>4 DEF TypeOK, Goto
    <3>4. QED
      BY <1>1, <2>1, <3>1, <3>2, <3>3 DEF PlaceInv
  <2>5. QED
    BY <2>3, <2>4
<1>5. QED
  BY <1>2, <1>3, <1>4 DEF RestoreDns

\* So does the rest of a restore.
LEMMA RestoringInv ==
  ASSUME Inv, NEW c \in DnsWorkers, Restoring(c)
  PROVE  Inv'
<1> USE DEF Inv
<1>0. c \in Callers
  BY DEF DnsWorkers, Callers
<1>1. CASE PutBack(c)
  <2>1. snap[c].original_dns \in Settings /\ snap[c].interface \in Interfaces
    BY <1>0, <1>1 DEF PutBack, PlaceInv
  <2>2. osDns' \in [Interfaces -> Settings]
    BY <1>1, <2>1 DEF PutBack, TypeOK
  <2>3. QED
    BY <1>0, <1>1, <2>2 DEF PutBack, Goto, locals, TypeOK, PlaceInv, FlagHasBackup, PCs
<1>2. CASE RestoreRaises(c)
  BY <1>0, <1>2, FinishInv DEF RestoreRaises, system, TypeOK, FlagHasBackup
<1>3. CASE ClearBackup(c)
  <2>1. \/ file' = [snap[c] EXCEPT !.dns_changed = FALSE, !.original_dns = "none"]
        \/ file' = file
    BY <1>3 DEF ClearBackup, Save
  <2>2. file' \in States /\ FlagHasBackup'
    <3>1. CASE file' = file
      BY <3>1 DEF TypeOK, FlagHasBackup
    <3>2. CASE file' = [snap[c] EXCEPT !.dns_changed = FALSE, !.original_dns = "none"]
      <4>1. snap[c] \in States /\ "none" \in Backups
        BY <1>0 DEF TypeOK, Backups
      <4>2. file' \in States /\ ~file'.dns_changed
        BY <3>2, <4>1 DEF States
      <4>3. QED
        BY <4>2 DEF FlagHasBackup
    <3>3. QED
      BY <2>1, <3>1, <3>2
  <2>3. QED
    BY <1>0, <1>3, <2>2, FinishInv DEF ClearBackup, system, TypeOK
<1>4. QED
  BY <1>1, <1>2, <1>3 DEF Restoring

\* The steps of a request of the admin IPC server preserve it.
LEMMA DnsRequestInv ==
  ASSUME Inv, NEW c \in DnsCallers, DnsRequest(c)
  PROVE  Inv'
<1> USE DEF Inv
<1>0. c \in Callers /\ c \in DnsWorkers
  BY DEF Callers, DnsWorkers
<1>1. CASE SetDns(c)
  BY <1>0, <1>1 DEF SetDns, Goto, system, TypeOK, PlaceInv, FlagHasBackup, PCs
<1>2. CASE InterfaceUnknown(c)
  BY <1>0, <1>2, FinishInv DEF InterfaceUnknown, system, TypeOK, FlagHasBackup
<1>3. CASE LoadState(c)
  <2>1. PICK state \in Loaded :
          /\ snap' = [snap EXCEPT ![c] = state]
          /\ Goto(c, IF state.dns_changed THEN "applying" ELSE "reading")
    BY <1>3 DEF LoadState
  <2>2. state \in States
    BY LoadedState
  <2>3. QED
    BY <1>0, <1>3, <2>1, <2>2
    DEF LoadState, Goto, system, TypeOK, PlaceInv, FlagHasBackup, PCs
<1>4. CASE ReadDns(c)
  <2>1. PICK seen \in Settings : cur' = [cur EXCEPT ![c] = seen]
    BY <1>4 DEF ReadDns, TypeOK, Settings
  <2>2. seen \in Backups /\ seen # "none"
    BY SystemNetworkAssumption DEF Settings, Backups
  <2>3. QED
    BY <1>0, <1>4, <2>1, <2>2
    DEF ReadDns, Goto, system, TypeOK, PlaceInv, FlagHasBackup, PCs
<1>5. CASE SaveBackup(c)
  <2>1. file' \in States /\ FlagHasBackup'
    <3>1. /\ cur[c] \in Backups /\ cur[c] # "none" /\ snap[c] \in States
          /\ iface[c] \in Interfaces /\ iface[c] # "none"
      BY <1>0, <1>5, SystemNetworkAssumption DEF SaveBackup, TypeOK, PlaceInv
    <3>2. \/ file' = [snap[c] EXCEPT !.dns_changed = TRUE, !.original_dns = cur[c],
                                     !.interface = iface[c]]
          \/ file' = file
      BY <1>5 DEF SaveBackup, Save
    <3>3. QED
      BY <3>1, <3>2 DEF TypeOK, FlagHasBackup, States
  <2>2. QED
    BY <1>0, <1>5, <2>1
    DEF SaveBackup, Goto, system, locals, TypeOK, PlaceInv, FlagHasBackup, PCs
<1>6. CASE ApplyDns(c)
  <2>1. arg[c] \in DnsLists /\ iface[c] \in Interfaces
    BY <1>0, <1>6 DEF ApplyDns, PlaceInv
  <2>2. osDns' \in [Interfaces -> Settings]
    BY <1>6, <2>1 DEF ApplyDns, TypeOK, Settings
  <2>3. QED
    BY <1>0, <1>6, <2>2, FinishInv DEF ApplyDns, TypeOK, FlagHasBackup
<1>7. CASE RestoreRequest(c)
  BY <1>0, <1>7, RestoreDnsInv DEF RestoreRequest, TypeOK
<1>8. CASE Restoring(c)
  BY <1>0, <1>8, RestoringInv
<1>9. QED
  BY <1>1, <1>2, <1>3, <1>4, <1>5, <1>6, <1>7, <1>8 DEF DnsRequest

\* The steps of set_system_proxy preserve it.
LEMMA ProxyRequestInv ==
  ASSUME Inv, NEW c \in ProxyCallers, ProxyRequest(c)
  PROVE  Inv'
<1> USE DEF Inv
<1>0. c \in Callers
  BY DEF Callers
<1>1. CASE SetProxy(c)
  BY <1>0, <1>1 DEF SetProxy, Goto, system, TypeOK, PlaceInv, FlagHasBackup, PCs
<1>2. CASE ApplyProxy(c)
  BY <1>0, <1>2 DEF ApplyProxy, Goto, locals, TypeOK, PlaceInv, FlagHasBackup, PCs
<1>3. CASE NoteProxy(c)
  <2>1. PICK enabled \in BOOLEAN, state \in Loaded :
          file' = [state EXCEPT !.proxy_enabled = enabled] \/ file' = file
    BY <1>3 DEF NoteProxy, Save
  <2>2. file' \in States /\ FlagHasBackup'
    BY <2>1, LoadedState DEF TypeOK, FlagHasBackup, States
  <2>3. QED
    BY <1>0, <1>3, <2>2, FinishInv DEF NoteProxy, system, TypeOK
<1>4. QED
  BY <1>1, <1>2, <1>3 DEF ProxyRequest

\* The end of the process leaves the machine, the file and no coroutine.
LEMMA GoneInv ==
  ASSUME Inv, Gone
  PROVE  Inv'
<1> USE DEF Inv
<1>1. NoState \in States
  BY DEF NoState, States, Backups
<1>2. TypeOK'
  BY <1>1 DEF Gone, system, TypeOK, Modes, PCs, Backups
<1>3. PlaceInv' /\ FlagHasBackup'
  BY DEF Gone, PlaceInv, FlagHasBackup
<1>4. QED
  BY <1>2, <1>3

\* Every step preserves the invariant.
LEMMA NextInv == Inv /\ [Next]_vars => Inv'
<1> SUFFICES ASSUME Inv, [Next]_vars PROVE Inv'
  OBVIOUS
<1>0. Main \in DnsWorkers
  BY DEF DnsWorkers
<1>1. CASE \E c \in DnsCallers : DnsRequest(c)
  BY <1>1, DnsRequestInv
<1>2. CASE \E c \in ProxyCallers : ProxyRequest(c)
  BY <1>2, ProxyRequestInv
<1>3. CASE Restoring(Main)
  BY <1>0, <1>3, RestoringInv
<1>4. CASE Boot
  BY <1>0, <1>4, RestoreDnsInv DEF Boot, RestoreSystemState, Modes
<1>5. CASE Ready
  BY <1>5 DEF Ready, system, locals, Inv, TypeOK, PlaceInv, FlagHasBackup, Modes
<1>6. CASE Interrupt
  BY <1>0, <1>6, RestoreDnsInv DEF Interrupt, RestoreSystemState, Modes
<1>7. CASE Close
  BY <1>7, GoneInv DEF Close
<1>8. CASE Crash
  BY <1>8, GoneInv DEF Crash
<1>9. CASE Roam
  BY <1>9 DEF Roam, locals, Inv, TypeOK, PlaceInv, FlagHasBackup
<1>10. CASE UNCHANGED vars
  BY <1>10 DEF vars, system, locals, Inv, TypeOK, PlaceInv, FlagHasBackup
<1>11. QED
  BY <1>1, <1>2, <1>3, <1>4, <1>5, <1>6, <1>7, <1>8, <1>9, <1>10 DEF Next

-----------------------------------------------------------------------------
\* A coroutine that is at work goes on, or returns: nothing else runs before
\* or after.
LEMMA GoOnSerial ==
  ASSUME TypeOK, SerialInv, NEW c \in Callers, NEW next \in PCs, pc[c] # "idle",
         pc' = [pc EXCEPT ![c] = next], UNCHANGED <<mode, env>>
  PROVE  SerialInv'
<1>1. \A d \in DnsWorkers : pc'[d] # "idle" => pc[d] # "idle"
  BY DEF TypeOK, DnsWorkers, Callers
<1>2. Main \in DnsWorkers /\ DnsCallers \subseteq DnsWorkers
  BY DEF DnsWorkers
<1>3. QED
  BY <1>1, <1>2 DEF SerialInv

\* Requests do not overlap where they are assumed not to.
LEMMA SerialStep ==
  ASSUME Inv, SerialInv, [Next]_vars
  PROVE  SerialInv'
<1> USE DEF Inv
<1>0. /\ Main \in DnsWorkers /\ DnsWorkers \subseteq Callers
      /\ \A c \in DnsCallers : c # Main /\ c \in DnsWorkers
      /\ \A c \in ProxyCallers : c \in Callers /\ c \notin DnsWorkers
  BY SystemNetworkAssumption DEF DnsWorkers, Callers, Main
<1>1. ASSUME NEW c \in DnsWorkers, Restoring(c), UNCHANGED mode
      PROVE  SerialInv'
  <2>1. /\ pc[c] # "idle" /\ UNCHANGED env
        /\ \E next \in PCs : pc' = [pc EXCEPT ![c] = next]
    BY <1>1 DEF Restoring, PutBack, RestoreRaises, ClearBackup, Finish, Goto, PCs
  <2>2. QED
    BY <1>0, <1>1, <2>1, GoOnSerial
<1>2. ASSUME NEW c \in DnsCallers, DnsRequest(c)
      PROVE  SerialInv'
  <2>1. CASE SetDns(c) \/ RestoreRequest(c)
    <3>1. /\ UNCHANGED <<env, mode>> /\ DnsServed
          /\ \A d \in DnsWorkers : d # c => pc'[d] = pc[d]
      BY <1>0, <2>1 DEF SetDns, RestoreRequest, RestoreDns, Goto, TypeOK
    <3>2. "overlap" \notin env =>
            mode = "up" /\ \A d \in DnsWorkers : d # c => pc[d] = "idle"
      BY <1>0, <3>1 DEF SerialInv, DnsServed, DnsWorkers
    <3>3. QED
      BY <1>0, <1>2, <3>1, <3>2 DEF SerialInv
  <2>2. CASE InterfaceUnknown(c) \/ LoadState(c) \/ ReadDns(c) \/ SaveBackup(c) \/ ApplyDns(c)
    <3>1. /\ pc[c] # "idle" /\ UNCHANGED <<env, mode>>
          /\ \E next \in PCs : pc' = [pc EXCEPT ![c] = next]
      BY <2>2
      DEF InterfaceUnknown, LoadState, ReadDns, SaveBackup, ApplyDns, Finish, Goto, PCs
    <3>2. QED
      BY <1>0, <3>1, GoOnSerial
  <2>3. CASE Restoring(c)
    <3>1. UNCHANGED mode
      BY <2>3 DEF Restoring, PutBack, RestoreRaises, ClearBackup
    <3>2. QED
      BY <1>0, <1>1, <2>3, <3>1
  <2>4. QED
    BY <1>2, <2>1, <2>2, <2>3 DEF DnsRequest
<1>3. ASSUME NEW c \in ProxyCallers, ProxyRequest(c)
      PROVE  SerialInv'
  <2>1. /\ UNCHANGED <<env, mode>>
        /\ \A d \in DnsWorkers : pc'[d] = pc[d]
    BY <1>0, <1>3
    DEF ProxyRequest, SetProxy, ApplyProxy, NoteProxy, Finish, Goto, TypeOK
  <2>2. QED
    BY <1>0, <2>1 DEF SerialInv
<1>4. CASE Boot
  <2>1. /\ UNCHANGED env /\ mode = "down" /\ mode' = "recovering"
        /\ \A d \in DnsCallers : pc'[d] = pc[d]
    BY <1>0, <1>4 DEF Boot, RestoreSystemState, RestoreDns, Goto, TypeOK
  <2>2. QED
    BY <1>0, <2>1 DEF SerialInv, DnsWorkers
<1>5. CASE Ready
  BY <1>0, <1>5 DEF Ready, SerialInv, DnsWorkers
<1>6. CASE Interrupt
  <2>1. /\ UNCHANGED env /\ mode' = "closing"
        /\ "overlap" \in env \/ \A d \in DnsCallers : pc[d] = "idle"
        /\ \A d \in DnsCallers : pc'[d] = pc[d]
    BY <1>0, <1>6 DEF Interrupt, RestoreSystemState, RestoreDns, Goto, TypeOK
  <2>2. QED
    BY <1>0, <2>1 DEF SerialInv, DnsWorkers
<1>7. CASE Close \/ Crash
  BY <1>0, <1>7 DEF Close, Crash, Gone, SerialInv
<1>8. CASE Restoring(Main)
  <2>1. UNCHANGED mode
    BY <1>8 DEF Restoring, PutBack, RestoreRaises, ClearBackup
  <2>2. QED
    BY <1>0, <1>1, <1>8, <2>1
<1>9. CASE Roam \/ UNCHANGED vars
  BY <1>9 DEF Roam, vars, SerialInv
<1>10. QED
  BY <1>1, <1>2, <1>3, <1>4, <1>5, <1>6, <1>7, <1>8, <1>9 DEF Next

-----------------------------------------------------------------------------
\* Where requests do not overlap, a step of one is the only thing to look at.
LEMMA AloneAtWork ==
  ASSUME TypeOK, SerialInv, "overlap" \notin env,
         NEW c \in DnsWorkers, pc[c] # "idle" \/ \A d \in DnsWorkers : pc[d] = "idle",
         \A d \in DnsWorkers : d # c => pc'[d] = pc[d]
  PROVE  \A d \in DnsWorkers : d # c => pc'[d] = "idle"
  BY DEF SerialInv

\* The beginning of a restore keeps the backup usable.
LEMMA RestoreDnsBackup ==
  ASSUME Inv, BackupInv, NEW c \in DnsWorkers, RestoreDns(c), Steady,
         \A d \in DnsWorkers : d # c => pc'[d] = "idle"
  PROVE  BackupInv'
<1>1. c \in Callers
  BY DEF DnsWorkers, Callers
<1>2. Loaded = {file}
  BY DEF Steady, Loaded
<1>3. file.dns_changed => file.original_dns = default /\ file.original_dns # "none"
  BY DEF BackupInv, Inv, FlagHasBackup
<1>4. UNCHANGED <<env, osDns, default, iface, cur>>
  BY DEF RestoreDns, system
<1>5. CASE ~file.dns_changed
  <2>1. UNCHANGED <<file, pc, snap>>
    BY <1>2, <1>5 DEF RestoreDns
  <2>2. QED
    BY <1>4, <2>1 DEF BackupInv, Steady, AllOwn
<1>6. CASE file.dns_changed
  <2>1. UNCHANGED file /\ snap' = [snap EXCEPT ![c] = file]
        /\ pc' = [pc EXCEPT ![c] = "restoring"]
    BY <1>2, <1>3, <1>6 DEF RestoreDns, Goto
  <2>2. pc'[c] = "restoring" /\ snap'[c] = file
    BY <1>1, <2>1 DEF Inv, TypeOK
  <2>3. QED
    BY <1>4, <1>6, <2>1, <2>2 DEF BackupInv, Steady, AllOwn
<1>7. QED
  BY <1>5, <1>6

\* So does the rest of a restore: netsh runs before the backup is dropped.
LEMMA RestoringBackup ==
  ASSUME Inv, BackupInv, NEW c \in DnsWorkers, Restoring(c), Steady,
         \A d \in DnsWorkers : d # c => pc'[d] = "idle"
  PROVE  BackupInv'
<1> USE DEF Inv, TypeOK
<1>0. c \in Callers
  BY DEF DnsWorkers, Callers
<1>1. CASE PutBack(c)
  <2>1. /\ snap[c].original_dns = default /\ snap[c].interface = default
        /\ default # "bare" /\ "tool_ignored" \notin env
    BY <1>1, SystemNetworkAssumption DEF PutBack, BackupInv, Steady
  <2>2. osDns' = [osDns EXCEPT ![default] = default]
    BY <1>1, <2>1 DEF PutBack
  <2>3. AllOwn'
    BY <2>2 DEF AllOwn, BackupInv
  <2>4. pc'[c] = "clearing" /\ UNCHANGED <<env, default, file>>
    BY <1>0, <1>1 DEF PutBack, Goto
  <2>5. QED
    BY <2>3, <2>4 DEF BackupInv, AllOwn
<1>2. CASE RestoreRaises(c)
  <2>1. pc'[c] = "idle" /\ UNCHANGED <<env, default, file, osDns>>
    BY <1>0, <1>2 DEF RestoreRaises, Finish, Goto, system
  <2>2. QED
    BY <2>1 DEF BackupInv, Steady
<1>3. CASE ClearBackup(c)
  <2>1. pc'[c] = "idle" /\ UNCHANGED <<env, default, osDns>> /\ AllOwn
    BY <1>0, <1>3 DEF ClearBackup, Finish, Goto, system, BackupInv
  <2>2. ~file'.dns_changed
    <3>1. snap[c] \in States
      BY <1>0
    <3>2. file' = [snap[c] EXCEPT !.dns_changed = FALSE, !.original_dns = "none"]
      BY <1>3 DEF ClearBackup, Save, Steady
    <3>3. QED
      BY <3>1, <3>2 DEF States
  <2>3. QED
    BY <2>1, <2>2 DEF BackupInv, AllOwn
<1>4. QED
  BY <1>1, <1>2, <1>3 DEF Restoring

\* set_system_dns writes its backup before it changes the servers.
LEMMA DnsRequestBackup ==
  ASSUME Inv, BackupInv, NEW c \in DnsCallers, DnsRequest(c), Steady,
         \A d \in DnsWorkers : d # c => pc'[d] = "idle"
  PROVE  BackupInv'
<1> USE DEF Inv, TypeOK
<1>0. c \in Callers /\ c \in DnsWorkers
  BY DEF DnsWorkers, Callers
<1>1. CASE SetDns(c) \/ InterfaceUnknown(c)
  <2>1. /\ pc'[c] \in {"interface", "idle"} /\ UNCHANGED <<env, default, file, osDns>>
    BY <1>0, <1>1 DEF SetDns, InterfaceUnknown, Finish, Goto, system
  <2>2. QED
    BY <2>1 DEF BackupInv, Steady
<1>2. CASE LoadState(c)
  <2>1. Loaded = {file}
    BY DEF Steady, Loaded
  <2>2. /\ pc'[c] = IF file.dns_changed THEN "applying" ELSE "reading"
        /\ iface'[c] = default /\ UNCHANGED <<env, default, file, osDns>>
    BY <1>0, <1>2, <2>1 DEF LoadState, Goto, system
  <2>3. QED
    BY <2>2 DEF BackupInv, Steady
<1>3. CASE ReadDns(c)
  <2>1. osDns[default] = default /\ ~file.dns_changed /\ iface[c] = default
    BY <1>0, <1>3 DEF ReadDns, BackupInv
  <2>2. cur'[c] = default
    BY <1>0, <1>3, <2>1 DEF ReadDns, Steady
  <2>3. pc'[c] = "saving" /\ UNCHANGED <<env, default, file, osDns, iface>>
    BY <1>0, <1>3 DEF ReadDns, Goto, system
  <2>4. QED
    BY <2>1, <2>2, <2>3 DEF BackupInv, Steady
<1>4. CASE SaveBackup(c)
  <2>1. snap[c] \in States /\ cur[c] = default /\ iface[c] = default
    BY <1>0, <1>4 DEF SaveBackup, BackupInv
  <2>2. file' = [snap[c] EXCEPT !.dns_changed = TRUE, !.original_dns = cur[c],
                                !.interface = iface[c]]
    BY <1>4 DEF SaveBackup, Save, Steady
  <2>3. file'.dns_changed /\ file'.original_dns = default /\ file'.interface = default
    BY <2>1, <2>2 DEF States
  <2>4. pc'[c] = "applying" /\ UNCHANGED <<env, default, osDns, iface>>
    BY <1>0, <1>4 DEF SaveBackup, Goto, system, locals
  <2>5. QED
    BY <2>1, <2>3, <2>4 DEF BackupInv, Steady
<1>5. CASE ApplyDns(c)
  <2>1. file.dns_changed /\ iface[c] = default /\ UNCHANGED <<env, default, file>>
    BY <1>0, <1>5 DEF ApplyDns, BackupInv
  <2>2. /\ pc'[c] = "idle"
        /\ \A i \in Interfaces : i # default => osDns'[i] = osDns[i]
    BY <1>0, <1>5, <2>1 DEF ApplyDns, Finish, Goto
  <2>3. QED
    BY <2>1, <2>2 DEF BackupInv, Steady
<1>6. CASE RestoreRequest(c)
  BY <1>0, <1>6, RestoreDnsBackup DEF RestoreRequest
<1>7. CASE Restoring(c)
  BY <1>0, <1>7, RestoringBackup
<1>8. QED
  BY <1>1, <1>2, <1>3, <1>4, <1>5, <1>6, <1>7 DEF DnsRequest

\* No step changes what the behaviour may be exposed to.
LEMMA EnvStays == [Next]_vars => UNCHANGED env
BY DEF Next, DnsRequest, ProxyRequest, Restoring, SetDns, InterfaceUnknown, LoadState,
       ReadDns, SaveBackup, ApplyDns, RestoreRequest, RestoreDns, PutBack, RestoreRaises,
       ClearBackup, SetProxy, ApplyProxy, NoteProxy, Boot, RestoreSystemState, Ready,
       Interrupt, Close, Crash, Gone, Roam, vars

\* Every step keeps the backup usable.
LEMMA BackupStep ==
  ASSUME Inv, SerialInv, BackupInv, [Next]_vars
  PROVE  BackupInv'
<1> USE DEF Inv, TypeOK
<1>0. /\ Main \in DnsWorkers /\ DnsWorkers \subseteq Callers
      /\ \A c \in DnsCallers : c # Main /\ c \in DnsWorkers
      /\ \A c \in ProxyCallers : c \in Callers /\ c \notin DnsWorkers
  BY SystemNetworkAssumption DEF DnsWorkers, Callers, Main
<1>1. UNCHANGED env
  BY EnvStays
<1>2. SUFFICES ASSUME Steady PROVE BackupInv'
  BY <1>1 DEF BackupInv, Steady
<1>3. "overlap" \notin env /\ "roams" \notin env
  BY <1>2 DEF Steady
<1>4. CASE \E c \in DnsCallers : DnsRequest(c)
  <2>1. PICK c \in DnsCallers : DnsRequest(c)
    BY <1>4
  <2>2. \A d \in DnsWorkers : d # c => pc'[d] = pc[d]
    BY <1>0, <2>1
    DEF DnsRequest, Restoring, SetDns, InterfaceUnknown, LoadState, ReadDns, SaveBackup,
        ApplyDns, RestoreRequest, RestoreDns, PutBack, RestoreRaises, ClearBackup,
        Finish, Goto
  <2>3. pc[c] # "idle" \/ \A d \in DnsWorkers : pc[d] = "idle"
    <3>1. CASE pc[c] # "idle"
      BY <3>1
    <3>2. CASE pc[c] = "idle"
      <4>1. DnsServed
        BY <2>1, <3>2
        DEF DnsRequest, Restoring, SetDns, InterfaceUnknown, LoadState, ReadDns,
            SaveBackup, ApplyDns, RestoreRequest, PutBack, RestoreRaises, ClearBackup
      <4>2. QED
        BY <1>0, <1>3, <4>1 DEF DnsServed, SerialInv, DnsWorkers
    <3>3. QED
      BY <3>1, <3>2
  <2>4. \A d \in DnsWorkers : d # c => pc'[d] = "idle"
    BY <1>0, <1>3, <2>2, <2>3, AloneAtWork
  <2>5. QED
    BY <1>2, <2>1, <2>4, DnsRequestBackup
<1>5. CASE \E c \in ProxyCallers : ProxyRequest(c)
  <2>1. PICK c \in ProxyCallers : ProxyRequest(c)
    BY <1>5
  <2>2. /\ UNCHANGED <<osDns, default>>
        /\ \A d \in DnsWorkers :
             /\ pc'[d] = pc[d] /\ iface'[d] = iface[d]
             /\ snap'[d] = snap[d] /\ cur'[d] = cur[d]
    BY <1>0, <2>1
    DEF ProxyRequest, SetProxy, ApplyProxy, NoteProxy, Finish, Goto, system, locals
  <2>3. file' = file \/ \E b \in BOOLEAN : file' = [file EXCEPT !.proxy_enabled = b]
    BY <1>2, <2>1
    DEF ProxyRequest, SetProxy, ApplyProxy, NoteProxy, Save, Steady, Loaded
  <2>4. /\ file'.dns_changed = file.dns_changed
        /\ file'.original_dns = file.original_dns
        /\ file'.interface = file.interface
    BY <2>3 DEF States
  <2>5. QED
    BY <1>1, <2>2, <2>4 DEF BackupInv, Steady, AllOwn
<1>6. CASE Restoring(Main)
  <2>1. pc[Main] # "idle" /\ \A d \in DnsWorkers : d # Main => pc'[d] = pc[d]
    BY <1>0, <1>6
    DEF Restoring, PutBack, RestoreRaises, ClearBackup, Finish, Goto
  <2>2. QED
    BY <1>0, <1>2, <1>3, <1>6, <2>1, AloneAtWork, RestoringBackup
<1>7. CASE Boot \/ Interrupt
  <2>1. RestoreDns(Main)
    BY <1>7 DEF Boot, Interrupt, RestoreSystemState
  <2>2. \A d \in DnsWorkers : pc[d] = "idle"
    BY <1>0, <1>3, <1>7, <2>1
    DEF Boot, Interrupt, RestoreDns, SerialInv, DnsWorkers
  <2>3. \A d \in DnsWorkers : d # Main => pc'[d] = pc[d]
    BY <1>0, <2>1 DEF RestoreDns, Goto
  <2>4. QED
    BY <1>0, <1>2, <2>1, <2>2, <2>3, RestoreDnsBackup
<1>8. CASE Ready
  BY <1>8 DEF Ready, system, locals, BackupInv, Steady, AllOwn
<1>9. CASE Close \/ Crash
  BY <1>0, <1>9 DEF Close, Crash, Gone, system, BackupInv, Steady
<1>10. CASE Roam
  BY <1>3, <1>10 DEF Roam
<1>11. CASE UNCHANGED vars
  BY <1>11 DEF vars, system, locals, BackupInv, Steady, AllOwn
<1>12. QED
  BY <1>4, <1>5, <1>6, <1>7, <1>8, <1>9, <1>10, <1>11 DEF Next

-----------------------------------------------------------------------------
\* Recovery ends with the user's servers where only the process may fail.
LEMMA RecoveryStep ==
  ASSUME Inv, SerialInv, BackupInv, RecoveryInv, [Next]_vars
  PROVE  RecoveryInv'
<1> USE DEF Inv, TypeOK
<1>0. /\ Main \in DnsWorkers /\ Main \in Callers
      /\ \A c \in ProxyCallers : c # Main
  BY SystemNetworkAssumption DEF DnsWorkers, Callers, Main
<1>1. UNCHANGED env
  BY EnvStays
<1>2. SUFFICES ASSUME env \subseteq {"exit"}, mode' = "recovering", pc'[Main] = "idle"
               PROVE  AllOwn'
  BY <1>1 DEF RecoveryInv
<1>3. Steady
  BY <1>2 DEF Steady
<1>4. CASE \E c \in DnsCallers : DnsRequest(c)
  <2>1. PICK c \in DnsCallers : DnsRequest(c)
    BY <1>4
  <2>2. UNCHANGED mode
    BY <2>1
    DEF DnsRequest, Restoring, SetDns, InterfaceUnknown, LoadState, ReadDns, SaveBackup,
        ApplyDns, RestoreRequest, PutBack, RestoreRaises, ClearBackup
  <2>3. pc[c] # "idle" \/ DnsServed
    BY <2>1
    DEF DnsRequest, Restoring, SetDns, InterfaceUnknown, LoadState, ReadDns, SaveBackup,
        ApplyDns, RestoreRequest, PutBack, RestoreRaises, ClearBackup
  <2>4. QED
    BY <1>2, <2>2, <2>3 DEF SerialInv, DnsServed
<1>5. CASE \E c \in ProxyCallers : ProxyRequest(c)
  <2>1. UNCHANGED <<mode, osDns>> /\ pc'[Main] = pc[Main]
    BY <1>0, <1>5 DEF ProxyRequest, SetProxy, ApplyProxy, NoteProxy, Finish, Goto, system
  <2>2. QED
    BY <1>2, <2>1 DEF RecoveryInv, AllOwn
<1>6. CASE Restoring(Main)
  <2>1. ~RestoreRaises(Main)
    BY <1>2 DEF RestoreRaises
  <2>2. ~PutBack(Main)
    BY <1>0, <1>2 DEF PutBack, Goto
  <2>3. ClearBackup(Main)
    BY <1>6, <2>1, <2>2 DEF Restoring
  <2>4. QED
    BY <1>0, <1>3, <2>3 DEF ClearBackup, BackupInv, system, AllOwn
<1>7. CASE Boot
  <2>1. RestoreDns(Main)
    BY <1>7 DEF Boot, RestoreSystemState
  <2>2. file.dns_changed => file.original_dns # "none"
    BY DEF FlagHasBackup
  <2>3. Loaded = {file}
    BY <1>3 DEF Loaded, Steady
  <2>4. ~file.dns_changed
    BY <1>0, <1>2, <2>1, <2>2, <2>3 DEF RestoreDns, Goto
  <2>5. QED
    BY <1>3, <2>1, <2>4 DEF RestoreDns, BackupInv, system, AllOwn
<1>8. CASE Ready \/ Interrupt \/ Close \/ Crash
  BY <1>2, <1>8 DEF Ready, Interrupt, RestoreSystemState, Close, Crash, Gone
<1>9. CASE Roam
  BY <1>2, <1>9 DEF Roam
<1>10. CASE UNCHANGED vars
  BY <1>2, <1>10 DEF vars, system, RecoveryInv, AllOwn
<1>11. QED
  BY <1>4, <1>5, <1>6, <1>7, <1>8, <1>9, <1>10 DEF Next

-----------------------------------------------------------------------------
\* The invariants of the state file hold in every reachable state.
THEOREM Invariant == Spec => [](Inv /\ SerialInv /\ BackupInv /\ RecoveryInv)
<1>1. Init => Inv /\ SerialInv /\ BackupInv /\ RecoveryInv
  <2>1. SUFFICES ASSUME Init PROVE SerialInv /\ BackupInv /\ RecoveryInv
    BY InitInv
  <2>2. SerialInv /\ RecoveryInv
    BY <2>1 DEF Init, Idle, SerialInv, RecoveryInv, DnsWorkers, Callers
  <2>3. Steady => AllOwn
    BY <2>1 DEF Init, Steady, AllOwn
  <2>4. BackupInv
    BY <2>1, <2>3 DEF Init, Idle, NoState, AllOwn, BackupInv, DnsWorkers, Callers
  <2>5. QED
    BY <2>2, <2>4
<1>2. Inv /\ SerialInv /\ BackupInv /\ RecoveryInv /\ [Next]_vars
        => (Inv /\ SerialInv /\ BackupInv /\ RecoveryInv)'
  BY NextInv, SerialStep, BackupStep, RecoveryStep
<1>3. QED
  BY <1>1, <1>2, PTL DEF Spec

\* The variables of SystemNetwork keep their types, whatever fails.
THEOREM TypeCorrect == Spec => []TypeOK
<1>1. Inv => TypeOK
  BY DEF Inv
<1>2. QED
  BY <1>1, Invariant, PTL

\* For any number of overlapping requests, a default route that moves and all
\* faults, a state file that announces changed servers holds a backup that can
\* be parsed and the interface it is for: every copy a coroutine may write over
\* the file has the two together with the flag (set_system_dns sets the three
\* keys before one save, restore_system_dns drops them before one).
THEOREM FlagComesWithBackup == Spec => []FlagHasBackup
<1>1. Inv => FlagHasBackup
  BY DEF Inv
<1>2. QED
  BY <1>1, Invariant, PTL

\* Under the assumptions DnsRestorable spells out, for any number of interfaces
\* and wherever the process stops, the state file can put the DNS servers of the
\* user back: the backup is written before the change and dropped after the
\* restore.
THEOREM ServersAreRestorable == Spec => []DnsRestorable
<1>1. BackupInv => DnsRestorable
  BY DEF BackupInv, Steady, DnsRestorable
<1>2. QED
  BY <1>1, Invariant, PTL

\* Under the same assumptions a run that is past restore_system_state has the
\* DNS servers of the user, wherever the previous run ended.
THEOREM RecoveryIsEffective == Spec => RecoveryRestoresDns
<1>1. RecoveryInv /\ [Next]_vars
        => [env \subseteq {"exit"} /\ mode = "recovering" /\ mode' = "up"
              => \A i \in Interfaces : osDns[i] = i]_vars
  <2>1. SUFFICES ASSUME RecoveryInv, Next, mode = "recovering", mode' = "up",
                        env \subseteq {"exit"}
                 PROVE  AllOwn
    BY DEF vars, AllOwn
  <2>2. Ready
    BY <2>1
    DEF Next, DnsRequest, ProxyRequest, Restoring, SetDns, InterfaceUnknown, LoadState,
        ReadDns, SaveBackup, ApplyDns, RestoreRequest, PutBack, RestoreRaises,
        ClearBackup, SetProxy, ApplyProxy, NoteProxy, Boot, RestoreSystemState,
        Interrupt, Close, Crash, Gone, Roam
  <2>3. QED
    BY <2>1, <2>2 DEF Ready, RecoveryInv
<1>2. QED
  BY <1>1, Invariant, PTL DEF Spec, RecoveryRestoresDns

=============================================================================
