--------------------------- MODULE SystemNetwork ---------------------------
(***************************************************************************)
(* SystemNetworkManager (infrastructure/system_network.py): the DNS        *)
(* servers and the proxy of the operating system, the state file that      *)
(* remembers what to put back, and the places that call it: recovery at    *)
(* start, safe_cleanup at Ctrl-C, the engine's set_system_proxy and the    *)
(* handlers of the admin IPC server (runtime/admin_service.py).            *)
(*                                                                         *)
(* The platform is Windows, the only one on which set_system_dns changes   *)
(* anything, and there it changes the IPv4 servers.  The netsh calls for   *)
(* the servers of one list appear as one, and so do the two questions of   *)
(* get_current_dns: for the default interface and for its servers.         *)
(* Otherwise an action is what a coroutine does between two awaits.        *)
(***************************************************************************)
EXTENDS Naturals

CONSTANTS
  DnsCallers,    \* set_dns and restore_dns requests that can be in flight
  ProxyCallers,  \* set_system_proxy calls that can be in flight
  DnsLists,      \* the lists of servers a request may ask for
  Interfaces,    \* the network interfaces of the machine
  Environments   \* the sets of FaultKinds a behaviour may be exposed to

FaultKinds ==
  { "exit",          \* the process ends at any moment
    "overlap",       \* DNS requests overlap, each other or safe_cleanup
    "roams",         \* the default route moves to another interface
    "bare",          \* an interface may be static without any server
    "read_fails",    \* netsh does not tell the current servers
    "load_fails",    \* the state file cannot be read, and counts as empty
    "save_fails",    \* the state file cannot be written (only logged)
    "tool_ignored",  \* netsh fails while restoring; its status is not read
    "tool_raises" }  \* a tool cannot be started

ASSUME SystemNetworkAssumption ==
  /\ Environments \subseteq SUBSET FaultKinds
  /\ DnsCallers \cap ProxyCallers = {}
  /\ "main" \notin DnsCallers \cup ProxyCallers
  /\ DnsLists \cap Interfaces = {}
  /\ "bare" \notin DnsLists \cup Interfaces
  /\ "none" \notin DnsLists \cup Interfaces

VARIABLES
  env,     \* what may go wrong in this behaviour
  mode,    \* the life of the process
  default, \* the interface of the default route
  osDns,   \* the DNS servers of each interface
  osProxy, \* the proxy of the system
  file,    \* the state file
  pc,      \* where each coroutine is suspended
  arg,     \* what a request asks for
  iface,   \* local variable interface of each set_system_dns
  snap,    \* local variable state of each coroutine
  cur      \* result of get_current_dns of each set_system_dns

system == <<default, osDns, osProxy>>
locals == <<arg, iface, snap, cur>>
vars == <<env, mode, system, file, pc, locals>>

\* The coroutine of main: recovery at start, safe_cleanup at the end.
Main == "main"
Callers == DnsCallers \cup ProxyCallers \cup {Main}

Modes == {"down", "recovering", "up", "closing"}
PCs == {"idle", "interface", "reading", "saving", "applying",
        "restoring", "clearing", "proxying", "noting"}
\* The servers of an interface: a list that was asked for, none ("bare"), or
\* what its user has there, a list or DHCP, for which its own name stands.
Settings == DnsLists \cup Interfaces \cup {"bare"}
Backups == Settings \cup {"none"}
States == [dns_changed : BOOLEAN, original_dns : Backups,
           interface : Interfaces \cup {"none"}, proxy_enabled : BOOLEAN]

\* load_state() of a file that was never written, or cannot be read.
NoState == [dns_changed |-> FALSE, original_dns |-> "none",
            interface |-> "none", proxy_enabled |-> FALSE]

TypeOK ==
  /\ env \in Environments
  /\ mode \in Modes
  /\ default \in Interfaces
  /\ osDns \in [Interfaces -> Settings]
  /\ osProxy \in {"user", "engine", "off"}
  /\ file \in States
  /\ pc \in [Callers -> PCs]
  /\ arg \in [Callers -> DnsLists \cup {"engine", "off", "none"}]
  /\ iface \in [Callers -> Interfaces \cup {"none"}]
  /\ snap \in [Callers -> States]
  /\ cur \in [Callers -> Backups]

\* Locals of a coroutine that is not running.
Idle == /\ pc = [c \in Callers |-> "idle"]
        /\ arg = [c \in Callers |-> "none"]
        /\ iface = [c \in Callers |-> "none"]
        /\ snap = [c \in Callers |-> NoState]
        /\ cur = [c \in Callers |-> "none"]

Init ==
  /\ env \in Environments
  /\ mode = "down"
  /\ default \in Interfaces
  /\ \E bare \in SUBSET Interfaces :
       /\ bare = {} \/ "bare" \in env
       /\ osDns = [i \in Interfaces |-> IF i \in bare THEN "bare" ELSE i]
  /\ osProxy = "user"
  /\ file = NoState
  /\ Idle

Goto(c, next) == pc' = [pc EXCEPT ![c] = next]

\* A coroutine returns and its locals die.
Finish(c) ==
  /\ Goto(c, "idle")
  /\ arg' = [arg EXCEPT ![c] = "none"]
  /\ iface' = [iface EXCEPT ![c] = "none"]
  /\ snap' = [snap EXCEPT ![c] = NoState]
  /\ cur' = [cur EXCEPT ![c] = "none"]

\* save_state(): temporary file and rename; an error is logged and forgotten.
Save(state) ==
  \/ file' = state
  \/ "save_fails" \in env /\ file' = file

\* What load_state() may return: an error counts as no file.
Loaded == {file} \cup (IF "load_fails" \in env THEN {NoState} ELSE {})

\* The event loop serves requests, also while safe_cleanup runs on it.
Running == mode \in {"up", "closing"}

\* What is assumed of the timing of DNS requests (see FaultKinds).
DnsServed ==
  IF "overlap" \in env THEN Running
  ELSE mode = "up" /\ \A c \in DnsCallers : pc[c] = "idle"

-----------------------------------------------------------------------------
\* The default route moves, as when a cable is plugged in.
Roam ==
  /\ "roams" \in env
  /\ default' \in Interfaces \ {default}
  /\ UNCHANGED <<env, mode, osDns, osProxy, file, pc, locals>>

\* set_system_dns(list) is called and asks for the default interface.
SetDns(c) ==
  /\ DnsServed
  /\ pc[c] = "idle"
  /\ \E d \in DnsLists : arg' = [arg EXCEPT ![c] = d]
  /\ Goto(c, "interface")
  /\ UNCHANGED <<env, mode, system, file, iface, snap, cur>>

\* PowerShell cannot be started, and the request ends in an exception.
InterfaceUnknown(c) ==
  /\ "tool_raises" \in env
  /\ pc[c] \in {"interface", "reading"}
  /\ Finish(c)
  /\ UNCHANGED <<env, mode, system, file>>

\* The state file is loaded; under its flag the servers are changed without a
\* look at the interface of the backup, otherwise the current ones are read.
LoadState(c) ==
  /\ pc[c] = "interface"
  /\ iface' = [iface EXCEPT ![c] = default]
  /\ \E state \in Loaded :
       /\ snap' = [snap EXCEPT ![c] = state]
       /\ Goto(c, IF state.dns_changed THEN "applying" ELSE "reading")
  /\ UNCHANGED <<env, mode, system, file, arg, cur>>

\* get_current_dns: netsh prints the servers of what is the default interface
\* now.  Where it fails or is refused, nothing was printed, which is taken for a
\* static configuration without servers.
ReadDns(c) ==
  /\ pc[c] = "reading"
  /\ \E seen \in {osDns[default]} \cup (IF "read_fails" \in env THEN {"bare"} ELSE {}) :
       cur' = [cur EXCEPT ![c] = seen]
  /\ Goto(c, "saving")
  /\ UNCHANGED <<env, mode, system, file, arg, iface, snap>>

\* Mutation: only the flag is written before the servers are changed.
SaveFlagOnly(c) ==
  /\ pc[c] = "saving"
  /\ Save([snap[c] EXCEPT !.dns_changed = TRUE, !.interface = iface[c]])
  /\ Goto(c, "applying")
  /\ UNCHANGED <<env, mode, system, locals>>

\* original_dns, interface and dns_changed go to the file before anything is
\* changed.
SaveBackup(c) ==
  /\ pc[c] = "saving"
  /\ Save([snap[c] EXCEPT !.dns_changed = TRUE, !.original_dns = cur[c],
                           !.interface = iface[c]])
  /\ Goto(c, "applying")
  /\ UNCHANGED <<env, mode, system, locals>>

\* netsh has run; whether it worked is not looked at.
ApplyDns(c) ==
  /\ pc[c] = "applying"
  /\ osDns' \in {osDns, [osDns EXCEPT ![iface[c]] = arg[c]]}
  /\ Finish(c)
  /\ UNCHANGED <<env, mode, default, osProxy, file>>

\* restore_system_dns() loads the state file.  Nothing to do without
\* dns_changed; a backup that is no JSON only clears the flag.
RestoreDns(c) ==
  /\ pc[c] = "idle"
  /\ \E state \in Loaded :
       IF ~state.dns_changed
         THEN UNCHANGED <<file, pc, snap>>
         ELSE IF state.original_dns = "none"
           THEN Save([state EXCEPT !.dns_changed = FALSE]) /\ UNCHANGED <<pc, snap>>
           ELSE /\ snap' = [snap EXCEPT ![c] = state]
                /\ Goto(c, "restoring")
                /\ UNCHANGED file
  /\ UNCHANGED <<env, system, arg, iface, cur>>

\* A restore_dns request.
RestoreRequest(c) == DnsServed /\ RestoreDns(c) /\ UNCHANGED mode

\* netsh has put the servers of the backup back, on the interface of the
\* backup.  A static configuration without servers gives it nothing to do.
PutBack(c) ==
  /\ pc[c] = "restoring"
  /\ LET backup == snap[c].original_dns IN
       \/ osDns' = IF backup = "bare" THEN osDns
                   ELSE [osDns EXCEPT ![snap[c].interface] = backup]
       \/ "tool_ignored" \in env /\ osDns' = osDns
  /\ Goto(c, "clearing")
  /\ UNCHANGED <<env, mode, default, osProxy, file, locals>>

\* netsh or ipconfig cannot be started: the file keeps its backup.
RestoreRaises(c) ==
  /\ "tool_raises" \in env
  /\ pc[c] \in {"restoring", "clearing"}
  /\ Finish(c)
  /\ UNCHANGED <<env, mode, system, file>>

\* Mutation: the wrong key is popped from the state.
PopWrongKey(c) ==
  /\ pc[c] = "clearing"
  /\ file' = [k \in {"original_dns", "interface", "proxy_enabled"} |-> snap[c][k]]
  /\ Finish(c)
  /\ UNCHANGED <<env, mode, system>>

\* The DNS cache is flushed, the backup is dropped and the file saved, from
\* the copy loaded at the beginning.
ClearBackup(c) ==
  /\ pc[c] = "clearing"
  /\ Save([snap[c] EXCEPT !.dns_changed = FALSE, !.original_dns = "none"])
  /\ Finish(c)
  /\ UNCHANGED <<env, mode, system>>

-----------------------------------------------------------------------------
\* set_system_proxy(True, port) or set_system_proxy(False).
SetProxy(c) ==
  /\ Running
  /\ pc[c] = "idle"
  /\ \E route \in {"engine", "off"} : arg' = [arg EXCEPT ![c] = route]
  /\ Goto(c, "proxying")
  /\ UNCHANGED <<env, mode, system, file, iface, snap, cur>>

\* The setting is changed; what was there before is recorded nowhere.
ApplyProxy(c) ==
  /\ pc[c] = "proxying"
  /\ osProxy' = arg[c]
  /\ Goto(c, "noting")
  /\ UNCHANGED <<env, mode, default, osDns, file, locals>>

\* Mutation: the state file is overwritten instead of updated.
NoteOnlyProxy(c) ==
  /\ pc[c] = "noting"
  /\ Save([NoState EXCEPT !.proxy_enabled = (arg[c] = "engine")])
  /\ Finish(c)
  /\ UNCHANGED <<env, mode, system>>

\* The state file is loaded, changed and saved without an await in between.
NoteProxy(c) ==
  /\ pc[c] = "noting"
  /\ \E state \in Loaded : Save([state EXCEPT !.proxy_enabled = (arg[c] = "engine")])
  /\ Finish(c)
  /\ UNCHANGED <<env, mode, system>>

-----------------------------------------------------------------------------
\* restore_system_state() at start and in safe_cleanup.  No statement of the
\* program sets proxy_backed_up, so restore_system_proxy() is never called.
RestoreSystemState(from) ==
  /\ mode' = from
  /\ RestoreDns(Main)

\* Mutation: recovery is left to the next request.
BootWithoutRecovery ==
  /\ mode = "down"
  /\ mode' = "recovering"
  /\ UNCHANGED <<env, system, file, pc, locals>>

\* A run begins with recovery.
Boot ==
  /\ mode = "down"
  /\ RestoreSystemState("recovering")

\* Recovery is over.
Ready ==
  /\ mode = "recovering"
  /\ pc[Main] = "idle"
  /\ mode' = "up"
  /\ UNCHANGED <<env, system, file, pc, locals>>

\* Ctrl-C in the dashboard: safe_cleanup runs on the same loop, next to the
\* tasks that are still there.
Interrupt ==
  /\ mode = "up"
  /\ "overlap" \in env \/ \A c \in DnsCallers : pc[c] = "idle"
  /\ RestoreSystemState("closing")

\* The process is gone.
Gone ==
  /\ mode' = "down"
  /\ pc' = [c \in Callers |-> "idle"]
  /\ arg' = [c \in Callers |-> "none"]
  /\ iface' = [c \in Callers |-> "none"]
  /\ snap' = [c \in Callers |-> NoState]
  /\ cur' = [c \in Callers |-> "none"]
  /\ UNCHANGED <<env, system, file>>

\* safe_cleanup is done and the remaining tasks are cancelled.
Close == mode = "closing" /\ pc[Main] = "idle" /\ Gone

\* A kill, a power failure, or Ctrl-C in BypssEng.py.
Crash == mode # "down" /\ "exit" \in env /\ Gone

-----------------------------------------------------------------------------
Restoring(c) == PutBack(c) \/ RestoreRaises(c) \/ ClearBackup(c)

DnsRequest(c) ==
  \/ SetDns(c) \/ InterfaceUnknown(c) \/ LoadState(c) \/ ReadDns(c)
  \/ SaveBackup(c) \/ ApplyDns(c)
  \/ RestoreRequest(c) \/ Restoring(c)

ProxyRequest(c) == SetProxy(c) \/ ApplyProxy(c) \/ NoteProxy(c)

Next ==
  \/ \E c \in DnsCallers : DnsRequest(c)
  \/ \E c \in ProxyCallers : ProxyRequest(c)
  \/ Restoring(Main)
  \/ Boot \/ Ready \/ Interrupt \/ Close \/ Crash \/ Roam

Spec == Init /\ [][Next]_vars

-----------------------------------------------------------------------------
(***************************************************************************)
(* Properties.                                                             *)
(***************************************************************************)

\* On a machine whose default route stays where it is and whose interfaces have
\* servers or DHCP, as long as one DNS request runs at a time, what is read is
\* right and files can be read and written: whenever the servers of an interface
\* are not its user's, the state file says so and holds the user's own ones for
\* that interface.  Neither an exit after any step, nor a tool that cannot be
\* started, nor a proxy change in the middle of a DNS request loses them
\* (set_system_dns writes its backup first, restore_system_dns drops it last).
\* Without one of these assumptions the code does lose them.
DnsRestorable ==
  env \subseteq {"exit", "tool_raises"} =>
    \A i \in Interfaces : osDns[i] # i =>
      file.dns_changed /\ file.original_dns = i /\ file.interface = i

\* On such a machine a run that is past its recovery starts from the user's own
\* DNS servers, wherever the previous run ended.
RecoveryRestoresDns ==
  [][env \subseteq {"exit"} /\ mode = "recovering" /\ mode' = "up" =>
       \A i \in Interfaces : osDns[i] = i]_vars

\* Whatever fails, moves or overlaps, a restore that finds the flag finds a
\* backup it can parse and the interface it is for: requests that write stale
\* copies of the file overwrite the three keys together, so the branch of
\* restore_system_dns for an unreadable backup is never taken.  Nothing is said
\* about whose servers these are.
FlagHasBackup ==
  file.dns_changed => file.original_dns # "none" /\ file.interface # "none"

=============================================================================
