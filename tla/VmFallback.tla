----------------------------- MODULE VmFallback ----------------------------
(***************************************************************************)
(* Fine-tuned answers normally come from a service on the VM, a systemd    *)
(* user unit in front of Ollama; the fallback is a tunnel to a node of the *)
(* cluster on the same port.  Operators' scripts exchange one for the      *)
(* other: aiswe_finetuned.sh (start, stop, restore, restart, set-mapping), *)
(* start_finetuned_tunnel.sh, stop_finetuned_tunnel.sh, and                *)
(* install_finetuned_adapter.py builds the models that the unit maps.      *)
(*                                                                         *)
(* Each shell runs one script, a command at a time; shells interleave, are *)
(* interrupted (the traps run) or killed (they do not).                    *)
(***************************************************************************)
EXTENDS Naturals, FiniteSets

CONSTANTS
    Pairs,        \* course@version
    Nodes, NoNode,
    Shells,
    Enabled,      \* the unit is enabled at boot
    MaxCommands,  \* a bound: scripts begun
    MaxEvents     \* a bound: crashes, kills, interrupts and outages

ASSUME FallbackAssumption ==
    NoNode \notin Nodes /\ Enabled \in BOOLEAN /\ MaxCommands \in Nat /\ MaxEvents \in Nat

VARIABLES
    models,       \* what Ollama answers that it has
    mapFile,      \* FINETUNED_OLLAMA_MODELS in finetuned.env
    unit,         \* aiswe-finetuned: inactive, active, retrying, failed
    loadedMap,    \* the mapping of the running service
    tunnel,       \* the node the ssh master forwards the port to
    stateFile,    \* NODE= of the tunnel's state file
    answering,    \* the nodes whose service is ready
    marker,       \* the fallback marker: empty, or its SERVABLE_BEFORE
    shell,
    taken,        \* history: what the unit served when the fallback stopped it, until it is up again
    commands, events

service == <<models, mapFile, unit, loadedMap>>
remote == <<tunnel, stateFile, answering>>
fallbackVars == <<service, remote, marker, shell, taken, commands, events>>

---------------------------------------------------------------------------
(* Who answers on the port.                                                *)

PortFree == unit # "active" /\ tunnel = NoNode

\* servable_pairs of /health: in the map it loaded, and present in Ollama; a cluster service
\* lists what it has published.
Local == loadedMap \cap models
Servable ==
    IF unit = "active" THEN Local
    ELSE IF tunnel \in answering THEN Pairs ELSE {}

\* health_ready: status ok and at least one course.
Ready == Servable # {}

NewShell == [at |-> "idle", cmd |-> "none", node |-> NoNode, asked |-> FALSE, stopped |-> FALSE,
         opened |-> FALSE, pairs |-> {}, had |-> {}, alone |-> TRUE]

ShellAt(s, place) == shell[s].at = place
Goes(s, place) == shell' = [shell EXCEPT ![s].at = place]

\* The shell is free again.
Ended(s, how) == shell' = [shell EXCEPT ![s] = [NewShell EXCEPT !.at = how]]
Over == {"idle", "ok", "failed", "killed"}

\* die, and the EXIT trap of start_finetuned_tunnel.sh.
GivesUp(s) == IF shell[s].stopped THEN Goes(s, "trap") ELSE Ended(s, "failed")

FallbackInit ==
    /\ models \in SUBSET Pairs
    /\ mapFile \in SUBSET Pairs
    /\ unit \in {"active", "inactive"}
    /\ loadedMap = IF unit = "active" THEN mapFile ELSE {}
    /\ tunnel = NoNode /\ stateFile = NoNode /\ answering \in SUBSET Nodes
    /\ marker = {}
    /\ shell = [s \in Shells |-> NewShell]
    /\ taken = {} /\ commands = 0 /\ events = 0

\* History: what a fallback that starts now will have to bring back.  A marker
\* that is still there from an earlier one is kept, and says it.
Owed == IF marker = {} THEN Servable ELSE UNION marker

\* History: what a script finds that it may have to bring back.
Recalls(cmd) == CASE cmd = "tunnel" -> Owed
                [] cmd = "untunnel" -> UNION marker
                [] OTHER -> {}

\* Whatever happens beside it, a script no longer runs alone.
Begin(s, cmd, place, node, asked, pairs) ==
    /\ shell[s].at \in Over
    /\ commands < MaxCommands /\ commands' = commands + 1
    /\ shell' = [t \in Shells |->
                    IF t = s THEN [NewShell EXCEPT !.at = place, !.cmd = cmd, !.node = node,
                                               !.asked = asked, !.pairs = pairs, !.had = Recalls(cmd),
                                               !.alone = \A u \in Shells \ {s} : shell[u].at \in Over]
                    ELSE IF shell[t].at \in Over THEN NewShell
                    ELSE [shell[t] EXCEPT !.alone = FALSE]]
    /\ UNCHANGED <<service, remote, marker, taken, events>>

Commands(s) ==
    \/ \E n \in Nodes, stopLocal \in BOOLEAN : Begin(s, "tunnel", "unit?", n, stopLocal, {})
    \/ \E keep \in BOOLEAN : Begin(s, "untunnel", "close", NoNode, keep, {})
    \/ Begin(s, "restore", "restore", NoNode, FALSE, {})
    \/ Begin(s, "start", "start", NoNode, FALSE, {})
    \/ Begin(s, "stop", "stop", NoNode, FALSE, {})
    \/ Begin(s, "restart", IF unit = "active" THEN "stop" ELSE "start", NoNode, FALSE, {})
    \/ \E p \in Pairs : Begin(s, "map", "read", NoNode, FALSE, {p})
    \/ \E p \in Pairs, replace \in BOOLEAN : Begin(s, "install", "plan", NoNode, replace, {p})

---------------------------------------------------------------------------
(* aiswe_finetuned.sh stop.                                                *)

\* write_fallback_marker: an existing marker is kept.
WriteMarker == IF marker = {} THEN {Servable} ELSE marker

Mark(s) ==
    /\ ShellAt(s, "mark") /\ marker' = WriteMarker
    /\ Goes(s, "stop")
    /\ UNCHANGED <<service, remote, taken, commands, events>>

\* History.  A stop beside another script is not counted: the restore of that
\* script may remove the marker between its writing and the stop, or after.
Takes(s) == IF shell[s].cmd = "tunnel" /\ shell[s].alone THEN {Servable} ELSE {}

UnitDown == unit' = "inactive" /\ loadedMap' = {}

\* systemctl --user stop; it also ends systemd's own attempts to restart.
Stop(s) ==
    /\ ShellAt(s, "stop")
    /\ \/ /\ UnitDown
          /\ taken' = Takes(s)
          /\ \/ shell[s].cmd = "tunnel" /\ shell' = [shell EXCEPT ![s].at = "probe", ![s].stopped = TRUE]
             \/ shell[s].cmd = "restart" /\ Goes(s, "start")
             \/ shell[s].cmd = "stop" /\ Ended(s, "ok")
       \/ GivesUp(s) /\ UNCHANGED <<unit, loadedMap, taken>>
    /\ UNCHANGED <<models, mapFile, remote, marker, commands, events>>

---------------------------------------------------------------------------
(* aiswe_finetuned.sh start and restore.                                   *)

\* What a restore must prove: the marker's pairs, or everything that is mapped.
Restore(s) ==
    /\ ShellAt(s, "restore")
    /\ IF tunnel # NoNode THEN Ended(s, "failed")
       ELSE shell' = [shell EXCEPT ![s].at = "start",
                                   ![s].pairs = IF UNION marker # {} THEN UNION marker ELSE mapFile]
    /\ UNCHANGED <<service, remote, marker, taken, commands, events>>

\* cmd_start: refuse_if_tunnel_owns_port.
Start(s) ==
    /\ ShellAt(s, "start")
    /\ IF unit = "active" THEN Goes(s, "ready")
       ELSE IF tunnel # NoNode THEN Ended(s, "failed")
       ELSE Goes(s, "launch")
    /\ UNCHANGED <<service, remote, marker, taken, commands, events>>

UnitUp == unit' = "active" /\ loadedMap' = mapFile /\ taken' = {}

\* systemctl --user start: cmd_preflight, then the service binds the port and
\* reads the mapping.  The tunnel on the port always fails it; a missing or
\* malformed finetuned.env, a foreign listener, or a unit that is not installed
\* may.  A start that fails is tried again by systemd, unless it never began.
Launch(s) ==
    /\ ShellAt(s, "launch")
    /\ \/ unit = "active" /\ UNCHANGED <<unit, loadedMap, taken>> /\ Goes(s, "ready")
       \/ unit # "active" /\ tunnel = NoNode /\ UnitUp /\ Goes(s, "ready")
       \/ /\ unit # "active" /\ unit' \in {unit, "retrying"} /\ UNCHANGED <<loadedMap, taken>>
          /\ Ended(s, "failed")
    /\ UNCHANGED <<models, mapFile, remote, marker, commands, events>>

Proves(s) == shell[s].cmd # "start" /\ shell[s].cmd # "restart"

AwaitReady(s) ==
    /\ ShellAt(s, "ready")
    /\ IF ~Ready THEN Ended(s, "failed")
       ELSE IF Proves(s) THEN Goes(s, "prove") ELSE Ended(s, "ok")
    /\ UNCHANGED <<service, remote, marker, taken, commands, events>>

\* servable --expect
Prove(s) ==
    /\ ShellAt(s, "prove")
    /\ IF shell[s].pairs \subseteq Servable THEN Goes(s, "unmark") ELSE Ended(s, "failed")
    /\ UNCHANGED <<service, remote, marker, taken, commands, events>>

Unmark(s) ==
    /\ ShellAt(s, "unmark") /\ marker' = {}
    /\ taken' = IF shell[s].alone THEN taken ELSE {}
    /\ Ended(s, IF shell[s].cmd = "tunnel" THEN "failed" ELSE "ok")
    /\ UNCHANGED <<service, remote, commands, events>>

---------------------------------------------------------------------------
(* start_finetuned_tunnel.sh.                                              *)

CheckUnit(s) ==
    /\ ShellAt(s, "unit?")
    /\ IF unit # "active" THEN Goes(s, "probe")
       ELSE IF shell[s].asked THEN Goes(s, "mark") ELSE GivesUp(s)
    /\ UNCHANGED <<service, remote, marker, taken, commands, events>>

\* A healthy tunnel of this project to the same node is reused; anything else on
\* the port ends the script.
ProbePort(s) ==
    /\ ShellAt(s, "probe")
    /\ IF PortFree THEN Goes(s, "ssh") /\ stateFile' = NoNode
       ELSE /\ IF Ready /\ tunnel # NoNode /\ stateFile = shell[s].node
               THEN Goes(s, "backend") ELSE GivesUp(s)
            /\ UNCHANGED stateFile
    /\ UNCHANGED <<service, tunnel, answering, marker, taken, commands, events>>

\* Mutant: ssh goes on without the forward (no ExitOnForwardFailure).
ForwardsAlways == TRUE

Forwards == PortFree

Ssh(s) ==
    /\ ShellAt(s, "ssh")
    /\ \/ /\ Forwards /\ tunnel' = shell[s].node
          /\ shell' = [shell EXCEPT ![s].at = "state", ![s].opened = TRUE]
       \/ GivesUp(s) /\ UNCHANGED tunnel
    /\ UNCHANGED <<service, stateFile, answering, marker, taken, commands, events>>

WriteState(s) ==
    /\ ShellAt(s, "state") /\ stateFile' = shell[s].node
    /\ Goes(s, "wait")
    /\ UNCHANGED <<service, tunnel, answering, marker, taken, commands, events>>

AwaitTunnel(s) ==
    /\ ShellAt(s, "wait")
    /\ IF Ready THEN Goes(s, "backend") ELSE GivesUp(s)
    /\ UNCHANGED <<service, remote, marker, taken, commands, events>>

\* backend/.env and the restart of the backend.
RestartBackend(s) ==
    /\ ShellAt(s, "backend")
    /\ Goes(s, "recheck") \/ GivesUp(s)
    /\ UNCHANGED <<service, remote, marker, taken, commands, events>>

Recheck(s) ==
    /\ ShellAt(s, "recheck")
    /\ IF Ready THEN Ended(s, "ok") ELSE GivesUp(s)
    /\ UNCHANGED <<service, remote, marker, taken, commands, events>>

\* Mutant: the trap leaves the service to the operator.
TrapLeaves(s) ==
    /\ ShellAt(s, "trap")
    /\ Ended(s, "failed")
    /\ UNCHANGED <<service, remote, marker, taken, commands, events>>

\* restore_local_on_failure: the tunnel this run opened is closed first.
Trap(s) ==
    /\ ShellAt(s, "trap")
    /\ IF shell[s].opened /\ tunnel # NoNode
       THEN \/ tunnel' = NoNode /\ stateFile' = NoNode /\ Goes(s, "restore")
            \/ Ended(s, "failed") /\ UNCHANGED <<tunnel, stateFile>>
       ELSE Goes(s, "restore") /\ UNCHANGED <<tunnel, stateFile>>
    /\ UNCHANGED <<service, answering, marker, taken, commands, events>>

---------------------------------------------------------------------------
(* stop_finetuned_tunnel.sh.                                               *)

Close(s) ==
    /\ ShellAt(s, "close")
    /\ IF tunnel = NoNode THEN Goes(s, "clean") /\ UNCHANGED tunnel
       ELSE \/ tunnel' = NoNode /\ Goes(s, "clean")
            \/ Ended(s, "failed") /\ UNCHANGED tunnel
    /\ UNCHANGED <<service, stateFile, answering, marker, taken, commands, events>>

Clean(s) ==
    /\ ShellAt(s, "clean") /\ stateFile' = NoNode
    /\ Goes(s, "decide")
    /\ UNCHANGED <<service, tunnel, answering, marker, taken, commands, events>>

\* A recorded stop, or an enabled unit that is down.
OwesRestore == marker # {} \/ (unit # "active" /\ Enabled)

Decide(s) ==
    /\ ShellAt(s, "decide")
    /\ IF ~shell[s].asked /\ OwesRestore THEN Goes(s, "restore") ELSE Ended(s, "ok")
    /\ UNCHANGED <<service, remote, marker, taken, commands, events>>

---------------------------------------------------------------------------
(* set-mapping: the file is read, merged and rewritten in place.           *)

ReadMap(s) ==
    /\ ShellAt(s, "read")
    /\ IF shell[s].pairs \subseteq mapFile THEN Ended(s, "ok")
       ELSE shell' = [shell EXCEPT ![s].at = "truncate", ![s].pairs = @ \cup mapFile]
    /\ UNCHANGED <<service, remote, marker, taken, commands, events>>

TruncateMap(s) ==
    /\ ShellAt(s, "truncate") /\ mapFile' = {}
    /\ Goes(s, "write")
    /\ UNCHANGED <<models, unit, loadedMap, remote, marker, taken, commands, events>>

WriteMap(s) ==
    /\ ShellAt(s, "write") /\ mapFile' = shell[s].pairs
    /\ Ended(s, "ok")
    /\ UNCHANGED <<models, unit, loadedMap, remote, marker, taken, commands, events>>

---------------------------------------------------------------------------
(* install_finetuned_adapter.py: a version is built once, unless --replace.*)

PlanInstall(s) ==
    /\ ShellAt(s, "plan")
    /\ IF shell[s].pairs \subseteq models /\ ~shell[s].asked THEN Ended(s, "failed")
       ELSE Goes(s, "create")
    /\ UNCHANGED <<service, remote, marker, taken, commands, events>>

\* The conversion, or ollama create, may fail.  The smoke generation may fail
\* after it: the model stays, only the record of the install is missing.
CreateModel(s) ==
    /\ ShellAt(s, "create")
    /\ \/ models' = models \cup shell[s].pairs /\ \E how \in {"ok", "failed"} : Ended(s, how)
       \/ Ended(s, "failed") /\ UNCHANGED models
    /\ UNCHANGED <<mapFile, unit, loadedMap, remote, marker, taken, commands, events>>

ScriptStep(s) ==
    \/ Mark(s) \/ Stop(s)
    \/ Restore(s) \/ Start(s) \/ Launch(s) \/ AwaitReady(s) \/ Prove(s) \/ Unmark(s)
    \/ CheckUnit(s) \/ ProbePort(s) \/ Ssh(s) \/ WriteState(s) \/ AwaitTunnel(s)
    \/ RestartBackend(s) \/ Recheck(s) \/ Trap(s)
    \/ Close(s) \/ Clean(s) \/ Decide(s)
    \/ ReadMap(s) \/ TruncateMap(s) \/ WriteMap(s)
    \/ PlanInstall(s) \/ CreateModel(s)

---------------------------------------------------------------------------
(* What happens to them.                                                   *)

Event == events < MaxEvents /\ events' = events + 1 /\ UNCHANGED commands
Disturbed == [t \in Shells |-> [shell[t] EXCEPT !.alone = FALSE]]

\* kill -9, a lost terminal: no trap runs.
Kill(s) ==
    /\ Event /\ shell[s].at \notin Over
    /\ shell' = [Disturbed EXCEPT ![s] = [NewShell EXCEPT !.at = "killed"]]
    /\ UNCHANGED <<service, remote, marker, taken>>

\* INT or TERM while a tunnel is started: exit 130, and the trap.
Interrupt(s) ==
    /\ Event /\ shell[s].cmd = "tunnel"
    /\ shell[s].at \in {"probe", "ssh", "state", "wait", "backend", "recheck"}
    /\ GivesUp(s)
    /\ UNCHANGED <<service, remote, marker, taken>>

\* The same while it waits for the service to stop: the service does stop, but
\* the script has not yet noted that it stopped it.
InterruptStop(s) ==
    /\ Event /\ shell[s].cmd = "tunnel" /\ ShellAt(s, "stop")
    /\ UnitDown /\ taken' = Takes(s)
    /\ Ended(s, "failed")
    /\ UNCHANGED <<models, mapFile, remote, marker>>

TunnelDrops ==
    /\ Event /\ tunnel # NoNode /\ tunnel' = NoNode
    /\ shell' = Disturbed
    /\ UNCHANGED <<service, stateFile, answering, marker, taken>>

SessionChanges(n) ==
    /\ Event
    /\ answering' = IF n \in answering THEN answering \ {n} ELSE answering \cup {n}
    /\ shell' = Disturbed
    /\ UNCHANGED <<service, tunnel, stateFile, marker, taken>>

\* Ollama goes down, or comes back; a model is removed.
OllamaChanges(has) ==
    /\ Event /\ has # models /\ models' = has
    /\ shell' = Disturbed
    /\ UNCHANGED <<mapFile, unit, loadedMap, remote, marker, taken>>

\* Restart=on-failure
UnitCrashes ==
    /\ Event /\ unit = "active" /\ unit' = "retrying" /\ loadedMap' = {}
    /\ shell' = Disturbed
    /\ UNCHANGED <<models, mapFile, remote, marker, taken>>

\* Five failed starts in five minutes end systemd's attempts.
Retry ==
    /\ unit = "retrying"
    /\ \/ tunnel = NoNode /\ UnitUp
       \/ unit' = "failed" /\ UNCHANGED <<loadedMap, taken>>
    /\ shell' = Disturbed
    /\ UNCHANGED <<models, mapFile, remote, marker, commands, events>>

Reboot ==
    /\ Event
    /\ tunnel' = NoNode
    /\ \/ Enabled /\ UnitUp
       \/ Enabled /\ unit' = "retrying" /\ loadedMap' = {} /\ UNCHANGED taken
       \/ ~Enabled /\ UnitDown /\ UNCHANGED taken
    /\ shell' = [s \in Shells |-> NewShell]
    /\ UNCHANGED <<models, mapFile, stateFile, answering, marker>>

FallbackNext ==
    \/ \E s \in Shells : Commands(s) \/ ScriptStep(s) \/ Kill(s) \/ Interrupt(s) \/ InterruptStop(s)
    \/ TunnelDrops \/ UnitCrashes \/ Retry \/ Reboot
    \/ \E n \in Nodes : SessionChanges(n)
    \/ \E has \in SUBSET Pairs : OllamaChanges(has)

FallbackSpec == FallbackInit /\ [][FallbackNext]_fallbackVars

---------------------------------------------------------------------------
(* Properties.                                                             *)

FallbackTypeOK ==
    /\ models \in SUBSET Pairs /\ mapFile \in SUBSET Pairs
    /\ unit \in {"inactive", "active", "retrying", "failed"} /\ loadedMap \in SUBSET Pairs
    /\ tunnel \in Nodes \cup {NoNode} /\ stateFile \in Nodes \cup {NoNode}
    /\ answering \in SUBSET Nodes
    /\ marker \in SUBSET SUBSET Pairs /\ Cardinality(marker) <= 1

\* The unit and the tunnel never hold the port at once.
OneListener == ~(unit = "active" /\ tunnel # NoNode)

\* A service that was stopped for the fallback, and is not up again, is recorded,
\* whatever was interrupted or killed (cmd_stop --for-fallback, cmd_restore).
StopIsRecorded == taken # {} => marker # {}

FallbackSafety == FallbackTypeOK /\ OneListener /\ StopIsRecorded

Returns(s) == shell[s].at \notin Over /\ shell'[s].at \in {"ok", "failed"} /\ shell[s].alone

\* The unit itself would not start (aiswe_finetuned.sh:288-298, :320): the only
\* reason for which a script that restores it may leave it down.
Refused(s) == ShellAt(s, "launch")

\* A fallback that is started alone, took the service's place and fails gives it
\* back, unless the tunnel could not be closed: the unit is up, or refused to
\* start, and what it did answer for is answered for again or is still named by
\* the marker (restore_local_on_failure).  What it did is what was served when
\* the marker was written: one kept from a fallback before this one may name less
\* than was served when this one started.
FailedStartReturns ==
    \A s \in Shells :
        Returns(s) /\ shell[s].stopped /\ shell'[s].at = "failed" /\ tunnel' = NoNode
        => /\ unit' = "active" \/ Refused(s)
           /\ \/ unit' = "active" /\ shell[s].had \subseteq Servable'
              \/ marker' # {} /\ shell[s].had \subseteq UNION marker'

\* A stop_finetuned_tunnel.sh that runs alone either proves that everything the
\* marker owed is served again, or leaves it on the marker for the next one; and
\* it leaves the unit up, unless the tunnel does not close, the unit refuses to
\* start, the caller asked to keep it stopped, or it was neither enabled nor
\* stopped for the fallback (test_a_unit_that_will_not_start_keeps_the_record).
StopRecovers ==
    \A s \in Shells :
        Returns(s) /\ shell[s].cmd = "untunnel"
        => /\ \/ shell[s].had \subseteq UNION marker'
              \/ shell'[s].at = "ok" /\ unit' = "active" /\ shell[s].had \subseteq Servable'
           /\ ~shell[s].asked /\ tunnel' = NoNode /\ (Enabled \/ marker # {})
              => unit' = "active" \/ Refused(s)

\* After a failed start and after a stop alike, the VM's service is back or what
\* it owes is on record (start_finetuned_tunnel.sh, stop_finetuned_tunnel.sh).
ServiceComesBack == [][FailedStartReturns /\ StopRecovers]_fallbackVars

=============================================================================
