------------------------------- MODULE Launch -------------------------------
(***************************************************************************)
(* Launching Grafana (grafana.rs: launch, start_crash_monitor) and the     *)
(* compute sidecar it needs (compute.rs: start, start_crash_monitor).      *)
(*                                                                         *)
(* Every click on Launch or Relaunch runs its own launch task.  The view   *)
(* forgets a launch in progress when it is remounted, so tasks may         *)
(* overlap.  A task spawns a compute sidecar, prepares the instance, then  *)
(* bumps the launch generation, kills every older Grafana and spawns its   *)
(* own.  Each successful spawn is followed by a crash monitor thread.      *)
(* The tasks and the monitors share one child handle and one port per kind *)
(* of process (proxy.rs: Shared).                                          *)
(*                                                                         *)
(* The two kinds of process meet only in the order of the steps of a task, *)
(* so an instance may leave one of them out: starting the compute sidecar  *)
(* is then one of the preparations, which may fail, and a task without     *)
(* Grafana ends when it is prepared.                                       *)
(*                                                                         *)
(* A launch picks fresh ports, so the port of a process is named by its    *)
(* launch: program <<k, l>> is the process of kind k on the port of        *)
(* launch l.                                                               *)
(***************************************************************************)
EXTENDS Integers, OsProcess

CONSTANTS
  Kind,         \* the kinds of process modelled in full
  MaxLaunch,    \* bound: launches in one run of the shell
  MaxRestarts,  \* restarts per window before a monitor gives up (3)
  MaxCrash      \* bound: spontaneous exits of a process

LaunchId == 1..MaxLaunch
NoPort == 0

ASSUME Kinds == Kind # {} /\ Kind \subseteq {"compute", "grafana"}
ASSUME LaunchBounds ==
  MaxLaunch \in Nat /\ MaxRestarts \in Nat /\ MaxCrash \in Nat
ASSUME LaunchPrograms == Program = Kind \X LaunchId

VARIABLES
  app,         \* the shell's main thread
  slot,        \* Shared.child and Shared.compute_child
  port,        \* Shared.grafana_port and Shared.compute_port
  generation,  \* Shared.generation
  task,        \* the launch tasks
  mon,         \* the crash monitor of each program
  reported,    \* programs whose "...-crashed" event was emitted
  racing,      \* history: kinds whose threads got in each other's way
  crashes      \* how much of the bound is used

shared == <<slot, port, generation>>
vars == <<proc, app, shared, task, mon, reported, racing, crashes>>

(***************************************************************************)
(* State                                                                   *)
(***************************************************************************)

AppState == {"up", "kill_grafana", "kill_compute", "closing", "off"}

TaskState ==
  [pc : {"idle", "spawn", "slot", "port", "health", "monitor", "prepare",
         "bump", "kill", "ready", "failed"},
   kind : {"compute", "grafana"}, gen : 0..MaxLaunch, child : Pid \cup {NoPid}]

\* "woke": wait() returned; "checked": the generation was current; "respawn":
\* the restart is counted; "store": spawned, the handle is not yet shared.
MonState ==
  [pc : {"none", "take", "wait", "woke", "checked", "respawn", "store",
         "health", "done"},
   child : Pid \cup {NoPid}, restarts : 0..(MaxRestarts + 1)]

TypeOK ==
  /\ ProcTypeOK
  /\ app \in AppState
  /\ slot \in [Kind -> Pid \cup {NoPid}]
  /\ port \in [Kind -> LaunchId \cup {NoPort}]
  /\ generation \in 0..MaxLaunch
  /\ task \in [LaunchId -> TaskState]
  /\ mon \in [Program -> MonState]
  /\ reported \in SUBSET Program
  /\ racing \in SUBSET Kind
  /\ crashes \in 0..MaxCrash

NewMon(pc) == [pc |-> pc, child |-> NoPid, restarts |-> 0]

NoHandles == [k \in Kind |-> NoPid]
NoPorts == [k \in Kind |-> NoPort]
NoTasks ==
  [l \in LaunchId |->
     [pc |-> "idle", kind |-> "compute", gen |-> 0, child |-> NoPid]]
NoMonitors == [q \in Program |-> NewMon("none")]

Init ==
  /\ ProcInit
  /\ app = "up"
  /\ slot = NoHandles /\ port = NoPorts /\ generation = 0
  /\ task = NoTasks /\ mon = NoMonitors
  /\ reported = {} /\ racing = {}
  /\ crashes = 0

Grafanas == {q \in Program : q[1] = "grafana"}
Computes == {q \in Program : q[1] = "compute"}

(***************************************************************************)
(* A launch task                                                           *)
(***************************************************************************)

Prog(l) == <<task[l].kind, l>>

TaskOnly(l, t) ==
  /\ task' = [task EXCEPT ![l] = t]
  /\ UNCHANGED <<app, reported, crashes>>

Goto(l, pc) == TaskOnly(l, [task[l] EXCEPT !.pc = pc])

\* The user clicks Launch or Relaunch (LaunchView.tsx).
StartLaunch(l) ==
  /\ app = "up" /\ task[l].pc = "idle"
  /\ \A k \in 1..(l - 1) : task[k].pc # "idle"
  /\ Goto(l, IF "compute" \in Kind THEN "spawn" ELSE "prepare")
  /\ UNCHANGED <<proc, shared, mon, racing>>

SpawnChild(l) ==
  /\ task[l].pc = "spawn"
  /\ \/ \E p \in Pid :
          /\ Spawned(p, Prog(l))
          /\ TaskOnly(l, [task[l] EXCEPT !.pc = "slot", !.child = p])
     \/ Goto(l, "failed") /\ UNCHANGED proc
  /\ UNCHANGED <<shared, mon, racing>>

\* Nothing supersedes a compute sidecar.  Its threads get in each other's
\* way when one stores a handle while another has stored one that its own
\* monitor has not taken yet.
SlotInUse(q) ==
  \E l \in LaunchId \ {q[2]} :
    \/ mon[<<q[1], l>>].pc \in {"health", "take"}
    \/ task[l].kind = q[1] /\ task[l].pc \in {"port", "health", "monitor"}

Contended(q) ==
  racing' = IF q[1] = "compute" /\ SlotInUse(q) THEN racing \cup {"compute"}
                                                ELSE racing

\* A handle that is still in the slot is dropped: its process is neither
\* killed nor ever waited for.
StoreChild(l) ==
  /\ task[l].pc = "slot"
  /\ slot' = [slot EXCEPT ![task[l].kind] = task[l].child]
  /\ TaskOnly(l, [task[l] EXCEPT !.pc = "port", !.child = NoPid])
  /\ Contended(Prog(l))
  /\ UNCHANGED <<proc, port, generation, mon>>

StorePort(l) ==
  /\ task[l].pc = "port"
  /\ port' = [port EXCEPT ![task[l].kind] = l]
  /\ Goto(l, "health")
  /\ UNCHANGED <<proc, slot, generation, mon, racing>>

\* health_poll times out when nobody serves on the port; the launch then
\* fails and leaves handle and port behind, without a monitor.
Health(l) ==
  /\ task[l].pc = "health"
  /\ Goto(l, IF Serving(Prog(l)) THEN "monitor" ELSE "failed")
  /\ UNCHANGED <<proc, shared, mon, racing>>

StartMonitor(l) ==
  /\ task[l].pc = "monitor"
  /\ mon' = [mon EXCEPT ![Prog(l)] = NewMon("take")]
  /\ Goto(l, IF task[l].kind = "compute" THEN "prepare" ELSE "ready")
  /\ UNCHANGED <<proc, shared, racing>>

\* Runtime, overlay, provisioning, reconcile and grafana.ini; any may fail.
Prepare(l) ==
  /\ task[l].pc = "prepare"
  /\ \/ "grafana" \in Kind /\ TaskOnly(l, [task[l] EXCEPT !.pc = "bump",
                                                        !.kind = "grafana"])
     \/ "grafana" \notin Kind /\ Goto(l, "ready")
     \/ Goto(l, "failed")
  /\ UNCHANGED <<proc, shared, mon, racing>>

Bump(l) ==
  /\ task[l].pc = "bump"
  /\ generation' = generation + 1
  /\ TaskOnly(l, [task[l] EXCEPT !.pc = "kill", !.gen = generation + 1])
  /\ UNCHANGED <<proc, slot, port, mon, racing>>

\* Threads that may still touch the shared handle or port, or spawn, as if
\* they were current: a monitor past its check of the generation, a launch
\* between its own bump and its end.
Racers(l) ==
  {k \in LaunchId \ {l} :
     \/ mon[<<"grafana", k>>].pc \in {"checked", "respawn", "store",
                                      "health", "take"}
     \/ /\ task[k].kind = "grafana"
        /\ task[k].pc \in {"kill", "spawn", "slot", "port", "health",
                           "monitor"}}

\* Mutant: a relaunch does not kill the Grafana before it.
kill_stray_grafana_missing(l) ==
  /\ task[l].pc = "kill"
  /\ racing' = IF Racers(l) # {} \/ task[l].gen # generation
               THEN racing \cup {"grafana"} ELSE racing \ {"grafana"}
  /\ Goto(l, "spawn")
  /\ UNCHANGED <<proc, shared, mon>>

kill_stray_grafana(l) ==
  /\ task[l].pc = "kill"
  /\ Pkilled(Grafanas)
  /\ racing' = IF Racers(l) # {} \/ task[l].gen # generation
               THEN racing \cup {"grafana"} ELSE racing \ {"grafana"}
  /\ Goto(l, "spawn")
  /\ UNCHANGED <<shared, mon>>

launch(l) ==
  \/ SpawnChild(l) \/ StoreChild(l) \/ StorePort(l) \/ Health(l)
  \/ StartMonitor(l) \/ Prepare(l) \/ Bump(l) \/ kill_stray_grafana(l)

(***************************************************************************)
(* The crash monitor of program q                                          *)
(***************************************************************************)

MonOnly(q, m) ==
  /\ mon' = [mon EXCEPT ![q] = m]
  /\ UNCHANGED <<app, generation, task, crashes>>

MonTake(q) ==
  /\ mon[q].pc = "take"
  /\ MonOnly(q, [mon[q] EXCEPT !.child = slot[q[1]],
                 !.pc = IF slot[q[1]] = NoPid THEN "done" ELSE "wait"])
  /\ slot' = [slot EXCEPT ![q[1]] = NoPid]
  /\ UNCHANGED <<proc, port, reported, racing>>

MonWait(q) ==
  /\ mon[q].pc = "wait"
  /\ Reaped(mon[q].child)
  /\ MonOnly(q, [mon[q] EXCEPT !.pc = "woke", !.child = NoPid])
  /\ UNCHANGED <<slot, port, reported, racing>>

\* Mutant: no monitor looks at the generation.
superseded_never(q) == FALSE

superseded(q) == q[1] = "grafana" /\ generation # task[q[2]].gen

\* Only the monitor of Grafana looks at the generation; none looks at
\* shutting_down.
MonCheck(q) ==
  /\ mon[q].pc = "woke"
  /\ MonOnly(q, [mon[q] EXCEPT
                   !.pc = IF superseded(q) THEN "done" ELSE "checked"])
  /\ UNCHANGED <<proc, slot, port, reported, racing>>

\* Mutant: off by one.
MonDecideOnceMore(q) ==
  /\ mon[q].pc = "checked"
  /\ \E n \in {mon[q].restarts, 0} :
       \/ /\ n <= MaxRestarts
          /\ MonOnly(q, [mon[q] EXCEPT !.pc = "respawn", !.restarts = n + 1])
          /\ UNCHANGED <<port, reported>>
       \/ /\ n > MaxRestarts
          /\ MonOnly(q, [mon[q] EXCEPT !.pc = "done", !.restarts = n + 1])
          /\ port' = [port EXCEPT ![q[1]] = NoPort]
          /\ reported' = reported \cup {q}
  /\ UNCHANGED <<proc, slot, racing>>

MonDecide(q) ==
  /\ mon[q].pc = "checked"
  /\ \E n \in {mon[q].restarts, 0} :
       \/ /\ n < MaxRestarts
          /\ MonOnly(q, [mon[q] EXCEPT !.pc = "respawn", !.restarts = n + 1])
          /\ UNCHANGED <<port, reported>>
       \/ /\ n >= MaxRestarts
          /\ MonOnly(q, [mon[q] EXCEPT !.pc = "done", !.restarts = n + 1])
          /\ port' = [port EXCEPT ![q[1]] = NoPort]
          /\ reported' = reported \cup {q}
  /\ UNCHANGED <<proc, slot, racing>>

\* When the spawn fails the port stays published.
MonRespawn(q) ==
  /\ mon[q].pc = "respawn"
  /\ \/ \E p \in Pid :
          /\ Spawned(p, q)
          /\ MonOnly(q, [mon[q] EXCEPT !.pc = "store", !.child = p])
          /\ UNCHANGED reported
     \/ /\ MonOnly(q, [mon[q] EXCEPT !.pc = "done"])
        /\ reported' = reported \cup {q}
        /\ UNCHANGED proc
  /\ UNCHANGED <<slot, port, racing>>

\* Mutant: the new child's handle is dropped.
MonStoreDropsHandle(q) ==
  /\ mon[q].pc = "store"
  /\ MonOnly(q, [mon[q] EXCEPT !.pc = "health", !.child = NoPid])
  /\ Contended(q)
  /\ UNCHANGED <<proc, slot, port, reported>>

MonStore(q) ==
  /\ mon[q].pc = "store"
  /\ slot' = [slot EXCEPT ![q[1]] = mon[q].child]
  /\ MonOnly(q, [mon[q] EXCEPT !.pc = "health", !.child = NoPid])
  /\ Contended(q)
  /\ UNCHANGED <<proc, port, reported>>

\* Mutant: the child is not waited for until Grafana answers.
MonHealthForever(q) ==
  /\ mon[q].pc = "health" /\ Serving(q)
  /\ MonOnly(q, [mon[q] EXCEPT !.pc = "take"])
  /\ UNCHANGED <<proc, slot, port, reported, racing>>

\* health_poll returns; the monitor ignores the outcome.
MonHealth(q) ==
  /\ mon[q].pc = "health"
  /\ MonOnly(q, [mon[q] EXCEPT !.pc = "take"])
  /\ UNCHANGED <<proc, slot, port, reported, racing>>

crash_monitor(q) ==
  \/ MonTake(q) \/ MonWait(q) \/ MonCheck(q) \/ MonDecide(q)
  \/ MonRespawn(q) \/ MonStore(q) \/ MonHealth(q)

(***************************************************************************)
(* Quitting: shutdown_children, then the process of the shell ends         *)
(***************************************************************************)

NoThreadMoves == UNCHANGED <<shared, task, mon, reported, racing, crashes>>

BeginExit ==
  /\ app = "up" /\ app' = "kill_grafana"
  /\ UNCHANGED proc /\ NoThreadMoves

ExitKillGrafana ==
  /\ app = "kill_grafana" /\ app' = "kill_compute"
  /\ Pkilled(Grafanas) /\ NoThreadMoves

ExitKillCompute ==
  /\ app = "kill_compute" /\ app' = "closing"
  /\ Pkilled(Computes) /\ NoThreadMoves

\* The process of the shell ends and takes its threads with it.
FinishExit ==
  /\ app = "closing" /\ app' = "off"
  /\ Orphaned
  /\ slot' = NoHandles /\ port' = NoPorts /\ generation' = 0
  /\ task' = NoTasks /\ mon' = NoMonitors
  /\ reported' = {}
  /\ UNCHANGED <<racing, crashes>>

shutdown_children == BeginExit \/ ExitKillGrafana \/ ExitKillCompute

(***************************************************************************)
(* The processes                                                           *)
(***************************************************************************)

ProcOnly == UNCHANGED <<app, shared, task, mon, reported, racing>>

PortBusy(p) ==
  \E q \in Pid \ {p} : proc[q].prog = proc[p].prog /\ proc[q].st = "serving"

Bind(p) == ~PortBusy(p) /\ Bound(p) /\ ProcOnly /\ UNCHANGED crashes

\* A process obeys SIGTERM, or exits because its port is taken.
Stop(p) ==
  /\ proc[p].term \/ (proc[p].st = "starting" /\ PortBusy(p))
  /\ Exited(p) /\ ProcOnly /\ UNCHANGED crashes

Crash(p) ==
  /\ crashes < MaxCrash
  /\ crashes' = crashes + 1
  /\ Exited(p) /\ ProcOnly

(***************************************************************************)
(* Specification                                                           *)
(***************************************************************************)

Next ==
  \/ \E l \in LaunchId : StartLaunch(l) \/ launch(l)
  \/ \E q \in Program : crash_monitor(q)
  \/ shutdown_children \/ FinishExit
  \/ \E p \in Pid : Bind(p) \/ Stop(p) \/ Crash(p)

Spec == Init /\ [][Next]_vars

\* The behaviours in which the user waits for a launch to end before the next.
InFlight == {l \in LaunchId : task[l].pc \notin {"idle", "ready", "failed"}}

PatientSpec ==
  Init /\ [][Next /\ \A k, l \in InFlight' : k = l]_vars

\* Launch tasks and monitors keep running, processes bind or obey signals.
\* Nobody has to click Launch, quit, or crash.
Fairness ==
  /\ \A l \in LaunchId : WF_vars(launch(l))
  /\ \A q \in Program : WF_vars(crash_monitor(q))
  /\ \A p \in Pid : WF_vars(Bind(p)) /\ WF_vars(Stop(p))

FairSpec == Spec /\ Fairness

(***************************************************************************)
(* Correctness                                                             *)
(***************************************************************************)

Current(l) == task[l].gen = generation /\ task[l].gen > 0

\* Grafana processes that nobody told to stop.
Kept == {p \in Pid : Alive(p) /\ proc[p].prog \in Grafanas /\ ~proc[p].term}

\* A relaunch replaces the Grafana before it: unless a thread raced with the
\* last kill, there are never two Grafanas that nobody told to stop
\* (grafana.rs: launch, "without this each relaunch leaks an instance").
SingleGrafana ==
  "grafana" \notin racing => \A p, q \in Kept : p = q

\* q's monitor looks after a process of q, or has reported that it gave up.
Attended(q) ==
  CASE mon[q].pc = "wait" -> proc[mon[q].child].prog = q
    [] mon[q].pc = "take" -> slot[q[1]] # NoPid /\ proc[slot[q[1]]].prog = q
    [] mon[q].pc = "done" -> q \in reported
    [] OTHER -> mon[q].pc # "none"

\* Unless a thread raced with its kill, a launch that came up is looked after
\* by its own monitor, on a Grafana of its own; and unless two threads used
\* the shared handle at once, so is every compute sidecar that came up, also
\* the ones of older launches (start_crash_monitor in both files).
ReadyIsAttended ==
  \A l \in LaunchId :
    /\ "compute" \in Kind \ racing /\ mon[<<"compute", l>>].pc # "none"
       => Attended(<<"compute", l>>)
    /\ "grafana" \in Kind \ racing /\ Current(l) /\ task[l].pc = "ready"
       => Attended(<<"grafana", l>>)

\* Unless a thread raced with its kill, the proxy's upstream is the Grafana
\* of the current launch, or none once its monitor has reported a give-up: a
\* monitor of an older launch never takes the port away (proxy.rs:
\* proxy_grafana).
UpstreamIsCurrent ==
  "grafana" \in Kind \ racing =>
    \A l \in LaunchId :
      Current(l) /\ task[l].pc \in {"health", "monitor", "ready"}
      => \/ port["grafana"] = l
         \/ port["grafana"] = NoPort /\ <<"grafana", l>> \in reported

\* Every launch ends, and a launch that came up with no thread racing with
\* its kill and is left alone ends up serving or reported.
LaunchSettles ==
  /\ \A l \in LaunchId :
       (task[l].pc = "spawn") ~> (task[l].pc \in {"ready", "failed"} \/ app # "up")
  /\ <>[](app = "up") =>
       <>[](\A l \in LaunchId :
              Current(l) /\ task[l].pc = "ready" /\ "grafana" \notin racing
              => \/ Serving(<<"grafana", l>>)
                 \/ <<"grafana", l>> \in reported)

(***************************************************************************)
(* Claims of the source that the code does not keep                        *)
(***************************************************************************)

\* grafana.rs:591-592: "waits on the grafana child and restarts it on
\* unexpected exit, capped at 3 restarts".
GrafanaIsAttended ==
  \A l \in LaunchId :
    Current(l) /\ task[l].pc = "ready" => Attended(<<"grafana", l>>)
=============================================================================
