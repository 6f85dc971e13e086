----------------------------- MODULE DataPlane -----------------------------
(***************************************************************************)
(* The local data plane of the desktop shell (dataplane.rs, wsl.rs and the *)
(* start and exit paths of lib.rs): one bring_up thread that spawns the    *)
(* services in order, one supervise thread per service that restarts it    *)
(* when it dies, and the teardown that runs when the user quits.  The      *)
(* shell may also be killed outright at any moment and be started again.   *)
(*                                                                         *)
(* Services are numbered in boot order: on macOS and Linux 1 is postgres   *)
(* and 2 is risingwave; on Windows the single service 1 is the WSL distro. *)
(* Every service listens on a fixed port, so of two live processes of one  *)
(* service only one can serve.                                             *)
(***************************************************************************)
EXTENDS Integers, OsProcess

CONSTANTS
  NumSvc,       \* number of services
  MaxRestarts,  \* restarts per window before supervise gives up (3)
  MaxCrash,     \* bound: spontaneous exits of a process in a behaviour
  MaxRuns       \* bound: times the shell is started

Svc == 1..NumSvc

ASSUME NumSvcAssumption == NumSvc \in Nat \ {0}
ASSUME ServicesArePrograms == Program = Svc
ASSUME BoundsAssumption ==
  MaxRestarts \in Nat /\ MaxCrash \in Nat /\ MaxRuns \in Nat

VARIABLES
  app,            \* the shell's main thread
  shutting_down,  \* Shared.shutting_down
  slot,           \* Shared.pg_child, rw_child or wsl_child of each service
  boot,           \* the bring_up thread
  mon,            \* the supervise thread of each service
  reported,       \* services whose "dataplane-crashed" was emitted
  racing,         \* history: services in a spawn window when the exit began
  crashes, runs   \* how much of the bounds is used

threads == <<slot, boot, mon, reported>>
vars == <<proc, app, shutting_down, threads, racing, crashes, runs>>

(***************************************************************************)
(* State                                                                   *)
(***************************************************************************)

\* app.kill counts down the pkill patterns that are still to be sent.
AppState == [st : {"off", "startup", "up", "exiting"}, kill : 0..NumSvc]

BootState ==
  [pc : {"none", "ensure", "spawn", "health", "supervise", "schema",
         "ready", "failed"},
   svc : Svc]

\* "woke": wait() returned, the flag is not yet read; "respawn": the checks
\* passed, the new process is not yet spawned.
MonState ==
  [pc : {"none", "take", "wait", "woke", "respawn", "health", "done"},
   child : Pid \cup {NoPid},
   restarts : 0..(MaxRestarts + 1)]

TypeOK ==
  /\ ProcTypeOK
  /\ app \in AppState
  /\ shutting_down \in BOOLEAN
  /\ slot \in [Svc -> Pid \cup {NoPid}]
  /\ boot \in BootState
  /\ mon \in [Svc -> MonState]
  /\ reported \in SUBSET Svc
  /\ racing \in SUBSET Svc
  /\ crashes \in 0..MaxCrash
  /\ runs \in 0..MaxRuns

EmptySlots == [s \in Svc |-> NoPid]
NoBoot == [pc |-> "none", svc |-> 1]
NewMon(pc) == [pc |-> pc, child |-> NoPid, restarts |-> 0]
NoMonitors == [s \in Svc |-> NewMon("none")]

Init ==
  /\ ProcInit
  /\ app = [st |-> "off", kill |-> 0]
  /\ shutting_down = FALSE
  /\ slot = EmptySlots /\ boot = NoBoot /\ mon = NoMonitors
  /\ reported = {} /\ racing = {}
  /\ crashes = 0
  /\ runs = 0

(***************************************************************************)
(* The main thread: run() and shutdown_children()                          *)
(***************************************************************************)

\* Mutant: the pattern of the last service is missing from the start-up kill.
StartAppKillsTooFew ==
  /\ app.st = "off" /\ runs < MaxRuns
  /\ app' = [st |-> "startup", kill |-> NumSvc - 1]
  /\ runs' = runs + 1
  /\ UNCHANGED <<proc, shutting_down, threads, racing, crashes>>

\* The shell starts: run() first kills what an unclean exit left behind.
StartApp ==
  /\ app.st = "off" /\ runs < MaxRuns
  /\ app' = [st |-> "startup", kill |-> NumSvc]
  /\ runs' = runs + 1
  /\ UNCHANGED <<proc, shutting_down, threads, racing, crashes>>

\* One pkill of kill_stray_dataplane, in the order of its pattern list: the
\* last service of the boot order first.
kill_stray_dataplane ==
  /\ app.st \in {"startup", "exiting"} /\ app.kill > 0
  /\ Pkilled({app.kill})
  /\ app' = [app EXCEPT !.kill = @ - 1]
  /\ UNCHANGED <<shutting_down, threads, racing, crashes, runs>>

\* setup() starts the bring_up thread, then the event loop runs.
SetupApp ==
  /\ app.st = "startup" /\ app.kill = 0
  /\ app' = [app EXCEPT !.st = "up"]
  /\ boot' = [pc |-> "ensure", svc |-> 1]
  /\ UNCHANGED <<proc, shutting_down, slot, mon, reported, racing, crashes,
                 runs>>

BootActive == boot.pc \notin {"none", "ready", "failed"}

\* Services that a thread may still spawn although it never looks at
\* shutting_down again before it does.
SpawnWindow ==
  {s \in Svc : mon[s].pc = "respawn" \/ (BootActive /\ boot.svc <= s)}

\* RunEvent::Exit: shutdown_children sets the flag before any kill.
BeginExit ==
  /\ app.st = "up"
  /\ app' = [st |-> "exiting", kill |-> NumSvc]
  /\ shutting_down' = TRUE
  /\ racing' = SpawnWindow
  /\ UNCHANGED <<proc, threads, crashes, runs>>

\* The process of the shell ends and takes its threads with it.
AppGone ==
  /\ Orphaned
  /\ app' = [st |-> "off", kill |-> 0]
  /\ shutting_down' = FALSE
  /\ slot' = EmptySlots /\ boot' = NoBoot /\ mon' = NoMonitors
  /\ reported' = {} /\ racing' = {}
  /\ UNCHANGED <<crashes, runs>>

FinishExit == app.st = "exiting" /\ app.kill = 0 /\ AppGone

\* SIGKILL, force quit, a crash of the shell, a rebuild under `tauri dev`.
KillApp == app.st # "off" /\ AppGone

Main == StartApp \/ kill_stray_dataplane \/ SetupApp \/ FinishExit

(***************************************************************************)
(* The bring_up thread                                                     *)
(***************************************************************************)

BootGoto(pc) ==
  /\ boot' = [boot EXCEPT !.pc = pc]
  /\ UNCHANGED <<app, shutting_down, mon, reported, racing, crashes, runs>>

\* ensure_postgres, ensure_risingwave or ensure_distro.
ensure ==
  /\ boot.pc = "ensure"
  /\ \E pc \in {"spawn", "failed"} : BootGoto(pc)
  /\ UNCHANGED <<proc, slot>>

BootSpawn ==
  /\ boot.pc = "spawn"
  /\ \/ \E p \in Pid : /\ Spawned(p, boot.svc)
                       /\ slot' = [slot EXCEPT ![boot.svc] = p]
                       /\ BootGoto("health")
     \/ /\ BootGoto("failed")
        /\ UNCHANGED <<proc, slot>>

\* health_tcp is satisfied by whoever listens on the fixed port.
BootHealth ==
  /\ boot.pc = "health"
  /\ BootGoto(IF Serving(boot.svc) THEN "supervise" ELSE "failed")
  /\ UNCHANGED <<proc, slot>>

BootSupervise ==
  /\ boot.pc = "supervise"
  /\ boot' = [boot EXCEPT !.pc = "schema"]
  /\ mon' = [mon EXCEPT ![boot.svc] = NewMon("take")]
  /\ UNCHANGED <<proc, app, shutting_down, slot, reported, racing, crashes,
                 runs>>

\* bootstrap_control_db after postgres, apply_rw_schema after risingwave.
BootSchema ==
  /\ boot.pc = "schema"
  /\ \/ BootGoto("failed")
     \/ boot.svc = NumSvc /\ BootGoto("ready")
     \/ /\ boot.svc < NumSvc
        /\ boot' = [pc |-> "ensure", svc |-> boot.svc + 1]
        /\ UNCHANGED <<app, shutting_down, mon, reported, racing, crashes,
                       runs>>
  /\ UNCHANGED <<proc, slot>>

bring_up == ensure \/ BootSpawn \/ BootHealth \/ BootSupervise \/ BootSchema

(***************************************************************************)
(* The supervise thread of service s                                       *)
(***************************************************************************)

MonOnly(s, m) ==
  /\ mon' = [mon EXCEPT ![s] = m]
  /\ UNCHANGED <<app, shutting_down, boot, racing, crashes, runs>>

\* Mutant: the child is waited for without being taken out of its slot.
MonTakeKeepsSlot(s) ==
  /\ mon[s].pc = "take"
  /\ MonOnly(s, [mon[s] EXCEPT !.child = slot[s],
                 !.pc = IF slot[s] = NoPid THEN "done" ELSE "wait"])
  /\ UNCHANGED <<proc, slot, reported>>

MonTake(s) ==
  /\ mon[s].pc = "take"
  /\ MonOnly(s, [mon[s] EXCEPT !.child = slot[s],
                 !.pc = IF slot[s] = NoPid THEN "done" ELSE "wait"])
  /\ slot' = [slot EXCEPT ![s] = NoPid]
  /\ UNCHANGED <<proc, reported>>

MonWait(s) ==
  /\ mon[s].pc = "wait"
  /\ Reaped(mon[s].child)
  /\ MonOnly(s, [mon[s] EXCEPT !.pc = "woke", !.child = NoPid])
  /\ UNCHANGED <<slot, reported>>

\* Mutants: off by one; the teardown flag is not honoured.
should_respawn_once_more(down, n) == ~down /\ n <= MaxRestarts
should_respawn_always(down, n) == n < MaxRestarts

should_respawn(down, n) == ~down /\ n < MaxRestarts

\* shutting_down is read, the restart window is renewed if five minutes have
\* passed, the restart is counted; then should_respawn decides.
MonDecide(s) ==
  /\ mon[s].pc = "woke"
  /\ \E n \in {mon[s].restarts, 0} :
       LET again == should_respawn(shutting_down, n) IN
       /\ MonOnly(s, [pc |-> IF again THEN "respawn" ELSE "done",
                      child |-> NoPid, restarts |-> n + 1])
       /\ reported' = IF again \/ shutting_down THEN reported
                                                ELSE reported \cup {s}
  /\ UNCHANGED <<proc, slot>>

\* Mutant: the new child's handle is not stored.
MonRespawnDropsHandle(s) ==
  /\ mon[s].pc = "respawn"
  /\ \/ \E p \in Pid : /\ Spawned(p, s)
                       /\ MonOnly(s, [mon[s] EXCEPT !.pc = "health"])
                       /\ UNCHANGED <<slot, reported>>
     \/ /\ MonOnly(s, [mon[s] EXCEPT !.pc = "done"])
        /\ reported' = reported \cup {s}
        /\ UNCHANGED <<proc, slot>>

MonRespawn(s) ==
  /\ mon[s].pc = "respawn"
  /\ \/ \E p \in Pid : /\ Spawned(p, s)
                       /\ slot' = [slot EXCEPT ![s] = p]
                       /\ MonOnly(s, [mon[s] EXCEPT !.pc = "health"])
                       /\ UNCHANGED reported
     \/ /\ MonOnly(s, [mon[s] EXCEPT !.pc = "done"])
        /\ reported' = reported \cup {s}
        /\ UNCHANGED <<proc, slot>>

\* Mutant: the child is not waited for until the service answers.
MonHealthForever(s) ==
  /\ mon[s].pc = "health" /\ Serving(s)
  /\ MonOnly(s, [mon[s] EXCEPT !.pc = "take"])
  /\ UNCHANGED <<proc, slot, reported>>

\* health_tcp returns; supervise ignores the outcome.
MonHealth(s) ==
  /\ mon[s].pc = "health"
  /\ MonOnly(s, [mon[s] EXCEPT !.pc = "take"])
  /\ UNCHANGED <<proc, slot, reported>>

supervise(s) ==
  MonTake(s) \/ MonWait(s) \/ MonDecide(s) \/ MonRespawn(s) \/ MonHealth(s)

(***************************************************************************)
(* The services' own processes                                             *)
(***************************************************************************)

ShellUnchanged == UNCHANGED <<app, shutting_down, threads, racing, runs>>

PortBusy(p) ==
  \E q \in Pid \ {p} : proc[q].prog = proc[p].prog /\ proc[q].st = "serving"

Bind(p) == ~PortBusy(p) /\ Bound(p) /\ ShellUnchanged /\ UNCHANGED crashes

\* A process told to terminate exits, and so does one that finds its fixed
\* port (for postgres, its data directory) taken.
Stop(p) ==
  /\ proc[p].term \/ (proc[p].st = "starting" /\ PortBusy(p))
  /\ Exited(p) /\ ShellUnchanged /\ UNCHANGED crashes

Crash(p) ==
  /\ crashes < MaxCrash
  /\ crashes' = crashes + 1
  /\ Exited(p) /\ ShellUnchanged

(***************************************************************************)
(* Specification                                                           *)
(***************************************************************************)

Next ==
  \/ Main \/ BeginExit \/ KillApp
  \/ bring_up
  \/ \E s \in Svc : supervise(s)
  \/ \E p \in Pid : Bind(p) \/ Stop(p) \/ Crash(p)

Spec == Init /\ [][Next]_vars

\* Every thread of the shell keeps running, and a process binds its port or
\* obeys a signal eventually.  Neither quitting, nor being killed, nor a
\* crash has to happen.
Fairness ==
  /\ WF_vars(kill_stray_dataplane \/ SetupApp \/ FinishExit)
  /\ WF_vars(bring_up)
  /\ \A s \in Svc : WF_vars(supervise(s))
  /\ \A p \in Pid : WF_vars(Bind(p)) /\ WF_vars(Stop(p))

FairSpec == Spec /\ Fairness

(***************************************************************************)
(* Correctness                                                             *)
(***************************************************************************)

Children == {p \in Pid : proc[p].child /\ proc[p].st # "free"}

HeldBySlot(p) == slot[proc[p].prog] = p
HeldByMonitor(p) == mon[proc[p].prog].child = p

\* Every child of the running shell has exactly one owner that can reap it:
\* the slot of its service or the supervise thread of its service, and no
\* handle refers to anything else.  A handle that is dropped or taken twice
\* leaves a process nobody waits for (dataplane.rs: supervise).
OneOwner ==
  /\ \A p \in Children : HeldBySlot(p) # HeldByMonitor(p)
  /\ \A s \in Svc, h \in Pid :
       slot[s] = h \/ mon[s].child = h => h \in Children /\ proc[h].prog = s

\* Once the shell is up, every live process of the plane that an earlier run
\* left behind has been told to terminate, whichever way that run ended:
\* quit, kill, or a respawn that escaped the teardown (lib.rs: run).
StrayIsDying ==
  app.st \in {"up", "exiting"} =>
    \A p \in Pid : Alive(p) /\ ~proc[p].child => proc[p].term

\* A supervise thread ends without a "dataplane-crashed" event only in a
\* teardown: its other silent return, an empty slot, is never taken.
SilentOnlyInShutdown ==
  \A s \in Svc : mon[s].pc = "done" => s \in reported \/ shutting_down

\* What the teardown really guarantees: after the pkill of a service has been
\* sent, a child of it that was not told to terminate comes from a thread
\* that was already past its last look at shutting_down when the flag was
\* set (lib.rs: shutdown_children, dataplane.rs: supervise, bring_up).
SurvivorRaced ==
  app.st = "exiting" =>
    \A p \in Pid :
      /\ Alive(p) /\ ~proc[p].term /\ app.kill < proc[p].prog
      => proc[p].prog \in racing

\* A plane that is up and is left alone settles: once the shell stays up and
\* processes no longer crash, every supervised service serves or has been
\* reported as given up, even when an old instance held its port meanwhile.
Settled ==
  \A s \in Svc :
    mon[s].pc # "none" => mon[s].pc = "done" \/ Serving(s)

PlaneSettles == (<>[](app.st = "up")) => <>[]Settled

=============================================================================
