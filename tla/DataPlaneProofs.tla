-------------------------- MODULE DataPlaneProofs --------------------------
(***************************************************************************)
(* Proofs about the data plane: about DataPlane for any number of          *)
(* services, any restart cap, any set of process ids and any number of     *)
(* runs and crashes, and, in the second part, about Bootstrap for any      *)
(* number of kills and failed calls.                                       *)
(***************************************************************************)
EXTENDS DataPlane, Bootstrap, TLAPS

(***************************************************************************)
(* What each change of the process table preserves.                        *)
(***************************************************************************)

LEMMA InitProcType == ProcInit => ProcTypeOK
BY DEF ProcInit, ProcTypeOK, NoProcess, Process, ProcState

\* A spawn changes the one process id it takes.
LEMMA SpawnedProc ==
  ASSUME ProcTypeOK, NEW p \in Pid, NEW g \in Program, Spawned(p, g)
  PROVE  /\ ProcTypeOK'
         /\ proc[p].st = "free"
         /\ proc'[p].prog = g /\ proc'[p].st = "starting"
         /\ proc'[p].child /\ ~proc'[p].term
         /\ \A q \in Pid \ {p} : proc'[q] = proc[q]
BY DEF Spawned, ProcTypeOK, Process, ProcState

\* Reaping frees the process id of the zombie.
LEMMA ReapedProc ==
  ASSUME ProcTypeOK, NEW p \in Pid, Reaped(p)
  PROVE  /\ ProcTypeOK'
         /\ proc[p].st = "zombie"
         /\ proc'[p] = NoProcess
         /\ \A q \in Pid \ {p} : proc'[q] = proc[q]
BY DEF Reaped, NoProcess, ProcTypeOK, Process, ProcState

\* pkill marks the live processes of its programs and nothing else.
LEMMA PkilledProc ==
  ASSUME ProcTypeOK, NEW G, Pkilled(G)
  PROVE  /\ ProcTypeOK'
         /\ \A q \in Pid :
              /\ proc'[q].prog = proc[q].prog
              /\ proc'[q].st = proc[q].st
              /\ proc'[q].child = proc[q].child
              /\ proc'[q].term =
                   (proc[q].term \/ (Alive(q) /\ proc[q].prog \in G))
<1> USE DEF Pkilled, Alive
<1>1. ASSUME NEW q \in Pid, Alive(q) /\ proc[q].prog \in G
      PROVE  /\ proc'[q] \in Process
             /\ proc'[q].prog = proc[q].prog
             /\ proc'[q].st = proc[q].st
             /\ proc'[q].child = proc[q].child
             /\ proc'[q].term = TRUE
  BY <1>1 DEF ProcTypeOK, Process, ProcState
<1>2. ASSUME NEW q \in Pid, ~(Alive(q) /\ proc[q].prog \in G)
      PROVE  proc'[q] = proc[q] /\ proc'[q] \in Process
  BY <1>2 DEF ProcTypeOK
<1>3. ASSUME NEW q \in Pid PROVE proc[q].term \in BOOLEAN
  BY DEF ProcTypeOK, Process
<1>4. ProcTypeOK'
  BY <1>1, <1>2 DEF ProcTypeOK
<1>5. QED
  BY <1>1, <1>2, <1>3, <1>4

\* When the shell is gone its live children are orphans, the rest is freed.
LEMMA OrphanedProc ==
  ASSUME ProcTypeOK, Orphaned
  PROVE  /\ ProcTypeOK'
         /\ \A q \in Pid : ~proc'[q].child
         /\ \A q \in Pid : proc'[q].st # "free" =>
              /\ Alive(q) /\ Alive(q)'
              /\ proc'[q].prog = proc[q].prog
              /\ proc'[q].term = proc[q].term
<1>1. ASSUME NEW q \in Pid, Alive(q)
      PROVE  /\ proc'[q] \in Process
             /\ ~proc'[q].child
             /\ proc'[q].prog = proc[q].prog
             /\ proc'[q].st = proc[q].st
             /\ proc'[q].term = proc[q].term
  BY <1>1 DEF Orphaned, ProcTypeOK, Process, ProcState
<1>2. ASSUME NEW q \in Pid, ~Alive(q)
      PROVE  proc'[q] = NoProcess
  BY <1>2 DEF Orphaned
<1>3. NoProcess \in Process /\ ~NoProcess.child /\ NoProcess.st = "free"
  BY DEF NoProcess, Process, ProcState
<1>4. ProcTypeOK'
  BY <1>1, <1>2, <1>3 DEF ProcTypeOK, Orphaned
<1>5. QED
  BY <1>1, <1>2, <1>3, <1>4 DEF Alive

\* An exit turns a child into a zombie and frees the id of an orphan.
LEMMA ExitedProc ==
  ASSUME ProcTypeOK, NEW p \in Pid, Exited(p)
  PROVE  /\ ProcTypeOK'
         /\ Alive(p) /\ ~Alive(p)'
         /\ proc[p].child => /\ proc'[p].st = "zombie"
                             /\ proc'[p].prog = proc[p].prog
                             /\ proc'[p].child
         /\ ~proc[p].child => proc'[p] = NoProcess
         /\ \A q \in Pid \ {p} : proc'[q] = proc[q]
BY DEF Exited, Alive, NoProcess, ProcTypeOK, Process, ProcState

\* Binding the port changes nothing but the state of the process.
LEMMA BoundProc ==
  ASSUME ProcTypeOK, NEW p \in Pid, Bound(p)
  PROVE  /\ ProcTypeOK'
         /\ Alive(p) /\ Alive(p)'
         /\ proc'[p].st = "serving"
         /\ \A q \in Pid : /\ proc'[q].prog = proc[q].prog
                           /\ proc'[q].term = proc[q].term
                           /\ proc'[q].child = proc[q].child
         /\ \A q \in Pid \ {p} : proc'[q] = proc[q]
BY DEF Bound, Alive, ProcTypeOK, Process, ProcState

-----------------------------------------------------------------------------
(***************************************************************************)
(* The inductive invariant.  TypeOK alone is not inductive: that a restart *)
(* counter stays within its bound rests on supervise returning once the    *)
(* cap is reached.                                                         *)
(***************************************************************************)
TypeInv ==
  /\ TypeOK
  /\ \A s \in Svc : mon[s].pc # "done" => mon[s].restarts <= MaxRestarts

\* Where a supervise thread and the bring_up thread are tells which of them
\* holds a handle: a monitor holds its child exactly while it waits, a slot
\* is full exactly between a spawn and the take that follows it.
Shape ==
  /\ \A s \in Svc : mon[s].pc = "wait" <=> mon[s].child # NoPid
  /\ \A s \in Svc : mon[s].pc \in {"take", "health"} => slot[s] # NoPid
  /\ \A s \in Svc : slot[s] # NoPid =>
       \/ mon[s].pc \in {"take", "health"}
       \/ /\ mon[s].pc = "none" /\ s = boot.svc
          /\ boot.pc \in {"health", "supervise", "failed"}
  /\ boot.pc \in {"health", "supervise"} => slot[boot.svc] # NoPid
  /\ \A s \in Svc : mon[s].pc # "none" =>
       \/ s < boot.svc
       \/ s = boot.svc /\ boot.pc \in {"schema", "ready", "failed"}
  /\ boot.pc = "none" => boot.svc = 1
  /\ app.st \in {"off", "startup"} => boot.pc = "none"
  /\ \A p \in Pid : proc[p].st # "free" => proc[p].prog \in Svc

\* From start-up on, an orphan whose pattern has been sent is terminating.
Strays ==
  app.st # "off" =>
    \A p \in Pid :
      /\ Alive(p) /\ ~proc[p].child
      /\ app.st = "startup" => app.kill < proc[p].prog
      => proc[p].term

\* During the teardown only the services in racing can still be spawned.
Teardown ==
  app.st = "exiting" =>
    /\ shutting_down
    /\ SpawnWindow \subseteq racing
    /\ SurvivorRaced

IInv == TypeInv /\ Shape /\ OneOwner /\ Strays /\ SilentOnlyInShutdown
        /\ Teardown

-----------------------------------------------------------------------------
LEMMA SvcFacts ==
  /\ 1 \in Svc
  /\ Svc \subseteq 1..NumSvc
  /\ \A s \in Svc : s # NumSvc => s + 1 \in Svc
BY NumSvcAssumption DEF Svc

\* The initial state satisfies the invariant.
LEMMA InitIInv == Init => IInv
<1> SUFFICES ASSUME Init PROVE IInv
  OBVIOUS
<1> USE DEF Init
<1>1. TypeInv
  <2>1. ProcTypeOK
    BY InitProcType
  <2>2. app \in AppState /\ boot \in BootState
    BY SvcFacts, NumSvcAssumption DEF AppState, BootState, NoBoot
  <2>3. slot \in [Svc -> Pid \cup {NoPid}]
    BY DEF EmptySlots
  <2>4. /\ mon \in [Svc -> MonState]
        /\ \A s \in Svc : mon[s].restarts <= MaxRestarts
    BY BoundsAssumption DEF NoMonitors, NewMon, MonState
  <2>5. crashes \in 0..MaxCrash /\ runs \in 0..MaxRuns
    BY BoundsAssumption
  <2>6. QED
    BY <2>1, <2>2, <2>3, <2>4, <2>5 DEF TypeInv, TypeOK
<1>2. Shape
  BY SvcFacts DEF Shape, ProcInit, NoProcess, EmptySlots, NoBoot, NoMonitors,
                  NewMon
<1>3. OneOwner
  BY OsAssumption DEF OneOwner, Children, ProcInit, NoProcess, EmptySlots,
                      NoMonitors, NewMon
<1>4. Strays /\ SilentOnlyInShutdown /\ Teardown
  BY DEF Strays, SilentOnlyInShutdown, Teardown, NoMonitors, NewMon
<1>5. QED
  BY <1>1, <1>2, <1>3, <1>4 DEF IInv

\* The end of the shell resets all of its state.
LEMMA AppGoneTypeInv == TypeInv /\ AppGone => TypeInv'
<1> SUFFICES ASSUME TypeInv, AppGone PROVE TypeInv'
  OBVIOUS
<1> USE DEF TypeInv, TypeOK, AppGone
<1>1. ProcTypeOK'
  BY OrphanedProc
<1>2. app' \in AppState /\ boot' \in BootState
  BY SvcFacts, NumSvcAssumption DEF AppState, BootState, NoBoot
<1>3. slot' \in [Svc -> Pid \cup {NoPid}]
  BY DEF EmptySlots
<1>4. /\ mon' \in [Svc -> MonState]
      /\ \A s \in Svc : mon'[s].restarts <= MaxRestarts
  BY BoundsAssumption DEF NoMonitors, NewMon, MonState
<1>5. QED
  BY <1>1, <1>2, <1>3, <1>4

\* A well-typed update of one supervise thread keeps all of them well typed.
LEMMA MonUpdate ==
  ASSUME TypeInv, NEW s \in Svc, NEW m \in MonState,
         m.pc # "done" => m.restarts <= MaxRestarts,
         mon' = [mon EXCEPT ![s] = m]
  PROVE  /\ mon' \in [Svc -> MonState]
         /\ \A t \in Svc : mon'[t].pc # "done" =>
                             mon'[t].restarts <= MaxRestarts
BY DEF TypeInv, TypeOK

\* Every step keeps the types.
LEMMA NextTypeInv == TypeInv /\ Shape /\ [Next]_vars => TypeInv'
<1> SUFFICES ASSUME TypeInv, Shape, [Next]_vars PROVE TypeInv'
  OBVIOUS
<1> USE DEF TypeInv, TypeOK
<1>1. CASE UNCHANGED vars
  BY <1>1 DEF vars, threads, ProcTypeOK
<1>2. CASE Main
  <2>1. CASE StartApp
    <3>1. app' \in AppState /\ runs' \in 0..MaxRuns
      BY <2>1, NumSvcAssumption, BoundsAssumption DEF StartApp, AppState
    <3>2. QED
      BY <2>1, <3>1 DEF StartApp, threads, ProcTypeOK
  <2>2. CASE kill_stray_dataplane
    <3>1. ProcTypeOK'
      BY <2>2, PkilledProc DEF kill_stray_dataplane
    <3>2. app' \in AppState
      BY <2>2, NumSvcAssumption DEF kill_stray_dataplane, AppState
    <3>3. QED
      BY <2>2, <3>1, <3>2 DEF kill_stray_dataplane, threads
  <2>3. CASE SetupApp
    <3>1. app' \in AppState /\ boot' \in BootState
      BY <2>3, SvcFacts DEF SetupApp, AppState, BootState
    <3>2. QED
      BY <2>3, <3>1 DEF SetupApp, ProcTypeOK
  <2>4. CASE FinishExit
    BY <2>4, AppGoneTypeInv DEF FinishExit
  <2>5. QED
    BY <1>2, <2>1, <2>2, <2>3, <2>4 DEF Main
<1>3. CASE BeginExit
  <2>1. app' \in AppState /\ racing' \in SUBSET Svc
    BY <1>3, NumSvcAssumption DEF BeginExit, AppState, SpawnWindow
  <2>2. QED
    BY <1>3, <2>1 DEF BeginExit, threads, ProcTypeOK
<1>4. CASE KillApp
  BY <1>4, AppGoneTypeInv DEF KillApp
<1>5. CASE bring_up
  <2>1. CASE ensure
    <3>1. boot' \in BootState
      BY <2>1 DEF ensure, BootGoto, BootState
    <3>2. QED
      BY <2>1, <3>1 DEF ensure, BootGoto, ProcTypeOK
  <2>2. CASE BootSpawn
    <3>1. boot' \in BootState
      BY <2>2 DEF BootSpawn, BootGoto, BootState
    <3>2. boot.svc \in Svc
      BY DEF BootState
    <3>3. ProcTypeOK' /\ slot' \in [Svc -> Pid \cup {NoPid}]
      BY <2>2, <3>2, ServicesArePrograms, SpawnedProc DEF BootSpawn, ProcTypeOK
    <3>4. QED
      BY <2>2, <3>1, <3>3 DEF BootSpawn, BootGoto
  <2>3. CASE BootHealth
    <3>1. boot' \in BootState
      BY <2>3 DEF BootHealth, BootGoto, BootState
    <3>2. QED
      BY <2>3, <3>1 DEF BootHealth, BootGoto, ProcTypeOK
  <2>4. CASE BootSupervise
    <3>1. boot' \in BootState
      BY <2>4 DEF BootSupervise, BootState
    <3>2. /\ mon' \in [Svc -> MonState]
          /\ \A s \in Svc :
               mon'[s].pc # "done" => mon'[s].restarts <= MaxRestarts
      <4>1. NewMon("take") \in MonState /\ NewMon("take").restarts = 0
        BY BoundsAssumption DEF NewMon, MonState
      <4>2. boot.svc \in Svc
        BY DEF BootState
      <4>3. QED
        BY <2>4, <4>1, <4>2, MonUpdate, BoundsAssumption DEF BootSupervise
    <3>3. QED
      BY <2>4, <3>1, <3>2 DEF BootSupervise, ProcTypeOK
  <2>5. CASE BootSchema
    <3>1. boot' \in BootState
      BY <2>5, NumSvcAssumption DEF BootSchema, BootGoto, BootState, Svc
    <3>2. QED
      BY <2>5, <3>1 DEF BootSchema, BootGoto, ProcTypeOK
  <2>6. QED
    BY <1>5, <2>1, <2>2, <2>3, <2>4, <2>5 DEF bring_up
<1>6. ASSUME NEW s \in Svc, supervise(s) PROVE TypeInv'
  <2> DEFINE MonOK == /\ mon' \in [Svc -> MonState]
                      /\ \A t \in Svc : mon'[t].pc # "done" =>
                                          mon'[t].restarts <= MaxRestarts
  <2>1. CASE MonTake(s)
    <3>1. MonOK
      BY <2>1 DEF MonTake, MonOnly, MonState
    <3>2. slot' \in [Svc -> Pid \cup {NoPid}]
      BY <2>1 DEF MonTake
    <3>3. QED
      BY <2>1, <3>1, <3>2 DEF MonTake, MonOnly, ProcTypeOK
  <2>2. CASE MonWait(s)
    <3>1. mon[s].child \in Pid
      BY <2>2 DEF MonWait, Shape, MonState
    <3>2. ProcTypeOK'
      BY <2>2, <3>1, ReapedProc DEF MonWait
    <3>3. MonOK
      BY <2>2 DEF MonWait, MonOnly, MonState
    <3>4. QED
      BY <2>2, <3>2, <3>3 DEF MonWait, MonOnly
  <2>3. CASE MonDecide(s)
    <3>1. MonOK
      <4>1. PICK n \in {mon[s].restarts, 0} :
              mon' = [mon EXCEPT ![s] =
                [pc |-> IF should_respawn(shutting_down, n) THEN "respawn"
                                                            ELSE "done",
                 child |-> NoPid, restarts |-> n + 1]]
        BY <2>3 DEF MonDecide, MonOnly
      <4>2. n \in Nat /\ n <= MaxRestarts
        BY <2>3, BoundsAssumption DEF MonDecide, MonState
      <4>3. CASE should_respawn(shutting_down, n)
        <5> DEFINE m == [pc |-> "respawn", child |-> NoPid,
                         restarts |-> n + 1]
        <5>1. m \in MonState /\ m.restarts <= MaxRestarts
          BY <4>2, <4>3, BoundsAssumption DEF MonState, should_respawn
        <5>2. QED
          BY <4>1, <4>3, <5>1, MonUpdate
      <4>4. CASE ~should_respawn(shutting_down, n)
        <5> DEFINE m == [pc |-> "done", child |-> NoPid, restarts |-> n + 1]
        <5>1. m \in MonState /\ m.pc = "done"
          BY <4>2, BoundsAssumption DEF MonState
        <5>2. QED
          BY <4>1, <4>4, <5>1, MonUpdate
      <4>5. QED
        BY <4>3, <4>4
    <3>2. reported' \in SUBSET Svc
      BY <2>3 DEF MonDecide
    <3>3. QED
      BY <2>3, <3>1, <3>2 DEF MonDecide, MonOnly, ProcTypeOK
  <2>4. CASE MonRespawn(s)
    <3>1. MonOK
      BY <2>4 DEF MonRespawn, MonOnly, MonState
    <3>2. ProcTypeOK' /\ slot' \in [Svc -> Pid \cup {NoPid}]
      BY <2>4, ServicesArePrograms, SpawnedProc DEF MonRespawn, ProcTypeOK
    <3>3. reported' \in SUBSET Svc
      BY <2>4 DEF MonRespawn
    <3>4. QED
      BY <2>4, <3>1, <3>2, <3>3 DEF MonRespawn, MonOnly
  <2>5. CASE MonHealth(s)
    <3>1. MonOK
      BY <2>5 DEF MonHealth, MonOnly, MonState
    <3>2. QED
      BY <2>5, <3>1 DEF MonHealth, MonOnly, ProcTypeOK
  <2>6. QED
    BY <1>6, <2>1, <2>2, <2>3, <2>4, <2>5 DEF supervise
<1>7. ASSUME NEW p \in Pid, Bind(p) \/ Stop(p) \/ Crash(p) PROVE TypeInv'
  <2>1. ProcTypeOK'
    BY <1>7, BoundProc, ExitedProc DEF Bind, Stop, Crash
  <2>2. crashes' \in 0..MaxCrash
    BY <1>7, BoundsAssumption DEF Bind, Stop, Crash
  <2>3. QED
    BY <1>7, <2>1, <2>2 DEF Bind, Stop, Crash, ShellUnchanged, threads
<1>8. QED
  BY <1>1, <1>2, <1>3, <1>4, <1>5, <1>6, <1>7 DEF Next

-----------------------------------------------------------------------------

\* What the shape needs of the types.
LEMMA MonTypes ==
  ASSUME TypeInv
  PROVE  /\ mon \in [Svc -> MonState] /\ slot \in [Svc -> Pid \cup {NoPid}]
         /\ boot.svc \in Svc
         /\ boot = [pc |-> boot.pc, svc |-> boot.svc]
         /\ app = [st |-> app.st, kill |-> app.kill]
         /\ \A s \in Svc : s \in Int
BY NumSvcAssumption DEF TypeInv, TypeOK, BootState, AppState, Svc

ProgInv == \A p \in Pid : proc[p].st # "free" => proc[p].prog \in Svc

LEMMA SpawnedProg ==
  ASSUME ProcTypeOK, ProgInv, NEW p \in Pid, NEW s \in Svc, Spawned(p, s)
  PROVE  ProgInv'
<1>1. s \in Program
  BY ServicesArePrograms
<1>2. proc'[p].prog = s /\ \A q \in Pid \ {p} : proc'[q] = proc[q]
  BY <1>1, SpawnedProc
<1>3. QED
  BY <1>2 DEF ProgInv

\* The end of the shell leaves no thread behind.
LEMMA AppGoneShape == TypeInv /\ Shape /\ AppGone => Shape'
<1> SUFFICES ASSUME TypeInv, Shape, AppGone PROVE Shape'
  OBVIOUS
<1>1. \A p \in Pid : proc'[p].st # "free" => proc'[p].prog \in Svc
  BY OrphanedProc DEF AppGone, TypeInv, TypeOK, Shape, Alive
<1>2. QED
  BY <1>1, SvcFacts
     DEF AppGone, Shape, EmptySlots, NoBoot, NoMonitors, NewMon

\* Every step keeps the shape.
LEMMA NextShape == TypeInv /\ Shape /\ [Next]_vars => Shape'
<1> SUFFICES ASSUME TypeInv, Shape, [Next]_vars PROVE Shape'
  OBVIOUS
<1> USE MonTypes, SvcFacts, OsAssumption
<1>0. ProcTypeOK
  BY DEF TypeInv, TypeOK
<1>1. CASE UNCHANGED vars
  BY <1>1 DEF vars, threads, Shape
<1>2. CASE Main
  <2>1. CASE StartApp
    BY <2>1 DEF StartApp, threads, Shape
  <2>2. CASE kill_stray_dataplane
    BY <2>2, <1>0, PkilledProc DEF kill_stray_dataplane, threads, Shape
  <2>3. CASE SetupApp
    BY <2>3 DEF SetupApp, Shape
  <2>4. CASE FinishExit
    BY <2>4, AppGoneShape DEF FinishExit
  <2>5. QED
    BY <1>2, <2>1, <2>2, <2>3, <2>4 DEF Main
<1>3. CASE BeginExit
  BY <1>3 DEF BeginExit, threads, Shape
<1>4. CASE KillApp
  BY <1>4, AppGoneShape DEF KillApp
<1>5. CASE bring_up
  <2>1. CASE ensure
    BY <2>1 DEF ensure, BootGoto, Shape
  <2>2. CASE BootSpawn
    <3>1. ProgInv'
      <4>1. ProgInv
        BY DEF Shape, ProgInv
      <4>2. CASE UNCHANGED proc
        BY <4>1, <4>2 DEF ProgInv
      <4>3. CASE \E p \in Pid : Spawned(p, boot.svc)
        BY <4>1, <4>3, <1>0, SpawnedProg
      <4>4. QED
        BY <2>2, <4>2, <4>3 DEF BootSpawn
    <3>2. CASE boot'.pc = "health"
      <4>1. PICK p \in Pid : slot' = [slot EXCEPT ![boot.svc] = p]
        BY <2>2, <3>2 DEF BootSpawn, BootGoto
      <4>2. /\ boot.pc = "spawn" /\ boot' = [boot EXCEPT !.pc = "health"]
            /\ UNCHANGED <<app, mon>>
        BY <2>2, <3>2 DEF BootSpawn, BootGoto
      <4>3. QED
        BY <3>1, <4>1, <4>2 DEF Shape, ProgInv
    <3>3. CASE boot'.pc # "health"
      <4>1. /\ boot.pc = "spawn" /\ boot' = [boot EXCEPT !.pc = "failed"]
            /\ UNCHANGED <<app, mon, slot>>
        BY <2>2, <3>3 DEF BootSpawn, BootGoto
      <4>2. QED
        BY <3>1, <4>1 DEF Shape, ProgInv
    <3>4. QED
      BY <3>2, <3>3
  <2>3. CASE BootHealth
    BY <2>3 DEF BootHealth, BootGoto, Shape
  <2>4. CASE BootSupervise
    BY <2>4 DEF BootSupervise, NewMon, Shape
  <2>5. CASE BootSchema
    BY <2>5 DEF BootSchema, BootGoto, Shape
  <2>6. QED
    BY <1>5, <2>1, <2>2, <2>3, <2>4, <2>5 DEF bring_up
<1>6. ASSUME NEW s \in Svc, supervise(s) PROVE Shape'
  <2>1. CASE MonTake(s)
    BY <2>1 DEF MonTake, MonOnly, Shape
  <2>2. CASE MonWait(s)
    <3>1. \A p \in Pid : proc'[p].st # "free" => proc'[p].prog \in Svc
      BY <2>2, <1>0, ReapedProc DEF MonWait, Shape, MonState, NoProcess
    <3>2. QED
      BY <2>2, <3>1 DEF MonWait, MonOnly, Shape
  <2>3. CASE MonDecide(s)
    BY <2>3 DEF MonDecide, MonOnly, Shape
  <2>4. CASE MonRespawn(s)
    <3>1. CASE \E p \in Pid : /\ Spawned(p, s)
                              /\ slot' = [slot EXCEPT ![s] = p]
                              /\ MonOnly(s, [mon[s] EXCEPT !.pc = "health"])
      <4>1. PICK p \in Pid : Spawned(p, s) /\ slot' = [slot EXCEPT ![s] = p]
        BY <3>1
      <4>2. ProgInv'
        BY <4>1, <1>0, SpawnedProg DEF Shape, ProgInv
      <4>3. /\ mon[s].pc = "respawn" /\ UNCHANGED <<app, boot>>
            /\ mon' = [mon EXCEPT ![s] = [mon[s] EXCEPT !.pc = "health"]]
        BY <2>4, <3>1 DEF MonRespawn, MonOnly
      <4>4. QED
        <5>1. /\ mon'[s].pc = "health" /\ mon'[s].child = mon[s].child
              /\ slot'[s] = p /\ slot'[s] # NoPid
              /\ \A t \in Svc \ {s} : mon'[t] = mon[t] /\ slot'[t] = slot[t]
          BY <4>1, <4>3 DEF MonState
        <5>2. boot'.pc = boot.pc /\ boot'.svc = boot.svc /\ app'.st = app.st
          BY <4>3
        <5>3. boot.pc \in {"health", "supervise"} => boot.svc # s
          BY <4>3 DEF Shape
        <5>4. QED
          BY <4>2, <4>3, <5>1, <5>2, <5>3 DEF Shape, ProgInv
    <3>2. CASE MonOnly(s, [mon[s] EXCEPT !.pc = "done"])
                 /\ UNCHANGED <<proc, slot>>
      BY <2>4, <3>2 DEF MonRespawn, MonOnly, Shape, MonState
    <3>3. QED
      BY <2>4, <3>1, <3>2 DEF MonRespawn
  <2>5. CASE MonHealth(s)
    BY <2>5 DEF MonHealth, MonOnly, Shape
  <2>6. QED
    BY <1>6, <2>1, <2>2, <2>3, <2>4, <2>5 DEF supervise
<1>7. ASSUME NEW p \in Pid, Bind(p) \/ Stop(p) \/ Crash(p) PROVE Shape'
  <2>1. \A q \in Pid : proc'[q].st # "free" => proc'[q].prog \in Svc
    BY <1>7, <1>0, BoundProc, ExitedProc
       DEF Bind, Stop, Crash, Shape, NoProcess, Alive
  <2>2. QED
    BY <1>7, <2>1 DEF Bind, Stop, Crash, ShellUnchanged, threads, Shape
<1>8. QED
  BY <1>1, <1>2, <1>3, <1>4, <1>5, <1>6, <1>7 DEF Next

-----------------------------------------------------------------------------

\* OneOwner depends on the process table only through who is a child.
LEMMA OwnerFrame ==
  ASSUME OneOwner,
         \A t \in Svc : slot'[t] = slot[t] /\ mon'[t].child = mon[t].child,
         \A q \in Pid : /\ q \in Children' <=> q \in Children
                        /\ q \in Children => proc'[q].prog = proc[q].prog,
         ProgInv
  PROVE  OneOwner'
BY DEF OneOwner, HeldBySlot, HeldByMonitor, Children, ProgInv

\* A spawn into an empty slot gives the new child its one owner.
LEMMA OwnerSpawn ==
  ASSUME TypeInv, ProgInv, OneOwner, NEW s \in Svc, NEW p \in Pid,
         Spawned(p, s), slot[s] = NoPid, mon[s].child = NoPid,
         slot' = [slot EXCEPT ![s] = p],
         \A t \in Svc : mon'[t].child = mon[t].child
  PROVE  OneOwner'
<1> USE OsAssumption
<1>1. /\ proc[p].st = "free" /\ proc'[p].prog = s /\ proc'[p].child
      /\ proc'[p].st = "starting" /\ \A q \in Pid \ {p} : proc'[q] = proc[q]
  BY SpawnedProc, ServicesArePrograms DEF TypeInv, TypeOK
<1>2. /\ p \notin Children /\ p \in Children'
      /\ \A q \in Pid \ {p} : q \in Children' <=> q \in Children
  BY <1>1 DEF Children
<1>3. slot'[s] = p /\ \A t \in Svc \ {s} : slot'[t] = slot[t]
  BY DEF TypeInv, TypeOK
<1>4. \A q \in Children : proc[q].prog # s
  BY DEF OneOwner, HeldBySlot, HeldByMonitor, Children
<1>5. ASSUME NEW q \in Children' PROVE (HeldBySlot(q) # HeldByMonitor(q))'
  <2>1. CASE q = p
    BY <1>1, <1>3, <2>1 DEF HeldBySlot, HeldByMonitor
  <2>2. CASE q # p
    <3>1. q \in Pid /\ q \in Children /\ proc'[q] = proc[q]
      BY <1>1, <1>2, <2>2 DEF Children
    <3>2. proc[q].prog \in Svc \ {s}
      BY <1>4, <3>1 DEF ProgInv, Children
    <3>3. QED
      BY <1>3, <3>1, <3>2 DEF OneOwner, HeldBySlot, HeldByMonitor
  <2>3. QED
    BY <2>1, <2>2
<1>6. ASSUME NEW t \in Svc, NEW h \in Pid, slot'[t] = h \/ mon'[t].child = h
      PROVE  h \in Children' /\ proc'[h].prog = t
  <2>1. CASE slot[t] = h \/ mon[t].child = h
    BY <1>1, <1>2, <2>1 DEF OneOwner
  <2>2. CASE ~(slot[t] = h \/ mon[t].child = h)
    BY <1>1, <1>2, <1>3, <1>6, <2>2
  <2>3. QED
    BY <2>1, <2>2
<1>7. QED
  BY <1>5, <1>6 DEF OneOwner

\* Every step keeps the owners.
LEMMA NextOneOwner ==
  TypeInv /\ Shape /\ OneOwner /\ [Next]_vars => OneOwner'
<1> SUFFICES ASSUME TypeInv, Shape, OneOwner, [Next]_vars PROVE OneOwner'
  OBVIOUS
<1> USE OsAssumption
<1>a. ProcTypeOK /\ ProgInv
  BY DEF TypeInv, TypeOK, Shape, ProgInv
<1>1. CASE UNCHANGED <<proc, slot, mon>>
  BY <1>a, <1>1, OwnerFrame DEF Children
<1>2. ASSUME AppGone PROVE OneOwner'
  <2>1. Children' = {}
    BY <1>2, <1>a, OrphanedProc DEF AppGone, Children
  <2>2. \A s \in Svc : slot'[s] = NoPid /\ mon'[s].child = NoPid
    BY <1>2 DEF AppGone, EmptySlots, NoMonitors, NewMon
  <2>3. QED
    BY <2>1, <2>2 DEF OneOwner
<1>3. CASE kill_stray_dataplane
  BY <1>3, <1>a, PkilledProc, OwnerFrame
     DEF kill_stray_dataplane, threads, Children
<1>4. CASE BootSpawn
  <2>1. CASE UNCHANGED <<proc, slot>>
    BY <1>1, <1>4, <2>1 DEF BootSpawn, BootGoto
  <2>2. CASE \E p \in Pid : /\ Spawned(p, boot.svc)
                            /\ slot' = [slot EXCEPT ![boot.svc] = p]
    <3>1. boot.svc \in Svc /\ boot.pc = "spawn" /\ mon' = mon
      BY <1>4, MonTypes DEF BootSpawn, BootGoto
    <3>2. mon[boot.svc].pc = "none"
      BY <3>1, MonTypes DEF Shape
    <3>3. slot[boot.svc] = NoPid /\ mon[boot.svc].child = NoPid
      BY <3>1, <3>2 DEF Shape
    <3>4. QED
      BY <1>a, <2>2, <3>1, <3>3, OwnerSpawn
  <2>3. QED
    BY <1>4, <2>1, <2>2 DEF BootSpawn
<1>5. CASE BootSupervise
  <2>1. boot.svc \in Svc /\ boot.pc = "supervise"
    BY <1>5, MonTypes DEF BootSupervise
  <2>2. mon[boot.svc].pc = "none"
    BY <2>1, MonTypes DEF Shape
  <2>3. mon[boot.svc].child = NoPid
    BY <2>1, <2>2 DEF Shape
  <2>4. \A t \in Svc : mon'[t].child = mon[t].child
    BY <1>5, <2>1, <2>3, MonTypes DEF BootSupervise, NewMon
  <2>5. QED
    BY <1>5, <1>a, <2>4, OwnerFrame DEF BootSupervise, Children
<1>6. ASSUME NEW s \in Svc, supervise(s) PROVE OneOwner'
  <2>1. CASE MonTake(s)
    <3>1. mon[s].child = NoPid /\ slot[s] # NoPid
      BY <2>1 DEF MonTake, Shape
    <3>2. /\ mon'[s].child = slot[s] /\ slot'[s] = NoPid
          /\ \A t \in Svc \ {s} : mon'[t] = mon[t] /\ slot'[t] = slot[t]
          /\ proc' = proc
      BY <2>1, MonTypes DEF MonTake, MonOnly, MonState
    <3>3. QED
      BY <1>a, <3>1, <3>2
         DEF OneOwner, HeldBySlot, HeldByMonitor, Children, ProgInv
  <2>2. CASE MonWait(s)
    <3> DEFINE c == mon[s].child
    <3>1. c \in Pid /\ c # NoPid
      BY <2>2, MonTypes DEF MonWait, Shape, MonState
    <3>2. /\ proc[c].st = "zombie" /\ proc'[c] = NoProcess
          /\ \A q \in Pid \ {c} : proc'[q] = proc[q]
      BY <1>a, <2>2, <3>1, ReapedProc DEF MonWait
    <3>3. /\ mon'[s].child = NoPid /\ slot' = slot
          /\ \A t \in Svc \ {s} : mon'[t] = mon[t]
      BY <2>2, MonTypes DEF MonWait, MonOnly, MonState
    <3>4. /\ c \notin Children'
          /\ \A q \in Pid \ {c} : q \in Children' <=> q \in Children
      BY <3>2 DEF Children, NoProcess
    <3>5. c \in Children /\ proc[c].prog = s /\ slot[s] # c
      BY <3>1 DEF OneOwner, HeldBySlot, HeldByMonitor
    <3>6. \A t \in Svc : slot[t] # c /\ (t # s => mon[t].child # c)
      BY <3>1, <3>5 DEF OneOwner
    <3> HIDE DEF c
    <3>7. ASSUME NEW q \in Children' PROVE (HeldBySlot(q) # HeldByMonitor(q))'
      <4>1. q \in Pid \ {c} /\ q \in Children /\ proc'[q] = proc[q]
        BY <3>2, <3>4 DEF Children
      <4>2. proc[q].prog \in Svc
        BY <1>a, <4>1 DEF ProgInv, Children
      <4>3. CASE proc[q].prog = s
        BY <3>3, <4>1, <4>3 DEF OneOwner, HeldBySlot, HeldByMonitor, c
      <4>4. CASE proc[q].prog # s
        BY <3>3, <4>1, <4>2, <4>4 DEF OneOwner, HeldBySlot, HeldByMonitor
      <4>5. QED
        BY <4>3, <4>4
    <3>8. ASSUME NEW t \in Svc, NEW h \in Pid,
                 slot'[t] = h \/ mon'[t].child = h
          PROVE  h \in Children' /\ proc'[h].prog = t
      <4>1. slot[t] = h \/ (t # s /\ mon[t].child = h)
        BY <3>3, <3>8
      <4>2. h # c
        BY <3>6, <4>1
      <4>3. QED
        BY <3>2, <3>4, <4>1, <4>2 DEF OneOwner
    <3>9. QED
      BY <3>7, <3>8 DEF OneOwner
  <2>3. CASE MonDecide(s)
    <3>1. mon[s].child = NoPid /\ mon'[s].child = NoPid
      BY <2>3, MonTypes DEF MonDecide, MonOnly, Shape
    <3>2. /\ proc' = proc /\ slot' = slot
          /\ \A t \in Svc \ {s} : mon'[t] = mon[t]
      BY <2>3, MonTypes DEF MonDecide, MonOnly
    <3>3. QED
      BY <1>a, <3>1, <3>2, OwnerFrame DEF Children
  <2>4. CASE MonRespawn(s)
    <3>1. slot[s] = NoPid /\ mon[s].child = NoPid
      BY <2>4, MonTypes DEF MonRespawn, Shape
    <3>2. \A t \in Svc : mon'[t].child = mon[t].child
      BY <2>4, MonTypes DEF MonRespawn, MonOnly, MonState
    <3>3. CASE UNCHANGED <<proc, slot>>
      BY <1>a, <3>2, <3>3, OwnerFrame DEF Children
    <3>4. CASE \E p \in Pid : Spawned(p, s) /\ slot' = [slot EXCEPT ![s] = p]
      BY <1>a, <3>1, <3>2, <3>4, OwnerSpawn
    <3>5. QED
      BY <2>4, <3>3, <3>4 DEF MonRespawn
  <2>5. CASE MonHealth(s)
    <3>1. \A t \in Svc : mon'[t].child = mon[t].child
      BY <2>5, MonTypes DEF MonHealth, MonOnly, MonState
    <3>2. QED
      BY <1>a, <2>5, <3>1, OwnerFrame DEF MonHealth, Children
  <2>6. QED
    BY <1>6, <2>1, <2>2, <2>3, <2>4, <2>5 DEF supervise
<1>7. ASSUME NEW p \in Pid, Bind(p) \/ Stop(p) \/ Crash(p) PROVE OneOwner'
  <2>1. slot' = slot /\ mon' = mon
    BY <1>7 DEF Bind, Stop, Crash, ShellUnchanged, threads
  <2>2. CASE Bound(p)
    BY <1>a, <2>1, <2>2, BoundProc, OwnerFrame DEF Children, Alive
  <2>3. CASE Exited(p)
    BY <1>a, <2>1, <2>3, ExitedProc, OwnerFrame DEF Children, Alive, NoProcess
  <2>4. QED
    BY <1>7, <2>2, <2>3 DEF Bind, Stop, Crash
<1>8. QED
  BY <1>1, <1>2, <1>3, <1>4, <1>5, <1>6, <1>7
     DEF Next, Main, bring_up, StartApp, SetupApp, FinishExit, KillApp,
         BeginExit, ensure, BootHealth, BootSchema, BootGoto, vars, threads

-----------------------------------------------------------------------------

\* A step that starts no process and sends no signal orphans nobody.
LEMMA StrayFrame ==
  ASSUME Strays, app' = app,
         \A q \in Pid : Alive(q)' /\ ~proc'[q].child =>
           /\ Alive(q) /\ ~proc[q].child /\ proc'[q].prog = proc[q].prog
           /\ proc[q].term => proc'[q].term
  PROVE  Strays'
BY DEF Strays

\* Every step keeps the orphans terminating.
LEMMA NextStrays == TypeInv /\ Shape /\ Strays /\ [Next]_vars => Strays'
<1> SUFFICES ASSUME TypeInv, Shape, Strays, [Next]_vars PROVE Strays'
  OBVIOUS
<1>a. ProcTypeOK /\ ProgInv
  BY DEF TypeInv, TypeOK, Shape, ProgInv
<1>1. CASE proc' = proc /\ app' = app
  BY <1>1, StrayFrame DEF Alive
<1>2. CASE AppGone
  BY <1>2 DEF AppGone, Strays
<1>3. CASE StartApp
  <2>1. app'.st = "startup" /\ app'.kill = NumSvc /\ proc' = proc
    BY <1>3 DEF StartApp
  <2>2. \A q \in Pid : Alive(q) => ~(NumSvc < proc[q].prog)
    BY <1>a, NumSvcAssumption DEF ProgInv, Alive, Svc
  <2>3. QED
    BY <2>1, <2>2 DEF Strays, Alive
<1>4. CASE kill_stray_dataplane
  <2>1. /\ app.st \in {"startup", "exiting"}
        /\ app'.st = app.st /\ app'.kill = app.kill - 1
        /\ app.kill \in Nat
    BY <1>4, NumSvcAssumption
       DEF kill_stray_dataplane, TypeInv, TypeOK, AppState
  <2>2. \A q \in Pid :
          /\ proc'[q].prog = proc[q].prog
          /\ proc'[q].st = proc[q].st
          /\ proc'[q].child = proc[q].child
          /\ proc'[q].term =
               (proc[q].term \/ (Alive(q) /\ proc[q].prog \in {app.kill}))
    BY <1>4, <1>a, PkilledProc DEF kill_stray_dataplane
  <2>3. SUFFICES ASSUME NEW q \in Pid, Alive(q)', ~proc'[q].child,
                        app'.st = "startup" => app'.kill < proc'[q].prog
                 PROVE  proc'[q].term
    BY DEF Strays
  <2>4. Alive(q) /\ ~proc[q].child /\ proc[q].prog \in Int
    BY <1>a, <2>2, <2>3, NumSvcAssumption DEF Alive, ProgInv, Svc
  <2>5. CASE proc[q].prog = app.kill
    BY <2>2, <2>4, <2>5
  <2>6. CASE proc[q].prog # app.kill
    <3>1. proc[q].term
      BY <2>1, <2>2, <2>3, <2>4, <2>6 DEF Strays
    <3>2. QED
      BY <2>2, <3>1
  <2>7. QED
    BY <2>5, <2>6
<1>5. CASE SetupApp
  <2>1. app.st = "startup" /\ app.kill = 0 /\ proc' = proc
    BY <1>5 DEF SetupApp
  <2>2. \A q \in Pid : Alive(q) => 0 < proc[q].prog
    BY <1>a, NumSvcAssumption DEF ProgInv, Alive, Svc
  <2>3. QED
    BY <2>1, <2>2 DEF Strays, Alive
<1>6. CASE BeginExit
  BY <1>6 DEF BeginExit, Strays, Alive
<1>7. ASSUME NEW s \in Svc, NEW p \in Pid, Spawned(p, s), app' = app
      PROVE  Strays'
  <2>1. proc'[p].child /\ \A q \in Pid \ {p} : proc'[q] = proc[q]
    BY <1>7, <1>a, SpawnedProc, ServicesArePrograms
  <2>2. QED
    BY <1>7, <2>1, StrayFrame DEF Alive
<1>8. CASE bring_up
  <2>1. app' = app /\ boot.svc \in Svc
    BY <1>8, MonTypes DEF bring_up, ensure, BootSpawn, BootHealth,
                          BootSupervise, BootSchema, BootGoto
  <2>2. proc' = proc \/ \E p \in Pid : Spawned(p, boot.svc)
    BY <1>8 DEF bring_up, ensure, BootSpawn, BootHealth, BootSupervise,
                BootSchema
  <2>3. QED
    BY <1>1, <1>7, <2>1, <2>2
<1>9. ASSUME NEW s \in Svc, supervise(s) PROVE Strays'
  <2>1. app' = app
    BY <1>9 DEF supervise, MonTake, MonWait, MonDecide, MonRespawn, MonHealth,
                MonOnly
  <2>2. CASE MonWait(s)
    <3>1. mon[s].child \in Pid
      BY <2>2, MonTypes DEF MonWait, Shape, MonState
    <3>2. /\ proc'[mon[s].child] = NoProcess
          /\ \A q \in Pid \ {mon[s].child} : proc'[q] = proc[q]
      BY <1>a, <2>2, <3>1, ReapedProc DEF MonWait
    <3>3. QED
      BY <2>1, <3>1, <3>2, StrayFrame DEF Alive, NoProcess
  <2>3. CASE ~MonWait(s)
    <3>1. proc' = proc \/ \E p \in Pid : Spawned(p, s)
      BY <1>9, <2>3 DEF supervise, MonTake, MonDecide, MonRespawn, MonHealth
    <3>2. QED
      BY <1>1, <1>7, <2>1, <3>1
  <2>4. QED
    BY <2>2, <2>3
<1>10. ASSUME NEW p \in Pid, Bind(p) \/ Stop(p) \/ Crash(p) PROVE Strays'
  <2>1. app' = app
    BY <1>10 DEF Bind, Stop, Crash, ShellUnchanged
  <2>2. CASE Bound(p)
    BY <1>a, <2>1, <2>2, BoundProc, StrayFrame DEF Alive
  <2>3. CASE Exited(p)
    BY <1>a, <2>1, <2>3, ExitedProc, StrayFrame DEF Alive, NoProcess
  <2>4. QED
    BY <1>10, <2>2, <2>3 DEF Bind, Stop, Crash
<1>11. QED
  BY <1>1, <1>2, <1>3, <1>4, <1>5, <1>6, <1>8, <1>9, <1>10
     DEF Next, Main, FinishExit, KillApp, vars

\* Every step keeps the reports of supervise threads that gave up.
LEMMA NextSilent ==
  TypeInv /\ Shape /\ SilentOnlyInShutdown /\ [Next]_vars
    => SilentOnlyInShutdown'
<1> SUFFICES ASSUME TypeInv, Shape, SilentOnlyInShutdown, [Next]_vars
             PROVE  SilentOnlyInShutdown'
  OBVIOUS
<1> USE MonTypes DEF SilentOnlyInShutdown
<1>1. CASE UNCHANGED <<mon, reported, shutting_down>>
  BY <1>1
<1>2. CASE AppGone
  BY <1>2 DEF AppGone, NoMonitors, NewMon
<1>3. CASE BeginExit
  BY <1>3 DEF BeginExit
<1>4. CASE BootSupervise
  BY <1>4 DEF BootSupervise, NewMon
<1>5. ASSUME NEW s \in Svc, supervise(s) PROVE SilentOnlyInShutdown'
  <2>1. CASE MonTake(s)
    BY <2>1 DEF MonTake, MonOnly, Shape, MonState
  <2>2. CASE MonWait(s)
    BY <2>2 DEF MonWait, MonOnly, MonState
  <2>3. CASE MonDecide(s)
    BY <2>3 DEF MonDecide, MonOnly, MonState
  <2>4. CASE MonRespawn(s)
    BY <2>4 DEF MonRespawn, MonOnly, MonState
  <2>5. CASE MonHealth(s)
    BY <2>5 DEF MonHealth, MonOnly, MonState
  <2>6. QED
    BY <1>5, <2>1, <2>2, <2>3, <2>4, <2>5 DEF supervise
<1>6. QED
  BY <1>1, <1>2, <1>3, <1>4, <1>5
     DEF Next, Main, bring_up, StartApp, kill_stray_dataplane, SetupApp,
         FinishExit, KillApp, ensure, BootSpawn, BootHealth, BootSchema,
         BootGoto, Bind, Stop, Crash, ShellUnchanged, vars, threads

\* A step of the teardown that spawns nothing keeps the survivors in racing.
LEMMA TeardownFrame ==
  ASSUME Teardown, ProcTypeOK,
         UNCHANGED <<app, shutting_down, racing>>,
         SpawnWindow' \subseteq SpawnWindow,
         \A q \in Pid : Alive(q)' /\ ~proc'[q].term =>
           \/ Alive(q) /\ ~proc[q].term /\ proc'[q].prog = proc[q].prog
           \/ proc'[q].prog \in SpawnWindow
  PROVE  Teardown'
<1> SUFFICES ASSUME app.st = "exiting" PROVE Teardown'
  BY DEF Teardown
<1>1. shutting_down' /\ SpawnWindow' \subseteq racing'
  BY DEF Teardown
<1>2. SurvivorRaced'
  BY DEF Teardown, SurvivorRaced
<1>3. QED
  BY <1>1, <1>2 DEF Teardown

\* Every step keeps the teardown's invariant: no thread enters its spawn
\* window once the flag is set.
LEMMA NextTeardown ==
  TypeInv /\ Shape /\ Strays /\ Teardown /\ [Next]_vars => Teardown'
<1> SUFFICES ASSUME TypeInv, Shape, Strays, Teardown, [Next]_vars
             PROVE  Teardown'
  OBVIOUS
<1>a. ProcTypeOK /\ ProgInv
  BY DEF TypeInv, TypeOK, Shape, ProgInv
<1>b. ASSUME UNCHANGED <<mon, boot>> PROVE SpawnWindow' = SpawnWindow
  BY <1>b DEF SpawnWindow, BootActive
<1>1. CASE UNCHANGED vars
  BY <1>1, <1>a, <1>b, TeardownFrame DEF vars, threads, Alive
<1>2. CASE app'.st # "exiting"
  BY <1>2 DEF Teardown
<1>3. CASE BeginExit
  <2>1. shutting_down' /\ SpawnWindow' \subseteq racing'
    BY <1>3 DEF BeginExit, threads, SpawnWindow, BootActive
  <2>2. \A q \in Pid : Alive(q) => ~(NumSvc < proc[q].prog)
    BY <1>a, NumSvcAssumption DEF ProgInv, Alive, Svc
  <2>3. SurvivorRaced'
    BY <1>3, <2>2 DEF BeginExit, SurvivorRaced, Alive
  <2>4. QED
    BY <2>1, <2>3 DEF Teardown
<1>4. ASSUME kill_stray_dataplane, app'.st = "exiting" PROVE Teardown'
  <2>1. /\ app.st = "exiting" /\ app'.kill = app.kill - 1
        /\ app.kill \in Nat
        /\ UNCHANGED <<shutting_down, racing, mon, boot>>
    BY <1>4, NumSvcAssumption
       DEF kill_stray_dataplane, threads, TypeInv, TypeOK, AppState
  <2>2. shutting_down' /\ SpawnWindow' \subseteq racing'
    BY <2>1, <1>b DEF Teardown
  <2>3. \A q \in Pid :
          /\ proc'[q].prog = proc[q].prog
          /\ proc'[q].st = proc[q].st
          /\ proc'[q].term =
               (proc[q].term \/ (Alive(q) /\ proc[q].prog \in {app.kill}))
    BY <1>4, <1>a, PkilledProc DEF kill_stray_dataplane
  <2>4. ASSUME NEW q \in Pid, Alive(q)', ~proc'[q].term,
               app'.kill < proc'[q].prog
        PROVE  proc'[q].prog \in racing'
    <3>1. Alive(q) /\ ~proc[q].term /\ proc[q].prog # app.kill
      BY <2>3, <2>4 DEF Alive
    <3>2. proc[q].prog \in Int
      BY <1>a, <3>1, NumSvcAssumption DEF Alive, ProgInv, Svc
    <3>3. app.kill < proc[q].prog
      BY <2>1, <2>3, <2>4, <3>1, <3>2
    <3>4. QED
      BY <2>1, <2>3, <3>1, <3>3 DEF Teardown, SurvivorRaced
  <2>5. QED
    BY <2>2, <2>4 DEF Teardown, SurvivorRaced
<1>5. CASE bring_up
  <2>1. /\ UNCHANGED <<app, shutting_down, racing>>
        /\ boot.svc \in Svc /\ BootActive
    BY <1>5, MonTypes
       DEF bring_up, ensure, BootSpawn, BootHealth, BootSupervise, BootSchema,
           BootGoto, BootActive
  <2>2. boot'.svc \in Int /\ boot.svc <= boot'.svc
    BY <1>5, MonTypes
       DEF bring_up, ensure, BootSpawn, BootHealth, BootSupervise, BootSchema,
           BootGoto
  <2>3. \A t \in Svc : mon'[t].pc = "respawn" => mon[t].pc = "respawn"
    BY <1>5, MonTypes
       DEF bring_up, ensure, BootSpawn, BootHealth, BootSupervise, BootSchema,
           BootGoto, NewMon
  <2>4. SpawnWindow' \subseteq SpawnWindow
    BY <2>1, <2>2, <2>3, MonTypes DEF SpawnWindow
  <2>5. proc' = proc \/ \E p \in Pid : Spawned(p, boot.svc)
    BY <1>5 DEF bring_up, ensure, BootSpawn, BootHealth, BootSupervise,
                BootSchema
  <2>6. boot.svc \in SpawnWindow
    BY <2>1, MonTypes DEF SpawnWindow
  <2>7. CASE proc' = proc
    BY <1>a, <2>1, <2>4, <2>7, TeardownFrame DEF Alive
  <2>8. ASSUME NEW p \in Pid, Spawned(p, boot.svc) PROVE Teardown'
    <3>1. /\ proc'[p].prog = boot.svc
          /\ \A q \in Pid \ {p} : proc'[q] = proc[q]
      BY <1>a, <2>1, <2>8, SpawnedProc, ServicesArePrograms
    <3>2. QED
      BY <1>a, <2>1, <2>4, <2>6, <3>1, TeardownFrame DEF Alive
  <2>9. QED
    BY <2>5, <2>7, <2>8
<1>6. ASSUME NEW s \in Svc, supervise(s), app.st = "exiting" PROVE Teardown'
  <2>1. UNCHANGED <<app, shutting_down, racing, boot>>
    BY <1>6 DEF supervise, MonTake, MonWait, MonDecide, MonRespawn, MonHealth,
                MonOnly
  <2>2. \A t \in Svc : mon'[t].pc = "respawn" => mon[t].pc = "respawn"
    <3>1. shutting_down
      BY <1>6 DEF Teardown
    <3>2. CASE MonDecide(s)
      BY <3>1, <3>2, MonTypes DEF MonDecide, MonOnly, should_respawn
    <3>3. CASE ~MonDecide(s)
      BY <1>6, <3>3, MonTypes
         DEF supervise, MonTake, MonWait, MonRespawn, MonHealth, MonOnly,
             MonState
    <3>4. QED
      BY <3>2, <3>3
  <2>3. SpawnWindow' \subseteq SpawnWindow
    BY <2>1, <2>2 DEF SpawnWindow, BootActive
  <2>4. CASE MonWait(s)
    <3>1. mon[s].child \in Pid
      BY <2>4, MonTypes DEF MonWait, Shape, MonState
    <3>2. /\ proc'[mon[s].child] = NoProcess
          /\ \A q \in Pid \ {mon[s].child} : proc'[q] = proc[q]
      BY <1>a, <2>4, <3>1, ReapedProc DEF MonWait
    <3>3. QED
      BY <1>a, <2>1, <2>3, <3>1, <3>2, TeardownFrame DEF Alive, NoProcess
  <2>5. CASE MonRespawn(s)
    <3>1. s \in SpawnWindow
      BY <2>5 DEF MonRespawn, SpawnWindow
    <3>2. CASE proc' = proc
      BY <1>a, <2>1, <2>3, <3>2, TeardownFrame DEF Alive
    <3>3. ASSUME NEW p \in Pid, Spawned(p, s) PROVE Teardown'
      <4>1. proc'[p].prog = s /\ \A q \in Pid \ {p} : proc'[q] = proc[q]
        BY <1>a, <3>3, SpawnedProc, ServicesArePrograms
      <4>2. QED
        BY <1>a, <2>1, <2>3, <3>1, <4>1, TeardownFrame DEF Alive
    <3>4. QED
      BY <2>5, <3>2, <3>3 DEF MonRespawn
  <2>6. CASE ~MonWait(s) /\ ~MonRespawn(s)
    <3>1. proc' = proc
      BY <1>6, <2>6 DEF supervise, MonTake, MonDecide, MonHealth
    <3>2. QED
      BY <1>a, <2>1, <2>3, <3>1, TeardownFrame DEF Alive
  <2>7. QED
    BY <2>4, <2>5, <2>6
<1>7. ASSUME NEW p \in Pid, Bind(p) \/ Stop(p) \/ Crash(p) PROVE Teardown'
  <2>1. UNCHANGED <<app, shutting_down, racing, mon, boot>>
    BY <1>7 DEF Bind, Stop, Crash, ShellUnchanged, threads
  <2>2. CASE Bound(p)
    BY <1>a, <1>b, <2>1, <2>2, BoundProc, TeardownFrame DEF Alive
  <2>3. CASE Exited(p)
    BY <1>a, <1>b, <2>1, <2>3, ExitedProc, TeardownFrame DEF Alive, NoProcess
  <2>4. QED
    BY <1>7, <2>2, <2>3 DEF Bind, Stop, Crash
<1>8. ASSUME NEW s \in Svc, supervise(s) PROVE Teardown'
  <2>1. app' = app
    BY <1>8 DEF supervise, MonTake, MonWait, MonDecide, MonRespawn, MonHealth,
                MonOnly
  <2>2. QED
    BY <1>2, <1>6, <1>8, <2>1
<1>9. CASE KillApp \/ StartApp \/ SetupApp \/ FinishExit
  <2>1. app'.st # "exiting"
    BY <1>9, MonTypes DEF KillApp, FinishExit, AppGone, StartApp, SetupApp
  <2>2. QED
    BY <1>2, <2>1
<1>10. QED
  BY <1>1, <1>2, <1>3, <1>4, <1>5, <1>7, <1>8, <1>9 DEF Next, Main

-----------------------------------------------------------------------------

LEMMA NextIInv == IInv /\ [Next]_vars => IInv'
BY NextTypeInv, NextShape, NextOneOwner, NextStrays, NextSilent, NextTeardown
   DEF IInv

LEMMA Inductive == Spec => []IInv
<1>1. Init => IInv
  BY InitIInv
<1>2. IInv /\ [Next]_vars => IInv'
  BY NextIInv
<1>3. QED
  BY <1>1, <1>2, PTL DEF Spec

\* The data plane's state stays well typed; in particular no restart counter
\* passes the cap of supervise by more than the exit that hits it.
THEOREM DataPlaneTypes == Spec => []TypeOK
<1>1. IInv => TypeOK
  BY DEF IInv, TypeInv
<1>2. QED
  BY <1>1, Inductive, PTL

\* Every child of the running shell has exactly one owner that can reap it.
THEOREM DataPlaneOwnership == Spec => []OneOwner
<1>1. IInv => OneOwner
  BY DEF IInv
<1>2. QED
  BY <1>1, Inductive, PTL

\* However the last run ended, what it left behind is terminating once the
\* shell is up.
THEOREM DataPlaneStrays == Spec => []StrayIsDying
<1>1. IInv => StrayIsDying
  BY DEF IInv, Strays, StrayIsDying
<1>2. QED
  BY <1>1, Inductive, PTL

\* A supervise thread never gives up silently outside a teardown.
THEOREM DataPlaneReports == Spec => []SilentOnlyInShutdown
<1>1. IInv => SilentOnlyInShutdown
  BY DEF IInv
<1>2. QED
  BY <1>1, Inductive, PTL

\* Whatever outlives a teardown was spawned by a thread that had passed its
\* last look at shutting_down before the flag was set.
THEOREM DataPlaneTeardown == Spec => []SurvivorRaced
<1>1. IInv => SurvivorRaced
  BY DEF IInv, Teardown, SurvivorRaced
<1>2. QED
  BY <1>1, Inductive, PTL

-----------------------------------------------------------------------------
(***************************************************************************)
(* Bootstrap                                                               *)
(***************************************************************************)

(***************************************************************************)
(* The inductive invariant: how far each script has come, and what of the  *)
(* disk a boot may rely on at each step.                                   *)
(***************************************************************************)

\* The steps that have a Postgres, and those that have control_db as well.
HasPostgres == {"exists", "create", "schema", "portfolios", "risingwave", "is_applied",
            "baseline", "record", "up"}
Controlled == {"risingwave", "is_applied", "baseline", "record", "up"}

\* What the statements before the n-th add.
Before(script, n) == UNION {script[i].adds : i \in 1..(n - 1)}

\* What the baseline creates from fold_per_event on.
Late == Objects(Baseline) \ Before(Baseline, 7)

ClusterInv ==
  /\ stage.pc = "initdb" => cluster = "half"
  /\ stage.pc = "spawn_postgres" => cluster # "none"
  /\ stage.pc \in HasPostgres => cluster = "ok"

ControlInv ==
  /\ "control_db" \notin pg => pg = {}
  /\ stage.pc = "create" => stage.n = 1 /\ "control_db" \notin pg
  /\ stage.pc = "schema" =>
       stage.n \in 1..4 /\ pg = {"control_db"} \cup Before(Schema, stage.n)
  /\ stage.pc = "portfolios" =>
       /\ stage.n \in 1..3 /\ "control_db" \in pg /\ Before(Portfolios, stage.n) \subseteq pg
       /\ stage.n = 3 => "rw_replicator" \in pg
  /\ stage.pc \in Controlled =>
       {"control_db", "rw_replicator"} \cup Objects(Portfolios) \subseteq pg

BaselineInv ==
  /\ rw \cap Late # {} => "fold_per_event" \in rw
  /\ stage.pc = "baseline" =>
       /\ Before(Baseline, stage.n) \subseteq rw
       /\ stage.n = 4 => "fold_kernel" \notin rw
       /\ stage.n \in 4..7 => "fold_per_event" \notin rw
       /\ stage.n \in 8..14 => rw = Before(Baseline, stage.n)
  /\ stage.pc = "record" => rw = Objects(Baseline)
  /\ stage.pc = "up" => recorded
  /\ recorded => rw = Objects(Baseline)
  /\ stage.pc \in {"baseline", "record"} /\ recorded =>
       stage.pc = "baseline" /\ stage.n \in 1..3 /\ ~stage.quiet

BootIInv == BootTypeOK /\ ClusterInv /\ ControlInv /\ BaselineInv /\ OnlyWedgesStop

-----------------------------------------------------------------------------
(***************************************************************************)
(* The scripts                                                             *)
(***************************************************************************)

LEMMA BaselineStatements ==
  /\ Len(Baseline) = 14 /\ DOMAIN Baseline = 1..14
  /\ Baseline[1] = Guarded("logs") /\ Baseline[2] = Guarded("portfolios_cdc")
  /\ Baseline[3] = Drop({"fold_kernel"}, {"fold_per_event"}) /\ Baseline[4] = Plain("fold_kernel")
  /\ Baseline[5] = Guarded("events") /\ Baseline[6] = Drop(Folded, {})
  /\ Baseline[7] = Plain("fold_per_event") /\ Baseline[8] = Guarded("metrics")
  /\ Baseline[9] = Plain("latest_portfolio_state")
  /\ Baseline[10] = Guarded("instruments_used")
  /\ Baseline[11] = Plain("ohlcv_coverage") /\ Baseline[12] = Plain("data_coverage")
  /\ Baseline[13] = Plain("instruments_catalog")
  /\ Baseline[14] = Guarded("entities")
BY DEF Baseline

LEMMA ControlStatements ==
  /\ Len(CreateDatabase) = 1 /\ CreateDatabase[1] = Plain("control_db")
  /\ Len(Schema) = 4
  /\ Schema[1] = Plain("control_plane") /\ Schema[2] = Plain("rw_replicator")
  /\ Schema[3] = [Guarded("owner") EXCEPT !.needs = {"control_plane"}]
  /\ Schema[4] = [Guarded("connect") EXCEPT !.needs = {"rw_replicator"}]
  /\ Len(Portfolios) = 3 /\ Portfolios[1] = Guarded("portfolios")
  /\ Portfolios[2] = [Guarded("select") EXCEPT !.needs = {"rw_replicator"}]
  /\ Portfolios[3] = Guarded("publication")
BY DEF CreateDatabase, Schema, Portfolios

\* What they add, which of them must find nothing, what they drop and what
\* keeps them from it.
LEMMA BaselineTable ==
  /\ Baseline[1].adds = {"logs"}
  /\ Baseline[2].adds = {"portfolios_cdc"}
  /\ Baseline[3].adds = {}
  /\ Baseline[4].adds = {"fold_kernel"}
  /\ Baseline[5].adds = {"events"}
  /\ Baseline[6].adds = {}
  /\ Baseline[7].adds = {"fold_per_event"}
  /\ Baseline[8].adds = {"metrics"}
  /\ Baseline[9].adds = {"latest_portfolio_state"}
  /\ Baseline[10].adds = {"instruments_used"}
  /\ Baseline[11].adds = {"ohlcv_coverage"}
  /\ Baseline[12].adds = {"data_coverage"}
  /\ Baseline[13].adds = {"instruments_catalog"}
  /\ Baseline[14].adds = {"entities"}
  /\ \A n \in 1..14 : Baseline[n].plain => n \in {4, 7, 9, 11, 12, 13}
  /\ \A n \in 1..14 : Baseline[n].needs = {}
  /\ Baseline[3].drops = {"fold_kernel"} /\ Baseline[6].drops = Folded
  /\ \A n \in 1..14 : n \notin {3, 6} => Baseline[n].drops = {}
  /\ Baseline[3].users = {"fold_per_event"}
  /\ \A n \in 1..14 : n # 3 => Baseline[n].users = {}
<1> HIDE DEF Baseline
<1> USE BaselineStatements DEF Guarded, Plain, Drop
<1>1. /\ Baseline[1].adds = {"logs"}
      /\ Baseline[2].adds = {"portfolios_cdc"}
      /\ Baseline[3].adds = {}
      /\ Baseline[4].adds = {"fold_kernel"}
      /\ Baseline[5].adds = {"events"}
      /\ Baseline[6].adds = {}
      /\ Baseline[7].adds = {"fold_per_event"}
      /\ Baseline[8].adds = {"metrics"}
      /\ Baseline[9].adds = {"latest_portfolio_state"}
      /\ Baseline[10].adds = {"instruments_used"}
      /\ Baseline[11].adds = {"ohlcv_coverage"}
      /\ Baseline[12].adds = {"data_coverage"}
      /\ Baseline[13].adds = {"instruments_catalog"}
      /\ Baseline[14].adds = {"entities"}
  OBVIOUS
<1>2. ASSUME NEW n \in 1..14
      PROVE  /\ (Baseline[n].plain => n \in {4, 7, 9, 11, 12, 13})
             /\ Baseline[n].needs = {}
             /\ n \notin {3, 6} => Baseline[n].drops = {}
             /\ n # 3 => Baseline[n].users = {}
  <2>1. n \in {1, 2, 5, 8, 10, 14} => Baseline[n].plain = FALSE
             /\ Baseline[n].needs = {} /\ Baseline[n].drops = {}
             /\ Baseline[n].users = {}
    OBVIOUS
  <2>2. n \in {4, 7, 9, 11, 12, 13} => Baseline[n].plain = TRUE
             /\ Baseline[n].needs = {} /\ Baseline[n].drops = {}
             /\ Baseline[n].users = {}
    OBVIOUS
  <2>3. /\ n \in {3, 6} => Baseline[n].plain = FALSE /\ Baseline[n].needs = {}
        /\ n = 6 => Baseline[n].users = {}
    OBVIOUS
  <2>4. n \in {1, 2, 5, 8, 10, 14} \cup {4, 7, 9, 11, 12, 13} \cup {3, 6}
    OBVIOUS
  <2> QED
    BY <2>1, <2>2, <2>3, <2>4
<1>3. /\ Baseline[3].drops = {"fold_kernel"} /\ Baseline[6].drops = Folded
      /\ Baseline[3].users = {"fold_per_event"}
  OBVIOUS
<1> QED
  BY <1>1, <1>2, <1>3

LEMMA ControlTable ==
  /\ CreateDatabase[1].adds = {"control_db"} /\ CreateDatabase[1].needs = {}
  /\ CreateDatabase[1].drops = {} /\ CreateDatabase[1].users = {}
  /\ Schema[1].adds = {"control_plane"} /\ Schema[2].adds = {"rw_replicator"}
  /\ Schema[3].adds = {"owner"} /\ Schema[4].adds = {"connect"}
  /\ Schema[1].needs = {} /\ Schema[2].needs = {}
  /\ Schema[3].needs = {"control_plane"} /\ Schema[4].needs = {"rw_replicator"}
  /\ \A n \in 1..4 : Schema[n].drops = {} /\ Schema[n].users = {}
  /\ Schema[3].plain = FALSE /\ Schema[4].plain = FALSE
  /\ Portfolios[1].adds = {"portfolios"} /\ Portfolios[2].adds = {"select"}
  /\ Portfolios[3].adds = {"publication"}
  /\ Portfolios[1].needs = {} /\ Portfolios[2].needs = {"rw_replicator"}
  /\ Portfolios[3].needs = {}
  /\ \A n \in 1..3 : /\ Portfolios[n].drops = {} /\ Portfolios[n].plain = FALSE
                    /\ Portfolios[n].users = {}
<1> USE ControlStatements DEF Guarded, Plain
<1>1. \A n \in 1..4 : n \in {1, 2, 3, 4}
  OBVIOUS
<1>2. \A n \in 1..3 : n \in {1, 2, 3}
  OBVIOUS
<1>3. \A n \in 1..4 : Schema[n].drops = {} /\ Schema[n].users = {}
  BY <1>1
<1>4. \A n \in 1..3 : /\ Portfolios[n].drops = {} /\ Portfolios[n].plain = FALSE
                     /\ Portfolios[n].users = {}
  BY <1>2
<1> QED
  BY <1>3, <1>4

\* Any statements will do.
LEMMA ObjectsConcat ==
  ASSUME NEW S, NEW s \in Seq(S), NEW t \in Seq(S)
  PROVE  Objects(s) \subseteq Objects(s \o t) /\ Objects(t) \subseteq Objects(s \o t)
<1>1. ASSUME NEW i \in DOMAIN s
      PROVE  i \in DOMAIN (s \o t) /\ (s \o t)[i] = s[i]
  OBVIOUS
<1>2. ASSUME NEW i \in DOMAIN t
      PROVE  Len(s) + i \in DOMAIN (s \o t) /\ (s \o t)[Len(s) + i] = t[i]
  OBVIOUS
<1>3. Range(s) \subseteq Range(s \o t) /\ Range(t) \subseteq Range(s \o t)
  BY <1>1, <1>2 DEF Range
<1> HIDE DEF Range
<1> QED
  BY <1>3 DEF Objects

LEMMA ControlObjects ==
  LET all == Objects(CreateDatabase \o Schema \o Portfolios) IN
  /\ Objects(CreateDatabase) \subseteq all /\ Objects(Schema) \subseteq all
  /\ Objects(Portfolios) \subseteq all
<1> DEFINE S == {CreateDatabase[1]} \cup {Schema[i] : i \in 1..4}
                \cup {Portfolios[i] : i \in 1..3}
<1>1. CreateDatabase \in Seq(S) /\ Schema \in Seq(S) /\ Portfolios \in Seq(S)
  <2>1. CreateDatabase = <<CreateDatabase[1]>>
    BY DEF CreateDatabase
  <2>2. Schema = <<Schema[1], Schema[2], Schema[3], Schema[4]>>
    BY DEF Schema
  <2>3. Portfolios = <<Portfolios[1], Portfolios[2], Portfolios[3]>>
    BY DEF Portfolios
  <2>4. /\ CreateDatabase[1] \in S
        /\ Schema[1] \in S /\ Schema[2] \in S /\ Schema[3] \in S /\ Schema[4] \in S
        /\ Portfolios[1] \in S /\ Portfolios[2] \in S /\ Portfolios[3] \in S
    OBVIOUS
  <2> HIDE DEF S
  <2>5. \A a, b, c, d \in S :
          <<a>> \in Seq(S) /\ <<b, c, d>> \in Seq(S) /\ <<a, b, c, d>> \in Seq(S)
    OBVIOUS
  <2>6. CreateDatabase \in Seq(S)
    <3>1. <<CreateDatabase[1]>> \in Seq(S)
      BY <2>4, <2>5
    <3> QED
      BY <2>1, <3>1
  <2>7. Schema \in Seq(S)
    <3>1. <<Schema[1], Schema[2], Schema[3], Schema[4]>> \in Seq(S)
      BY <2>4, <2>5
    <3> QED
      BY <2>2, <3>1
  <2>8. Portfolios \in Seq(S)
    <3>1. <<Portfolios[1], Portfolios[2], Portfolios[3]>> \in Seq(S)
      BY <2>4, <2>5
    <3> QED
      BY <2>3, <3>1
  <2> QED
    BY <2>6, <2>7, <2>8
<1> HIDE DEF S
<1>2. CreateDatabase \o Schema \in Seq(S)
  BY <1>1
<1>3. /\ Objects(CreateDatabase) \subseteq Objects(CreateDatabase \o Schema)
      /\ Objects(Schema) \subseteq Objects(CreateDatabase \o Schema)
  BY <1>1, ObjectsConcat
<1>4. /\ Objects(CreateDatabase \o Schema)
           \subseteq Objects((CreateDatabase \o Schema) \o Portfolios)
      /\ Objects(Portfolios)
           \subseteq Objects((CreateDatabase \o Schema) \o Portfolios)
  BY <1>1, <1>2, ObjectsConcat
<1> QED
  BY <1>3, <1>4

\* What the statements of a script have added once the last is done.
LEMMA BeforeFirst ==
  ASSUME NEW script
  PROVE  Before(script, 1) = {}
<1>1. 1..(1 - 1) = {}
  OBVIOUS
<1> QED
  BY <1>1 DEF Before

LEMMA BeforeFacts ==
  ASSUME NEW script, NEW n \in Nat \ {0}
  PROVE  Before(script, n + 1) = Before(script, n) \cup script[n].adds
<1>1. 1..(n + 1 - 1) = 1..(n - 1) \cup {n}
  OBVIOUS
<1> QED
  BY <1>1 DEF Before

LEMMA BeforeAll ==
  ASSUME NEW script, NEW n \in Nat, DOMAIN script = 1..(n - 1)
  PROVE  Before(script, n) = Objects(script)
<1>1. Range(script) = {script[i] : i \in 1..(n - 1)}
  BY DEF Range
<1> HIDE DEF Range
<1> QED
  BY <1>1 DEF Before, Objects

\* What schema.sql has added before each of its statements, and after the last.
LEMMA SchemaBefore ==
  /\ Before(Schema, 1) = {} /\ Before(Schema, 2) = {"control_plane"}
  /\ Before(Schema, 3) = {"control_plane", "rw_replicator"}
  /\ Before(Schema, 4) = {"control_plane", "rw_replicator", "owner"}
  /\ Before(Schema, 5) = {"control_plane", "rw_replicator", "owner", "connect"}
<1>1. /\ 1..(1 - 1) = {} /\ 1..(2 - 1) = {1} /\ 1..(3 - 1) = {1, 2}
      /\ 1..(4 - 1) = {1, 2, 3} /\ 1..(5 - 1) = {1, 2, 3, 4}
  OBVIOUS
<1>2. Before(Schema, 1) = {} /\ Before(Schema, 2) = {"control_plane"}
  BY <1>1, BeforeFirst, ControlTable DEF Before
<1>3. Before(Schema, 3) = {"control_plane", "rw_replicator"}
  BY <1>1, ControlTable DEF Before
<1>4. Before(Schema, 4) = {"control_plane", "rw_replicator", "owner"}
  <2>1. Before(Schema, 4) = Schema[1].adds \cup Schema[2].adds \cup Schema[3].adds
    BY <1>1 DEF Before
  <2> QED
    BY <2>1, ControlTable
<1>5. Before(Schema, 5) = {"control_plane", "rw_replicator", "owner", "connect"}
  <2>1. Before(Schema, 5) = Schema[1].adds \cup Schema[2].adds \cup Schema[3].adds
                              \cup Schema[4].adds
    BY <1>1 DEF Before
  <2> QED
    BY <2>1, ControlTable
<1> QED
  BY <1>2, <1>3, <1>4, <1>5

\* What all statements of the other scripts have added.
LEMMA ScriptsBefore ==
  /\ Before(Portfolios, 4) = Objects(Portfolios)
  /\ Before(Baseline, 15) = Objects(Baseline)
<1>1. DOMAIN Portfolios = 1..(4 - 1) /\ DOMAIN Baseline = 1..(15 - 1)
  BY BaselineStatements DEF Portfolios
<1> QED
  BY <1>1, BeforeAll

\* What the baseline has added before each of its statements.
LEMMA BaselineBefore ==
  /\ Before(Baseline, 3) = {"logs", "portfolios_cdc"}
  /\ Before(Baseline, 4) = {"logs", "portfolios_cdc"}
  /\ Before(Baseline, 6) = {"logs", "portfolios_cdc", "fold_kernel", "events"}
  /\ Before(Baseline, 7) = {"logs", "portfolios_cdc", "fold_kernel", "events"}
  /\ Before(Baseline, 8) = Before(Baseline, 7) \cup {"fold_per_event"}
  /\ Before(Baseline, 9) = Before(Baseline, 8) \cup {"metrics"}
  /\ Before(Baseline, 10) = Before(Baseline, 9) \cup {"latest_portfolio_state"}
  /\ Before(Baseline, 11) = Before(Baseline, 10) \cup {"instruments_used"}
  /\ Before(Baseline, 12) = Before(Baseline, 11) \cup {"ohlcv_coverage"}
  /\ Before(Baseline, 13) = Before(Baseline, 12) \cup {"data_coverage"}
  /\ Before(Baseline, 14) = Before(Baseline, 13) \cup {"instruments_catalog"}
  /\ Before(Baseline, 15) = Before(Baseline, 14) \cup {"entities"}
<1>1. \A n \in Nat \ {0} :
        Before(Baseline, n + 1) = Before(Baseline, n) \cup Baseline[n].adds
  BY BeforeFacts
<1>2. Before(Baseline, 1) = {}
  BY BeforeFirst
<1> DEFINE B(n) == Before(Baseline, n)
<1>3. /\ B(2) = B(1) \cup Baseline[1].adds /\ B(3) = B(2) \cup Baseline[2].adds
      /\ B(4) = B(3) \cup Baseline[3].adds /\ B(5) = B(4) \cup Baseline[4].adds
      /\ B(6) = B(5) \cup Baseline[5].adds /\ B(7) = B(6) \cup Baseline[6].adds
      /\ B(8) = B(7) \cup Baseline[7].adds /\ B(9) = B(8) \cup Baseline[8].adds
      /\ B(10) = B(9) \cup Baseline[9].adds /\ B(11) = B(10) \cup Baseline[10].adds
      /\ B(12) = B(11) \cup Baseline[11].adds /\ B(13) = B(12) \cup Baseline[12].adds
      /\ B(14) = B(13) \cup Baseline[13].adds /\ B(15) = B(14) \cup Baseline[14].adds
  <2> HIDE DEF B
  <2>1. \A n \in Nat \ {0} : B(n + 1) = B(n) \cup Baseline[n].adds
    BY <1>1 DEF B
  <2>2. ASSUME NEW n \in 1..14
        PROVE  B(n + 1) = B(n) \cup Baseline[n].adds
    BY <2>1
  <2> QED
    BY <2>2
<1> HIDE DEF B
<1>4. B(1) = {}
  BY <1>2 DEF B
<1>5. /\ B(3) = {"logs", "portfolios_cdc"} /\ B(4) = {"logs", "portfolios_cdc"}
      /\ B(6) = {"logs", "portfolios_cdc", "fold_kernel", "events"} /\ B(7) = B(6)
  BY <1>3, <1>4, BaselineTable
<1>6. /\ B(8) = B(7) \cup {"fold_per_event"} /\ B(9) = B(8) \cup {"metrics"}
      /\ B(10) = B(9) \cup {"latest_portfolio_state"}
      /\ B(11) = B(10) \cup {"instruments_used"}
      /\ B(12) = B(11) \cup {"ohlcv_coverage"} /\ B(13) = B(12) \cup {"data_coverage"}
      /\ B(14) = B(13) \cup {"instruments_catalog"} /\ B(15) = B(14) \cup {"entities"}
  BY <1>3, BaselineTable
<1> QED
  BY <1>5, <1>6 DEF B

LEMMA LateObjects ==
  /\ Objects(Baseline) = Before(Baseline, 7) \cup Late
  /\ Late = Folded \cup {"instruments_used", "ohlcv_coverage", "data_coverage"}
  /\ Folded \cap Before(Baseline, 7) = {} /\ Folded \subseteq Late
<1>1. Objects(Baseline) = Before(Baseline, 7)
        \cup {"fold_per_event", "metrics", "latest_portfolio_state", "instruments_used",
              "ohlcv_coverage", "data_coverage", "instruments_catalog", "entities"}
  BY ScriptsBefore, BaselineBefore
<1> QED
  BY <1>1, BaselineBefore DEF Late, Folded

\* No statement creates what an earlier one has.
LEMMA FreshStatements ==
  ASSUME NEW n \in 8..14
  PROVE  Baseline[n].adds \cap Before(Baseline, n) = {}
<1> DEFINE B(i) == Before(Baseline, i)
<1> HIDE DEF B
<1>1. /\ B(7) = {"logs", "portfolios_cdc", "fold_kernel", "events"}
      /\ B(8) = B(7) \cup {"fold_per_event"} /\ B(9) = B(8) \cup {"metrics"}
      /\ B(10) = B(9) \cup {"latest_portfolio_state"}
      /\ B(11) = B(10) \cup {"instruments_used"}
      /\ B(12) = B(11) \cup {"ohlcv_coverage"} /\ B(13) = B(12) \cup {"data_coverage"}
      /\ B(14) = B(13) \cup {"instruments_catalog"}
  BY BaselineBefore DEF B
<1>2. /\ Baseline[8].adds \cap B(8) = {} /\ Baseline[9].adds \cap B(9) = {}
      /\ Baseline[10].adds \cap B(10) = {} /\ Baseline[11].adds \cap B(11) = {}
  BY <1>1, BaselineTable
<1>3. /\ Baseline[12].adds \cap B(12) = {} /\ Baseline[13].adds \cap B(13) = {}
      /\ Baseline[14].adds \cap B(14) = {}
  BY <1>1, BaselineTable
<1>4. n \in {8, 9, 10, 11, 12, 13, 14}
  OBVIOUS
<1> QED
  BY <1>2, <1>3, <1>4 DEF B

\* Which of them a disk stops, where a boot meets it.
LEMMA OnlyTheDropIsRefused ==
  ASSUME NEW n \in 1..14, NEW db,
         n = 4 => "fold_kernel" \notin db, n \in 4..7 => "fold_per_event" \notin db,
         n \in 8..14 => db = Before(Baseline, n), Refused(Baseline[n], db)
  PROVE  n = 3 /\ "fold_per_event" \in db
<1>1. Baseline[n].needs = {}
  BY BaselineTable
<1>2. CASE n = 3
  <2>1. Baseline[3].users = {"fold_per_event"} /\ ~Baseline[3].plain
    BY BaselineTable
  <2> QED
    BY <1>1, <1>2, <2>1 DEF Refused
<1>3. CASE n # 3
  <2>1. Baseline[n].users = {}
    BY <1>3, BaselineTable
  <2>2. Baseline[n].plain /\ Baseline[n].adds \cap db # {}
    BY <1>1, <2>1 DEF Refused
  <2>3. n \in {4, 7, 9, 11, 12, 13}
    BY <2>2, BaselineTable
  <2>4. n # 4 /\ n # 7
    <3>1. Baseline[4].adds = {"fold_kernel"} /\ Baseline[7].adds = {"fold_per_event"}
      BY BaselineTable
    <3> QED
      BY <2>2, <3>1
  <2>5. n \in 8..14
    BY <2>3, <2>4
  <2> QED
    BY <2>2, <2>5, FreshStatements
<1> QED
  BY <1>2, <1>3

\* Before fold_per_event there is nothing that is built on it.
LEMMA NotYetLate ==
  ASSUME NEW db, db \subseteq Objects(Baseline),
         db \cap Late # {} => "fold_per_event" \in db, "fold_per_event" \notin db
  PROVE  db \cap Late = {} /\ db \subseteq Before(Baseline, 7)
BY LateObjects

-----------------------------------------------------------------------------
(***************************************************************************)
(* The boot thread                                                         *)
(***************************************************************************)

StageState == [pc : Pc, n : 1..14, quiet : BOOLEAN]

LEMMA BootFields ==
  ASSUME BootTypeOK
  PROVE  /\ stage \in StageState
         /\ stage.pc \in Pc /\ stage.n \in 1..14 /\ stage.quiet \in BOOLEAN
BY BaselineStatements DEF BootTypeOK, StageState

LEMMA GotoFacts ==
  ASSUME BootTypeOK, NEW pc \in Pc, Goto(pc)
  PROVE  /\ stage' \in StageState
         /\ stage'.pc = pc /\ stage'.n = 1 /\ stage'.quiet = stage.quiet
<1>1. stage \in StageState /\ stage.quiet \in BOOLEAN
  BY BootFields
<1>2. stage' = [pc |-> pc, n |-> 1, quiet |-> stage.quiet]
  BY <1>1 DEF Goto, StageState
<1> QED
  BY <1>1, <1>2 DEF StageState

\* A script stops, goes on, or is done.
RunsTo(script, db, after) ==
  \/ /\ Refused(script[stage.n], db)
     /\ stage'.pc = "failed" /\ Result(script, db) = db
  \/ /\ ~Refused(script[stage.n], db)
     /\ Result(script, db) = (db \ script[stage.n].drops) \cup script[stage.n].adds
     /\ \/ stage.n = Len(script) /\ stage'.pc = after /\ stage'.n = 1
        \/ stage.n # Len(script) /\ stage'.pc = stage.pc /\ stage'.n = stage.n + 1

LEMMA NextStatement ==
  ASSUME NEW l \in 1..14, NEW n \in 1..l, n # l
  PROVE  n + 1 \in 1..14
OBVIOUS

LEMMA RunFacts ==
  ASSUME BootTypeOK, NEW script, Len(script) \in 1..14, stage.n \in 1..Len(script),
         NEW db, NEW after \in Pc, RunStatement(script, db, after)
  PROVE  /\ stage' \in StageState /\ stage'.quiet = stage.quiet
         /\ RunsTo(script, db, after)
<1> USE DEF RunsTo
<1>1. "failed" \in Pc
  BY DEF Pc
<1>2. CASE Refused(script[stage.n], db)
  <2>1. Goto("failed") /\ Result(script, db) = db
    BY <1>2 DEF RunStatement, Result
  <2> QED
    BY <1>1, <1>2, <2>1, GotoFacts
<1>3. CASE ~Refused(script[stage.n], db)
  <2>1. Result(script, db) = (db \ script[stage.n].drops) \cup script[stage.n].adds
    BY <1>3 DEF Result
  <2>2. CASE stage.n = Len(script)
    <3>1. Goto(after)
      BY <1>3, <2>2 DEF RunStatement
    <3> QED
      BY <1>3, <2>1, <2>2, <3>1, GotoFacts
  <2>3. CASE stage.n # Len(script)
    <3>1. stage' = [stage EXCEPT !.n = stage.n + 1]
      BY <1>3, <2>3 DEF RunStatement
    <3>2. stage.n + 1 \in 1..14
      BY <2>3, NextStatement
    <3>3. /\ stage \in StageState /\ stage.pc \in Pc /\ stage.quiet \in BOOLEAN
      BY BootFields
    <3>4. stage' = [pc |-> stage.pc, n |-> stage.n + 1, quiet |-> stage.quiet]
      BY <3>1, <3>3 DEF StageState
    <3>5. /\ stage' \in StageState /\ stage'.pc = stage.pc /\ stage'.n = stage.n + 1
          /\ stage'.quiet = stage.quiet
      BY <3>2, <3>3, <3>4 DEF StageState
    <3> QED
      BY <1>3, <2>1, <2>3, <3>5
  <2> QED
    BY <2>2, <2>3
<1> QED
  BY <1>2, <1>3

LEMMA StartKeeps ==
  ASSUME BootIInv, Boot \/ ensure_postgres \/ Initdb \/ SpawnPostgres \/ Exists
  PROVE  BootIInv'
<1> USE BaselineStatements DEF BootIInv
<1>1. CASE Boot
  <2>1. /\ stage' \in StageState /\ stage'.pc = "postgres"
        /\ UNCHANGED <<cluster, pg, rw, recorded, kills, faults>>
    BY <1>1 DEF Boot, StageState, Pc
  <2> QED
    BY <2>1 DEF BootTypeOK, ClusterInv, ControlInv, BaselineInv, OnlyWedgesStop,
       StageState, HasPostgres, Controlled
<1>2. CASE ensure_postgres
  <2>1. /\ UNCHANGED <<pg, rw, recorded, kills, faults>>
        /\ stage' \in StageState
        /\ \/ cluster' = "half" /\ stage'.pc = "initdb"
           \/ cluster # "none" /\ cluster' = cluster /\ stage'.pc = "spawn_postgres"
    BY <1>2, GotoFacts DEF ensure_postgres, Pc
  <2> QED
    BY <2>1 DEF BootTypeOK, ClusterInv, ControlInv, BaselineInv, OnlyWedgesStop,
       StageState, HasPostgres, Controlled
<1>3. CASE Initdb
  <2>1. /\ UNCHANGED <<pg, rw, recorded, kills, faults>>
        /\ stage' \in StageState
        /\ cluster' = "ok" /\ stage'.pc = "spawn_postgres"
    BY <1>3, GotoFacts DEF Initdb, Pc
  <2> QED
    BY <2>1 DEF BootTypeOK, ClusterInv, ControlInv, BaselineInv, OnlyWedgesStop,
       StageState, HasPostgres, Controlled
<1>4. CASE SpawnPostgres
  <2>1. /\ UNCHANGED <<cluster, pg, rw, recorded, kills, faults>>
        /\ stage' \in StageState
        /\ \/ cluster = "ok" /\ stage'.pc = "exists"
           \/ cluster = "half" /\ stage'.pc = "failed"
    <3>1. cluster \in {"half", "ok"}
      BY <1>4 DEF SpawnPostgres, ClusterInv, BootTypeOK
    <3>2. "exists" \in Pc /\ "failed" \in Pc
      BY DEF Pc
    <3>3. CASE cluster = "ok"
      BY <1>4, <3>2, <3>3, GotoFacts DEF SpawnPostgres
    <3>4. CASE cluster = "half"
      BY <1>4, <3>2, <3>4, GotoFacts DEF SpawnPostgres
    <3> QED
      BY <3>1, <3>3, <3>4
  <2> QED
    BY <2>1 DEF BootTypeOK, ClusterInv, ControlInv, BaselineInv, OnlyWedgesStop,
       StageState, HasPostgres, Controlled, Wedged
<1>5. CASE Exists
  <2>1. /\ UNCHANGED <<cluster, pg, rw, recorded, kills, faults>>
        /\ stage.pc = "exists"
        /\ stage' \in StageState /\ stage'.n = 1
        /\ \/ "control_db" \in pg /\ stage'.pc = "portfolios"
           \/ "control_db" \notin pg /\ stage'.pc = "create"
    <3>1. "portfolios" \in Pc /\ "create" \in Pc
      BY DEF Pc
    <3>2. CASE "control_db" \in pg
      BY <1>5, <3>1, <3>2, GotoFacts DEF Exists
    <3>3. CASE "control_db" \notin pg
      BY <1>5, <3>1, <3>3, GotoFacts DEF Exists
    <3> QED
      BY <3>2, <3>3
  <2>2. Before(Portfolios, 1) = {}
    BY BeforeFirst
  <2>3. ControlInv'
    BY <2>1, <2>2 DEF ControlInv, Controlled
  <2> QED
    BY <2>1, <2>3 DEF BootTypeOK, ClusterInv, BaselineInv, OnlyWedgesStop,
       StageState, HasPostgres
<1> QED
  BY <1>1, <1>2, <1>3, <1>4, <1>5

-----------------------------------------------------------------------------
(***************************************************************************)
(* control_db                                                              *)
(***************************************************************************)

\* A step that leaves the cluster and RisingWave alone.
LEMMA ControlStep ==
  ASSUME BootIInv, stage.pc \in {"create", "schema", "portfolios"},
         stage' \in StageState,
         stage'.pc \in {"create", "schema", "portfolios", "risingwave", "failed"},
         UNCHANGED <<cluster, rw, recorded, kills, faults>>,
         pg' \subseteq Objects(CreateDatabase \o Schema \o Portfolios),
         ControlInv', OnlyWedgesStop'
  PROVE  BootIInv'
<1> USE BaselineStatements DEF BootIInv
<1>1. BootTypeOK'
  BY DEF BootTypeOK, StageState
<1>2. ClusterInv' /\ BaselineInv'
  BY DEF ClusterInv, BaselineInv, HasPostgres
<1> QED
  BY <1>1, <1>2

LEMMA CreateKeeps ==
  ASSUME BootIInv, stage.pc = "create", RunStatement(CreateDatabase, pg, "schema"),
         pg' = Result(CreateDatabase, pg),
         UNCHANGED <<cluster, rw, recorded, kills, faults>>
  PROVE  BootIInv'
<1> USE ControlStatements DEF BootIInv
<1>1. stage.n = 1 /\ "control_db" \notin pg /\ pg = {}
  BY DEF ControlInv
<1>2. ~Refused(CreateDatabase[stage.n], pg)
  BY <1>1, ControlTable DEF Refused
<1>3. /\ stage' \in StageState /\ stage'.pc = "schema" /\ stage'.n = 1
      /\ Result(CreateDatabase, pg)
           = (pg \ CreateDatabase[stage.n].drops) \cup CreateDatabase[stage.n].adds
  <2>1. "schema" \in Pc /\ Len(CreateDatabase) \in 1..14
        /\ stage.n \in 1..Len(CreateDatabase)
    BY <1>1 DEF Pc
  <2>2. stage' \in StageState /\ RunsTo(CreateDatabase, pg, "schema")
    BY <2>1, RunFacts
  <2> QED
    BY <1>1, <1>2, <2>2 DEF RunsTo
<1>4. pg' = {"control_db"} /\ Objects(CreateDatabase) = {"control_db"}
  <2>1. 1..1 = {1} /\ DOMAIN CreateDatabase = 1..1
    BY DEF CreateDatabase
  <2>2. Objects(CreateDatabase) = {"control_db"}
    BY <2>1, ControlTable DEF Objects, Range
  <2> QED
    BY <1>1, <1>3, <2>2, ControlTable
<1>5. ControlInv'
  BY <1>3, <1>4, BeforeFirst DEF ControlInv, Controlled
<1>6. OnlyWedgesStop'
  BY <1>3 DEF OnlyWedgesStop
<1> QED
  BY <1>3, <1>4, <1>5, <1>6, ControlObjects, ControlStep

LEMMA SchemaKeeps ==
  ASSUME BootIInv, stage.pc = "schema", RunStatement(Schema, pg, "portfolios"),
         pg' = Result(Schema, pg),
         UNCHANGED <<cluster, rw, recorded, kills, faults>>
  PROVE  BootIInv'
<1> USE ControlStatements DEF BootIInv
<1>1. stage.n \in 1..4 /\ pg = {"control_db"} \cup Before(Schema, stage.n)
  BY DEF ControlInv
<1>2. /\ Before(Schema, 1) = {} /\ Before(Schema, 2) = {"control_plane"}
      /\ Before(Schema, 3) = {"control_plane", "rw_replicator"}
      /\ Before(Schema, 4) = {"control_plane", "rw_replicator", "owner"}
      /\ Before(Schema, 5) = {"control_plane", "rw_replicator", "owner", "connect"}
  BY SchemaBefore
<1>3. ~Refused(Schema[stage.n], pg)
  <2>1. CASE stage.n = 1
    BY <1>1, <1>2, <2>1, ControlTable DEF Refused
  <2>2. CASE stage.n = 2
    BY <1>1, <1>2, <2>2, ControlTable DEF Refused
  <2>3. CASE stage.n = 3
    BY <1>1, <1>2, <2>3, ControlTable DEF Refused
  <2>4. CASE stage.n = 4
    BY <1>1, <1>2, <2>4, ControlTable DEF Refused
  <2> QED
    BY <1>1, <2>1, <2>2, <2>3, <2>4
<1>4. /\ stage' \in StageState
      /\ Result(Schema, pg) = (pg \ Schema[stage.n].drops) \cup Schema[stage.n].adds
      /\ \/ stage.n = 4 /\ stage'.pc = "portfolios" /\ stage'.n = 1
         \/ stage.n # 4 /\ stage'.pc = "schema" /\ stage'.n = stage.n + 1
  <2>1. "portfolios" \in Pc /\ Len(Schema) \in 1..14
    BY DEF Pc
  <2>2. stage' \in StageState /\ RunsTo(Schema, pg, "portfolios")
    BY <1>1, <2>1, RunFacts
  <2> QED
    BY <1>1, <1>3, <2>2 DEF RunsTo
<1>5. /\ Schema[stage.n].drops = {}
      /\ Before(Schema, stage.n + 1) = Before(Schema, stage.n) \cup Schema[stage.n].adds
  BY <1>1, ControlTable, BeforeFacts
<1>6. pg' = {"control_db"} \cup Before(Schema, stage.n + 1)
  BY <1>1, <1>4, <1>5
<1>7. ControlInv'
  <2>1. CASE stage.n = 4
    BY <1>4, <1>6, <2>1, BeforeFirst DEF ControlInv, Controlled
  <2>2. CASE stage.n # 4
    <3>1. stage'.pc = "schema" /\ stage'.n = stage.n + 1 /\ stage.n + 1 \in 1..4
      BY <1>1, <1>4, <2>2
    <3>2. pg' = {"control_db"} \cup Before(Schema, stage'.n)
      BY <1>6, <3>1
    <3> QED
      BY <3>1, <3>2 DEF ControlInv, Controlled
  <2> QED
    BY <2>1, <2>2
<1>8. pg' \subseteq Objects(CreateDatabase \o Schema \o Portfolios)
  <2>1. stage.n \in DOMAIN Schema
    BY <1>1 DEF Schema
  <2>2. Schema[stage.n].adds \subseteq Objects(Schema)
    BY <2>1 DEF Objects, Range
  <2> QED
    BY <1>4, <2>2, ControlObjects DEF BootTypeOK
<1>9. OnlyWedgesStop'
  BY <1>4 DEF OnlyWedgesStop
<1> QED
  BY <1>4, <1>7, <1>8, <1>9, ControlStep

\* The grants need a role that the schema made, or did not.
LEMMA PortfoliosKeeps ==
  ASSUME BootIInv, stage.pc = "portfolios", RunStatement(Portfolios, pg, "risingwave"),
         pg' = Result(Portfolios, pg),
         UNCHANGED <<cluster, rw, recorded, kills, faults>>
  PROVE  BootIInv'
<1> USE ControlStatements DEF BootIInv
<1>1. /\ stage.n \in 1..3 /\ "control_db" \in pg
      /\ Before(Portfolios, stage.n) \subseteq pg
      /\ stage.n = 3 => "rw_replicator" \in pg
  BY DEF ControlInv
<1>2. stage' \in StageState /\ RunsTo(Portfolios, pg, "risingwave")
  <2>1. "risingwave" \in Pc /\ Len(Portfolios) \in 1..14
    BY DEF Pc
  <2> QED
    BY <1>1, <2>1, RunFacts
<1>3. CASE Refused(Portfolios[stage.n], pg)
  <2>1. stage.n = 2 /\ "rw_replicator" \notin pg
    <3>1. ~Portfolios[stage.n].plain /\ ~(Portfolios[stage.n].needs \subseteq pg)
      BY <1>1, <1>3, ControlTable DEF Refused
    <3>2. stage.n \in {1, 2, 3}
      BY <1>1
    <3> QED
      BY <3>1, <3>2, ControlTable
  <2>2. stage' \in StageState /\ stage'.pc = "failed" /\ pg' = pg
    BY <1>1, <1>2, <1>3 DEF RunsTo
  <2>3. ControlInv'
    BY <2>2 DEF ControlInv, Controlled
  <2>4. OnlyWedgesStop'
    BY <1>1, <2>1, <2>2 DEF OnlyWedgesStop, Wedged
  <2> QED
    BY <2>2, <2>3, <2>4, ControlStep DEF BootTypeOK
<1>4. CASE ~Refused(Portfolios[stage.n], pg)
  <2>1. /\ stage' \in StageState
        /\ pg' = (pg \ Portfolios[stage.n].drops) \cup Portfolios[stage.n].adds
        /\ \/ stage.n = 3 /\ stage'.pc = "risingwave" /\ stage'.n = 1
           \/ stage.n # 3 /\ stage'.pc = "portfolios" /\ stage'.n = stage.n + 1
    BY <1>1, <1>2, <1>4 DEF RunsTo
  <2>2. /\ Portfolios[stage.n].drops = {}
        /\ Before(Portfolios, stage.n + 1)
             = Before(Portfolios, stage.n) \cup Portfolios[stage.n].adds
    BY <1>1, ControlTable, BeforeFacts
  <2>3. pg \subseteq pg' /\ Before(Portfolios, stage.n + 1) \subseteq pg'
    BY <1>1, <2>1, <2>2
  <2>4. stage.n = 2 => "rw_replicator" \in pg
    BY <1>4, ControlTable DEF Refused
  <2>5. ControlInv'
    <3>1. CASE stage.n = 3
      <4>1. Objects(Portfolios) \subseteq pg'
        BY <2>3, <3>1, ScriptsBefore
      <4> QED
        BY <1>1, <2>1, <2>3, <3>1, <4>1 DEF ControlInv, Controlled
    <3>2. CASE stage.n # 3
      BY <1>1, <2>1, <2>3, <2>4, <3>2 DEF ControlInv, Controlled
    <3> QED
      BY <3>1, <3>2
  <2>6. pg' \subseteq Objects(CreateDatabase \o Schema \o Portfolios)
    <3>1. stage.n \in DOMAIN Portfolios
      BY <1>1 DEF Portfolios
    <3>2. Portfolios[stage.n].adds \subseteq Objects(Portfolios)
      BY <3>1 DEF Objects, Range
    <3> QED
      BY <2>1, <3>2, ControlObjects DEF BootTypeOK
  <2>7. OnlyWedgesStop'
    BY <2>1 DEF OnlyWedgesStop
  <2> QED
    BY <2>1, <2>5, <2>6, <2>7, ControlStep
<1> QED
  BY <1>3, <1>4

LEMMA BootstrapKeeps ==
  ASSUME BootIInv, bootstrap_control_db
  PROVE  BootIInv'
<1>1. PICK step \in {<<"create", CreateDatabase, "schema">>,
                     <<"schema", Schema, "portfolios">>,
                     <<"portfolios", Portfolios, "risingwave">>} :
         /\ stage.pc = step[1]
         /\ RunStatement(step[2], pg, step[3])
         /\ pg' = Result(step[2], pg)
  BY DEF bootstrap_control_db
<1>2. UNCHANGED <<cluster, rw, recorded, kills, faults>>
  BY DEF bootstrap_control_db
<1>3. CASE step = <<"create", CreateDatabase, "schema">>
  BY <1>1, <1>2, <1>3, CreateKeeps
<1>4. CASE step = <<"schema", Schema, "portfolios">>
  BY <1>1, <1>2, <1>4, SchemaKeeps
<1>5. CASE step = <<"portfolios", Portfolios, "risingwave">>
  BY <1>1, <1>2, <1>5, PortfoliosKeeps
<1> QED
  BY <1>1, <1>3, <1>4, <1>5

-----------------------------------------------------------------------------
(***************************************************************************)
(* RisingWave                                                              *)
(***************************************************************************)

\* A step that leaves Postgres alone, with control_db there.
LEMMA RisingWaveStep ==
  ASSUME BootIInv, stage.pc \in Controlled, stage' \in StageState,
         stage'.pc \in Controlled \cup {"failed"},
         UNCHANGED <<cluster, pg, kills, faults>>,
         rw' \subseteq Objects(Baseline), recorded' \in BOOLEAN,
         BaselineInv', OnlyWedgesStop'
  PROVE  BootIInv'
<1> USE BaselineStatements DEF BootIInv
<1>1. BootTypeOK'
  BY DEF BootTypeOK, StageState
<1>2. ClusterInv' /\ ControlInv'
  BY DEF ClusterInv, ControlInv, HasPostgres, Controlled
<1> QED
  BY <1>1, <1>2

LEMMA RisingWaveKeeps ==
  ASSUME BootIInv, RisingWave \/ is_applied \/ Record
  PROVE  BootIInv'
<1> USE DEF BootIInv
<1>1. CASE RisingWave
  <2>1. /\ stage' \in StageState /\ stage'.pc = "is_applied" /\ stage.pc = "risingwave"
        /\ UNCHANGED <<cluster, pg, rw, recorded, kills, faults>>
    BY <1>1, GotoFacts DEF RisingWave, Pc
  <2>2. BaselineInv' /\ OnlyWedgesStop'
    BY <2>1 DEF BaselineInv, OnlyWedgesStop
  <2> QED
    BY <2>1, <2>2, RisingWaveStep DEF Controlled, BootTypeOK
<1>2. CASE is_applied
  <2>1. "up" \in Pc /\ "baseline" \in Pc
    BY DEF Pc
  <2>2. /\ stage.pc = "is_applied"
        /\ UNCHANGED <<cluster, pg, rw, recorded, kills, faults>>
    BY <1>2 DEF is_applied
  <2>3. CASE recorded
    <3>1. stage' \in StageState /\ stage'.pc = "up"
      BY <1>2, <2>1, <2>3, GotoFacts DEF is_applied
    <3>2. BaselineInv' /\ OnlyWedgesStop'
      BY <2>2, <2>3, <3>1 DEF BaselineInv, OnlyWedgesStop
    <3> QED
      BY <2>2, <3>1, <3>2, RisingWaveStep DEF Controlled, BootTypeOK
  <2>4. CASE ~recorded
    <3>1. stage' \in StageState /\ stage'.pc = "baseline" /\ stage'.n = 1
      BY <1>2, <2>1, <2>4, GotoFacts DEF is_applied
    <3>2. Before(Baseline, 1) = {}
      BY BeforeFirst
    <3>3. BaselineInv' /\ OnlyWedgesStop'
      BY <2>2, <2>4, <3>1, <3>2 DEF BaselineInv, OnlyWedgesStop
    <3> QED
      BY <2>2, <3>1, <3>3, RisingWaveStep DEF Controlled, BootTypeOK
  <2> QED
    BY <2>3, <2>4
<1>3. CASE Record
  <2>1. /\ stage' \in StageState /\ stage'.pc = "up" /\ stage.pc = "record"
        /\ recorded' = TRUE
        /\ UNCHANGED <<cluster, pg, rw, kills, faults>>
    BY <1>3, GotoFacts DEF Record, Pc
  <2>2. BaselineInv' /\ OnlyWedgesStop'
    BY <2>1 DEF BaselineInv, OnlyWedgesStop
  <2> QED
    BY <2>1, <2>2, RisingWaveStep DEF Controlled, BootTypeOK
<1> QED
  BY <1>1, <1>2, <1>3

\* What a statement leaves, where a boot meets it.
LEMMA StatementLeaves ==
  ASSUME BootIInv, stage.pc = "baseline", NEW db, ~Refused(Baseline[stage.n], rw),
         db = (rw \ Baseline[stage.n].drops) \cup Baseline[stage.n].adds
  PROVE  /\ ~recorded \/ stage.n \in 1..2
         /\ db \subseteq Objects(Baseline) /\ Before(Baseline, stage.n + 1) \subseteq db
         /\ db \cap Late # {} => "fold_per_event" \in db
         /\ stage.n = 3 => "fold_kernel" \notin db
         /\ stage.n \in 3..6 => "fold_per_event" \notin db
         /\ stage.n \in 7..14 => db = Before(Baseline, stage.n + 1)
         /\ stage.n \in 1..2 => db = rw \cup Baseline[stage.n].adds
<1> USE BaselineStatements DEF BootIInv
<1>1. /\ stage.n \in 1..14 /\ rw \subseteq Objects(Baseline)
      /\ Before(Baseline, stage.n) \subseteq rw
      /\ rw \cap Late # {} => "fold_per_event" \in rw
      /\ stage.n \in 4..7 => "fold_per_event" \notin rw
      /\ stage.n \in 8..14 => rw = Before(Baseline, stage.n)
      /\ recorded => rw = Objects(Baseline)
      /\ recorded => stage.n \in 1..3
  BY BootFields DEF BaselineInv, BootTypeOK
<1>2. stage.n = 3 => "fold_per_event" \notin rw
  <2>1. Baseline[3].users = {"fold_per_event"}
    BY BaselineTable
  <2> QED
    BY <2>1 DEF Refused
<1>3. Before(Baseline, stage.n + 1) = Before(Baseline, stage.n) \cup Baseline[stage.n].adds
  BY <1>1, BeforeFacts
<1>4. Baseline[stage.n].adds \subseteq Objects(Baseline)
  BY <1>1 DEF Objects, Range
<1>5. CASE stage.n \in 1..2
  <2>1. stage.n \in {1, 2}
    BY <1>5
  <2>2. Baseline[stage.n].drops = {} /\ Baseline[stage.n].adds \cap Late = {}
    BY <2>1, BaselineTable, LateObjects DEF Folded
  <2>3. db = rw \cup Baseline[stage.n].adds
    BY <2>2
  <2> QED
    BY <1>1, <1>3, <1>4, <1>5, <2>2, <2>3
<1>6. CASE stage.n \in 3..6
  <2>1. "fold_per_event" \notin rw
    BY <1>1, <1>2, <1>6
  <2>2. rw \cap Late = {} /\ rw \subseteq Before(Baseline, 7)
    BY <1>1, <2>1, NotYetLate
  <2>3. ~recorded
    <3>1. "fold_per_event" \in Objects(Baseline)
      BY LateObjects DEF Folded
    <3> QED
      BY <1>1, <2>1, <3>1
  <2>4. Baseline[stage.n].adds \cap Late = {}
    <3>1. stage.n \in {3, 4, 5, 6}
      BY <1>6
    <3>2. Late = Folded \cup {"instruments_used", "ohlcv_coverage", "data_coverage"}
      BY LateObjects
    <3> QED
      BY <3>1, <3>2, BaselineTable DEF Folded
  <2>5. db \cap Late = {} /\ "fold_per_event" \notin db
    <3>1. "fold_per_event" \in Late
      BY LateObjects DEF Folded
    <3> QED
      BY <2>2, <2>4, <3>1
  <2>6. Before(Baseline, stage.n) \cap Baseline[stage.n].drops = {}
    <3>1. CASE stage.n = 3
      BY <3>1, BaselineTable, BaselineBefore
    <3>2. CASE stage.n = 6
      BY <3>2, BaselineTable, BaselineBefore DEF Folded
    <3>3. CASE stage.n \notin {3, 6}
      BY <1>1, <3>3, BaselineTable
    <3> QED
      BY <3>1, <3>2, <3>3
  <2>7. Before(Baseline, stage.n + 1) \subseteq db
    BY <1>1, <1>3, <2>6
  <2>8. stage.n = 3 => "fold_kernel" \notin db
    <3>1. Baseline[3].drops = {"fold_kernel"} /\ Baseline[3].adds = {}
      BY BaselineTable
    <3> QED
      BY <3>1
  <2>9. db \subseteq Objects(Baseline)
    BY <1>1, <1>4
  <2>10. stage.n \notin 1..2 /\ stage.n \notin 7..14
    BY <1>6
  <2> QED
    BY <2>3, <2>5, <2>7, <2>8, <2>9, <2>10
<1>7. CASE stage.n \in 7..14
  <2>1. Baseline[stage.n].drops = {} /\ ~recorded
    BY <1>1, <1>7, BaselineTable
  <2>2. rw = Before(Baseline, stage.n)
    <3>1. CASE stage.n = 7
      BY <1>1, <3>1, NotYetLate
    <3>2. CASE stage.n # 7
      BY <1>1, <1>7, <3>2
    <3> QED
      BY <3>1, <3>2
  <2>3. db = Before(Baseline, stage.n + 1)
    BY <1>3, <2>1, <2>2
  <2>4. "fold_per_event" \in Before(Baseline, stage.n + 1)
    <3> DEFINE i == 7
    <3>1. i \in 1..((stage.n + 1) - 1)
      BY <1>7
    <3>2. "fold_per_event" \in Baseline[i].adds
      BY BaselineTable
    <3> HIDE DEF i
    <3>3. Before(Baseline, stage.n + 1) = UNION {Baseline[j].adds : j \in 1..((stage.n + 1) - 1)}
      BY DEF Before
    <3> QED
      BY <3>1, <3>2, <3>3, Zenon
  <2>5. db \subseteq Objects(Baseline)
    BY <1>1, <1>4
  <2>6. stage.n \notin 1..2 /\ stage.n \notin 3..6 /\ stage.n # 3
    BY <1>7
  <2> QED
    BY <2>1, <2>3, <2>4, <2>5, <2>6
<1>8. stage.n \in 1..2 \/ stage.n \in 3..6 \/ stage.n \in 7..14
  BY <1>1
<1> QED
  BY <1>5, <1>6, <1>7, <1>8

\* Only the drop of the aggregate can be in the way of the baseline.
LEMMA ApplyBaselineKeeps ==
  ASSUME BootIInv, ApplyBaseline
  PROVE  BootIInv'
<1> USE BaselineStatements DEF BootIInv
<1>1. /\ stage.pc = "baseline" /\ RunStatement(Baseline, rw, "record")
      /\ rw' = Result(Baseline, rw)
      /\ UNCHANGED <<cluster, pg, recorded, kills, faults>>
  BY DEF ApplyBaseline
<1>2. /\ stage.n \in 1..14 /\ stage.pc \in Controlled /\ rw \subseteq Objects(Baseline)
      /\ recorded \in BOOLEAN
      /\ recorded => ~stage.quiet /\ rw = Objects(Baseline)
  BY <1>1, BootFields DEF BaselineInv, Controlled, BootTypeOK
<1>3. /\ stage' \in StageState /\ stage'.quiet = stage.quiet
      /\ \/ /\ Refused(Baseline[stage.n], rw)
            /\ stage'.pc = "failed" /\ rw' = rw
         \/ /\ ~Refused(Baseline[stage.n], rw)
            /\ rw' = (rw \ Baseline[stage.n].drops) \cup Baseline[stage.n].adds
            /\ \/ stage.n = 14 /\ stage'.pc = "record" /\ stage'.n = 1
               \/ stage.n # 14 /\ stage'.pc = "baseline" /\ stage'.n = stage.n + 1
  <2>1. "record" \in Pc /\ Len(Baseline) \in 1..14
    BY DEF Pc
  <2>2. /\ stage' \in StageState /\ stage'.quiet = stage.quiet
        /\ RunsTo(Baseline, rw, "record")
    BY <1>1, <1>2, <2>1, RunFacts
  <2> QED
    BY <1>1, <2>2 DEF RunsTo
<1>4. CASE Refused(Baseline[stage.n], rw)
  <2>1. stage'.pc = "failed" /\ rw' = rw
    BY <1>3, <1>4
  <2>2. "fold_per_event" \in rw
    <3>1. /\ stage.n = 4 => "fold_kernel" \notin rw
          /\ stage.n \in 4..7 => "fold_per_event" \notin rw
          /\ stage.n \in 8..14 => rw = Before(Baseline, stage.n)
      BY <1>1 DEF BaselineInv
    <3> QED
      BY <1>2, <1>4, <3>1, OnlyTheDropIsRefused
  <2>3. BaselineInv'
    BY <1>1, <2>1 DEF BaselineInv
  <2>4. OnlyWedgesStop'
    BY <1>1, <1>2, <1>3, <2>1, <2>2 DEF OnlyWedgesStop, Wedged
  <2> QED
    BY <1>1, <1>2, <1>3, <2>1, <2>3, <2>4, RisingWaveStep DEF BootTypeOK
<1>5. CASE ~Refused(Baseline[stage.n], rw)
  <2>1. rw' = (rw \ Baseline[stage.n].drops) \cup Baseline[stage.n].adds
    BY <1>3, <1>5
  <2>2. /\ ~recorded \/ stage.n \in 1..2
        /\ rw' \subseteq Objects(Baseline) /\ Before(Baseline, stage.n + 1) \subseteq rw'
        /\ rw' \cap Late # {} => "fold_per_event" \in rw'
        /\ stage.n = 3 => "fold_kernel" \notin rw'
        /\ stage.n \in 3..6 => "fold_per_event" \notin rw'
        /\ stage.n \in 7..14 => rw' = Before(Baseline, stage.n + 1)
        /\ stage.n \in 1..2 => rw' = rw \cup Baseline[stage.n].adds
    BY <1>1, <1>5, <2>1, StatementLeaves
  <2>3. recorded => rw' = Objects(Baseline)
    <3>1. Baseline[stage.n].adds \subseteq Objects(Baseline)
      BY <1>2 DEF Objects, Range
    <3> QED
      BY <1>2, <2>2, <3>1
  <2>4. BaselineInv' /\ OnlyWedgesStop'
    <3>1. CASE stage.n = 14
      <4>1. /\ stage'.pc = "record" /\ rw' = Objects(Baseline) /\ ~recorded
        BY <1>3, <1>5, <2>2, <3>1, ScriptsBefore
      <4> QED
        BY <1>1, <2>2, <4>1 DEF BaselineInv, OnlyWedgesStop
    <3>2. CASE stage.n # 14
      <4>1. stage'.pc = "baseline" /\ stage'.n = stage.n + 1
        BY <1>3, <1>5, <3>2
      <4>2. /\ stage'.n = 4 => stage.n = 3
            /\ stage'.n \in 4..7 => stage.n \in 3..6
            /\ stage'.n \in 8..14 => stage.n \in 7..14
            /\ stage.n \in 1..2 => stage'.n \in 1..3
        BY <1>2, <4>1
      <4>3. /\ Before(Baseline, stage'.n) \subseteq rw'
            /\ stage'.n \in 8..14 => rw' = Before(Baseline, stage'.n)
        BY <2>2, <4>1, <4>2
      <4>4. recorded' => stage'.n \in 1..3 /\ ~stage'.quiet
        BY <1>1, <1>2, <1>3, <2>2, <4>2
      <4> QED
        BY <1>1, <2>2, <2>3, <4>1, <4>2, <4>3, <4>4 DEF BaselineInv, OnlyWedgesStop
    <3> QED
      BY <3>1, <3>2
  <2>5. stage'.pc \in Controlled
    BY <1>3, <1>5 DEF Controlled
  <2> QED
    BY <1>1, <1>2, <1>3, <2>2, <2>4, <2>5, RisingWaveStep DEF BootTypeOK
<1> QED
  BY <1>4, <1>5

-----------------------------------------------------------------------------
(***************************************************************************)
(* What goes wrong                                                         *)
(***************************************************************************)

LEMMA FaultKeeps ==
  ASSUME BootIInv, Fault
  PROVE  BootIInv'
<1> USE BaselineStatements DEF BootIInv
<1> DEFINE pc == IF stage.pc = "is_applied" THEN "baseline" ELSE "failed"
<1>1. /\ stage.pc \in Running /\ faults' \in 0..MaxFault
      /\ cluster' = (IF stage.pc = "initdb" THEN "none" ELSE cluster)
      /\ stage' = [pc |-> pc, n |-> 1, quiet |-> FALSE]
      /\ UNCHANGED <<pg, rw, recorded, kills>>
  BY BootstrapBounds DEF Fault, BootTypeOK
<1>2. /\ stage'.pc = pc /\ stage'.n = 1 /\ stage'.quiet = FALSE
      /\ stage' \in StageState
  BY <1>1 DEF StageState, Pc
<1>3. BootTypeOK'
  BY <1>1, <1>2 DEF BootTypeOK, StageState
<1>4. CASE stage.pc = "is_applied"
  <2>1. Before(Baseline, 1) = {}
    BY BeforeFirst
  <2>2. stage'.pc = "baseline" /\ cluster' = cluster
    BY <1>1, <1>2, <1>4
  <2>3. ClusterInv' /\ ControlInv'
    BY <1>1, <1>4, <2>2 DEF ClusterInv, ControlInv, HasPostgres, Controlled
  <2>4. BaselineInv'
    BY <1>1, <1>2, <2>1, <2>2 DEF BaselineInv, BootTypeOK
  <2>5. OnlyWedgesStop'
    BY <2>2 DEF OnlyWedgesStop
  <2> QED
    BY <1>3, <2>3, <2>4, <2>5
<1>5. CASE stage.pc # "is_applied"
  <2>1. stage'.pc = "failed"
    BY <1>2, <1>5
  <2>2. ClusterInv' /\ ControlInv' /\ BaselineInv'
    BY <1>1, <2>1 DEF ClusterInv, ControlInv, BaselineInv, HasPostgres, Controlled
  <2>3. OnlyWedgesStop'
    BY <1>2 DEF OnlyWedgesStop
  <2> QED
    BY <1>3, <2>2, <2>3
<1> QED
  BY <1>4, <1>5

LEMMA KillKeeps ==
  ASSUME BootIInv, Kill
  PROVE  BootIInv'
<1> USE BaselineStatements DEF BootIInv
<1>1. /\ kills' \in 0..MaxKill /\ stage' \in StageState /\ stage'.pc = "off"
      /\ cluster' \in {"none", "half", "ok"}
      /\ UNCHANGED <<pg, rw, recorded, faults>>
  BY BootstrapBounds, GotoFacts DEF Kill, BootTypeOK, Pc
<1> QED
  BY <1>1 DEF BootTypeOK, StageState, ClusterInv, ControlInv, BaselineInv,
     OnlyWedgesStop, HasPostgres, Controlled

-----------------------------------------------------------------------------
(***************************************************************************)
(* The theorems                                                            *)
(***************************************************************************)

LEMMA BootstrapInit ==
  ASSUME BootInit
  PROVE  BootIInv
<1>1. stage.pc = "off" /\ stage.n = 1 /\ stage.quiet = TRUE
  BY DEF BootInit
<1>2. BootTypeOK
  <2>1. stage \in [pc : Pc, n : 1..Len(Baseline), quiet : BOOLEAN]
    BY BaselineStatements DEF BootInit, Pc
  <2>2. kills \in 0..MaxKill /\ faults \in 0..MaxFault
    BY BootstrapBounds DEF BootInit
  <2> QED
    BY <2>1, <2>2 DEF BootInit, BootTypeOK
<1>3. ClusterInv /\ ControlInv /\ OnlyWedgesStop
  BY <1>1 DEF BootInit, ClusterInv, ControlInv, OnlyWedgesStop, HasPostgres, Controlled
<1>4. BaselineInv
  BY <1>1 DEF BootInit, BaselineInv
<1> QED
  BY <1>2, <1>3, <1>4 DEF BootIInv

LEMMA BootstrapNext ==
  ASSUME BootIInv, [BootNext]_boot_vars
  PROVE  BootIInv'
<1>1. CASE Boot
  BY <1>1, StartKeeps
<1>2. CASE BootStep
  BY <1>2, StartKeeps, BootstrapKeeps, RisingWaveKeeps, ApplyBaselineKeeps
     DEF BootStep
<1>3. CASE Fault
  BY <1>3, FaultKeeps
<1>4. CASE Kill
  BY <1>4, KillKeeps
<1>5. CASE UNCHANGED boot_vars
  BY <1>5 DEF boot_vars, BootIInv, BootTypeOK, ClusterInv, ControlInv, BaselineInv,
     OnlyWedgesStop, Wedged
<1> QED
  BY <1>1, <1>2, <1>3, <1>4, <1>5 DEF BootNext

\* Through every kill and failed call of a boot (bring_up, apply.sh) the disk stays
\* in one of the states the next boot is written for, or in a wedged one.
THEOREM BootstrapInvariant == BootSpec => []BootIInv
BY BootstrapInit, BootstrapNext, PTL DEF BootSpec

\* A plane that has come up is complete, a failed query of is_applied that was
\* taken for an answer included (bring_up: bootstrap_control_db, apply.sh).
THEOREM BootstrapUpIsComplete == BootSpec => []BootInv
<1>1. BootIInv => BootInv
  BY DEF BootIInv, BootInv, UpIsComplete, ClusterInv, ControlInv, BaselineInv,
     HasPostgres, Controlled
<1> QED
  BY <1>1, BootstrapInvariant, PTL

\* A boot in which no call failed stops only at a disk no boot comes up from.
THEOREM BootstrapOnlyWedgesStop == BootSpec => []OnlyWedgesStop
<1>1. BootIInv => OnlyWedgesStop
  BY DEF BootIInv
<1> QED
  BY <1>1, BootstrapInvariant, PTL

\* No boot, kill or failure takes away what users wrote: nothing the baseline
\* drops is a log, and only a cluster nobody used yet is removed.
THEOREM BootstrapKeepsUserData == BootSpec => UserDataKept
<1> DEFINE Kept == /\ cluster = "ok" => cluster' = "ok"
                   /\ pg \subseteq pg'
                   /\ "logs" \in rw => "logs" \in rw'
<1>1. ASSUME BootIInv, [BootNext]_boot_vars
      PROVE  [Kept]_boot_vars
  <2>1. CASE bootstrap_control_db
    <3>1. \A n \in 1..4 : Schema[n].drops = {}
      BY ControlTable
    <3>2. pg \subseteq pg'
      <4>1. PICK step \in {<<"create", CreateDatabase, "schema">>,
                           <<"schema", Schema, "portfolios">>,
                           <<"portfolios", Portfolios, "risingwave">>} :
               stage.pc = step[1] /\ pg' = Result(step[2], pg)
        BY <2>1 DEF bootstrap_control_db
      <4>2. step[2][stage.n].drops = {}
        <5>1. CASE step = <<"create", CreateDatabase, "schema">>
          BY <1>1, <4>1, <5>1, ControlTable DEF BootIInv, ControlInv
        <5>2. CASE step = <<"schema", Schema, "portfolios">>
          BY <1>1, <4>1, <5>2, ControlTable DEF BootIInv, ControlInv
        <5>3. CASE step = <<"portfolios", Portfolios, "risingwave">>
          BY <1>1, <4>1, <5>3, ControlTable DEF BootIInv, ControlInv
        <5> QED
          BY <4>1, <5>1, <5>2, <5>3
      <4> QED
        BY <4>1, <4>2 DEF Result
    <3> QED
      BY <2>1, <3>2 DEF bootstrap_control_db
  <2>2. CASE ApplyBaseline
    <3>1. stage.n \in 1..14
      BY <1>1, BootFields DEF BootIInv
    <3>2. "logs" \notin Baseline[stage.n].drops
      BY <3>1, BaselineTable DEF Folded
    <3>3. "logs" \in rw => "logs" \in rw'
      BY <2>2, <3>2 DEF ApplyBaseline, Result
    <3> QED
      BY <2>2, <3>3 DEF ApplyBaseline
  <2>3. CASE /\ cluster = "ok" => cluster' = "ok"
             /\ UNCHANGED <<pg, rw>>
    BY <2>3
  <2>4. \/ bootstrap_control_db \/ ApplyBaseline
        \/ /\ cluster = "ok" => cluster' = "ok"
           /\ UNCHANGED <<pg, rw>>
    <3>1. stage.pc = "initdb" => cluster = "half"
      BY <1>1 DEF BootIInv, ClusterInv
    <3>2. Fault \/ Kill => (cluster = "ok" => cluster' = "ok") /\ UNCHANGED <<pg, rw>>
      BY <3>1 DEF Fault, Kill
    <3> QED
      BY <1>1, <3>2 DEF BootNext, BootStep, boot_vars, Boot, ensure_postgres, Initdb,
         SpawnPostgres, Exists, RisingWave, is_applied, Record
  <2> QED
    BY <2>1, <2>2, <2>3, <2>4
<1>2. BootSpec => [][Kept]_boot_vars
  BY <1>1, BootstrapInvariant, PTL DEF BootSpec
<1> QED
  BY <1>2 DEF UserDataKept
=============================================================================
