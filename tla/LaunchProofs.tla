---------------------------- MODULE LaunchProofs ----------------------------
(***************************************************************************)
(* Proofs about Launch for any number of launches, process ids, restarts   *)
(* and crashes, with both kinds of process or either of them.              *)
(***************************************************************************)
EXTENDS Launch, FiniteSetTheorems, TLAPS

(***************************************************************************)
(* What each change of the process table preserves.                        *)
(***************************************************************************)

LEMMA InitProcType == ProcInit => ProcTypeOK
BY DEF ProcInit, ProcTypeOK, NoProcess, Process, ProcState

\* A spawn changes the one process id it takes.
LEMMA SpawnedProc ==
  ASSUME ProcTypeOK, NEW p \in Pid, NEW g \in Program, Spawned(p, g)
  PROVE  /\ ProcTypeOK'
         /\ proc[p].st = "free"
         /\ proc'[p].prog = g /\ proc'[p].st = "starting"
         /\ proc'[p].child /\ ~proc'[p].term
         /\ \A q \in Pid \ {p} : proc'[q] = proc[q]
BY DEF Spawned, ProcTypeOK, Process, ProcState

\* Reaping frees the process id of the zombie.
LEMMA ReapedProc ==
  ASSUME ProcTypeOK, NEW p \in Pid, Reaped(p)
  PROVE  /\ ProcTypeOK'
         /\ proc[p].st = "zombie"
         /\ proc'[p] = NoProcess
         /\ \A q \in Pid \ {p} : proc'[q] = proc[q]
BY DEF Reaped, NoProcess, ProcTypeOK, Process, ProcState

\* pkill marks the live processes of its programs and nothing else.
LEMMA PkilledProc ==
  ASSUME ProcTypeOK, NEW G, Pkilled(G)
  PROVE  /\ ProcTypeOK'
         /\ \A q \in Pid :
              /\ proc'[q].prog = proc[q].prog
              /\ proc'[q].st = proc[q].st
              /\ proc'[q].child = proc[q].child
              /\ proc'[q].term =
                   (proc[q].term \/ (Alive(q) /\ proc[q].prog \in G))
<1> USE DEF Pkilled, Alive
<1>1. ASSUME NEW q \in Pid, Alive(q) /\ proc[q].prog \in G
      PROVE  /\ proc'[q] \in Process
             /\ proc'[q].prog = proc[q].prog
             /\ proc'[q].st = proc[q].st
             /\ proc'[q].child = proc[q].child
             /\ proc'[q].term = TRUE
  BY <1>1 DEF ProcTypeOK, Process, ProcState
<1>2. ASSUME NEW q \in Pid, ~(Alive(q) /\ proc[q].prog \in G)
      PROVE  proc'[q] = proc[q] /\ proc'[q] \in Process
  BY <1>2 DEF ProcTypeOK
<1>3. ASSUME NEW q \in Pid PROVE proc[q].term \in BOOLEAN
  BY DEF ProcTypeOK, Process
<1>4. ProcTypeOK'
  BY <1>1, <1>2 DEF ProcTypeOK
<1>5. QED
  BY <1>1, <1>2, <1>3, <1>4

\* When the shell is gone its live children are orphans, the rest is freed.
LEMMA OrphanedProc ==
  ASSUME ProcTypeOK, Orphaned
  PROVE  /\ ProcTypeOK'
         /\ \A q \in Pid : ~proc'[q].child
         /\ \A q \in Pid : proc'[q].st # "free" =>
              /\ Alive(q) /\ Alive(q)'
              /\ proc'[q].prog = proc[q].prog
              /\ proc'[q].term = proc[q].term
<1>1. ASSUME NEW q \in Pid, Alive(q)
      PROVE  /\ proc'[q] \in Process
             /\ ~proc'[q].child
             /\ proc'[q].prog = proc[q].prog
             /\ proc'[q].st = proc[q].st
             /\ proc'[q].term = proc[q].term
  BY <1>1 DEF Orphaned, ProcTypeOK, Process, ProcState
<1>2. ASSUME NEW q \in Pid, ~Alive(q)
      PROVE  proc'[q] = NoProcess
  BY <1>2 DEF Orphaned
<1>3. NoProcess \in Process /\ ~NoProcess.child /\ NoProcess.st = "free"
  BY DEF NoProcess, Process, ProcState
<1>4. ProcTypeOK'
  BY <1>1, <1>2, <1>3 DEF ProcTypeOK, Orphaned
<1>5. QED
  BY <1>1, <1>2, <1>3, <1>4 DEF Alive

\* An exit turns a child into a zombie and frees the id of an orphan.
LEMMA ExitedProc ==
  ASSUME ProcTypeOK, NEW p \in Pid, Exited(p)
  PROVE  /\ ProcTypeOK'
         /\ Alive(p) /\ ~Alive(p)'
         /\ proc[p].child => /\ proc'[p].st = "zombie"
                             /\ proc'[p].prog = proc[p].prog
                             /\ proc'[p].child
         /\ ~proc[p].child => proc'[p] = NoProcess
         /\ \A q \in Pid \ {p} : proc'[q] = proc[q]
BY DEF Exited, Alive, NoProcess, ProcTypeOK, Process, ProcState

\* Binding the port changes nothing but the state of the process.
LEMMA BoundProc ==
  ASSUME ProcTypeOK, NEW p \in Pid, Bound(p)
  PROVE  /\ ProcTypeOK'
         /\ Alive(p) /\ Alive(p)'
         /\ proc'[p].st = "serving"
         /\ \A q \in Pid : /\ proc'[q].prog = proc[q].prog
                           /\ proc'[q].term = proc[q].term
                           /\ proc'[q].child = proc[q].child
         /\ \A q \in Pid \ {p} : proc'[q] = proc[q]
BY DEF Bound, Alive, ProcTypeOK, Process, ProcState

-----------------------------------------------------------------------------
(***************************************************************************)
(* The inductive invariant.  TypeOK rests on what a monitor does at the    *)
(* cap and on the generation counting the launches that bumped it.         *)
(***************************************************************************)
TypeInv ==
  /\ TypeOK
  /\ \A q \in Program : mon[q].pc # "done" => mon[q].restarts <= MaxRestarts

\* The steps of a task between its spawn and its monitor.
Starting == {"spawn", "slot", "port", "health", "monitor"}

\* Where a task is tells which program it is starting and whether it has
\* bumped the generation.
TaskShape(t) ==
  /\ t.pc = "idle" => t.kind = "compute"
  /\ t.kind = "compute" => t.gen = 0 /\ t.pc \notin {"bump", "kill"}
  /\ t.kind = "grafana" => /\ "grafana" \in Kind
                           /\ t.pc \notin {"idle", "prepare"}
                           /\ t.gen = 0 <=> t.pc = "bump"
  /\ t.pc \in Starting => t.kind \in Kind
  /\ t.child # NoPid <=> t.pc = "slot"

\* The monitor of program q exists once the task t of its launch started it.
MonShape(q, m, t) ==
  /\ m.child # NoPid <=> m.pc \in {"wait", "store"}
  /\ m.pc # "none" =>
       IF q[1] = "grafana" THEN t.kind = "grafana" /\ t.pc = "ready"
       ELSE t.kind = "grafana" \/ t.pc \in {"prepare", "ready", "failed"}
  /\ q[1] = "grafana" /\ t.kind = "grafana" /\ t.pc = "ready" => m.pc # "none"

Shape ==
  /\ \A l \in LaunchId : TaskShape(task[l])
  /\ \A q \in Program : MonShape(q, mon[q], task[q[2]])

\* Every launch bumps the generation at most once and remembers the value.
Bumped == {l \in LaunchId : task[l].gen # 0}

Gens ==
  /\ \A l \in LaunchId : task[l].gen <= generation
  /\ \A k, l \in LaunchId : task[k].gen = task[l].gen /\ task[l].gen # 0 => k = l
  /\ Cardinality(Bumped) = generation

\* p is a child of the shell, not yet waited for, that runs a program of kind k.
ChildOf(p, k) ==
  p \in Pid /\ proc[p].child /\ proc[p].st # "free" /\ proc[p].prog[1] = k

\* A handle is that of a child nobody has waited for, and no two places hold
\* the same: the slot of a kind, a task that is about to fill it, a monitor.
Handles ==
  /\ \A k \in Kind : slot[k] # NoPid => ChildOf(slot[k], k)
  /\ \A l \in LaunchId : task[l].child # NoPid =>
       /\ ChildOf(task[l].child, task[l].kind)
       /\ proc[task[l].child].prog = Prog(l)
  /\ \A q \in Program : mon[q].child # NoPid =>
       /\ ChildOf(mon[q].child, q[1])
       /\ mon[q].pc = "store" => proc[mon[q].child].prog = q
  /\ \A q, r \in Program :
       mon[q].child = mon[r].child /\ mon[q].child # NoPid => q = r
  /\ \A q \in Program : mon[q].child # NoPid =>
       /\ \A k \in Kind : slot[k] # mon[q].child
       /\ \A l \in LaunchId : task[l].child # mon[q].child
  /\ \A k \in Kind, l \in LaunchId :
       slot[k] # NoPid => task[l].child # slot[k]

\* q has put a handle into the slot of its kind that its monitor has not taken.
InUse(q) ==
  \/ mon[q].pc \in {"health", "take"}
  \/ /\ task[q[2]].kind = q[1]
     /\ task[q[2]].pc \in {"port", "health", "monitor"}

Own(q) == q[1] = "compute" \/ Current(q[2])

\* Without a race, the handle in the slot and the one a monitor waits for are
\* those of its own program, and a monitor that ended has reported.
Tended(q) ==
  /\ InUse(q) => slot[q[1]] # NoPid /\ proc[slot[q[1]]].prog = q
  /\ Own(q) /\ mon[q].pc = "wait" => proc[mon[q].child].prog = q
  /\ Own(q) /\ mon[q].pc = "done" => q \in reported

Attendance == \A q \in Program : q[1] \notin racing => Tended(q)

\* Launch l may still spawn a Grafana or touch the shared handle or port.
Claim(l) ==
  \/ mon[<<"grafana", l>>].pc \in {"checked", "respawn", "store", "health", "take"}
  \/ task[l].kind = "grafana" /\ task[l].pc \in Starting
  \/ Current(l) /\ task[l].pc # "kill"

Calm == "grafana" \in Kind \ racing

Sole == Calm => \A k, l \in LaunchId : Claim(k) /\ Claim(l) => k = l

\* p is the one Grafana launch l looks after, and l is not about to spawn one.
Minds(l, p) ==
  LET m == mon[<<"grafana", l>>] t == task[l] IN
  /\ m.pc \notin {"woke", "checked", "respawn"}
  /\ m.pc \in {"wait", "store"} => m.child = p
  /\ m.pc \in {"health", "take"} => slot["grafana"] = p
  /\ t.kind = "grafana" =>
       /\ t.pc # "spawn"
       /\ t.pc = "slot" => t.child = p
       /\ t.pc \in {"port", "health", "monitor"} => slot["grafana"] = p

Lone ==
  Calm => /\ \A p, q \in Kept : p = q
          /\ \A l \in LaunchId, p \in Kept : Claim(l) => Minds(l, p)

IInv == /\ TypeInv /\ Shape /\ Gens /\ Handles
        /\ Attendance /\ Sole /\ Lone /\ UpstreamIsCurrent
-----------------------------------------------------------------------------
(***************************************************************************)
(* What a step may leave alone                                             *)
(***************************************************************************)

TaskPc == {"idle", "spawn", "slot", "port", "health", "monitor", "prepare",
           "bump", "kill", "ready", "failed"}

\* A step of launch l leaves the tasks and monitors of the others alone.
OtherTasks(l) == \A k \in LaunchId \ {l} : task'[k] = task[k]
OtherMons(l) == \A q \in Program : q[2] # l => mon'[q] = mon[q]

\* A child that nobody has waited for stays one, and runs the same program.
ChildrenKept ==
  \A p \in Pid : proc[p].child /\ proc[p].st # "free" =>
    /\ proc'[p].child /\ proc'[p].st # "free"
    /\ proc'[p].prog = proc[p].prog

\* Launch l is the one whose port the proxy forwards to.
Up(l) == Current(l) /\ task[l].pc \in {"health", "monitor", "ready"}

\* No kind of process got out of a race, and no report was taken back.
HistoryKept == racing \subseteq racing' /\ reported \subseteq reported'

LEMMA ProgFacts ==
  /\ Program = Kind \X LaunchId
  /\ Kind \subseteq {"compute", "grafana"}
  /\ \A q \in Program : q[1] \in Kind /\ q[2] \in LaunchId /\ q = <<q[1], q[2]>>
  /\ \A k \in Kind, l \in LaunchId :
       <<k, l>> \in Program /\ <<k, l>>[1] = k /\ <<k, l>>[2] = l
BY LaunchPrograms, Kinds

LEMMA LaunchIds == \A l \in LaunchId : l \in Nat /\ l # NoPort
BY LaunchBounds DEF LaunchId, NoPort

\* The fields of tasks and monitors.
LEMMA Fields ==
  ASSUME TypeInv
  PROVE  /\ \A l \in LaunchId :
              /\ task[l] \in TaskState
              /\ task[l].pc \in TaskPc
              /\ task[l].kind \in {"compute", "grafana"}
              /\ task[l].gen \in 0..MaxLaunch
              /\ task[l].child \in Pid \cup {NoPid}
         /\ \A q \in Program :
              /\ mon[q] \in MonState
              /\ mon[q].child \in Pid \cup {NoPid}
              /\ mon[q].restarts \in 0..(MaxRestarts + 1)
         /\ \A k \in Kind : slot[k] \in Pid \cup {NoPid}
         /\ generation \in Nat
         /\ NoPid \notin Pid
BY OsAssumption DEF TypeInv, TypeOK, TaskState, MonState, TaskPc

LEMMA ShapeFrame ==
  ASSUME Shape, NEW l \in LaunchId, OtherTasks(l), OtherMons(l),
         TaskShape(task'[l]),
         \A q \in Program : q[2] = l => MonShape(q, mon'[q], task'[l])
  PROVE  Shape'
<1>1. \A k \in LaunchId : TaskShape(task'[k])
  BY DEF Shape, OtherTasks
<1>2. \A q \in Program : MonShape(q, mon'[q], task'[q[2]])
  BY ProgFacts DEF Shape, OtherTasks, OtherMons
<1> QED
  BY <1>1, <1>2 DEF Shape

LEMMA GensFrame ==
  ASSUME Gens, generation' = generation,
         \A l \in LaunchId : task'[l].gen = task[l].gen
  PROVE  Gens'
<1>1. Bumped' = Bumped
  BY DEF Bumped
<1> QED
  BY <1>1 DEF Gens

LEMMA HandlesFrame ==
  ASSUME TypeInv, Handles, ChildrenKept, slot' = slot,
         \A l \in LaunchId :
           /\ task'[l].child = task[l].child
           /\ task[l].child # NoPid => task'[l].kind = task[l].kind,
         \A q \in Program :
           /\ mon'[q].child = mon[q].child
           /\ mon'[q].pc = "store" => mon[q].pc = "store"
  PROVE  Handles'
<1> USE DEF ChildOf, ChildrenKept
<1>1. \A k \in Kind : (slot[k] # NoPid => ChildOf(slot[k], k))'
  BY DEF Handles
<1>2. ASSUME NEW l \in LaunchId, task'[l].child # NoPid
      PROVE  /\ ChildOf(task[l].child, task[l].kind)'
             /\ (proc[task[l].child].prog = Prog(l))'
  <2>1. task'[l].child = task[l].child /\ task'[l].kind = task[l].kind
    BY <1>2
  <2>2. ChildOf(task[l].child, task[l].kind) /\ proc[task[l].child].prog = Prog(l)
    BY <1>2, <2>1 DEF Handles
  <2> QED
    BY <2>1, <2>2 DEF Prog
<1>3. \A q \in Program : (mon[q].child # NoPid =>
         /\ ChildOf(mon[q].child, q[1])
         /\ mon[q].pc = "store" => proc[mon[q].child].prog = q)'
  BY DEF Handles
<1> QED
  BY <1>1, <1>2, <1>3 DEF Handles

LEMMA AttendanceFrame ==
  ASSUME TypeInv, Shape, Handles, Attendance, ChildrenKept, HistoryKept,
         slot' = slot,
         \A q \in Program :
           /\ InUse(q)' => InUse(q)
           /\ Own(q)' /\ mon'[q].pc = "wait" =>
                /\ Own(q) /\ mon[q].pc = "wait"
                /\ mon'[q].child = mon[q].child
           /\ Own(q)' /\ mon'[q].pc = "done" =>
                (Own(q) /\ mon[q].pc = "done") \/ q \in reported'
  PROVE  Attendance'
<1> SUFFICES ASSUME NEW q \in Program, q[1] \notin racing'
             PROVE  Tended(q)'
  BY DEF Attendance
<1>1. Tended(q)
  BY DEF Attendance, HistoryKept
<1>2. \A p, k : ChildOf(p, k) => proc'[p].prog = proc[p].prog
  BY DEF ChildOf, ChildrenKept
<1>3. InUse(q)' => slot'[q[1]] # NoPid /\ proc'[slot'[q[1]]].prog = q
  BY <1>1, <1>2, ProgFacts DEF Tended, Handles
<1>4. Own(q)' /\ mon'[q].pc = "wait" => proc'[mon'[q].child].prog = q
  BY <1>1, <1>2, ProgFacts DEF Tended, Handles, Shape, MonShape
<1>5. Own(q)' /\ mon'[q].pc = "done" => q \in reported'
  BY <1>1 DEF Tended, HistoryKept
<1> QED
  BY <1>3, <1>4, <1>5 DEF Tended

LEMMA SoleFrame ==
  ASSUME Sole, racing \subseteq racing', \A l \in LaunchId : Calm /\ Claim(l)' => Claim(l)
  PROVE  Sole'
BY DEF Sole, Calm

LEMMA LoneFrame ==
  ASSUME Lone, racing \subseteq racing', Kept' \subseteq Kept,
         \A l \in LaunchId : Calm /\ Claim(l)' => Claim(l),
         \A l \in LaunchId, p \in Kept' :
           Calm /\ Claim(l)' /\ Minds(l, p) => Minds(l, p)'
  PROVE  Lone'
BY DEF Lone, Calm

LEMMA UpstreamFrame ==
  ASSUME UpstreamIsCurrent, HistoryKept,
         "grafana" \in Kind => port'["grafana"] = port["grafana"],
         \A l \in LaunchId : Up(l)' => Up(l)
  PROVE  UpstreamIsCurrent'
BY DEF UpstreamIsCurrent, HistoryKept, Up

\* A step of launch l or of one of its monitors that moves no handle.
LEMMA QuietHandles ==
  ASSUME IInv, TypeInv', NEW l \in LaunchId,
         OtherTasks(l), OtherMons(l), HistoryKept, ChildrenKept,
         slot' = slot, generation' = generation,
         racing' = racing, Kept' \subseteq Kept,
         TaskShape(task'[l]),
         /\ task'[l].gen = task[l].gen
         /\ task'[l].child = task[l].child
         /\ task[l].child # NoPid => task'[l].kind = task[l].kind,
         \A q \in Program : q[2] = l =>
           /\ MonShape(q, mon'[q], task'[l])
           /\ mon'[q].child = mon[q].child
           /\ mon'[q].pc = "store" => mon[q].pc = "store"
           /\ InUse(q)' => InUse(q)
           /\ mon'[q].pc = "wait" => mon[q].pc = "wait"
           /\ Own(q) /\ mon'[q].pc = "done" =>
                mon[q].pc = "done" \/ q \in reported',
         Calm /\ Claim(l)' => Claim(l),
         \A p \in Kept' : Calm /\ Claim(l)' /\ Minds(l, p) => Minds(l, p)'
  PROVE  Shape' /\ Gens' /\ Handles' /\ Attendance' /\ Sole' /\ Lone'
<1> USE DEF IInv
<1>1. Shape'
  BY ShapeFrame
<1>2. \A k \in LaunchId \ {l} :
         /\ task'[k] = task[k]
         /\ "grafana" \in Kind => mon'[<<"grafana", k>>] = mon[<<"grafana", k>>]
  BY ProgFacts DEF OtherTasks, OtherMons
<1>3. \A q \in Program : q[2] # l =>
         task'[q[2]] = task[q[2]] /\ mon'[q] = mon[q]
  BY ProgFacts DEF OtherTasks, OtherMons
<1>4. Gens'
  BY <1>2, GensFrame
<1>5. Handles'
  <2>1. \A k \in LaunchId :
          /\ task'[k].child = task[k].child
          /\ task[k].child # NoPid => task'[k].kind = task[k].kind
    BY <1>2
  <2>2. \A q \in Program :
          /\ mon'[q].child = mon[q].child
          /\ mon'[q].pc = "store" => mon[q].pc = "store"
    BY <1>3
  <2> QED
    BY <2>1, <2>2, HandlesFrame
<1>6. \A q \in Program : Own(q)' => Own(q)
  <2>1. \A k \in LaunchId : task'[k].gen = task[k].gen
    BY <1>2
  <2> QED
    BY <2>1, ProgFacts DEF Own, Current
<1>7. Attendance'
  <2>1. \A q \in Program : InUse(q)' => InUse(q)
    BY <1>3 DEF InUse
  <2>2. \A q \in Program :
          /\ mon'[q].pc = "wait" => /\ mon[q].pc = "wait"
                                    /\ mon'[q].child = mon[q].child
          /\ Own(q) /\ mon'[q].pc = "done" =>
               mon[q].pc = "done" \/ q \in reported'
    BY <1>3
  <2> QED
    BY <1>6, <2>1, <2>2, AttendanceFrame
<1>8. \A k \in LaunchId : Calm /\ Claim(k)' => Claim(k)
  BY <1>2 DEF Claim, Current, Calm
<1>9. Sole'
  BY <1>8, SoleFrame
<1>10. Lone'
  <2>1. \A k \in LaunchId, p \in Kept' :
          Calm /\ Claim(k)' /\ Minds(k, p) => Minds(k, p)'
    BY <1>2 DEF Minds, Calm
  <2> QED
    BY <1>8, <2>1, LoneFrame
<1> QED
  BY <1>1, <1>4, <1>5, <1>7, <1>9, <1>10

\* A step that moves no handle and publishes no port.
LEMMA QuietStep ==
  ASSUME IInv, TypeInv', NEW l \in LaunchId,
         OtherTasks(l), OtherMons(l), HistoryKept, ChildrenKept,
         slot' = slot, port' = port, generation' = generation,
         racing' = racing, Kept' \subseteq Kept,
         TaskShape(task'[l]),
         /\ task'[l].gen = task[l].gen
         /\ task'[l].child = task[l].child
         /\ task[l].child # NoPid => task'[l].kind = task[l].kind,
         \A q \in Program : q[2] = l =>
           /\ MonShape(q, mon'[q], task'[l])
           /\ mon'[q].child = mon[q].child
           /\ mon'[q].pc = "store" => mon[q].pc = "store"
           /\ InUse(q)' => InUse(q)
           /\ mon'[q].pc = "wait" => mon[q].pc = "wait"
           /\ Own(q) /\ mon'[q].pc = "done" =>
                mon[q].pc = "done" \/ q \in reported',
         Calm /\ Claim(l)' => Claim(l),
         \A p \in Kept' : Calm /\ Claim(l)' /\ Minds(l, p) => Minds(l, p)',
         Up(l)' => Up(l)
  PROVE  IInv'
<1>1. Shape' /\ Gens' /\ Handles' /\ Attendance' /\ Sole' /\ Lone'
  BY QuietHandles
<1>2. \A k \in LaunchId : Up(k)' => Up(k)
  BY DEF Up, Current, OtherTasks
<1>3. UpstreamIsCurrent'
  BY <1>2, UpstreamFrame DEF IInv
<1> QED
  BY <1>1, <1>3 DEF IInv

\* A step of a process, and the steps of quitting before the last.
LEMMA ProcStep ==
  ASSUME IInv, TypeInv', ChildrenKept, Kept' \subseteq Kept,
         UNCHANGED <<slot, port, generation, task, mon, reported, racing>>
  PROVE  IInv'
<1> USE DEF IInv
<1>1. Shape' /\ Gens'
  BY DEF Shape, Gens, Bumped
<1>2. Handles'
  BY HandlesFrame
<1>3. Attendance'
  BY AttendanceFrame DEF InUse, Own, Current, HistoryKept
<1>4. \A l \in LaunchId : Claim(l)' = Claim(l)
  BY DEF Claim, Current
<1>5. Sole' /\ Lone'
  BY <1>4, SoleFrame, LoneFrame DEF Minds
<1>6. UpstreamIsCurrent'
  BY DEF UpstreamIsCurrent, Current
<1> QED
  BY <1>1, <1>2, <1>3, <1>5, <1>6

-----------------------------------------------------------------------------
(***************************************************************************)
(* The steps of a task                                                     *)
(***************************************************************************)

\* A task that is given the state t.
LEMMA TaskMove ==
  ASSUME TypeInv, NEW l \in LaunchId, NEW t \in TaskState, TaskOnly(l, t)
  PROVE  /\ task' \in [LaunchId -> TaskState]
         /\ task'[l] = t /\ OtherTasks(l)
         /\ UNCHANGED <<app, reported, crashes>>
BY DEF TypeInv, TypeOK, TaskOnly, OtherTasks

LEMMA GotoFacts ==
  ASSUME TypeInv, NEW l \in LaunchId, NEW pc \in TaskPc, Goto(l, pc)
  PROVE  /\ task' \in [LaunchId -> TaskState]
         /\ task'[l].pc = pc
         /\ task'[l].kind = task[l].kind
         /\ task'[l].gen = task[l].gen
         /\ task'[l].child = task[l].child
         /\ OtherTasks(l)
         /\ UNCHANGED <<app, reported, crashes>>
<1> DEFINE t == [task[l] EXCEPT !.pc = pc]
<1>1. /\ t \in TaskState
      /\ t.pc = pc /\ t.kind = task[l].kind
      /\ t.gen = task[l].gen /\ t.child = task[l].child
  BY Fields DEF TaskState, TaskPc
<1>2. TaskOnly(l, t)
  BY DEF Goto
<1> HIDE DEF t
<1> QED
  BY <1>1, <1>2, TaskMove

\* What a task's shape says of the monitors of its launch.
LEMMA ShapeAt ==
  ASSUME Shape, NEW l \in LaunchId
  PROVE  /\ TaskShape(task[l])
         /\ \A q \in Program : q[2] = l => MonShape(q, mon[q], task[l])
         /\ "grafana" \in Kind =>
              MonShape(<<"grafana", l>>, mon[<<"grafana", l>>], task[l])
BY ProgFacts DEF Shape

\* A task that only moves its program counter, touching nothing shared.
LEMMA QuietTask ==
  ASSUME IInv, TypeInv', NEW l \in LaunchId,
         OtherTasks(l), mon' = mon, ChildrenKept, Kept' \subseteq Kept,
         UNCHANGED <<slot, port, generation, reported, racing>>,
         TaskShape(task'[l]),
         \A q \in Program : q[2] = l => MonShape(q, mon[q], task'[l]),
         /\ task'[l].gen = task[l].gen
         /\ task'[l].child = task[l].child
         /\ task[l].child # NoPid => task'[l].kind = task[l].kind,
         \A q \in Program : q[2] = l => (InUse(q)' => InUse(q)),
         Calm /\ Claim(l)' => Claim(l),
         \A p \in Kept' : Calm /\ Claim(l)' /\ Minds(l, p) => Minds(l, p)',
         Up(l)' => Up(l)
  PROVE  IInv'
BY QuietStep DEF OtherMons, HistoryKept

LEMMA StartLaunchKeeps ==
  ASSUME IInv, NEW l \in LaunchId, StartLaunch(l)
  PROVE  IInv'
<1> DEFINE pc == IF "compute" \in Kind THEN "spawn" ELSE "prepare"
<1>1. /\ task' \in [LaunchId -> TaskState]
      /\ task'[l].pc = pc /\ task'[l].kind = task[l].kind
      /\ task'[l].gen = task[l].gen /\ task'[l].child = task[l].child
      /\ OtherTasks(l) /\ UNCHANGED <<app, reported, crashes>>
  BY GotoFacts DEF StartLaunch, IInv, TaskPc
<1>2. UNCHANGED <<proc, slot, port, generation, mon, racing>>
  BY DEF StartLaunch, shared
<1>3. TypeInv'
  BY <1>1, <1>2 DEF IInv, TypeInv, TypeOK, ProcTypeOK
<1>4. /\ task[l].pc = "idle" /\ task[l].kind = "compute"
      /\ task[l].gen = 0 /\ task[l].child = NoPid
      /\ \A q \in Program : q[2] = l => mon[q].pc = "none" /\ mon[q].child = NoPid
      /\ "grafana" \in Kind => mon[<<"grafana", l>>].pc = "none"
  BY ShapeAt, ProgFacts DEF StartLaunch, IInv, TaskShape, MonShape
<1>5. /\ TaskShape(task'[l])
      /\ \A q \in Program : q[2] = l => MonShape(q, mon[q], task'[l])
  BY <1>1, <1>4 DEF TaskShape, MonShape, Starting
<1>6. \A q \in Program : q[2] = l => (InUse(q)' => InUse(q))
  BY <1>1, <1>2, <1>4 DEF InUse
<1>7. ~Up(l)' /\ (Calm => ~Claim(l)')
  BY <1>1, <1>2, <1>4 DEF Up, Claim, Current, Calm
<1>8. ChildrenKept /\ Kept' \subseteq Kept
  BY <1>2 DEF ChildrenKept, Kept, Alive
<1> QED
  BY <1>1, <1>2, <1>3, <1>4, <1>5, <1>6, <1>7, <1>8, QuietTask

LEMMA SameProcs ==
  ASSUME proc' = proc
  PROVE  ChildrenKept /\ Kept' \subseteq Kept
BY DEF ChildrenKept, Kept, Alive

\* A task that is starting a program has no monitor for it, and none for
\* Grafana at all.
LEMMA StartingFacts ==
  ASSUME IInv, NEW l \in LaunchId, task[l].pc \in Starting
  PROVE  /\ task[l].kind \in {"compute", "grafana"} /\ task[l].kind \in Kind
         /\ Prog(l) \in Program /\ Prog(l)[1] = task[l].kind /\ Prog(l)[2] = l
         /\ task[l].pc # "slot" => task[l].child = NoPid
         /\ task[l].kind = "grafana" => task[l].gen # 0
         /\ task[l].kind = "compute" => task[l].gen = 0
         /\ mon[Prog(l)].pc = "none" /\ mon[Prog(l)].child = NoPid
         /\ \A q \in Program : q[2] = l => MonShape(q, mon[q], task[l])
         /\ "grafana" \in Kind => mon[<<"grafana", l>>].pc = "none"
<1>1. TaskShape(task[l]) /\ task[l].kind \in {"compute", "grafana"}
  BY Fields, ShapeAt DEF IInv
<1>2. /\ task[l].kind \in Kind
      /\ Prog(l) \in Program /\ Prog(l)[1] = task[l].kind /\ Prog(l)[2] = l
  BY <1>1, ProgFacts DEF TaskShape, Prog
<1>3. /\ task[l].pc # "slot" => task[l].child = NoPid
      /\ task[l].kind = "grafana" => task[l].gen # 0
      /\ task[l].kind = "compute" => task[l].gen = 0
  BY <1>1 DEF TaskShape, Starting
<1>4. /\ \A q \in Program : q[2] = l => MonShape(q, mon[q], task[l])
      /\ "grafana" \in Kind =>
           MonShape(<<"grafana", l>>, mon[<<"grafana", l>>], task[l])
  BY ShapeAt DEF IInv
<1>5. mon[Prog(l)].pc = "none" /\ mon[Prog(l)].child = NoPid
  BY <1>1, <1>2, <1>4 DEF MonShape, Starting
<1>6. "grafana" \in Kind => mon[<<"grafana", l>>].pc = "none"
  BY <1>4, ProgFacts DEF MonShape, Starting
<1> QED
  BY <1>1, <1>2, <1>3, <1>4, <1>5, <1>6

\* The spawn of a task fails.
LEMMA SpawnFailsKeeps ==
  ASSUME IInv, NEW l \in LaunchId, task[l].pc = "spawn", Goto(l, "failed"),
         UNCHANGED <<proc, shared, mon, racing>>
  PROVE  IInv'
<1>1. /\ task' \in [LaunchId -> TaskState]
      /\ task'[l].pc = "failed" /\ task'[l].kind = task[l].kind
      /\ task'[l].gen = task[l].gen /\ task'[l].child = task[l].child
      /\ OtherTasks(l) /\ UNCHANGED <<app, reported, crashes>>
  BY GotoFacts DEF IInv, TaskPc
<1>2. UNCHANGED <<slot, port, generation>>
  BY DEF shared
<1>3. TypeInv'
  BY <1>1, <1>2 DEF IInv, TypeInv, TypeOK, ProcTypeOK
<1>4. /\ task[l].kind \in Kind /\ task[l].child = NoPid
      /\ task[l].kind = "grafana" => task[l].gen # 0
      /\ task[l].kind = "compute" => task[l].gen = 0
      /\ task[l].kind \in {"compute", "grafana"}
      /\ \A q \in Program : q[2] = l => MonShape(q, mon[q], task[l])
      /\ "grafana" \in Kind => mon[<<"grafana", l>>].pc = "none"
  BY StartingFacts DEF Starting
<1>5. /\ TaskShape(task'[l])
      /\ \A q \in Program : q[2] = l => MonShape(q, mon[q], task'[l])
  BY <1>1, <1>4, ProgFacts DEF TaskShape, MonShape, Starting
<1>6. \A q \in Program : q[2] = l => (InUse(q)' => InUse(q))
  BY <1>1 DEF InUse
<1>7. /\ Calm /\ Claim(l)' => Claim(l)
      /\ ~Up(l)'
  BY <1>1, <1>2, <1>4 DEF Claim, Current, Calm, Starting, Up
<1>8. \A p \in Kept' : Calm => Minds(l, p)'
  BY <1>1, <1>4 DEF Minds, Calm
<1> QED
  BY <1>1, <1>2, <1>3, <1>5, <1>6, <1>7, <1>8, QuietTask, SameProcs

LEMMA HealthKeeps ==
  ASSUME IInv, NEW l \in LaunchId, Health(l)
  PROVE  IInv'
<1> DEFINE pc == IF Serving(Prog(l)) THEN "monitor" ELSE "failed"
<1>1. /\ task' \in [LaunchId -> TaskState]
      /\ task'[l].pc = pc /\ task'[l].kind = task[l].kind
      /\ task'[l].gen = task[l].gen /\ task'[l].child = task[l].child
      /\ OtherTasks(l) /\ UNCHANGED <<app, reported, crashes>>
  BY GotoFacts DEF Health, IInv, TaskPc
<1>2. /\ UNCHANGED <<proc, slot, port, generation, mon, racing>>
      /\ task[l].pc = "health" /\ task'[l].pc \in {"monitor", "failed"}
  BY <1>1 DEF Health, shared
<1> HIDE DEF pc
<1>3. TypeInv'
  BY <1>1, <1>2 DEF IInv, TypeInv, TypeOK, ProcTypeOK
<1>4. /\ task[l].kind \in Kind /\ task[l].child = NoPid
      /\ task[l].kind = "grafana" => task[l].gen # 0
      /\ task[l].kind = "compute" => task[l].gen = 0
      /\ task[l].kind \in {"compute", "grafana"}
      /\ \A q \in Program : q[2] = l => MonShape(q, mon[q], task[l])
      /\ "grafana" \in Kind => mon[<<"grafana", l>>].pc = "none"
  BY <1>2, StartingFacts DEF Starting
<1>5. /\ TaskShape(task'[l])
      /\ \A q \in Program : q[2] = l => MonShape(q, mon[q], task'[l])
  BY <1>1, <1>2, <1>4, ProgFacts DEF TaskShape, MonShape, Starting
<1>6. \A q \in Program : q[2] = l => (InUse(q)' => InUse(q))
  BY <1>1, <1>2 DEF InUse
<1>7. /\ Calm /\ Claim(l)' => Claim(l)
      /\ Up(l)' => Up(l)
  BY <1>1, <1>2, <1>4 DEF Claim, Current, Calm, Starting, Up
<1>8. \A p \in Kept' : Calm /\ Minds(l, p) => Minds(l, p)'
  BY <1>1, <1>2, <1>4 DEF Minds, Calm
<1> QED
  BY <1>1, <1>2, <1>3, <1>5, <1>6, <1>7, <1>8, QuietTask, SameProcs

LEMMA PrepareKeeps ==
  ASSUME IInv, NEW l \in LaunchId, Prepare(l)
  PROVE  IInv'
<1>1. /\ task[l].pc = "prepare" /\ task[l].kind = "compute"
      /\ task[l].gen = 0 /\ task[l].child = NoPid
      /\ \A q \in Program : q[2] = l => MonShape(q, mon[q], task[l])
      /\ "grafana" \in Kind => mon[<<"grafana", l>>].pc = "none"
  BY ShapeAt, Fields, ProgFacts DEF IInv, Prepare, TaskShape, MonShape
<1>2. /\ task' \in [LaunchId -> TaskState] /\ OtherTasks(l)
      /\ UNCHANGED <<app, reported, crashes>>
      /\ task'[l].gen = 0 /\ task'[l].child = NoPid
      /\ \/ /\ "grafana" \in Kind
            /\ task'[l].pc = "bump" /\ task'[l].kind = "grafana"
         \/ "grafana" \notin Kind /\ task'[l].pc = "ready" /\ task'[l].kind = "compute"
         \/ task'[l].pc = "failed" /\ task'[l].kind = "compute"
  <2>1. CASE "grafana" \in Kind /\ TaskOnly(l, [task[l] EXCEPT !.pc = "bump",
                                                    !.kind = "grafana"])
    <3> DEFINE t == [task[l] EXCEPT !.pc = "bump", !.kind = "grafana"]
    <3>1. /\ t \in TaskState
          /\ t.pc = "bump" /\ t.kind = "grafana" /\ t.gen = 0 /\ t.child = NoPid
      BY <1>1, Fields DEF TaskState, IInv
    <3> HIDE DEF t
    <3>2. TaskOnly(l, t)
      BY <2>1 DEF t
    <3> QED
      BY <2>1, <3>1, <3>2, TaskMove DEF IInv
  <2>2. CASE "grafana" \notin Kind /\ Goto(l, "ready")
    BY <1>1, <2>2, GotoFacts DEF IInv, TaskPc
  <2>3. CASE Goto(l, "failed")
    BY <1>1, <2>3, GotoFacts DEF IInv, TaskPc
  <2> QED
    BY <2>1, <2>2, <2>3 DEF Prepare
<1>3. UNCHANGED <<proc, slot, port, generation, mon, racing>>
  BY DEF Prepare, shared
<1>4. TypeInv'
  BY <1>2, <1>3 DEF IInv, TypeInv, TypeOK, ProcTypeOK
<1>5. /\ TaskShape(task'[l])
      /\ \A q \in Program : q[2] = l => MonShape(q, mon[q], task'[l])
  BY <1>1, <1>2, ProgFacts DEF TaskShape, MonShape, Starting
<1>6. \A q \in Program : q[2] = l => (InUse(q)' => InUse(q))
  BY <1>1, <1>2, <1>3 DEF InUse
<1>7. (Calm => ~Claim(l)') /\ ~Up(l)'
  BY <1>1, <1>2, <1>3 DEF Claim, Current, Calm, Starting, Up
<1> QED
  BY <1>1, <1>2, <1>3, <1>4, <1>5, <1>6, <1>7, QuietTask, SameProcs

LEMMA StartMonitorKeeps ==
  ASSUME IInv, NEW l \in LaunchId, StartMonitor(l)
  PROVE  IInv'
<1> DEFINE pc == IF task[l].kind = "compute" THEN "prepare" ELSE "ready"
           m == NewMon("take")
<1>1. /\ task' \in [LaunchId -> TaskState]
      /\ task'[l].pc = pc /\ task'[l].kind = task[l].kind
      /\ task'[l].gen = task[l].gen /\ task'[l].child = task[l].child
      /\ OtherTasks(l) /\ UNCHANGED <<app, reported, crashes>>
  BY GotoFacts DEF StartMonitor, IInv, TaskPc
<1>2. /\ UNCHANGED <<proc, slot, port, generation, racing>>
      /\ task[l].pc = "monitor" /\ mon' = [mon EXCEPT ![Prog(l)] = m]
  BY <1>1 DEF StartMonitor, shared
<1>3. /\ task[l].kind \in {"compute", "grafana"} /\ task[l].kind \in Kind
      /\ Prog(l) \in Program /\ Prog(l)[1] = task[l].kind /\ Prog(l)[2] = l
      /\ task[l].child = NoPid
      /\ task[l].kind = "grafana" => task[l].gen # 0
      /\ task[l].kind = "compute" => task[l].gen = 0
      /\ mon[Prog(l)].pc = "none" /\ mon[Prog(l)].child = NoPid
      /\ \A q \in Program : q[2] = l => MonShape(q, mon[q], task[l])
      /\ "grafana" \in Kind => mon[<<"grafana", l>>].pc = "none"
  BY <1>2, StartingFacts DEF Starting
<1>4. /\ m \in MonState /\ m.pc = "take" /\ m.child = NoPid
      /\ m.restarts <= MaxRestarts
  BY LaunchBounds DEF NewMon, MonState
<1> HIDE DEF m
<1>5. /\ mon' \in [Program -> MonState]
      /\ mon'[Prog(l)] = m
      /\ \A q \in Program : q # Prog(l) => mon'[q] = mon[q]
  BY <1>2, <1>3, <1>4 DEF IInv, TypeInv, TypeOK
<1>6. TypeInv'
  BY <1>1, <1>2, <1>4, <1>5 DEF IInv, TypeInv, TypeOK, ProcTypeOK
<1>7. OtherMons(l)
  BY <1>3, <1>5 DEF OtherMons
<1>8. /\ TaskShape(task'[l])
      /\ \A q \in Program : q[2] = l => MonShape(q, mon'[q], task'[l])
  <2>1. TaskShape(task'[l])
    BY <1>1, <1>2, <1>3 DEF TaskShape, Starting
  <2>2. MonShape(Prog(l), mon'[Prog(l)], task'[l])
    BY <1>1, <1>3, <1>4, <1>5 DEF MonShape
  <2>3. ASSUME NEW q \in Program, q[2] = l, q # Prog(l)
        PROVE  MonShape(q, mon'[q], task'[l])
    <3>1. q[1] # task[l].kind
      BY <2>3, ProgFacts DEF Prog
    <3> QED
      BY <1>1, <1>2, <1>3, <1>5, <2>3, <3>1 DEF MonShape
  <2> QED
    BY <2>1, <2>2, <2>3
<1>9. \A q \in Program : q[2] = l =>
         /\ mon'[q].child = mon[q].child
         /\ mon'[q].pc = "store" => mon[q].pc = "store"
         /\ InUse(q)' => InUse(q)
         /\ mon'[q].pc = "wait" => mon[q].pc = "wait"
         /\ mon'[q].pc = "done" => mon[q].pc = "done"
  <2>1. ASSUME NEW q \in Program, q[2] = l, q # Prog(l)
        PROVE  mon'[q] = mon[q] /\ (InUse(q)' => InUse(q))
    BY <1>1, <1>2, <1>5, <2>1 DEF InUse
  <2>2. mon'[Prog(l)].child = NoPid /\ mon'[Prog(l)].pc = "take" /\ InUse(Prog(l))
    BY <1>2, <1>3, <1>4, <1>5 DEF InUse
  <2> QED
    BY <1>3, <2>1, <2>2
<1>10. /\ Calm /\ Claim(l)' => Claim(l)
       /\ Up(l)' => Up(l)
  <2>1. task[l].kind = "compute" => ~Current(l)' /\ (Calm => ~Claim(l)')
    <3>1. task[l].kind = "compute" /\ Calm =>
            mon'[<<"grafana", l>>] = mon[<<"grafana", l>>]
      BY <1>3, <1>5, ProgFacts DEF Calm
    <3> QED
      BY <1>1, <1>3, <3>1 DEF Claim, Current, Calm
  <2>2. task[l].kind = "grafana" => Claim(l)
    BY <1>2 DEF Claim, Starting
  <2>3. task[l].kind = "grafana" /\ Up(l)' => Up(l)
    BY <1>1, <1>2 DEF Up, Current
  <2> QED
    BY <1>3, <2>1, <2>2, <2>3 DEF Up
<1>11. \A p \in Kept' : Calm /\ Claim(l)' /\ Minds(l, p) => Minds(l, p)'
  <2>1. ASSUME Calm, task[l].kind = "grafana"
        PROVE  mon'[<<"grafana", l>>] = m
    BY <1>3, <1>5, <2>1 DEF Prog
  <2>2. task[l].kind = "grafana" => task'[l].pc = "ready"
    BY <1>1
  <2>3. ASSUME Calm, task[l].kind = "compute"
        PROVE  mon'[<<"grafana", l>>] = mon[<<"grafana", l>>]
    BY <1>3, <1>5, <2>3, ProgFacts DEF Calm
  <2>4. ASSUME NEW p \in Kept', Calm, Minds(l, p), task[l].kind = "grafana"
        PROVE  Minds(l, p)'
    BY <1>1, <1>2, <1>4, <2>1, <2>2, <2>4 DEF Minds
  <2>5. ASSUME NEW p \in Kept', Calm, Minds(l, p), task[l].kind = "compute"
        PROVE  Minds(l, p)'
    BY <1>1, <1>2, <2>3, <2>5 DEF Minds
  <2> QED
    BY <1>3, <2>4, <2>5
<1> QED
  BY <1>1, <1>2, <1>3, <1>6, <1>7, <1>8, <1>9, <1>10, <1>11, SameProcs, QuietStep
     DEF HistoryKept

LEMMA StorePortKeeps ==
  ASSUME IInv, NEW l \in LaunchId, StorePort(l)
  PROVE  IInv'
<1>1. /\ task' \in [LaunchId -> TaskState]
      /\ task'[l].pc = "health" /\ task'[l].kind = task[l].kind
      /\ task'[l].gen = task[l].gen /\ task'[l].child = task[l].child
      /\ OtherTasks(l) /\ UNCHANGED <<app, reported, crashes>>
  BY GotoFacts DEF StorePort, IInv, TaskPc
<1>2. /\ UNCHANGED <<proc, slot, generation, mon, racing>>
      /\ task[l].pc = "port" /\ port' = [port EXCEPT ![task[l].kind] = l]
  BY DEF StorePort
<1>3. /\ task[l].kind \in {"compute", "grafana"} /\ task[l].kind \in Kind
      /\ task[l].child = NoPid
      /\ task[l].kind = "grafana" => task[l].gen # 0
      /\ task[l].kind = "compute" => task[l].gen = 0
      /\ \A q \in Program : q[2] = l => MonShape(q, mon[q], task[l])
      /\ "grafana" \in Kind => mon[<<"grafana", l>>].pc = "none"
  BY <1>2, StartingFacts DEF Starting
<1>4. TypeInv'
  BY <1>1, <1>2 DEF IInv, TypeInv, TypeOK, ProcTypeOK
<1>5. /\ TaskShape(task'[l])
      /\ \A q \in Program : q[2] = l => MonShape(q, mon[q], task'[l])
  BY <1>1, <1>2, <1>3, ProgFacts DEF TaskShape, MonShape, Starting
<1>6. \A q \in Program : q[2] = l => (InUse(q)' => InUse(q))
  BY <1>1, <1>2 DEF InUse
<1>7. Calm /\ Claim(l)' => Claim(l)
  BY <1>1, <1>2, <1>3 DEF Claim, Current, Calm, Starting
<1>8. \A p \in Kept' : Calm /\ Minds(l, p) => Minds(l, p)'
  BY <1>1, <1>2, <1>3 DEF Minds, Calm
<1>9. Shape' /\ Gens' /\ Handles' /\ Attendance' /\ Sole' /\ Lone'
  BY <1>1, <1>2, <1>3, <1>4, <1>5, <1>6, <1>7, <1>8, SameProcs, QuietHandles
     DEF OtherMons, HistoryKept
<1>10. UpstreamIsCurrent'
  <2> SUFFICES ASSUME Calm, NEW k \in LaunchId, Up(k)'
               PROVE  \/ port'["grafana"] = k
                      \/ port'["grafana"] = NoPort /\ <<"grafana", k>> \in reported
    BY <1>1, <1>2 DEF UpstreamIsCurrent, Up, Calm
  <2>1. k # l => Up(k)
    BY <1>1, <1>2 DEF Up, Current, OtherTasks
  <2>2. CASE task[l].kind = "grafana"
    <3>1. Claim(l)
      BY <1>2, <2>2 DEF Claim, Starting
    <3>2. k # l => Claim(k)
      BY <2>1 DEF Up, Claim
    <3>3. k = l
      BY <3>1, <3>2 DEF IInv, Sole
    <3> QED
      BY <1>2, <1>3, <2>2, <3>3 DEF IInv, TypeInv, TypeOK
  <2>3. CASE task[l].kind = "compute"
    <3>1. k # l
      BY <1>1, <1>3, <2>3 DEF Up, Current
    <3>2. port'["grafana"] = port["grafana"]
      BY <1>2, <2>3 DEF IInv, TypeInv, TypeOK, Calm
    <3> QED
      BY <2>1, <3>1, <3>2 DEF IInv, UpstreamIsCurrent, Up, Calm
  <2> QED
    BY <1>3, <2>2, <2>3
<1> QED
  BY <1>4, <1>9, <1>10 DEF IInv

\* The generation counts the launches that bumped it, so it stays in range,
\* and after a bump no other launch is current.
LEMMA BumpFacts ==
  ASSUME IInv, NEW l \in LaunchId, Bump(l)
  PROVE  /\ task' \in [LaunchId -> TaskState] /\ OtherTasks(l)
         /\ task[l].pc = "bump" /\ task[l].kind = "grafana" /\ task[l].gen = 0
         /\ task'[l].pc = "kill" /\ task'[l].kind = "grafana"
         /\ task'[l].gen = generation + 1
         /\ task'[l].child = NoPid /\ task[l].child = NoPid
         /\ generation' = generation + 1
         /\ TypeInv' /\ Gens'
         /\ \A k \in LaunchId : Current(k)' => k = l
<1>1. /\ task[l].pc = "bump" /\ task[l].kind = "grafana"
      /\ task[l].gen = 0 /\ task[l].child = NoPid
  BY ShapeAt, Fields DEF IInv, Bump, TaskShape
<1>2. /\ generation \in Nat /\ generation' = generation + 1
      /\ UNCHANGED <<proc, slot, port, mon, racing>>
  BY Fields DEF Bump, IInv
<1>3. /\ IsFiniteSet(Bumped) /\ Cardinality(Bumped \cup {l}) = generation + 1
      /\ generation + 1 <= MaxLaunch
  <2>1. IsFiniteSet(LaunchId) /\ Cardinality(LaunchId) = MaxLaunch
    BY LaunchBounds, FS_Interval DEF LaunchId
  <2>2. Bumped \subseteq LaunchId /\ l \notin Bumped
    BY <1>1 DEF Bumped
  <2>3. IsFiniteSet(Bumped) /\ Cardinality(Bumped \cup {l}) = generation + 1
    BY <2>1, <2>2, FS_Subset, FS_AddElement DEF IInv, Gens
  <2>4. Cardinality(Bumped \cup {l}) <= MaxLaunch
    BY <2>1, <2>2, FS_Subset
  <2> QED
    BY <2>3, <2>4
<1>4. /\ task' \in [LaunchId -> TaskState] /\ OtherTasks(l)
      /\ task'[l].pc = "kill" /\ task'[l].kind = "grafana"
      /\ task'[l].gen = generation + 1 /\ task'[l].child = NoPid
      /\ UNCHANGED <<app, reported, crashes>>
  <2> DEFINE t == [task[l] EXCEPT !.pc = "kill", !.gen = generation + 1]
  <2>1. /\ t \in TaskState
        /\ t.pc = "kill" /\ t.kind = "grafana"
        /\ t.gen = generation + 1 /\ t.child = NoPid
    <3>1. generation + 1 \in 0..MaxLaunch
      BY <1>2, <1>3, LaunchBounds
    <3> QED
      BY <1>1, <3>1, Fields DEF IInv, TaskState
  <2>2. TaskOnly(l, t)
    BY DEF Bump
  <2> HIDE DEF t
  <2> QED
    BY <2>1, <2>2, TaskMove DEF IInv
<1>5. generation' \in 0..MaxLaunch
  BY <1>2, <1>3, LaunchBounds
<1>6. TypeInv'
  BY <1>2, <1>4, <1>5 DEF IInv, TypeInv, TypeOK, ProcTypeOK
<1>7. \A k \in LaunchId : task[k].gen \in Nat /\ task[k].gen <= generation
  BY Fields, LaunchBounds DEF IInv, Gens
<1>8. Gens'
  <2>1. Bumped' = Bumped \cup {l}
    BY <1>2, <1>4 DEF Bumped, OtherTasks
  <2>2. \A k \in LaunchId : task'[k].gen <= generation'
    BY <1>2, <1>4, <1>7 DEF OtherTasks
  <2>3. \A j, k \in LaunchId :
          task'[j].gen = task'[k].gen /\ task'[k].gen # 0 => j = k
    <3>1. \A k \in LaunchId \ {l} : task'[k].gen = task[k].gen
      BY <1>4 DEF OtherTasks
    <3>2. \A k \in LaunchId \ {l} : task'[k].gen # generation + 1
      BY <1>2, <1>7, <3>1
    <3> QED
      BY <1>4, <3>1, <3>2 DEF IInv, Gens
  <2> QED
    BY <1>2, <1>3, <2>1, <2>2, <2>3 DEF Gens
<1>9. \A k \in LaunchId : Current(k)' => k = l
  BY <1>2, <1>4, <1>7 DEF Current, OtherTasks
<1> QED
  BY <1>1, <1>2, <1>4, <1>6, <1>8, <1>9

LEMMA BumpKeeps ==
  ASSUME IInv, NEW l \in LaunchId, Bump(l)
  PROVE  IInv'
<1> USE DEF IInv
<1>1. /\ task' \in [LaunchId -> TaskState] /\ OtherTasks(l)
      /\ task[l].pc = "bump" /\ task[l].kind = "grafana" /\ task[l].gen = 0
      /\ task'[l].pc = "kill" /\ task'[l].kind = "grafana"
      /\ task'[l].gen = generation + 1
      /\ task'[l].child = NoPid /\ task[l].child = NoPid
      /\ TypeInv' /\ Gens'
      /\ \A k \in LaunchId : Current(k)' => k = l
  BY BumpFacts
<1>2. /\ UNCHANGED <<proc, slot, port, mon, racing, reported>>
      /\ ChildrenKept /\ Kept' \subseteq Kept
  BY SameProcs DEF Bump, TaskOnly
<1>3. /\ "grafana" \in Kind
      /\ \A q \in Program : q[2] = l => MonShape(q, mon[q], task[l])
      /\ mon[<<"grafana", l>>].pc = "none"
  BY <1>1, ShapeAt, ProgFacts DEF TaskShape, MonShape
<1>4. Shape'
  <2>1. /\ TaskShape(task'[l])
        /\ \A q \in Program : q[2] = l => MonShape(q, mon'[q], task'[l])
    BY <1>1, <1>2, <1>3, Fields DEF TaskShape, MonShape, Starting
  <2> QED
    BY <1>1, <1>2, <2>1, ShapeFrame DEF OtherMons
<1>5. Handles'
  BY <1>1, <1>2, HandlesFrame DEF OtherTasks
<1>6. Attendance'
  <2>1. \A q \in Program : InUse(q)' => InUse(q)
    BY <1>1, <1>2, ProgFacts DEF InUse, OtherTasks
  <2>2. \A q \in Program : Own(q)' /\ mon[q].pc # "none" => Own(q)
    <3> SUFFICES ASSUME NEW q \in Program, Own(q)', ~Own(q)
                 PROVE  mon[q].pc = "none"
      OBVIOUS
    <3>1. q[1] = "grafana" /\ q[2] = l
      BY <1>1, ProgFacts DEF Own
    <3> QED
      BY <1>3, <3>1, ProgFacts
  <2> QED
    BY <1>2, <2>1, <2>2, AttendanceFrame DEF HistoryKept
<1>7. \A k \in LaunchId : Claim(k)' => Claim(k)
  BY <1>1, <1>2 DEF Claim, OtherTasks, Starting
<1>8. Sole'
  BY <1>2, <1>7, SoleFrame
<1>9. Lone'
  <2>1. \A k \in LaunchId, p \in Kept' : Minds(k, p) => Minds(k, p)'
    BY <1>1, <1>2 DEF Minds, OtherTasks
  <2> QED
    BY <1>2, <1>7, <2>1, LoneFrame
<1>10. UpstreamIsCurrent'
  BY <1>1, <1>2, UpstreamFrame DEF Up, HistoryKept
<1> QED
  BY <1>1, <1>4, <1>5, <1>6, <1>8, <1>9, <1>10

\* A process id that is free is nobody's handle.
LEMMA FreshHandle ==
  ASSUME Handles, NEW p \in Pid, proc[p].st = "free"
  PROVE  /\ \A k \in Kind : slot[k] # p
         /\ \A l \in LaunchId : task[l].child # p
         /\ \A q \in Program : mon[q].child # p
BY OsAssumption DEF Handles, ChildOf

\* A launch that claims Grafana and minds no process is about to spawn the
\* only one there is.
LEMMA LoneSpawn ==
  ASSUME IInv, Sole', NEW l \in LaunchId, NEW p \in Pid,
         racing' = racing, Claim(l), Claim(l)', Minds(l, p)',
         \A r \in Kept : ~Minds(l, r),
         Kept' \subseteq Kept \cup {p}
  PROVE  Lone'
<1> SUFFICES ASSUME Calm, Calm'
             PROVE  /\ \A r, s \in Kept' : r = s
                    /\ \A k \in LaunchId, r \in Kept' : Claim(k)' => Minds(k, r)'
  BY DEF Lone, Calm
<1>1. Kept = {}
  BY DEF IInv, Lone
<1>2. Kept' \subseteq {p}
  BY <1>1
<1>3. \A k \in LaunchId : Claim(k)' => k = l
  BY DEF Sole
<1> QED
  BY <1>2, <1>3

LEMMA SpawnChildKeeps ==
  ASSUME IInv, NEW l \in LaunchId, NEW p \in Pid, task[l].pc = "spawn",
         Spawned(p, Prog(l)),
         TaskOnly(l, [task[l] EXCEPT !.pc = "slot", !.child = p]),
         UNCHANGED <<shared, mon, racing>>
  PROVE  IInv'
<1> USE DEF IInv
<1>1. /\ task[l].kind \in {"compute", "grafana"} /\ task[l].kind \in Kind
      /\ Prog(l) \in Program /\ Prog(l)[1] = task[l].kind /\ Prog(l)[2] = l
      /\ task[l].kind = "grafana" => task[l].gen # 0
      /\ task[l].kind = "compute" => task[l].gen = 0
      /\ \A q \in Program : q[2] = l => MonShape(q, mon[q], task[l])
      /\ "grafana" \in Kind => mon[<<"grafana", l>>].pc = "none"
      /\ mon[Prog(l)].pc = "none"
  BY StartingFacts DEF Starting
<1>2. /\ task' \in [LaunchId -> TaskState] /\ OtherTasks(l)
      /\ task'[l].pc = "slot" /\ task'[l].kind = task[l].kind
      /\ task'[l].gen = task[l].gen /\ task'[l].child = p
      /\ UNCHANGED <<app, reported, crashes>>
  <2> DEFINE t == [task[l] EXCEPT !.pc = "slot", !.child = p]
  <2>1. /\ t \in TaskState
        /\ t.pc = "slot" /\ t.kind = task[l].kind
        /\ t.gen = task[l].gen /\ t.child = p
    BY Fields DEF TaskState
  <2>2. TaskOnly(l, t)
    OBVIOUS
  <2> HIDE DEF t
  <2> QED
    BY <2>1, <2>2, TaskMove
<1>3. UNCHANGED <<slot, port, generation>>
  BY DEF shared
<1>4. /\ ProcTypeOK' /\ proc[p].st = "free"
      /\ proc'[p].prog = Prog(l) /\ proc'[p].st = "starting"
      /\ proc'[p].child /\ ~proc'[p].term
      /\ \A q \in Pid \ {p} : proc'[q] = proc[q]
  BY <1>1, SpawnedProc DEF TypeInv, TypeOK
<1>5. TypeInv'
  BY <1>2, <1>3, <1>4 DEF TypeInv, TypeOK
<1>6. ChildrenKept /\ Kept' \subseteq Kept \cup {p}
  BY <1>4 DEF ChildrenKept, Kept, Alive
<1>7. Shape'
  <2>1. TaskShape(task'[l])
    BY <1>1, <1>2, OsAssumption DEF TaskShape, Starting
  <2>2. \A q \in Program : q[2] = l => MonShape(q, mon'[q], task'[l])
    BY <1>1, <1>2, ProgFacts DEF MonShape
  <2> QED
    BY <1>2, <2>1, <2>2, ShapeFrame DEF OtherMons
<1>8. Gens'
  BY <1>2, <1>3, GensFrame DEF OtherTasks
<1>9. Handles'
  <2>1. /\ \A k \in Kind : slot'[k] # p
        /\ \A k \in LaunchId \ {l} : task'[k].child # p /\ task'[k] = task[k]
        /\ \A q \in Program : mon'[q].child # p
    BY <1>2, <1>3, <1>4, FreshHandle DEF OtherTasks
  <2>2. \A k \in Kind : (slot[k] # NoPid => ChildOf(slot[k], k))'
    BY <1>3, <1>6 DEF Handles, ChildOf, ChildrenKept
  <2>3. \A k \in LaunchId : (task[k].child # NoPid =>
           /\ ChildOf(task[k].child, task[k].kind)
           /\ proc[task[k].child].prog = Prog(k))'
    <3>1. (/\ ChildOf(task[l].child, task[l].kind)
           /\ proc[task[l].child].prog = Prog(l))'
      BY <1>1, <1>2, <1>4 DEF ChildOf, Prog
    <3>2. ASSUME NEW k \in LaunchId \ {l}, task[k].child # NoPid
          PROVE  (/\ ChildOf(task[k].child, task[k].kind)
                  /\ proc[task[k].child].prog = Prog(k))'
      <4>1. ChildOf(task[k].child, task[k].kind) /\ proc[task[k].child].prog = Prog(k)
        BY <3>2 DEF Handles
      <4> QED
        BY <1>6, <2>1, <4>1 DEF ChildOf, ChildrenKept, Prog
    <3> QED
      BY <2>1, <3>1, <3>2
  <2>4. \A q \in Program : (mon[q].child # NoPid =>
           /\ ChildOf(mon[q].child, q[1])
           /\ mon[q].pc = "store" => proc[mon[q].child].prog = q)'
    BY <1>6 DEF Handles, ChildOf, ChildrenKept
  <2>5. \A q \in Program : mon[q].child # NoPid =>
           \A k \in LaunchId : task'[k].child # mon[q].child
    BY <1>2, <2>1 DEF Handles
  <2>6. \A k \in Kind, j \in LaunchId :
           slot[k] # NoPid => task'[j].child # slot[k]
    BY <1>2, <1>3, <2>1 DEF Handles
  <2> QED
    BY <1>3, <2>2, <2>3, <2>4, <2>5, <2>6 DEF Handles
<1>10. Attendance'
  <2>1. \A q \in Program : InUse(q)' => InUse(q)
    BY <1>2, ProgFacts DEF InUse, OtherTasks
  <2>2. \A k \in LaunchId : task'[k].gen = task[k].gen
    BY <1>2 DEF OtherTasks
  <2>3. \A q \in Program : Own(q)' => Own(q)
    BY <1>3, <2>2, ProgFacts DEF Own, Current
  <2> QED
    BY <1>2, <1>3, <1>6, <2>1, <2>3, AttendanceFrame DEF HistoryKept
<1>11. \A k \in LaunchId : Calm /\ Claim(k)' => Claim(k)
  BY <1>1, <1>2, <1>3 DEF Claim, Current, OtherTasks, Calm, Starting
<1>12. Sole'
  BY <1>11, SoleFrame
<1>13. Lone'
  <2>1. CASE task[l].kind = "grafana"
    <3>1. Claim(l) /\ Claim(l)'
      BY <1>2, <2>1 DEF Claim, Starting
    <3>2. \A r \in Kept : ~Minds(l, r)
      BY <2>1 DEF Minds
    <3>3. Minds(l, p)'
      BY <1>1, <1>2, <2>1 DEF Minds
    <3> QED
      BY <1>6, <1>12, <3>1, <3>2, <3>3, LoneSpawn
  <2>2. CASE task[l].kind = "compute"
    <3>1. p \notin Kept'
      BY <1>1, <1>4, <2>2 DEF Kept, Grafanas
    <3>2. \A k \in LaunchId, r \in Kept' : Minds(k, r) => Minds(k, r)'
      BY <1>2, <1>3, <2>2 DEF Minds, OtherTasks
    <3> QED
      BY <1>6, <1>11, <3>1, <3>2, LoneFrame
  <2> QED
    BY <1>1, <2>1, <2>2
<1>14. UpstreamIsCurrent'
  <2>1. \A k \in LaunchId : Up(k)' => Up(k)
    BY <1>2, <1>3 DEF Up, Current, OtherTasks
  <2> QED
    BY <1>2, <1>3, <2>1, UpstreamFrame DEF HistoryKept
<1> QED
  BY <1>5, <1>7, <1>8, <1>9, <1>10, <1>12, <1>13, <1>14

\* Where no thread got in the way, nobody else has a handle in the slot that
\* launch l fills.
LEMMA SlotFree ==
  ASSUME IInv, NEW q \in Program, Contended(q), q[1] \notin racing',
         q[1] = "grafana" => Claim(q[2])
  PROVE  \A r \in Program : r[1] = q[1] /\ InUse(r) => r[2] = q[2]
<1> SUFFICES ASSUME NEW r \in Program, r[1] = q[1], InUse(r), r[2] # q[2]
             PROVE  FALSE
  OBVIOUS
<1>1. q[1] \in {"compute", "grafana"} /\ r = <<q[1], r[2]>>
      /\ r[2] \in LaunchId /\ q[2] \in LaunchId
  BY ProgFacts
<1>2. CASE q[1] = "compute"
  <2>1. SlotInUse(q)
    BY <1>1 DEF SlotInUse, InUse
  <2> QED
    BY <1>2, <2>1 DEF Contended
<1>3. CASE q[1] = "grafana"
  <2>1. Calm
    BY <1>3, ProgFacts DEF Contended, Calm
  <2>2. Claim(r[2])
    BY <1>1, <1>3 DEF InUse, Claim, Starting
  <2> QED
    BY <1>1, <1>3, <2>1, <2>2 DEF IInv, Sole
<1> QED
  BY <1>1, <1>2, <1>3

LEMMA StoreChildKeeps ==
  ASSUME IInv, NEW l \in LaunchId, StoreChild(l)
  PROVE  IInv'
<1> USE DEF IInv
<1> DEFINE c == task[l].child
           kind == task[l].kind
<1>0. task[l].pc = "slot"
  BY DEF StoreChild
<1>1. /\ kind \in {"compute", "grafana"} /\ kind \in Kind
      /\ Prog(l) \in Program /\ Prog(l)[1] = kind /\ Prog(l)[2] = l
      /\ kind = "grafana" => task[l].gen # 0
      /\ kind = "compute" => task[l].gen = 0
      /\ mon[Prog(l)].pc = "none"
      /\ \A q \in Program : q[2] = l => MonShape(q, mon[q], task[l])
      /\ "grafana" \in Kind => mon[<<"grafana", l>>].pc = "none"
  BY <1>0, StartingFacts DEF Starting
<1>2. /\ c \in Pid /\ c # NoPid /\ ChildOf(c, kind) /\ proc[c].prog = Prog(l)
  BY <1>0, ShapeAt DEF TaskShape, Handles, ChildOf
<1>3. /\ task' \in [LaunchId -> TaskState] /\ OtherTasks(l)
      /\ task'[l].pc = "port" /\ task'[l].kind = kind
      /\ task'[l].gen = task[l].gen /\ task'[l].child = NoPid
      /\ UNCHANGED <<app, reported, crashes>>
  <2> DEFINE t == [task[l] EXCEPT !.pc = "port", !.child = NoPid]
  <2>1. /\ t \in TaskState
        /\ t.pc = "port" /\ t.kind = task[l].kind
        /\ t.gen = task[l].gen /\ t.child = NoPid
    BY Fields DEF TaskState
  <2>2. TaskOnly(l, t)
    BY DEF StoreChild
  <2> HIDE DEF t
  <2> QED
    BY <2>1, <2>2, TaskMove
<1>4. /\ slot' \in [Kind -> Pid \cup {NoPid}]
      /\ slot'[kind] = c
      /\ \A k \in Kind \ {kind} : slot'[k] = slot[k]
      /\ UNCHANGED <<proc, port, generation, mon>>
  BY <1>1, <1>2 DEF StoreChild, TypeInv, TypeOK
<1>5. /\ Contended(Prog(l))
      /\ racing \subseteq racing' /\ racing' \in SUBSET Kind
  BY <1>1 DEF StoreChild, Contended, TypeInv, TypeOK
<1>6. TypeInv'
  BY <1>3, <1>4, <1>5 DEF TypeInv, TypeOK, ProcTypeOK
<1> HIDE DEF c, kind
<1>7. \A k \in LaunchId \ {l} : task'[k] = task[k]
  BY <1>3 DEF OtherTasks
<1>8. Shape'
  <2>1. TaskShape(task'[l])
    BY <1>1, <1>3 DEF TaskShape, Starting
  <2>2. \A q \in Program : q[2] = l => MonShape(q, mon'[q], task'[l])
    BY <1>0, <1>1, <1>3, <1>4, ProgFacts DEF MonShape, kind
  <2> QED
    BY <1>3, <1>4, <2>1, <2>2, ShapeFrame DEF OtherMons
<1>9. Gens'
  BY <1>3, <1>4, <1>7, GensFrame
<1>10. Handles'
  <2> USE DEF ChildOf
  <2>1. \A k \in Kind : (slot[k] # NoPid => ChildOf(slot[k], k))'
    BY <1>2, <1>4 DEF Handles
  <2>2. \A k \in LaunchId : (task[k].child # NoPid =>
           /\ ChildOf(task[k].child, task[k].kind)
           /\ proc[task[k].child].prog = Prog(k))'
    <3>1. ASSUME NEW k \in LaunchId \ {l}, task[k].child # NoPid
          PROVE  (/\ ChildOf(task[k].child, task[k].kind)
                  /\ proc[task[k].child].prog = Prog(k))'
      BY <1>4, <1>7, <3>1 DEF Handles, Prog
    <3> QED
      BY <1>3, <1>7, <3>1
  <2>3. \A q \in Program : (mon[q].child # NoPid =>
           /\ ChildOf(mon[q].child, q[1])
           /\ mon[q].pc = "store" => proc[mon[q].child].prog = q)'
    BY <1>4 DEF Handles
  <2>4. \A q \in Program : mon[q].child # NoPid =>
           /\ \A k \in Kind : slot'[k] # mon[q].child
           /\ \A k \in LaunchId : task'[k].child # mon[q].child
    BY <1>3, <1>4, <1>7 DEF Handles, c
  <2>5. ASSUME NEW k \in Kind, NEW j \in LaunchId, slot'[k] # NoPid
        PROVE  task'[j].child # slot'[k]
    <3>1. CASE j = l
      BY <1>3, <2>5, <3>1
    <3>2. CASE j # l /\ k # kind
      BY <1>4, <1>7, <2>5, <3>2 DEF Handles
    <3>3. CASE j # l /\ k = kind
      <4>1. task[j].child # NoPid => proc[task[j].child].prog = Prog(j)
        BY DEF Handles
      <4>2. Prog(j) # Prog(l)
        BY <3>3 DEF Prog
      <4> QED
        BY <1>2, <1>4, <1>7, <3>3, <4>1, <4>2
    <3> QED
      BY <3>1, <3>2, <3>3
  <2> QED
    BY <1>4, <2>1, <2>2, <2>3, <2>4, <2>5 DEF Handles
<1>11. kind = "grafana" => Claim(l)
  BY <1>0 DEF Claim, Starting, kind
<1>12. Attendance'
  <2> SUFFICES ASSUME NEW q \in Program, q[1] \notin racing'
               PROVE  Tended(q)'
    BY DEF Attendance
  <2>1. Tended(q)
    BY <1>5 DEF Attendance
  <2>2. Own(q)' => Own(q)
    <3>1. \A k \in LaunchId : task'[k].gen = task[k].gen
      BY <1>3, <1>7
    <3> QED
      BY <1>4, <3>1, ProgFacts DEF Own, Current
  <2>3. InUse(q)' => slot'[q[1]] # NoPid /\ proc'[slot'[q[1]]].prog = q
    <3>1. CASE q = Prog(l)
      BY <1>1, <1>2, <1>4, <3>1
    <3>2. CASE q[1] # kind
      <4>1. InUse(q)' => InUse(q)
        BY <1>3, <1>4, <1>7, <3>2, ProgFacts DEF InUse
      <4> QED
        BY <1>4, <2>1, <3>2, <4>1, ProgFacts DEF Tended
    <3>3. CASE q[1] = kind /\ q[2] # l
      <4>1. InUse(q)' => InUse(q)
        BY <1>4, <1>7, <3>3, ProgFacts DEF InUse
      <4>2. ~InUse(q)
        BY <1>1, <1>5, <1>11, <3>3, SlotFree
      <4> QED
        BY <4>1, <4>2
    <3> QED
      BY <3>1, <3>2, <3>3, ProgFacts DEF Prog, kind
  <2> QED
    BY <1>3, <1>4, <2>1, <2>2, <2>3 DEF Tended
<1>13. \A k \in LaunchId : Calm /\ Claim(k)' => Claim(k)
  BY <1>1, <1>3, <1>4, <1>7, <1>11 DEF Claim, Current, Calm, Starting
<1>14. Sole'
  BY <1>5, <1>13, SoleFrame
<1>15. Lone'
  <2>1. ASSUME NEW k \in LaunchId, NEW p \in Kept', Calm, Claim(k)', Minds(k, p)
        PROVE  Minds(k, p)'
    <3>1. CASE kind = "compute"
      <4>1. slot'["grafana"] = slot["grafana"]
        BY <1>4, <2>1, <3>1 DEF Calm
      <4> QED
        BY <1>3, <1>4, <1>7, <2>1, <3>1, <4>1 DEF Minds
    <3>2. CASE kind = "grafana"
      <4>1. k = l
        BY <1>11, <1>13, <2>1, <3>2 DEF Sole
      <4> QED
        BY <1>0, <1>1, <1>3, <1>4, <2>1, <3>2, <4>1 DEF Minds, c, kind, Calm
    <3> QED
      BY <1>1, <3>1, <3>2
  <2>2. Kept' \subseteq Kept
    BY <1>4, SameProcs
  <2> QED
    BY <1>5, <1>13, <2>1, <2>2, LoneFrame
<1>16. UpstreamIsCurrent'
  <2>1. \A k \in LaunchId : Up(k)' => Up(k)
    BY <1>3, <1>4, <1>7 DEF Up, Current
  <2> QED
    BY <1>3, <1>4, <1>5, <2>1, UpstreamFrame DEF HistoryKept
<1> QED
  BY <1>6, <1>8, <1>9, <1>10, <1>12, <1>14, <1>15, <1>16

\* After the kill nobody but the killer may claim Grafana, unless somebody
\* got in its way.
LEMMA KillFacts ==
  ASSUME IInv, NEW l \in LaunchId, kill_stray_grafana(l)
  PROVE  /\ task[l].pc = "kill" /\ task[l].kind = "grafana"
         /\ task[l].gen # 0 /\ task[l].child = NoPid
         /\ "grafana" \in Kind
         /\ \A q \in Program : q[2] = l => MonShape(q, mon[q], task[l])
         /\ mon[<<"grafana", l>>].pc = "none"
         /\ task' \in [LaunchId -> TaskState]
         /\ task'[l].pc = "spawn" /\ task'[l].kind = "grafana"
         /\ task'[l].gen = task[l].gen /\ task'[l].child = NoPid
         /\ \A k \in LaunchId \ {l} : task'[k] = task[k]
         /\ UNCHANGED <<slot, port, generation, mon, reported>>
         /\ TypeInv' /\ ChildrenKept /\ Kept' = {}
         /\ "compute" \in racing => "compute" \in racing'
         /\ "grafana" \notin racing' => /\ Racers(l) = {}
                                        /\ task[l].gen = generation
<1> USE DEF IInv
<1>1. /\ task[l].pc = "kill" /\ task[l].kind = "grafana"
      /\ task[l].gen # 0 /\ task[l].child = NoPid
      /\ "grafana" \in Kind
      /\ \A q \in Program : q[2] = l => MonShape(q, mon[q], task[l])
      /\ mon[<<"grafana", l>>].pc = "none"
  BY ShapeAt, Fields, ProgFacts DEF kill_stray_grafana, TaskShape, MonShape
<1>2. /\ task' \in [LaunchId -> TaskState]
      /\ task'[l].pc = "spawn" /\ task'[l].kind = task[l].kind
      /\ task'[l].gen = task[l].gen /\ task'[l].child = task[l].child
      /\ OtherTasks(l) /\ UNCHANGED <<app, reported, crashes>>
  BY GotoFacts DEF kill_stray_grafana, TaskPc
<1>3. UNCHANGED <<slot, port, generation, mon>>
  BY DEF kill_stray_grafana, shared
<1>4. /\ racing' \in SUBSET Kind
      /\ "compute" \in racing => "compute" \in racing'
      /\ "grafana" \notin racing' => Racers(l) = {} /\ task[l].gen = generation
  BY <1>1 DEF kill_stray_grafana, TypeInv, TypeOK
<1>5. /\ ProcTypeOK'
      /\ \A p \in Pid :
           /\ proc'[p].prog = proc[p].prog
           /\ proc'[p].st = proc[p].st
           /\ proc'[p].child = proc[p].child
           /\ proc'[p].term =
                (proc[p].term \/ (Alive(p) /\ proc[p].prog \in Grafanas))
  BY PkilledProc DEF kill_stray_grafana, TypeInv, TypeOK
<1>6. TypeInv'
  BY <1>2, <1>3, <1>4, <1>5 DEF TypeInv, TypeOK
<1>7. ChildrenKept /\ Kept' = {}
  BY <1>5 DEF ChildrenKept, Kept, Alive, Grafanas
<1> QED
  BY <1>1, <1>2, <1>3, <1>4, <1>6, <1>7 DEF OtherTasks

LEMMA KillKeeps ==
  ASSUME IInv, NEW l \in LaunchId, kill_stray_grafana(l)
  PROVE  IInv'
<1> USE DEF IInv
<1>1. /\ task[l].pc = "kill" /\ task[l].kind = "grafana"
      /\ task[l].gen # 0 /\ task[l].child = NoPid
      /\ "grafana" \in Kind
      /\ \A q \in Program : q[2] = l => MonShape(q, mon[q], task[l])
      /\ mon[<<"grafana", l>>].pc = "none"
      /\ task' \in [LaunchId -> TaskState]
      /\ task'[l].pc = "spawn" /\ task'[l].kind = "grafana"
      /\ task'[l].gen = task[l].gen /\ task'[l].child = NoPid
      /\ \A k \in LaunchId \ {l} : task'[k] = task[k]
      /\ UNCHANGED <<slot, port, generation, mon, reported>>
      /\ TypeInv' /\ ChildrenKept /\ Kept' = {}
      /\ "compute" \in racing => "compute" \in racing'
      /\ "grafana" \notin racing' => /\ Racers(l) = {}
                                     /\ task[l].gen = generation
  BY KillFacts
<1>2. Shape'
  <2>1. /\ TaskShape(task'[l])
        /\ \A q \in Program : q[2] = l => MonShape(q, mon'[q], task'[l])
    BY <1>1 DEF TaskShape, MonShape, Starting
  <2> QED
    BY <1>1, <2>1, ShapeFrame DEF OtherMons, OtherTasks
<1>3. Gens'
  BY <1>1, GensFrame
<1>4. Handles'
  BY <1>1, HandlesFrame
<1>5. ASSUME "grafana" \notin racing', NEW k \in LaunchId, k # l
      PROVE  /\ ~Current(k) /\ ~Current(k)'
             /\ ~InUse(<<"grafana", k>>) /\ ~InUse(<<"grafana", k>>)'
             /\ ~Claim(k)'
  <2>1. k \notin Racers(l) /\ task[l].gen = generation
    BY <1>1, <1>5
  <2>2. ~Current(k) /\ ~Current(k)'
    BY <1>1, <1>5, <2>1 DEF Current, Gens
  <2>3. /\ mon[<<"grafana", k>>].pc \notin
             {"checked", "respawn", "store", "health", "take"}
        /\ ~(task[k].kind = "grafana" /\ task[k].pc \in Starting)
    BY <1>5, <2>1 DEF Racers, Starting
  <2>4. ~Claim(k)'
    BY <1>1, <1>5, <2>2, <2>3 DEF Claim
  <2>5. ~InUse(<<"grafana", k>>) /\ ~InUse(<<"grafana", k>>)'
    BY <1>1, <1>5, <2>3, ProgFacts DEF InUse, Starting
  <2> QED
    BY <2>2, <2>4, <2>5
<1>6. Attendance'
  <2> SUFFICES ASSUME NEW q \in Program, q[1] \notin racing'
               PROVE  Tended(q)'
    BY DEF Attendance
  <2>1. CASE q[1] = "compute"
    <3>1. Tended(q)
      BY <1>1, <2>1 DEF Attendance
    <3>2. InUse(q)' => InUse(q)
      BY <1>1, <2>1, ProgFacts DEF InUse
    <3>3. \A p, k : ChildOf(p, k) => proc'[p].prog = proc[p].prog
      BY <1>1 DEF ChildOf, ChildrenKept
    <3>4. slot[q[1]] # NoPid => ChildOf(slot[q[1]], q[1])
      BY ProgFacts DEF Handles
    <3>5. mon[q].pc = "wait" => ChildOf(mon[q].child, q[1])
      BY DEF Handles, Shape, MonShape
    <3> QED
      BY <1>1, <2>1, <3>1, <3>2, <3>3, <3>4, <3>5 DEF Tended, Own
  <2>2. CASE q[1] = "grafana" /\ q[2] # l
    BY <1>5, <2>2, ProgFacts DEF Tended, Own
  <2>3. CASE q[1] = "grafana" /\ q[2] = l
    <3>1. mon'[q].pc = "none" /\ ~InUse(q)'
      BY <1>1, <2>3, ProgFacts DEF InUse
    <3> QED
      BY <3>1 DEF Tended
  <2> QED
    BY <2>1, <2>2, <2>3, ProgFacts
<1>7. Sole'
  BY <1>5 DEF Sole, Calm
<1>8. Lone'
  BY <1>1 DEF Lone
<1>9. UpstreamIsCurrent'
  BY <1>1, <1>5 DEF UpstreamIsCurrent
<1> QED
  BY <1>1, <1>2, <1>3, <1>4, <1>6, <1>7, <1>8, <1>9

-----------------------------------------------------------------------------
(***************************************************************************)
(* The steps of a monitor                                                  *)
(***************************************************************************)

OtherMon(q) == \A r \in Program : r # q => mon'[r] = mon[r]

\* A monitor that is given the state m.
LEMMA MonMove ==
  ASSUME TypeInv, NEW q \in Program, NEW m \in MonState, MonOnly(q, m),
         m.pc # "done" => m.restarts <= MaxRestarts
  PROVE  /\ mon' \in [Program -> MonState]
         /\ mon'[q] = m /\ OtherMon(q)
         /\ \A r \in Program :
              mon'[r].pc # "done" => mon'[r].restarts <= MaxRestarts
         /\ UNCHANGED <<app, generation, task, crashes>>
BY DEF TypeInv, TypeOK, MonOnly, OtherMon

\* A task that has started a monitor no longer fills the slot itself.
LEMMA MonFacts ==
  ASSUME IInv, NEW q \in Program, mon[q].pc # "none"
  PROVE  /\ q[1] \in {"compute", "grafana"} /\ q[2] \in LaunchId
         /\ q = <<q[1], q[2]>> /\ q[1] \in Kind
         /\ mon[q].child # NoPid <=> mon[q].pc \in {"wait", "store"}
         /\ q[1] = "grafana" => /\ task[q[2]].kind = "grafana"
                                /\ task[q[2]].pc = "ready"
                                /\ task[q[2]].gen # 0
         /\ ~(task[q[2]].kind = q[1] /\ task[q[2]].pc \in Starting)
         /\ TaskShape(task[q[2]])
         /\ mon[q].restarts \in Nat
         /\ mon[q].pc # "done" => mon[q].restarts <= MaxRestarts
<1>1. /\ q[1] \in {"compute", "grafana"} /\ q[2] \in LaunchId
      /\ q = <<q[1], q[2]>> /\ q[1] \in Kind
  BY ProgFacts
<1>2. TaskShape(task[q[2]]) /\ MonShape(q, mon[q], task[q[2]])
  BY <1>1 DEF IInv, Shape
<1>3. /\ mon[q].child # NoPid <=> mon[q].pc \in {"wait", "store"}
      /\ q[1] = "grafana" => /\ task[q[2]].kind = "grafana"
                             /\ task[q[2]].pc = "ready"
                             /\ task[q[2]].gen # 0
  BY <1>2 DEF TaskShape, MonShape
<1>4. ~(task[q[2]].kind = q[1] /\ task[q[2]].pc \in Starting)
  BY <1>1, <1>2 DEF MonShape, Starting
<1>5. /\ mon[q].restarts \in Nat
      /\ mon[q].pc # "done" => mon[q].restarts <= MaxRestarts
  BY Fields, LaunchBounds DEF IInv, TypeInv
<1> QED
  BY <1>1, <1>2, <1>3, <1>4, <1>5

\* The shape of the tasks and monitors after a step of one monitor.
LEMMA MonKeepsShape ==
  ASSUME IInv, NEW q \in Program, OtherMon(q), task' = task,
         mon[q].pc # "none", mon'[q].pc # "none",
         mon'[q].child # NoPid <=> mon'[q].pc \in {"wait", "store"}
  PROVE  /\ Shape'
         /\ TaskShape(task'[q[2]])
         /\ \A r \in Program : r[2] = q[2] => MonShape(r, mon'[r], task'[q[2]])
<1>1. q[2] \in LaunchId /\ TaskShape(task[q[2]])
  BY MonFacts
<1>2. \A r \in Program : r[2] = q[2] => MonShape(r, mon[r], task[q[2]])
  BY <1>1, ShapeAt DEF IInv
<1>3. MonShape(q, mon'[q], task[q[2]])
  BY <1>2 DEF MonShape
<1>4. \A r \in Program : r[2] = q[2] => MonShape(r, mon'[r], task'[q[2]])
  BY <1>2, <1>3 DEF OtherMon
<1>5. OtherTasks(q[2]) /\ OtherMons(q[2])
  BY DEF OtherTasks, OtherMons, OtherMon
<1> QED
  BY <1>1, <1>4, <1>5, ShapeFrame DEF IInv

\* A step of a monitor that moves no handle.
LEMMA QuietMon ==
  ASSUME IInv, TypeInv', NEW q \in Program, OtherMon(q), task' = task,
         UNCHANGED <<proc, slot, generation, racing>>,
         reported \subseteq reported',
         mon[q].pc \notin {"none", "wait", "store", "done"},
         mon'[q].pc \notin {"none", "wait", "store"},
         mon'[q].child = mon[q].child,
         mon'[q].pc \in {"health", "take"} => mon[q].pc = "health",
         Own(q) /\ mon'[q].pc = "done" => q \in reported',
         q[1] = "grafana" /\ mon'[q].pc \in {"checked", "respawn"} =>
           Claim(q[2]) /\ mon[q].pc \in {"woke", "checked"},
         q[1] = "grafana" /\ mon'[q].pc = "woke" => mon[q].pc = "woke"
  PROVE  /\ Shape' /\ Gens' /\ Handles' /\ Attendance' /\ Sole' /\ Lone'
         /\ port' = port => IInv'
<1> DEFINE l == q[2]
<1>1. /\ q[1] \in {"compute", "grafana"} /\ l \in LaunchId
      /\ q = <<q[1], l>> /\ mon[q].child = NoPid /\ mon'[q].child = NoPid
      /\ q[1] = "grafana" => /\ task[l].kind = "grafana" /\ task[l].pc = "ready"
      /\ ~(task[l].kind = q[1] /\ task[l].pc \in Starting)
  BY MonFacts
<1>2. /\ TaskShape(task'[l])
      /\ \A r \in Program : r[2] = l => MonShape(r, mon'[r], task'[l])
  BY <1>1, MonKeepsShape
<1> HIDE DEF l
<1>3. /\ OtherTasks(l) /\ OtherMons(l) /\ HistoryKept
      /\ ChildrenKept /\ Kept' \subseteq Kept
  BY SameProcs DEF OtherTasks, OtherMons, OtherMon, HistoryKept, l
<1>4. \A r \in Program : r[2] = l =>
        /\ mon'[r].child = mon[r].child
        /\ mon'[r].pc = "store" => mon[r].pc = "store"
        /\ InUse(r)' => InUse(r)
        /\ mon'[r].pc = "wait" => mon[r].pc = "wait"
        /\ Own(r) /\ mon'[r].pc = "done" =>
             mon[r].pc = "done" \/ r \in reported'
  <2>1. ASSUME NEW r \in Program, r # q
        PROVE  mon'[r] = mon[r] /\ (InUse(r)' => InUse(r))
    BY <2>1 DEF OtherMon, InUse
  <2>2. InUse(q)' => InUse(q)
    BY DEF InUse
  <2> QED
    BY <2>1, <2>2
<1>5. q[1] = "compute" /\ Calm =>
        mon'[<<"grafana", l>>] = mon[<<"grafana", l>>]
  BY <1>1, ProgFacts DEF OtherMon, Calm
<1>6. Calm /\ Claim(l)' => Claim(l)
  <2>1. CASE q[1] = "compute"
    BY <1>5, <2>1 DEF Claim, Current
  <2>2. CASE q[1] = "grafana"
    BY <1>1, <2>2 DEF Claim, Current, l
  <2> QED
    BY <1>1, <2>1, <2>2
<1>7. \A p \in Kept' : Calm /\ Claim(l)' /\ Minds(l, p) => Minds(l, p)'
  <2>1. CASE q[1] = "compute"
    BY <1>5, <2>1 DEF Minds
  <2>2. CASE q[1] = "grafana"
    BY <1>1, <2>2 DEF Minds, Starting
  <2> QED
    BY <1>1, <2>1, <2>2
<1>8. /\ task'[l].gen = task[l].gen
      /\ task'[l].child = task[l].child
      /\ task[l].child # NoPid => task'[l].kind = task[l].kind
      /\ Up(l)' => Up(l)
  BY DEF Up, Current
<1>9. Shape' /\ Gens' /\ Handles' /\ Attendance' /\ Sole' /\ Lone'
  BY <1>1, <1>2, <1>3, <1>4, <1>6, <1>7, <1>8, QuietHandles
<1>10. port' = port => IInv'
  BY <1>1, <1>2, <1>3, <1>4, <1>6, <1>7, <1>8, QuietStep
<1> QED
  BY <1>9, <1>10

LEMMA MonHealthKeeps ==
  ASSUME IInv, NEW q \in Program, MonHealth(q)
  PROVE  IInv'
<1> DEFINE m == [mon[q] EXCEPT !.pc = "take"]
<1>1. /\ m \in MonState /\ m.pc = "take" /\ m.child = mon[q].child
      /\ m.restarts <= MaxRestarts /\ mon[q].pc = "health"
  BY Fields, MonFacts DEF IInv, MonState, MonHealth
<1>2. MonOnly(q, m) /\ UNCHANGED <<proc, slot, port, reported, racing>>
  BY DEF MonHealth
<1> HIDE DEF m
<1>3. /\ mon' \in [Program -> MonState] /\ mon'[q] = m /\ OtherMon(q)
      /\ \A r \in Program :
           mon'[r].pc # "done" => mon'[r].restarts <= MaxRestarts
      /\ UNCHANGED <<app, generation, task, crashes>>
  BY <1>1, <1>2, MonMove DEF IInv
<1>4. TypeInv'
  BY <1>2, <1>3 DEF IInv, TypeInv, TypeOK, ProcTypeOK
<1> QED
  BY <1>1, <1>2, <1>3, <1>4, QuietMon

LEMMA MonCheckKeeps ==
  ASSUME IInv, NEW q \in Program, MonCheck(q)
  PROVE  IInv'
<1> DEFINE pc == IF superseded(q) THEN "done" ELSE "checked"
           m == [mon[q] EXCEPT !.pc = pc]
<1>1. /\ m \in MonState /\ m.pc = pc /\ m.child = mon[q].child
      /\ m.restarts <= MaxRestarts /\ mon[q].pc = "woke"
  BY Fields, MonFacts DEF IInv, MonState, MonCheck
<1>2. MonOnly(q, m) /\ UNCHANGED <<proc, slot, port, reported, racing>>
  BY DEF MonCheck
<1> HIDE DEF m
<1>3. /\ mon' \in [Program -> MonState] /\ mon'[q] = m /\ OtherMon(q)
      /\ \A r \in Program :
           mon'[r].pc # "done" => mon'[r].restarts <= MaxRestarts
      /\ UNCHANGED <<app, generation, task, crashes>>
  BY <1>1, <1>2, MonMove DEF IInv
<1>4. TypeInv'
  BY <1>2, <1>3 DEF IInv, TypeInv, TypeOK, ProcTypeOK
<1>5. superseded(q) => ~Own(q)
  BY DEF superseded, Own, Current
<1>6. q[1] = "grafana" /\ ~superseded(q) => Claim(q[2])
  BY <1>1, MonFacts, Fields DEF superseded, Claim, Current, IInv
<1> QED
  BY <1>1, <1>2, <1>3, <1>4, <1>5, <1>6, QuietMon

\* The cap on restarts keeps their count in range, and a monitor that gives
\* up for the current Grafana says so when it takes the port away.
LEMMA MonDecideKeeps ==
  ASSUME IInv, NEW q \in Program, MonDecide(q)
  PROVE  IInv'
<1>1. /\ mon[q].pc = "checked" /\ mon[q].restarts <= MaxRestarts
      /\ mon[q].restarts \in Nat /\ mon[q].child = NoPid
      /\ q[1] \in {"compute", "grafana"} /\ q[1] \in Kind
      /\ q[2] \in LaunchId /\ q = <<q[1], q[2]>>
  BY MonFacts DEF MonDecide
<1>2. PICK n \in {mon[q].restarts, 0} :
        \/ /\ n < MaxRestarts
           /\ MonOnly(q, [mon[q] EXCEPT !.pc = "respawn", !.restarts = n + 1])
           /\ UNCHANGED <<port, reported>>
        \/ /\ n >= MaxRestarts
           /\ MonOnly(q, [mon[q] EXCEPT !.pc = "done", !.restarts = n + 1])
           /\ port' = [port EXCEPT ![q[1]] = NoPort]
           /\ reported' = reported \cup {q}
  BY DEF MonDecide
<1>3. UNCHANGED <<proc, slot, racing>>
  BY DEF MonDecide
<1>4. q[1] = "grafana" => Claim(q[2])
  BY <1>1 DEF Claim
<1>5. CASE /\ n < MaxRestarts
           /\ MonOnly(q, [mon[q] EXCEPT !.pc = "respawn", !.restarts = n + 1])
           /\ UNCHANGED <<port, reported>>
  <2> DEFINE m == [mon[q] EXCEPT !.pc = "respawn", !.restarts = n + 1]
  <2>1. /\ m \in MonState /\ m.pc = "respawn" /\ m.child = mon[q].child
        /\ m.restarts <= MaxRestarts
    <3>1. n + 1 \in 0..(MaxRestarts + 1) /\ n + 1 <= MaxRestarts
      BY <1>1, <1>2, <1>5, LaunchBounds
    <3> QED
      BY <1>1, <3>1, Fields DEF MonState, IInv
  <2>2. MonOnly(q, m)
    BY <1>5
  <2> HIDE DEF m
  <2>3. /\ mon' \in [Program -> MonState] /\ mon'[q] = m /\ OtherMon(q)
        /\ \A r \in Program :
             mon'[r].pc # "done" => mon'[r].restarts <= MaxRestarts
        /\ UNCHANGED <<app, generation, task, crashes>>
    BY <2>1, <2>2, MonMove DEF IInv
  <2>4. TypeInv'
    BY <1>3, <1>5, <2>3 DEF IInv, TypeInv, TypeOK, ProcTypeOK
  <2> QED
    BY <1>1, <1>3, <1>4, <1>5, <2>1, <2>3, <2>4, QuietMon
<1>6. CASE /\ n >= MaxRestarts
           /\ MonOnly(q, [mon[q] EXCEPT !.pc = "done", !.restarts = n + 1])
           /\ port' = [port EXCEPT ![q[1]] = NoPort]
           /\ reported' = reported \cup {q}
  <2> DEFINE m == [mon[q] EXCEPT !.pc = "done", !.restarts = n + 1]
  <2>1. /\ m \in MonState /\ m.pc = "done" /\ m.child = mon[q].child
    <3>1. n + 1 \in 0..(MaxRestarts + 1)
      BY <1>1, <1>2, LaunchBounds
    <3> QED
      BY <1>1, <3>1, Fields DEF MonState, IInv
  <2>2. MonOnly(q, m)
    BY <1>6
  <2> HIDE DEF m
  <2>3. /\ mon' \in [Program -> MonState] /\ mon'[q] = m /\ OtherMon(q)
        /\ \A r \in Program :
             mon'[r].pc # "done" => mon'[r].restarts <= MaxRestarts
        /\ UNCHANGED <<app, generation, task, crashes>>
    BY <2>1, <2>2, MonMove DEF IInv
  <2>4. TypeInv'
    BY <1>1, <1>3, <1>6, <2>3 DEF IInv, TypeInv, TypeOK, ProcTypeOK
  <2>5. Shape' /\ Gens' /\ Handles' /\ Attendance' /\ Sole' /\ Lone'
    BY <1>1, <1>3, <1>6, <2>1, <2>3, <2>4, QuietMon
  <2>6. UpstreamIsCurrent'
    <3> SUFFICES ASSUME Calm, NEW k \in LaunchId, Up(k)
                 PROVE  \/ port'["grafana"] = k
                        \/ /\ port'["grafana"] = NoPort
                           /\ <<"grafana", k>> \in reported'
      BY <1>3, <2>3 DEF UpstreamIsCurrent, Up, Current, Calm
    <3>1. CASE q[1] = "grafana"
      <4>1. k = q[2]
        BY <1>1, <1>4, <3>1 DEF IInv, Sole, Up, Claim
      <4> QED
        BY <1>1, <1>6, <3>1, <4>1 DEF IInv, TypeInv, TypeOK
    <3>2. CASE q[1] = "compute"
      <4>1. port'["grafana"] = port["grafana"]
        BY <1>6, <3>2 DEF IInv, TypeInv, TypeOK, Calm
      <4> QED
        BY <1>6, <4>1 DEF IInv, UpstreamIsCurrent, Up, Calm
    <3> QED
      BY <1>1, <3>1, <3>2
  <2> QED
    BY <2>4, <2>5, <2>6 DEF IInv
<1> QED
  BY <1>2, <1>5, <1>6

LEMMA MonRespawnFailsKeeps ==
  ASSUME IInv, NEW q \in Program, mon[q].pc = "respawn",
         MonOnly(q, [mon[q] EXCEPT !.pc = "done"]),
         reported' = reported \cup {q},
         UNCHANGED <<proc, slot, port, racing>>
  PROVE  IInv'
<1> DEFINE m == [mon[q] EXCEPT !.pc = "done"]
<1>1. m \in MonState /\ m.pc = "done" /\ m.child = mon[q].child
  BY Fields DEF IInv, MonState
<1>2. MonOnly(q, m)
  OBVIOUS
<1> HIDE DEF m
<1>3. /\ mon' \in [Program -> MonState] /\ mon'[q] = m /\ OtherMon(q)
      /\ \A r \in Program :
           mon'[r].pc # "done" => mon'[r].restarts <= MaxRestarts
      /\ UNCHANGED <<app, generation, task, crashes>>
  BY <1>1, <1>2, MonMove DEF IInv
<1>4. TypeInv'
  BY <1>3 DEF IInv, TypeInv, TypeOK, ProcTypeOK
<1> QED
  BY <1>1, <1>3, <1>4, QuietMon

LEMMA MonRespawnKeeps ==
  ASSUME IInv, NEW q \in Program, NEW p \in Pid, mon[q].pc = "respawn",
         Spawned(p, q),
         MonOnly(q, [mon[q] EXCEPT !.pc = "store", !.child = p]),
         UNCHANGED <<slot, port, reported, racing>>
  PROVE  IInv'
<1> USE DEF IInv
<1> DEFINE l == q[2]
           m == [mon[q] EXCEPT !.pc = "store", !.child = p]
<1>1. /\ q[1] \in {"compute", "grafana"} /\ l \in LaunchId
      /\ q = <<q[1], l>> /\ q[1] \in Kind /\ mon[q].child = NoPid
      /\ q[1] = "grafana" => task[l].kind = "grafana" /\ task[l].pc = "ready"
      /\ mon[q].restarts <= MaxRestarts
  BY MonFacts
<1>2. /\ m \in MonState /\ m.pc = "store" /\ m.child = p
      /\ m.restarts = mon[q].restarts
  BY Fields DEF MonState
<1>3. MonOnly(q, m)
  OBVIOUS
<1> HIDE DEF m, l
<1>4. /\ mon' \in [Program -> MonState] /\ mon'[q] = m /\ OtherMon(q)
      /\ \A r \in Program :
           mon'[r].pc # "done" => mon'[r].restarts <= MaxRestarts
      /\ UNCHANGED <<app, generation, task, crashes>>
  BY <1>1, <1>2, <1>3, MonMove
<1>5. /\ ProcTypeOK' /\ proc[p].st = "free"
      /\ proc'[p].prog = q /\ proc'[p].st = "starting"
      /\ proc'[p].child /\ ~proc'[p].term
      /\ \A r \in Pid \ {p} : proc'[r] = proc[r]
  BY SpawnedProc DEF TypeInv, TypeOK
<1>6. TypeInv'
  BY <1>4, <1>5 DEF TypeInv, TypeOK
<1>7. ChildrenKept /\ Kept' \subseteq Kept \cup {p}
  BY <1>5 DEF ChildrenKept, Kept, Alive
<1>8. Shape'
  BY <1>2, <1>4, OsAssumption, MonKeepsShape
<1>9. Gens'
  BY <1>4, GensFrame
<1>10. Handles'
  <2>1. /\ \A k \in Kind : slot[k] # p
        /\ \A k \in LaunchId : task[k].child # p
        /\ \A r \in Program : mon[r].child # p
    BY <1>5, FreshHandle
  <2>2. \A k \in Kind : (slot[k] # NoPid => ChildOf(slot[k], k))'
    BY <1>7 DEF Handles, ChildOf, ChildrenKept
  <2>3. \A k \in LaunchId : (task[k].child # NoPid =>
           /\ ChildOf(task[k].child, task[k].kind)
           /\ proc[task[k].child].prog = Prog(k))'
    BY <1>4, <1>7 DEF Handles, ChildOf, ChildrenKept, Prog
  <2>4. \A r \in Program : (mon[r].child # NoPid =>
           /\ ChildOf(mon[r].child, r[1])
           /\ mon[r].pc = "store" => proc[mon[r].child].prog = r)'
    <3>1. (/\ ChildOf(mon[q].child, q[1])
           /\ proc[mon[q].child].prog = q)'
      BY <1>2, <1>4, <1>5 DEF ChildOf
    <3>2. ASSUME NEW r \in Program, r # q, mon[r].child # NoPid
          PROVE  (/\ ChildOf(mon[r].child, r[1])
                  /\ mon[r].pc = "store" => proc[mon[r].child].prog = r)'
      BY <1>4, <1>7, <3>2 DEF Handles, ChildOf, ChildrenKept, OtherMon
    <3> QED
      BY <1>4, <3>1, <3>2 DEF OtherMon
  <2>5. \A r, s \in Program :
           mon'[r].child = mon'[s].child /\ mon'[r].child # NoPid => r = s
    BY <1>2, <1>4, <2>1 DEF Handles, OtherMon
  <2>6. \A r \in Program : mon'[r].child # NoPid =>
           /\ \A k \in Kind : slot[k] # mon'[r].child
           /\ \A k \in LaunchId : task[k].child # mon'[r].child
    BY <1>2, <1>4, <2>1 DEF Handles, OtherMon
  <2> QED
    BY <1>4, <2>2, <2>3, <2>4, <2>5, <2>6 DEF Handles
<1>11. Attendance'
  <2>1. \A r \in Program : InUse(r)' => InUse(r)
    BY <1>2, <1>4 DEF InUse, OtherMon
  <2>2. \A r \in Program : Own(r)' => Own(r)
    BY <1>4 DEF Own, Current
  <2>3. \A r \in Program : mon'[r].pc \in {"wait", "done"} => mon'[r] = mon[r]
    BY <1>2, <1>4 DEF OtherMon
  <2> QED
    BY <1>4, <1>7, <2>1, <2>2, <2>3, AttendanceFrame DEF HistoryKept
<1>12. q[1] = "compute" /\ Calm =>
         \A k \in LaunchId :
           mon'[<<"grafana", k>>] = mon[<<"grafana", k>>]
  BY <1>1, <1>4, ProgFacts DEF OtherMon, Calm
<1>13. Calm => \A k \in LaunchId \ {l} :
                 mon'[<<"grafana", k>>] = mon[<<"grafana", k>>]
  BY <1>1, <1>4, ProgFacts DEF OtherMon, Calm
<1>14. q[1] = "grafana" => Claim(l)
  BY <1>1 DEF Claim
<1>15. \A k \in LaunchId : Calm /\ Claim(k)' => Claim(k)
  <2>1. CASE q[1] = "compute"
    BY <1>4, <1>12, <2>1 DEF Claim, Current
  <2>2. CASE q[1] = "grafana"
    BY <1>4, <1>13, <1>14, <2>2 DEF Claim, Current
  <2> QED
    BY <1>1, <2>1, <2>2
<1>16. Sole'
  BY <1>15, SoleFrame
<1>17. Lone'
  <2>1. CASE q[1] = "grafana"
    <3>1. Claim(l)'
      BY <1>1, <1>2, <1>4, <2>1 DEF Claim
    <3>2. \A r \in Kept : ~Minds(l, r)
      BY <1>1, <2>1 DEF Minds
    <3>3. Minds(l, p)'
      BY <1>1, <1>2, <1>4, <2>1 DEF Minds
    <3> QED
      BY <1>1, <1>7, <1>14, <1>16, <2>1, <3>1, <3>2, <3>3, LoneSpawn
  <2>2. CASE q[1] = "compute"
    <3>1. p \notin Kept'
      BY <1>5, <2>2 DEF Kept, Grafanas
    <3>2. \A k \in LaunchId, r \in Kept' :
            Calm /\ Minds(k, r) => Minds(k, r)'
      BY <1>4, <1>12, <2>2 DEF Minds
    <3> QED
      BY <1>7, <1>15, <3>1, <3>2, LoneFrame
  <2> QED
    BY <1>1, <2>1, <2>2
<1>18. UpstreamIsCurrent'
  <2>1. \A k \in LaunchId : Up(k)' => Up(k)
    BY <1>4 DEF Up, Current
  <2> QED
    BY <2>1, UpstreamFrame DEF HistoryKept
<1> QED
  BY <1>6, <1>8, <1>9, <1>10, <1>11, <1>16, <1>17, <1>18

LEMMA MonStoreKeeps ==
  ASSUME IInv, NEW q \in Program, MonStore(q)
  PROVE  IInv'
<1> USE DEF IInv
<1> DEFINE l == q[2]
           c == mon[q].child
           m == [mon[q] EXCEPT !.pc = "health", !.child = NoPid]
<1>1. /\ mon[q].pc = "store" /\ c # NoPid
      /\ q[1] \in {"compute", "grafana"} /\ l \in LaunchId
      /\ q = <<q[1], l>> /\ q[1] \in Kind
      /\ q[1] = "grafana" => task[l].kind = "grafana" /\ task[l].pc = "ready"
      /\ ~(task[l].kind = q[1] /\ task[l].pc \in Starting)
      /\ mon[q].restarts <= MaxRestarts
  BY MonFacts DEF MonStore
<1>2. c \in Pid /\ ChildOf(c, q[1]) /\ proc[c].prog = q
  BY <1>1 DEF Handles, ChildOf
<1>3. /\ m \in MonState /\ m.pc = "health" /\ m.child = NoPid
      /\ m.restarts = mon[q].restarts
  BY Fields DEF MonState
<1>4. MonOnly(q, m)
  BY DEF MonStore
<1>5. /\ slot' \in [Kind -> Pid \cup {NoPid}]
      /\ slot'[q[1]] = c
      /\ \A k \in Kind \ {q[1]} : slot'[k] = slot[k]
      /\ UNCHANGED <<proc, port, reported>>
      /\ Contended(q) /\ racing \subseteq racing' /\ racing' \in SUBSET Kind
  BY <1>1, <1>2 DEF MonStore, Contended, TypeInv, TypeOK
<1> HIDE DEF m, l, c
<1>6. /\ mon' \in [Program -> MonState] /\ mon'[q] = m /\ OtherMon(q)
      /\ \A r \in Program :
           mon'[r].pc # "done" => mon'[r].restarts <= MaxRestarts
      /\ UNCHANGED <<app, generation, task, crashes>>
  BY <1>1, <1>3, <1>4, MonMove
<1>7. TypeInv'
  BY <1>5, <1>6 DEF TypeInv, TypeOK, ProcTypeOK
<1>8. Shape'
  BY <1>1, <1>3, <1>6, MonKeepsShape
<1>9. Gens'
  BY <1>6, GensFrame
<1>10. Handles'
  <2> USE DEF ChildOf
  <2>1. \A k \in Kind : (slot[k] # NoPid => ChildOf(slot[k], k))'
    BY <1>2, <1>5 DEF Handles
  <2>2. \A k \in LaunchId : (task[k].child # NoPid =>
           /\ ChildOf(task[k].child, task[k].kind)
           /\ proc[task[k].child].prog = Prog(k))'
    BY <1>5, <1>6 DEF Handles, Prog
  <2>3. \A r \in Program : (mon[r].child # NoPid =>
           /\ ChildOf(mon[r].child, r[1])
           /\ mon[r].pc = "store" => proc[mon[r].child].prog = r)'
    <3>1. ASSUME NEW r \in Program, r # q, mon[r].child # NoPid
          PROVE  (/\ ChildOf(mon[r].child, r[1])
                  /\ mon[r].pc = "store" => proc[mon[r].child].prog = r)'
      BY <1>5, <1>6, <3>1 DEF Handles, OtherMon
    <3> QED
      BY <1>3, <1>6, <3>1 DEF OtherMon
  <2>4. \A r, s \in Program :
           mon'[r].child = mon'[s].child /\ mon'[r].child # NoPid => r = s
    BY <1>3, <1>6 DEF Handles, OtherMon
  <2>5. \A r \in Program : mon'[r].child # NoPid =>
           /\ \A k \in Kind : slot'[k] # mon'[r].child
           /\ \A k \in LaunchId : task'[k].child # mon'[r].child
    BY <1>1, <1>3, <1>5, <1>6 DEF Handles, OtherMon, c
  <2>6. \A k \in Kind, j \in LaunchId :
           slot'[k] # NoPid => task'[j].child # slot'[k]
    BY <1>1, <1>5, <1>6 DEF Handles, c
  <2> QED
    BY <1>5, <1>6, <2>1, <2>2, <2>3, <2>4, <2>5, <2>6 DEF Handles
<1>11. q[1] = "grafana" => Claim(l)
  BY <1>1 DEF Claim
<1>12. Attendance'
  <2> SUFFICES ASSUME NEW r \in Program, r[1] \notin racing'
               PROVE  Tended(r)'
    BY DEF Attendance
  <2>1. Tended(r)
    BY <1>5 DEF Attendance
  <2>2. Own(r)' => Own(r)
    BY <1>6 DEF Own, Current
  <2>3. InUse(r)' => slot'[r[1]] # NoPid /\ proc'[slot'[r[1]]].prog = r
    <3>1. CASE r = q
      BY <1>1, <1>2, <1>5, <3>1
    <3>2. CASE r # q
      <4>1. InUse(r)' => InUse(r)
        BY <1>6, <3>2 DEF InUse, OtherMon
      <4>2. CASE r[1] = q[1]
        <5>1. r[2] # l
          BY <1>1, <3>2, <4>2, ProgFacts
        <5>2. ~InUse(r)
          BY <1>5, <1>11, <4>2, <5>1, SlotFree DEF l
        <5> QED
          BY <4>1, <5>2
      <4>3. CASE r[1] # q[1]
        BY <1>5, <2>1, <4>1, <4>3, ProgFacts DEF Tended
      <4> QED
        BY <4>2, <4>3
    <3> QED
      BY <3>1, <3>2
  <2>4. mon'[r].pc \in {"wait", "done"} => mon'[r] = mon[r]
    BY <1>3, <1>6 DEF OtherMon
  <2> QED
    BY <1>5, <2>1, <2>2, <2>3, <2>4 DEF Tended
<1>13. Calm /\ q[1] = "compute" =>
         \A k \in LaunchId : mon'[<<"grafana", k>>] = mon[<<"grafana", k>>]
  BY <1>1, <1>6, ProgFacts DEF OtherMon, Calm
<1>14. Calm => \A k \in LaunchId \ {l} :
                 mon'[<<"grafana", k>>] = mon[<<"grafana", k>>]
  BY <1>1, <1>6, ProgFacts DEF OtherMon, Calm
<1>15. \A k \in LaunchId : Calm /\ Claim(k)' => Claim(k)
  <2>1. CASE q[1] = "compute"
    BY <1>6, <1>13, <2>1 DEF Claim, Current
  <2>2. CASE q[1] = "grafana"
    BY <1>6, <1>14, <1>11, <2>2 DEF Claim, Current
  <2> QED
    BY <1>1, <2>1, <2>2
<1>16. Sole'
  BY <1>5, <1>15, SoleFrame
<1>17. Lone'
  <2>1. ASSUME NEW k \in LaunchId, NEW p \in Kept', Calm, Claim(k)', Minds(k, p)
        PROVE  Minds(k, p)'
    <3>1. CASE q[1] = "compute"
      <4>1. slot'["grafana"] = slot["grafana"]
        BY <1>5, <2>1, <3>1 DEF Calm
      <4> QED
        BY <1>6, <1>13, <2>1, <3>1, <4>1 DEF Minds
    <3>2. CASE q[1] = "grafana"
      <4>1. k = l
        BY <1>1, <1>11, <1>15, <2>1, <3>2 DEF Sole
      <4>2. c = p
        BY <1>1, <2>1, <3>2, <4>1 DEF Minds, c
      <4> QED
        BY <1>1, <1>3, <1>5, <1>6, <2>1, <3>2, <4>1, <4>2 DEF Minds
    <3> QED
      BY <1>1, <3>1, <3>2
  <2>2. Kept' \subseteq Kept
    BY <1>5, SameProcs
  <2> QED
    BY <1>5, <1>15, <2>1, <2>2, LoneFrame
<1>18. UpstreamIsCurrent'
  <2>1. \A k \in LaunchId : Up(k)' => Up(k)
    BY <1>6 DEF Up, Current
  <2> QED
    BY <1>5, <2>1, UpstreamFrame DEF HistoryKept
<1> QED
  BY <1>7, <1>8, <1>9, <1>10, <1>12, <1>16, <1>17, <1>18

LEMMA MonTakeKeeps ==
  ASSUME IInv, NEW q \in Program, MonTake(q)
  PROVE  IInv'
<1> USE DEF IInv
<1> DEFINE l == q[2]
           c == slot[q[1]]
           m == [mon[q] EXCEPT !.child = c,
                               !.pc = IF c = NoPid THEN "done" ELSE "wait"]
<1>1. /\ mon[q].pc = "take" /\ mon[q].child = NoPid
      /\ q[1] \in {"compute", "grafana"} /\ l \in LaunchId
      /\ q = <<q[1], l>> /\ q[1] \in Kind
      /\ q[1] = "grafana" => task[l].kind = "grafana" /\ task[l].pc = "ready"
      /\ ~(task[l].kind = q[1] /\ task[l].pc \in Starting)
      /\ mon[q].restarts <= MaxRestarts
  BY MonFacts DEF MonTake
<1>2. c \in Pid \cup {NoPid} /\ (c # NoPid => ChildOf(c, q[1]))
  BY <1>1, Fields DEF Handles
<1>3. /\ m \in MonState /\ m.child = c /\ m.restarts = mon[q].restarts
      /\ m.pc = IF c = NoPid THEN "done" ELSE "wait"
  BY <1>2, Fields DEF MonState
<1>4. MonOnly(q, m)
  BY DEF MonTake
<1>5. /\ slot' \in [Kind -> Pid \cup {NoPid}]
      /\ slot'[q[1]] = NoPid
      /\ \A k \in Kind \ {q[1]} : slot'[k] = slot[k]
      /\ UNCHANGED <<proc, port, reported, racing>>
  BY <1>1 DEF MonTake, TypeInv, TypeOK
<1> HIDE DEF m, l, c
<1>6. /\ mon' \in [Program -> MonState] /\ mon'[q] = m /\ OtherMon(q)
      /\ \A r \in Program :
           mon'[r].pc # "done" => mon'[r].restarts <= MaxRestarts
      /\ UNCHANGED <<app, generation, task, crashes>>
  BY <1>1, <1>3, <1>4, MonMove
<1>7. TypeInv'
  BY <1>5, <1>6 DEF TypeInv, TypeOK, ProcTypeOK
<1>8. Shape'
  BY <1>1, <1>3, <1>6, MonKeepsShape
<1>9. Gens'
  BY <1>6, GensFrame
<1>10. Handles'
  <2> USE DEF ChildOf
  <2>1. \A k \in Kind : (slot[k] # NoPid => ChildOf(slot[k], k))'
    BY <1>5 DEF Handles
  <2>2. \A k \in LaunchId : (task[k].child # NoPid =>
           /\ ChildOf(task[k].child, task[k].kind)
           /\ proc[task[k].child].prog = Prog(k))'
    BY <1>5, <1>6 DEF Handles, Prog
  <2>3. \A r \in Program : (mon[r].child # NoPid =>
           /\ ChildOf(mon[r].child, r[1])
           /\ mon[r].pc = "store" => proc[mon[r].child].prog = r)'
    <3>1. ASSUME NEW r \in Program, r # q, mon[r].child # NoPid
          PROVE  (/\ ChildOf(mon[r].child, r[1])
                  /\ mon[r].pc = "store" => proc[mon[r].child].prog = r)'
      BY <1>5, <1>6, <3>1 DEF Handles, OtherMon
    <3> QED
      BY <1>2, <1>3, <1>5, <1>6, <3>1 DEF OtherMon
  <2>4. \A r, s \in Program :
           mon'[r].child = mon'[s].child /\ mon'[r].child # NoPid => r = s
    BY <1>1, <1>3, <1>6 DEF Handles, OtherMon, c
  <2>5. \A r \in Program : mon'[r].child # NoPid =>
           /\ \A k \in Kind : slot'[k] # mon'[r].child
           /\ \A k \in LaunchId : task'[k].child # mon'[r].child
    <3>1. c # NoPid => \A k \in Kind \ {q[1]} : slot[k] # c
      BY <1>2 DEF Handles
    <3>2. c # NoPid => \A k \in LaunchId : task[k].child # c
      BY <1>1 DEF Handles, c
    <3> QED
      BY <1>3, <1>5, <1>6, <3>1, <3>2 DEF Handles, OtherMon
  <2>6. \A k \in Kind, j \in LaunchId :
           slot'[k] # NoPid => task'[j].child # slot'[k]
    BY <1>5, <1>6 DEF Handles
  <2> QED
    BY <1>5, <1>6, <2>1, <2>2, <2>3, <2>4, <2>5, <2>6 DEF Handles
<1>11. Attendance'
  <2> SUFFICES ASSUME NEW r \in Program, r[1] \notin racing'
               PROVE  Tended(r)'
    BY DEF Attendance
  <2>1. Tended(r)
    BY <1>5 DEF Attendance
  <2>2. Own(r)' => Own(r)
    BY <1>6 DEF Own, Current
  <2>3. CASE r = q
    <3>1. c # NoPid /\ proc[c].prog = q
      BY <1>1, <2>1, <2>3 DEF Tended, InUse, c
    <3>2. ~InUse(q)'
      BY <1>1, <1>3, <1>6 DEF InUse, Starting, l
    <3> QED
      BY <1>3, <1>5, <1>6, <2>3, <3>1, <3>2 DEF Tended
  <2>4. CASE r # q /\ r[1] = q[1]
    <3>1. c # NoPid /\ proc[c].prog = q
      BY <1>1, <1>5, <2>4 DEF Attendance, Tended, InUse, c
    <3>2. ~InUse(r)
      BY <2>1, <2>4, <3>1 DEF Tended, c
    <3>3. ~InUse(r)'
      BY <1>6, <2>4, <3>2 DEF InUse, OtherMon
    <3> QED
      BY <1>5, <1>6, <2>1, <2>2, <2>4, <3>3 DEF Tended, OtherMon
  <2>5. CASE r[1] # q[1]
    <3>1. InUse(r)' => InUse(r)
      BY <1>6, <2>5 DEF InUse, OtherMon
    <3>2. mon'[r] = mon[r] /\ slot'[r[1]] = slot[r[1]]
      BY <1>5, <1>6, <2>5, ProgFacts DEF OtherMon
    <3> QED
      BY <1>5, <2>1, <2>2, <3>1, <3>2 DEF Tended
  <2> QED
    BY <2>3, <2>4, <2>5
<1>12. q[1] = "grafana" => Claim(l)
  BY <1>1 DEF Claim
<1>13. Calm /\ q[1] = "compute" =>
         \A k \in LaunchId : mon'[<<"grafana", k>>] = mon[<<"grafana", k>>]
  BY <1>1, <1>6, ProgFacts DEF OtherMon, Calm
<1>14. Calm => \A k \in LaunchId \ {l} :
                 mon'[<<"grafana", k>>] = mon[<<"grafana", k>>]
  BY <1>1, <1>6, ProgFacts DEF OtherMon, Calm
<1>15. \A k \in LaunchId : Calm /\ Claim(k)' => Claim(k)
  <2>1. CASE q[1] = "compute"
    BY <1>6, <1>13, <2>1 DEF Claim, Current
  <2>2. CASE q[1] = "grafana"
    BY <1>6, <1>12, <1>14, <2>2 DEF Claim, Current
  <2> QED
    BY <1>1, <2>1, <2>2
<1>16. Sole'
  BY <1>5, <1>15, SoleFrame
<1>17. Lone'
  <2>1. ASSUME NEW k \in LaunchId, NEW p \in Kept', Calm, Claim(k)', Minds(k, p)
        PROVE  Minds(k, p)'
    <3>1. CASE q[1] = "compute"
      <4>1. slot'["grafana"] = slot["grafana"]
        BY <1>5, <2>1, <3>1 DEF Calm
      <4> QED
        BY <1>6, <1>13, <2>1, <3>1, <4>1 DEF Minds
    <3>2. CASE q[1] = "grafana"
      <4>1. k = l
        BY <1>1, <1>12, <1>15, <2>1, <3>2 DEF Sole
      <4>2. c = p /\ p # NoPid
        BY <1>1, <2>1, <3>2, <4>1, OsAssumption DEF Minds, c, Kept
      <4> QED
        BY <1>1, <1>3, <1>6, <2>1, <3>2, <4>1, <4>2 DEF Minds
    <3> QED
      BY <1>1, <3>1, <3>2
  <2>2. Kept' \subseteq Kept
    BY <1>5, SameProcs
  <2> QED
    BY <1>5, <1>15, <2>1, <2>2, LoneFrame
<1>18. UpstreamIsCurrent'
  <2>1. \A k \in LaunchId : Up(k)' => Up(k)
    BY <1>6 DEF Up, Current
  <2> QED
    BY <1>5, <2>1, UpstreamFrame DEF HistoryKept
<1> QED
  BY <1>7, <1>8, <1>9, <1>10, <1>11, <1>16, <1>17, <1>18

\* The child a monitor waited for is gone, and so is its handle.
LEMMA MonWaitKeeps ==
  ASSUME IInv, NEW q \in Program, MonWait(q)
  PROVE  IInv'
<1> USE DEF IInv
<1> DEFINE l == q[2]
           c == mon[q].child
           m == [mon[q] EXCEPT !.pc = "woke", !.child = NoPid]
<1>1. /\ mon[q].pc = "wait" /\ c # NoPid
      /\ q[1] \in {"compute", "grafana"} /\ l \in LaunchId
      /\ q = <<q[1], l>> /\ q[1] \in Kind
      /\ q[1] = "grafana" => task[l].kind = "grafana" /\ task[l].pc = "ready"
      /\ mon[q].restarts <= MaxRestarts
  BY MonFacts DEF MonWait
<1>2. c \in Pid
  BY <1>1 DEF Handles, ChildOf
<1>3. /\ m \in MonState /\ m.pc = "woke" /\ m.child = NoPid
      /\ m.restarts = mon[q].restarts
  BY Fields DEF MonState
<1>4. MonOnly(q, m) /\ UNCHANGED <<slot, port, reported, racing>>
  BY DEF MonWait
<1>5. /\ ProcTypeOK' /\ proc[c].st = "zombie" /\ proc'[c] = NoProcess
      /\ \A p \in Pid \ {c} : proc'[p] = proc[p]
  BY <1>2, ReapedProc DEF MonWait, TypeInv, TypeOK
<1> HIDE DEF m, l, c
<1>6. /\ mon' \in [Program -> MonState] /\ mon'[q] = m /\ OtherMon(q)
      /\ \A r \in Program :
           mon'[r].pc # "done" => mon'[r].restarts <= MaxRestarts
      /\ UNCHANGED <<app, generation, task, crashes>>
  BY <1>1, <1>3, <1>4, MonMove
<1>7. TypeInv'
  BY <1>4, <1>5, <1>6 DEF TypeInv, TypeOK
<1>8. Shape'
  BY <1>1, <1>3, <1>6, MonKeepsShape
<1>9. Gens'
  BY <1>6, GensFrame
<1>10. /\ \A k \in Kind : slot[k] # c
       /\ \A k \in LaunchId : task[k].child # c
       /\ \A r \in Program : r # q => mon[r].child # c
  BY <1>1 DEF Handles, c
<1>11. Handles'
  <2> USE DEF ChildOf
  <2>1. \A k \in Kind : (slot[k] # NoPid => ChildOf(slot[k], k))'
    BY <1>4, <1>5, <1>10 DEF Handles
  <2>2. \A k \in LaunchId : (task[k].child # NoPid =>
           /\ ChildOf(task[k].child, task[k].kind)
           /\ proc[task[k].child].prog = Prog(k))'
    <3>1. \A k \in LaunchId : task[k].child # NoPid =>
            /\ ChildOf(task[k].child, task[k].kind)
            /\ proc[task[k].child].prog = Prog(k)
            /\ proc'[task[k].child] = proc[task[k].child]
      BY <1>5, <1>10 DEF Handles
    <3> QED
      BY <1>6, <3>1 DEF Prog
  <2>3. \A r \in Program : (mon[r].child # NoPid =>
           /\ ChildOf(mon[r].child, r[1])
           /\ mon[r].pc = "store" => proc[mon[r].child].prog = r)'
    <3>1. ASSUME NEW r \in Program, r # q, mon[r].child # NoPid
          PROVE  (/\ ChildOf(mon[r].child, r[1])
                  /\ mon[r].pc = "store" => proc[mon[r].child].prog = r)'
      BY <1>5, <1>6, <1>10, <3>1 DEF Handles, OtherMon
    <3> QED
      BY <1>3, <1>6, <3>1 DEF OtherMon
  <2>4. \A r, s \in Program :
           mon'[r].child = mon'[s].child /\ mon'[r].child # NoPid => r = s
    BY <1>3, <1>6 DEF Handles, OtherMon
  <2>5. \A r \in Program : mon'[r].child # NoPid =>
           /\ \A k \in Kind : slot'[k] # mon'[r].child
           /\ \A k \in LaunchId : task'[k].child # mon'[r].child
    BY <1>3, <1>4, <1>6 DEF Handles, OtherMon
  <2> QED
    BY <1>4, <1>6, <2>1, <2>2, <2>3, <2>4, <2>5 DEF Handles
<1>12. Attendance'
  <2> SUFFICES ASSUME NEW r \in Program, r[1] \notin racing'
               PROVE  Tended(r)'
    BY DEF Attendance
  <2>1. Tended(r)
    BY <1>4 DEF Attendance
  <2>2. Own(r)' => Own(r)
    BY <1>6 DEF Own, Current
  <2>3. /\ slot[r[1]] # NoPid => /\ slot[r[1]] \in Pid
                                 /\ proc'[slot[r[1]]] = proc[slot[r[1]]]
        /\ InUse(r)' => InUse(r)
    BY <1>3, <1>5, <1>6, <1>10, ProgFacts, Fields DEF InUse, OtherMon
  <2>4. mon'[r].pc \in {"wait", "done"} => r # q /\ mon'[r] = mon[r]
    BY <1>3, <1>6 DEF OtherMon
  <2>5. r # q /\ mon[r].pc = "wait" =>
          /\ mon[r].child \in Pid
          /\ proc'[mon[r].child] = proc[mon[r].child]
    BY <1>5, <1>10, MonFacts, Fields
  <2> QED
    BY <1>4, <2>1, <2>2, <2>3, <2>4, <2>5 DEF Tended
<1>13. Calm /\ q[1] = "compute" =>
         \A k \in LaunchId : mon'[<<"grafana", k>>] = mon[<<"grafana", k>>]
  BY <1>1, <1>6, ProgFacts DEF OtherMon, Calm
<1>14. Calm => \A k \in LaunchId \ {l} :
                 mon'[<<"grafana", k>>] = mon[<<"grafana", k>>]
  BY <1>1, <1>6, ProgFacts DEF OtherMon, Calm
<1>15. \A k \in LaunchId : Calm /\ Claim(k)' => Claim(k)
  <2>1. CASE q[1] = "compute"
    BY <1>6, <1>13, <2>1 DEF Claim, Current
  <2>2. CASE q[1] = "grafana"
    BY <1>1, <1>3, <1>6, <1>14, <2>2 DEF Claim, Current
  <2> QED
    BY <1>1, <2>1, <2>2
<1>16. Sole'
  BY <1>4, <1>15, SoleFrame
<1>17. Lone'
  <2>1. Kept' \subseteq Kept /\ c \notin Kept
    BY <1>5 DEF Kept, Alive, NoProcess
  <2>2. ASSUME NEW k \in LaunchId, NEW p \in Kept', Calm, Claim(k)', Minds(k, p)
        PROVE  Minds(k, p)'
    <3>1. CASE q[1] = "compute"
      BY <1>4, <1>6, <1>13, <2>2, <3>1 DEF Minds
    <3>2. CASE q[1] = "grafana" /\ k # l
      BY <1>4, <1>6, <1>14, <2>2, <3>2 DEF Minds
    <3>3. CASE q[1] = "grafana" /\ k = l
      <4>1. c = p
        BY <1>1, <2>2, <3>3 DEF Minds, c
      <4> QED
        BY <2>1, <4>1
    <3> QED
      BY <1>1, <3>1, <3>2, <3>3
  <2> QED
    BY <1>4, <1>15, <2>1, <2>2, LoneFrame
<1>18. UpstreamIsCurrent'
  <2>1. \A k \in LaunchId : Up(k)' => Up(k)
    BY <1>6 DEF Up, Current
  <2> QED
    BY <1>4, <2>1, UpstreamFrame DEF HistoryKept
<1> QED
  BY <1>7, <1>8, <1>9, <1>11, <1>12, <1>16, <1>17, <1>18

-----------------------------------------------------------------------------
(***************************************************************************)
(* The processes, and quitting                                             *)
(***************************************************************************)

LEMMA PkillKeeps ==
  ASSUME IInv, NEW G, Pkilled(G), app' \in AppState, NoThreadMoves
  PROVE  IInv'
<1>1. /\ ProcTypeOK'
      /\ \A p \in Pid :
           /\ proc'[p].prog = proc[p].prog
           /\ proc'[p].st = proc[p].st
           /\ proc'[p].child = proc[p].child
           /\ proc'[p].term = (proc[p].term \/ (Alive(p) /\ proc[p].prog \in G))
  BY PkilledProc DEF IInv, TypeInv, TypeOK
<1>2. UNCHANGED <<slot, port, generation, task, mon, reported, racing, crashes>>
  BY DEF NoThreadMoves, shared
<1>3. TypeInv'
  BY <1>1, <1>2 DEF IInv, TypeInv, TypeOK
<1>4. ChildrenKept /\ Kept' \subseteq Kept
  BY <1>1 DEF ChildrenKept, Kept, Alive
<1> QED
  BY <1>2, <1>3, <1>4, ProcStep

LEMMA BindKeeps ==
  ASSUME IInv, NEW p \in Pid, Bind(p)
  PROVE  IInv'
<1>1. /\ ProcTypeOK' /\ Alive(p)
      /\ proc'[p].st = "serving"
      /\ \A q \in Pid : /\ proc'[q].prog = proc[q].prog
                        /\ proc'[q].term = proc[q].term
                        /\ proc'[q].child = proc[q].child
      /\ \A q \in Pid \ {p} : proc'[q] = proc[q]
  BY BoundProc DEF Bind, IInv, TypeInv, TypeOK
<1>2. /\ UNCHANGED <<slot, port, generation, task, mon, reported, racing>>
      /\ UNCHANGED <<app, crashes>>
  BY DEF Bind, ProcOnly, shared
<1>3. TypeInv'
  BY <1>1, <1>2 DEF IInv, TypeInv, TypeOK
<1>4. ChildrenKept /\ Kept' \subseteq Kept
  BY <1>1 DEF ChildrenKept, Kept, Alive
<1> QED
  BY <1>2, <1>3, <1>4, ProcStep

\* A child that exits is a zombie until its monitor waits for it.
LEMMA ExitKeeps ==
  ASSUME IInv, NEW p \in Pid, Exited(p), ProcOnly, crashes' \in 0..MaxCrash
  PROVE  IInv'
<1>1. /\ ProcTypeOK' /\ Alive(p) /\ ~Alive(p)'
      /\ proc[p].child => /\ proc'[p].st = "zombie"
                          /\ proc'[p].prog = proc[p].prog
                          /\ proc'[p].child
      /\ \A q \in Pid \ {p} : proc'[q] = proc[q]
  BY ExitedProc DEF IInv, TypeInv, TypeOK
<1>2. UNCHANGED <<app, slot, port, generation, task, mon, reported, racing>>
  BY DEF ProcOnly, shared
<1>3. TypeInv'
  BY <1>1, <1>2 DEF IInv, TypeInv, TypeOK
<1>4. ChildrenKept
  BY <1>1 DEF ChildrenKept
<1>5. Kept' \subseteq Kept
  BY <1>1 DEF Kept, Alive
<1> QED
  BY <1>2, <1>3, <1>4, <1>5, ProcStep

\* Where no task has run yet there is nothing to look after.
Fresh ==
  slot = NoHandles /\ generation = 0 /\ task = NoTasks /\ mon = NoMonitors

Settled ==
  /\ Shape /\ Gens /\ Handles /\ Attendance /\ Sole
  /\ Calm /\ (\A p, q \in Kept : p = q) => Lone
  /\ UpstreamIsCurrent
  /\ \A q \in Program : mon[q].pc = "none" /\ mon[q].restarts = 0

LEMMA FreshShell == Fresh => Settled
<1> SUFFICES ASSUME Fresh PROVE Settled
  OBVIOUS
<1>1. /\ \A k \in Kind : slot[k] = NoPid
      /\ \A l \in LaunchId : /\ task[l].pc = "idle" /\ task[l].kind = "compute"
                             /\ task[l].gen = 0 /\ task[l].child = NoPid
      /\ \A q \in Program : /\ mon[q].pc = "none" /\ mon[q].child = NoPid
                            /\ mon[q].restarts = 0
  BY DEF Fresh, NoHandles, NoTasks, NoMonitors, NewMon
<1>2. Shape
  BY <1>1, ProgFacts DEF Shape, TaskShape, MonShape, Starting
<1>3. Gens
  <2>1. Bumped = {}
    BY <1>1 DEF Bumped
  <2> QED
    BY <1>1, <2>1, FS_EmptySet DEF Gens, Fresh
<1>4. Handles
  BY <1>1 DEF Handles
<1>5. \A l \in LaunchId : ~Current(l) /\ (Calm => ~Claim(l))
  BY <1>1, ProgFacts DEF Current, Claim, Calm, Starting, Fresh
<1>6. Attendance
  BY <1>1, ProgFacts DEF Attendance, Tended, InUse
<1>7. Sole /\ UpstreamIsCurrent /\ (Calm /\ (\A p, q \in Kept : p = q) => Lone)
  BY <1>5 DEF Sole, UpstreamIsCurrent, Lone
<1> QED
  BY <1>1, <1>2, <1>3, <1>4, <1>6, <1>7 DEF Settled

LEMMA FreshTypes ==
  /\ NoHandles \in [Kind -> Pid \cup {NoPid}]
  /\ NoPorts \in [Kind -> LaunchId \cup {NoPort}]
  /\ NoTasks \in [LaunchId -> TaskState]
  /\ NoMonitors \in [Program -> MonState]
  /\ 0 \in 0..MaxLaunch /\ 0 \in 0..MaxCrash
BY LaunchBounds
   DEF NoHandles, NoPorts, NoTasks, NoMonitors, NewMon, TaskState, MonState

LEMMA FinishExitKeeps ==
  ASSUME IInv, FinishExit
  PROVE  IInv'
<1>1. /\ ProcTypeOK'
      /\ \A p \in Pid : proc'[p].st # "free" =>
           /\ Alive(p) /\ Alive(p)'
           /\ proc'[p].prog = proc[p].prog
           /\ proc'[p].term = proc[p].term
  BY OrphanedProc DEF FinishExit, IInv, TypeInv, TypeOK
<1>2. Fresh'
  BY DEF FinishExit, Fresh
<1>3. Fresh' => Settled'
  BY FreshShell, PTL
<1>4. Settled'
  BY <1>2, <1>3
<1>5. TypeInv'
  BY <1>1, <1>4, FreshTypes, LaunchBounds
     DEF Settled, FinishExit, IInv, TypeInv, TypeOK, AppState
<1>6. Lone'
  <2>1. racing' = racing /\ Kept' \subseteq Kept
    BY <1>1 DEF FinishExit, Kept, Alive
  <2>2. Calm' => Calm /\ \A p, q \in Kept' : p = q
    BY <2>1 DEF Calm, IInv, Lone
  <2>3. ~Calm' => Lone'
    BY DEF Lone
  <2> QED
    BY <1>4, <2>2, <2>3 DEF Settled
<1> QED
  BY <1>4, <1>5, <1>6 DEF IInv, Settled

-----------------------------------------------------------------------------
LEMMA InitIInv == Init => IInv
<1> SUFFICES ASSUME Init PROVE IInv
  OBVIOUS
<1>1. Settled
  BY FreshShell DEF Init, Fresh
<1>2. ProcTypeOK
  BY InitProcType DEF Init
<1>3. TypeInv
  BY <1>1, <1>2, FreshTypes, LaunchBounds DEF Settled, Init, TypeInv, TypeOK, AppState
<1>4. Kept = {}
  BY DEF Init, ProcInit, Kept, Alive, NoProcess
<1>5. Lone
  BY <1>4 DEF Lone
<1> QED
  BY <1>1, <1>3, <1>5 DEF IInv, Settled

LEMMA NextIInv == IInv /\ [Next]_vars => IInv'
<1> SUFFICES ASSUME IInv, [Next]_vars PROVE IInv'
  OBVIOUS
<1>1. ASSUME NEW l \in LaunchId, StartLaunch(l) \/ launch(l)
      PROVE  IInv'
  <2>1. CASE SpawnChild(l)
    <3>1. ASSUME NEW p \in Pid, Spawned(p, Prog(l)),
                 TaskOnly(l, [task[l] EXCEPT !.pc = "slot", !.child = p])
          PROVE  IInv'
      BY <2>1, <3>1, SpawnChildKeeps DEF SpawnChild
    <3>2. CASE Goto(l, "failed") /\ UNCHANGED proc
      BY <2>1, <3>2, SpawnFailsKeeps DEF SpawnChild
    <3> QED
      BY <2>1, <3>1, <3>2 DEF SpawnChild
  <2> QED
    BY <1>1, <2>1, StartLaunchKeeps, StoreChildKeeps, StorePortKeeps,
       HealthKeeps, StartMonitorKeeps, PrepareKeeps, BumpKeeps, KillKeeps
       DEF launch
<1>2. ASSUME NEW q \in Program, crash_monitor(q)
      PROVE  IInv'
  <2>1. CASE MonRespawn(q)
    <3>1. ASSUME NEW p \in Pid, Spawned(p, q), UNCHANGED reported,
                 MonOnly(q, [mon[q] EXCEPT !.pc = "store", !.child = p])
          PROVE  IInv'
      BY <2>1, <3>1, MonRespawnKeeps DEF MonRespawn
    <3>2. CASE /\ MonOnly(q, [mon[q] EXCEPT !.pc = "done"])
               /\ reported' = reported \cup {q}
               /\ UNCHANGED proc
      BY <2>1, <3>2, MonRespawnFailsKeeps DEF MonRespawn
    <3> QED
      BY <2>1, <3>1, <3>2 DEF MonRespawn
  <2> QED
    BY <1>2, <2>1, MonTakeKeeps, MonWaitKeeps, MonCheckKeeps, MonDecideKeeps,
       MonStoreKeeps, MonHealthKeeps DEF crash_monitor
<1>3. CASE shutdown_children
  <2>1. CASE BeginExit
    <3>1. UNCHANGED <<proc, slot, port, generation, task, mon, reported,
                      racing, crashes>> /\ app' \in AppState
      BY <2>1 DEF BeginExit, NoThreadMoves, shared, AppState
    <3>2. TypeInv'
      BY <3>1 DEF IInv, TypeInv, TypeOK, ProcTypeOK
    <3> QED
      BY <3>1, <3>2, SameProcs, ProcStep
  <2>2. CASE ExitKillGrafana
    BY <2>2, PkillKeeps DEF ExitKillGrafana, AppState
  <2>3. CASE ExitKillCompute
    BY <2>3, PkillKeeps DEF ExitKillCompute, AppState
  <2> QED
    BY <1>3, <2>1, <2>2, <2>3 DEF shutdown_children
<1>4. CASE FinishExit
  BY <1>4, FinishExitKeeps
<1>5. ASSUME NEW p \in Pid, Bind(p) \/ Stop(p) \/ Crash(p)
      PROVE  IInv'
  <2>1. CASE Bind(p)
    BY <2>1, BindKeeps
  <2>2. CASE Stop(p)
    BY <2>2, ExitKeeps DEF Stop, IInv, TypeInv, TypeOK
  <2>3. CASE Crash(p)
    <3>1. crashes' \in 0..MaxCrash
      BY <2>3, LaunchBounds DEF Crash, IInv, TypeInv, TypeOK
    <3> QED
      BY <2>3, <3>1, ExitKeeps DEF Crash
  <2> QED
    BY <1>5, <2>1, <2>2, <2>3
<1>6. CASE UNCHANGED vars
  <2>1. UNCHANGED <<proc, app, slot, port, generation, task, mon, reported,
                    racing, crashes>>
    BY <1>6 DEF vars, shared
  <2>2. TypeInv'
    BY <2>1 DEF IInv, TypeInv, TypeOK, ProcTypeOK
  <2> QED
    BY <2>1, <2>2, SameProcs, ProcStep
<1> QED
  BY <1>1, <1>2, <1>3, <1>4, <1>5, <1>6 DEF Next

LEMMA SpecIInv == Spec => []IInv
BY InitIInv, NextIInv, PTL DEF Spec

\* Every variable of the launch keeps its type: no launch bumps the
\* generation twice and no monitor restarts a process beyond the cap.
THEOREM LaunchTypeCorrect == Spec => []TypeOK
<1>1. IInv => TypeOK
  BY DEF IInv, TypeInv
<1> QED
  BY <1>1, SpecIInv, PTL

\* A relaunch replaces the Grafana before it, whatever the launches, monitors
\* and crashes do, unless a thread raced with the last kill.
THEOREM LaunchSingleGrafana == Spec => []SingleGrafana
<1>1. IInv => SingleGrafana
  <2> SUFFICES ASSUME IInv, "grafana" \notin racing PROVE \A p, q \in Kept : p = q
    BY DEF SingleGrafana
  <2>1. CASE "grafana" \in Kind
    BY <2>1 DEF IInv, Lone, Calm
  <2>2. CASE "grafana" \notin Kind
    <3>1. Grafanas = {}
      BY <2>2, ProgFacts DEF Grafanas
    <3> QED
      BY <3>1 DEF Kept
  <2> QED
    BY <2>1, <2>2
<1> QED
  BY <1>1, SpecIInv, PTL

\* A launch that came up is looked after by its own monitor, on a process of
\* its own, unless threads got in each other's way.
THEOREM LaunchReadyIsAttended == Spec => []ReadyIsAttended
<1>1. IInv => ReadyIsAttended
  <2> SUFFICES ASSUME IInv, NEW q \in Program, q[1] \notin racing,
                      mon[q].pc # "none", Own(q)
               PROVE  Attended(q)
    <3>1. ASSUME NEW l \in LaunchId, "compute" \in Kind \ racing,
                 mon[<<"compute", l>>].pc # "none"
          PROVE  /\ <<"compute", l>> \in Program
                 /\ <<"compute", l>>[1] \notin racing
                 /\ Own(<<"compute", l>>)
      BY <3>1, ProgFacts DEF Own
    <3>2. ASSUME IInv, NEW l \in LaunchId, "grafana" \in Kind \ racing,
                 Current(l), task[l].pc = "ready"
          PROVE  /\ <<"grafana", l>> \in Program
                 /\ <<"grafana", l>>[1] \notin racing
                 /\ Own(<<"grafana", l>>)
                 /\ mon[<<"grafana", l>>].pc # "none"
      <4>1. /\ <<"grafana", l>> \in Program
            /\ <<"grafana", l>>[1] = "grafana" /\ <<"grafana", l>>[2] = l
        BY <3>2, ProgFacts
      <4>2. task[l].kind = "grafana"
        <5>1. TaskShape(task[l]) /\ task[l].kind \in {"compute", "grafana"}
          BY <3>2, Fields DEF IInv, Shape
        <5>2. task[l].gen # 0
          BY <3>2 DEF Current
        <5> QED
          BY <5>1, <5>2 DEF TaskShape
      <4> QED
        BY <3>2, <4>1, <4>2, ShapeAt DEF IInv, MonShape, Own
    <3> QED
      BY <3>1, <3>2 DEF ReadyIsAttended
  <2>1. Tended(q)
    BY DEF IInv, Attendance
  <2>2. mon[q].pc = "take" => InUse(q)
    BY DEF InUse
  <2> QED
    BY <2>1, <2>2 DEF Tended, Attended
<1> QED
  BY <1>1, SpecIInv, PTL

\* The proxy forwards to the Grafana of the current launch, or to none once
\* its monitor has reported that it gave up.
THEOREM LaunchUpstreamIsCurrent == Spec => []UpstreamIsCurrent
<1>1. IInv => UpstreamIsCurrent
  BY DEF IInv
<1> QED
  BY <1>1, SpecIInv, PTL
=============================================================================
