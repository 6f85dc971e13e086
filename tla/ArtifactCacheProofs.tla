-------------------------- MODULE ArtifactCacheProofs --------------------------
(***************************************************************************)
(* ArtifactCache implements Provisioned, for any number of threads,        *)
(* artifacts, releases and kills; and so it does with the frontend laid    *)
(* over Grafana (Overlay), whose marker tells the truth as well.           *)
(***************************************************************************)
EXTENDS Overlay, TLAPS

\* An artifact is prepared by one thread, or it is in overlap.
Solo ==
  \A a \in Artifact \ overlap : \A t, u \in Task :
    Active(t, a) /\ Active(u, a) => t = u

\* What a thread that prepares artifact a alone knows of the disk.
Progress(pc, d) ==
  /\ pc # "clash"
  /\ pc \in {"clear", "untar", "remove", "removing", "place", "mark"}
       => d.mark # shipped
  /\ pc \in {"remove", "removing", "place"} => d.staged = "whole"
  /\ pc = "mark" => d.tree = "whole" /\ d.release = shipped
  /\ pc = "ready" => d.mark = shipped

Known ==
  \A t \in Task : task[t].art \in Artifact \ overlap =>
                    Progress(task[t].pc, disk[task[t].art])

\* A thread that is at work is at work on an artifact; markers are of releases
\* shipped so far.
Shape ==
  /\ \A t \in Task : task[t].pc # "idle" => task[t].art \in Artifact
  /\ \A a \in Artifact : disk[a].mark <= shipped

IInv == TypeOK /\ Shape /\ Solo /\ Known /\ MarkedIsWhole

LEMMA InitIInv == Init => IInv
<1> SUFFICES ASSUME Init PROVE IInv
  OBVIOUS
<1> USE ArtifactBounds, ArtifactAssumption
<1>1. TypeOK
  BY DEF Init, TypeOK, Release, None, DiskState, Tree, TaskState, Pc, NoTask
<1>2. Shape
  BY DEF Init, Shape, None, NoTask
<1>3. Solo
  BY DEF Init, Solo, Active, Resting, NoTask
<1>4. Known
  BY DEF Init, Known, NoTask
<1>5. MarkedIsWhole
  BY DEF Init, MarkedIsWhole, Marked, None
<1> QED
  BY <1>1, <1>2, <1>3, <1>4, <1>5 DEF IInv

-----------------------------------------------------------------------------
(***************************************************************************)
(* The step of one thread, seen from outside                               *)
(***************************************************************************)

\* Thread t, at work on artifact a, goes to pc and leaves a as d.  It may have
\* spoilt what others unpack.
Moves(t, a, pc, d) ==
  /\ task[t].pc \notin Resting /\ task[t].art = a
  /\ task' \in [Task -> TaskState]
  /\ task'[t] = [pc |-> pc, art |-> a]
  /\ \A u \in Task \ {t} :
       \/ task'[u] = task[u]
       \/ /\ task[u] = [pc |-> "untar", art |-> a]
          /\ task'[u] = [pc |-> "clash", art |-> a]
  /\ disk' = [disk EXCEPT ![a] = d]
  /\ UNCHANGED <<shipped, overlap, kills>>

\* What is right about the step if t prepares a alone.
Right(t, a, pc, d) ==
  /\ Progress(pc, d)
  /\ d.mark = shipped => d.tree = "whole" /\ d.release = shipped
  /\ disk[a].mark = shipped => d.mark = shipped
  /\ \/ d.tree = disk[a].tree /\ d.release = disk[a].release /\ pc # "ready"
     \/ d.tree # "whole" /\ disk[a].mark # shipped /\ pc # "ready"
     \/ d.tree = "whole" /\ d.release = shipped /\ disk[a].tree = "none"
        /\ pc # "ready"
     \/ /\ pc = "ready" /\ d.mark = shipped
        /\ d.tree = disk[a].tree /\ d.release = disk[a].release

LEMMA EnsureMoves ==
  ASSUME IInv, NEW t \in Task, ensure(t)
  PROVE  \E a \in Artifact, pc \in Pc, d \in DiskState :
           /\ Moves(t, a, pc, d)
           /\ pc # "idle"
           /\ d.mark <= shipped
           /\ a \notin overlap => Right(t, a, pc, d)
<1> DEFINE a == task[t].art
           d0 == disk[a]
<1> USE ArtifactBounds, ArtifactAssumption
<1>1. /\ task[t] \in TaskState /\ task \in [Task -> TaskState]
      /\ disk \in [Artifact -> DiskState] /\ shipped \in Release
  BY DEF IInv, TypeOK
<1>2. task[t].pc \notin Resting
  BY DEF ensure, Check, Clear, Untar, Remove, Place, Mark, Resting
<1>3. a \in Artifact /\ d0 \in DiskState /\ d0.mark <= shipped
  BY <1>1, <1>2 DEF IInv, Shape, Resting
<1>4. a \notin overlap =>
        /\ Progress(task[t].pc, d0)
        /\ d0.mark = shipped => d0.tree = "whole" /\ d0.release = shipped
  BY <1>3 DEF IInv, Known, MarkedIsWhole, Marked
<1> DEFINE P(pc, d) == /\ Moves(t, a, pc, d)
                       /\ pc # "idle"
                       /\ d.mark <= shipped
                       /\ a \notin overlap => Right(t, a, pc, d)
<1> SUFFICES \E pc \in Pc, d \in DiskState : P(pc, d)
  BY <1>3 DEF P
<1>step. ASSUME NEW pc \in Pc, NEW d \in DiskState,
                Step(t, pc, d) \/ Restage(t, pc, d),
                pc # "idle", d.mark <= shipped, a \notin overlap => Right(t, a, pc, d)
         PROVE  P(pc, d)
  <2>1. CASE Step(t, pc, d)
    <3>1. /\ task' = [task EXCEPT ![t].pc = pc]
          /\ disk' = [disk EXCEPT ![a] = d] /\ UNCHANGED <<shipped, overlap, kills>>
      BY <2>1 DEF Step
    <3>2. task'[t] = [pc |-> pc, art |-> a]
      BY <3>1, <1>1 DEF TaskState, Pc
    <3>3. \A u \in Task \ {t} : task'[u] = task[u]
      BY <3>1, <1>1
    <3>4. [pc |-> pc, art |-> a] \in TaskState
      BY <1>3, <1>step DEF TaskState
    <3>5. task' \in [Task -> TaskState]
      BY <3>1, <3>4, <1>1 DEF TaskState
    <3> QED
      BY <3>1, <3>2, <3>3, <3>5, <1>2, <1>step DEF Moves
  <2>2. CASE Restage(t, pc, d)
    <3> DEFINE e(u) == IF u = t THEN [task[t] EXCEPT !.pc = pc]
                       ELSE IF task[u].art = a /\ task[u].pc = "untar"
                       THEN [task[u] EXCEPT !.pc = "clash"] ELSE task[u]
    <3>1. task' = [u \in Task |-> e(u)]
      BY <2>2 DEF Restage
    <3>2. e(t) = [pc |-> pc, art |-> a]
      BY <1>1 DEF TaskState, Pc
    <3>3. ASSUME NEW u \in Task \ {t}
          PROVE  /\ e(u) \in TaskState
                 /\ \/ e(u) = task[u]
                    \/ /\ task[u] = [pc |-> "untar", art |-> a]
                       /\ e(u) = [pc |-> "clash", art |-> a]
      BY <1>1, task[u] \in TaskState DEF TaskState, Pc
    <3>4. /\ [pc |-> pc, art |-> a] \in TaskState
          /\ task' \in [Task -> TaskState]
      <4>1. [pc |-> pc, art |-> a] \in TaskState
        BY <1>3, <1>step DEF TaskState
      <4>2. \A u \in Task : e(u) \in TaskState
        BY <4>1, <3>2, <3>3
      <4> HIDE DEF e
      <4> QED
        BY <4>1, <4>2, <3>1
    <3>5. task'[t] = [pc |-> pc, art |-> a]
      BY <3>1, <3>2
    <3>6. \A u \in Task \ {t} :
            \/ task'[u] = task[u]
            \/ /\ task[u] = [pc |-> "untar", art |-> a]
               /\ task'[u] = [pc |-> "clash", art |-> a]
      BY <3>1, <3>3
    <3>7. disk' = [disk EXCEPT ![a] = d] /\ UNCHANGED <<shipped, overlap, kills>>
      BY <2>2 DEF Restage
    <3> QED
      BY <3>4, <3>5, <3>6, <3>7, <1>2, <1>step DEF Moves
  <2> QED
    BY <2>1, <2>2, <1>step
<1>goto. ASSUME NEW pc \in Pc, Goto(t, pc), pc # "idle",
                a \notin overlap => Right(t, a, pc, d0)
         PROVE  \E q \in Pc, d \in DiskState : P(q, d)
  BY <1>goto, <1>step, <1>3 DEF Goto
<1> HIDE DEF P
<1>5. CASE Check(t)
  <2>1. CASE Marked(a) /\ Goto(t, "ready")
    <3>1. a \notin overlap => Right(t, a, "ready", d0)
      BY <2>1, <1>3, <1>4, <1>5 DEF Right, Progress, Marked, Check
    <3> QED
      BY <2>1, <3>1, <1>goto DEF Pc
  <2>2. CASE ~Marked(a) /\ (Goto(t, "clear") \/ Goto(t, "failed"))
    <3>1. a \notin overlap =>
            Right(t, a, "clear", d0) /\ Right(t, a, "failed", d0)
      BY <2>2, <1>3, <1>4, <1>5 DEF Right, Progress, Marked, Check
    <3> QED
      BY <2>2, <3>1, <1>goto DEF Pc
  <2> QED
    BY <1>5, <2>1, <2>2 DEF Check
<1>6. CASE Clear(t)
  <2> DEFINE d == [d0 EXCEPT !.staged = "partial"]
  <2>1. d \in DiskState /\ d.mark <= shipped
    BY <1>3 DEF DiskState, Tree
  <2>2. a \notin overlap => Right(t, a, "untar", d)
    BY <1>3, <1>4, <1>6 DEF Right, Progress, Clear, DiskState
  <2>3. Restage(t, "untar", d)
    BY <1>6 DEF Clear
  <2> QED
    BY <2>1, <2>2, <2>3, <1>step DEF Pc
<1>7. CASE Untar(t)
  <2>1. CASE Goto(t, "failed")
    <3>1. a \notin overlap => Right(t, a, "failed", d0)
      BY <1>3, <1>4 DEF Right, Progress
    <3> QED
      BY <2>1, <3>1, <1>goto DEF Pc
  <2>2. CASE task[t].pc = "untar" /\ Step(t, "remove", [d0 EXCEPT !.staged = "whole"])
    <3> DEFINE d == [d0 EXCEPT !.staged = "whole"]
    <3>1. d \in DiskState /\ d.mark <= shipped
      BY <1>3 DEF DiskState, Tree
    <3>2. a \notin overlap => Right(t, a, "remove", d)
      BY <1>3, <1>4, <2>2 DEF Right, Progress, DiskState
    <3> QED
      BY <3>1, <3>2, <2>2, <1>step DEF Pc
  <2>3. CASE task[t].pc = "clash" /\ Step(t, "remove", [d0 EXCEPT !.staged = "partial"])
    <3> DEFINE d == [d0 EXCEPT !.staged = "partial"]
    <3>1. d \in DiskState /\ d.mark <= shipped
      BY <1>3 DEF DiskState, Tree
    <3>2. a \in overlap
      BY <1>4, <1>3, <2>3 DEF Progress
    <3> QED
      BY <3>1, <3>2, <2>3, <1>step DEF Pc
  <2> QED
    BY <1>7, <2>1, <2>2, <2>3 DEF Untar
<1>8. CASE Remove(t)
  <2>1. CASE Goto(t, "failed")
    <3>1. a \notin overlap => Right(t, a, "failed", d0)
      BY <1>3, <1>4 DEF Right, Progress
    <3> QED
      BY <2>1, <3>1, <1>goto DEF Pc
  <2>2. CASE task[t].pc \in {"remove", "removing"} /\ Goto(t, "place")
    <3>1. a \notin overlap => Right(t, a, "place", d0)
      BY <1>3, <1>4, <2>2 DEF Right, Progress
    <3> QED
      BY <2>2, <3>1, <1>goto DEF Pc
  <2>3. CASE /\ task[t].pc = "remove"
             /\ \E m \in {d0.mark, None} :
                  Step(t, "removing",
                       [tree |-> "partial", release |-> d0.release,
                        mark |-> m, staged |-> d0.staged])
    <3>0. PICK m \in {d0.mark, None} :
                  Step(t, "removing",
                       [tree |-> "partial", release |-> d0.release,
                        mark |-> m, staged |-> d0.staged])
      BY <2>3
    <3> DEFINE d == [tree |-> "partial", release |-> d0.release,
                     mark |-> m, staged |-> d0.staged]
    <3>a. m \in Release \cup {None} /\ m <= shipped /\ (d0.mark # shipped => m # shipped)
      BY <1>1, <1>3 DEF DiskState, None, Release
    <3>1. d \in DiskState /\ d.mark <= shipped
      BY <1>3, <3>a DEF DiskState, Tree
    <3>2. a \notin overlap => Right(t, a, "removing", d)
      BY <1>3, <1>4, <2>3, <3>a DEF Right, Progress
    <3> QED
      BY <3>0, <3>1, <3>2, <1>step DEF Pc
  <2>4. CASE /\ task[t].pc = "removing"
             /\ Step(t, "place", [tree |-> "none", release |-> None,
                                    mark |-> None, staged |-> d0.staged])
    <3> DEFINE d == [tree |-> "none", release |-> None,
                     mark |-> None, staged |-> d0.staged]
    <3>a. None <= shipped /\ shipped # None
      BY <1>1 DEF None, Release
    <3>1. d \in DiskState /\ d.mark <= shipped
      BY <1>3, <3>a DEF DiskState, Tree
    <3>2. a \notin overlap => Right(t, a, "place", d)
      BY <1>3, <1>4, <2>4, <3>a DEF Right, Progress
    <3> QED
      BY <2>4, <3>1, <3>2, <1>step DEF Pc
  <2> QED
    BY <1>8, <2>1, <2>2, <2>3, <2>4 DEF Remove
<1>9. CASE Place(t)
  <2>1. CASE Goto(t, "failed")
    <3>1. a \notin overlap => Right(t, a, "failed", d0)
      BY <1>3, <1>4 DEF Right, Progress
    <3> QED
      BY <2>1, <3>1, <1>goto DEF Pc
  <2>2. CASE /\ d0.staged # "none" /\ d0.tree = "none"
             /\ Restage(t, "mark", [d0 EXCEPT !.tree = d0.staged,
                                !.staged = "none", !.release = shipped])
    <3> DEFINE d == [d0 EXCEPT !.tree = d0.staged, !.staged = "none",
                               !.release = shipped]
    <3>1. d \in DiskState /\ d.mark <= shipped
      BY <1>1, <1>3 DEF DiskState, Tree
    <3>2. a \notin overlap => Right(t, a, "mark", d)
      BY <1>3, <1>4, <1>9, <2>2 DEF Right, Progress, DiskState, Place
    <3> QED
      BY <2>2, <3>1, <3>2, <1>step DEF Pc
  <2> QED
    BY <1>9, <2>1, <2>2 DEF Place
<1>10. CASE Mark(t)
  <2> DEFINE d == [d0 EXCEPT !.staged = "none"]
  <2>0. d \in DiskState /\ d.mark <= shipped
    BY <1>3 DEF DiskState, Tree
  <2>1. CASE Restage(t, "failed", d)
    <3>1. a \notin overlap => Right(t, a, "failed", d)
      BY <1>3, <1>4 DEF Right, Progress, DiskState
    <3> QED
      BY <2>0, <2>1, <3>1, <1>step DEF Pc
  <2>2. CASE d0.tree # "none" /\ Restage(t, "ready",
                 [tree |-> d0.tree, release |-> d0.release,
                  mark |-> shipped, staged |-> "none"])
    <3> DEFINE e == [tree |-> d0.tree, release |-> d0.release,
                     mark |-> shipped, staged |-> "none"]
    <3>1. e \in DiskState /\ e.mark <= shipped
      BY <1>1, <1>3 DEF DiskState, Release, Tree
    <3>2. a \notin overlap => Right(t, a, "ready", e)
      BY <1>3, <1>4, <1>10 DEF Right, Progress, Mark
    <3> QED
      BY <2>2, <3>1, <3>2, <1>step DEF Pc
  <2> QED
    BY <1>10, <2>1, <2>2 DEF Mark
<1> QED
  BY <1>5, <1>6, <1>7, <1>8, <1>9, <1>10 DEF ensure, P

-----------------------------------------------------------------------------
(***************************************************************************)
(* Every step preserves the invariant                                      *)
(***************************************************************************)

LEMMA MovesIInv ==
  ASSUME IInv, NEW t \in Task, NEW a \in Artifact, NEW pc \in Pc,
         NEW d \in DiskState, Moves(t, a, pc, d), pc # "idle",
         d.mark <= shipped, a \notin overlap => Right(t, a, pc, d)
  PROVE  IInv'
<1>1. /\ task \in [Task -> TaskState] /\ task' \in [Task -> TaskState]
      /\ disk \in [Artifact -> DiskState]
      /\ UNCHANGED <<shipped, overlap, kills>>
  BY DEF IInv, TypeOK, Moves
<1>2. disk' = [disk EXCEPT ![a] = d]
  BY DEF Moves
<1>3. disk'[a] = d /\ \A b \in Artifact \ {a} : disk'[b] = disk[b]
  BY <1>1, <1>2
<1>4. /\ task'[t] = [pc |-> pc, art |-> a]
      /\ task[t].art = a /\ Active(t, a)
      /\ \A u \in Task \ {t} :
           \/ task'[u] = task[u]
           \/ /\ task[u] = [pc |-> "untar", art |-> a] /\ Active(u, a)
              /\ task'[u] = [pc |-> "clash", art |-> a]
  BY DEF Moves, Active, Resting
<1>5. \A u \in Task : /\ task'[u].art = task[u].art
                      /\ \A b \in Artifact : Active(u, b)' => Active(u, b)
  BY <1>4 DEF Active, Resting
<1>6. TypeOK'
  BY <1>1, <1>2 DEF IInv, TypeOK
<1>7. Shape'
  <2>1. \A u \in Task : task'[u].pc # "idle" => task'[u].art \in Artifact
    BY <1>4, <1>5 DEF IInv, Shape
  <2>2. \A b \in Artifact : disk'[b].mark <= shipped'
    BY <1>1, <1>3 DEF IInv, Shape
  <2> QED
    BY <2>1, <2>2 DEF Shape
<1>8. Solo'
  BY <1>1, <1>5 DEF IInv, Solo
<1>9. Known'
  <2> SUFFICES ASSUME NEW u \in Task, task'[u].art \in Artifact \ overlap'
               PROVE  Progress(task[u].pc, disk[task[u].art])'
    BY DEF Known
  <2> DEFINE b == task[u].art
  <2>1. b \in Artifact \ overlap /\ task'[u].art = b
    BY <1>1, <1>5
  <2>2. CASE u = t
    BY <2>1, <2>2, <1>1, <1>3, <1>4 DEF Right, Progress
  <2>3. CASE u # t /\ task'[u] # task[u]
    BY <2>1, <2>3, <1>4 DEF IInv, Solo
  <2>4. CASE u # t /\ task'[u] = task[u] /\ b # a
    BY <2>1, <2>4, <1>1, <1>3 DEF IInv, Known, Progress
  <2>5. CASE u # t /\ task'[u] = task[u] /\ b = a
    <3>1. task[u].pc \in Resting
      BY <2>1, <2>5, <1>4 DEF IInv, Solo, Active
    <3>2. disk[a].mark = shipped => d.mark = shipped
      BY <2>1, <2>5 DEF Right
    <3>3. task[u].pc = "ready" => disk[a].mark = shipped
      BY <2>1, <2>5 DEF IInv, Known, Progress
    <3> QED
      BY <3>1, <3>2, <3>3, <2>5, <1>1, <1>3 DEF Progress, Resting
  <2> QED
    BY <2>2, <2>3, <2>4, <2>5
<1>10. MarkedIsWhole'
  <2> SUFFICES ASSUME NEW b \in Artifact \ overlap, disk'[b].mark = shipped
               PROVE  disk'[b].tree = "whole" /\ disk'[b].release = shipped
    BY <1>1 DEF MarkedIsWhole, Marked
  <2>1. CASE b = a
    BY <2>1, <1>3 DEF Right
  <2>2. CASE b # a
    BY <2>2, <1>3 DEF IInv, MarkedIsWhole, Marked
  <2> QED
    BY <2>1, <2>2
<1> QED
  BY <1>6, <1>7, <1>8, <1>9, <1>10 DEF IInv

LEMMA AskIInv ==
  ASSUME IInv, NEW t \in Task, NEW a \in Artifact, Ask(t, a)
  PROVE  IInv'
<1>1. /\ task \in [Task -> TaskState] /\ disk \in [Artifact -> DiskState]
      /\ UNCHANGED <<shipped, disk, kills>>
      /\ task' = [task EXCEPT ![t] = [pc |-> "check", art |-> a]]
  BY DEF IInv, TypeOK, Ask
<1>2. /\ task'[t] = [pc |-> "check", art |-> a]
      /\ \A u \in Task \ {t} : task'[u] = task[u]
  BY <1>1
<1>3. /\ overlap \subseteq overlap' /\ overlap' \in SUBSET Artifact
      /\ (\E u \in Task \ {t} : Active(u, a)) => a \in overlap'
  BY DEF IInv, TypeOK, Ask
<1>4. TypeOK'
  <2>1. [pc |-> "check", art |-> a] \in TaskState
    BY DEF TaskState, Pc
  <2>2. task' \in [Task -> TaskState]
    BY <1>1, <2>1
  <2> QED
    BY <1>1, <1>3, <2>2 DEF IInv, TypeOK
<1>5. Shape'
  BY <1>1, <1>2 DEF IInv, Shape
<1>6. Solo'
  <2> SUFFICES ASSUME NEW b \in Artifact \ overlap', NEW u \in Task, NEW v \in Task,
                      Active(u, b)', Active(v, b)'
               PROVE  u = v
    BY DEF Solo
  <2>1. \A w \in Task \ {t} : Active(w, b)' => Active(w, b)
    BY <1>2 DEF Active
  <2>2. Active(t, b)' => a = b
    BY <1>2 DEF Active
  <2> QED
    BY <2>1, <2>2, <1>3 DEF IInv, Solo
<1>7. Known'
  <2> SUFFICES ASSUME NEW u \in Task, task'[u].art \in Artifact \ overlap'
               PROVE  Progress(task[u].pc, disk[task[u].art])'
    BY DEF Known
  <2>1. CASE u = t
    BY <2>1, <1>2 DEF Progress
  <2>2. CASE u # t
    BY <2>2, <1>1, <1>2, <1>3 DEF IInv, Known, Progress
  <2> QED
    BY <2>1, <2>2
<1>8. MarkedIsWhole'
  BY <1>1, <1>3 DEF IInv, MarkedIsWhole, Marked
<1> QED
  BY <1>4, <1>5, <1>6, <1>7, <1>8 DEF IInv

LEMMA KillIInv ==
  ASSUME IInv, Kill
  PROVE  IInv'
<1> USE ArtifactBounds, ArtifactAssumption
<1>1. /\ \A u \in Task : task'[u] = NoTask
      /\ UNCHANGED <<shipped, disk, overlap>>
  BY DEF Kill
<1>2. TypeOK'
  <2>1. task' \in [Task -> TaskState]
    BY DEF Kill, TaskState, Pc, NoTask
  <2>2. kills' \in 0..MaxKill
    BY DEF Kill, IInv, TypeOK
  <2> QED
    BY <1>1, <2>1, <2>2 DEF IInv, TypeOK
<1>3. Shape' /\ Solo' /\ Known'
  BY <1>1 DEF IInv, Shape, Solo, Known, Active, Resting, NoTask
<1>4. MarkedIsWhole'
  BY <1>1 DEF IInv, MarkedIsWhole, Marked
<1> QED
  BY <1>2, <1>3, <1>4 DEF IInv

LEMMA UpgradeIInv ==
  ASSUME IInv, Upgrade
  PROVE  IInv'
<1> USE ArtifactBounds, ArtifactAssumption
<1>1. /\ \A u \in Task : task[u] = NoTask
      /\ UNCHANGED <<disk, task, overlap, kills>>
      /\ shipped' = shipped + 1 /\ shipped' \in Release
  BY DEF Upgrade, IInv, TypeOK, Release
<1>2. TypeOK'
  BY <1>1 DEF IInv, TypeOK
<1>3. \A a \in Artifact : /\ disk[a].mark \in Nat
                           /\ disk[a].mark <= shipped
  BY DEF IInv, TypeOK, Shape, DiskState, Release, None
<1>4. Shape' /\ Solo' /\ Known'
  BY <1>1, <1>3 DEF IInv, TypeOK, Release, Shape, Solo, Known, Active, NoTask
<1>5. MarkedIsWhole'
  BY <1>1, <1>3 DEF IInv, TypeOK, Release, MarkedIsWhole, Marked
<1> QED
  BY <1>2, <1>4, <1>5 DEF IInv

LEMMA StepIInv == IInv /\ [Next]_cacheVars => IInv'
<1> SUFFICES ASSUME IInv, [Next]_cacheVars PROVE IInv'
  OBVIOUS
<1>1. CASE UNCHANGED cacheVars
  BY <1>1 DEF cacheVars, IInv, TypeOK, Shape, Solo, Active, Known, Progress,
              MarkedIsWhole, Marked
<1>2. CASE \E t \in Task : ensure(t)
  BY <1>2, EnsureMoves, MovesIInv
<1>3. CASE \E t \in Task, a \in Artifact : Ask(t, a)
  BY <1>3, AskIInv
<1>4. CASE Kill
  BY <1>4, KillIInv
<1>5. CASE Upgrade
  BY <1>5, UpgradeIInv
<1> QED
  BY <1>1, <1>2, <1>3, <1>4, <1>5 DEF Next

\* The state keeps its type.
THEOREM TypeCorrect == Spec => []TypeOK
<1>1. IInv => TypeOK
  BY DEF IInv
<1> QED
  BY <1>1, InitIInv, StepIInv, PTL DEF Spec

\* A marker of the release the app ships stands for a whole tree of that
\* release, unless two threads prepared the artifact at once (ensure_grafana,
\* ensure_postgres, ensure_risingwave).
THEOREM MarkersTell == Spec => []MarkedIsWhole
<1>1. IInv => MarkedIsWhole
  BY DEF IInv
<1> QED
  BY <1>1, InitIInv, StepIInv, PTL DEF Spec

-----------------------------------------------------------------------------
(***************************************************************************)
(* Every step is one that Provisioned allows                               *)
(***************************************************************************)

LEMMA MovesPromised ==
  ASSUME IInv, NEW t \in Task, NEW a \in Artifact, NEW pc \in Pc,
         NEW d \in DiskState, Moves(t, a, pc, d),
         a \notin overlap => Right(t, a, pc, d)
  PROVE  Promise!Next \/ UNCHANGED <<Have, overlap, Given>>
<1> DEFINE r == IF d.tree = "whole" THEN d.release ELSE None
           give == IF pc = "ready" THEN {<<t, a, shipped>>} ELSE {}
<1>1. /\ task \in [Task -> TaskState] /\ disk \in [Artifact -> DiskState]
      /\ disk' = [disk EXCEPT ![a] = d]
      /\ UNCHANGED <<shipped, overlap>>
  BY DEF IInv, TypeOK, Moves
<1>2. Have' = [Have EXCEPT ![a] = r]
  BY <1>1 DEF Have
<1>3. Given' = Given \cup give
  <2>1. /\ task'[t] = [pc |-> pc, art |-> a] /\ task[t].pc # "ready"
        /\ \A u \in Task \ {t} :
             /\ (task'[u].pc = "ready") <=> (task[u].pc = "ready")
             /\ task'[u].pc = "ready" => task'[u].art = task[u].art
    BY DEF Moves, Resting
  <2>2. \A g : g \in Given' <=> g \in Given \/ g \in give
    BY <2>1, <1>1 DEF Given
  <2> QED
    BY <2>2
<1>4. r \in Release \cup {None} /\ Have[a] = IF disk[a].tree = "whole"
                                              THEN disk[a].release ELSE None
  BY DEF DiskState, Have
<1> HIDE DEF r
<1>5. CASE a \in overlap
  <2>1. Promise!Contend(a)
    <3>1. {g \in Given' : g[2] # a} \subseteq Given
      BY <1>3
    <3>2. overlap' = overlap \cup {a}
      BY <1>1, <1>5
    <3> QED
      BY <3>1, <3>2, <1>2, <1>4 DEF Promise!Contend, Promise!None, None
  <2> QED
    BY <2>1 DEF Promise!Next
<1>6. CASE a \notin overlap
  <2>0. Right(t, a, pc, d)
    BY <1>6
  <2>1. CASE d.tree = disk[a].tree /\ d.release = disk[a].release /\ pc # "ready"
    <3>1. Have' = Have
      BY <2>1, <1>2, <1>4 DEF Have, r
    <3>2. Given' = Given
      BY <2>1, <1>3
    <3> QED
      BY <3>1, <3>2, <1>1
  <2>2. CASE d.tree # "whole" /\ disk[a].mark # shipped /\ pc # "ready"
    <3>1. Promise!Holders(a) = {}
      <4>1. \A u \in Task : task[u].pc = "ready" => task[u].art # a
        BY <2>2, <1>6 DEF IInv, Known, Progress
      <4> QED
        BY <4>1 DEF Promise!Holders, Given
    <3>2. Promise!Withdraw(a)
      BY <3>1, <2>2, <1>1, <1>2, <1>3 DEF Promise!Withdraw, Promise!None, None, r
    <3> QED
      BY <3>2 DEF Promise!Next
  <2>3. CASE d.tree = "whole" /\ d.release = shipped /\ disk[a].tree = "none"
             /\ pc # "ready"
    <3>1. Have[a] = None /\ r = shipped /\ shipped \in Release
      BY <2>3, <1>4 DEF r, IInv, TypeOK
    <3>2. Promise!Place(a)
      BY <3>1, <2>3, <1>1, <1>2, <1>3 DEF Promise!Place, Promise!None, None
    <3> QED
      BY <3>2 DEF Promise!Next
  <2>4. CASE /\ pc = "ready" /\ d.mark = shipped
             /\ d.tree = disk[a].tree /\ d.release = disk[a].release
    <3>1. disk[a].tree = "whole" /\ disk[a].release = shipped
      BY <2>0, <2>4 DEF Right
    <3>2. Have[a] = shipped /\ Have' = Have
      BY <3>1, <2>4, <1>2, <1>4 DEF Have, r
    <3>3. shipped # None
      BY DEF IInv, TypeOK, Release, None
    <3>5. Promise!Give(t, a)
      BY <3>2, <3>3, <2>4, <1>1, <1>3 DEF Promise!Give, Promise!None, None
    <3> QED
      BY <3>5 DEF Promise!Next
  <2> QED
    BY <2>0, <2>1, <2>2, <2>3, <2>4 DEF Right
<1> QED
  BY <1>5, <1>6

LEMMA AskPromised ==
  ASSUME IInv, NEW t \in Task, NEW a \in Artifact, Ask(t, a)
  PROVE  Promise!Next
<1>1. /\ task \in [Task -> TaskState]
      /\ task' = [task EXCEPT ![t] = [pc |-> "check", art |-> a]]
      /\ UNCHANGED <<shipped, disk>>
  BY DEF IInv, TypeOK, Ask
<1>2. Have' = Have
  BY <1>1 DEF Have
<1>3. Given' = {g \in Given : g[1] # t}
  <2>1. \A g : g \in Given' <=> g \in Given /\ g[1] # t
    BY <1>1 DEF Given
  <2> QED
    BY <2>1
<1>4. CASE overlap' = overlap
  BY <1>2, <1>3, <1>4 DEF Promise!Return, Promise!Next
<1>5. CASE overlap' = overlap \cup {a}
  <2>1. Have[a] \in Release \cup {None} /\ Have = [Have EXCEPT ![a] = Have[a]]
    BY DEF Have, IInv, TypeOK, DiskState, None
  <2>2. {g \in Given' : g[2] # a} \subseteq Given
    BY <1>3
  <2>3. Promise!Contend(a)
    BY <2>1, <2>2, <1>2, <1>5 DEF Promise!Contend, Promise!None, None
  <2> QED
    BY <2>3 DEF Promise!Next
<1> QED
  BY <1>4, <1>5 DEF Ask

LEMMA StepPromised ==
  IInv /\ [Next]_cacheVars => [Promise!Next]_<<Have, overlap, Given>>
<1> SUFFICES ASSUME IInv, [Next]_cacheVars
             PROVE  Promise!Next \/ UNCHANGED <<Have, overlap, Given>>
  OBVIOUS
<1>1. CASE UNCHANGED cacheVars
  BY <1>1 DEF cacheVars, Have, Given
<1>2. CASE \E t \in Task : ensure(t)
  BY <1>2, EnsureMoves, MovesPromised
<1>3. CASE \E t \in Task, a \in Artifact : Ask(t, a)
  BY <1>3, AskPromised
<1>4. CASE Kill
  <2>1. Given' = {} /\ UNCHANGED <<Have, overlap>>
    BY <1>4 DEF Kill, Given, Have, NoTask
  <2> QED
    BY <2>1 DEF Promise!Restart, Promise!Next
<1>5. CASE Upgrade
  <2>1. Given = {} /\ Given' = {}
    BY <1>5 DEF Upgrade, Given, NoTask
  <2> QED
    BY <2>1, <1>5 DEF Upgrade, Have
<1> QED
  BY <1>1, <1>2, <1>3, <1>4, <1>5 DEF Next

\* Unpacking artifacts keeps the promise of Provisioned: whoever is given an
\* artifact gets a whole tree of the release shipped, and no tree is taken
\* from those who were given it, unless two threads prepared it at once.
THEOREM CacheImplements == Spec => Implements
<1>1. Init => Promise!Init
  BY DEF Init, Promise!Init, Promise!None, None, Have, Given, NoTask
<1> QED
  BY <1>1, InitIInv, StepIInv, StepPromised, PTL DEF Spec, Implements, Promise!Spec

-----------------------------------------------------------------------------
(***************************************************************************)
(* The overlay, which goes on with the tree that was unpacked              *)
(***************************************************************************)

\* A thread that is about the overlay has been given Grafana.
CopierHasTree ==
  \A t \in Task : copier[t].pc # "off" => task[t] = [pc |-> "ready", art |-> Grafana]

\* Overlays do not race, or spoilt tells.
Alone == ~spoilt => \A t, u \in Task : Copying(t) /\ Copying(u) => t = u

Undisturbed == ~spoilt /\ Grafana \notin overlap

\* What a thread that overlays alone knows of the frontend.
Laid(c) ==
  /\ c.part = "views" => public["build"] = "ours"
  /\ c.pc = "create" => public[c.part] = "none"
  /\ c.pc = "copy" => c.own
  /\ c.pc = "mark" => c.part = "views" /\ public["views"] = "ours"

Laying ==
  Undisturbed => \A t \in Task : Copying(t) => overlaid # "ours" /\ Laid(copier[t])

\* Where the overlay is marked as ours, the tree under it is marked too, and
\* so nothing will be exchanged.
Kept ==
  Undisturbed /\ overlaid = "ours" =>
    Marked(Grafana) /\ \A p \in Part : public[p] = "ours"

OverlayIInv == OverlayTypeOK /\ IInv /\ CopierHasTree /\ Alone /\ Laying /\ Kept

LEMMA OverlayInitIInv == OverlayInit => OverlayIInv
<1> SUFFICES ASSUME OverlayInit PROVE OverlayIInv
  OBVIOUS
<1>1. Init /\ IInv
  BY InitIInv DEF OverlayInit
<1>2. \A t \in Task : copier[t] = Off
  BY DEF OverlayInit
<1>3. OverlayTypeOK
  <2>1. Off \in Copier
    BY Zenon DEF Off, Copier, Part
  <2> QED
    BY <1>1, <2>1 DEF OverlayInit, OverlayTypeOK, IInv, Content
<1>4. \A t \in Task : copier[t].pc = "off"
  <2>1. Off.pc = "off"
    BY DEF Off
  <2> QED
    BY <1>2, <2>1
<1>5. CopierHasTree /\ Alone /\ Laying
  BY <1>4 DEF CopierHasTree, Alone, Laying, Copying
<1>6. Kept
  BY DEF OverlayInit, Kept
<1> QED
  BY <1>1, <1>3, <1>5, <1>6 DEF OverlayIInv

\* To whom Grafana was given, its marker is current, unless threads raced.
LEMMA CopierFacts ==
  ASSUME OverlayIInv, NEW t \in Task, copier[t].pc # "off"
  PROVE  /\ task[t] = [pc |-> "ready", art |-> Grafana]
         /\ Grafana \notin overlap => Marked(Grafana)
<1>1. task[t] = [pc |-> "ready", art |-> Grafana]
  BY DEF OverlayIInv, CopierHasTree
<1>2. ASSUME Grafana \notin overlap PROVE Marked(Grafana)
  <2>1. Progress("ready", disk[Grafana])
    BY <1>1, <1>2, GrafanaAssumption DEF OverlayIInv, IInv, Known
  <2> QED
    BY <2>1 DEF Progress, Marked
<1> QED
  BY <1>1, <1>2

\* Nothing happens to a tree whose marker is current.
LEMMA EnsureLeavesMarked ==
  ASSUME IInv, NEW t \in Task, ensure(t), Grafana \notin overlap, Marked(Grafana)
  PROVE  Marked(Grafana)' /\ disk'[Grafana].tree = disk[Grafana].tree
<1>1. PICK a \in Artifact, pc \in Pc, d \in DiskState :
        Moves(t, a, pc, d) /\ (a \notin overlap => Right(t, a, pc, d))
  BY EnsureMoves
<1>2. /\ disk \in [Artifact -> DiskState] /\ disk' = [disk EXCEPT ![a] = d]
      /\ shipped' = shipped
  BY <1>1 DEF Moves, IInv, TypeOK
<1>3. disk[Grafana].mark = shipped /\ disk[Grafana].tree = "whole"
  BY GrafanaAssumption DEF IInv, MarkedIsWhole, Marked
<1>4. CASE a = Grafana
  <2>1. Right(t, a, pc, d) /\ disk'[Grafana] = d
    BY <1>1, <1>2, <1>4
  <2> QED
    BY <1>2, <1>3, <1>4, <2>1 DEF Right, Marked
<1>5. CASE a # Grafana
  <2>1. disk'[Grafana] = disk[Grafana]
    BY <1>2, <1>5, GrafanaAssumption
  <2> QED
    BY <1>2, <1>3, <2>1 DEF Marked
<1> QED
  BY <1>4, <1>5

\* The overlay goes with a tree that is exchanged; one that is marked is not.
LEMMA CarriedKeeps ==
  ASSUME OverlayIInv, IInv', Carried, shipped' = shipped, overlap \subseteq overlap',
         \A t \in Task : copier[t].pc # "off" /\ task'[t].pc = "ready"
           => task'[t] = task[t],
         Grafana \notin overlap /\ Marked(Grafana)
           => Marked(Grafana)' /\ disk'[Grafana].tree = disk[Grafana].tree
  PROVE  OverlayIInv'
<1> DEFINE d == disk[Grafana]
           e == disk'[Grafana]
           New(t) == IF task'[t].pc # "ready" THEN Off
                     ELSE IF e.tree # d.tree THEN [copier[t] EXCEPT !.own = FALSE]
                     ELSE copier[t]
<1>1. /\ copier' = [t \in Task |-> New(t)] /\ spoilt' = spoilt
      /\ e.tree = d.tree => UNCHANGED <<public, overlaid>>
  BY DEF Carried
<1>2. copier \in [Task -> Copier] /\ spoilt \in BOOLEAN
  BY DEF OverlayIInv, OverlayTypeOK
<1>3. \A t \in Task : New(t) \in Copier
  <2> SUFFICES ASSUME NEW t \in Task PROVE New(t) \in Copier
    OBVIOUS
  <2>1. Off \in Copier /\ copier[t] \in Copier
    BY <1>2, Zenon DEF Off, Copier, Part
  <2>2. [copier[t] EXCEPT !.own = FALSE] \in Copier
    BY <2>1, Zenon DEF Copier
  <2> QED
    BY <2>1, <2>2, Zenon
<1>4. \A t \in Task : copier'[t] = New(t)
  BY <1>1
<1>5. \A t \in Task : copier'[t].pc # "off" =>
        /\ task'[t].pc = "ready"
        /\ copier'[t].pc = copier[t].pc /\ copier'[t].part = copier[t].part
        /\ e.tree = d.tree => copier'[t] = copier[t]
  <2> SUFFICES ASSUME NEW t \in Task, copier'[t].pc # "off"
               PROVE  /\ task'[t].pc = "ready"
                      /\ copier'[t].pc = copier[t].pc /\ copier'[t].part = copier[t].part
                      /\ e.tree = d.tree => copier'[t] = copier[t]
    OBVIOUS
  <2>1. task'[t].pc = "ready"
    <3>1. Off.pc = "off"
      BY DEF Off
    <3>2. task'[t].pc # "ready" => copier'[t] = Off
      BY <1>4, Zenon
    <3> QED
      BY <3>1, <3>2
  <2>2. \/ copier'[t] = copier[t]
        \/ e.tree # d.tree /\ copier'[t] = [copier[t] EXCEPT !.own = FALSE]
    BY <1>4, <2>1, Zenon
  <2>3. copier[t] \in Copier
    BY <1>2
  <2>4. copier'[t].pc = copier[t].pc /\ copier'[t].part = copier[t].part
    BY <2>2, <2>3 DEF Copier
  <2> QED
    BY <2>1, <2>2, <2>4
<1>6. copier' \in [Task -> Copier]
  BY <1>1, <1>3, Zenon
<1> HIDE DEF New
<1>7. OverlayTypeOK'
  <2>1. public' \in [Part -> Content] /\ overlaid' \in {"none", "old", "ours"}
    BY DEF Carried, OverlayIInv, OverlayTypeOK, Content
  <2> QED
    BY <1>1, <1>2, <1>6, <2>1 DEF OverlayTypeOK, IInv
<1>8. CopierHasTree'
  <2> SUFFICES ASSUME NEW t \in Task, copier'[t].pc # "off"
               PROVE  task'[t] = [pc |-> "ready", art |-> Grafana]
    BY DEF CopierHasTree
  <2> QED
    BY <1>5, CopierFacts
<1>9. \A t \in Task : Copying(t)' => Copying(t)
  BY <1>5 DEF Copying
<1>10. Alone'
  BY <1>1, <1>9 DEF OverlayIInv, Alone
<1>11. Undisturbed' => Undisturbed /\ Grafana \notin overlap
  BY <1>1 DEF Undisturbed
<1>12. Laying'
  <2> SUFFICES ASSUME Undisturbed', NEW t \in Task, Copying(t)'
               PROVE  overlaid' # "ours" /\ Laid(copier[t])'
    BY DEF Laying
  <2>1. overlaid # "ours" /\ Laid(copier[t]) /\ copier[t].pc # "off"
    BY <1>9, <1>11 DEF OverlayIInv, Laying, Copying
  <2>2. e.tree = d.tree
    BY <1>11, <2>1, CopierFacts
  <2>3. copier'[t] = copier[t]
    BY <1>5, <2>2 DEF Copying
  <2> QED
    BY <1>1, <2>1, <2>2, <2>3 DEF Laid
<1>13. Kept'
  <2> SUFFICES ASSUME Undisturbed', overlaid' = "ours"
               PROVE  Marked(Grafana)' /\ \A p \in Part : public'[p] = "ours"
    BY DEF Kept
  <2>1. overlaid = "ours"
    BY DEF Carried
  <2>2. Marked(Grafana) /\ \A p \in Part : public[p] = "ours"
    BY <1>11, <2>1 DEF OverlayIInv, Kept
  <2> QED
    BY <1>1, <1>11, <2>2
<1> QED
  BY <1>7, <1>8, <1>10, <1>12, <1>13 DEF OverlayIInv

\* A step of the thread t that is about the overlay.
LEMMA CopierStep ==
  ASSUME OverlayIInv, IInv', UNCHANGED cacheVars, NEW t \in Task,
         task[t] = [pc |-> "ready", art |-> Grafana],
         public' \in [Part -> Content], overlaid' \in {"none", "old", "ours"},
         copier' \in [Task -> Copier], spoilt' \in BOOLEAN, spoilt => spoilt',
         \A u \in Task \ {t} : copier'[u].pc = copier[u].pc,
         ~spoilt' /\ Copying(t)' => \A u \in Task \ {t} : ~Copying(u),
         Undisturbed' => \A u \in Task \ {t} : ~Copying(u),
         Undisturbed' /\ Copying(t)' => overlaid' # "ours" /\ Laid(copier[t])',
         Undisturbed' /\ overlaid' = "ours" => \A p \in Part : public'[p] = "ours"
  PROVE  OverlayIInv'
<1>1. /\ UNCHANGED <<shipped, disk, task, overlap, kills>>
      /\ \A u \in Task \ {t} : Copying(u)' => Copying(u)
  BY DEF cacheVars, Copying
<1>2. OverlayTypeOK'
  BY DEF OverlayTypeOK, IInv
<1>3. CopierHasTree'
  BY <1>1 DEF OverlayIInv, CopierHasTree
<1>4. Alone'
  BY <1>1 DEF OverlayIInv, Alone
<1>5. Laying'
  BY <1>1 DEF Laying
<1>6. Kept'
  <2>1. Grafana \notin overlap => Marked(Grafana)
    <3>1. Grafana \notin overlap => Progress("ready", disk[Grafana])
      BY GrafanaAssumption DEF OverlayIInv, IInv, Known
    <3> QED
      BY <3>1 DEF Progress, Marked
  <2>2. Undisturbed' => Grafana \notin overlap
    BY <1>1 DEF Undisturbed
  <2> QED
    BY <1>1, <2>1, <2>2 DEF Kept, Marked
<1> QED
  BY <1>2, <1>3, <1>4, <1>5, <1>6 DEF OverlayIInv

LEMMA CompareKeeps ==
  ASSUME OverlayIInv, IInv', NEW t \in Task, Compare(t)
  PROVE  OverlayIInv'
<1>1. /\ task[t] = [pc |-> "ready", art |-> Grafana] /\ UNCHANGED cacheVars
      /\ UNCHANGED <<public, overlaid, overlap>>
      /\ spoilt \in BOOLEAN /\ copier \in [Task -> Copier]
      /\ public \in [Part -> Content] /\ overlaid \in {"none", "old", "ours"}
  BY DEF Compare, Advance, OverlayIInv, OverlayTypeOK, cacheVars
<1>2. CASE overlaid = "ours" /\ Advance(t, [Off EXCEPT !.pc = "done"])
  <2>1. [Off EXCEPT !.pc = "done"] \in Copier /\ [Off EXCEPT !.pc = "done"].pc = "done"
    BY DEF Off, Copier, Part
  <2>2. /\ copier' \in [Task -> Copier] /\ copier'[t].pc = "done" /\ spoilt' = spoilt
        /\ \A u \in Task \ {t} : copier'[u] = copier[u]
    BY <1>1, <1>2, <2>1 DEF Advance
  <2>3. ~Copying(t)' /\ (Undisturbed' => Undisturbed)
    BY <1>1, <2>2 DEF Copying, Undisturbed
  <2>4. Undisturbed' => \A u \in Task : ~Copying(u)
    BY <1>2, <2>3 DEF OverlayIInv, Laying
  <2>5. Undisturbed' => \A p \in Part : public'[p] = "ours"
    BY <1>1, <1>2, <2>3 DEF OverlayIInv, Kept
  <2> QED
    BY <1>1, <2>2, <2>3, <2>4, <2>5, CopierStep
<1>3. CASE /\ overlaid # "ours"
           /\ copier' = [copier EXCEPT ![t] = [Off EXCEPT !.pc = "remove"]]
           /\ spoilt' = (spoilt \/ \E u \in Task \ {t} : Copying(u))
  <2>1. /\ [Off EXCEPT !.pc = "remove"] \in Copier
        /\ [Off EXCEPT !.pc = "remove"].pc = "remove"
        /\ [Off EXCEPT !.pc = "remove"].part = "build"
    BY DEF Off, Copier, Part
  <2>2. /\ copier' \in [Task -> Copier] /\ copier'[t].pc = "remove"
        /\ copier'[t].part = "build"
        /\ \A u \in Task \ {t} : copier'[u] = copier[u]
    BY <1>1, <1>3, <2>1
  <2>3. Laid(copier[t])'
    BY <2>2 DEF Laid
  <2>4. /\ spoilt' \in BOOLEAN /\ spoilt => spoilt'
        /\ ~spoilt' => \A u \in Task \ {t} : ~Copying(u)
    BY <1>3
  <2>5. Undisturbed' => \A u \in Task \ {t} : ~Copying(u)
    BY <2>4 DEF Undisturbed
  <2> QED
    BY <1>1, <1>3, <2>2, <2>3, <2>4, <2>5, CopierStep
<1> QED
  BY <1>1, <1>2, <1>3 DEF Compare

\* What the steps after the first have in common.
LEMMA CopyingStep ==
  ASSUME OverlayIInv, IInv', UNCHANGED cacheVars, NEW t \in Task, Copying(t),
         public' \in [Part -> Content], overlaid' \in {"none", "old", "ours"},
         copier' \in [Task -> Copier], spoilt' \in BOOLEAN, spoilt => spoilt',
         \A u \in Task \ {t} : copier'[u].pc = copier[u].pc,
         ~spoilt' /\ Grafana \notin overlap /\ overlaid # "ours" /\ Laid(copier[t])
           => /\ Copying(t)' => overlaid' # "ours" /\ Laid(copier[t])'
              /\ overlaid' = "ours" => \A p \in Part : public'[p] = "ours"
  PROVE  OverlayIInv'
<1>1. task[t] = [pc |-> "ready", art |-> Grafana] /\ overlap' = overlap
  BY CopierFacts DEF Copying, cacheVars
<1>2. ~spoilt' => \A u \in Task \ {t} : ~Copying(u)
  BY DEF OverlayIInv, Alone
<1>3. Undisturbed' => /\ ~spoilt' /\ Grafana \notin overlap
                      /\ overlaid # "ours" /\ Laid(copier[t])
  BY <1>1 DEF Undisturbed, OverlayIInv, Laying
<1> QED
  BY <1>1, <1>2, <1>3, CopierStep

\* One thread takes the step to pc; what it knew of the directory is no longer
\* certain to the others.
LEMMA MeddleFacts ==
  ASSUME OverlayIInv, NEW t \in Task, NEW p \in Part, NEW c \in Content,
         Meddle(t, "create", p, c)
  PROVE  /\ UNCHANGED cacheVars /\ overlaid' = overlaid
         /\ public' \in [Part -> Content] /\ public'[p] = c
         /\ \A q \in Part \ {p} : public'[q] = public[q]
         /\ copier' \in [Task -> Copier] /\ copier'[t].pc = "create"
         /\ copier'[t].part = copier[t].part
         /\ \A u \in Task \ {t} : copier'[u].pc = copier[u].pc
<1> DEFINE New(u) == IF u = t THEN [copier[t] EXCEPT !.pc = "create"]
                     ELSE IF copier[u].part = p THEN [copier[u] EXCEPT !.own = FALSE]
                     ELSE copier[u]
<1>1. copier \in [Task -> Copier] /\ public \in [Part -> Content]
  BY DEF OverlayIInv, OverlayTypeOK
<1>2. copier' = [u \in Task |-> New(u)] /\ public' = [public EXCEPT ![p] = c]
      /\ UNCHANGED <<cacheVars, overlaid>>
  BY DEF Meddle
<1>3. \A u \in Task : New(u) \in Copier
  <2> SUFFICES ASSUME NEW u \in Task PROVE New(u) \in Copier
    OBVIOUS
  <2>1. copier[t] \in Copier /\ copier[u] \in Copier
    BY <1>1
  <2>2. [copier[t] EXCEPT !.pc = "create"] \in Copier
    BY <2>1, Zenon DEF Copier
  <2>3. [copier[u] EXCEPT !.own = FALSE] \in Copier
    BY <2>1, Zenon DEF Copier
  <2> QED
    BY <2>1, <2>2, <2>3, Zenon
<1>4. copier'[t] = [copier[t] EXCEPT !.pc = "create"]
  BY <1>2
<1>5. \A u \in Task \ {t} : \/ copier'[u] = copier[u]
                            \/ copier'[u] = [copier[u] EXCEPT !.own = FALSE]
  BY <1>2, Zenon
<1>6. copier'[t].pc = "create" /\ copier'[t].part = copier[t].part
  <2>1. copier[t] \in Copier
    BY <1>1
  <2> QED
    BY <1>4, <2>1 DEF Copier
<1>7. \A u \in Task \ {t} : copier'[u].pc = copier[u].pc
  <2> SUFFICES ASSUME NEW u \in Task \ {t} PROVE copier'[u].pc = copier[u].pc
    OBVIOUS
  <2>1. copier[u] \in Copier
    BY <1>1
  <2> QED
    BY <1>5, <2>1 DEF Copier
<1>8. copier' \in [Task -> Copier]
  BY <1>2, <1>3, Zenon
<1>9. public' \in [Part -> Content] /\ public'[p] = c
      /\ \A q \in Part \ {p} : public'[q] = public[q]
  BY <1>1, <1>2
<1> QED
  BY <1>2, <1>6, <1>7, <1>8, <1>9

LEMMA RemovePartKeeps ==
  ASSUME OverlayIInv, IInv', NEW t \in Task, RemovePart(t)
  PROVE  OverlayIInv'
<1> DEFINE p == copier[t].part
<1>1. /\ copier[t].pc = "remove" /\ Copying(t) /\ p \in Part
      /\ spoilt \in BOOLEAN /\ overlaid \in {"none", "old", "ours"}
  BY DEF RemovePart, Copying, OverlayIInv, OverlayTypeOK, Copier
<1> HIDE DEF p
<1>2. CASE Meddle(t, "create", p, "none") /\ UNCHANGED spoilt
  <2>1. /\ UNCHANGED cacheVars /\ overlaid' = overlaid
        /\ public' \in [Part -> Content] /\ public'[p] = "none"
        /\ \A q \in Part \ {p} : public'[q] = public[q]
        /\ copier' \in [Task -> Copier] /\ copier'[t].pc = "create"
        /\ copier'[t].part = copier[t].part
        /\ \A u \in Task \ {t} : copier'[u].pc = copier[u].pc
    BY <1>1, <1>2, MeddleFacts DEF Content
  <2>2. Laid(copier[t]) => Laid(copier[t])'
    BY <1>1, <2>1 DEF Laid, Part, p
  <2> QED
    BY <1>1, <1>2, <2>1, <2>2, CopyingStep
<1>3. CASE Meddle(t, "create", p, "mixed") /\ spoilt' = TRUE
  <2>1. /\ UNCHANGED cacheVars /\ overlaid' = overlaid
        /\ public' \in [Part -> Content] /\ copier' \in [Task -> Copier]
        /\ \A u \in Task \ {t} : copier'[u].pc = copier[u].pc
    BY <1>1, <1>3, MeddleFacts DEF Content
  <2> QED
    BY <1>1, <1>3, <2>1, CopyingStep
<1> QED
  BY <1>2, <1>3 DEF RemovePart, p

\* An overlay that fails leaves what it has done.
LEMMA OverlayFailKeeps ==
  ASSUME OverlayIInv, IInv', NEW t \in Task, Copying(t),
         Advance(t, [copier[t] EXCEPT !.pc = "failed"])
  PROVE  OverlayIInv'
<1>1. /\ copier[t] \in Copier /\ copier \in [Task -> Copier]
      /\ public \in [Part -> Content] /\ overlaid \in {"none", "old", "ours"}
      /\ spoilt \in BOOLEAN
  BY DEF OverlayIInv, OverlayTypeOK
<1>2. /\ [copier[t] EXCEPT !.pc = "failed"] \in Copier
      /\ [copier[t] EXCEPT !.pc = "failed"].pc = "failed"
  BY <1>1 DEF Copier
<1>3. /\ copier' \in [Task -> Copier] /\ copier'[t].pc = "failed"
      /\ \A u \in Task \ {t} : copier'[u] = copier[u]
      /\ UNCHANGED <<cacheVars, public, overlaid, spoilt>>
  BY <1>1, <1>2 DEF Advance
<1>4. ~Copying(t)'
  BY <1>3 DEF Copying
<1> QED
  BY <1>1, <1>3, <1>4, CopyingStep

LEMMA CreateKeeps ==
  ASSUME OverlayIInv, IInv', NEW t \in Task, Create(t)
  PROVE  OverlayIInv'
<1> DEFINE p == copier[t].part
<1>1. /\ copier[t].pc = "create" /\ Copying(t) /\ p \in Part /\ copier[t] \in Copier
      /\ copier \in [Task -> Copier] /\ spoilt \in BOOLEAN
      /\ public \in [Part -> Content] /\ overlaid \in {"none", "old", "ours"}
  BY DEF Create, Copying, OverlayIInv, OverlayTypeOK, Copier
<1>2. CASE Advance(t, [copier[t] EXCEPT !.pc = "failed"])
  BY <1>1, <1>2, OverlayFailKeeps
<1>3. CASE /\ public[p] = "none"
           /\ copier' = [copier EXCEPT ![t].pc = "copy", ![t].own = TRUE]
           /\ public' = [public EXCEPT ![p] = "mixed"]
           /\ UNCHANGED <<cacheVars, overlaid, spoilt>>
  <2>1. PICK c : c = [copier[t] EXCEPT !.pc = "copy", !.own = TRUE]
    OBVIOUS
  <2>2. /\ c \in Copier /\ c.pc = "copy" /\ c.part = p /\ c.own
    BY <1>1, <2>1, Zenon DEF Copier
  <2>3. copier' = [copier EXCEPT ![t] = c]
    BY <1>3, <2>1, Zenon
  <2>4. /\ copier' \in [Task -> Copier] /\ copier'[t] = c
        /\ \A u \in Task \ {t} : copier'[u] = copier[u]
    BY <1>1, <2>2, <2>3
  <2>5. /\ public' \in [Part -> Content]
        /\ \A q \in Part \ {p} : public'[q] = public[q]
    BY <1>1, <1>3 DEF Content
  <2>6. Laid(copier[t]) => Laid(copier[t])'
    <3>1. Laid(copier[t]) /\ p = "views" => public'["build"] = "ours"
      BY <2>5 DEF Laid, Part
    <3> QED
      BY <2>2, <2>4, <3>1, Zenon DEF Laid
  <2> QED
    BY <1>1, <1>3, <2>4, <2>5, <2>6, CopyingStep
<1>4. CASE public[p] # "none" /\ Advance(t, [copier[t] EXCEPT !.pc = "copy"])
  <2>1. [copier[t] EXCEPT !.pc = "copy"] \in Copier
    BY <1>1, Zenon DEF Copier
  <2>2. /\ copier' \in [Task -> Copier] /\ \A u \in Task \ {t} : copier'[u] = copier[u]
        /\ UNCHANGED <<cacheVars, public, overlaid, spoilt>>
    BY <1>1, <1>4, <2>1 DEF Advance
  <2>3. ~Laid(copier[t])
    BY <1>1, <1>4 DEF Laid
  <2> QED
    BY <1>1, <2>2, <2>3, CopyingStep
<1> QED
  BY <1>1, <1>2, <1>3, <1>4 DEF Create

LEMMA CopyKeeps ==
  ASSUME OverlayIInv, IInv', NEW t \in Task, Copy(t)
  PROVE  OverlayIInv'
<1> DEFINE p == copier[t].part
           own == copier[t].own
           c == IF p = "build" THEN [pc |-> "remove", part |-> "views", own |-> FALSE]
                ELSE [copier[t] EXCEPT !.pc = "mark"]
<1>1. /\ copier[t].pc = "copy" /\ Copying(t) /\ p \in Part /\ copier[t] \in Copier
      /\ copier \in [Task -> Copier] /\ spoilt \in BOOLEAN
      /\ public \in [Part -> Content] /\ overlaid \in {"none", "old", "ours"}
  BY DEF Copy, Copying, OverlayIInv, OverlayTypeOK, Copier
<1>2. CASE Advance(t, [copier[t] EXCEPT !.pc = "failed"])
  BY <1>1, <1>2, OverlayFailKeeps
<1>3. CASE /\ copier' = [copier EXCEPT ![t] = c]
           /\ public' = [public EXCEPT ![p] = IF own THEN "ours" ELSE @]
           /\ UNCHANGED <<cacheVars, overlaid, spoilt>>
  <2>1. c \in Copier
    <3>1. [copier[t] EXCEPT !.pc = "mark"] \in Copier
      BY <1>1, Zenon DEF Copier
    <3>2. [pc |-> "remove", part |-> "views", own |-> FALSE] \in Copier
      BY Zenon DEF Copier, Part
    <3> QED
      BY <3>1, <3>2, Zenon
  <2>2. /\ c.part = "views"
        /\ c.pc = "remove" \/ (p = "views" /\ c.pc = "mark")
    <3>1. p = "build" => c.part = "views" /\ c.pc = "remove"
      BY Zenon
    <3>2. p # "build" => c = [copier[t] EXCEPT !.pc = "mark"]
      OBVIOUS
    <3>3. p # "build" => c.part = p /\ c.pc = "mark" /\ p = "views"
      BY <1>1, <3>2 DEF Copier, Part
    <3> QED
      BY <3>1, <3>3
  <2> HIDE DEF c
  <2>3. /\ copier' \in [Task -> Copier] /\ copier'[t] = c
        /\ \A u \in Task \ {t} : copier'[u] = copier[u]
    BY <1>1, <1>3, <2>1
  <2>4. /\ public' \in [Part -> Content]
        /\ \A q \in Part \ {p} : public'[q] = public[q]
        /\ own => public'[p] = "ours"
    <3>1. CASE own
      BY <1>1, <1>3, <3>1 DEF Content
    <3>2. CASE ~own
      BY <1>1, <1>3, <3>2
    <3> QED
      BY <3>1, <3>2, Zenon
  <2>5. Laid(copier[t]) => Laid(copier[t])'
    <3>1. Laid(copier[t]) => public'["build"] = "ours" /\ (p = "views" => public'["views"] = "ours")
      <4>1. Laid(copier[t]) => own /\ (p = "views" => public["build"] = "ours")
        BY <1>1, Zenon DEF Laid
      <4>2. "build" \in Part /\ "views" \in Part /\ (p = "build" \/ p = "views")
        BY <1>1 DEF Part
      <4> HIDE DEF own, p
      <4> QED
        BY <2>4, <4>1, <4>2
    <3> QED
      BY <2>2, <2>3, <3>1 DEF Laid
  <2> QED
    BY <1>1, <1>3, <2>3, <2>4, <2>5, CopyingStep
<1> QED
  BY <1>1, <1>2, <1>3 DEF Copy

LEMMA MarkOverlayKeeps ==
  ASSUME OverlayIInv, IInv', NEW t \in Task, MarkOverlay(t)
  PROVE  OverlayIInv'
<1>1. /\ copier[t].pc = "mark" /\ Copying(t) /\ copier[t] \in Copier
      /\ copier \in [Task -> Copier] /\ spoilt \in BOOLEAN
      /\ public \in [Part -> Content]
  BY DEF MarkOverlay, Copying, OverlayIInv, OverlayTypeOK
<1>2. CASE Advance(t, [copier[t] EXCEPT !.pc = "failed"])
  BY <1>1, <1>2, OverlayFailKeeps
<1>3. CASE /\ copier' = [copier EXCEPT ![t].pc = "done"]
           /\ overlaid' = "ours"
           /\ UNCHANGED <<cacheVars, public, spoilt>>
  <2>1. /\ [copier[t] EXCEPT !.pc = "done"] \in Copier
        /\ [copier[t] EXCEPT !.pc = "done"].pc = "done"
    BY <1>1 DEF Copier
  <2>2. /\ copier' \in [Task -> Copier] /\ copier'[t].pc = "done"
        /\ \A u \in Task \ {t} : copier'[u] = copier[u]
    BY <1>1, <1>3, <2>1
  <2>3. ~Copying(t)'
    BY <2>2 DEF Copying
  <2>4. Laid(copier[t]) => \A p \in Part : public'[p] = "ours"
    BY <1>1, <1>3 DEF Laid, Part
  <2> QED
    BY <1>1, <1>3, <2>2, <2>3, <2>4, CopyingStep
<1> QED
  BY <1>1, <1>2, <1>3 DEF MarkOverlay

\* The steps of the unpacking are those of ArtifactCache, and the overlay's
\* leave it alone.
LEMMA OverlayStepsCache == [OverlayNext]_vars => [Next]_cacheVars
<1> SUFFICES ASSUME [OverlayNext]_vars PROVE Next \/ UNCHANGED cacheVars
  OBVIOUS
<1>1. CASE UNCHANGED vars
  BY <1>1 DEF vars
<1>2. CASE \E t \in Task : ensure_or_ask(t)
  BY <1>2 DEF ensure_or_ask, Next
<1>3. CASE Kill \/ Upgrade
  BY <1>3 DEF Next
<1>4. CASE \E t \in Task : overlay_grafana(t)
  BY <1>4 DEF overlay_grafana, Compare, RemovePart, Create, Copy, MarkOverlay,
              Advance, Meddle
<1> QED
  BY <1>1, <1>2, <1>3, <1>4 DEF OverlayNext

LEMMA OverlayStepIInv == OverlayIInv /\ [OverlayNext]_vars => OverlayIInv'
<1> SUFFICES ASSUME OverlayIInv, [OverlayNext]_vars PROVE OverlayIInv'
  OBVIOUS
<1>1. IInv /\ IInv'
  BY OverlayStepsCache, StepIInv DEF OverlayIInv
<1>2. CASE UNCHANGED vars
  <2>1. UNCHANGED <<shipped, disk, task, overlap, kills, public, overlaid, copier, spoilt>>
    BY <1>2 DEF vars, cacheVars, overlayVars
  <2>2. OverlayTypeOK'
    BY <1>1, <2>1 DEF OverlayIInv, OverlayTypeOK, IInv
  <2>3. CopierHasTree' /\ Alone' /\ Kept'
    BY <2>1 DEF OverlayIInv, CopierHasTree, Alone, Kept, Undisturbed, Copying, Marked
  <2>4. Laying'
    BY <2>1 DEF OverlayIInv, Laying, Laid, Undisturbed, Copying
  <2> QED
    BY <1>1, <2>2, <2>3, <2>4 DEF OverlayIInv
<1>3. ASSUME NEW t \in Task, ensure(t), Carried
      PROVE  OverlayIInv'
  <2>1. PICK a \in Artifact, pc \in Pc, d \in DiskState : Moves(t, a, pc, d)
    BY <1>1, <1>3, EnsureMoves
  <2>2. shipped' = shipped /\ overlap' = overlap
    BY <2>1 DEF Moves
  <2>3. \A u \in Task : copier[u].pc # "off" => task'[u] = task[u]
    <3> SUFFICES ASSUME NEW u \in Task, copier[u].pc # "off" PROVE task'[u] = task[u]
      OBVIOUS
    <3>1. task[u].pc = "ready"
      BY CopierFacts
    <3> QED
      BY <2>1, <3>1 DEF Moves, Resting
  <2> QED
    BY <1>1, <1>3, <2>2, <2>3, EnsureLeavesMarked, CarriedKeeps
<1>4. ASSUME NEW t \in Task, NEW a \in Artifact, Ask(t, a), Carried
      PROVE  OverlayIInv'
  <2>1. /\ task \in [Task -> TaskState] /\ UNCHANGED <<shipped, disk>>
        /\ overlap \subseteq overlap'
        /\ task' = [task EXCEPT ![t] = [pc |-> "check", art |-> a]]
    BY <1>1, <1>4 DEF Ask, IInv, TypeOK
  <2>2. \A u \in Task : task'[u].pc = "ready" => task'[u] = task[u]
    BY <2>1
  <2>3. Marked(Grafana)' <=> Marked(Grafana)
    BY <2>1 DEF Marked
  <2> QED
    BY <1>1, <1>4, <2>1, <2>2, <2>3, CarriedKeeps
<1>5. CASE Kill /\ Carried
  <2>1. UNCHANGED <<shipped, disk, overlap>> /\ \A u \in Task : task'[u].pc # "ready"
    BY <1>5 DEF Kill, NoTask
  <2>2. Marked(Grafana)' <=> Marked(Grafana)
    BY <2>1 DEF Marked
  <2> QED
    BY <1>1, <1>5, <2>1, <2>2, CarriedKeeps
<1>6. CASE Upgrade /\ Age
  <2>1. /\ \A t \in Task : task[t].pc = "idle"
        /\ UNCHANGED <<copier, spoilt>> /\ overlaid' # "ours"
    BY <1>6 DEF Upgrade, NoTask, Age
  <2>2. \A t \in Task : copier'[t].pc = "off" /\ ~Copying(t)'
    BY <2>1, CopierFacts DEF Copying
  <2>3. OverlayTypeOK'
    BY <1>1, <1>6, <2>1 DEF Age, OverlayIInv, OverlayTypeOK, IInv, Content
  <2>4. CopierHasTree' /\ Alone' /\ Laying' /\ Kept'
    BY <2>1, <2>2 DEF CopierHasTree, Alone, Laying, Kept
  <2> QED
    BY <1>1, <2>3, <2>4 DEF OverlayIInv
<1>7. ASSUME NEW t \in Task, overlay_grafana(t)
      PROVE  OverlayIInv'
  BY <1>1, <1>7, CompareKeeps, RemovePartKeeps, CreateKeeps, CopyKeeps, MarkOverlayKeeps
     DEF overlay_grafana
<1> QED
  BY <1>2, <1>3, <1>4, <1>5, <1>6, <1>7 DEF OverlayNext, ensure_or_ask

\* Laying the overlay (runtime.rs, overlay_grafana) changes nothing about how
\* artifacts are unpacked: what is done with it could be done without it.
THEOREM OverlayKeepsCache == OverlaySpec => Spec
<1>1. OverlayInit => Init
  BY DEF OverlayInit
<1> QED
  BY <1>1, OverlayStepsCache, PTL DEF OverlaySpec, Spec

\* And so the promise of Provisioned is kept when an overlay is laid.
THEOREM OverlayImplements == OverlaySpec => Implements
BY OverlayKeepsCache, CacheImplements

\* And so the markers of ensure_* tell the truth when an overlay is laid.
THEOREM OverlayMarkersTell == OverlaySpec => []MarkedIsWhole
BY OverlayKeepsCache, MarkersTell

\* A Grafana home whose overlay is marked with the version the app ships shows
\* our frontend in both parts over a whole Grafana of that release, unless
\* launches raced or a directory was left half removed (overlay_grafana).
THEOREM OverlayTells == OverlaySpec => []OverlayInv
<1>1. OverlayIInv => OverlayInv
  <2> SUFFICES ASSUME OverlayIInv PROVE OverlayInv
    OBVIOUS
  <2>1. OverlayTypeOK /\ MarkedIsWhole
    BY DEF OverlayIInv, IInv
  <2>2. OverlayIsOurs
    BY <2>1, GrafanaAssumption
       DEF OverlayIInv, Kept, Undisturbed, OverlayIsOurs, MarkedIsWhole
  <2> QED
    BY <2>1, <2>2 DEF OverlayInv
<1> QED
  BY <1>1, OverlayInitIInv, OverlayStepIInv, PTL DEF OverlaySpec
================================================================================
