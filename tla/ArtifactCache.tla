----------------------------- MODULE ArtifactCache -----------------------------
(***************************************************************************)
(* Unpacking a bundled artifact (runtime.rs: ensure_grafana; dataplane.rs: *)
(* ensure_postgres, ensure_risingwave).  The three follow one protocol:    *)
(* compare the marker inside the directory with the release the app ships; *)
(* if they differ, unpack into a staging directory, remove the old tree,   *)
(* rename, and write the marker last.                                      *)
(*                                                                         *)
(* Nothing locks the directories.  Tasks that prepare the same artifact    *)
(* share its staging directory: what one clears or renames is missing from *)
(* what the other unpacks.  The shell may be killed between any two steps, *)
(* and a newer release of the app may be installed while it is off.  The   *)
(* contents of a staging directory are of the release the shell ships,     *)
(* because unpacking begins by clearing it.                                *)
(***************************************************************************)
EXTENDS Naturals

CONSTANTS
  Task,        \* threads that prepare artifacts
  Artifact,
  NoArtifact,
  MaxRelease,  \* bound: releases of the app
  MaxKill      \* bound: kills of the shell

ASSUME ArtifactAssumption == NoArtifact \notin Artifact
ASSUME ArtifactBounds == MaxRelease \in Nat \ {0} /\ MaxKill \in Nat

None == 0
Release == 1..MaxRelease

VARIABLES
  shipped,  \* the release of the app that is installed
  disk,     \* per artifact: the tree in place, its marker, the staging tree
  task,     \* what each thread is doing
  overlap,  \* history: artifacts two threads prepared at the same time
  kills     \* how much of the bound is used

cacheVars == <<shipped, disk, task, overlap, kills>>

(***************************************************************************)
(* State                                                                   *)
(***************************************************************************)

Tree == {"none", "partial", "whole"}

DiskState ==
  [tree : Tree, release : Release \cup {None}, mark : Release \cup {None},
   staged : Tree]

\* "untar": tar is writing; "clash": so it is, and another thread has taken
\* away from under it some of what it had written.
Pc == {"idle", "check", "clear", "untar", "clash", "remove", "removing",
       "place", "mark", "ready", "failed"}
TaskState == [pc : Pc, art : Artifact \cup {NoArtifact}]

TypeOK ==
  /\ shipped \in Release
  /\ disk \in [Artifact -> DiskState]
  /\ task \in [Task -> TaskState]
  /\ overlap \in SUBSET Artifact
  /\ kills \in 0..MaxKill

NoTask == [pc |-> "idle", art |-> NoArtifact]

Init ==
  /\ shipped = 1
  /\ disk = [a \in Artifact |-> [tree |-> "none", release |-> None,
                                 mark |-> None, staged |-> "none"]]
  /\ task = [t \in Task |-> NoTask]
  /\ overlap = {} /\ kills = 0

Resting == {"idle", "ready", "failed"}
Active(t, a) == task[t].art = a /\ task[t].pc \notin Resting

(***************************************************************************)
(* One call of ensure_*                                                    *)
(***************************************************************************)

\* Thread t takes the step to pc and leaves artifact a as d.
Step(t, pc, d) ==
  /\ task' = [task EXCEPT ![t].pc = pc]
  /\ disk' = [disk EXCEPT ![task[t].art] = d]
  /\ UNCHANGED <<shipped, overlap, kills>>

Goto(t, pc) == Step(t, pc, disk[task[t].art])

\* The staging tree becomes s; what other threads are unpacking into it is
\* no longer complete.
Restage(t, pc, d) ==
  /\ task' = [u \in Task |->
       IF u = t THEN [task[t] EXCEPT !.pc = pc]
       ELSE IF task[u].art = task[t].art /\ task[u].pc = "untar"
       THEN [task[u] EXCEPT !.pc = "clash"] ELSE task[u]]
  /\ disk' = [disk EXCEPT ![task[t].art] = d]
  /\ UNCHANGED <<shipped, overlap, kills>>

Ask(t, a) ==
  /\ task[t].pc \in Resting
  /\ task' = [task EXCEPT ![t] = [pc |-> "check", art |-> a]]
  /\ overlap' = IF \E u \in Task \ {t} : Active(u, a) THEN overlap \cup {a}
                                                      ELSE overlap
  /\ UNCHANGED <<shipped, disk, kills>>

\* Mutant: any marker will do.
Marked_any(a) == disk[a].mark # None

Marked(a) == disk[a].mark = shipped

\* The archive may be missing, or the disk full: any step may fail.
Check(t) ==
  /\ task[t].pc = "check"
  /\ \/ Marked(task[t].art) /\ Goto(t, "ready")
     \/ ~Marked(task[t].art) /\ (Goto(t, "clear") \/ Goto(t, "failed"))

Clear(t) ==
  /\ task[t].pc = "clear"
  /\ LET d == disk[task[t].art] IN
       Restage(t, "untar", [d EXCEPT !.staged = "partial"])

Untar(t) ==
  /\ task[t].pc \in {"untar", "clash"}
  /\ LET d == disk[task[t].art]
         s == IF task[t].pc = "untar" THEN "whole" ELSE "partial"
     IN \/ Step(t, "remove", [d EXCEPT !.staged = s])
        \/ Goto(t, "failed")

\* Mutant: the marker is written before the tree is exchanged.
Remove_keeps_mark(t) ==
  /\ task[t].pc \in {"remove", "removing"}
  /\ LET d == disk[task[t].art] IN
       Step(t, "place", [d EXCEPT !.tree = "none", !.mark = shipped])

\* remove_dir_all deletes entry by entry, the marker at any point of it, and
\* the code ignores its error.
Remove(t) ==
  LET d == disk[task[t].art] IN
  \/ /\ task[t].pc = "remove"
     /\ \/ d.staged = "none" /\ Goto(t, "failed")
        \/ d.staged # "none" /\ d.tree = "none" /\ Goto(t, "place")
        \/ /\ d.staged # "none" /\ d.tree # "none"
           /\ \E m \in {d.mark, None} :
                Step(t, "removing", [tree |-> "partial", release |-> d.release,
                                     mark |-> m, staged |-> d.staged])
  \/ /\ task[t].pc = "removing"
     /\ \/ Goto(t, "place")
        \/ Step(t, "place", [tree |-> "none", release |-> None,
                              mark |-> None, staged |-> d.staged])

\* rename fails when there is nothing to rename, or a tree is in the way.
Place(t) ==
  /\ task[t].pc = "place"
  /\ LET d == disk[task[t].art] IN
       \/ /\ d.staged = "none" \/ d.tree # "none"
          /\ Goto(t, "failed")
       \/ /\ d.staged # "none" /\ d.tree = "none"
          /\ Restage(t, "mark", [d EXCEPT !.tree = d.staged, !.staged = "none",
                                          !.release = shipped])

Mark(t) ==
  /\ task[t].pc = "mark"
  /\ LET d == disk[task[t].art] IN
       \/ Restage(t, "failed", [d EXCEPT !.staged = "none"])
       \/ /\ d.tree # "none"
          /\ Restage(t, "ready", [tree |-> d.tree, release |-> d.release,
                                  mark |-> shipped, staged |-> "none"])

ensure(t) ==
  Check(t) \/ Clear(t) \/ Untar(t) \/ Remove(t) \/ Place(t) \/ Mark(t)

(***************************************************************************)
(* The shell                                                               *)
(***************************************************************************)

Kill ==
  /\ kills < MaxKill
  /\ kills' = kills + 1
  /\ task' = [t \in Task |-> NoTask]
  /\ UNCHANGED <<shipped, disk, overlap>>

\* A newer release is installed while the shell is off.
Upgrade ==
  /\ \A t \in Task : task[t] = NoTask
  /\ shipped < MaxRelease
  /\ shipped' = shipped + 1
  /\ UNCHANGED <<disk, task, overlap, kills>>

Next ==
  \/ \E t \in Task : ensure(t) \/ \E a \in Artifact : Ask(t, a)
  \/ Kill \/ Upgrade

Spec == Init /\ [][Next]_cacheVars

(***************************************************************************)
(* Correctness                                                             *)
(***************************************************************************)

\* Unless two threads prepared it at once, an artifact whose marker is that
\* of the release the app ships is completely there, in that release, however
\* often the shell was killed on the way (runtime.rs, dataplane.rs: the marker
\* is all that ensure_* look at).
MarkedIsWhole ==
  \A a \in Artifact \ overlap :
    Marked(a) => disk[a].tree = "whole" /\ disk[a].release = shipped

\* The artifacts that are in place and those who were given them.
Have == [a \in Artifact |->
           IF disk[a].tree = "whole" THEN disk[a].release ELSE None]

Given == {<<t, task[t].art, shipped>> :
             t \in {u \in Task : task[u].pc = "ready"}}

Promise == INSTANCE Provisioned WITH
  User <- Task, have <- Have, contended <- overlap, given <- Given

\* The protocol implements what it promises: nobody is given a tree that is
\* not whole or not of the release shipped, and no tree is removed under
\* somebody who was given it, as long as one thread at a time prepares it.
Implements == Promise!Spec
================================================================================
