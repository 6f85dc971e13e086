----------------------------- MODULE OsProcess -----------------------------
(***************************************************************************)
(* The operating system's process table, as far as the desktop shell can   *)
(* tell it apart: which program a process runs, whether it has bound its   *)
(* port, whether a SIGTERM is pending, and whether it is a child of the    *)
(* shell that is running now.  External to the repository: modelled from   *)
(* how lib.rs, dataplane.rs, compute.rs and grafana.rs use spawn(), wait() *)
(* and pkill.                                                              *)
(*                                                                         *)
(* Process ids are reused: an exited child stays a zombie until its parent *)
(* wait()s for it or is itself gone.                                       *)
(***************************************************************************)
CONSTANTS
  Pid,       \* process ids (the bound on processes existing at once)
  NoPid,     \* no process
  Program,   \* programs the shell spawns
  NoProgram  \* what a free process id runs

ASSUME OsAssumption == NoPid \notin Pid /\ NoProgram \notin Program

VARIABLE
  proc       \* proc[p]: the process with id p

(***************************************************************************)
(* "starting": running, port not bound yet; "serving": port bound;         *)
(* "zombie": exited, not yet waited for; "free": no such process.          *)
(***************************************************************************)
ProcState == {"free", "starting", "serving", "zombie"}

Process ==
  [prog : Program \cup {NoProgram}, st : ProcState,
   term : BOOLEAN, child : BOOLEAN]

NoProcess == [prog |-> NoProgram, st |-> "free", term |-> FALSE,
              child |-> FALSE]

ProcTypeOK == proc \in [Pid -> Process]

\* No process exists before the shell first runs.
ProcInit == proc = [p \in Pid |-> NoProcess]

Alive(p) == proc[p].st \in {"starting", "serving"}

Serving(g) == \E p \in Pid : proc[p].prog = g /\ proc[p].st = "serving"

\* Command::spawn succeeds: the process p now runs g as a child of the shell.
Spawned(p, g) ==
  /\ proc[p].st = "free"
  /\ proc' = [proc EXCEPT ![p] =
       [prog |-> g, st |-> "starting", term |-> FALSE, child |-> TRUE]]

\* Child::wait returns once the child has exited, and reaps it.
Reaped(p) ==
  /\ proc[p].st = "zombie"
  /\ proc' = [proc EXCEPT ![p] = NoProcess]

\* pkill -f: SIGTERM to every process of the programs G.  It does not wait.
Pkilled(G) ==
  proc' = [p \in Pid |-> IF Alive(p) /\ proc[p].prog \in G
                         THEN [proc[p] EXCEPT !.term = TRUE]
                         ELSE proc[p]]

\* The shell is gone: its zombies are reaped, its live children are orphans.
Orphaned ==
  proc' = [p \in Pid |-> IF Alive(p) THEN [proc[p] EXCEPT !.child = FALSE]
                                     ELSE NoProcess]

\* A process exits; only a child leaves a zombie for the shell to wait for.
Exited(p) ==
  /\ Alive(p)
  /\ proc' = [proc EXCEPT ![p] =
       IF proc[p].child THEN [@ EXCEPT !.st = "zombie", !.term = FALSE]
                        ELSE NoProcess]

\* The process binds its port.
Bound(p) ==
  /\ proc[p].st = "starting"
  /\ proc' = [proc EXCEPT ![p].st = "serving"]
=============================================================================
