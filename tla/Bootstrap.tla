------------------------------- MODULE Bootstrap -------------------------------
(***************************************************************************)
(* What a boot of the data plane does to the disk: initdb, control_db with *)
(* its roles and the portfolios table (dataplane.rs), and the RisingWave   *)
(* schema (apply.sh).  The boot thread runs one statement after another,   *)
(* each committed by itself; the shell may be killed between any two, any  *)
(* call may fail, and the next boot starts from what is there.             *)
(*                                                                         *)
(* That the artifacts the boot runs are whole is the promise of            *)
(* Provisioned; here preparing one succeeds or fails.  The scripts are     *)
(* lists of statements; files of one kind that depend on the same objects  *)
(* count as one object.                                                    *)
(***************************************************************************)
EXTENDS Naturals, Sequences, SequencesExt

CONSTANTS
  MaxKill,  \* bound: kills of the shell
  MaxFault  \* bound: calls that fail

ASSUME BootstrapBounds == MaxKill \in Nat /\ MaxFault \in Nat

VARIABLES
  cluster,  \* the Postgres data directory
  pg, rw,   \* what exists in control_db (and its roles), and in RisingWave
  recorded, \* V001__v2_baseline is in _schema_migrations
  stage,    \* what the boot thread is doing
  kills, faults

boot_vars == <<cluster, pg, rw, recorded, stage, kills, faults>>

(***************************************************************************)
(* The scripts                                                             *)
(***************************************************************************)

Guarded(o) ==
  [adds |-> {o}, plain |-> FALSE, needs |-> {}, drops |-> {}, users |-> {}]
Plain(o) == [Guarded(o) EXCEPT !.plain = TRUE]

\* RisingWave refuses to drop what users still use, unless told CASCADE.
Drop(os, users) ==
  [adds |-> {}, plain |-> FALSE, needs |-> {}, drops |-> os, users |-> users]

CreateDatabase == << Plain("control_db") >>

\* 01-schema.sql; the two last are ALTER DATABASE ... OWNER and GRANT CONNECT.
Schema ==
  << Plain("control_plane"), Plain("rw_replicator"),
     [Guarded("owner") EXCEPT !.needs = {"control_plane"}],
     [Guarded("connect") EXCEPT !.needs = {"rw_replicator"}] >>

\* Mutant: a publication that is already there stops the script.
Portfolios_plain ==
  << Guarded("portfolios"), Guarded("select"), Plain("publication") >>

\* 02-portfolios.sql
Portfolios ==
  << Guarded("portfolios"),
     [Guarded("select") EXCEPT !.needs = {"rw_replicator"}],
     Guarded("publication") >>

\* Mutant: the drop reaches the logs.
Folded_and_logs ==
  {"fold_per_event", "metrics", "latest_portfolio_state",
   "instruments_catalog", "entities", "logs"}

\* What DROP ... fold_per_event CASCADE takes with it.
Folded == {"fold_per_event", "metrics", "latest_portfolio_state",
           "instruments_catalog", "entities"}

\* schemas/, in the order of apply.sh.  "logs" are the tables users write to.
\* fold_kernel.sql drops its aggregate without CASCADE, fold_per_event.sql its
\* materialized view, which calls the aggregate, with it.
Baseline ==
  << Guarded("logs"), Guarded("portfolios_cdc"),
     Drop({"fold_kernel"}, {"fold_per_event"}), Plain("fold_kernel"),
     Guarded("events"),
     Drop(Folded, {}), Plain("fold_per_event"), Guarded("metrics"),
     Plain("latest_portfolio_state"), Guarded("instruments_used"),
     Plain("ohlcv_coverage"), Plain("data_coverage"),
     Plain("instruments_catalog"), Guarded("entities") >>

Objects(script) == UNION {s.adds : s \in Range(script)}

Pc == {"off", "postgres", "initdb", "spawn_postgres", "exists", "create",
       "schema", "portfolios", "risingwave", "is_applied", "baseline",
       "record", "up", "failed"}
Running == Pc \ {"off", "up", "failed"}

BootTypeOK ==
  /\ cluster \in {"none", "half", "ok"}
  /\ pg \subseteq Objects(CreateDatabase \o Schema \o Portfolios)
  /\ rw \subseteq Objects(Baseline)
  /\ recorded \in BOOLEAN
  /\ stage \in [pc : Pc, n : 1..Len(Baseline), quiet : BOOLEAN]
  /\ kills \in 0..MaxKill /\ faults \in 0..MaxFault

BootInit ==
  /\ cluster = "none" /\ pg = {} /\ rw = {} /\ recorded = FALSE
  /\ stage = [pc |-> "off", n |-> 1, quiet |-> TRUE]
  /\ kills = 0 /\ faults = 0

(***************************************************************************)
(* The boot thread                                                         *)
(***************************************************************************)

Goto(pc) == stage' = [stage EXCEPT !.pc = pc, !.n = 1]

\* The shell starts.
Boot ==
  /\ stage.pc \in {"off", "failed"}
  /\ stage' = [pc |-> "postgres", n |-> 1, quiet |-> TRUE]
  /\ UNCHANGED <<cluster, pg, rw, recorded, kills, faults>>

\* initdb writes PG_VERSION, which is all the guard looks at, first.
ensure_postgres ==
  /\ stage.pc = "postgres"
  /\ \/ cluster = "none" /\ cluster' = "half" /\ Goto("initdb")
     \/ cluster # "none" /\ Goto("spawn_postgres") /\ UNCHANGED cluster
  /\ UNCHANGED <<pg, rw, recorded, kills, faults>>

Initdb ==
  /\ stage.pc = "initdb"
  /\ cluster' = "ok" /\ Goto("spawn_postgres")
  /\ UNCHANGED <<pg, rw, recorded, kills, faults>>

\* spawn_postgres and health_tcp: a half-made cluster does not start.
SpawnPostgres ==
  /\ stage.pc = "spawn_postgres"
  /\ Goto(IF cluster = "ok" THEN "exists" ELSE "failed")
  /\ UNCHANGED <<cluster, pg, rw, recorded, kills, faults>>

\* Mutant: the existence check is lost.
Exists_lost ==
  /\ stage.pc = "exists" /\ Goto("create")
  /\ UNCHANGED <<cluster, pg, rw, recorded, kills, faults>>

\* wait_control_db_exists: an answer counts only if Postgres gave one.
Exists ==
  /\ stage.pc = "exists"
  /\ Goto(IF "control_db" \in pg THEN "portfolios" ELSE "create")
  /\ UNCHANGED <<cluster, pg, rw, recorded, kills, faults>>

\* The next statement of a script, on the objects in db, which it leaves as
\* rest; psql stops at the first error.
Refused(s, db) ==
  \/ s.plain /\ s.adds \cap db # {}
  \/ ~(s.needs \subseteq db)
  \/ s.users \cap db # {}

RunStatement(script, db, after) ==
  LET s == script[stage.n] IN
  IF Refused(s, db) THEN Goto("failed")
  ELSE IF stage.n = Len(script) THEN Goto(after)
  ELSE stage' = [stage EXCEPT !.n = stage.n + 1]

Result(script, db) ==
  LET s == script[stage.n] IN
  IF Refused(s, db) THEN db ELSE (db \ s.drops) \cup s.adds

bootstrap_control_db ==
  /\ \E step \in {<<"create", CreateDatabase, "schema">>,
                  <<"schema", Schema, "portfolios">>,
                  <<"portfolios", Portfolios, "risingwave">>} :
       /\ stage.pc = step[1]
       /\ RunStatement(step[2], pg, step[3])
       /\ pg' = Result(step[2], pg)
  /\ UNCHANGED <<cluster, rw, recorded, kills, faults>>

\* ensure_risingwave, spawn_risingwave and health_tcp
RisingWave ==
  /\ stage.pc = "risingwave" /\ Goto("is_applied")
  /\ UNCHANGED <<cluster, pg, rw, recorded, kills, faults>>

\* Mutant: the migration is recorded before its files are applied.
is_applied_records ==
  /\ stage.pc = "is_applied"
  /\ Goto(IF recorded THEN "up" ELSE "baseline")
  /\ recorded' = TRUE
  /\ UNCHANGED <<cluster, pg, rw, kills, faults>>

is_applied ==
  /\ stage.pc = "is_applied"
  /\ Goto(IF recorded THEN "up" ELSE "baseline")
  /\ UNCHANGED <<cluster, pg, rw, recorded, kills, faults>>

ApplyBaseline ==
  /\ stage.pc = "baseline"
  /\ RunStatement(Baseline, rw, "record")
  /\ rw' = Result(Baseline, rw)
  /\ UNCHANGED <<cluster, pg, recorded, kills, faults>>

Record ==
  /\ stage.pc = "record"
  /\ recorded' = TRUE /\ Goto("up")
  /\ UNCHANGED <<cluster, pg, rw, kills, faults>>

BootStep ==
  \/ ensure_postgres \/ Initdb \/ SpawnPostgres \/ Exists
  \/ bootstrap_control_db \/ RisingWave \/ is_applied \/ ApplyBaseline \/ Record

(***************************************************************************)
(* What goes wrong                                                         *)
(***************************************************************************)

\* A call fails or times out and with it the boot; a failed initdb removes
\* what it made; a failed query of is_applied reads as "not applied".
Fault ==
  /\ stage.pc \in Running /\ faults < MaxFault
  /\ faults' = faults + 1
  /\ cluster' = IF stage.pc = "initdb" THEN "none" ELSE cluster
  /\ stage' = [pc |-> IF stage.pc = "is_applied" THEN "baseline" ELSE "failed",
              n |-> 1, quiet |-> FALSE]
  /\ UNCHANGED <<pg, rw, recorded, kills>>

\* An initdb that outlives the shell may still complete.
Kill ==
  /\ stage.pc # "off" /\ kills < MaxKill
  /\ kills' = kills + 1
  /\ Goto("off")
  /\ cluster' \in IF stage.pc = "initdb" THEN {"half", "ok"} ELSE {cluster}
  /\ UNCHANGED <<pg, rw, recorded, faults>>

BootNext == Boot \/ BootStep \/ Fault \/ Kill

BootSpec == BootInit /\ [][BootNext]_boot_vars

\* The boot thread runs, and the user starts the shell again.
FairBootSpec == BootSpec /\ WF_boot_vars(BootStep) /\ WF_boot_vars(Boot)

(***************************************************************************)
(* Correctness                                                             *)
(***************************************************************************)

\* Once a boot has come up, everything the plane's users read is there, also
\* when is_applied took a failed query for an answer in between and the baseline
\* ran over a complete schema.
UpIsComplete ==
  stage.pc = "up" =>
    /\ cluster = "ok" /\ recorded
    /\ {"control_db", "rw_replicator"} \cup Objects(Portfolios) \subseteq pg
    /\ rw = Objects(Baseline)

\* Together with the types of the state.
BootInv == BootTypeOK /\ UpIsComplete

\* The disks from which no boot comes up: a cluster initdb left half made; a
\* control_db without the role the grants need; fold_per_event before the record,
\* as its aggregate, which the baseline drops first, then cannot be dropped.
Wedged ==
  \/ cluster = "half" /\ stage.pc # "initdb"
  \/ "control_db" \in pg /\ "rw_replicator" \notin pg
     /\ stage.pc \notin {"create", "schema"}
  \/ ~recorded /\ "fold_per_event" \in rw
     /\ stage.pc \notin {"baseline", "record"}

\* Nothing else stops a boot in which no call failed: from every other state of
\* the disk, whatever kills and failures came before, the scripts run through
\* (dataplane.rs, bring_up; apply.sh).
OnlyWedgesStop == stage.pc = "failed" /\ stage.quiet => Wedged

\* No boot takes away what users wrote: the cluster, control_db, portfolios
\* and the logs stay (DROP ... CASCADE in fold_per_event.sql).
UserDataKept ==
  [][/\ cluster = "ok" => cluster' = "ok"
     /\ pg \subseteq pg'
     /\ "logs" \in rw => "logs" \in rw']_boot_vars

\* When kills and failures have stopped, the plane comes up and stays up, or
\* every boot finds its disk one of those it cannot recover from.
BootSettles == <>[](stage.pc = "up") \/ []<>Wedged

(***************************************************************************)
(* A claim of the source that the code does not keep                       *)
(***************************************************************************)

\* "apply.sh and the host reconciler must remain safe to re-run" (the plan of
\* the serviceless data plane): the baseline stops only when a call fails.
ApplyIsRerunnable ==
  [][stage.pc = "baseline" /\ stage'.pc = "failed" => ~stage'.quiet]_boot_vars

================================================================================
