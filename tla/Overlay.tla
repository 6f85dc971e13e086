-------------------------------- MODULE Overlay --------------------------------
(***************************************************************************)
(* Our frontend laid over the unpacked Grafana (runtime.rs,                *)
(* overlay_grafana): after ensure_grafana a launch compares the .overlay   *)
(* marker in the Grafana home with the version the app ships and, if they  *)
(* differ, removes and copies public/build, then public/views, and writes  *)
(* the marker last.  The marker lies inside the tree ArtifactCache         *)
(* exchanges, and again nothing keeps two launches apart.                  *)
(***************************************************************************)
EXTENDS ArtifactCache

CONSTANT Grafana  \* the artifact that is overlaid

ASSUME GrafanaAssumption == Grafana \in Artifact

Part == {"build", "views"}

VARIABLES
  public,   \* what is in public/build and public/views
  overlaid, \* whose version the marker names
  copier,   \* what each launch is doing to them
  spoilt    \* history: two launches overlaid at once, or a removal failed

overlayVars == <<public, overlaid, copier, spoilt>>
vars == <<cacheVars, overlayVars>>

\* "ours" and "old": complete, of the version shipped or of an earlier one.
Content == {"none", "stock", "mixed", "old", "ours"}
Copier == [pc : {"off", "remove", "create", "copy", "mark", "done", "failed"},
           part : Part,
           own : BOOLEAN]  \* it made the directory, and nobody touched it

OverlayTypeOK ==
  /\ TypeOK
  /\ public \in [Part -> Content] /\ overlaid \in {"none", "old", "ours"}
  /\ copier \in [Task -> Copier] /\ spoilt \in BOOLEAN

Off == [pc |-> "off", part |-> "build", own |-> FALSE]

OverlayInit ==
  /\ Init
  /\ public = [p \in Part |-> "none"] /\ overlaid = "none"
  /\ copier = [t \in Task |-> Off] /\ spoilt = FALSE

Copying(t) == copier[t].pc \in {"remove", "create", "copy", "mark"}

\* Thread t takes the step to pc and leaves part p as c; a copy of p by
\* another is disturbed.
Meddle(t, pc, p, c) ==
  /\ copier' = [u \in Task |->
       IF u = t THEN [copier[t] EXCEPT !.pc = pc]
       ELSE IF copier[u].part = p THEN [copier[u] EXCEPT !.own = FALSE]
       ELSE copier[u]]
  /\ public' = [public EXCEPT ![p] = c]
  /\ UNCHANGED <<cacheVars, overlaid>>

Advance(t, c) ==
  /\ copier' = [copier EXCEPT ![t] = c]
  /\ UNCHANGED <<cacheVars, public, overlaid, spoilt>>

Compare(t) ==
  /\ task[t] = [pc |-> "ready", art |-> Grafana] /\ copier[t].pc = "off"
  /\ \/ overlaid = "ours" /\ Advance(t, [Off EXCEPT !.pc = "done"])
     \/ /\ overlaid # "ours"
        /\ copier' = [copier EXCEPT ![t] = [Off EXCEPT !.pc = "remove"]]
        /\ spoilt' = (spoilt \/ \E u \in Task \ {t} : Copying(u))
        /\ UNCHANGED <<cacheVars, public, overlaid>>

\* remove_dir_all, whose error is ignored.
RemovePart(t) ==
  /\ copier[t].pc = "remove"
  /\ LET p == copier[t].part IN
       \/ Meddle(t, "create", p, "none") /\ UNCHANGED spoilt
       \/ /\ public[p] # "none"
          /\ Meddle(t, "create", p, "mixed") /\ spoilt' = TRUE

\* cp -R makes the directory, or puts the source inside the one it finds.
Create(t) ==
  /\ copier[t].pc = "create"
  /\ LET p == copier[t].part IN
       \/ Advance(t, [copier[t] EXCEPT !.pc = "failed"])
       \/ /\ public[p] = "none"
          /\ copier' = [copier EXCEPT ![t].pc = "copy", ![t].own = TRUE]
          /\ public' = [public EXCEPT ![p] = "mixed"]
          /\ UNCHANGED <<cacheVars, overlaid, spoilt>>
       \/ public[p] # "none" /\ Advance(t, [copier[t] EXCEPT !.pc = "copy"])

\* Mutant: the marker is written once the first part is there.
Copy_marks(t) ==
  /\ copier[t].pc = "copy" /\ copier[t].own
  /\ public' = [public EXCEPT ![copier[t].part] = "ours"]
  /\ overlaid' = "ours"
  /\ copier' = [copier EXCEPT ![t] =
       IF copier[t].part = "build"
       THEN [pc |-> "remove", part |-> "views", own |-> FALSE]
       ELSE [copier[t] EXCEPT !.pc = "mark"]]
  /\ UNCHANGED <<cacheVars, spoilt>>

Copy(t) ==
  /\ copier[t].pc = "copy"
  /\ \/ Advance(t, [copier[t] EXCEPT !.pc = "failed"])
     \/ /\ copier' = [copier EXCEPT ![t] =
             IF copier[t].part = "build"
             THEN [pc |-> "remove", part |-> "views", own |-> FALSE]
             ELSE [copier[t] EXCEPT !.pc = "mark"]]
        /\ public' = [public EXCEPT ![copier[t].part] =
             IF copier[t].own THEN "ours" ELSE @]
        /\ UNCHANGED <<cacheVars, overlaid, spoilt>>

MarkOverlay(t) ==
  /\ copier[t].pc = "mark"
  /\ \/ Advance(t, [copier[t] EXCEPT !.pc = "failed"])
     \/ /\ copier' = [copier EXCEPT ![t].pc = "done"]
        /\ overlaid' = "ours"
        /\ UNCHANGED <<cacheVars, public, spoilt>>

overlay_grafana(t) ==
  Compare(t) \/ RemovePart(t) \/ Create(t) \/ Copy(t) \/ MarkOverlay(t)

\* What a step of ArtifactCache does to the overlay: it goes with the tree,
\* and a tree just unpacked has the stock frontend.
Carried ==
  LET d == disk[Grafana] e == disk'[Grafana] IN
  /\ \/ e.tree = d.tree /\ UNCHANGED <<public, overlaid>>
     \/ /\ e.tree # d.tree /\ e.tree = "partial" /\ d.tree # "none"
        /\ public' = [p \in Part |->
             IF public[p] = "none" THEN "none" ELSE "mixed"]
        /\ overlaid' \in {overlaid, "none"}
     \/ /\ e.tree # d.tree /\ d.tree = "none"
        /\ public' = [p \in Part |-> IF e.tree = "whole" THEN "stock" ELSE "mixed"]
        /\ overlaid' = "none"
     \/ /\ e.tree # d.tree /\ e.tree = "none"
        /\ public' = [p \in Part |-> "none"] /\ overlaid' = "none"
  /\ copier' = [t \in Task |->
       IF task'[t].pc # "ready" THEN Off
       ELSE IF e.tree # d.tree THEN [copier[t] EXCEPT !.own = FALSE]
       ELSE copier[t]]
  /\ UNCHANGED spoilt

\* A newer release ships a newer overlay.
Age ==
  /\ public' = [p \in Part |-> IF public[p] = "ours" THEN "old" ELSE public[p]]
  /\ overlaid' = IF overlaid = "ours" THEN "old" ELSE overlaid
  /\ UNCHANGED <<copier, spoilt>>

ensure_or_ask(t) == ensure(t) \/ \E a \in Artifact : ~Copying(t) /\ Ask(t, a)

OverlayNext ==
  \/ \E t \in Task : ensure_or_ask(t) /\ Carried
  \/ Kill /\ Carried
  \/ Upgrade /\ Age
  \/ \E t \in Task : overlay_grafana(t)

OverlaySpec == OverlayInit /\ [][OverlayNext]_vars

\* A Grafana home whose marker names the version the app ships has our
\* frontend in both its parts, over a whole tree, wherever the shell was
\* killed (runtime.rs, overlay_grafana: "Idempotent + cheap"), unless launches
\* raced or remove_dir_all left a directory for cp to copy into.
OverlayIsOurs ==
  overlaid = "ours" /\ ~spoilt /\ Grafana \notin overlap =>
    /\ \A p \in Part : public[p] = "ours"
    /\ disk[Grafana].tree = "whole" /\ disk[Grafana].release = shipped

\* The two together: states have their types, and what is marked is ours.
OverlayInv == OverlayTypeOK /\ OverlayIsOurs
================================================================================
