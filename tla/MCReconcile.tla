------------------------------ MODULE MCReconcile ------------------------------
(* A required data source and two optional apps of one title.  The data source  *)
(* and one of the apps re-publish their version, the other app bumps it.        *)
EXTENDS Reconcile

CONSTANT bump

MCTitle == [p \in Plugin |-> IF p \in App THEN "apps" ELSE "source"]
MCVersion == [p \in Plugin |-> [r \in 1..MaxRelease |->
                IF p = bump /\ r > 1 THEN "v2" ELSE "v1"]]
================================================================================
