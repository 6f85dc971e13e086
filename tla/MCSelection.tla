------------------------------ MODULE MCSelection ------------------------------
(* A required and an optional plugin; the user may add the optional one's       *)
(* manifest to the list of sources.  Nothing is claimed after two writers raced:  *)
(* behaviours end there.                                                        *)
EXTENDS Selection, TLC

CONSTANTS core, opt, mc

MCProvides == [m \in Official \cup Url |-> IF m = mc THEN core ELSE opt]

MCNext == raced = {} /\ Next
MCSpec == Init /\ [][MCNext]_vars

Symmetry == Permutations(SourceTask)
================================================================================
