---------------------------- MODULE MCLibraryPanels ----------------------------
(* Two plugins: the first has two panels, one of a terse file, and another title *)
(* in its second release; of the second, the first panel is bad in release 1.    *)
EXTENDS LibraryPanels

CONSTANTS a1, a2, b1, b2, A, B

MCOrder == <<a1, a2, b1, b2>>
MCOwner == [p \in {a1, a2, b1, b2} |-> IF p \in {a1, a2} THEN A ELSE B]
MCTitle == [o \in {A, B} |-> [r \in 1..MaxRelease |->
              IF o = B THEN "tb" ELSE IF r = 1 THEN "ta" ELSE "ta2"]]
MCBad == {<<b1, 1>>}
================================================================================
