------------------------------ MODULE Provisioned ------------------------------
(***************************************************************************)
(* What the code that unpacks artifacts promises to those who then run     *)
(* them.  An artifact is in place in one release or it is not; it is never *)
(* exchanged under somebody who was given it; and whoever is given it gets *)
(* the release that is in place.  The promise ends for an artifact that    *)
(* two users prepared at the same time.                                    *)
(***************************************************************************)
EXTENDS Naturals

CONSTANTS
  User,      \* who asks for artifacts
  Artifact,
  Release    \* a set of positive numbers

None == 0

VARIABLES
  have,      \* the release that is in place, or None
  contended, \* artifacts two users prepared at the same time
  given      \* <<user, artifact, release>>

Init ==
  /\ have = [a \in Artifact |-> None]
  /\ contended = {}
  /\ given = {}

Holders(a) == {g \in given : g[2] = a}

Place(a) ==
  /\ have[a] = None
  /\ \E r \in Release : have' = [have EXCEPT ![a] = r]
  /\ UNCHANGED <<contended, given>>

Withdraw(a) ==
  /\ Holders(a) = {}
  /\ have' = [have EXCEPT ![a] = None]
  /\ UNCHANGED <<contended, given>>

Give(u, a) ==
  /\ have[a] # None
  /\ given' = given \cup {<<u, a, have[a]>>}
  /\ UNCHANGED <<have, contended>>

Return(u) ==
  /\ given' = {g \in given : g[1] # u}
  /\ UNCHANGED <<have, contended>>

\* Two users at once: anything may happen to this artifact, and to no other.
Contend(a) ==
  /\ contended' = contended \cup {a}
  /\ \E r \in Release \cup {None} : have' = [have EXCEPT ![a] = r]
  /\ {g \in given' : g[2] # a} \subseteq given

\* The shell ends, and with it every user.
Restart ==
  /\ given' = {}
  /\ UNCHANGED <<have, contended>>

Next ==
  \/ \E a \in Artifact : Place(a) \/ Withdraw(a) \/ Contend(a)
  \/ \E u \in User : Return(u) \/ \E a \in Artifact : Give(u, a)
  \/ Restart

Spec == Init /\ [][Next]_<<have, contended, given>>
================================================================================
