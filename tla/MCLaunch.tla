------------------------------ MODULE MCLaunch ------------------------------
EXTENDS Launch, Sequences

CONSTANTS p1, p2, p3

MCProgram == Kind \X LaunchId

\* Process ids are interchangeable: a new process gets the first free one.
FirstFree ==
  LET ids == <<p1, p2, p3>> IN
  \A i \in 1..Len(ids) :
    proc[ids[i]].st = "free" /\ proc'[ids[i]].st # "free"
      => \A j \in 1..(i - 1) : proc[ids[j]].st # "free"

MCNext == Next /\ FirstFree
MCSpec == Init /\ [][MCNext]_vars /\ Fairness
=============================================================================
