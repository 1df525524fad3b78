------------------------------- MODULE Answers -------------------------------
(***************************************************************************)
(* What a batch promises its client: every item is answered at most once,  *)
(* and the response ends when every item is answered or lost, after which  *)
(* nothing comes.  One lost item of a stream costs nobody else an answer.  *)
(***************************************************************************)
CONSTANT Items

VARIABLES
    alone,    \* whether the items fail alone (a stream) or together (one array)
    answered,
    lost,
    over

vars == <<alone, answered, lost, over>>

Init == alone \in BOOLEAN /\ answered = {} /\ lost = {} /\ over = FALSE

Open == Items \ (answered \cup lost)

\* Some answers, the last ones perhaps with the end of the response.
Answer(S) ==
    /\ ~over
    /\ answered' = answered \cup S
    /\ over' \in {FALSE, S = Open}
    /\ UNCHANGED <<alone, lost>>

Lose(i) ==
    /\ ~over
    /\ lost' = lost \cup (IF alone THEN {i} ELSE Open)
    /\ over' = ~alone
    /\ UNCHANGED <<alone, answered>>

Next ==
    \/ \E S \in SUBSET Open : Answer(S)
    \/ \E i \in Open : Lose(i)

Spec == Init /\ [][Next]_vars
=============================================================================
