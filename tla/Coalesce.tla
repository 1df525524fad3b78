------------------------------ MODULE Coalesce ------------------------------
(***************************************************************************)
(* What request debouncing promises to a request: it cooks, or it is given *)
(* a result that another cook published for its key and that it can use.   *)
(* Nothing is said of slots, generations, channels or timeouts.            *)
(***************************************************************************)
CONSTANTS
    Keys,
    Requests,
    Result,     \* what a cook can answer: [by, kind, hints]
    NONE

VARIABLES phase, key, client, outcome, published

cvars == <<phase, key, client, outcome, published>>

Init ==
    /\ phase = [r \in Requests |-> "idle"]
    /\ outcome = [r \in Requests |-> NONE]
    /\ published = [k \in Keys |-> {}]
    /\ key \in [Requests -> Keys]

\* The client behind r can use the answer res.
Usable(r, res) ==
    /\ res.kind # "intermediate"
    /\ res.kind = "notmodified" =>
        /\ client[r] # NONE
        /\ res.hints # NONE
        /\ client[r].cond = res.hints.cond
        /\ client[r].cond = NONE => client[r].exp = res.hints.exp

Ask(r) ==
    /\ phase[r] = "idle"
    /\ phase' = [phase EXCEPT ![r] = "pending"]
    /\ UNCHANGED <<key, client, outcome, published>>

StartCook(r) ==
    /\ phase[r] = "pending"
    /\ phase' = [phase EXCEPT ![r] = "cooking"]
    /\ UNCHANGED <<key, client, outcome, published>>

\* A cook answers its own request; its result becomes public or not.
Answer(r, res) ==
    /\ phase[r] = "cooking"
    /\ res.by = r
    /\ phase' = [phase EXCEPT ![r] = "served"]
    /\ outcome' = [outcome EXCEPT ![r] = res]
    /\ \/ UNCHANGED published
       \/ /\ res.kind # "intermediate"
          /\ published' = [published EXCEPT ![key[r]] = @ \cup {res}]
    /\ UNCHANGED <<key, client>>

Share(r, res) ==
    /\ phase[r] = "pending"
    /\ res \in published[key[r]]
    /\ Usable(r, res)
    /\ phase' = [phase EXCEPT ![r] = "served"]
    /\ outcome' = [outcome EXCEPT ![r] = res]
    /\ UNCHANGED <<key, client, published>>

Leave(r) ==
    /\ phase[r] \in {"pending", "cooking"}
    /\ phase' = [phase EXCEPT ![r] = "gone"]
    /\ UNCHANGED <<key, client, outcome, published>>

Next ==
    \E r \in Requests :
        \/ Ask(r)
        \/ StartCook(r)
        \/ \E res \in Result : Answer(r, res) \/ Share(r, res)
        \/ Leave(r)

Spec == Init /\ [][Next]_cvars
=============================================================================
