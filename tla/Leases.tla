------------------------------- MODULE Leases -------------------------------
(***************************************************************************)
(* What the pins of a durable cache promise.  An identifier is leased to   *)
(* one key until a deadline, which all identifiers of the key share; a     *)
(* lease only ends by the clock, its deadline only moves away and never    *)
(* lies beyond one lifetime from now.  What a client is told of a pin is   *)
(* covered by its lease.  Nothing is said of links, rows, renders, copies, *)
(* late writes or lost requests.                                           *)
(***************************************************************************)
EXTENDS Naturals

CONSTANTS Ids, Keys, NONE

VARIABLES
    lifetime,
    now,
    lease,      \* lease[i]: the key i stands for and until when, or NONE
    promised    \* what clients have been told: [id, key, until]

lvars == <<lifetime, now, lease, promised>>

Init ==
    /\ lifetime \in Nat
    /\ now = 0
    /\ lease = [i \in Ids |-> NONE]
    /\ promised = {}

\* One lease, while the deadline of k becomes `until`.
Moves(k, until, old, new) ==
    IF old # NONE /\ old.key = k
    THEN old.until <= until /\ new = [key |-> k, until |-> until]
    ELSE new = old \/ (old = NONE /\ new = [key |-> k, until |-> until])

\* All leases of k last longer; identifiers nobody has may join them.
Extend(k, until) ==
    /\ UNCHANGED <<lifetime, now, promised>>
    /\ lease' \in [Ids -> [key : Keys, until : Nat] \cup {NONE}]
    /\ \A i \in Ids : Moves(k, until, lease[i], lease'[i])

Covers(l, p) == l # NONE /\ l.key = p.key /\ l.until >= p.until

Promise(p) ==
    /\ p.until > now => Covers(lease[p.id], p)
    /\ promised' = promised \cup {p}
    /\ UNCHANGED <<lifetime, now, lease>>

\* Time passes, and with it the leases that end.
Tick ==
    /\ now' = now + 1
    /\ lease' = [i \in Ids |-> IF lease[i] # NONE /\ lease[i].until > now + 1
                               THEN lease[i] ELSE NONE]
    /\ UNCHANGED <<lifetime, promised>>

Next ==
    \/ \E k \in Keys, until \in now + 1..now + lifetime : Extend(k, until)
    \/ \E p \in [id : Ids, key : Keys, until : 0..now + lifetime] : Promise(p)
    \/ Tick

Spec == Init /\ [][Next]_lvars
=============================================================================
