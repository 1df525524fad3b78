---------------------------- MODULE HandoffChain ----------------------------
(***************************************************************************)
(* The out-of-process part of a cook: the chain of handoffs to tier 2 and  *)
(* tier 3 (cook.rs) and the single-flight table that deduplicates the      *)
(* first attempt of the cooks of one key (HandoffInflight, handoff.rs).    *)
(*                                                                         *)
(* A cook awaits in two places, its own POST and a leader's answer, and    *)
(* there its task can be dropped when the client goes away.                *)
(***************************************************************************)
EXTENDS Naturals, FiniteSets

CONSTANTS
    Keys,       \* handoff keys
    Requests,   \* cooks that reached the chain
    Configured, \* the tiers with a handoff URL
    Routes,     \* the tiers dispatch::route can name for the content
    MayAbort,   \* TRUE: a waiting cook can be dropped
    NONE        \* Rust's None

ASSUME TierAssumption ==
    /\ Configured \subseteq {2, 3}
    /\ Routes \subseteq {1, 2, 3}
    /\ MayAbort \in BOOLEAN

(* What a handoff ends with: a thumbnail, a successful placeholder, a      *)
(* result with another status, or a transport error.  `tier` is the server *)
(* that was asked.                                                         *)
Answer == [kind : {"render", "placeholder", "failed", "error"}, tier : {2, 3}]

\* What a cook can end with; it goes on after anything else.
Accepted == {a \in Answer : a.kind \in {"render", "placeholder"}}

ASSUME NoneAssumption == NONE \notin Answer

VARIABLES
    slot,       \* slot[k]: a leader registered k and did not complete it
    waiters,    \* waiters[k]: the senders in that slot, by joiner
    pc,
    key,        \* the cook's handoff key
    start,      \* the tier the cook's content sends it to first; 0 before
    tier,       \* the tier the loop has come to
    first,      \* the next attempt is the first one
    leading,    \* the running POST is the leader's
    msg,        \* what arrived in the joiner's channel, or NONE
    heard,      \* the tiers the cook had answers of, from its POSTs or a leader's
    final       \* the answer the cook took, or NONE

vars == <<slot, waiters, pc, key, start, tier, first, leading, msg, heard, final>>

-----------------------------------------------------------------------------
(* Images routed to tier 1 go to tier 2 when there is one, and so does     *)
(* tier-3 content when only tier 2 can be asked.                           *)
StartTier(routed, isImage) ==
    IF routed = 1 /\ isImage /\ 2 \in Configured THEN 2
    ELSE IF routed = 3 /\ 3 \notin Configured /\ 2 \in Configured THEN 2
    ELSE routed

\* The tiers the loop can still try from t on; tier 1 was tried locally.
Remaining(t) == {u \in Configured : u >= t}

\* Seeded fault: any success ends the chain.
GoesOnRenderFailures(t, answer) == answer.kind \in {"failed", "error"}

\* Seeded fault: the answer of the last tier is taken whatever it is.
GoesOnBeforeTierThree(t, answer) ==
    /\ t < 3
    /\ \/ answer.kind \in {"failed", "error"}
       \/ answer.kind = "placeholder" /\ 3 \in Configured

(* The loop goes to the next tier on a failure, and on tier 2's successful *)
(* placeholder when tier 3 can still be asked.                             *)
GoesOn(t, answer) ==
    \/ answer.kind \in {"failed", "error"}
    \/ answer.kind = "placeholder" /\ t = 2 /\ 3 \in Configured

\* The cook r leaves the await with this answer to its attempt.
Apply(r, answer) ==
    /\ heard' = [heard EXCEPT ![r] = @ \cup {answer.tier}]
    /\ IF GoesOn(tier[r], answer)
       THEN /\ tier' = [tier EXCEPT ![r] = @ + 1]
            /\ pc' = [pc EXCEPT ![r] = "loop"]
            /\ UNCHANGED final
       ELSE /\ final' = [final EXCEPT ![r] = answer]
            /\ pc' = [pc EXCEPT ![r] = "done"]
            /\ UNCHANGED tier

-----------------------------------------------------------------------------
Init ==
    /\ slot = [k \in Keys |-> FALSE]
    /\ waiters = [k \in Keys |-> {}]
    /\ pc = [r \in Requests |-> "idle"]
    /\ key \in [Requests -> Keys]
    /\ start = [r \in Requests |-> 0]
    /\ tier = [r \in Requests |-> 0]
    /\ first = [r \in Requests |-> TRUE]
    /\ leading = [r \in Requests |-> FALSE]
    /\ msg = [r \in Requests |-> NONE]
    /\ heard = [r \in Requests |-> {}]
    /\ final = [r \in Requests |-> NONE]

(* The cook reaches the chain: route its content, pick the first tier.     *)
(* Cooks of one key may have seen different contents of the source.        *)
Enter(r) ==
    /\ pc[r] = "idle"
    /\ \E routed \in Routes, isImage \in BOOLEAN :
        /\ start' = [start EXCEPT ![r] = StartTier(routed, isImage)]
        /\ tier' = [tier EXCEPT ![r] = StartTier(routed, isImage)]
    /\ pc' = [pc EXCEPT ![r] = "loop"]
    /\ UNCHANGED <<slot, waiters, key, first, leading, msg, heard, final>>

\* The tier of the next attempt: the loop skips tiers without a URL.
Attempt(r, t) ==
    /\ pc[r] = "loop"
    /\ t \in Remaining(tier[r])
    /\ \A u \in Remaining(tier[r]) : t <= u
    /\ tier' = [tier EXCEPT ![r] = t]
    /\ first' = [first EXCEPT ![r] = FALSE]

\* Seeded fault: the leader does not register its slot.
LeadUnregistered(r, t) ==
    /\ Attempt(r, t)
    /\ first[r]
    /\ ~slot[key[r]]
    /\ leading' = [leading EXCEPT ![r] = TRUE]
    /\ pc' = [pc EXCEPT ![r] = "post"]
    /\ UNCHANGED <<slot, waiters, key, start, msg, heard, final>>

\* First attempt, try_lead returns None: post and tell the joiners.
Lead(r, t) ==
    /\ Attempt(r, t)
    /\ first[r]
    /\ ~slot[key[r]]
    /\ slot' = [slot EXCEPT ![key[r]] = TRUE]
    /\ leading' = [leading EXCEPT ![r] = TRUE]
    /\ pc' = [pc EXCEPT ![r] = "post"]
    /\ UNCHANGED <<waiters, key, start, msg, heard, final>>

\* First attempt, try_lead returns a receiver: wait for the leader.
Join(r, t) ==
    /\ Attempt(r, t)
    /\ first[r]
    /\ slot[key[r]]
    /\ waiters' = [waiters EXCEPT ![key[r]] = @ \cup {r}]
    /\ pc' = [pc EXCEPT ![r] = "join"]
    /\ UNCHANGED <<slot, key, start, leading, msg, heard, final>>

\* A later attempt posts on its own.
Fallback(r, t) ==
    /\ Attempt(r, t)
    /\ ~first[r]
    /\ pc' = [pc EXCEPT ![r] = "post"]
    /\ UNCHANGED <<slot, waiters, key, start, leading, msg, heard, final>>

\* Seeded fault: an error leaves the leader's block before complete runs.
PostReturnsCompletesOnSuccess(r, answer) ==
    /\ pc[r] = "post"
    /\ answer.tier = tier[r]
    /\ Apply(r, answer)
    /\ IF leading[r] /\ answer.kind # "error"
       THEN /\ slot' = [slot EXCEPT ![key[r]] = FALSE]
            /\ msg' = [q \in Requests |-> IF q \in waiters[key[r]] THEN answer ELSE msg[q]]
            /\ waiters' = [waiters EXCEPT ![key[r]] = {}]
            /\ leading' = [leading EXCEPT ![r] = FALSE]
       ELSE UNCHANGED <<slot, msg, waiters, leading>>
    /\ UNCHANGED <<key, start, first>>

(* A POST ends.  The leader removes its slot and sends the answer to every *)
(* joiner before it looks at the answer itself.                            *)
PostReturns(r, answer) ==
    /\ pc[r] = "post"
    /\ answer.tier = tier[r]
    /\ Apply(r, answer)
    /\ IF leading[r]
       THEN /\ slot' = [slot EXCEPT ![key[r]] = FALSE]
            /\ msg' = [q \in Requests |-> IF q \in waiters[key[r]] THEN answer ELSE msg[q]]
            /\ waiters' = [waiters EXCEPT ![key[r]] = {}]
            /\ leading' = [leading EXCEPT ![r] = FALSE]
       ELSE UNCHANGED <<slot, msg, waiters, leading>>
    /\ UNCHANGED <<key, start, first>>

\* The joiner is polled with the leader's answer.
Receive(r) ==
    /\ pc[r] = "join"
    /\ msg[r] # NONE
    /\ Apply(r, msg[r])
    /\ msg' = [msg EXCEPT ![r] = NONE]
    /\ UNCHANGED <<slot, waiters, key, start, first, leading>>

\* No tier is left: the cook ends failed, or with its placeholder.
Exhausted(r) ==
    /\ pc[r] = "loop"
    /\ Remaining(tier[r]) = {}
    /\ pc' = [pc EXCEPT ![r] = "done"]
    /\ UNCHANGED <<slot, waiters, key, start, tier, first, leading, msg, heard, final>>

(* The task is dropped where it awaits.  The table has no guard: a         *)
(* leader's slot stays, and so do the senders in it.                       *)
Abort(r) ==
    /\ MayAbort
    /\ pc[r] \in {"post", "join"}
    /\ pc' = [pc EXCEPT ![r] = "gone"]
    /\ msg' = [msg EXCEPT ![r] = NONE]
    /\ waiters' = [k \in Keys |-> waiters[k] \ {r}]
    /\ UNCHANGED <<slot, key, start, tier, first, leading, heard, final>>

Run(r) ==
    \/ \E t \in Configured : Lead(r, t) \/ Join(r, t) \/ Fallback(r, t)
    \/ \E a \in Answer : PostReturns(r, a)
    \/ Receive(r)
    \/ Exhausted(r)

Next == \E r \in Requests : Enter(r) \/ Run(r) \/ Abort(r)

Spec == Init /\ [][Next]_vars

(* The runtime polls tasks, and the client of post_handoff has a connect   *)
(* and a read timeout: a POST ends.                                        *)
FairSpec == Spec /\ \A r \in Requests : WF_vars(Run(r))

-----------------------------------------------------------------------------
(* Types of the table and of the cooks' local state: no cook takes a       *)
(* failure for its answer.                                                 *)
TypeOK ==
    /\ slot \in [Keys -> BOOLEAN]
    /\ waiters \in [Keys -> SUBSET Requests]
    /\ pc \in [Requests -> {"idle", "loop", "post", "join", "done", "gone"}]
    /\ key \in [Requests -> Keys]
    /\ start \in [Requests -> 0..3]
    /\ tier \in [Requests -> 0..4]
    /\ first \in [Requests -> BOOLEAN]
    /\ leading \in [Requests -> BOOLEAN]
    /\ msg \in [Requests -> Answer \cup {NONE}]
    /\ heard \in [Requests -> SUBSET {2, 3}]
    /\ final \in [Requests -> Accepted \cup {NONE}]

(* However cooks come, fall back and leave, no two of them run the         *)
(* deduplicated handoff of one key at the same time.                       *)
SingleFlight ==
    \A r, q \in Requests :
        (/\ r # q /\ key[r] = key[q]
         /\ leading[r] /\ pc[r] = "post"
         /\ leading[q]) => pc[q] # "post"

Last == CHOOSE t \in Configured : \A u \in Configured : u <= t

(* The one way past a tier: a joiner takes its leader's answer for that of *)
(* the tier it has come to itself, and the leader may be at another.       *)
Misled(r) ==
    /\ start[r] = 3 /\ Configured = {2, 3}
    /\ \E q \in Requests : key[q] = key[r] /\ start[q] \in {1, 2}

Settled(r) == final[r] = NONE \/ final[r].kind = "placeholder"

(* "try tiers in ascending order ... and escalate upward on failure", "A   *)
(* successful placeholder is not a render; let the next tier try": a cook  *)
(* that leaves the chain without a render has had the answer of the last   *)
(* tier that can be asked, from its own POST or from its leader's, however *)
(* the cooks of its key are routed, unless it came straight to tier 3 and  *)
(* a cook of its key came to tier 2.                                       *)
LastTierAsked ==
    \A r \in Requests :
        (pc[r] = "done" /\ Settled(r) /\ Configured # {}) =>
            Last \in heard[r] \/ Misled(r)

\* Only a cook that posts, or was dropped while it did, is a leader.
LeadersPost == \A r \in Requests : leading[r] => pc[r] \in {"post", "gone"}

\* The slot of a leader that posts is registered: it sends others to join.
LeaderRegistered ==
    \A r \in Requests : (pc[r] = "post" /\ leading[r]) => slot[key[r]]

\* A cook that awaits an answer has asked a tier that can be asked.
AwaitsConfigured == \A r \in Requests : pc[r] \in {"post", "join"} => tier[r] \in Configured

(* What makes SingleFlight inductive: a second leader of a key would have  *)
(* found its slot free while the first one posts.                          *)
IInv ==
    /\ TypeOK /\ LeadersPost /\ LeaderRegistered /\ AwaitsConfigured
    /\ SingleFlight

(* What makes LastTierAsked inductive: the answers that are under way come *)
(* from the first tier of a cook of the key, and no cook goes past the     *)
(* last tier before it has that tier's answer.                             *)
FirstTier(t) == CHOOSE u \in Remaining(t) : \A v \in Remaining(t) : u <= v

Started ==
    \A r \in Requests :
        /\ pc[r] = "idle" => start[r] = 0 /\ first[r]
        /\ pc[r] # "idle" => start[r] # 0
        /\ (start[r] # 0 /\ Configured # {}) => start[r] <= Last
        /\ (pc[r] = "loop" /\ first[r]) => tier[r] = start[r]
        /\ pc[r] \in {"post", "join"} => ~first[r]
        /\ pc[r] = "join" \/ (pc[r] = "post" /\ leading[r]) => tier[r] = FirstTier(start[r])

Informed ==
    /\ \A k \in Keys : \A q \in waiters[k] : key[q] = k
    /\ \A r \in Requests : msg[r] # NONE =>
          \E q \in Requests :
              /\ key[q] = key[r]
              /\ start[q] # 0
              /\ msg[r].tier \in Configured
              /\ msg[r].tier = FirstTier(start[q])

NotPast ==
    \A r \in Requests :
        (pc[r] = "loop" /\ Configured # {} /\ tier[r] > Last) => Last \in heard[r] \/ Misled(r)

EscalationInv == Started /\ Informed /\ NotPast /\ LastTierAsked

(* "joiners suspend until the leader's handoff resolves": a joiner comes   *)
(* out of its wait, whether the leader succeeds, fails or goes away.       *)
JoinersResume == \A r \in Requests : pc[r] = "join" ~> pc[r] # "join"

\* The leader that registered k's slot was dropped.
Abandoned(k) ==
    slot[k] /\ \A r \in Requests : (key[r] = k /\ leading[r]) => pc[r] = "gone"

(* Every cook that enters the chain leaves it, by way of failures,         *)
(* placeholders and the next tiers; only an abandoned slot holds it.       *)
ChainEnds ==
    \A r \in Requests :
        pc[r] = "loop" ~> (\/ pc[r] \in {"done", "gone"}
                           \/ pc[r] = "join" /\ Abandoned(key[r]))

-----------------------------------------------------------------------------
(* Statements that do not hold of the code: the README tells how.          *)

(* "A successful placeholder is not a render; let the next tier try": no   *)
(* cook settles for tier 2's placeholder while tier 3 can be asked.        *)
PlaceholderEscalates ==
    \A r \in Requests :
        (final[r] # NONE /\ final[r].kind = "placeholder" /\ 3 \in Configured) =>
            final[r].tier = 3

(* "escalate upward on failure": a cook that fails has had the answer of   *)
(* the last tier.                                                          *)
FailureEscalates ==
    \A r \in Requests :
        (pc[r] = "done" /\ final[r] = NONE /\ Configured # {}) => Last \in heard[r]
=============================================================================
