---------------------------- MODULE HandoffProofs ----------------------------
(***************************************************************************)
(* Proofs about the handoff chain, for any keys, cooks, tiers with a URL   *)
(* and routes, with cooks dropped at any await or not.  Each lemma says    *)
(* what one action does to the inductive invariant.                        *)
(***************************************************************************)
EXTENDS HandoffChain, TLAPS

\* The chain goes on from tier 3 to its end at most.
LEMMA ApplyTypes ==
    ASSUME TypeOK, AwaitsConfigured, NEW r \in Requests, pc[r] \in {"post", "join"},
           NEW answer \in Answer, Apply(r, answer)
    PROVE  /\ tier' \in [Requests -> 0..4]
           /\ pc' \in [Requests -> {"idle", "loop", "post", "join", "done", "gone"}]
           /\ final' \in [Requests -> Accepted \cup {NONE}]
           /\ heard' \in [Requests -> SUBSET {2, 3}]
           /\ pc'[r] \in {"loop", "done"}
           /\ \A q \in Requests \ {r} : pc'[q] = pc[q] /\ tier'[q] = tier[q]
<1>1. tier[r] \in {2, 3}
    BY TierAssumption DEF AwaitsConfigured
<1>4. heard' \in [Requests -> SUBSET {2, 3}]
    BY DEF Apply, TypeOK, Answer
<1>2. CASE GoesOn(tier[r], answer)
    BY <1>1, <1>2, <1>4 DEF Apply, TypeOK
<1>3. CASE ~GoesOn(tier[r], answer)
  <2>1. answer \in Accepted
      BY <1>3 DEF GoesOn, Answer, Accepted
  <2> QED BY <1>3, <1>4, <2>1 DEF Apply, TypeOK
<1> QED BY <1>2, <1>3

\* The tier of the next attempt is one that can be asked.
LEMMA AttemptTypes ==
    ASSUME TypeOK, NEW r \in Requests, NEW t \in Configured, Attempt(r, t)
    PROVE  /\ tier' \in [Requests -> 0..4]
           /\ first' \in [Requests -> BOOLEAN]
           /\ tier'[r] = t
           /\ \A q \in Requests \ {r} : tier'[q] = tier[q]
  BY TierAssumption DEF Attempt, TypeOK

LEMMA EnterInv ==
    ASSUME IInv, NEW r \in Requests, Enter(r)
    PROVE  IInv'
<1>1. PICK routed \in Routes, isImage \in BOOLEAN :
          /\ start' = [start EXCEPT ![r] = StartTier(routed, isImage)]
          /\ tier' = [tier EXCEPT ![r] = StartTier(routed, isImage)]
    BY DEF Enter
<1>2. StartTier(routed, isImage) \in 1..3
    BY TierAssumption DEF StartTier
<1>3. TypeOK'
    BY <1>1, <1>2 DEF Enter, IInv, TypeOK
<1>4. LeadersPost' /\ LeaderRegistered' /\ AwaitsConfigured' /\ SingleFlight'
    BY <1>1 DEF Enter, IInv, TypeOK, LeadersPost, LeaderRegistered, AwaitsConfigured, SingleFlight
<1> QED BY <1>3, <1>4 DEF IInv

LEMMA LeadInv ==
    ASSUME IInv, NEW r \in Requests, NEW t \in Configured, Lead(r, t)
    PROVE  IInv'
<1> USE DEF Lead
<1>1. TypeOK'
    BY AttemptTypes DEF IInv, TypeOK
<1>2. LeadersPost' /\ LeaderRegistered'
    BY DEF IInv, TypeOK, LeadersPost, LeaderRegistered
<1>3. AwaitsConfigured'
    BY AttemptTypes DEF IInv, TypeOK, AwaitsConfigured
<1>4. SingleFlight'
    BY DEF IInv, TypeOK, LeaderRegistered, SingleFlight
<1> QED BY <1>1, <1>2, <1>3, <1>4 DEF IInv

LEMMA JoinInv ==
    ASSUME IInv, NEW r \in Requests, NEW t \in Configured, Join(r, t)
    PROVE  IInv'
<1> USE DEF Join
<1>0. pc[r] = "loop"
    BY DEF Attempt
<1>1. TypeOK'
    BY AttemptTypes DEF IInv, TypeOK
<1>2. LeadersPost' /\ LeaderRegistered' /\ SingleFlight'
    BY <1>0 DEF IInv, TypeOK, LeadersPost, LeaderRegistered, SingleFlight
<1>3. AwaitsConfigured'
    BY AttemptTypes DEF IInv, TypeOK, AwaitsConfigured
<1> QED BY <1>1, <1>2, <1>3 DEF IInv

LEMMA FallbackInv ==
    ASSUME IInv, NEW r \in Requests, NEW t \in Configured, Fallback(r, t)
    PROVE  IInv'
<1> USE DEF Fallback
<1>0. pc[r] = "loop" /\ ~leading[r]
    BY DEF Attempt, IInv, LeadersPost, TypeOK
<1>1. TypeOK'
    BY AttemptTypes DEF IInv, TypeOK
<1>2. LeadersPost' /\ LeaderRegistered'
    BY <1>0 DEF IInv, TypeOK, LeadersPost, LeaderRegistered
<1>3. SingleFlight'
    BY <1>0 DEF IInv, TypeOK, LeadersPost, LeaderRegistered, SingleFlight
<1>4. AwaitsConfigured'
    BY AttemptTypes DEF IInv, TypeOK, AwaitsConfigured
<1> QED BY <1>1, <1>2, <1>3, <1>4 DEF IInv

LEMMA PostReturnsInv ==
    ASSUME IInv, NEW r \in Requests, NEW a \in Answer, PostReturns(r, a)
    PROVE  IInv'
<1> USE DEF PostReturns
<1>1. /\ tier' \in [Requests -> 0..4]
      /\ pc' \in [Requests -> {"idle", "loop", "post", "join", "done", "gone"}]
      /\ final' \in [Requests -> Accepted \cup {NONE}]
      /\ heard' \in [Requests -> SUBSET {2, 3}]
      /\ pc'[r] \in {"loop", "done"}
      /\ \A q \in Requests \ {r} : pc'[q] = pc[q] /\ tier'[q] = tier[q]
    BY ApplyTypes DEF IInv
<1>2. TypeOK'
  <2>1. slot' \in [Keys -> BOOLEAN] /\ leading' \in [Requests -> BOOLEAN]
      BY DEF IInv, TypeOK
  <2>2. waiters' \in [Keys -> SUBSET Requests]
      BY DEF IInv, TypeOK
  <2>3. msg' \in [Requests -> Answer \cup {NONE}]
      BY DEF IInv, TypeOK
  <2>4. UNCHANGED <<key, start, first>>
      OBVIOUS
  <2> QED BY <1>1, <2>1, <2>2, <2>3, <2>4 DEF IInv, TypeOK
<1>3. ~leading'[r] /\ \A q \in Requests \ {r} : leading'[q] = leading[q]
    BY DEF IInv, TypeOK
<1>4. key' = key
    OBVIOUS
<1>5. LeadersPost' /\ AwaitsConfigured' /\ SingleFlight'
  <2>1. LeadersPost'
      BY <1>1, <1>3 DEF IInv, LeadersPost
  <2>2. AwaitsConfigured'
      BY <1>1 DEF IInv, AwaitsConfigured
  <2>3. SingleFlight'
      BY <1>1, <1>3, <1>4 DEF IInv, SingleFlight
  <2> QED BY <2>1, <2>2, <2>3
<1>6. LeaderRegistered'
  <2> SUFFICES ASSUME NEW q \in Requests, pc'[q] = "post", leading'[q]
               PROVE  slot'[key'[q]]
      BY DEF LeaderRegistered
  <2>1. q # r /\ pc[q] = "post" /\ leading[q] /\ slot[key[q]]
      BY <1>1, <1>3 DEF IInv, LeaderRegistered
  <2>2. leading[r] => key[q] # key[r]
      BY <2>1 DEF IInv, SingleFlight
  <2> QED BY <2>1, <2>2 DEF IInv, TypeOK
<1> QED BY <1>2, <1>5, <1>6 DEF IInv

LEMMA ReceiveInv ==
    ASSUME IInv, NEW r \in Requests, Receive(r)
    PROVE  IInv'
<1> USE DEF Receive
<1>1. msg[r] \in Answer
    BY DEF IInv, TypeOK
<1>2. /\ tier' \in [Requests -> 0..4]
      /\ pc' \in [Requests -> {"idle", "loop", "post", "join", "done", "gone"}]
      /\ final' \in [Requests -> Accepted \cup {NONE}]
      /\ heard' \in [Requests -> SUBSET {2, 3}]
      /\ pc'[r] \in {"loop", "done"}
      /\ \A q \in Requests \ {r} : pc'[q] = pc[q] /\ tier'[q] = tier[q]
    BY <1>1, ApplyTypes DEF IInv
<1>3. TypeOK'
    BY <1>2 DEF IInv, TypeOK
<1>4. LeadersPost' /\ LeaderRegistered' /\ AwaitsConfigured' /\ SingleFlight'
    BY <1>2 DEF IInv, TypeOK, LeadersPost, LeaderRegistered, AwaitsConfigured, SingleFlight
<1> QED BY <1>3, <1>4 DEF IInv

LEMMA LeaveInv ==
    ASSUME IInv, NEW r \in Requests, Exhausted(r) \/ Abort(r)
    PROVE  IInv'
<1> USE DEF Exhausted, Abort
<1>1. TypeOK'
    BY DEF IInv, TypeOK
<1>2. LeadersPost' /\ LeaderRegistered' /\ AwaitsConfigured' /\ SingleFlight'
    BY DEF IInv, TypeOK, LeadersPost, LeaderRegistered, AwaitsConfigured, SingleFlight
<1> QED BY <1>1, <1>2 DEF IInv

LEMMA IInvHolds == Spec => []IInv
<1>1. Init => IInv
    BY DEF Init, IInv, TypeOK, LeadersPost, LeaderRegistered, AwaitsConfigured, SingleFlight
<1>2. IInv /\ [Next]_vars => IInv'
  <2> SUFFICES ASSUME IInv, [Next]_vars
               PROVE  IInv'
      OBVIOUS
  <2>1. CASE UNCHANGED vars
      BY <2>1 DEF vars, IInv, TypeOK, LeadersPost, LeaderRegistered, AwaitsConfigured, SingleFlight
  <2>2. ASSUME NEW r \in Requests, Enter(r) \/ Run(r) \/ Abort(r)
        PROVE  IInv'
      BY <2>2, EnterInv, LeadInv, JoinInv, FallbackInv, PostReturnsInv, ReceiveInv, LeaveInv
         DEF Run
  <2> QED BY <2>1, <2>2 DEF Next
<1> QED BY <1>1, <1>2, PTL DEF Spec

(* The table and the cooks keep their types: no cook ends with a failure   *)
(* as its answer, and none walks past the last tier by more than one.      *)
THEOREM Typed == Spec => []TypeOK
<1>1. IInv => TypeOK
    BY DEF IInv
<1> QED BY <1>1, IInvHolds, PTL

(* handoff.rs: the deduplicated handoff of a key runs at most once at a    *)
(* time, even with leaders and joiners dropped at their awaits.            *)
THEOREM OneFlightPerKey == Spec => []SingleFlight
<1>1. IInv => SingleFlight
    BY DEF IInv
<1> QED BY <1>1, IInvHolds, PTL

-----------------------------------------------------------------------------
\* Where the tiers are that can be asked.
LEMMA LastTier ==
    ASSUME Configured # {}
    PROVE  /\ Last \in Configured
           /\ \A u \in Configured : u <= Last
           /\ Last \in {2, 3}
<1>1. \A u \in Configured : u \in {2, 3}
    BY TierAssumption
<1>2. PICK some \in Configured : TRUE
    OBVIOUS
<1>3. \E t \in Configured : \A u \in Configured : u <= t
  <2>1. CASE 3 \in Configured
    <3>1. \A u \in Configured : u <= 3
        BY <1>1
    <3> QED BY <2>1, <3>1
  <2>2. CASE 3 \notin Configured
    <3>1. \A u \in Configured : u = 2
        BY <1>1, <2>2
    <3>2. 2 \in Configured
        BY <1>2, <3>1
    <3> QED BY <3>1, <3>2
  <2> QED BY <2>1, <2>2
<1>4. Last \in Configured /\ \A u \in Configured : u <= Last
    BY <1>3 DEF Last
<1> QED BY <1>1, <1>4

LEMMA FirstOfRemaining ==
    ASSUME NEW n \in Nat, NEW t \in Remaining(n), \A u \in Remaining(n) : t <= u
    PROVE  t = FirstTier(n)
<1>1. FirstTier(n) \in Remaining(n) /\ \A u \in Remaining(n) : FirstTier(n) <= u
    BY DEF FirstTier
<1>2. FirstTier(n) <= t /\ t <= FirstTier(n)
    BY <1>1
<1>3. \A u \in Configured : u \in Nat
    BY TierAssumption
<1>4. FirstTier(n) \in Configured /\ t \in Configured
    BY <1>1 DEF Remaining
<1>5. FirstTier(n) \in Nat /\ t \in Nat
    BY <1>3, <1>4
<1> QED BY <1>2, <1>5

LEMMA StartsWithin ==
    ASSUME NEW routed \in Routes, NEW isImage
    PROVE  /\ StartTier(routed, isImage) \in 1..3
           /\ Configured # {} => StartTier(routed, isImage) <= Last
<1>1. StartTier(routed, isImage) \in 1..3
    BY TierAssumption DEF StartTier
<1>2. ASSUME Configured # {} PROVE StartTier(routed, isImage) <= Last
  <2>1. Last \in {2, 3} /\ \A u \in Configured : u <= Last
      BY <1>2, LastTier, TierAssumption
  <2>2. routed \in {1, 2, 3}
      BY TierAssumption
  <2>3. CASE routed \in {1, 2}
      BY <2>1, <2>3 DEF StartTier
  <2>4. CASE routed = 3 /\ 3 \in Configured
      BY <2>1, <2>4 DEF StartTier
  <2>5. CASE routed = 3 /\ 3 \notin Configured
    <3>1. 2 \in Configured
        BY <1>2, <2>5, TierAssumption
    <3> QED BY <2>1, <2>5, <3>1 DEF StartTier
  <2> QED BY <2>2, <2>3, <2>4, <2>5
<1> QED BY <1>1, <1>2

\* A cook that was misled stays so.
LEMMA MisledStays ==
    ASSUME NEW r \in Requests, Misled(r), UNCHANGED key, start'[r] = start[r],
           \A q \in Requests : start[q] # 0 => start'[q] = start[q]
    PROVE  Misled(r)'
  BY DEF Misled

(* What an answer does to a cook: it comes from the tier the cook has come *)
(* to, or the cook was misled.                                             *)
LEMMA ApplyAsks ==
    ASSUME TypeOK, NotPast, LastTierAsked, NEW r \in Requests, NEW answer \in Answer,
           pc[r] \in {"post", "join"}, tier[r] \in Configured, answer.tier \in Configured,
           answer.tier = tier[r] \/ Misled(r) \/ tier[r] = 2,
           Apply(r, answer), UNCHANGED <<key, start>>
    PROVE  NotPast' /\ LastTierAsked'
<1>1. /\ heard'[r] = heard[r] \cup {answer.tier}
      /\ \A q \in Requests \ {r} : heard'[q] = heard[q] /\ pc'[q] = pc[q]
                                   /\ tier'[q] = tier[q] /\ final'[q] = final[q]
    BY DEF Apply, TypeOK
<1>2. \A q \in Requests : Misled(q)' = Misled(q)
    BY DEF Misled
<1>3. /\ Last \in Configured /\ \A u \in Configured : u <= Last
      /\ tier[r] \in {2, 3} /\ answer.tier \in {2, 3} /\ Last \in {2, 3}
    BY LastTier, TierAssumption
<1>4. CASE GoesOn(tier[r], answer)
  <2>1. pc'[r] = "loop" /\ tier'[r] = tier[r] + 1
      BY <1>4 DEF Apply, TypeOK
  <2>2. tier'[r] > Last => tier[r] = Last
      BY <1>3, <2>1
  <2>3. tier[r] = Last => Last \in heard'[r] \/ Misled(r)
      BY <1>1, <1>3
  <2> QED BY <1>1, <1>2, <2>1, <2>2, <2>3 DEF NotPast, LastTierAsked, Settled
<1>5. CASE ~GoesOn(tier[r], answer)
  <2>1. pc'[r] = "done" /\ final'[r] = answer /\ answer.kind \in {"render", "placeholder"}
      BY <1>5 DEF Apply, TypeOK, GoesOn, Answer
  <2>2. answer.kind = "placeholder" => tier[r] = Last
      BY <1>3, <1>5 DEF GoesOn
  <2>3. (tier[r] = Last /\ ~Misled(r)) => Last \in heard'[r]
      BY <1>1, <1>3
  <2>4. Settled(r)' => answer.kind = "placeholder"
      BY <2>1, NoneAssumption DEF Settled
  <2> QED BY <1>1, <1>2, <2>1, <2>2, <2>3, <2>4 DEF NotPast, LastTierAsked, Settled
<1> QED BY <1>4, <1>5

\* A cook that comes to the chain.
LEMMA EnterAsks ==
    ASSUME IInv, EscalationInv, NEW r \in Requests, Enter(r)
    PROVE  EscalationInv'
<1>1. PICK t \in 1..3 : /\ start' = [start EXCEPT ![r] = t]
                        /\ tier' = [tier EXCEPT ![r] = t]
                        /\ Configured # {} => t <= Last
    BY StartsWithin DEF Enter
<1>2. /\ pc[r] = "idle" /\ pc' = [pc EXCEPT ![r] = "loop"]
      /\ UNCHANGED <<slot, waiters, key, first, leading, msg, heard, final>>
    BY DEF Enter
<1>3. start[r] = 0 /\ first[r]
    BY <1>2 DEF EscalationInv, Started
<1>4. /\ start'[r] = t /\ tier'[r] = t /\ pc'[r] = "loop"
      /\ \A q \in Requests \ {r} : start'[q] = start[q] /\ tier'[q] = tier[q] /\ pc'[q] = pc[q]
    BY <1>1, <1>2 DEF IInv, TypeOK
<1>5. Started'
    BY <1>1, <1>2, <1>3, <1>4 DEF EscalationInv, Started
<1>6. Informed'
    BY <1>2, <1>3, <1>4 DEF EscalationInv, Informed
<1>7. \A q \in Requests \ {r} : Misled(q) => Misled(q)'
    BY <1>2, <1>3, <1>4, MisledStays
<1>8. NotPast'
  <2>1. Configured # {} => Last \in Nat
      BY LastTier
  <2>2. Configured # {} => ~(tier'[r] > Last)
      BY <1>1, <1>4, <2>1
  <2>3. heard' = heard
      BY <1>2
  <2> SUFFICES ASSUME NEW q \in Requests, pc'[q] = "loop", Configured # {}, tier'[q] > Last
               PROVE  Last \in heard'[q] \/ Misled(q)'
      BY DEF NotPast
  <2>4. q # r /\ pc[q] = "loop" /\ tier[q] > Last
      BY <1>4, <2>2
  <2>5. Last \in heard[q] \/ Misled(q)
      BY <2>4 DEF EscalationInv, NotPast
  <2> QED BY <1>7, <2>3, <2>4, <2>5
<1>9. LastTierAsked'
    BY <1>2, <1>4, <1>7 DEF EscalationInv, LastTierAsked, Settled
<1> QED BY <1>5, <1>6, <1>8, <1>9 DEF EscalationInv

\* A cook that makes an attempt.
LEMMA AttemptAsks ==
    ASSUME IInv, EscalationInv, NEW r \in Requests, NEW t \in Configured,
           Lead(r, t) \/ Join(r, t) \/ Fallback(r, t)
    PROVE  EscalationInv'
<1>1. /\ pc[r] = "loop" /\ pc'[r] \in {"post", "join"}
      /\ \A q \in Requests \ {r} : pc'[q] = pc[q] /\ first'[q] = first[q] /\ tier'[q] = tier[q]
                                   /\ leading'[q] = leading[q]
      /\ tier'[r] = t /\ ~first'[r]
      /\ UNCHANGED <<key, start, msg, heard, final>>
    BY AttemptTypes DEF Lead, Join, Fallback, Attempt, IInv, TypeOK
<1>2. first[r] => t = FirstTier(start[r])
  <2>1. t \in Remaining(tier[r]) /\ \A u \in Remaining(tier[r]) : t <= u
      BY DEF Lead, Join, Fallback, Attempt
  <2>2. tier[r] \in Nat
      BY DEF IInv, TypeOK
  <2>3. t = FirstTier(tier[r])
      BY <2>1, <2>2, FirstOfRemaining
  <2> QED BY <1>1, <2>3 DEF EscalationInv, Started
<1>3. pc'[r] = "join" \/ leading'[r] => first[r]
  <2>1. ~leading[r]
      BY <1>1 DEF IInv, LeadersPost
  <2>2. Fallback(r, t) => pc'[r] = "post" /\ leading' = leading
      BY DEF Fallback, IInv, TypeOK
  <2>3. Lead(r, t) \/ Join(r, t) => first[r]
      BY DEF Lead, Join
  <2> QED BY <2>1, <2>2, <2>3
<1>4. Started'
  <2> SUFFICES ASSUME NEW q \in Requests
               PROVE  /\ pc'[q] = "idle" => start'[q] = 0 /\ first'[q]
                      /\ pc'[q] # "idle" => start'[q] # 0
                      /\ (start'[q] # 0 /\ Configured # {}) => start'[q] <= Last
                      /\ (pc'[q] = "loop" /\ first'[q]) => tier'[q] = start'[q]
                      /\ pc'[q] \in {"post", "join"} => ~first'[q]
                      /\ pc'[q] = "join" \/ (pc'[q] = "post" /\ leading'[q]) =>
                            tier'[q] = FirstTier(start'[q])
      BY DEF Started
  <2>1. CASE q = r
      BY <1>1, <1>2, <1>3, <2>1 DEF EscalationInv, Started
  <2>2. CASE q # r
      BY <1>1, <2>2 DEF EscalationInv, Started
  <2> QED BY <2>1, <2>2
<1>5. Informed'
  <2>1. \A k \in Keys : \A q \in waiters'[k] : key[q] = k
      BY DEF Lead, Join, Fallback, IInv, TypeOK, EscalationInv, Informed
  <2> QED BY <1>1, <2>1 DEF EscalationInv, Informed
<1>6. \A q \in Requests : Misled(q)' = Misled(q)
    BY <1>1 DEF Misled
<1>7. NotPast' /\ LastTierAsked'
    BY <1>1, <1>6 DEF EscalationInv, NotPast, LastTierAsked, Settled
<1> QED BY <1>4, <1>5, <1>7 DEF EscalationInv

\* A cook that has an answer, of its own POST or of its leader's.
LEMMA AnswerAsks ==
    ASSUME IInv, EscalationInv, NEW r \in Requests,
           Receive(r) \/ \E a \in Answer : PostReturns(r, a)
    PROVE  EscalationInv'
<1>1. tier[r] \in Configured /\ pc[r] \in {"post", "join"} /\ tier[r] \in {2, 3}
    BY TierAssumption DEF Receive, PostReturns, IInv, AwaitsConfigured
<1>2. PICK a \in Answer : /\ Apply(r, a) /\ a.tier \in Configured
                          /\ a.tier = tier[r] \/ Misled(r) \/ tier[r] = 2
                          /\ \/ PostReturns(r, a) /\ a.tier = tier[r]
                             \/ Receive(r)
  <2>1. ASSUME NEW a \in Answer, PostReturns(r, a)
        PROVE  Apply(r, a) /\ a.tier \in Configured /\ a.tier = tier[r]
      BY <1>1, <2>1 DEF PostReturns
  <2>2. ASSUME Receive(r)
        PROVE  /\ msg[r] \in Answer /\ Apply(r, msg[r]) /\ msg[r].tier \in Configured
               /\ msg[r].tier = tier[r] \/ Misled(r) \/ tier[r] = 2
    <3>1. msg[r] \in Answer /\ Apply(r, msg[r]) /\ pc[r] = "join"
        BY <2>2 DEF Receive, IInv, TypeOK
    <3>2. PICK q \in Requests : /\ key[q] = key[r] /\ start[q] # 0
                                /\ msg[r].tier \in Configured
                                /\ msg[r].tier = FirstTier(start[q])
        BY <2>2 DEF Receive, EscalationInv, Informed
    <3>3. tier[r] = FirstTier(start[r]) /\ start[r] # 0
        BY <3>1 DEF EscalationInv, Started
    <3>4. ASSUME msg[r].tier # tier[r], tier[r] # 2
          PROVE  Misled(r)
      <4>1. msg[r].tier = 2 /\ tier[r] = 3 /\ Configured = {2, 3}
          BY <1>1, <3>2, <3>4, TierAssumption
      <4>2. start[r] \in 1..3 /\ start[q] \in 1..3
          BY <3>2, <3>3 DEF IInv, TypeOK
      <4>3. ASSUME NEW n \in 1..2 PROVE 2 = FirstTier(n)
        <5>1. 2 \in Remaining(n) /\ \A u \in Remaining(n) : 2 <= u
            BY <4>1 DEF Remaining
        <5> QED BY <5>1, FirstOfRemaining
      <4>4. 3 = FirstTier(3)
        <5>1. 3 \in Remaining(3) /\ \A u \in Remaining(3) : 3 <= u
            BY <4>1 DEF Remaining
        <5> QED BY <5>1, FirstOfRemaining
      <4>5. start[r] = 3
        <5>1. start[r] \in 1..2 => tier[r] = 2
            BY <3>3, <4>3
        <5> QED BY <4>1, <4>2, <5>1
      <4>6. start[q] \in {1, 2}
        <5>1. start[q] = 3 => msg[r].tier = 3
            BY <3>2, <4>4
        <5> QED BY <4>1, <4>2, <5>1
      <4> QED BY <3>2, <4>1, <4>5, <4>6 DEF Misled
    <3> QED BY <3>1, <3>2, <3>4
  <2> QED BY <2>1, <2>2
<1>3. UNCHANGED <<key, start, first>>
    BY <1>2 DEF PostReturns, Receive
<1>4. /\ pc'[r] \in {"loop", "done"}
      /\ \A q \in Requests \ {r} : pc'[q] = pc[q] /\ tier'[q] = tier[q]
    BY <1>1, <1>2, ApplyTypes DEF IInv
<1>5. NotPast' /\ LastTierAsked'
    BY <1>1, <1>2, <1>3, ApplyAsks DEF IInv, EscalationInv
<1>6. \A q \in Requests \ {r} : leading'[q] = leading[q]
    BY <1>2 DEF PostReturns, Receive, IInv, TypeOK
<1>7. ~first[r] /\ start[r] # 0
    BY <1>1 DEF EscalationInv, Started
<1>8. Started'
  <2> SUFFICES ASSUME NEW q \in Requests
               PROVE  /\ pc'[q] = "idle" => start'[q] = 0 /\ first'[q]
                      /\ pc'[q] # "idle" => start'[q] # 0
                      /\ (start'[q] # 0 /\ Configured # {}) => start'[q] <= Last
                      /\ (pc'[q] = "loop" /\ first'[q]) => tier'[q] = start'[q]
                      /\ pc'[q] \in {"post", "join"} => ~first'[q]
                      /\ pc'[q] = "join" \/ (pc'[q] = "post" /\ leading'[q]) =>
                            tier'[q] = FirstTier(start'[q])
      BY DEF Started
  <2>1. CASE q = r
      BY <1>3, <1>4, <1>7, <2>1 DEF EscalationInv, Started
  <2>2. CASE q # r
      BY <1>3, <1>4, <1>6, <2>2 DEF EscalationInv, Started
  <2> QED BY <2>1, <2>2
<1>9. Informed'
  <2>1. CASE Receive(r)
      BY <1>3, <2>1 DEF Receive, IInv, TypeOK, EscalationInv, Informed
  <2>2. CASE PostReturns(r, a) /\ a.tier = tier[r] /\ ~leading[r]
      BY <1>3, <2>2 DEF PostReturns, EscalationInv, Informed
  <2>3. CASE PostReturns(r, a) /\ a.tier = tier[r] /\ leading[r]
    <3>1. /\ waiters' = [waiters EXCEPT ![key[r]] = {}]
          /\ msg' = [q \in Requests |-> IF q \in waiters[key[r]] THEN a ELSE msg[q]]
          /\ tier[r] = FirstTier(start[r]) /\ key[r] \in Keys
        BY <2>3 DEF PostReturns, EscalationInv, Started, IInv, TypeOK
    <3>2. \A k \in Keys : \A q \in waiters'[k] : key[q] = k
        BY <3>1 DEF IInv, TypeOK, EscalationInv, Informed
    <3>3. \A q \in waiters[key[r]] : key[q] = key[r]
        BY <3>1 DEF EscalationInv, Informed
    <3> QED BY <1>2, <1>3, <1>7, <2>3, <3>1, <3>2, <3>3 DEF EscalationInv, Informed
  <2> QED BY <1>2, <2>1, <2>2, <2>3
<1> QED BY <1>5, <1>8, <1>9 DEF EscalationInv

\* A cook that has no tier left, or is dropped.
LEMMA LeaveAsks ==
    ASSUME IInv, EscalationInv, NEW r \in Requests, Exhausted(r) \/ Abort(r)
    PROVE  EscalationInv'
<1>1. /\ pc[r] # "idle"
      /\ \/ pc[r] = "loop" /\ Remaining(tier[r]) = {} /\ pc' = [pc EXCEPT ![r] = "done"]
            /\ UNCHANGED <<waiters, msg>>
         \/ /\ pc' = [pc EXCEPT ![r] = "gone"]
            /\ msg' = [msg EXCEPT ![r] = NONE]
            /\ waiters' = [k \in Keys |-> waiters[k] \ {r}]
      /\ UNCHANGED <<key, start, tier, first, leading, heard, final>>
    BY DEF Exhausted, Abort
<1>2. Started'
    BY <1>1 DEF IInv, TypeOK, EscalationInv, Started
<1>3. Informed'
    BY <1>1 DEF IInv, TypeOK, EscalationInv, Informed
<1>4. \A q \in Requests : Misled(q)' = Misled(q)
    BY <1>1 DEF Misled
<1>5. NotPast'
    BY <1>1, <1>4 DEF IInv, TypeOK, EscalationInv, NotPast
<1>6. LastTierAsked'
  <2>1. ASSUME pc[r] = "loop", Remaining(tier[r]) = {}, Configured # {}
        PROVE  Last \in heard[r] \/ Misled(r)
    <3>1. tier[r] > Last
      <4>1. Last \in Configured /\ Last \in Nat /\ tier[r] \in Nat
        <5>1. tier[r] \in Nat
            BY DEF IInv, TypeOK
        <5> QED BY <2>1, <5>1, LastTier
      <4>2. ~(Last >= tier[r])
          BY <2>1, <4>1 DEF Remaining
      <4> QED BY <4>1, <4>2
    <3> QED BY <2>1, <3>1 DEF EscalationInv, NotPast
  <2> QED BY <1>1, <1>4, <2>1 DEF IInv, TypeOK, EscalationInv, LastTierAsked, Settled
<1> QED BY <1>2, <1>3, <1>5, <1>6 DEF EscalationInv

(* cook.rs: a cook that leaves the chain without a render has had the      *)
(* answer of the last tier that can be asked, for any tiers, routes and    *)
(* drops; only a cook that came straight to tier 3 can have taken, for it, *)
(* the answer a leader had from tier 2.                                    *)
THEOREM LastTierIsAsked == Spec => []LastTierAsked
<1>1. Init => EscalationInv
    BY DEF Init, EscalationInv, Started, Informed, NotPast, LastTierAsked
<1>2. IInv /\ EscalationInv /\ [Next]_vars => EscalationInv'
  <2> SUFFICES ASSUME IInv, EscalationInv, [Next]_vars
               PROVE  EscalationInv'
      OBVIOUS
  <2>1. CASE UNCHANGED vars
      BY <2>1 DEF vars, EscalationInv, Started, Informed, NotPast, LastTierAsked, Misled, Settled
  <2>2. ASSUME NEW r \in Requests, Enter(r) \/ Run(r) \/ Abort(r)
        PROVE  EscalationInv'
      BY <2>2, EnterAsks, AttemptAsks, AnswerAsks, LeaveAsks DEF Run
  <2> QED BY <2>1, <2>2 DEF Next
<1>3. EscalationInv => LastTierAsked
    BY DEF EscalationInv
<1> QED BY <1>1, <1>2, <1>3, IInvHolds, PTL DEF Spec
=============================================================================
