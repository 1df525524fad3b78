--------------------------- MODULE DebounceProofs ---------------------------
(***************************************************************************)
(* Proofs about the debounce frontend, for any keys, requests, ids and     *)
(* hints.  IInv is inductive: the lemmas take the actions one at a time,   *)
(* the theorems read the properties off IInv or off one step from a state  *)
(* where it holds.                                                         *)
(***************************************************************************)
EXTENDS Debounce, TLAPS

\* A slot stays a slot when a sender is taken out of it.
LEMMA SlotWithoutWaiter ==
    ASSUME NEW s \in Slot, NEW w
    PROVE  [s EXCEPT !.waiters = @ \ {w}] \in Slot
  BY DEF Slot

\* A request that reaches debounce_lookup touches nothing shared.
LEMMA ArriveInv ==
    ASSUME IInv, NEW r \in Requests, Arrive(r)
    PROVE  IInv'
<1> USE DEF Arrive, locals
<1>1. TypeOK'
    BY NoneAssumption DEF IInv, TypeOK, Slot, Result, FinalResult
<1>2. LeaderIdsDiffer'
    BY NoneAssumption DEF IInv, LeaderIdsDiffer, Leaders, TypeOK, SlotOwnerIsLast, Slot
<1>3. SlotOwnerIsLast'
    BY NoneAssumption DEF IInv, SlotOwnerIsLast, Leaders, TypeOK, LeaderIdsDiffer, Slot
<1>4. JoinedItsLeader'
    BY NoneAssumption DEF IInv, JoinedItsLeader, Leaders, TypeOK, LeaderIdsDiffer, SlotOwnerIsLast, Slot
<1>5. SendersWait'
    BY NoneAssumption DEF IInv, SendersWait, TypeOK, JoinedItsLeader, Leaders, LeaderIdsDiffer, SlotOwnerIsLast, Slot, Result, FinalResult
<1>6. OnlyPublishedTravels'
    BY NoneAssumption DEF IInv, OnlyPublishedTravels, PublishedBy, TypeOK, SendersWait, NoEarlyOutcome, Slot, Result, FinalResult
<1>7. NoEarlyOutcome'
    BY NoneAssumption DEF IInv, NoEarlyOutcome, TypeOK, Slot, Result, FinalResult
<1>8. DeliveredByOwnLeader'
    BY NoneAssumption DEF IInv, DeliveredByOwnLeader, TypeOK, OnlyPublishedTravels, PublishedBy, SendersWait, Slot, Result, FinalResult
<1> QED BY <1>1, <1>2, <1>3, <1>4, <1>5, <1>6, <1>7, <1>8 DEF IInv

\* The TTL of the sticky cache only forgets published results.
LEMMA StickyExpireInv ==
    ASSUME IInv, NEW k \in Keys, StickyExpire(k)
    PROVE  IInv'
<1> USE DEF StickyExpire, locals
<1>1. TypeOK'
    BY NoneAssumption DEF IInv, TypeOK, Slot, Result, FinalResult
<1>2. LeaderIdsDiffer'
    BY NoneAssumption DEF IInv, LeaderIdsDiffer, Leaders, TypeOK, SlotOwnerIsLast, Slot
<1>3. SlotOwnerIsLast'
    BY NoneAssumption DEF IInv, SlotOwnerIsLast, Leaders, TypeOK, LeaderIdsDiffer, Slot
<1>4. JoinedItsLeader'
    BY NoneAssumption DEF IInv, JoinedItsLeader, Leaders, TypeOK, LeaderIdsDiffer, SlotOwnerIsLast, Slot
<1>5. SendersWait'
    BY NoneAssumption DEF IInv, SendersWait, TypeOK, JoinedItsLeader, Leaders, LeaderIdsDiffer, SlotOwnerIsLast, Slot, Result, FinalResult
<1>6. OnlyPublishedTravels'
    BY NoneAssumption DEF IInv, OnlyPublishedTravels, PublishedBy, TypeOK, SendersWait, NoEarlyOutcome, Slot, Result, FinalResult
<1>7. NoEarlyOutcome'
    BY NoneAssumption DEF IInv, NoEarlyOutcome, TypeOK, Slot, Result, FinalResult
<1>8. DeliveredByOwnLeader'
    BY NoneAssumption DEF IInv, DeliveredByOwnLeader, TypeOK, OnlyPublishedTravels, PublishedBy, SendersWait, Slot, Result, FinalResult
<1> QED BY <1>1, <1>2, <1>3, <1>4, <1>5, <1>6, <1>7, <1>8 DEF IInv

\* A sticky hit hands out a published result.
LEMMA LookupHitInv ==
    ASSUME IInv, NEW r \in Requests, LookupHit(r)
    PROVE  IInv'
<1> USE DEF LookupHit, locals, StickyHit, debounce_matches
<1>1. TypeOK'
    BY NoneAssumption DEF IInv, TypeOK, Slot, Result, FinalResult
<1>2. LeaderIdsDiffer'
    BY NoneAssumption DEF IInv, LeaderIdsDiffer, Leaders, TypeOK, SlotOwnerIsLast, Slot
<1>3. SlotOwnerIsLast'
    BY NoneAssumption DEF IInv, SlotOwnerIsLast, Leaders, TypeOK, LeaderIdsDiffer, Slot
<1>4. JoinedItsLeader'
    BY NoneAssumption DEF IInv, JoinedItsLeader, Leaders, TypeOK, LeaderIdsDiffer, SlotOwnerIsLast, Slot
<1>5. SendersWait'
    BY NoneAssumption DEF IInv, SendersWait, TypeOK, JoinedItsLeader, Leaders, LeaderIdsDiffer, SlotOwnerIsLast, Slot, Result, FinalResult
<1>6. OnlyPublishedTravels'
    BY NoneAssumption DEF IInv, OnlyPublishedTravels, PublishedBy, TypeOK, SendersWait, NoEarlyOutcome, Slot, Result, FinalResult
<1>7. NoEarlyOutcome'
    BY NoneAssumption DEF IInv, NoEarlyOutcome, TypeOK, Slot, Result, FinalResult
<1>8. DeliveredByOwnLeader'
    BY NoneAssumption DEF IInv, DeliveredByOwnLeader, TypeOK, OnlyPublishedTravels, PublishedBy, SendersWait, Slot, Result, FinalResult
<1> QED BY <1>1, <1>2, <1>3, <1>4, <1>5, <1>6, <1>7, <1>8 DEF IInv

\* A joiner adds its sender to the slot whose id it then refers to.
LEMMA LookupJoinInv ==
    ASSUME IInv, NEW r \in Requests, LookupJoin(r)
    PROVE  IInv'
<1> USE DEF LookupJoin, locals, StickyHit
<1>1. TypeOK'
    BY NoneAssumption DEF IInv, TypeOK, Slot, Result, FinalResult
<1>2. LeaderIdsDiffer'
    BY NoneAssumption DEF IInv, LeaderIdsDiffer, Leaders, TypeOK, SlotOwnerIsLast, Slot
<1>3. SlotOwnerIsLast'
    BY NoneAssumption DEF IInv, SlotOwnerIsLast, Leaders, TypeOK, LeaderIdsDiffer, Slot
<1>4. JoinedItsLeader'
    BY NoneAssumption DEF IInv, JoinedItsLeader, Leaders, TypeOK, LeaderIdsDiffer, SlotOwnerIsLast, Slot
<1>5. SendersWait'
    BY NoneAssumption DEF IInv, SendersWait, TypeOK, JoinedItsLeader, Leaders, LeaderIdsDiffer, SlotOwnerIsLast, Slot, Result, FinalResult
<1>6. OnlyPublishedTravels'
    BY NoneAssumption DEF IInv, OnlyPublishedTravels, PublishedBy, TypeOK, SendersWait, NoEarlyOutcome, Slot, Result, FinalResult
<1>7. NoEarlyOutcome'
    BY NoneAssumption DEF IInv, NoEarlyOutcome, TypeOK, Slot, Result, FinalResult
<1>8. DeliveredByOwnLeader'
  <2> SUFFICES ASSUME NEW q \in Requests, pc'[q] = "wait", msg'[q] # NONE
               PROVE  /\ key'[msg'[q].by] = key'[q]
                      /\ term'[msg'[q].by] = term'[q]
      BY DEF DeliveredByOwnLeader
  <2>1. q # r /\ pc[q] = "wait" /\ msg'[q] = msg[q]
      BY DEF IInv, TypeOK
  <2>2. msg[q].by \in Requests
      BY <2>1 DEF IInv, TypeOK, Result, FinalResult
  <2>3. msg[q].by # r
      BY <2>1 DEF IInv, OnlyPublishedTravels, PublishedBy
  <2> QED
      BY <2>1, <2>2, <2>3 DEF IInv, TypeOK, DeliveredByOwnLeader
<1> QED BY <1>1, <1>2, <1>3, <1>4, <1>5, <1>6, <1>7, <1>8 DEF IInv

\* A new leader takes an id nobody refers to.
LEMMA LookupLeadInv ==
    ASSUME IInv, NEW r \in Requests, NEW i \in Ids, LookupLead(r, i)
    PROVE  IInv'
<1> USE DEF LookupLead, locals, StickyHit, LiveIds
<1>1. TypeOK'
    BY NoneAssumption DEF IInv, TypeOK, Slot, Result, FinalResult
<1>2. LeaderIdsDiffer'
    BY NoneAssumption DEF IInv, LeaderIdsDiffer, Leaders, TypeOK, SlotOwnerIsLast, Slot
<1>3. SlotOwnerIsLast'
    BY NoneAssumption DEF IInv, SlotOwnerIsLast, Leaders, TypeOK, LeaderIdsDiffer, Slot
<1>4. JoinedItsLeader'
    BY NoneAssumption DEF IInv, JoinedItsLeader, Leaders, TypeOK, LeaderIdsDiffer, SlotOwnerIsLast, Slot
<1>5. SendersWait'
    BY NoneAssumption DEF IInv, SendersWait, TypeOK, JoinedItsLeader, Leaders, LeaderIdsDiffer, SlotOwnerIsLast, Slot, Result, FinalResult
<1>6. OnlyPublishedTravels'
    BY NoneAssumption DEF IInv, OnlyPublishedTravels, PublishedBy, TypeOK, SendersWait, NoEarlyOutcome, Slot, Result, FinalResult
<1>7. NoEarlyOutcome'
    BY NoneAssumption DEF IInv, NoEarlyOutcome, TypeOK, Slot, Result, FinalResult
<1>8. DeliveredByOwnLeader'
  <2> SUFFICES ASSUME NEW q \in Requests, pc'[q] = "wait", msg'[q] # NONE
               PROVE  /\ key'[msg'[q].by] = key'[q]
                      /\ term'[msg'[q].by] = term'[q]
      BY DEF DeliveredByOwnLeader
  <2>1. q # r /\ pc[q] = "wait" /\ msg'[q] = msg[q]
      BY DEF IInv, TypeOK
  <2>2. msg[q].by \in Requests
      BY <2>1 DEF IInv, TypeOK, Result, FinalResult
  <2>3. msg[q].by # r
      BY <2>1 DEF IInv, OnlyPublishedTravels, PublishedBy
  <2> QED
      BY <2>1, <2>2, <2>3 DEF IInv, TypeOK, DeliveredByOwnLeader
<1> QED BY <1>1, <1>2, <1>3, <1>4, <1>5, <1>6, <1>7, <1>8 DEF IInv

\* A delivered result ends the wait, or sends the joiner back to lookup.
LEMMA ReceiveInv ==
    ASSUME IInv, NEW r \in Requests, Receive(r)
    PROVE  IInv'
<1> USE DEF Receive, locals
<1>1. TypeOK'
  <2>1. FinalResult \subseteq Result
      BY DEF FinalResult
  <2>2. outcome' \in [Requests -> Result \cup {NONE}]
      BY <2>1 DEF IInv, TypeOK
  <2>3. /\ msg' \in [Requests -> FinalResult \cup {NONE}]
        /\ id' \in [Requests -> Ids \cup {NONE}]
      BY DEF IInv, TypeOK
  <2> QED BY <2>2, <2>3 DEF IInv, TypeOK
<1>2. LeaderIdsDiffer'
    BY NoneAssumption DEF IInv, LeaderIdsDiffer, Leaders, TypeOK, SlotOwnerIsLast, Slot
<1>3. SlotOwnerIsLast'
    BY NoneAssumption DEF IInv, SlotOwnerIsLast, Leaders, TypeOK, LeaderIdsDiffer, Slot
<1>4. JoinedItsLeader'
    BY NoneAssumption DEF IInv, JoinedItsLeader, Leaders, TypeOK, LeaderIdsDiffer, SlotOwnerIsLast, Slot
<1>5. SendersWait'
    BY NoneAssumption DEF IInv, SendersWait, TypeOK, JoinedItsLeader, Leaders, LeaderIdsDiffer, SlotOwnerIsLast, Slot, Result, FinalResult
<1>6. OnlyPublishedTravels'
  <2>1. ASSUME NEW res, NEW k \in Keys, PublishedBy(res, k)
        PROVE  PublishedBy(res, k)'
    <3>1. res.by \in Requests
        BY <2>1 DEF IInv, TypeOK, PublishedBy, Result, FinalResult
    <3> QED
        BY <2>1, <3>1 DEF IInv, TypeOK, PublishedBy
  <2>2. ASSUME NEW k \in Keys, sticky'[k] # NONE
        PROVE  PublishedBy(sticky[k], k)'
      BY <2>1, <2>2 DEF IInv, TypeOK, OnlyPublishedTravels
  <2>3. ASSUME NEW l \in Requests, pc'[l] = "notify"
        PROVE  outcome'[l] # NONE /\ outcome'[l].by = l /\ PublishedBy(outcome[l], key[l])'
      BY <2>1, <2>3 DEF IInv, TypeOK, OnlyPublishedTravels
  <2>4. ASSUME NEW q \in Requests, msg'[q] # NONE
        PROVE  PublishedBy(msg[q], key[q])'
      BY <2>1, <2>4 DEF IInv, TypeOK, OnlyPublishedTravels
  <2> QED BY <2>2, <2>3, <2>4 DEF OnlyPublishedTravels
<1>7. NoEarlyOutcome'
    BY NoneAssumption DEF IInv, NoEarlyOutcome, TypeOK, Slot, Result, FinalResult
<1>8. DeliveredByOwnLeader'
    BY NoneAssumption DEF IInv, DeliveredByOwnLeader, TypeOK, OnlyPublishedTravels, PublishedBy, SendersWait, Slot, Result, FinalResult
<1> QED BY <1>1, <1>2, <1>3, <1>4, <1>5, <1>6, <1>7, <1>8 DEF IInv

\* A closed channel sends the joiner back to lookup.
LEMMA ReceiveClosedInv ==
    ASSUME IInv, NEW r \in Requests, ReceiveClosed(r)
    PROVE  IInv'
<1> USE DEF ReceiveClosed, locals, SenderAlive
<1>1. TypeOK'
    BY NoneAssumption DEF IInv, TypeOK, Slot, Result, FinalResult
<1>2. LeaderIdsDiffer'
    BY NoneAssumption DEF IInv, LeaderIdsDiffer, Leaders, TypeOK, SlotOwnerIsLast, Slot
<1>3. SlotOwnerIsLast'
    BY NoneAssumption DEF IInv, SlotOwnerIsLast, Leaders, TypeOK, LeaderIdsDiffer, Slot
<1>4. JoinedItsLeader'
    BY NoneAssumption DEF IInv, JoinedItsLeader, Leaders, TypeOK, LeaderIdsDiffer, SlotOwnerIsLast, Slot
<1>5. SendersWait'
    BY NoneAssumption DEF IInv, SendersWait, TypeOK, JoinedItsLeader, Leaders, LeaderIdsDiffer, SlotOwnerIsLast, Slot, Result, FinalResult
<1>6. OnlyPublishedTravels'
    BY NoneAssumption DEF IInv, OnlyPublishedTravels, PublishedBy, TypeOK, SendersWait, NoEarlyOutcome, Slot, Result, FinalResult
<1>7. NoEarlyOutcome'
    BY NoneAssumption DEF IInv, NoEarlyOutcome, TypeOK, Slot, Result, FinalResult
<1>8. DeliveredByOwnLeader'
    BY NoneAssumption DEF IInv, DeliveredByOwnLeader, TypeOK, OnlyPublishedTravels, PublishedBy, SendersWait, Slot, Result, FinalResult
<1> QED BY <1>1, <1>2, <1>3, <1>4, <1>5, <1>6, <1>7, <1>8 DEF IInv

\* A timed-out joiner takes its sender out of slots and pending sends.
LEMMA TimeoutInv ==
    ASSUME IInv, NEW r \in Requests, Timeout(r)
    PROVE  IInv'
<1> USE DEF Timeout, locals, SlotsWithout, SendsWithout
<1>1. TypeOK'
  <2>1. inflight' \in [Keys -> Slot \cup {NONE}]
    <3>1. ASSUME NEW k \in Keys, inflight[k] # NONE
          PROVE  [inflight[k] EXCEPT !.waiters = @ \ {r}] \in Slot
      <4>1. inflight[k] \in Slot
          BY <3>1 DEF IInv, TypeOK
      <4> QED BY <4>1, SlotWithoutWaiter
    <3> QED BY <3>1
  <2>2. toSend' \in [Requests -> SUBSET Requests]
      BY DEF IInv, TypeOK
  <2> QED BY <2>1, <2>2 DEF IInv, TypeOK
<1>2. LeaderIdsDiffer'
    BY NoneAssumption DEF IInv, LeaderIdsDiffer, Leaders, TypeOK, SlotOwnerIsLast, Slot
<1>3. SlotOwnerIsLast'
    BY NoneAssumption DEF IInv, SlotOwnerIsLast, Leaders, TypeOK, LeaderIdsDiffer, Slot
<1>4. JoinedItsLeader'
    BY NoneAssumption DEF IInv, JoinedItsLeader, Leaders, TypeOK, LeaderIdsDiffer, SlotOwnerIsLast, Slot
<1>5. SendersWait'
    BY NoneAssumption DEF IInv, SendersWait, TypeOK, JoinedItsLeader, Leaders, LeaderIdsDiffer, SlotOwnerIsLast, Slot, Result, FinalResult
<1>6. OnlyPublishedTravels'
    BY NoneAssumption DEF IInv, OnlyPublishedTravels, PublishedBy, TypeOK, SendersWait, NoEarlyOutcome, Slot, Result, FinalResult
<1>7. NoEarlyOutcome'
    BY NoneAssumption DEF IInv, NoEarlyOutcome, TypeOK, Slot, Result, FinalResult
<1>8. DeliveredByOwnLeader'
    BY NoneAssumption DEF IInv, DeliveredByOwnLeader, TypeOK, OnlyPublishedTravels, PublishedBy, SendersWait, Slot, Result, FinalResult
<1> QED BY <1>1, <1>2, <1>3, <1>4, <1>5, <1>6, <1>7, <1>8 DEF IInv

\* A timed-out joiner removes the slot of its own generation only.
LEMMA JoinerCancelInv ==
    ASSUME IInv, NEW r \in Requests, JoinerCancel(r)
    PROVE  IInv'
<1> USE DEF JoinerCancel, locals, cancel, IsCurrent
<1>1. TypeOK'
    BY NoneAssumption DEF IInv, TypeOK, Slot, Result, FinalResult
<1>2. LeaderIdsDiffer'
    BY NoneAssumption DEF IInv, LeaderIdsDiffer, Leaders, TypeOK, SlotOwnerIsLast, Slot
<1>3. SlotOwnerIsLast'
    BY NoneAssumption DEF IInv, SlotOwnerIsLast, Leaders, TypeOK, LeaderIdsDiffer, Slot
<1>4. JoinedItsLeader'
    BY NoneAssumption DEF IInv, JoinedItsLeader, Leaders, TypeOK, LeaderIdsDiffer, SlotOwnerIsLast, Slot
<1>5. SendersWait'
    BY NoneAssumption DEF IInv, SendersWait, TypeOK, JoinedItsLeader, Leaders, LeaderIdsDiffer, SlotOwnerIsLast, Slot, Result, FinalResult
<1>6. OnlyPublishedTravels'
    BY NoneAssumption DEF IInv, OnlyPublishedTravels, PublishedBy, TypeOK, SendersWait, NoEarlyOutcome, Slot, Result, FinalResult
<1>7. NoEarlyOutcome'
    BY NoneAssumption DEF IInv, NoEarlyOutcome, TypeOK, Slot, Result, FinalResult
<1>8. DeliveredByOwnLeader'
    BY NoneAssumption DEF IInv, DeliveredByOwnLeader, TypeOK, OnlyPublishedTravels, PublishedBy, SendersWait, Slot, Result, FinalResult
<1> QED BY <1>1, <1>2, <1>3, <1>4, <1>5, <1>6, <1>7, <1>8 DEF IInv

\* A current leader publishes and takes its slot, another one does neither.
LEMMA LeaderCompleteInv ==
    ASSUME IInv, NEW r \in Requests, NEW res \in CookResult(r), LeaderComplete(r, res)
    PROVE  IInv'
<1> USE DEF LeaderComplete, locals, IsCurrent, CookResult
<1>1. TypeOK'
  <2>1. res \in Result /\ res \in FinalResult
      BY DEF FinalResult
  <2>2. CASE IsCurrent(key[r], id[r])
    <3>1. inflight[key[r]].waiters \in SUBSET Requests
        BY <2>2 DEF IInv, TypeOK, Slot
    <3>2. toSend' \in [Requests -> SUBSET Requests]
        BY <2>2, <3>1 DEF IInv, TypeOK
    <3>3. published' \in [Keys -> SUBSET FinalResult]
        BY <2>1, <2>2 DEF IInv, TypeOK
    <3> QED BY <2>1, <2>2, <3>2, <3>3 DEF IInv, TypeOK
  <2>3. CASE ~IsCurrent(key[r], id[r])
      BY <2>1, <2>3 DEF IInv, TypeOK
  <2> QED BY <2>2, <2>3
<1>2. LeaderIdsDiffer'
    BY NoneAssumption DEF IInv, LeaderIdsDiffer, Leaders, TypeOK, SlotOwnerIsLast, Slot
<1>3. SlotOwnerIsLast'
    BY NoneAssumption DEF IInv, SlotOwnerIsLast, Leaders, TypeOK, LeaderIdsDiffer, Slot
<1>4. JoinedItsLeader'
    BY NoneAssumption DEF IInv, JoinedItsLeader, Leaders, TypeOK, LeaderIdsDiffer, SlotOwnerIsLast, Slot
<1>5. SendersWait'
  <2>1. CASE ~IsCurrent(key[r], id[r])
    <3>1. UNCHANGED <<inflight, toSend, id, msg, key, term>>
        BY <2>1
    <3>2. ASSUME NEW q \in Requests, pc[q] \in {"wait", "notify"}
          PROVE  pc'[q] = pc[q]
        BY <2>1, <3>2 DEF IInv, TypeOK
    <3>3. ASSUME NEW k \in Keys, inflight[k] # NONE
          PROVE  inflight[k].waiters \subseteq Requests
        BY <3>3 DEF IInv, TypeOK, Slot
    <3> QED BY <3>1, <3>2, <3>3 DEF IInv, SendersWait
  <2>2. CASE IsCurrent(key[r], id[r])
    <3>1. ASSUME NEW w \in inflight[key[r]].waiters
          PROVE  /\ w \in Requests /\ w # r
                 /\ pc[w] = "wait" /\ msg[w] = NONE /\ id[w] = id[r]
                 /\ key[w] = key[r] /\ term[w] = term[r]
        BY <2>2, <3>1 DEF IInv, TypeOK, Slot, SendersWait, JoinedItsLeader, Leaders
    <3>2. ASSUME NEW k \in Keys, inflight'[k] # NONE, NEW w \in inflight'[k].waiters
          PROVE  /\ pc'[w] = "wait" /\ msg'[w] = NONE
                 /\ key'[w] = k /\ id'[w] = inflight'[k].id
      <4>1. k # key[r] /\ inflight'[k] = inflight[k] /\ w \in Requests
          BY <2>2, <3>2 DEF IInv, TypeOK, Slot
      <4> QED BY <2>2, <3>2, <4>1 DEF IInv, TypeOK, SendersWait
    <3>3. ASSUME NEW l \in Requests, NEW w \in Requests, w \in toSend'[l]
          PROVE  /\ pc'[l] = "notify" /\ pc'[w] = "wait" /\ msg'[w] = NONE
                 /\ id'[w] = id'[l] /\ key'[w] = key'[l] /\ term'[w] = term'[l]
        BY <2>2, <3>1, <3>3 DEF IInv, TypeOK, SendersWait
    <3> QED BY <3>2, <3>3 DEF SendersWait
  <2> QED BY <2>1, <2>2
<1>6. OnlyPublishedTravels'
  <2>1. res \in Result /\ res.by = r /\ res.kind # "intermediate"
      OBVIOUS
  <2>2. ASSUME NEW p, NEW k \in Keys, PublishedBy(p, k)
        PROVE  PublishedBy(p, k)'
    <3>1. p \in Result /\ p.by \in Requests /\ p.by # r
        BY <2>2 DEF IInv, TypeOK, PublishedBy, Result, FinalResult
    <3>2. published[k] \subseteq published'[k]
        BY DEF IInv, TypeOK
    <3> QED BY <2>2, <3>1, <3>2 DEF IInv, TypeOK, PublishedBy
  <2>3. CASE ~IsCurrent(key[r], id[r])
      BY <2>2, <2>3 DEF IInv, TypeOK, OnlyPublishedTravels, NoEarlyOutcome
  <2>4. CASE IsCurrent(key[r], id[r])
    <3>1. PublishedBy(res, key[r])'
        BY <2>1, <2>4, NoneAssumption DEF IInv, TypeOK, PublishedBy
    <3> QED
        BY <2>1, <2>2, <2>4, <3>1, NoneAssumption DEF IInv, TypeOK, OnlyPublishedTravels
  <2> QED BY <2>3, <2>4
<1>7. NoEarlyOutcome'
    BY NoneAssumption DEF IInv, NoEarlyOutcome, TypeOK, Slot, Result, FinalResult
<1>8. DeliveredByOwnLeader'
    BY NoneAssumption DEF IInv, DeliveredByOwnLeader, TypeOK, OnlyPublishedTravels, PublishedBy, SendersWait, Slot, Result, FinalResult
<1> QED BY <1>1, <1>2, <1>3, <1>4, <1>5, <1>6, <1>7, <1>8 DEF IInv

\* An intermediate result is published nowhere.
LEMMA LeaderIntermediateInv ==
    ASSUME IInv, NEW r \in Requests, NEW res \in CookResult(r), LeaderIntermediate(r, res)
    PROVE  IInv'
<1> USE DEF LeaderIntermediate, locals, CookResult
<1>1. TypeOK'
    BY NoneAssumption DEF IInv, TypeOK, Slot, Result, FinalResult
<1>2. LeaderIdsDiffer'
    BY NoneAssumption DEF IInv, LeaderIdsDiffer, Leaders, TypeOK, SlotOwnerIsLast, Slot
<1>3. SlotOwnerIsLast'
    BY NoneAssumption DEF IInv, SlotOwnerIsLast, Leaders, TypeOK, LeaderIdsDiffer, Slot
<1>4. JoinedItsLeader'
    BY NoneAssumption DEF IInv, JoinedItsLeader, Leaders, TypeOK, LeaderIdsDiffer, SlotOwnerIsLast, Slot
<1>5. SendersWait'
    BY NoneAssumption DEF IInv, SendersWait, TypeOK, JoinedItsLeader, Leaders, LeaderIdsDiffer, SlotOwnerIsLast, Slot, Result, FinalResult
<1>6. OnlyPublishedTravels'
    BY NoneAssumption DEF IInv, OnlyPublishedTravels, PublishedBy, TypeOK, SendersWait, NoEarlyOutcome, Slot, Result, FinalResult
<1>7. NoEarlyOutcome'
    BY NoneAssumption DEF IInv, NoEarlyOutcome, TypeOK, Slot, Result, FinalResult
<1>8. DeliveredByOwnLeader'
    BY NoneAssumption DEF IInv, DeliveredByOwnLeader, TypeOK, OnlyPublishedTravels, PublishedBy, SendersWait, Slot, Result, FinalResult
<1> QED BY <1>1, <1>2, <1>3, <1>4, <1>5, <1>6, <1>7, <1>8 DEF IInv

\* A send delivers the result of the leader the joiner joined.
LEMMA SendInv ==
    ASSUME IInv, NEW l \in Requests, NEW w \in Requests, Send(l, w)
    PROVE  IInv'
<1> USE DEF Send, locals
<1>1. TypeOK'
  <2>1. outcome[l] \in FinalResult
      BY DEF IInv, OnlyPublishedTravels, PublishedBy, TypeOK
  <2>2. msg' \in [Requests -> FinalResult \cup {NONE}]
      BY <2>1 DEF IInv, TypeOK
  <2>3. toSend' \in [Requests -> SUBSET Requests]
      BY DEF IInv, TypeOK
  <2> QED BY <2>2, <2>3 DEF IInv, TypeOK
<1>2. LeaderIdsDiffer'
    BY NoneAssumption DEF IInv, LeaderIdsDiffer, Leaders, TypeOK, SlotOwnerIsLast, Slot
<1>3. SlotOwnerIsLast'
    BY NoneAssumption DEF IInv, SlotOwnerIsLast, Leaders, TypeOK, LeaderIdsDiffer, Slot
<1>4. JoinedItsLeader'
    BY NoneAssumption DEF IInv, JoinedItsLeader, Leaders, TypeOK, LeaderIdsDiffer, SlotOwnerIsLast, Slot
<1>5. SendersWait'
    BY NoneAssumption DEF IInv, SendersWait, TypeOK, JoinedItsLeader, Leaders, LeaderIdsDiffer, SlotOwnerIsLast, Slot, Result, FinalResult
<1>6. OnlyPublishedTravels'
    BY NoneAssumption DEF IInv, OnlyPublishedTravels, PublishedBy, TypeOK, SendersWait, NoEarlyOutcome, Slot, Result, FinalResult
<1>7. NoEarlyOutcome'
    BY NoneAssumption DEF IInv, NoEarlyOutcome, TypeOK, Slot, Result, FinalResult
<1>8. DeliveredByOwnLeader'
    BY NoneAssumption DEF IInv, DeliveredByOwnLeader, TypeOK, OnlyPublishedTravels, PublishedBy, SendersWait, Slot, Result, FinalResult
<1> QED BY <1>1, <1>2, <1>3, <1>4, <1>5, <1>6, <1>7, <1>8 DEF IInv

\* The end of complete leaves the guard to be dropped.
LEMMA NotifyDoneInv ==
    ASSUME IInv, NEW l \in Requests, NotifyDone(l)
    PROVE  IInv'
<1> USE DEF NotifyDone, locals
<1>1. TypeOK'
    BY NoneAssumption DEF IInv, TypeOK, Slot, Result, FinalResult
<1>2. LeaderIdsDiffer'
    BY NoneAssumption DEF IInv, LeaderIdsDiffer, Leaders, TypeOK, SlotOwnerIsLast, Slot
<1>3. SlotOwnerIsLast'
    BY NoneAssumption DEF IInv, SlotOwnerIsLast, Leaders, TypeOK, LeaderIdsDiffer, Slot
<1>4. JoinedItsLeader'
    BY NoneAssumption DEF IInv, JoinedItsLeader, Leaders, TypeOK, LeaderIdsDiffer, SlotOwnerIsLast, Slot
<1>5. SendersWait'
    BY NoneAssumption DEF IInv, SendersWait, TypeOK, JoinedItsLeader, Leaders, LeaderIdsDiffer, SlotOwnerIsLast, Slot, Result, FinalResult
<1>6. OnlyPublishedTravels'
    BY NoneAssumption DEF IInv, OnlyPublishedTravels, PublishedBy, TypeOK, SendersWait, NoEarlyOutcome, Slot, Result, FinalResult
<1>7. NoEarlyOutcome'
    BY NoneAssumption DEF IInv, NoEarlyOutcome, TypeOK, Slot, Result, FinalResult
<1>8. DeliveredByOwnLeader'
    BY NoneAssumption DEF IInv, DeliveredByOwnLeader, TypeOK, OnlyPublishedTravels, PublishedBy, SendersWait, Slot, Result, FinalResult
<1> QED BY <1>1, <1>2, <1>3, <1>4, <1>5, <1>6, <1>7, <1>8 DEF IInv

\* A dropped cook leaves only its guard to be dropped.
LEMMA LeaderAbortInv ==
    ASSUME IInv, NEW r \in Requests, LeaderAbort(r)
    PROVE  IInv'
<1> USE DEF LeaderAbort, locals
<1>1. TypeOK'
    BY NoneAssumption DEF IInv, TypeOK, Slot, Result, FinalResult
<1>2. LeaderIdsDiffer'
    BY NoneAssumption DEF IInv, LeaderIdsDiffer, Leaders, TypeOK, SlotOwnerIsLast, Slot
<1>3. SlotOwnerIsLast'
    BY NoneAssumption DEF IInv, SlotOwnerIsLast, Leaders, TypeOK, LeaderIdsDiffer, Slot
<1>4. JoinedItsLeader'
    BY NoneAssumption DEF IInv, JoinedItsLeader, Leaders, TypeOK, LeaderIdsDiffer, SlotOwnerIsLast, Slot
<1>5. SendersWait'
    BY NoneAssumption DEF IInv, SendersWait, TypeOK, JoinedItsLeader, Leaders, LeaderIdsDiffer, SlotOwnerIsLast, Slot, Result, FinalResult
<1>6. OnlyPublishedTravels'
    BY NoneAssumption DEF IInv, OnlyPublishedTravels, PublishedBy, TypeOK, SendersWait, NoEarlyOutcome, Slot, Result, FinalResult
<1>7. NoEarlyOutcome'
    BY NoneAssumption DEF IInv, NoEarlyOutcome, TypeOK, Slot, Result, FinalResult
<1>8. DeliveredByOwnLeader'
    BY NoneAssumption DEF IInv, DeliveredByOwnLeader, TypeOK, OnlyPublishedTravels, PublishedBy, SendersWait, Slot, Result, FinalResult
<1> QED BY <1>1, <1>2, <1>3, <1>4, <1>5, <1>6, <1>7, <1>8 DEF IInv

\* The guard removes the slot of its own generation only.
LEMMA DropLeaderInv ==
    ASSUME IInv, NEW r \in Requests, DropLeader(r)
    PROVE  IInv'
<1> USE DEF DropLeader, locals, cancel, IsCurrent
<1>1. TypeOK'
    BY NoneAssumption DEF IInv, TypeOK, Slot, Result, FinalResult
<1>2. LeaderIdsDiffer'
    BY NoneAssumption DEF IInv, LeaderIdsDiffer, Leaders, TypeOK, SlotOwnerIsLast, Slot
<1>3. SlotOwnerIsLast'
    BY NoneAssumption DEF IInv, SlotOwnerIsLast, Leaders, TypeOK, LeaderIdsDiffer, Slot
<1>4. JoinedItsLeader'
    BY NoneAssumption DEF IInv, JoinedItsLeader, Leaders, TypeOK, LeaderIdsDiffer, SlotOwnerIsLast, Slot
<1>5. SendersWait'
    BY NoneAssumption DEF IInv, SendersWait, TypeOK, JoinedItsLeader, Leaders, LeaderIdsDiffer, SlotOwnerIsLast, Slot, Result, FinalResult
<1>6. OnlyPublishedTravels'
  <2>1. ASSUME NEW res, NEW k \in Keys, PublishedBy(res, k)
        PROVE  PublishedBy(res, k)'
    <3>1. res.by \in Requests
        BY <2>1 DEF IInv, TypeOK, PublishedBy, Result, FinalResult
    <3> QED
        BY <2>1, <3>1 DEF IInv, TypeOK, PublishedBy
  <2>2. ASSUME NEW k \in Keys, sticky'[k] # NONE
        PROVE  PublishedBy(sticky[k], k)'
      BY <2>1, <2>2 DEF IInv, TypeOK, OnlyPublishedTravels
  <2>3. ASSUME NEW l \in Requests, pc'[l] = "notify"
        PROVE  outcome'[l] # NONE /\ outcome'[l].by = l /\ PublishedBy(outcome[l], key[l])'
      BY <2>1, <2>3 DEF IInv, TypeOK, OnlyPublishedTravels
  <2>4. ASSUME NEW q \in Requests, msg'[q] # NONE
        PROVE  PublishedBy(msg[q], key[q])'
      BY <2>1, <2>4 DEF IInv, TypeOK, OnlyPublishedTravels
  <2> QED BY <2>2, <2>3, <2>4 DEF OnlyPublishedTravels
<1>7. NoEarlyOutcome'
    BY NoneAssumption DEF IInv, NoEarlyOutcome, TypeOK, Slot, Result, FinalResult
<1>8. DeliveredByOwnLeader'
    BY NoneAssumption DEF IInv, DeliveredByOwnLeader, TypeOK, OnlyPublishedTravels, PublishedBy, SendersWait, Slot, Result, FinalResult
<1> QED BY <1>1, <1>2, <1>3, <1>4, <1>5, <1>6, <1>7, <1>8 DEF IInv

\* A dropped joiner takes its sender out of slots and pending sends.
LEMMA JoinerAbortInv ==
    ASSUME IInv, NEW r \in Requests, JoinerAbort(r)
    PROVE  IInv'
<1> USE DEF JoinerAbort, locals, SlotsWithout, SendsWithout
<1>1. TypeOK'
  <2>1. inflight' \in [Keys -> Slot \cup {NONE}]
    <3>1. ASSUME NEW k \in Keys, inflight[k] # NONE
          PROVE  [inflight[k] EXCEPT !.waiters = @ \ {r}] \in Slot
      <4>1. inflight[k] \in Slot
          BY <3>1 DEF IInv, TypeOK
      <4> QED BY <4>1, SlotWithoutWaiter
    <3> QED BY <3>1
  <2>2. toSend' \in [Requests -> SUBSET Requests]
      BY DEF IInv, TypeOK
  <2>3. /\ msg' \in [Requests -> FinalResult \cup {NONE}]
        /\ id' \in [Requests -> Ids \cup {NONE}]
      BY DEF IInv, TypeOK
  <2> QED BY <2>1, <2>2, <2>3 DEF IInv, TypeOK
<1>2. LeaderIdsDiffer'
    BY NoneAssumption DEF IInv, LeaderIdsDiffer, Leaders, TypeOK, SlotOwnerIsLast, Slot
<1>3. SlotOwnerIsLast'
    BY NoneAssumption DEF IInv, SlotOwnerIsLast, Leaders, TypeOK, LeaderIdsDiffer, Slot
<1>4. JoinedItsLeader'
    BY NoneAssumption DEF IInv, JoinedItsLeader, Leaders, TypeOK, LeaderIdsDiffer, SlotOwnerIsLast, Slot
<1>5. SendersWait'
    BY NoneAssumption DEF IInv, SendersWait, TypeOK, JoinedItsLeader, Leaders, LeaderIdsDiffer, SlotOwnerIsLast, Slot, Result, FinalResult
<1>6. OnlyPublishedTravels'
    BY NoneAssumption DEF IInv, OnlyPublishedTravels, PublishedBy, TypeOK, SendersWait, NoEarlyOutcome, Slot, Result, FinalResult
<1>7. NoEarlyOutcome'
    BY NoneAssumption DEF IInv, NoEarlyOutcome, TypeOK, Slot, Result, FinalResult
<1>8. DeliveredByOwnLeader'
    BY NoneAssumption DEF IInv, DeliveredByOwnLeader, TypeOK, OnlyPublishedTravels, PublishedBy, SendersWait, Slot, Result, FinalResult
<1> QED BY <1>1, <1>2, <1>3, <1>4, <1>5, <1>6, <1>7, <1>8 DEF IInv

\* The empty frontend satisfies the inductive invariant.
LEMMA InitIInv == Init => IInv
  BY NoneAssumption
     DEF Init, IInv, TypeOK, LeaderIdsDiffer, Leaders, SlotOwnerIsLast, JoinedItsLeader,
         SendersWait, OnlyPublishedTravels, NoEarlyOutcome, DeliveredByOwnLeader

\* Nothing in the invariant depends on anything but the variables.
LEMMA StutterIInv == IInv /\ UNCHANGED vars => IInv'
  BY DEF vars, IInv, TypeOK, LeaderIdsDiffer, Leaders, SlotOwnerIsLast, JoinedItsLeader,
         SendersWait, OnlyPublishedTravels, PublishedBy, NoEarlyOutcome, DeliveredByOwnLeader

\* Every step preserves the inductive invariant.
LEMMA NextIInv == IInv /\ [Next]_vars => IInv'
<1> SUFFICES ASSUME IInv, [Next]_vars PROVE IInv'
    OBVIOUS
<1>1. CASE UNCHANGED vars
    BY <1>1, StutterIInv
<1>2. ASSUME NEW r \in Requests, Step(r)
      PROVE  IInv'
    BY <1>2, LookupHitInv, LookupJoinInv, LookupLeadInv, ReceiveInv, ReceiveClosedInv,
       TimeoutInv, JoinerCancelInv, SendInv, NotifyDoneInv, DropLeaderInv DEF Step
<1>3. ASSUME NEW r \in Requests,
             \/ Arrive(r) \/ LeaderAbort(r) \/ JoinerAbort(r)
             \/ \E res \in CookResult(r) : LeaderComplete(r, res) \/ LeaderIntermediate(r, res)
      PROVE  IInv'
    BY <1>3, ArriveInv, LeaderAbortInv, JoinerAbortInv, LeaderCompleteInv, LeaderIntermediateInv
<1>4. ASSUME NEW k \in Keys, StickyExpire(k)
      PROVE  IInv'
    BY <1>4, StickyExpireInv
<1> QED BY <1>1, <1>2, <1>3, <1>4 DEF Next

(* The inductive invariant holds in every state of the frontend, for any   *)
(* number of keys, requests and addresses.                                 *)
THEOREM IInvHolds == Spec => []IInv
  BY InitIInv, NextIInv, PTL DEF Spec

(* Type correctness of the debounce frontend.                              *)
THEOREM TypeCorrect == Spec => []TypeOK
<1>1. IInv => TypeOK
    BY DEF IInv
<1> QED BY <1>1, IInvHolds, PTL

(* However a cook ends, no key keeps a slot that nobody will release.      *)
THEOREM NoOrphanedSlot == Spec => []SlotOwned
<1>1. IInv => SlotOwned
    BY DEF IInv, SlotOwnerIsLast, SlotOwned
<1> QED BY <1>1, IInvHolds, PTL

(* A joiner is only ever sent the result of the leader it joined, although *)
(* generation ids are addresses the allocator reuses.                      *)
THEOREM JoinersHearTheirLeader == Spec => []DeliveredByOwnLeader
<1>1. IInv => DeliveredByOwnLeader
    BY DEF IInv
<1> QED BY <1>1, IInvHolds, PTL

\* The leader that finds its own id in the slot is the slot's owner.
LEMMA CurrentLeaderIsLast ==
    ASSUME IInv, NEW r \in Requests, pc[r] \in {"lead", "drop"}, IsCurrent(key[r], id[r])
    PROVE  term[r] = epoch[key[r]]
<1>1. PICK q \in Requests : /\ pc[q] \in {"lead", "drop"}
                            /\ id[q] = inflight[key[r]].id
                            /\ term[q] = epoch[key[r]]
    BY DEF IInv, TypeOK, SlotOwnerIsLast, IsCurrent
<1>2. q = r
    BY <1>1 DEF IInv, LeaderIdsDiffer, Leaders, IsCurrent
<1> QED BY <1>1, <1>2

(* A superseded leader never publishes, however late its cook ends.        *)
THEOREM OnlyLastLeaderPublishes == Spec => LastElectedPublishes
<1> DEFINE A == \A k \in Keys :
                   (sticky'[k] # sticky[k] /\ sticky'[k] # NONE) =>
                       /\ key[sticky'[k].by] = k
                       /\ term[sticky'[k].by] = epoch[k]
<1>1. IInv /\ [Next]_vars => [A]_vars
  <2> SUFFICES ASSUME IInv, Next PROVE A
      OBVIOUS
  <2> SUFFICES ASSUME NEW k \in Keys, sticky'[k] # sticky[k], sticky'[k] # NONE
               PROVE  key[sticky'[k].by] = k /\ term[sticky'[k].by] = epoch[k]
      OBVIOUS
  <2>1. ASSUME NEW j \in Keys, StickyExpire(j)
        PROVE  FALSE
      BY <2>1 DEF StickyExpire, IInv, TypeOK
  <2>2. PICK r \in Requests : \E res \in CookResult(r) : LeaderComplete(r, res)
      BY <2>1 DEF Next, Step, locals, Arrive, LookupHit, LookupJoin, LookupLead, Receive,
         ReceiveClosed, Timeout, JoinerCancel, LeaderIntermediate, Send, NotifyDone,
         LeaderAbort, DropLeader, JoinerAbort
  <2>3. IsCurrent(key[r], id[r]) /\ k = key[r] /\ pc[r] = "lead"
      BY <2>2 DEF LeaderComplete, IInv, TypeOK
  <2>4. sticky'[k].by = r
      BY <2>2, <2>3 DEF LeaderComplete, CookResult, IInv, TypeOK
  <2> QED BY <2>3, <2>4, CurrentLeaderIsLast
<1> QED BY <1>1, IInvHolds, PTL DEF Spec, LastElectedPublishes

(* A cooking leader loses its slot only to a joiner of its own generation  *)
(* that timed out.                                                         *)
THEOREM LeaderSupersededOnlyByTimeout == Spec => SupersededOnlyByTimeout
<1> DEFINE A == \A r \in Requests :
                   (/\ pc[r] = "lead" /\ pc'[r] = "lead"
                    /\ IsCurrent(key[r], id[r])
                    /\ ~(inflight'[key[r]] # NONE /\ inflight'[key[r]].id = id[r])) =>
                       \E w \in Requests :
                           pc[w] = "cancel" /\ key[w] = key[r] /\ term[w] = term[r]
<1>1. IInv /\ [Next]_vars => [A]_vars
  <2> SUFFICES ASSUME IInv, Next, NEW r \in Requests,
                      pc[r] = "lead", pc'[r] = "lead", IsCurrent(key[r], id[r]),
                      ~(inflight'[key[r]] # NONE /\ inflight'[key[r]].id = id[r])
               PROVE  \E w \in Requests :
                          pc[w] = "cancel" /\ key[w] = key[r] /\ term[w] = term[r]
      OBVIOUS
  <2> USE NoneAssumption DEF IsCurrent
  <2>1. id[r] \in Ids /\ key[r] \in Keys /\ inflight[key[r]] \in Slot
      BY DEF IInv, LeaderIdsDiffer, Leaders, TypeOK
  <2>2. ASSUME NEW q \in Requests, NEW res \in CookResult(q), LeaderComplete(q, res)
        PROVE  FALSE
    <3>1. q # r
        BY <2>2 DEF LeaderComplete, IInv, TypeOK
    <3> QED
        BY <2>1, <2>2, <3>1 DEF LeaderComplete, IInv, TypeOK, LeaderIdsDiffer, Leaders
  <2>3. ASSUME NEW q \in Requests, DropLeader(q)
        PROVE  FALSE
    <3>1. q # r
        BY <2>3 DEF DropLeader
    <3> QED
        BY <2>1, <2>3, <3>1 DEF DropLeader, cancel, IInv, TypeOK, LeaderIdsDiffer, Leaders
  <2>4. ASSUME NEW q \in Requests, LookupJoin(q)
        PROVE  FALSE
      BY <2>1, <2>4 DEF LookupJoin, IInv, TypeOK, Slot
  <2>5. ASSUME NEW q \in Requests, NEW i \in Ids, LookupLead(q, i)
        PROVE  FALSE
      BY <2>1, <2>5 DEF LookupLead, IInv, TypeOK, Slot
  <2>6. ASSUME NEW q \in Requests, Timeout(q) \/ JoinerAbort(q)
        PROVE  FALSE
      BY <2>1, <2>6 DEF Timeout, JoinerAbort, SlotsWithout, IInv, TypeOK, Slot
  <2>7. PICK q \in Requests : JoinerCancel(q)
      BY <2>2, <2>3, <2>4, <2>5, <2>6
         DEF Next, Step, locals, Arrive, StickyExpire, LookupHit, Receive, ReceiveClosed,
             LeaderIntermediate, Send, NotifyDone, LeaderAbort
  <2>8. id[q] = id[r]
      BY <2>1, <2>7 DEF JoinerCancel, cancel, IInv, TypeOK
  <2> QED
      BY <2>7, <2>8 DEF JoinerCancel, IInv, JoinedItsLeader, Leaders
<1> QED BY <1>1, IInvHolds, PTL DEF Spec, SupersededOnlyByTimeout

(* An empty NotModified never reaches a client that lacks the copy it      *)
(* confirms, by the sticky cache or by a channel.                          *)
THEOREM NotModifiedIsUsable == Spec => []NotModifiedHasCopy
<1>1. Init => NotModifiedHasCopy
    BY DEF Init, NotModifiedHasCopy
<1>2. TypeOK /\ NotModifiedHasCopy /\ [Next]_vars => NotModifiedHasCopy'
  <2> SUFFICES ASSUME TypeOK, NotModifiedHasCopy, [Next]_vars PROVE NotModifiedHasCopy'
      OBVIOUS
  <2> USE DEF TypeOK, NotModifiedHasCopy
  <2>1. ASSUME NEW r \in Requests, LookupHit(r) \/ Receive(r)
        PROVE  NotModifiedHasCopy'
      BY <2>1 DEF LookupHit, Receive, StickyHit, debounce_matches
  <2>2. ASSUME NEW r \in Requests, NEW res \in CookResult(r),
               LeaderComplete(r, res) \/ LeaderIntermediate(r, res)
        PROVE  NotModifiedHasCopy'
      BY <2>2 DEF LeaderComplete, LeaderIntermediate, CookResult
  <2>3. CASE UNCHANGED <<outcome, client>>
      BY <2>3
  <2> QED
      BY <2>1, <2>2, <2>3
         DEF Next, Step, vars, locals, Arrive, StickyExpire, LookupJoin, LookupLead,
             ReceiveClosed, Timeout, JoinerCancel, Send, NotifyDone, LeaderAbort,
             DropLeader, JoinerAbort
<1> QED BY <1>1, <1>2, TypeCorrect, PTL DEF Spec

-----------------------------------------------------------------------------
\* A step of one request moves its own phase and nobody else's.
LEMMA PhaseMoves ==
    ASSUME NEW r \in Requests,
           \A q \in Requests \ {r} : pc'[q] = pc[q] /\ outcome'[q] = outcome[q]
    PROVE  [q \in Requests |-> Phase(q)]'
           = [[q \in Requests |-> Phase(q)] EXCEPT ![r] = Phase(r)']
<1>1. ASSUME NEW q \in Requests \ {r}
      PROVE  Phase(q)' = Phase(q)
    BY <1>1 DEF Phase
<1> QED BY <1>1

(* Every answer the frontend gives is allowed by the abstract              *)
(* specification of coalescing, whatever the interleaving.                 *)
THEOREM Refinement == Spec => ImplementsCoalesce
<1> DEFINE ph == [q \in Requests |-> Phase(q)]
           PC == {"idle", "lookup", "wait", "cancel", "lead", "notify", "drop", "done", "gone"}
<1>1. Init => C!Init
    BY DEF Init, C!Init, Phase
<1>2. IInv /\ [Next]_vars => [C!Next]_(C!cvars)
  <2> SUFFICES ASSUME IInv, [Next]_vars PROVE C!Next \/ UNCHANGED C!cvars
      OBVIOUS
  <2>0. /\ pc \in [Requests -> PC] /\ pc' \in [Requests -> PC]
        /\ outcome \in [Requests -> Result \cup {NONE}]
        /\ key \in [Requests -> Keys] /\ published \in [Keys -> SUBSET Result]
    <3>1. IInv'
        BY NextIInv
    <3>2. TypeOK /\ TypeOK'
        BY <3>1 DEF IInv
    <3>3. FinalResult \subseteq Result
        BY DEF FinalResult
    <3> QED BY <3>2, <3>3 DEF TypeOK
  <2>1. ASSUME NEW r \in Requests, Arrive(r)
        PROVE  C!Ask(r)
    <3>1. ph' = [ph EXCEPT ![r] = Phase(r)'] /\ ph[r] = "idle" /\ Phase(r)' = "pending"
        BY <2>0, <2>1, PhaseMoves DEF Arrive, locals, Phase
    <3> QED BY <2>1, <3>1 DEF Arrive, locals, C!Ask
  <2>2. ASSUME NEW r \in Requests, NEW i \in Ids, LookupLead(r, i)
        PROVE  C!StartCook(r)
    <3>1. ph' = [ph EXCEPT ![r] = Phase(r)'] /\ ph[r] = "pending" /\ Phase(r)' = "cooking"
        BY <2>0, <2>2, PhaseMoves DEF LookupLead, Phase
    <3> QED BY <2>2, <3>1 DEF LookupLead, C!StartCook
  <2>3. ASSUME NEW r \in Requests, JoinerAbort(r) \/ LeaderAbort(r)
        PROVE  C!Leave(r)
    <3>1. /\ ph' = [ph EXCEPT ![r] = Phase(r)']
          /\ ph[r] \in {"pending", "cooking"}
          /\ Phase(r)' = "gone"
        BY <2>0, <2>3, PhaseMoves DEF JoinerAbort, LeaderAbort, locals, Phase, IInv, NoEarlyOutcome
    <3> QED BY <2>3, <3>1 DEF JoinerAbort, LeaderAbort, locals, C!Leave
  <2>4. ASSUME NEW r \in Requests, NEW res \in CookResult(r),
               LeaderComplete(r, res) \/ LeaderIntermediate(r, res)
        PROVE  res \in Result /\ C!Answer(r, res)
    <3>1. res \in Result /\ res.by = r /\ outcome'[r] = res /\ res # NONE
        BY <2>0, <2>4, NoneAssumption DEF LeaderComplete, LeaderIntermediate, CookResult
    <3>2. /\ pc[r] = "lead"
          /\ pc'[r] = "notify" \/ pc'[r] = "drop"
          /\ \A q \in Requests \ {r} : pc'[q] = pc[q] /\ outcome'[q] = outcome[q]
        BY <2>0, <2>4 DEF LeaderComplete, LeaderIntermediate
    <3>3. ph' = [ph EXCEPT ![r] = Phase(r)'] /\ ph[r] = "cooking" /\ Phase(r)' = "served"
        BY <2>0, <3>1, <3>2, PhaseMoves DEF Phase
    <3> QED BY <2>4, <3>1, <3>3 DEF LeaderComplete, LeaderIntermediate, C!Answer
  <2>5. ASSUME NEW r \in Requests, NEW res, res # NONE, PublishedBy(res, key[r]),
               debounce_matches(res, client[r]),
               pc[r] \in {"lookup", "wait"},
               pc' = [pc EXCEPT ![r] = "done"],
               outcome' = [outcome EXCEPT ![r] = res],
               UNCHANGED <<key, client, published>>
        PROVE  res \in Result /\ C!Share(r, res)
    <3>1. res \in Result /\ res \in published[key[r]] /\ C!Usable(r, res)
        BY <2>0, <2>5 DEF PublishedBy, debounce_matches, C!Usable
    <3>2. ph' = [ph EXCEPT ![r] = Phase(r)'] /\ ph[r] = "pending" /\ Phase(r)' = "served"
        BY <2>0, <2>5, PhaseMoves DEF Phase
    <3> QED BY <2>5, <3>1, <3>2 DEF C!Share
  <2>6. ASSUME NEW r \in Requests, LookupHit(r)
        PROVE  \E res \in Result : C!Share(r, res)
      BY <2>0, <2>5, <2>6 DEF LookupHit, StickyHit, IInv, OnlyPublishedTravels
  <2>7. ASSUME NEW r \in Requests, Receive(r), debounce_matches(msg[r], client[r])
        PROVE  \E res \in Result : C!Share(r, res)
      BY <2>5, <2>7 DEF Receive, IInv, OnlyPublishedTravels
  <2>8. ASSUME NEW r \in Requests, UNCHANGED <<key, client, outcome, published>>,
               \A q \in Requests \ {r} : pc'[q] = pc[q],
               Phase(r)' = Phase(r)
        PROVE  UNCHANGED C!cvars
    <3>1. ph' = [ph EXCEPT ![r] = Phase(r)']
        BY <2>0, <2>8, PhaseMoves
    <3> QED BY <2>8, <3>1 DEF C!cvars
  <2>9. ASSUME NEW r \in Requests,
               \/ Receive(r) /\ ~debounce_matches(msg[r], client[r])
               \/ LookupJoin(r) \/ ReceiveClosed(r) \/ Timeout(r) \/ JoinerCancel(r)
               \/ NotifyDone(r) \/ DropLeader(r)
        PROVE  UNCHANGED C!cvars
    <3>1. /\ UNCHANGED <<key, client, outcome, published>>
          /\ \A q \in Requests \ {r} : pc'[q] = pc[q]
        BY <2>0, <2>9 DEF Receive, LookupJoin, ReceiveClosed, Timeout, JoinerCancel,
                          NotifyDone, DropLeader, locals
    <3>2. CASE ~NotifyDone(r) /\ ~DropLeader(r)
      <4>1. pc[r] \in {"lookup", "wait", "cancel"} /\ pc'[r] \in {"lookup", "wait", "cancel"}
          BY <2>0, <2>9, <3>2 DEF Receive, LookupJoin, ReceiveClosed, Timeout, JoinerCancel
      <4> QED BY <2>8, <3>1, <4>1 DEF Phase
    <3>3. CASE NotifyDone(r)
      <4>1. pc[r] = "notify" /\ pc'[r] = "drop" /\ outcome[r] # NONE
          BY <2>0, <3>3 DEF NotifyDone, IInv, OnlyPublishedTravels
      <4> QED BY <2>8, <3>1, <4>1 DEF Phase
    <3>4. CASE DropLeader(r)
      <4>1. pc[r] = "drop" /\ pc'[r] = IF outcome[r] = NONE THEN "gone" ELSE "done"
          BY <2>0, <3>4 DEF DropLeader
      <4> QED BY <2>8, <3>1, <4>1 DEF Phase
    <3> QED BY <2>9, <3>2, <3>3, <3>4
  <2>10. CASE UNCHANGED <<pc, key, client, outcome, published>>
      BY <2>10 DEF C!cvars, Phase
  <2>11. ASSUME NEW r \in Requests, Step(r)
         PROVE  C!Next \/ UNCHANGED C!cvars
      BY <2>2, <2>6, <2>7, <2>9, <2>10, <2>11 DEF Step, Send, locals, C!Next
  <2> QED
      BY <2>1, <2>3, <2>4, <2>10, <2>11 DEF Next, vars, StickyExpire, locals, C!Next
<1> QED BY <1>1, <1>2, IInvHolds, PTL DEF Spec, ImplementsCoalesce, C!Spec
=============================================================================
