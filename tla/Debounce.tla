------------------------------ MODULE Debounce ------------------------------
(***************************************************************************)
(* The request-debounce frontend of tier 1 (cache/mod.rs, native build):   *)
(* a sticky cache of final results and a table of in-flight slots.  The    *)
(* first request that misses leads a generation and cooks; the others join *)
(* its slot and wait on a oneshot channel, at most 30 seconds.             *)
(*                                                                         *)
(* Every section the code runs under the `inflight` lock is one step, and  *)
(* so is every send made after the lock was released.  A task can be       *)
(* dropped where it awaits: while it waits on its channel and while it     *)
(* cooks.                                                                  *)
(***************************************************************************)
EXTENDS Naturals, FiniteSets

CONSTANTS
    Keys,       \* debounce keys
    Requests,   \* lookups; each one runs debounce_lookup once
    Ids,        \* addresses an Arc<()> generation id can have
    Conds,      \* what CacheHints::to_conditional can send: validators
    Exps,       \* values of CacheHints::expires_at
    NONE        \* Rust's None

\* The validators and the expiry of a decoded CacheHints.
Hints == [cond : Conds \cup {NONE}, exp : Exps]

(***************************************************************************)
(* A ThumbResult as the frontend tells results apart: "intermediate" is    *)
(* ResultStatus::Intermediate, "notmodified" is ResultSource::NotModified, *)
(* "full" is any other final result.  `hints` is the decoded cache token   *)
(* of its media, NONE where there is none.  `by` names the cook.           *)
(***************************************************************************)
Result == [by : Requests,
           kind : {"full", "notmodified", "intermediate"},
           hints : Hints \cup {NONE}]

\* Only these are published: an intermediate result is never final.
FinalResult == {res \in Result : res.kind # "intermediate"}

Slot == [id : Ids, waiters : SUBSET Requests]

ASSUME NoneAssumption ==
    /\ NONE \notin Ids \cup Conds
    /\ NONE \notin Hints
    /\ NONE \notin Result
    /\ NONE \notin Slot

VARIABLES
    sticky,     \* sticky[k]: the live entry of the sticky cache, or NONE
    inflight,   \* inflight[k]: the in-flight slot, or NONE
    pc,         \* where each request stands
    key,        \* the debounce key a request asked for
    client,     \* the hints its client sent, or NONE
    id,         \* the generation id the request holds a reference to, or NONE
    msg,        \* the value in the request's oneshot channel, or NONE
    toSend,     \* senders a completing leader has still to use
    outcome,    \* the result the request ends with, or NONE
    epoch,      \* history: leaders elected so far for a key
    term,       \* history: the election a request won or last joined, 0 if none
    published   \* history: results published for a key

locals == <<key, client, outcome, epoch, term, published>>
vars == <<sticky, inflight, pc, key, client, id, msg, toSend, outcome,
          epoch, term, published>>

-----------------------------------------------------------------------------
\* Seeded fault: validators are compared, two clients without any are not.
debounce_matches_validators_only(result, c) ==
    result.kind = "notmodified" =>
        result.hints # NONE /\ c # NONE /\ result.hints.cond = c.cond

(* An empty NotModified result only serves a client that holds the same    *)
(* representation; every other result serves everybody.                    *)
debounce_matches(result, c) ==
    result.kind = "notmodified" =>
        /\ result.hints # NONE
        /\ c # NONE
        /\ result.hints.cond = c.cond
        /\ result.hints.cond = NONE => result.hints.exp = c.exp

\* Arc::ptr_eq of the slot's id with an id somebody holds.
IsCurrent(k, i) == inflight[k] # NONE /\ inflight[k].id = i

\* Seeded fault: joiners keep the address without a reference to it.
LiveIdsOfLeaders == {id[r] : r \in {q \in Requests : pc[q] \in {"lead", "notify", "drop"}}}
                    \cup {inflight[k].id : k \in {j \in Keys : inflight[j] # NONE}}

(* The allocator never hands out an address somebody still references; it  *)
(* may hand out one whose last reference is gone.                          *)
LiveIds == {id[r] : r \in Requests}
           \cup {inflight[k].id : k \in {j \in Keys : inflight[j] # NONE}}

\* r's sender is still somewhere: dropping it closes r's channel.
SenderAlive(r) ==
    \/ inflight[key[r]] # NONE /\ r \in inflight[key[r]].waiters
    \/ \E l \in Requests : r \in toSend[l]

\* A dropped receiver: what is sent to it from now on goes nowhere.
SlotsWithout(r) ==
    [k \in Keys |-> IF inflight[k] = NONE THEN NONE
                    ELSE [inflight[k] EXCEPT !.waiters = @ \ {r}]]
SendsWithout(r) == [l \in Requests |-> toSend[l] \ {r}]

\* CacheFrontend::cancel: remove the slot of this generation and no other.
cancel(k, i) ==
    inflight' = IF IsCurrent(k, i) THEN [inflight EXCEPT ![k] = NONE] ELSE inflight

-----------------------------------------------------------------------------
Init ==
    /\ sticky = [k \in Keys |-> NONE]
    /\ inflight = [k \in Keys |-> NONE]
    /\ pc = [r \in Requests |-> "idle"]
    /\ key \in [Requests -> Keys]
    /\ client \in [Requests -> Hints \cup {NONE}]
    /\ id = [r \in Requests |-> NONE]
    /\ msg = [r \in Requests |-> NONE]
    /\ toSend = [r \in Requests |-> {}]
    /\ outcome = [r \in Requests |-> NONE]
    /\ epoch = [k \in Keys |-> 0]
    /\ term = [r \in Requests |-> 0]
    /\ published = [k \in Keys |-> {}]

\* A request reaches debounce_lookup.
Arrive(r) ==
    /\ pc[r] = "idle"
    /\ pc' = [pc EXCEPT ![r] = "lookup"]
    /\ UNCHANGED <<sticky, inflight, id, msg, toSend, locals>>

\* The sticky entry expires, or moka evicts it.
StickyExpire(k) ==
    /\ sticky[k] # NONE
    /\ sticky' = [sticky EXCEPT ![k] = NONE]
    /\ UNCHANGED <<inflight, pc, id, msg, toSend, locals>>

StickyHit(r) == sticky[key[r]] # NONE /\ debounce_matches(sticky[key[r]], client[r])

\* CacheFrontend::lookup, first branch.
LookupHit(r) ==
    /\ pc[r] = "lookup"
    /\ StickyHit(r)
    /\ pc' = [pc EXCEPT ![r] = "done"]
    /\ outcome' = [outcome EXCEPT ![r] = sticky[key[r]]]
    /\ UNCHANGED <<sticky, inflight, key, client, id, msg, toSend, epoch, term, published>>

\* CacheFrontend::lookup, second branch: push a sender on the slot.
LookupJoin(r) ==
    /\ pc[r] = "lookup"
    /\ ~StickyHit(r)
    /\ inflight[key[r]] # NONE
    /\ inflight' = [inflight EXCEPT ![key[r]].waiters = @ \cup {r}]
    /\ id' = [id EXCEPT ![r] = inflight[key[r]].id]
    /\ msg' = [msg EXCEPT ![r] = NONE]
    /\ pc' = [pc EXCEPT ![r] = "wait"]
    /\ term' = [term EXCEPT ![r] = epoch[key[r]]]
    /\ UNCHANGED <<sticky, key, client, toSend, outcome, epoch, published>>

\* CacheFrontend::lookup, third branch: insert a slot with a fresh id.
LookupLead(r, i) ==
    /\ pc[r] = "lookup"
    /\ ~StickyHit(r)
    /\ inflight[key[r]] = NONE
    /\ i \in Ids \ LiveIds
    /\ inflight' = [inflight EXCEPT ![key[r]] = [id |-> i, waiters |-> {}]]
    /\ id' = [id EXCEPT ![r] = i]
    /\ pc' = [pc EXCEPT ![r] = "lead"]
    /\ epoch' = [epoch EXCEPT ![key[r]] = @ + 1]
    /\ term' = [term EXCEPT ![r] = epoch[key[r]] + 1]
    /\ UNCHANGED <<sticky, key, client, msg, toSend, outcome, published>>

\* The joiner's loop, Ok(Ok(result)): return it, or look again.
Receive(r) ==
    /\ pc[r] = "wait"
    /\ msg[r] # NONE
    /\ IF debounce_matches(msg[r], client[r])
       THEN /\ pc' = [pc EXCEPT ![r] = "done"]
            /\ outcome' = [outcome EXCEPT ![r] = msg[r]]
       ELSE /\ pc' = [pc EXCEPT ![r] = "lookup"]
            /\ UNCHANGED outcome
    /\ msg' = [msg EXCEPT ![r] = NONE]
    /\ id' = [id EXCEPT ![r] = NONE]
    /\ UNCHANGED <<sticky, inflight, key, client, toSend, epoch, term, published>>

\* The joiner's loop, Ok(Err(_)): the sender was dropped, look again.
ReceiveClosed(r) ==
    /\ pc[r] = "wait"
    /\ msg[r] = NONE
    /\ ~SenderAlive(r)
    /\ pc' = [pc EXCEPT ![r] = "lookup"]
    /\ id' = [id EXCEPT ![r] = NONE]
    /\ UNCHANGED <<sticky, inflight, msg, toSend, locals>>

\* Seeded fault: a joiner waits for its leader without a limit.
TimeoutNever(r) == FALSE /\ UNCHANGED vars

\* The joiner's loop, Err(error): the timer fired, the receiver is dropped ...
Timeout(r) ==
    /\ pc[r] = "wait"
    /\ msg[r] = NONE
    /\ SenderAlive(r)
    /\ pc' = [pc EXCEPT ![r] = "cancel"]
    /\ inflight' = SlotsWithout(r)
    /\ toSend' = SendsWithout(r)
    /\ UNCHANGED <<sticky, id, msg, locals>>

\* ... and fe.cancel(key, &id) runs before the next lookup.
JoinerCancel(r) ==
    /\ pc[r] = "cancel"
    /\ cancel(key[r], id[r])
    /\ id' = [id EXCEPT ![r] = NONE]
    /\ pc' = [pc EXCEPT ![r] = "lookup"]
    /\ UNCHANGED <<sticky, msg, toSend, locals>>

\* Seeded fault: complete publishes whichever generation owns the slot.
LeaderCompleteAnyGeneration(r, result) ==
    /\ pc[r] = "lead"
    /\ result.kind # "intermediate"
    /\ outcome' = [outcome EXCEPT ![r] = result]
    /\ sticky' = [sticky EXCEPT ![key[r]] = result]
    /\ toSend' = [toSend EXCEPT ![r] = IF inflight[key[r]] = NONE THEN {}
                                       ELSE inflight[key[r]].waiters]
    /\ inflight' = [inflight EXCEPT ![key[r]] = NONE]
    /\ published' = [published EXCEPT ![key[r]] = @ \cup {result}]
    /\ pc' = [pc EXCEPT ![r] = "notify"]
    /\ UNCHANGED <<key, client, id, msg, epoch, term>>

\* Seeded fault: complete does not look at the status of the result.
LeaderCompleteAnyStatus(r, result) ==
    /\ pc[r] = "lead"
    /\ outcome' = [outcome EXCEPT ![r] = result]
    /\ IsCurrent(key[r], id[r])
    /\ sticky' = [sticky EXCEPT ![key[r]] = result]
    /\ toSend' = [toSend EXCEPT ![r] = inflight[key[r]].waiters]
    /\ inflight' = [inflight EXCEPT ![key[r]] = NONE]
    /\ published' = [published EXCEPT ![key[r]] = @ \cup {result}]
    /\ pc' = [pc EXCEPT ![r] = "notify"]
    /\ UNCHANGED <<key, client, id, msg, epoch, term>>

(* DebounceLeader::complete with a final result, the section of            *)
(* CacheFrontend::complete under the lock.  A superseded leader publishes  *)
(* nothing; its own client still gets the result.                          *)
LeaderComplete(r, result) ==
    /\ pc[r] = "lead"
    /\ result.kind # "intermediate"
    /\ outcome' = [outcome EXCEPT ![r] = result]
    /\ IF IsCurrent(key[r], id[r])
       THEN /\ sticky' = [sticky EXCEPT ![key[r]] = result]
            /\ toSend' = [toSend EXCEPT ![r] = inflight[key[r]].waiters]
            /\ inflight' = [inflight EXCEPT ![key[r]] = NONE]
            /\ published' = [published EXCEPT ![key[r]] = @ \cup {result}]
            /\ pc' = [pc EXCEPT ![r] = "notify"]
       ELSE /\ pc' = [pc EXCEPT ![r] = "drop"]
            /\ UNCHANGED <<sticky, toSend, inflight, published>>
    /\ UNCHANGED <<key, client, id, msg, epoch, term>>

\* DebounceLeader::complete with an intermediate result returns at once.
LeaderIntermediate(r, result) ==
    /\ pc[r] = "lead"
    /\ result.kind = "intermediate"
    /\ outcome' = [outcome EXCEPT ![r] = result]
    /\ pc' = [pc EXCEPT ![r] = "drop"]
    /\ UNCHANGED <<sticky, inflight, key, client, id, msg, toSend, epoch, term, published>>

\* One tx.send of CacheFrontend::complete, the lock released.
Send(l, r) ==
    /\ pc[l] = "notify"
    /\ r \in toSend[l]
    /\ msg' = [msg EXCEPT ![r] = outcome[l]]
    /\ toSend' = [toSend EXCEPT ![l] = @ \ {r}]
    /\ UNCHANGED <<sticky, inflight, pc, id, locals>>

\* CacheFrontend::complete returns.
NotifyDone(l) ==
    /\ pc[l] = "notify"
    /\ toSend[l] = {}
    /\ pc' = [pc EXCEPT ![l] = "drop"]
    /\ UNCHANGED <<sticky, inflight, id, msg, toSend, locals>>

\* The cook is dropped while it runs: its client went away.
LeaderAbort(r) ==
    /\ pc[r] = "lead"
    /\ pc' = [pc EXCEPT ![r] = "drop"]
    /\ UNCHANGED <<sticky, inflight, id, msg, toSend, locals>>

\* Seeded fault: a guard without a Drop implementation.
DropLeaderKeepsSlot(r) ==
    /\ pc[r] = "drop"
    /\ id' = [id EXCEPT ![r] = NONE]
    /\ pc' = [pc EXCEPT ![r] = IF outcome[r] = NONE THEN "gone" ELSE "done"]
    /\ UNCHANGED <<sticky, inflight, msg, toSend, locals>>

\* Drop for DebounceLeader.
DropLeader(r) ==
    /\ pc[r] = "drop"
    /\ cancel(key[r], id[r])
    /\ id' = [id EXCEPT ![r] = NONE]
    /\ pc' = [pc EXCEPT ![r] = IF outcome[r] = NONE THEN "gone" ELSE "done"]
    /\ UNCHANGED <<sticky, msg, toSend, locals>>

\* The waiting task is dropped: its client went away.
JoinerAbort(r) ==
    /\ pc[r] = "wait"
    /\ pc' = [pc EXCEPT ![r] = "gone"]
    /\ id' = [id EXCEPT ![r] = NONE]
    /\ msg' = [msg EXCEPT ![r] = NONE]
    /\ inflight' = SlotsWithout(r)
    /\ toSend' = SendsWithout(r)
    /\ UNCHANGED <<sticky, locals>>

(* The results the cook of r can end with: NotModified needs a client copy *)
(* to confirm.                                                             *)
CookResult(r) ==
    {res \in Result :
        /\ res.by = r
        /\ res.kind = "notmodified" => client[r] # NONE
        /\ res.kind # "notmodified" => res.hints = NONE}

Step(r) ==
    \/ LookupHit(r)
    \/ LookupJoin(r)
    \/ \E i \in Ids : LookupLead(r, i)
    \/ Receive(r)
    \/ ReceiveClosed(r)
    \/ Timeout(r)
    \/ JoinerCancel(r)
    \/ \E w \in Requests : Send(r, w)
    \/ NotifyDone(r)
    \/ DropLeader(r)

Next ==
    \/ \E r \in Requests :
        \/ Arrive(r)
        \/ Step(r)
        \/ \E res \in CookResult(r) : LeaderComplete(r, res) \/ LeaderIntermediate(r, res)
        \/ LeaderAbort(r)
        \/ JoinerAbort(r)
    \/ \E k \in Keys : StickyExpire(k)

Spec == Init /\ [][Next]_vars

(* The runtime polls a woken task, a timer fires, a synchronous section    *)
(* runs to its end.  Nothing is assumed of a cook: it may never end.       *)
FairSpec == Spec /\ \A r \in Requests : WF_vars(Step(r))
-----------------------------------------------------------------------------
(* Types of the frontend's state and of the requests' local state: the     *)
(* sticky cache and the channels only ever hold final results.             *)
TypeOK ==
    /\ sticky \in [Keys -> FinalResult \cup {NONE}]
    /\ inflight \in [Keys -> Slot \cup {NONE}]
    /\ pc \in [Requests -> {"idle", "lookup", "wait", "cancel", "lead",
                            "notify", "drop", "done", "gone"}]
    /\ key \in [Requests -> Keys]
    /\ client \in [Requests -> Hints \cup {NONE}]
    /\ id \in [Requests -> Ids \cup {NONE}]
    /\ msg \in [Requests -> FinalResult \cup {NONE}]
    /\ toSend \in [Requests -> SUBSET Requests]
    /\ outcome \in [Requests -> Result \cup {NONE}]
    /\ epoch \in [Keys -> Nat]
    /\ term \in [Requests -> Nat]
    /\ published \in [Keys -> SUBSET FinalResult]

(* A slot in the table always belongs to a leader that will still release  *)
(* it: one that cooks, or whose guard is about to be dropped.  However a   *)
(* cook ends, no key is left with a slot nobody serves.                    *)
SlotOwned ==
    \A k \in Keys : inflight[k] # NONE =>
        \E r \in Requests : /\ pc[r] \in {"lead", "drop"}
                            /\ key[r] = k
                            /\ id[r] = inflight[k].id

(* A request that is answered with an empty NotModified that another       *)
(* request's cook produced holds the very copy it confirms: the same       *)
(* validators or, when there are none, the same expiry.                    *)
NotModifiedHasCopy ==
    \A r \in Requests :
        (outcome[r] # NONE /\ outcome[r].kind = "notmodified" /\ outcome[r].by # r) =>
            /\ client[r] # NONE
            /\ outcome[r].hints # NONE
            /\ client[r].cond = outcome[r].hints.cond
            /\ client[r].cond = NONE => client[r].exp = outcome[r].hints.exp

(* What arrives in a joiner's channel was cooked by the leader of the      *)
(* generation the joiner joined, however many times ids were reused and    *)
(* however late the sends of an earlier leader run.                        *)
DeliveredByOwnLeader ==
    \A r \in Requests :
        (pc[r] = "wait" /\ msg[r] # NONE) =>
            /\ key[msg[r].by] = key[r]
            /\ term[msg[r].by] = term[r]

(* "superseded leaders cannot publish": when a result enters the sticky    *)
(* cache, its cook is the last leader elected for the key, even when no    *)
(* slot is left and nothing was published since.                           *)
LastElectedPublishes ==
    [][\A k \in Keys :
        (sticky'[k] # sticky[k] /\ sticky'[k] # NONE) =>
            /\ key[sticky'[k].by] = k
            /\ term[sticky'[k].by] = epoch[k]]_vars

(* A leader that still cooks loses its slot only to a joiner of its own    *)
(* generation whose wait timed out: neither the guard of an earlier leader *)
(* nor a joiner of an earlier generation can take it away.                 *)
SupersededOnlyByTimeout ==
    [][\A r \in Requests :
        (/\ pc[r] = "lead" /\ pc'[r] = "lead"
         /\ IsCurrent(key[r], id[r])
         /\ ~(inflight'[key[r]] # NONE /\ inflight'[key[r]].id = id[r])) =>
            \E w \in Requests : pc[w] = "cancel" /\ key[w] = key[r] /\ term[w] = term[r]]_vars

(* Every lookup returns: with a result or with the leader's guard, though  *)
(* cooks may hang forever (a client may also leave).                       *)
LookupReturns ==
    \A r \in Requests :
        pc[r] = "lookup" ~> pc[r] \in {"lead", "notify", "drop", "done", "gone"}

-----------------------------------------------------------------------------
(* The inductive invariant behind the properties above.                    *)
Leaders == {r \in Requests : pc[r] \in {"lead", "notify", "drop"}}

\* No two leaders share an id: an id is fresh while anybody refers to it.
LeaderIdsDiffer ==
    \A r, q \in Leaders : id[r] \in Ids /\ (id[r] = id[q] => r = q)

\* The owner of a slot is the last leader elected for the key.
SlotOwnerIsLast ==
    \A k \in Keys : inflight[k] # NONE =>
        \E r \in Requests : /\ pc[r] \in {"lead", "drop"}
                            /\ key[r] = k
                            /\ id[r] = inflight[k].id
                            /\ term[r] = epoch[k]

\* A joiner that refers to a live leader's id joined that leader.
JoinedItsLeader ==
    \A w \in Requests, r \in Leaders :
        (pc[w] \in {"wait", "cancel"} /\ id[w] = id[r]) =>
            key[w] = key[r] /\ term[w] = term[r]

\* Every sender belongs to a joiner that still waits on that generation.
SendersWait ==
    /\ \A k \in Keys : inflight[k] # NONE =>
        \A w \in inflight[k].waiters :
            pc[w] = "wait" /\ msg[w] = NONE /\ key[w] = k /\ id[w] = inflight[k].id
    /\ \A l, w \in Requests : w \in toSend[l] =>
            /\ pc[l] = "notify"
            /\ pc[w] = "wait"
            /\ msg[w] = NONE
            /\ id[w] = id[l]
            /\ key[w] = key[l]
            /\ term[w] = term[l]

\* The result res is public, and its cook is over.
PublishedBy(res, k) ==
    /\ res \in published[k]
    /\ res.kind # "intermediate"
    /\ key[res.by] = k
    /\ pc[res.by] \in {"notify", "drop", "done"}
    /\ outcome[res.by] # NONE

\* Whatever the sticky cache and the channels hold was published.
OnlyPublishedTravels ==
    /\ \A k \in Keys : sticky[k] # NONE => PublishedBy(sticky[k], k)
    /\ \A l \in Requests : pc[l] = "notify" =>
            outcome[l] # NONE /\ outcome[l].by = l /\ PublishedBy(outcome[l], key[l])
    /\ \A r \in Requests : msg[r] # NONE => PublishedBy(msg[r], key[r])

\* Until its cook ends, a request has no outcome.
NoEarlyOutcome ==
    \A r \in Requests :
        pc[r] \in {"idle", "lookup", "wait", "cancel", "lead"} => outcome[r] = NONE

IInv ==
    /\ TypeOK
    /\ LeaderIdsDiffer
    /\ SlotOwnerIsLast
    /\ JoinedItsLeader
    /\ SendersWait
    /\ OnlyPublishedTravels
    /\ NoEarlyOutcome
    /\ DeliveredByOwnLeader
-----------------------------------------------------------------------------
(* What the frontend promises, without slots, channels or time.            *)
Phase(r) == CASE pc[r] = "idle" -> "idle"
              [] pc[r] \in {"lookup", "wait", "cancel"} -> "pending"
              [] pc[r] = "lead" -> "cooking"
              [] pc[r] = "gone" \/ (pc[r] = "drop" /\ outcome[r] = NONE) -> "gone"
              [] OTHER -> "served"

C == INSTANCE Coalesce WITH phase <- [r \in Requests |-> Phase(r)]

(* Every answer is the request's own cook or a final result another cook   *)
(* published for the same key and that fits the client's copy.             *)
ImplementsCoalesce == C!Spec
=============================================================================
