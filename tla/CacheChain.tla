----------------------------- MODULE CacheChain -----------------------------
(***************************************************************************)
(* The durable cache of tier 1: a chain of backends (chain.rs) whose links *)
(* are in-memory (memory.rs), SQLite (sqlite.rs) or the cloud service      *)
(* (cloud.rs), and the pin aliases the last link owns (pins.rs).           *)
(*                                                                         *)
(* A cook reads the links in order, decides, writes every link in order,   *)
(* and claims a pin.  A link runs each call under its lock, so a call on   *)
(* one link is one step; everything between two calls interleaves with the *)
(* other cooks, with the promotions reads leave behind, with evictions and *)
(* with the clock.  A cook can be dropped between two calls.  A call on the *)
(* cloud is a request that may be lost, before or after the service acted  *)
(* on it, or act after the cook has given it up; and what the service      *)
(* writes may be a row it had worked out from an older one, since its      *)
(* conditional insertions and pin refreshes are not transactions.          *)
(***************************************************************************)
EXTENDS Naturals, FiniteSets

CONSTANTS
    N,          \* number of links; link 1 is read first
    Setups,     \* the chains, pin lifetimes, keys and spans of time to look at
    Keys,
    Cooks,
    Ids,        \* pin identifiers
    Attempts,   \* candidates tried before a claim gives up (256 in the code)
    Candidate,  \* Candidate[k][a]: the identifier of key k, attempt a
    CacheTtl,   \* retention a cacheable response earns
    Strings,    \* cache strings
    EMPTY,      \* the one of a response that must not be cached
    MaxLost,    \* bound on the requests to the cloud that go wrong
    NONE

Tiers == 1..N

ASSUME ChainAssumption ==
    /\ N \in Nat \ {0, 1}
    /\ Setups \subseteq [kind : [Tiers -> {"memory", "sqlite", "cloud"}], pin : Nat,
                          plan : Nat \ {0}, keys : SUBSET Keys,
                          strings : SUBSET Strings, MaxTime : Nat]
    /\ \A s \in Setups, t \in Tiers : s.kind[t] = "cloud" => t = N
    /\ Attempts \in Nat \ {0}
    /\ Candidate \in [Keys -> [0..(Attempts - 1) -> Ids]]
    /\ CacheTtl \in Nat
    /\ EMPTY \in Strings
    /\ MaxLost \in Nat

(* A CacheEntry: `ver` names the cook that rendered the thumbnail, `cache` *)
(* is its cache string, which another render may have as well, and `tok`   *)
(* names the cook whose response it is from (the code cannot tell);        *)
(* freshness is left open.                                                 *)
Entry == [ver : Cooks, tok : Cooks, cache : Strings, cache_until : Nat, pin_until : Nat]

ASSUME NoneAssumption ==
    NONE \notin Entry \cup Keys \cup Ids \cup Strings \cup [key : Keys, until : Nat]

VARIABLES
    setup,      \* the chain of TBR_CACHE, default_pin_ttl, the account's plan
    now,        \* unix_now_secs()
    store,      \* store[t][k]: the row of key k in link t, or NONE
    alias,      \* alias[i]: the key pin i stands for in the last link, or NONE
    tasks,      \* spawned promotions, requests given up, writes on their way
    lost,       \* requests to the cloud that went wrong so far
    pc,
    key,
    at,         \* the link the cook's current call is for
    held,       \* the entry the cook has read, or NONE
    missed,     \* links that missed before the first hit
    copy,       \* the entry a write phase carries, or NONE
    expected,   \* the cache string a revalidation expects, or NONE
    attempt,    \* attempt of the claim loop
    retried,    \* the claim loop runs for the second time
    until,      \* the deadline the successful claim asked for
    promised,   \* history: pins handed to clients, with their deadlines
    granted,    \* history: the cache_until a cook asked for
    answer      \* history: the render and the cache string of a cook's response

cook == <<pc, key, at, held, missed, copy, expected, attempt, retried, until>>
history == <<promised, granted, answer>>
vars == <<setup, now, store, alias, tasks, lost, cook, history>>

-----------------------------------------------------------------------------
\* Kind[t]: what link t is.
Kind == setup.kind
PinTtl == setup.pin

MaxOf(a, b) == IF a >= b THEN a ELSE b
MinOf(a, b) == IF a <= b THEN a ELSE b

\* CacheEntry::retain_until.
retain_until(e) == MaxOf(e.cache_until, e.pin_until)

Live(e) == e # NONE /\ retain_until(e) > now
PinLive(e) == e # NONE /\ e.pin_until > now

\* CacheEntry::access: the entry after an ordinary or a pin lookup that hits.
Hits(e, pin) == e # NONE /\ (IF pin THEN e.pin_until ELSE e.cache_until) > now
access(e, pin, ttl) ==
    IF ~pin /\ ttl > 0 THEN [e EXCEPT !.pin_until = MaxOf(@, now + ttl)] ELSE e

\* The pin lifetime link t gives: the cloud's ends with the account's plan.
Ttl(t) == IF Kind[t] = "cloud" THEN MinOf(PinTtl, setup.plan) ELSE PinTtl

\* The cloud caps both deadlines at the plan's maximum.
Capped(t, e) ==
    IF Kind[t] = "cloud"
    THEN [e EXCEPT !.cache_until = MinOf(@, now + setup.plan),
                   !.pin_until = MinOf(@, now + setup.plan)]
    ELSE e

\* A deleted SQLite row takes its aliases with it; memory aliases stay.
Cascade(last) ==
    [i \in Ids |-> IF /\ Kind[N] = "sqlite"
                      /\ alias[i] # NONE
                      /\ last[alias[i]] = NONE
                   THEN NONE ELSE alias[i]]

SetLink(t, rows) ==
    /\ store' = [store EXCEPT ![t] = rows]
    /\ alias' = IF t = N THEN Cascade(rows) ELSE alias

\* Rows of a link after its fully expired ones are dropped.
Purged(rows) == [k \in Keys |-> IF Live(rows[k]) THEN rows[k] ELSE NONE]

(* Write e under k.  SQLite purges expired rows after every write; memory  *)
(* does so on a put of a live entry, and drops k when e itself is dead.    *)
Insert(t, k, e, isPut) ==
    IF Kind[t] = "sqlite" \/ (isPut /\ Live(e))
    THEN Purged([store[t] EXCEPT ![k] = Capped(t, e)])
    ELSE [store[t] EXCEPT ![k] = IF Live(e) THEN Capped(t, e) ELSE NONE]

\* An entry that takes the place of another keeps the later pin deadline.
KeepPin(e, old) ==
    IF old = NONE THEN e ELSE [e EXCEPT !.pin_until = MaxOf(@, old.pin_until)]

put(t, k, e) == SetLink(t, Insert(t, k, KeepPin(e, store[t][k]), TRUE))

\* Seeded fault: the copy is written whatever the link holds.
promoteAlways(t, k, e) ==
    IF ~Live(e) THEN UNCHANGED <<store, alias>>
    ELSE SetLink(t, Insert(t, k, KeepPin(e, store[t][k]), FALSE))

\* Seeded fault: the copy starts a lifetime of its own.
promoteRenews(t, k, e) ==
    IF ~Live(e) \/ Live(store[t][k]) THEN UNCHANGED <<store, alias>>
    ELSE SetLink(t, Insert(t, k, [e EXCEPT !.cache_until = now + CacheTtl], FALSE))

\* Copy an entry that is still live to a link that has no live one.
promote(t, k, e) ==
    IF ~Live(e) \/ Live(store[t][k]) THEN UNCHANGED <<store, alias>>
    ELSE SetLink(t, Insert(t, k, e, FALSE))

\* A row that a revalidation of cache string c leaves alone.
Differs(t, k, c) == store[t][k] # NONE /\ store[t][k].cache # c

\* Seeded fault: the deadline read before the conditional GET is written back.
revalidateResetsPin(t, k, e, c) ==
    IF Differs(t, k, c) THEN UNCHANGED <<store, alias>>
    ELSE SetLink(t, Insert(t, k, e, FALSE))

(* Replace the row whose cache string was revalidated; a link without the  *)
(* key takes the entry, one with another cache string does not.            *)
revalidate(t, k, e, c) ==
    IF Differs(t, k, c) THEN UNCHANGED <<store, alias>>
    ELSE SetLink(t, Insert(t, k, KeepPin(e, store[t][k]), FALSE))

-----------------------------------------------------------------------------
Init ==
    /\ setup \in Setups
    /\ now = 0
    /\ store = [t \in Tiers |-> [k \in Keys |-> NONE]]
    /\ alias = [i \in Ids |-> NONE]
    /\ tasks = {}
    /\ lost = 0
    /\ pc = [r \in Cooks |-> "idle"]
    /\ key \in [Cooks -> setup.keys]
    /\ at = [r \in Cooks |-> 1]
    /\ held = [r \in Cooks |-> NONE]
    /\ missed = [r \in Cooks |-> {}]
    /\ copy = [r \in Cooks |-> NONE]
    /\ expected = [r \in Cooks |-> NONE]
    /\ attempt = [r \in Cooks |-> 0]
    /\ retried = [r \in Cooks |-> FALSE]
    /\ until = [r \in Cooks |-> 0]
    /\ promised = {}
    /\ granted = [r \in Cooks |-> 0]
    /\ answer = [r \in Cooks |-> [ver |-> r, cache |-> EMPTY]]

Goto(r, l) ==
    /\ pc' = [pc EXCEPT ![r] = l]
    /\ at' = [at EXCEPT ![r] = 1]

\* finish looks for a pin when the deferred writes are done.
AfterWrites == IF PinTtl = 0 THEN "done" ELSE "pinget"

\* resolve_cache reads the durable entry, or trusts the client's fresh copy.
Begin(r) ==
    /\ pc[r] = "idle"
    /\ Goto(r, "get") \/ Goto(r, AfterWrites)
    /\ UNCHANGED <<now, store, alias, tasks, key, held, missed, copy, expected,
                   attempt, retried, until, history>>

\* A call on a link that has not been made, or a request under way to it.
Request(op, t, k, e, c, from) ==
    [op |-> op, tier |-> t, key |-> k, entry |-> e, cache |-> c, from |-> from]

\* pin_result looks for an entry, then for one that is only pinned.
AfterRead(phase, found) ==
    IF phase = "get" THEN "decide"
    ELSE IF found # NONE THEN "claim"
    ELSE IF phase = "pinget" THEN "pinonly" ELSE "done"

(* One link of a chain read: get_entry with the pin lifetime ("get"),      *)
(* get_entry without ("pinget") and get_pin_entry ("pinonly").  The first  *)
(* hit is what is found, and leaves promotions to the links that missed.   *)
Extends(r) == IF pc[r] = "get" THEN Ttl(at[r]) ELSE 0
Hit(r) == Hits(store[at[r]][key[r]], pc[r] = "pinonly")
Accessed(r) == access(store[at[r]][key[r]], pc[r] = "pinonly", Extends(r))

Promotions(r) ==
    IF Hit(r) /\ held[r] = NONE
    THEN {Request("promote", m, key[r], Accessed(r), NONE, <<r, pc[r]>>) : m \in missed[r]}
    ELSE {}

Found(r) == IF Hit(r) /\ held[r] = NONE THEN Accessed(r) ELSE held[r]

Receive(r) ==
    LET last == at[r] = N \/ (Hit(r) /\ (pc[r] = "get" => PinTtl = 0))
    IN  /\ pc[r] \in {"get", "pinget", "pinonly"}
        /\ held' = [held EXCEPT ![r] = Found(r)]
        /\ IF last
           THEN /\ Goto(r, AfterRead(pc[r], Found(r)))
                /\ missed' = [missed EXCEPT ![r] = {}]
           ELSE /\ at' = [at EXCEPT ![r] = @ + 1]
                /\ missed' = [missed EXCEPT ![r] = IF Found(r) = NONE THEN @ \cup {at[r]} ELSE @]
                /\ UNCHANGED pc
        /\ UNCHANGED <<now, key, copy, expected, attempt, retried, until, history>>

Read(r) ==
    LET t    == at[r]
        k    == key[r]
        dead == Kind[t] = "memory" /\ store[t][k] # NONE /\ ~Live(store[t][k])
    IN  /\ Receive(r)
        /\ SetLink(t, [store[t] EXCEPT
                         ![k] = IF Hit(r) THEN Accessed(r) ELSE IF dead THEN NONE ELSE @])
        /\ tasks' = tasks \cup Promotions(r)

\* The entry is fresh, or the source says 304 to the client's own copy.
Serve(r) ==
    /\ pc[r] = "decide"
    /\ Goto(r, AfterWrites)
    /\ held' = [held EXCEPT ![r] = NONE]
    /\ UNCHANGED <<now, store, alias, tasks, key, missed, copy, expected, attempt,
                   retried, until, history>>

\* cache_until of what is stored now: zero when it must not be cached.
Deadlines == {0, now + CacheTtl}

\* Cache strings that go with it: of a response that must not be cached, EMPTY.
Encoded(deadline) == {c \in setup.strings : c = EMPTY => deadline = 0}

\* The source says 304 to the entry's validator, which its cache string holds.
NotModified(r, deadline, c) ==
    /\ pc[r] = "decide"
    /\ held[r] # NONE /\ held[r].cache # EMPTY
    /\ copy' = [copy EXCEPT ![r] =
                   [held[r] EXCEPT !.tok = r, !.cache = c, !.cache_until = deadline]]
    /\ expected' = [expected EXCEPT ![r] = held[r].cache]
    /\ held' = [held EXCEPT ![r] = NONE]
    /\ granted' = [granted EXCEPT ![r] = deadline]
    /\ answer' = [answer EXCEPT ![r] = [ver |-> held[r].ver, cache |-> c]]
    /\ Goto(r, "reval")
    /\ UNCHANGED <<now, store, alias, tasks, key, missed, attempt, retried, until, promised>>

\* The source is rendered; CacheStore::store defers the put.
Rendered(r, deadline, c) ==
    /\ pc[r] = "decide"
    /\ copy' = [copy EXCEPT ![r] = [ver |-> r, tok |-> r, cache |-> c,
                                    cache_until |-> deadline, pin_until |-> 0]]
    /\ held' = [held EXCEPT ![r] = NONE]
    /\ granted' = [granted EXCEPT ![r] = deadline]
    /\ answer' = [answer EXCEPT ![r] = [ver |-> r, cache |-> c]]
    /\ Goto(r, "put")
    /\ UNCHANGED <<now, store, alias, tasks, key, missed, expected, attempt, retried,
                   until, promised>>

\* The phase a write loop over the links is followed by.
Advance(r, next) ==
    IF at[r] = N THEN Goto(r, next)
    ELSE at' = [at EXCEPT ![r] = @ + 1] /\ UNCHANGED pc

\* CacheEntry::new: the pin deadline runs from the write.
Pinned(e) == [e EXCEPT !.pin_until = IF PinTtl = 0 THEN 0 ELSE now + PinTtl]

\* The cloud is not told of an entry that is neither cached nor pinned.
Elapsed(r) == Kind[at[r]] = "cloud" /\ ~Live(Pinned(copy[r]))

\* finish awaits the deferred writes, one link after the other.
PutLink(r) ==
    /\ pc[r] = "put" /\ ~Elapsed(r)
    /\ put(at[r], key[r], Pinned(copy[r]))
    /\ Advance(r, AfterWrites)
    /\ UNCHANGED <<now, tasks, key, held, missed, copy, expected, attempt, retried,
                   until, history>>

RevalidateLink(r) ==
    /\ pc[r] = "reval"
    /\ revalidate(at[r], key[r], copy[r], expected[r])
    /\ Advance(r, AfterWrites)
    /\ UNCHANGED <<now, tasks, key, held, missed, copy, expected, attempt, retried,
                   until, history>>

\* Instead, the put reads what the cloud has ...
Probe(r) ==
    LET e == store[N][key[r]]
    IN  /\ pc[r] = "put" /\ Elapsed(r)
        /\ IF Hits(e, FALSE)
           THEN /\ copy' = [copy EXCEPT ![r].pin_until = e.pin_until]
                /\ expected' = [expected EXCEPT ![r] = e.cache]
                /\ pc' = [pc EXCEPT ![r] = "expire"] /\ UNCHANGED at
           ELSE Advance(r, AfterWrites) /\ UNCHANGED <<copy, expected>>
        /\ UNCHANGED <<now, store, alias, tasks, key, held, missed, attempt, retried,
                       until, history>>

\* ... and replaces that, with a lifetime that is over.
Expire(r) ==
    /\ pc[r] = "expire"
    /\ revalidate(N, key[r], copy[r], expected[r])
    /\ Advance(r, AfterWrites)
    /\ UNCHANGED <<now, tasks, key, held, missed, copy, expected, attempt, retried,
                   until, history>>

\* Aliases whose row is gone or whose pin ran out make room for a claim.
LiveAliases ==
    [i \in Ids |-> IF alias[i] # NONE /\ PinLive(store[N][alias[i]]) THEN alias[i] ELSE NONE]

\* Seeded fault: claim_pin does not look who owns the identifier.
OwnedByOtherIgnored(r, i) == FALSE

OwnedByOther(r, i) == LiveAliases[i] \notin {NONE, key[r]}

\* issue_pin's loop has another attempt.
AttemptsLeft(r) == attempt[r] + 1 < Attempts

(* One attempt of issue_pin on the last link.  A conflict tries the next   *)
(* identifier, a missing row is copied there once, a claim extends the pin.*)
Claim(r) ==
    LET i == Candidate[key[r]][attempt[r]]
        e == store[N][key[r]]
    IN  /\ pc[r] = "claim"
        /\ \/ /\ OwnedByOther(r, i)
              /\ IF AttemptsLeft(r)
                 THEN attempt' = [attempt EXCEPT ![r] = @ + 1] /\ UNCHANGED <<pc, at>>
                 ELSE Goto(r, "done") /\ UNCHANGED attempt
              /\ alias' = IF Kind[N] = "memory" THEN LiveAliases ELSE alias
              /\ UNCHANGED <<store, copy, until>>
           \/ /\ ~OwnedByOther(r, i)
              /\ ~Live(e)
              /\ IF retried[r] THEN Goto(r, "done") /\ UNCHANGED copy
                 ELSE /\ Goto(r, "promote")
                      /\ copy' = [copy EXCEPT ![r] =
                                    [held[r] EXCEPT !.pin_until = MaxOf(@, now + PinTtl)]]
              /\ alias' = IF Kind[N] = "memory" THEN LiveAliases ELSE alias
              /\ UNCHANGED <<store, attempt, until>>
           \/ /\ ~OwnedByOther(r, i)
              /\ Live(e)
              /\ store' = [store EXCEPT ![N][key[r]].pin_until = MaxOf(@, now + Ttl(N))]
              /\ alias' = [LiveAliases EXCEPT ![i] = key[r]]
              /\ until' = [until EXCEPT ![r] = now + PinTtl]
              /\ Goto(r, "confirm")
              /\ UNCHANGED <<copy, attempt>>
        /\ UNCHANGED <<now, tasks, key, held, missed, expected, retried, history>>

\* pin_result copies the entry it has read to the links, then claims again.
PromoteLink(r) ==
    /\ pc[r] = "promote"
    /\ promote(at[r], key[r], copy[r])
    /\ Advance(r, "claim")
    /\ attempt' = [attempt EXCEPT ![r] = 0]
    /\ retried' = [retried EXCEPT ![r] = TRUE]
    /\ UNCHANGED <<now, tasks, key, held, missed, copy, expected, until, history>>

\* refresh_pin_layers reads the claimed row back from the last link ...
Confirm(r) ==
    LET e == store[N][key[r]]
    IN  /\ pc[r] = "confirm"
        /\ IF PinLive(e)
           THEN /\ copy' = [copy EXCEPT ![r] = e]
                /\ Goto(r, "refresh")
                /\ UNCHANGED <<store, alias>>
           ELSE /\ Goto(r, "done")
                /\ SetLink(N, [store[N] EXCEPT
                                 ![key[r]] = IF Kind[N] = "memory" /\ ~Live(@) THEN NONE ELSE @])
                /\ UNCHANGED copy
        /\ UNCHANGED <<now, tasks, key, held, missed, expected, attempt, retried, until, history>>

\* The cook is over; nothing of its local state is left.
End(r, l) ==
    /\ Goto(r, l)
    /\ held' = [held EXCEPT ![r] = NONE]
    /\ missed' = [missed EXCEPT ![r] = {}]
    /\ copy' = [copy EXCEPT ![r] = NONE]
    /\ expected' = [expected EXCEPT ![r] = NONE]
    /\ attempt' = [attempt EXCEPT ![r] = 0]
    /\ retried' = [retried EXCEPT ![r] = FALSE]
    /\ until' = [until EXCEPT ![r] = 0]

\* ... and gives its deadline to the links before; then the pin is handed out.
Refresh(r) ==
    /\ pc[r] = "refresh"
    /\ revalidate(at[r], key[r], copy[r], copy[r].cache)
    /\ IF at[r] = N - 1
       THEN /\ End(r, "done")
            /\ promised' = promised \cup
                 {[id |-> Candidate[key[r]][attempt[r]], key |-> key[r], until |-> until[r]]}
            /\ UNCHANGED <<granted, answer>>
       ELSE /\ at' = [at EXCEPT ![r] = @ + 1]
            /\ UNCHANGED <<pc, held, missed, copy, expected, attempt, retried, until, history>>
    /\ UNCHANGED <<now, tasks, key>>

\* The source cannot be rendered, or the cook's task is dropped.
Leave(r) ==
    /\ pc[r] \notin {"idle", "done", "gone"}
    /\ End(r, "gone")
    /\ UNCHANGED <<now, store, alias, tasks, key, history>>

\* A spawned promotion of ChainCacheBackend::backfill runs, or a late one.
Backfill(task) ==
    /\ task \in tasks /\ task.op = "promote"
    /\ promote(task.tier, task.key, task.entry)
    /\ tasks' = tasks \ {task}
    /\ UNCHANGED <<now, cook, history>>

(* The request of a call on the cloud gets lost on its way, or the answer  *)
(* after the service acted.  A lookup without an answer is a miss; issue_pin*)
(* and the read after it fail, and with them the pin.                      *)
LookupLost(r) ==
    /\ pc[r] \in {"get", "pinget", "pinonly"} /\ at[r] = N
    /\ \/ UNCHANGED <<store, alias>>
       \/ Hit(r) /\ SetLink(N, [store[N] EXCEPT ![key[r]] = Accessed(r)])
    /\ Goto(r, AfterRead(pc[r], held[r]))
    /\ missed' = [missed EXCEPT ![r] = {}]
    /\ UNCHANGED <<now, tasks, key, held, copy, expected, attempt, retried, until, history>>

\* issue_pin finds the row, and no other key that owns the identifier.
Claimable(r) ==
    /\ pc[r] = "claim" /\ Live(store[N][key[r]])
    /\ ~OwnedByOther(r, Candidate[key[r]][attempt[r]])

PinLost(r) ==
    /\ pc[r] \in {"claim", "confirm"}
    /\ \/ UNCHANGED <<store, alias>>
       \/ /\ Claimable(r)
          /\ store' = [store EXCEPT ![N][key[r]].pin_until = MaxOf(@, now + Ttl(N))]
          /\ alias' = [LiveAliases EXCEPT ![Candidate[key[r]][attempt[r]]] = key[r]]
    /\ End(r, "done")
    /\ UNCHANGED <<now, tasks, key, history>>

\* A row worked out from the one that is there, to be written whatever is then.
Landing(r, e) ==
    Request("land", N, key[r], Capped(N, KeepPin(e, store[N][key[r]])), NONE, <<r, pc[r]>>)

(* A lookup or a claim has read the row whose pin it extends and has       *)
(* answered; the row is written back later.                                *)
ReadLate(r) ==
    /\ at[r] = N /\ Hit(r) /\ Extends(r) > 0
    /\ Receive(r)
    /\ tasks' = tasks \cup Promotions(r) \cup {Landing(r, Accessed(r))}
    /\ UNCHANGED <<store, alias>>

ClaimLate(r) ==
    LET e == store[N][key[r]]
    IN  /\ Claimable(r)
        /\ tasks' = tasks \cup
             {Landing(r, [e EXCEPT !.pin_until = MaxOf(@, now + Ttl(N))])}
        /\ alias' = [LiveAliases EXCEPT ![Candidate[key[r]][attempt[r]]] = key[r]]
        /\ until' = [until EXCEPT ![r] = now + PinTtl]
        /\ Goto(r, "confirm")
        /\ UNCHANGED <<now, store, key, held, missed, copy, expected, attempt, retried, history>>

\* The lifetime a put states is relative, those of copies are absolute.
Lifetime(r) == IF copy[r].cache_until > now THEN copy[r].cache_until - now ELSE 0

(* A write ignores its answer; the request may be lost, or act after the   *)
(* client has given it up, or have been decided on what is there now.      *)
WriteLost(r) ==
    LET request(op, e) == Request(op, N, key[r], e, expected[r], <<r, pc[r]>>)
        landing(cond, e) == IF cond THEN {tasks \cup {Landing(r, e)}} ELSE {}
    IN  /\ at[r] = N
        /\ \/ /\ pc[r] = "put" /\ ~Elapsed(r)
              /\ tasks' \in {tasks, tasks \cup {request("put", [copy[r] EXCEPT !.cache_until = Lifetime(r)])}}
                           \cup landing(TRUE, Pinned(copy[r]))
              /\ Advance(r, AfterWrites)
              /\ UNCHANGED <<attempt, retried>>
           \/ /\ pc[r] = "put" /\ Elapsed(r)
              /\ Advance(r, AfterWrites)
              /\ UNCHANGED <<tasks, attempt, retried>>
           \/ /\ pc[r] \in {"reval", "expire"}
              /\ tasks' \in {tasks, tasks \cup {request("revalidate", copy[r])}}
                           \cup landing(~Differs(N, key[r], expected[r]), copy[r])
              /\ Advance(r, AfterWrites)
              /\ UNCHANGED <<attempt, retried>>
           \/ /\ pc[r] = "promote"
              /\ tasks' \in {tasks, tasks \cup {request("promote", copy[r])}}
                           \cup landing(~Live(store[N][key[r]]), copy[r])
              /\ Advance(r, "claim")
              /\ attempt' = [attempt EXCEPT ![r] = 0]
              /\ retried' = [retried EXCEPT ![r] = TRUE]
        /\ UNCHANGED <<now, store, alias, key, held, missed, copy, expected, until, history>>

\* The cloud acts on a write its cook has given up, or its own write lands.
Arrive(task) ==
    /\ task \in tasks /\ Kind[N] = "cloud"
    /\ \/ /\ task.op = "put"
          /\ LET e == Pinned([task.entry EXCEPT !.cache_until = now + @])
             IN  /\ put(N, task.key, e)
                 /\ granted' = [granted EXCEPT ![task.from[1]] = e.cache_until]
       \/ /\ task.op = "revalidate"
          /\ revalidate(N, task.key, task.entry, task.cache)
          /\ UNCHANGED granted
       \/ /\ task.op = "land"
          /\ SetLink(N, [store[N] EXCEPT ![task.key] = task.entry])
          /\ UNCHANGED granted
    /\ tasks' = tasks \ {task}
    /\ UNCHANGED <<now, cook, promised, answer>>

\* Moka evicts an entry of a memory link.
Evict(t, k) ==
    /\ Kind[t] = "memory"
    /\ store[t][k] # NONE
    /\ SetLink(t, [store[t] EXCEPT ![k] = NONE])
    /\ UNCHANGED <<now, tasks, cook, history>>

Tick ==
    /\ now < setup.MaxTime
    /\ now' = now + 1
    /\ UNCHANGED <<store, alias, tasks, cook, history>>

Step(r) ==
    \/ Read(r)
    \/ Serve(r)
    \/ \E d \in Deadlines : \E c \in Encoded(d) : NotModified(r, d, c) \/ Rendered(r, d, c)
    \/ PutLink(r)
    \/ RevalidateLink(r)
    \/ Probe(r)
    \/ Expire(r)
    \/ Claim(r)
    \/ PromoteLink(r)
    \/ Confirm(r)
    \/ Refresh(r)

Unanswered(r) ==
    /\ Kind[N] = "cloud" /\ lost < MaxLost
    /\ LookupLost(r) \/ PinLost(r) \/ ReadLate(r) \/ ClaimLate(r) \/ WriteLost(r)
    /\ lost' = lost + 1

Answered ==
    /\ \/ \E r \in Cooks : Begin(r) \/ Step(r) \/ Leave(r)
       \/ \E task \in tasks : Backfill(task) \/ Arrive(task)
       \/ \E t \in Tiers, k \in Keys : Evict(t, k)
       \/ Tick
    /\ UNCHANGED lost

Next ==
    /\ Answered \/ \E r \in Cooks : Unanswered(r)
    /\ UNCHANGED setup

Spec == Init /\ [][Next]_vars

-----------------------------------------------------------------------------
Phases == {"idle", "get", "pinget", "pinonly", "decide", "put", "reval", "expire", "claim",
           "promote", "confirm", "refresh", "done", "gone"}

(* Types; issue_pin never goes past its last attempt.                      *)
TypeOK ==
    /\ now \in 0..setup.MaxTime
    /\ store \in [Tiers -> [Keys -> Entry \cup {NONE}]]
    /\ alias \in [Ids -> Keys \cup {NONE}]
    /\ tasks \subseteq [op : {"promote", "put", "revalidate", "land"}, tier : Tiers, key : Keys,
                        entry : Entry, cache : Strings \cup {NONE}, from : Cooks \X Phases]
    /\ pc \in [Cooks -> Phases]
    /\ granted \in [Cooks -> Nat]
    /\ answer \in [Cooks -> [ver : Cooks, cache : Strings]]
    /\ lost \in 0..MaxLost
    /\ key \in [Cooks -> Keys]
    /\ at \in [Cooks -> Tiers]
    /\ held \in [Cooks -> Entry \cup {NONE}]
    /\ missed \in [Cooks -> SUBSET Tiers]
    /\ copy \in [Cooks -> Entry \cup {NONE}]
    /\ expected \in [Cooks -> Strings \cup {NONE}]
    /\ attempt \in [Cooks -> 0..(Attempts - 1)]
    /\ retried \in [Cooks -> BOOLEAN]
    /\ until \in [Cooks -> Nat]
    /\ promised \subseteq [id : Ids, key : Keys, until : Nat]

\* pin_data asks the last link: the row of an alias, while its pin lasts.
pin_data(i) ==
    IF alias[i] # NONE /\ PinLive(store[N][alias[i]]) THEN store[N][alias[i]] ELSE NONE

\* GET /pin/{id}.jpeg: the thumbnail, or NONE, the redirect to a placeholder.
Resolve(i) == IF PinTtl > 0 THEN pin_data(i) ELSE NONE

(* A pin handed to a client resolves to a thumbnail of its key until the   *)
(* deadline the claim asked for, and says so to HTTP caches: whatever      *)
(* other cooks put, revalidate, promote or claim in between.  SQLite       *)
(* promises it; memory may evict a pinned row, and the cloud refreshes pins *)
(* at best effort and caps them.                                           *)
PinPromiseKept ==
    Kind[N] = "sqlite" =>
        \A p \in promised : p.until > now =>
            /\ alias[p.id] = p.key
            /\ Resolve(p.id) # NONE
            /\ Resolve(p.id).pin_until >= p.until

\* A render of cook r is being put in place of what link t holds.
Puts(r, t, k) == pc[r] = "put" /\ at[r] = t /\ key[r] = k

\* A response that showed render v was sent with cache string c.
Shown(v, c) == \E r \in Cooks : answer[r] = [ver |-> v, cache |-> c]

-----------------------------------------------------------------------------
(* The pins as leases.  A memory link may drop a pinned row at any time,   *)
(* the cloud may shorten its pin; neither promises anything.               *)
Durable == Kind[N] = "sqlite"

Lease(i) ==
    LET e == pin_data(i) IN
    IF Durable /\ e # NONE THEN [key |-> alias[i], until |-> e.pin_until] ELSE NONE

Pins == INSTANCE Leases WITH
    lifetime <- PinTtl,
    lease    <- [i \in Ids |-> Lease(i)],
    promised <- IF Durable THEN promised ELSE {}

(* Whatever cooks, copies, refreshes and the clock do to the rows of an    *)
(* SQLite link, an identifier keeps its key until its deadline, no         *)
(* deadline moves but away, and none is beyond one lifetime from now.      *)
ImplementsLeases == Pins!Spec

(* "A delayed promotion must not replace a newer render", enforced by the  *)
(* native links: the thumbnail of a live row only gives way to the put of  *)
(* a render, or to one that a response showed under the very cache string  *)
(* the row has, never to a promotion, a revalidation or a pin refresh that *)
(* was decided on a render with another string; and "preserves live pin    *)
(* deadlines": no step shortens one in SQLite.                             *)
ReplacedOnlyByRender ==
    [][\A t \in Tiers, k \in Keys : (Kind[t] # "cloud" /\ Live(store[t][k])) =>
        /\ (store'[t][k] # NONE /\ store'[t][k].ver # store[t][k].ver) =>
              \/ Puts(store'[t][k].ver, t, k)
              \/ Shown(store'[t][k].ver, store[t][k].cache)
        /\ (Kind[t] = "sqlite" /\ PinLive(store[t][k])) =>
              store'[t][k] # NONE /\ store'[t][k].pin_until >= store[t][k].pin_until]_vars

(* "caps, but never extends, these deadlines": whatever copies were made    *)
(* from link to link and however late they come, no link keeps an entry for*)
(* lookups beyond what its own response asked for.                         *)
CopiesNeverOutlive ==
    \A t \in Tiers, k \in Keys :
        store[t][k] # NONE => store[t][k].cache_until <= granted[store[t][k].tok]

-----------------------------------------------------------------------------
(* Statements of the documentation the code does not keep; the README      *)
(* shows how.  "put writes through to every tier, so each layer is         *)
(* populated together": when all cooks are done and no task is left, links *)
(* that hold a live entry of a key hold the same render.  (Two puts of one *)
(* key can overlap.)                                                       *)
TiersAgree ==
    (tasks = {} /\ \A r \in Cooks : pc[r] \in {"idle", "done"}) =>
        \A k \in Keys, s, t \in Tiers :
            (Live(store[s][k]) /\ Live(store[t][k])) => store[s][k].ver = store[t][k].ver

(* "does not overwrite a newer render": a live thumbnail gives way to a put*)
(* alone.  (Two renders may have the same cache string.)                   *)
NewerRenderStays ==
    [][\A t \in Tiers, k \in Keys : (Kind[t] # "cloud" /\ Live(store[t][k])) =>
        ((store'[t][k] # NONE /\ store'[t][k].ver # store[t][k].ver) =>
            Puts(store'[t][k].ver, t, k))]_vars

(* An advertised pin resolves until its deadline, at a cloud link.  (Its   *)
(* refreshes are no transactions and its retention is capped.)             *)
CloudPinKept ==
    Kind[N] = "cloud" =>
        \A p \in promised : p.until > now =>
            alias[p.id] = p.key /\ Resolve(p.id) # NONE /\ Resolve(p.id).pin_until >= p.until
=============================================================================
