---------------------------- MODULE CookFreshness ----------------------------
(***************************************************************************)
(* How the cooks of one key decide what is still current (cook.rs,         *)
(* resolve_cache): the client's cache string, the durable entry, the       *)
(* conditional GET, the render that a handoff shares between cooks, and    *)
(* the writes that run after the response.  The source changes its content *)
(* and its policy, and time passes, while all this goes on.                *)
(*                                                                         *)
(* Each cook serves one client, who sends back what he was given and asks  *)
(* again and again.  Debouncing does not serialise these cooks: a joiner   *)
(* that waited 30 seconds cooks next to its leader.  A version stands for  *)
(* the source's content and for the validator the source sends with it.    *)
(***************************************************************************)
EXTENDS Hints, FiniteSets

CONSTANTS
    Cooks,
    Keepers,    \* those whose client sends back the cache string it was given
    MaxVersion, \* bound on the changes of the source
    Start,      \* the first second of the clock, after the epochs 0 and 1
    MaxTime,    \* bound on the clock
    PinTtl,     \* default_pin_ttl
    Policies,   \* what the source may send: [cc, val], see Hints
    LongestLife \* the longest max-age among them

Versions == 1..MaxVersion
Placeholder == 0

ASSUME FreshnessAssumption ==
    /\ Keepers \subseteq Cooks
    /\ MaxVersion \in Nat \ {0}
    /\ Start \in Nat /\ Start > 1 /\ MaxTime \in Nat /\ PinTtl \in Nat
    /\ LongestLife \in Nat /\ NONE \notin Hint(LongestLife)
    /\ Policies \subseteq Policy(LongestLife)

(* A representation: the version its bytes show, the cache string that     *)
(* describes it, and, as history, until when the source allows its reuse   *)
(* unasked and whether the bytes were taken from another cook's handoff.   *)
Copy(b, w, u, l) == [bytes |-> b, wire |-> w, allowed |-> u, lent |-> l]

VARIABLES
    now,
    origin,   \* the version the source serves now
    entry,    \* the durable entry [copy, until, pin], or NONE
    slot,     \* a handoff leader is registered
    waiters,  \* the joiners of that handoff
    pc,
    copy,     \* what the cook's client holds, or NONE
    held,     \* the entry check_entry found and the GET validates, or NONE
    got,      \* the 200 response: its version and its hints, or NONE
    remote,   \* the version the higher tier rendered for a leader, or NONE
    write     \* the deferred write [old, new], or NONE

cookvars == <<pc, copy, held, got, remote, write>>
vars == <<now, origin, entry, slot, waiters, cookvars>>

-----------------------------------------------------------------------------
Init ==
    /\ now = Start
    /\ origin = 1
    /\ entry = NONE
    /\ slot = FALSE
    /\ waiters = {}
    /\ pc = [r \in Cooks |-> "idle"]
    /\ copy = [r \in Cooks |-> NONE]
    /\ held = [r \in Cooks |-> NONE]
    /\ got = [r \in Cooks |-> NONE]
    /\ remote = [r \in Cooks |-> NONE]
    /\ write = [r \in Cooks |-> NONE]

\* The source publishes new content.
Publish ==
    /\ origin < MaxVersion
    /\ origin' = origin + 1
    /\ UNCHANGED <<now, entry, slot, waiters, cookvars>>

Tick ==
    /\ now < MaxTime
    /\ now' = now + 1
    /\ UNCHANGED <<origin, entry, slot, waiters, cookvars>>

\* The row is removed: the byte limit, an expired row purged.
Evict ==
    /\ entry # NONE
    /\ entry' = NONE
    /\ UNCHANGED <<now, origin, slot, waiters, cookvars>>

-----------------------------------------------------------------------------
\* The hints in the request, and the entry an ordinary lookup finds.
Own(r) == IF copy[r] = NONE THEN NONE ELSE decode(copy[r].wire)

Found == entry # NONE /\ entry.until > now

\* What a browser that asks for the pin now may keep, and for how long.
Pinned == entry # NONE /\ entry.pin > now

PinReuse == pin_max_age(entry.copy.wire, entry.pin, now)

FoundFresh == Found /\ freshness_deadline(entry.copy.wire) > now

Touched == [entry EXCEPT !.pin = Most(@, now + PinTtl)]

\* A client keeps a copy as long as it has a cache string to send with it.
Given(r, c) == IF r \in Keepers /\ c.wire # NONE THEN c ELSE NONE

Give(r, c) == [copy EXCEPT ![r] = Given(r, c)]

\* The durable entry is fresh: it is served at once.
ServeEntry(r) ==
    /\ pc[r] = "idle"
    /\ ~is_fresh(Own(r), now)
    /\ FoundFresh
    /\ entry' = Touched
    /\ copy' = Give(r, entry.copy)
    /\ UNCHANGED <<now, origin, slot, waiters, pc, held, got, remote, write>>

\* Seeded fault: the client's validator is sent, the stored bytes are served.
ValidatorClientFirst(found, own) ==
    IF to_conditional(own) THEN own ELSE IF found # NONE THEN decode(found.copy.wire) ELSE own

\* Prefer the validator belonging to the bytes we can serve.
Validator(found, own) == IF found # NONE THEN decode(found.copy.wire) ELSE own

\* The hints the conditional GET is made with.
prior(r) == Validator(held[r], Own(r))

Confirmed(r) == to_conditional(prior(r)) /\ prior(r).ver = origin

(* Nothing is fresh: the cook connects, with the validator of the stale    *)
(* entry if it has one.                                                    *)
CheckEntry(r) ==
    /\ pc[r] = "idle"
    /\ ~is_fresh(Own(r), now)
    /\ ~FoundFresh
    /\ LET found == IF Found /\ to_conditional(decode(entry.copy.wire))
                    THEN entry.copy ELSE NONE
       IN  held' = [held EXCEPT ![r] = IF found = NONE THEN NONE ELSE Touched]
    /\ entry' = IF Found THEN Touched ELSE entry
    /\ pc' = [pc EXCEPT ![r] = "connect"]
    /\ UNCHANGED <<now, origin, slot, waiters, copy, got, remote, write>>

-----------------------------------------------------------------------------
(* Until when the source allows reuse by a response at this second.  A 304 *)
(* without a window of its own begins a lifetime stated before again.      *)
Allowed(h, otherwise) ==
    IF h.cc = NONE THEN now + otherwise
    ELSE IF h.cc.noStore \/ h.cc.noCache THEN 0
    ELSE now + (IF h.cc.maxAge = NONE THEN otherwise ELSE SatSub(h.cc.maxAge, h.cc.age))

(* 304: the stored entry is served and its metadata written later, or the  *)
(* client is told to use its own copy, with a new cache string.            *)
Connect304(r, h) ==
    /\ pc[r] = "connect"
    /\ Confirmed(r)
    /\ LET hints == revalidated(prior(r), h, now)
           wire == encode(hints, now)
           until == Allowed(h, Most(LongestLife, DefaultTtl))
       IN  IF held[r] # NONE
           THEN LET same == [held[r].copy EXCEPT !.wire = wire, !.allowed = until]
                    new == [held[r] EXCEPT !.copy = same,
                                           !.until = retention_deadline(now, hints)]
                IN  /\ write' = [write EXCEPT ![r] = [old |-> held[r].copy.wire, new |-> new]]
                    /\ copy' = Give(r, same)
                    /\ pc' = [pc EXCEPT ![r] = "revalidate"]
           ELSE /\ copy' = Give(r, [copy[r] EXCEPT !.wire = wire, !.allowed = until])
                /\ pc' = [pc EXCEPT ![r] = "idle"]
                /\ UNCHANGED write
    /\ held' = [held EXCEPT ![r] = NONE]
    /\ UNCHANGED <<now, origin, entry, slot, waiters, got, remote>>

\* 200: a new response, whose validator the stored result will carry.
Connect200(r, h) ==
    /\ pc[r] = "connect"
    /\ ~Confirmed(r)
    /\ got' = [got EXCEPT ![r] = [ver |-> origin,
                                  hints |-> from_response_headers(h, origin, now),
                                  allowed |-> Allowed(h, 0)]]
    /\ pc' = [pc EXCEPT ![r] = "render"]
    /\ held' = [held EXCEPT ![r] = NONE]
    /\ UNCHANGED <<now, origin, entry, slot, waiters, copy, remote, write>>

-----------------------------------------------------------------------------
(* The result of a render of version b: the client gets it, and the entry  *)
(* is put after the response.  A response that stated no window gets the   *)
(* default one, from now on.                                               *)
Untimed(hints) == hints # NONE /\ ~hints.noStore /\ ~hints.noCache /\ hints.exp = NONE

Result(q, b, lent) ==
    Copy(b, encode(got[q].hints, now),
         IF Untimed(got[q].hints) THEN now + DefaultTtl ELSE got[q].allowed, lent)

Put(q, b, lent) ==
    LET c == Result(q, b, lent) IN
    [old |-> NONE,
     new |-> [copy |-> c, pin |-> 0,
              until |-> IF c.wire = NONE THEN 0 ELSE retention_deadline(now, got[q].hints)]]

\* Seeded fault: the thumbnail shows the version before the one just fetched.
RenderLocalPrevious(r) ==
    /\ pc[r] = "render"
    /\ LET b == IF got[r].ver = 1 THEN 1 ELSE got[r].ver - 1 IN
       /\ copy' = Give(r, Result(r, b, FALSE))
       /\ write' = [write EXCEPT ![r] = Put(r, b, FALSE)]
    /\ got' = [got EXCEPT ![r] = NONE]
    /\ pc' = [pc EXCEPT ![r] = "store"]
    /\ UNCHANGED <<now, origin, entry, slot, waiters, held, remote>>

(* Tier 1 renders itself.  It reads the open response or, in later range   *)
(* requests, whatever the source serves by then.                           *)
RenderLocal(r) ==
    /\ pc[r] = "render"
    /\ \E b \in got[r].ver..origin :
        /\ copy' = Give(r, Result(r, b, FALSE))
        /\ write' = [write EXCEPT ![r] = Put(r, b, FALSE)]
    /\ got' = [got EXCEPT ![r] = NONE]
    /\ pc' = [pc EXCEPT ![r] = "store"]
    /\ UNCHANGED <<now, origin, entry, slot, waiters, held, remote>>

\* HandoffInflight::try_lead makes the cook the leader or a joiner.
Handoff(r) ==
    /\ pc[r] = "render"
    /\ IF slot
       THEN /\ pc' = [pc EXCEPT ![r] = "join"]
            /\ waiters' = waiters \cup {r}
            /\ UNCHANGED slot
       ELSE /\ pc' = [pc EXCEPT ![r] = "post"]
            /\ slot' = TRUE
            /\ UNCHANGED waiters
    /\ UNCHANGED <<now, origin, entry, copy, held, got, remote, write>>

\* The higher tier fetches the source on its own.
RemoteFetch(r) ==
    /\ pc[r] = "post"
    /\ remote[r] = NONE
    /\ remote' = [remote EXCEPT ![r] = origin]
    /\ UNCHANGED <<now, origin, entry, slot, waiters, pc, copy, held, got, write>>

\* The POST returns; complete hands the answer to every joiner.
PostReturns(r) ==
    /\ pc[r] = "post"
    /\ remote[r] # NONE
    /\ LET all == {r} \cup waiters IN
       /\ copy' = [q \in Cooks |-> IF q \in all THEN Given(q, Result(q, remote[r], q # r))
                                            ELSE copy[q]]
       /\ write' = [q \in Cooks |-> IF q \in all THEN Put(q, remote[r], q # r) ELSE write[q]]
       /\ got' = [q \in Cooks |-> IF q \in all THEN NONE ELSE got[q]]
       /\ pc' = [q \in Cooks |-> IF q \in all THEN "store" ELSE pc[q]]
    /\ remote' = [remote EXCEPT ![r] = NONE]
    /\ slot' = FALSE
    /\ waiters' = {}
    /\ UNCHANGED <<now, origin, entry, held>>

(* Every renderer failed: a placeholder, with a window of at least the     *)
(* default so that the client knows when to come back.  It is not stored.  *)
Fallback(r) ==
    /\ pc[r] = "render"
    /\ LET hints == with_min_expiry(got[r].hints, got[r].ver, now) IN
        copy' = Give(r, Copy(Placeholder, encode(hints, now), now + DefaultTtl, FALSE))
    /\ got' = [got EXCEPT ![r] = NONE]
    /\ pc' = [pc EXCEPT ![r] = "idle"]
    /\ UNCHANGED <<now, origin, entry, slot, waiters, held, remote, write>>

-----------------------------------------------------------------------------
Retained(e) == IF Most(e.until, e.pin) > now THEN e ELSE NONE

\* The deferred put; a row that is there keeps its longer pin.
Store(r) ==
    /\ pc[r] = "store"
    /\ LET old == IF entry = NONE THEN 0 ELSE entry.pin IN
        entry' = Retained([write[r].new EXCEPT !.pin = Most(old, now + PinTtl)])
    /\ write' = [write EXCEPT ![r] = NONE]
    /\ pc' = [pc EXCEPT ![r] = "idle"]
    /\ UNCHANGED <<now, origin, slot, waiters, copy, held, got, remote>>

(* The deferred revalidation: the entry that was read with its new cache   *)
(* string, unless the row has another cache string by now.                 *)
Revalidate(r) ==
    /\ pc[r] = "revalidate"
    /\ entry' = IF entry = NONE THEN Retained(write[r].new)
                ELSE IF entry.copy.wire # write[r].old THEN entry
                ELSE Retained([write[r].new EXCEPT !.pin = Most(@, entry.pin)])
    /\ write' = [write EXCEPT ![r] = NONE]
    /\ pc' = [pc EXCEPT ![r] = "idle"]
    /\ UNCHANGED <<now, origin, slot, waiters, copy, held, got, remote>>

(* The cook fails to connect or its task is dropped; the client keeps what *)
(* it has, and a leader's slot stays behind.                               *)
Leave(r) ==
    /\ pc[r] \in {"connect", "render", "post", "join", "store", "revalidate"}
    /\ pc' = [pc EXCEPT ![r] = "idle"]
    /\ waiters' = waiters \ {r}
    /\ held' = [held EXCEPT ![r] = NONE]
    /\ got' = [got EXCEPT ![r] = NONE]
    /\ remote' = [remote EXCEPT ![r] = NONE]
    /\ write' = [write EXCEPT ![r] = NONE]
    /\ UNCHANGED <<now, origin, entry, slot, copy>>

Next ==
    \/ \E r \in Cooks :
        \/ ServeEntry(r)
        \/ CheckEntry(r)
        \/ \E h \in Policies : Connect304(r, h)
        \/ \E h \in Policies : Connect200(r, h)
        \/ RenderLocal(r)
        \/ Handoff(r)
        \/ RemoteFetch(r)
        \/ PostReturns(r)
        \/ Fallback(r)
        \/ Store(r)
        \/ Revalidate(r)
        \/ Leave(r)
    \/ Publish
    \/ Evict
    \/ Tick

Spec == Init /\ [][Next]_vars

-----------------------------------------------------------------------------
Copies ==
    {copy[r] : r \in {q \in Cooks : copy[q] # NONE}}
        \cup (IF entry = NONE THEN {} ELSE {entry.copy})

(* The shape of the state.  Every copy kept anywhere has a cache string    *)
(* for a version the source has had.                                       *)
TypeOK ==
    /\ now \in Start..MaxTime /\ origin \in Versions
    /\ slot \in BOOLEAN /\ waiters \subseteq Cooks
    /\ pc \in [Cooks -> {"idle", "connect", "render", "post", "join", "store", "revalidate"}]
    /\ \A c \in Copies : /\ c.bytes \in {Placeholder} \cup 1..origin
                          /\ c.wire # NONE => c.wire.ver \in 1..origin
    /\ \A r \in Cooks :
        /\ got[r] # NONE <=> pc[r] \in {"render", "post", "join"}
        /\ held[r] # NONE => pc[r] = "connect"
        /\ remote[r] \in {NONE} \cup 1..origin
        /\ write[r] # NONE <=> pc[r] \in {"store", "revalidate"}

(* Wherever a thumbnail is kept with the cache string of its source - the  *)
(* entry, the clients - it is at least as new as the version that string   *)
(* describes, however the source changes between connect, render and put;  *)
(* only a thumbnail a joiner took over from its leader can be older.       *)
CopiesHonest ==
    \A c \in Copies : (c.wire # NONE /\ c.bytes # Placeholder) =>
        c.bytes >= c.wire.ver \/ c.lent

(* What is served without asking the source - a client's fresh copy, a     *)
(* fresh entry, a pinned thumbnail a browser holds on to - is served       *)
(* within the time the source has allowed for that version, whatever       *)
(* revalidations, late writes and changes of policy came between.          *)
ServedWithinGrant ==
    /\ \A r \in Cooks :
        (is_fresh(Own(r), now) /\ copy[r].bytes # Placeholder) => now < copy[r].allowed
    /\ FoundFresh => now < entry.copy.allowed
    /\ (Pinned /\ PinReuse > 0) => now + PinReuse <= entry.copy.allowed

\* What a 304 declares current: the entry's thumbnail or the client's own.
Vouched(r) == IF held[r] # NONE THEN held[r].copy ELSE copy[r]

(* What a 304 lets the cook serve is the version the source serves: the    *)
(* bytes of an entry are never older than its validator, whatever          *)
(* revalidations and puts of slower cooks arrive late.  Only a thumbnail   *)
(* that a joiner took over from its leader, or a placeholder the client    *)
(* already has, escapes.                                                   *)
NotModifiedServesOwnRender ==
    \A r \in Cooks : (pc[r] = "connect" /\ Confirmed(r)) =>
        \/ Vouched(r).bytes = origin
        \/ Vouched(r).lent
        \/ held[r] = NONE /\ copy[r].bytes = Placeholder

(* What makes the three inductive, of every copy on its way: in the entry, *)
(* with a client, in the hands of a cook, in a deferred write.             *)
Hints == Hint(LongestLife)
CopyType == [bytes : Nat, wire : Hints \cup {NONE}, allowed : Nat, lent : BOOLEAN]
EntryType == [copy : CopyType, until : Nat, pin : Nat]

GoodCopy(c, newest) ==
    /\ c \in CopyType
    /\ c.bytes <= newest
    /\ (c.wire # NONE /\ c.bytes # Placeholder) =>
           /\ c.bytes >= c.wire.ver \/ c.lent
           /\ freshness_deadline(c.wire) <= c.allowed

GoodEntry(e, newest) ==
    e \in EntryType /\ GoodCopy(e.copy, newest) /\ e.copy.bytes # Placeholder

GoodAnswer(g, newest) ==
    /\ g.ver \in 1..newest /\ g.allowed \in Nat
    /\ g.hints # NONE =>
           /\ g.hints \in Hints /\ g.hints.ver = g.ver
           /\ (~g.hints.noStore /\ ~g.hints.noCache /\ g.hints.exp # NONE) =>
                  g.hints.exp <= g.allowed

GoodCook(r) ==
    /\ copy[r] # NONE => GoodCopy(copy[r], origin)
    /\ held[r] # NONE => GoodEntry(held[r], origin)
    /\ pc[r] \in {"render", "post", "join"} => GoodAnswer(got[r], origin)
    /\ remote[r] # NONE => pc[r] = "post" /\ remote[r] \in got[r].ver..origin
    /\ pc[r] \in {"store", "revalidate"} => GoodEntry(write[r].new, origin)

PerCook(f) == f = [r \in Cooks |-> f[r]]

Shape ==
    /\ now \in Nat /\ origin \in Nat \ {0}
    /\ pc \in [Cooks -> {"idle", "connect", "render", "post", "join", "store", "revalidate"}]
    /\ PerCook(copy) /\ PerCook(held) /\ PerCook(got) /\ PerCook(remote) /\ PerCook(write)
    /\ \A r \in waiters : r \in Cooks /\ pc[r] = "join"

IInv ==
    /\ Shape
    /\ entry # NONE => GoodEntry(entry, origin)
    /\ \A r \in Cooks : GoodCook(r)

(* Two statements that do not hold of the code: the README tells how.      *)

(* The same without the first exception: what a 304 confirms is current.   *)
NotModifiedServesCurrent ==
    \A r \in Cooks : (pc[r] = "connect" /\ Confirmed(r)) =>
        Vouched(r).bytes \in {origin, Placeholder}

(* The same without the second: "Inject a cache expiry so clients know     *)
(* when to retry", and the retry renders instead of confirming the         *)
(* placeholder.                                                            *)
RetryRenders ==
    \A r \in Cooks : (pc[r] = "connect" /\ held[r] = NONE /\ Confirmed(r)) =>
        copy[r].bytes # Placeholder
=============================================================================
