----------------------------- MODULE FetchGuard -----------------------------
(***************************************************************************)
(* The fetch protection of the native build (fetch_guard.rs) for one       *)
(* origin and its URLs: a URL that failed is left alone for a fixed time,  *)
(* an origin that answered 429 or 503 for as long as it asked for.         *)
(*                                                                         *)
(* Both caches are shared by every cook of the process.  Their capacities  *)
(* (4096 URLs, 1024 origins) are not reached here.                         *)
(***************************************************************************)
EXTENDS Naturals, FiniteSetsExt

CONSTANTS
    Urls,       \* URLs of the origin
    ORIGIN,     \* the key of the back-off
    FailTtl,    \* how long a failed URL is left alone
    Ceiling,    \* the longest back-off the cache keeps
    MaxInstant, \* the last instant the clock can represent
    MaxTime     \* bound on the time the model reaches

ASSUME GuardAssumption ==
    /\ ORIGIN \notin Urls
    /\ {FailTtl, Ceiling, MaxInstant, MaxTime} \subseteq Nat
    /\ MaxTime + FailTtl <= MaxInstant /\ MaxTime + Ceiling <= MaxInstant

Keys == Urls \cup {ORIGIN}

VARIABLES
    now,
    until,  \* until[k]: requests for k wait until then; 0 when nothing is recorded
    window  \* history: the last recorded window of k, and the cooks that were
            \* already past the check when it was recorded

guards == <<until, window>>

InitGuard ==
    /\ now = 0
    /\ until = [k \in Keys |-> 0]
    /\ window = [k \in Keys |-> [until |-> 0, excused |-> {}]]

-----------------------------------------------------------------------------
\* Seeded fault: the failures of a URL are looked up, its origin is not.
checkUrlOnly(u) ==
    IF now < until[u] THEN "failed" ELSE "go"

\* connect: the origin first, then the URL.
check(u) ==
    IF now < until[ORIGIN] THEN "overloaded"
    ELSE IF now < until[u] THEN "failed"
    ELSE "go"

\* Instant::now() + ttl panics when the sum cannot be represented.
Fits(ttl) == now + ttl <= MaxInstant

\* The last answer replaces what is recorded, be it longer or shorter.
record(k, ttl, cooks) ==
    /\ until' = [until EXCEPT ![k] = now + ttl]
    /\ window' = [window EXCEPT ![k] = [until |-> now + ttl, excused |-> cooks]]

Tick ==
    /\ now < MaxTime
    /\ now' = now + 1
    /\ UNCHANGED guards
=============================================================================
