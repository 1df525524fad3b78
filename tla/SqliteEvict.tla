---------------------------- MODULE SqliteEvict -----------------------------
(***************************************************************************)
(* The byte limit of the SQLite backend (sqlite.rs): a write inserts its   *)
(* row, purges the expired ones and evicts the least recently used ones,   *)
(* cheapest first; a lookup moves a row to the most recently used end.     *)
(***************************************************************************)
EXTENDS Naturals, FiniteSetsExt

CONSTANTS
    Keys,
    Sizes,     \* size_bytes of a row, positive: a stored value is never empty
    Costs,     \* render_cost
    Ttl,       \* seconds until a row that is written now expires
    MaxBytes,  \* max_bytes
    MaxTime,   \* bound on the clock
    NONE

ASSUME EvictAssumption ==
    /\ IsFiniteSet(Keys)
    /\ Sizes \subseteq Nat \ {0}
    /\ Costs \subseteq Nat
    /\ Ttl \in Nat \ {0}
    /\ MaxBytes \in Nat
    /\ MaxTime \in Nat

\* A row: at is last_accessed_at, until is expires_at.
Row == [size : Sizes, at : 0..MaxTime, cost : Costs, until : 0..(MaxTime + Ttl)]

ASSUME NoRow == NONE \notin Row

VARIABLES
    now,
    rows,     \* rows[k]: the row of key k, or NONE
    written   \* history: the key whose write was the last step, or NONE

vars == <<now, rows, written>>

-----------------------------------------------------------------------------
Present(t) == {k \in Keys : t[k] # NONE}

\* SUM(size_bytes) over some rows of a table.
Bytes(t, S) == MapThenSumSet(LAMBDA k : t[k].size, S)
Total(t) == Bytes(t, Present(t))

\* ORDER BY last_accessed_at, render_cost: r comes no later than s.
UpTo(r, s) == r.at < s.at \/ (r.at = s.at /\ r.cost <= s.cost)

\* Seeded fault: the most recently used rows are counted first.
RunningTotalReversed(t, k) == Bytes(t, {j \in Present(t) : UpTo(t[k], t[j])})

(* SUM(size_bytes) OVER (ORDER BY ...): the frame of a window that only    *)
(* has an ORDER BY ends with the current row's peers.                      *)
RunningTotal(t, k) == Bytes(t, {j \in Present(t) : UpTo(t[j], t[k])})

Drop(t, S) == [k \in Keys |-> IF k \in S THEN NONE ELSE t[k]]

\* DELETE FROM thumbrella WHERE expires_at <= unixepoch().
Purge(t) == Drop(t, {k \in Present(t) : t[k].until <= now})

\* Seeded fault: nothing is evicted while one more row would fit.
evict_late(t) ==
    IF Total(t) <= MaxBytes + 1 THEN t
    ELSE Drop(t, {k \in Present(t) : RunningTotal(t, k) <= Total(t) - MaxBytes - 1})

evict_oldest(t) ==
    IF Total(t) <= MaxBytes THEN t
    ELSE Drop(t, {k \in Present(t) : RunningTotal(t, k) <= Total(t) - MaxBytes})

-----------------------------------------------------------------------------
Init ==
    /\ now = 0
    /\ rows = [k \in Keys |-> NONE]
    /\ written = NONE

\* write_entry: a put writes a row used now, a copied entry keeps its `at`.
Write(k, row) ==
    /\ row.until > now
    /\ row.at <= now
    /\ rows' = evict_oldest(Purge([rows EXCEPT ![k] = row]))
    /\ written' = k
    /\ UNCHANGED now

\* A lookup that hits refreshes last_accessed_at.
Lookup(k) ==
    /\ rows[k] # NONE
    /\ rows[k].until > now
    /\ rows' = [rows EXCEPT ![k].at = now]
    /\ written' = NONE
    /\ UNCHANGED now

Tick ==
    /\ now < MaxTime
    /\ now' = now + 1
    /\ written' = NONE
    /\ UNCHANGED rows

Next ==
    \/ \E k \in Keys, s \in Sizes, a \in 0..now, c \in Costs :
           Write(k, [size |-> s, at |-> a, cost |-> c, until |-> now + Ttl])
    \/ \E k \in Keys : Lookup(k)
    \/ Tick

Spec == Init /\ [][Next]_vars

-----------------------------------------------------------------------------
(* Types; a write leaves no expired row.                                   *)
TypeOK ==
    /\ now \in 0..MaxTime
    /\ rows \in [Keys -> Row \cup {NONE}]
    /\ written \in Keys \cup {NONE}
    /\ written # NONE => \A k \in Present(rows) : rows[k].until > now

\* The rows that would be the next to go: the least recent and cheapest.
Oldest == {k \in Present(rows) : \A j \in Present(rows) : UpTo(rows[k], rows[j])}

(* The limit is passed by less than one step of eviction: after a write,   *)
(* without the oldest rows that are left the total would be under it.      *)
OvershootBounded ==
    written # NONE =>
        \/ Total(rows) <= MaxBytes
        \/ Bytes(rows, Present(rows) \ Oldest) < MaxBytes

(* "Preserves recently-used, expensive-to-render entries", and evicts no   *)
(* more than it has to: a row that a write evicts was less recently used,  *)
(* or as recently and cheaper, than every row the write leaves, and the    *)
(* rows it leaves still fill the limit.                                    *)
EvictsInOrder ==
    [][\A gone \in Present(rows), kept \in Present(rows') :
        (written' \notin {NONE, gone} /\ rows'[gone] = NONE /\ rows[gone].until > now) =>
            /\ ~UpTo(rows'[kept], rows[gone])
            /\ Total(rows') >= MaxBytes]_vars

(* "The oldest entries are deleted until the total fits": after a write,   *)
(* the stored bytes are within the limit.                                  *)
TotalFits == written # NONE => Total(rows) <= MaxBytes
=============================================================================
