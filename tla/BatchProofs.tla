----------------------------- MODULE BatchProofs -----------------------------
(***************************************************************************)
(* Proofs about one batch, for any number of items, any limit, any URLs    *)
(* and any values of Retry-After: the fetch protection holds, the lines    *)
(* come in order, and the response keeps the promise of Answers.           *)
(***************************************************************************)
EXTENDS Batch, FiniteSetTheorems, TLAPS

-----------------------------------------------------------------------------
(* The items that are cooked and those that are not.                       *)
LEMMA LeastOfTwo ==
    ASSUME NEW a \in Nat, NEW b \in Nat
    PROVE  Min({a, b}) = IF a <= b THEN a ELSE b
<1> DEFINE least == IF a <= b THEN a ELSE b
<1>1. least \in {a, b} /\ \A y \in {a, b} : least <= y
    OBVIOUS
<1>2. \A x \in {a, b} : (\A y \in {a, b} : x <= y) => x = least
    OBVIOUS
<1> QED BY <1>1, <1>2 DEF Min

LEMMA JobsAre ==
    /\ Jobs = 1..(IF N <= BATCH_MAX_ITEMS THEN N ELSE BATCH_MAX_ITEMS)
    /\ Jobs \subseteq 1..N
    /\ Overflow = IF N <= BATCH_MAX_ITEMS THEN {} ELSE (BATCH_MAX_ITEMS + 1)..N
    /\ Jobs \cap Overflow = {} /\ Jobs \cup Overflow = 1..N
<1>1. Jobs = 1..(IF N <= BATCH_MAX_ITEMS THEN N ELSE BATCH_MAX_ITEMS)
    BY BatchAssumption, LeastOfTwo DEF Jobs
<1> QED BY <1>1, BatchAssumption DEF Overflow

Turned == IF N <= BATCH_MAX_ITEMS THEN 0 ELSE N - BATCH_MAX_ITEMS

LEMMA OverflowSize == Turned \in Nat /\ Cardinality(Overflow) = Turned
<1>1. CASE N <= BATCH_MAX_ITEMS
    BY <1>1, JobsAre, FS_EmptySet DEF Turned
<1>2. CASE ~(N <= BATCH_MAX_ITEMS)
  <2>1. Overflow = (BATCH_MAX_ITEMS + 1)..N
      BY <1>2, JobsAre
  <2>2. Cardinality((BATCH_MAX_ITEMS + 1)..N) = N - BATCH_MAX_ITEMS
      BY <1>2, BatchAssumption, FS_Interval
  <2> QED BY <1>2, <2>1, <2>2, BatchAssumption DEF Turned
<1> QED BY <1>1, <1>2

-----------------------------------------------------------------------------
(* The inductive invariant.                                                *)
Places == {"new", "check", "fetch", "work", "tool", "final", "done", "dead", "dropped"}
Ended == {"done", "dead", "dropped"}

Typed ==
    /\ now \in Nat
    /\ until \in [Keys -> Nat]
    /\ window \in [Keys -> [until : Nat, excused : SUBSET Jobs]]
    /\ stream \in BOOLEAN
    /\ phase \in {"new", "running", "refused"}
    /\ pc \in [Jobs -> Places]
    /\ lines \in Seq([item : 1..N, kind : {"progress", "final"}])
    /\ got \in 0..Len(lines)
    /\ over \in BOOLEAN
    /\ gone \in BOOLEAN

\* The window the history remembers is the one the caches hold.
WindowIsRecorded == \A k \in Keys : window[k].until = until[k]

\* Nothing has happened before the batch is accepted.
NothingBefore ==
    phase # "running" =>
        /\ \A i \in Jobs : pc[i] = "new"
        /\ lines = <<>> /\ got = 0 /\ ~over /\ ~gone

\* Only a stream has lines, and the refusals come first.
RefusalsFirst ==
    /\ ~stream => lines = <<>>
    /\ stream /\ phase = "running" => Turned <= Len(lines)
    /\ \A m \in 1..Len(lines) :
          IF m <= Turned THEN lines[m] = Line(m + BATCH_MAX_ITEMS, "final")
          ELSE lines[m].item \in Jobs

\* The final line of a job is there exactly when the job is done.
FinalWhenDone ==
    /\ \A m \in 1..Len(lines) :
          lines[m].kind = "final" /\ lines[m].item \in Jobs => pc[lines[m].item] = "done"
    /\ stream => \A i \in Jobs :
          pc[i] = "done" => \E m \in 1..Len(lines) : lines[m] = Line(i, "final")

\* An item has one final line.
FinalOnce ==
    \A m, n \in 1..Len(lines) :
        m < n /\ lines[m].kind = "final" => lines[n].item # lines[m].item

\* The end comes last, and who is lost is lost alone or with all others.
EndLast ==
    /\ over => AllEnded /\ (stream => got = Len(lines))
    /\ stream => \A i \in Jobs : pc[i] # "dropped"
    /\ ~stream => \A i \in Jobs :
          /\ pc[i] = "dead" => over
          /\ pc[i] = "dropped" => gone \/ \E j \in Jobs : pc[j] = "dead"

LineInv == NothingBefore /\ RefusalsFirst /\ FinalWhenDone /\ FinalOnce /\ EndLast

IInv == Typed /\ WindowIsRecorded /\ GuardsHold /\ LineInv

-----------------------------------------------------------------------------
(* The fetch protection.                                                   *)
LEMMA KeysOfJobs ==
    /\ \A i \in Jobs : UrlOf[i] \in Urls /\ UrlOf[i] \in Keys /\ UrlOf[i] # ORIGIN
    /\ ORIGIN \in Keys
  BY BatchAssumption, GuardAssumption, JobsAre DEF Keys

\* Steps that record nothing and let no further cook fetch.
LEMMA GuardsStay ==
    ASSUME Typed, WindowIsRecorded, GuardsHold, UNCHANGED guards, now' \in Nat, now <= now',
           Fetching' \subseteq Fetching
    PROVE  WindowIsRecorded' /\ GuardsHold'
<1>1. UNCHANGED <<until, window>>
    BY DEF guards
<1>2. \A k \in Keys : window[k].until \in Nat
    BY DEF Typed
<1>3. GuardsHold'
  <2> SUFFICES ASSUME NEW i \in Fetching', NEW k \in {ORIGIN, UrlOf[i]}, now' < window'[k].until
               PROVE  i \in window'[k].excused
      BY DEF GuardsHold
  <2>1. i \in Fetching /\ i \in Jobs
      BY DEF Fetching
  <2>2. k \in Keys
      BY <2>1, KeysOfJobs
  <2>3. now < window[k].until
      BY <1>1, <1>2, <2>2 DEF Typed
  <2> QED BY <1>1, <2>1, <2>3 DEF GuardsHold
<1> QED BY <1>1, <1>3 DEF WindowIsRecorded

LEMMA CheckGuards ==
    ASSUME Typed, WindowIsRecorded, GuardsHold, NEW i \in Jobs, Check(i)
    PROVE  WindowIsRecorded' /\ GuardsHold'
<1>1. UNCHANGED <<now, until, window>>
    BY DEF Check, guards
<1>2. pc' = [pc EXCEPT ![i] = IF check(UrlOf[i]) = "go" THEN "fetch" ELSE "final"]
    BY DEF Check, Goto
<1>3. WindowIsRecorded'
    BY <1>1 DEF WindowIsRecorded
<1>4. GuardsHold'
  <2> SUFFICES ASSUME NEW j \in Fetching', NEW k \in {ORIGIN, UrlOf[j]}, now' < window'[k].until
               PROVE  j \in window'[k].excused
      BY DEF GuardsHold
  <2>1. j \in Jobs /\ pc'[j] = "fetch"
      BY DEF Fetching
  <2>2. CASE j = i
    <3>1. check(UrlOf[i]) = "go"
        BY <1>2, <2>1, <2>2 DEF Typed
    <3>2. ~(now < until[ORIGIN]) /\ ~(now < until[UrlOf[i]])
        BY <3>1 DEF check
    <3>3. k \in Keys /\ window[k].until = until[k]
        BY <2>1, KeysOfJobs DEF WindowIsRecorded
    <3> QED BY <1>1, <2>2, <3>2, <3>3
  <2>3. CASE j # i
    <3>1. j \in Fetching
        BY <1>2, <2>1, <2>3 DEF Typed, Fetching
    <3> QED BY <1>1, <3>1 DEF GuardsHold
  <2> QED BY <2>2, <2>3
<1> QED BY <1>3, <1>4

\* A record excuses everybody who is under way to its key.
LEMMA RecordGuards ==
    ASSUME Typed, WindowIsRecorded, GuardsHold, NEW i \in Jobs,
           NEW key \in Keys, NEW ttl \in Nat, NEW cooks \in SUBSET Jobs,
           record(key, ttl, cooks), UNCHANGED now, Goto(i, "final"),
           \A j \in Fetching \ {i} : key \in {ORIGIN, UrlOf[j]} => j \in cooks
    PROVE  /\ WindowIsRecorded' /\ GuardsHold'
           /\ until' \in [Keys -> Nat]
           /\ window' \in [Keys -> [until : Nat, excused : SUBSET Jobs]]
<1>1. /\ until' = [until EXCEPT ![key] = now + ttl]
      /\ window' = [window EXCEPT ![key] = [until |-> now + ttl, excused |-> cooks]]
      /\ pc' = [pc EXCEPT ![i] = "final"]
    BY DEF record, Goto
<1>2. until' \in [Keys -> Nat] /\ window' \in [Keys -> [until : Nat, excused : SUBSET Jobs]]
    BY <1>1 DEF Typed
<1>3. WindowIsRecorded'
    BY <1>1 DEF Typed, WindowIsRecorded
<1>4. GuardsHold'
  <2> SUFFICES ASSUME NEW j \in Fetching', NEW k \in {ORIGIN, UrlOf[j]}, now' < window'[k].until
               PROVE  j \in window'[k].excused
      BY DEF GuardsHold
  <2>1. j \in Fetching \ {i}
      BY <1>1 DEF Typed, Fetching
  <2>2. k \in Keys /\ j \in Jobs
      BY <2>1, KeysOfJobs DEF Fetching
  <2>3. CASE k = key
      BY <1>1, <2>1, <2>2, <2>3 DEF Typed
  <2>4. CASE k # key
    <3>1. window'[k] = window[k]
        BY <1>1, <2>2, <2>4 DEF Typed
    <3> QED BY <2>1, <3>1 DEF GuardsHold
  <2> QED BY <2>3, <2>4
<1> QED BY <1>2, <1>3, <1>4

-----------------------------------------------------------------------------
(* The lines.                                                              *)

\* Nobody sees the end while a cook is under way.
LEMMA UnderWay ==
    ASSUME Typed, LineInv, NEW i \in Jobs, pc[i] \notin Ended \cup {"new"}
    PROVE  phase = "running" /\ ~over
  BY DEF LineInv, NothingBefore, EndLast, AllEnded, Ended

\* A cook goes on, or a panic ends it alone.
LEMMA MoveLines ==
    ASSUME Typed, LineInv, NEW i \in Jobs, pc[i] \notin Ended \cup {"new"},
           NEW to \in Places \ {"new", "done", "dropped"}, to = "dead" => stream,
           Goto(i, to), UNCHANGED <<stream, phase, lines, got, over, gone>>
    PROVE  LineInv'
<1>1. phase = "running" /\ ~over
    BY UnderWay
<1>2. pc' = [pc EXCEPT ![i] = to] /\ pc \in [Jobs -> Places]
    BY DEF Goto, Typed
<1>3. NothingBefore' /\ RefusalsFirst' /\ FinalOnce'
    BY <1>1 DEF LineInv, NothingBefore, RefusalsFirst, FinalOnce
<1>4. FinalWhenDone'
    BY <1>2 DEF LineInv, FinalWhenDone, Ended
<1>5. EndLast'
  <2>1. stream => \A j \in Jobs : pc'[j] # "dropped"
      BY <1>2 DEF LineInv, EndLast
  <2>2. ASSUME ~stream, NEW j \in Jobs
        PROVE  /\ pc'[j] = "dead" => over'
               /\ pc'[j] = "dropped" => gone' \/ \E l \in Jobs : pc'[l] = "dead"
    <3>1. \A l \in Jobs : pc[l] # "dead"
        BY <1>1, <2>2 DEF LineInv, EndLast
    <3>2. pc'[j] # "dead" /\ (pc'[j] = "dropped" => pc[j] = "dropped")
        BY <1>2, <2>2, <3>1
    <3>3. pc[j] = "dropped" => gone
        BY <2>2, <3>1 DEF LineInv, EndLast
    <3> QED BY <3>2, <3>3
  <2> QED BY <1>1, <2>1, <2>2 DEF EndLast
<1> QED BY <1>3, <1>4, <1>5 DEF LineInv

LEMMA AppendTyped ==
    ASSUME Typed, NEW i \in Jobs, NEW kind \in {"progress", "final"},
           lines' = Append(lines, Line(i, kind))
    PROVE  /\ lines' \in Seq([item : 1..N, kind : {"progress", "final"}])
           /\ Len(lines) \in Nat /\ Len(lines') = Len(lines) + 1
           /\ \A m \in 1..Len(lines) : lines'[m] = lines[m]
           /\ lines'[Len(lines) + 1] = Line(i, kind)
<1> DEFINE T == [item : 1..N, kind : {"progress", "final"}]
<1>1. lines \in Seq(T) /\ Line(i, kind) \in T
    BY JobsAre DEF Typed, Line
<1> HIDE DEF T
<1>2. lines' \in Seq(T) /\ Len(lines) \in Nat /\ Len(lines') = Len(lines) + 1
    BY <1>1
<1>3. \A m \in 1..Len(lines) : lines'[m] = lines[m]
    BY <1>1
<1>4. lines'[Len(lines) + 1] = Line(i, kind)
    BY <1>1
<1> QED BY <1>2, <1>3, <1>4 DEF T

\* A line of a job that has no final line yet.
LEMMA AppendLine ==
    ASSUME Typed, LineInv, NEW i \in Jobs, stream, pc[i] \notin Ended \cup {"new"},
           NEW kind \in {"progress", "final"}, lines' = Append(lines, Line(i, kind)),
           UNCHANGED <<stream, phase>>
    PROVE  NothingBefore' /\ RefusalsFirst' /\ FinalOnce'
<1>1. phase = "running" /\ phase' = "running"
    BY UnderWay
<1>2. /\ Len(lines) \in Nat /\ Len(lines') = Len(lines) + 1
      /\ \A m \in 1..Len(lines) : lines'[m] = lines[m]
      /\ lines'[Len(lines) + 1] = Line(i, kind)
    BY AppendTyped
<1>3. Turned \in Nat /\ Turned <= Len(lines)
    BY <1>1, OverflowSize DEF LineInv, RefusalsFirst
<1>4. RefusalsFirst'
  <2>1. \A m \in 1..Len(lines') :
            IF m <= Turned THEN lines'[m] = Line(m + BATCH_MAX_ITEMS, "final")
            ELSE lines'[m].item \in Jobs
    <3> TAKE m \in 1..Len(lines')
    <3>1. CASE m \in 1..Len(lines)
        BY <1>2, <3>1 DEF LineInv, RefusalsFirst
    <3>2. CASE m = Len(lines) + 1
        BY <1>2, <1>3, <3>2 DEF Line
    <3> QED BY <1>2, <3>1, <3>2
  <2> QED BY <1>2, <1>3, <2>1 DEF RefusalsFirst, Turned
<1>5. FinalOnce'
  <2>1. ASSUME NEW m \in 1..Len(lines'), NEW n \in 1..Len(lines'), m < n, lines'[m].kind = "final"
        PROVE  lines'[n].item # lines'[m].item
    <3>1. m \in 1..Len(lines) /\ lines'[m] = lines[m]
        BY <1>2, <2>1
    <3>2. CASE n \in 1..Len(lines)
        BY <1>2, <2>1, <3>1, <3>2 DEF LineInv, FinalOnce
    <3>3. CASE n = Len(lines) + 1
      <4>1. lines'[n].item = i
          BY <1>2, <3>3 DEF Line
      <4>2. lines[m].item # i
          BY <2>1, <3>1 DEF LineInv, FinalWhenDone, Ended
      <4> QED BY <3>1, <4>1, <4>2
    <3> QED BY <1>2, <2>1, <3>2, <3>3
  <2> QED BY <2>1 DEF FinalOnce
<1> QED BY <1>1, <1>4, <1>5 DEF NothingBefore

LEMMA ProgressLines ==
    ASSUME Typed, LineInv, NEW i \in Jobs, Progress(i)
    PROVE  LineInv'
<1>1. /\ pc[i] = "work" /\ stream
      /\ lines' = Append(lines, Line(i, "progress"))
      /\ UNCHANGED <<stream, phase, pc, got, over, gone>>
    BY DEF Progress, client
<1>2. phase = "running" /\ ~over
    BY <1>1, UnderWay DEF Ended
<1>3. /\ Len(lines) \in Nat /\ Len(lines') = Len(lines) + 1
      /\ \A m \in 1..Len(lines) : lines'[m] = lines[m]
      /\ lines'[Len(lines) + 1] = Line(i, "progress")
    BY <1>1, AppendTyped
<1>4. NothingBefore' /\ RefusalsFirst' /\ FinalOnce'
    BY <1>1, AppendLine DEF Ended
<1>5. FinalWhenDone'
  <2>1. ASSUME NEW m \in 1..Len(lines'), lines'[m].kind = "final", lines'[m].item \in Jobs
        PROVE  pc'[lines'[m].item] = "done"
    <3>1. m \in 1..Len(lines)
        BY <1>3, <2>1 DEF Line
    <3> QED BY <1>1, <1>3, <2>1, <3>1 DEF LineInv, FinalWhenDone
  <2>2. ASSUME NEW j \in Jobs, pc'[j] = "done"
        PROVE  \E m \in 1..Len(lines') : lines'[m] = Line(j, "final")
    <3>1. PICK m \in 1..Len(lines) : lines[m] = Line(j, "final")
        BY <1>1, <2>2 DEF LineInv, FinalWhenDone
    <3> QED BY <1>3, <3>1
  <2> QED BY <2>1, <2>2 DEF FinalWhenDone
<1>6. EndLast'
    BY <1>1, <1>2 DEF LineInv, EndLast
<1> QED BY <1>4, <1>5, <1>6 DEF LineInv

LEMMA FinishLines ==
    ASSUME Typed, LineInv, NEW i \in Jobs, Finish(i)
    PROVE  LineInv'
<1>1. /\ pc[i] = "final" /\ pc' = [pc EXCEPT ![i] = "done"] /\ pc \in [Jobs -> Places]
      /\ lines' = IF stream THEN Append(lines, Line(i, "final")) ELSE lines
      /\ UNCHANGED <<stream, phase, got, over, gone>>
    BY DEF Finish, Goto, client, Typed
<1>2. phase = "running" /\ ~over
    BY <1>1, UnderWay DEF Ended
<1>3. EndLast'
  <2>1. stream => \A j \in Jobs : pc'[j] # "dropped"
      BY <1>1 DEF LineInv, EndLast
  <2>2. ASSUME ~stream, NEW j \in Jobs
        PROVE  /\ pc'[j] = "dead" => over'
               /\ pc'[j] = "dropped" => gone' \/ \E l \in Jobs : pc'[l] = "dead"
    <3>1. \A l \in Jobs : pc[l] # "dead"
        BY <1>2, <2>2 DEF LineInv, EndLast
    <3>2. pc'[j] # "dead" /\ (pc'[j] = "dropped" => pc[j] = "dropped")
        BY <1>1, <3>1
    <3>3. pc[j] = "dropped" => gone
        BY <2>2, <3>1 DEF LineInv, EndLast
    <3> QED BY <1>1, <3>2, <3>3
  <2> QED BY <1>1, <1>2, <2>1, <2>2 DEF EndLast
<1>4. CASE ~stream
  <2>1. lines = <<>> /\ lines' = <<>> /\ Len(lines') = 0
      BY <1>1, <1>4 DEF LineInv, RefusalsFirst
  <2>2. NothingBefore' /\ RefusalsFirst' /\ FinalOnce' /\ FinalWhenDone'
      BY <1>1, <1>2, <1>4, <2>1 DEF NothingBefore, RefusalsFirst, FinalOnce, FinalWhenDone
  <2> QED BY <1>3, <2>2 DEF LineInv
<1>5. CASE stream
  <2>1. lines' = Append(lines, Line(i, "final"))
      BY <1>1, <1>5
  <2>2. /\ Len(lines) \in Nat /\ Len(lines') = Len(lines) + 1
        /\ \A m \in 1..Len(lines) : lines'[m] = lines[m]
        /\ lines'[Len(lines) + 1] = Line(i, "final")
      BY <2>1, AppendTyped
  <2>3. NothingBefore' /\ RefusalsFirst' /\ FinalOnce'
      BY <1>1, <1>5, <2>1, AppendLine DEF Ended
  <2>4. FinalWhenDone'
    <3>1. ASSUME NEW m \in 1..Len(lines'), lines'[m].kind = "final", lines'[m].item \in Jobs
          PROVE  pc'[lines'[m].item] = "done"
      <4>1. CASE m \in 1..Len(lines)
        <5>1. lines'[m] = lines[m] /\ pc[lines[m].item] = "done"
            BY <2>2, <3>1, <4>1 DEF LineInv, FinalWhenDone
        <5> QED BY <1>1, <3>1, <5>1
      <4>2. CASE m = Len(lines) + 1
          BY <1>1, <2>2, <4>2 DEF Line
      <4> QED BY <2>2, <3>1, <4>1, <4>2
    <3>2. ASSUME NEW j \in Jobs, pc'[j] = "done"
          PROVE  \E m \in 1..Len(lines') : lines'[m] = Line(j, "final")
      <4>1. CASE j = i
          BY <2>2, <4>1
      <4>2. CASE j # i
        <5>1. PICK m \in 1..Len(lines) : lines[m] = Line(j, "final")
            BY <1>1, <1>5, <3>2, <4>2 DEF LineInv, FinalWhenDone
        <5> QED BY <2>2, <5>1
      <4> QED BY <4>1, <4>2
    <3> QED BY <3>1, <3>2 DEF FinalWhenDone
  <2> QED BY <1>3, <2>3, <2>4 DEF LineInv
<1> QED BY <1>1, <1>4, <1>5 DEF Typed

\* A step that touches no line, no cook and no end.
LEMMA LinesStay ==
    ASSUME LineInv, UNCHANGED <<stream, phase, pc, lines, got, over, gone>>
    PROVE  LineInv'
<1>1. NothingBefore' /\ RefusalsFirst' /\ FinalOnce'
    BY DEF LineInv, NothingBefore, RefusalsFirst, FinalOnce
<1>2. FinalWhenDone' /\ EndLast'
    BY DEF LineInv, FinalWhenDone, EndLast, AllEnded
<1> QED BY <1>1, <1>2 DEF LineInv

LEMMA LimitsAre ==
    /\ Len(Limits(Overflow)) = Turned
    /\ \A m \in 1..Turned : Limits(Overflow)[m] = Line(m + BATCH_MAX_ITEMS, "final")
    /\ Limits(Overflow) \in Seq([item : 1..N, kind : {"progress", "final"}])
<1>1. Limits(Overflow) = [n \in 1..Turned |-> Line(n + BATCH_MAX_ITEMS, "final")]
    BY OverflowSize DEF Limits
<1>2. \A m \in 1..Turned : Line(m + BATCH_MAX_ITEMS, "final") \in [item : 1..N, kind : {"progress", "final"}]
    BY BatchAssumption DEF Turned, Line
<1> QED BY <1>1, <1>2, OverflowSize

LEMMA AcceptLines ==
    ASSUME Typed, LineInv, Accept
    PROVE  LineInv'
<1>1. /\ phase' = "running"
      /\ pc' = [i \in Jobs |-> "check"]
      /\ lines' = IF stream THEN Limits(Overflow) ELSE lines
      /\ UNCHANGED <<stream, got, over, gone>>
    BY DEF Accept, client
<1>2. lines = <<>> /\ got = 0 /\ ~over /\ ~gone
    BY DEF Accept, LineInv, NothingBefore
<1>3. NothingBefore'
    BY <1>1 DEF NothingBefore
<1>4. EndLast'
    BY <1>1, <1>2 DEF EndLast
<1>5. \A i \in Jobs : i \notin Overflow
    BY JobsAre
<1>6. CASE ~stream
  <2>1. lines' = <<>> /\ Len(lines') = 0
      BY <1>1, <1>2, <1>6
  <2>2. RefusalsFirst' /\ FinalWhenDone' /\ FinalOnce'
      BY <1>1, <1>6, <2>1 DEF RefusalsFirst, FinalWhenDone, FinalOnce
  <2> QED BY <1>3, <1>4, <2>2 DEF LineInv
<1>7. CASE stream
  <2>1. /\ Len(lines') = Turned /\ Turned \in Nat
        /\ \A m \in 1..Turned : lines'[m] = Line(m + BATCH_MAX_ITEMS, "final")
      BY <1>1, <1>7, LimitsAre, OverflowSize
  <2>2. RefusalsFirst'
      BY <1>1, <1>7, <2>1 DEF RefusalsFirst, Turned
  <2>3. \A m \in 1..Turned : lines'[m].item = m + BATCH_MAX_ITEMS
      BY <2>1 DEF Line
  <2>4. \A m \in 1..Turned : m + BATCH_MAX_ITEMS \notin Jobs
      BY <2>1, JobsAre, BatchAssumption DEF Turned
  <2>5. FinalWhenDone'
      BY <1>1, <2>1, <2>3, <2>4 DEF FinalWhenDone
  <2>6. FinalOnce'
      BY <2>1, <2>3, BatchAssumption DEF FinalOnce
  <2> QED BY <1>3, <1>4, <2>2, <2>5, <2>6 DEF LineInv
<1> QED BY <1>6, <1>7 DEF Typed

LEMMA PanicLines ==
    ASSUME Typed, LineInv, NEW i \in Jobs, NEW ttl, Panic(i, ttl)
    PROVE  LineInv'
<1>1. pc[i] = "fetch" /\ UNCHANGED <<stream, phase, lines, got, gone>>
    BY DEF Panic
<1>2. phase = "running"
    BY <1>1, UnderWay DEF Ended
<1>3. CASE stream
    BY <1>1, <1>3, MoveLines DEF Panic, Places, Ended
<1>4. CASE ~stream
  <2>1. pc' = [j \in Jobs |-> IF j = i THEN "dead" ELSE "dropped"] /\ over' = TRUE
      BY <1>4 DEF Panic
  <2>2. lines = <<>> /\ lines' = <<>> /\ Len(lines') = 0
      BY <1>1, <1>4 DEF LineInv, RefusalsFirst
  <2>3. NothingBefore' /\ RefusalsFirst' /\ FinalOnce' /\ FinalWhenDone'
      BY <1>1, <1>2, <1>4, <2>2 DEF NothingBefore, RefusalsFirst, FinalOnce, FinalWhenDone
  <2>4. EndLast'
      BY <1>1, <1>2, <1>4, <2>1 DEF EndLast, AllEnded
  <2> QED BY <2>3, <2>4 DEF LineInv
<1> QED BY <1>3, <1>4 DEF Typed

LEMMA ReadLines ==
    ASSUME Typed, LineInv, Read
    PROVE  LineInv'
<1>1. /\ got < Len(lines) /\ got' = got + 1
      /\ UNCHANGED <<stream, phase, pc, lines, over, gone>>
    BY DEF Read, jobvars
<1>2. lines # <<>>
    BY <1>1 DEF Typed
<1>3. stream /\ phase = "running"
    BY <1>2 DEF LineInv, RefusalsFirst, NothingBefore
<1>4. ~over
    BY <1>1, <1>3 DEF LineInv, EndLast, Typed
<1>5. NothingBefore' /\ RefusalsFirst' /\ FinalOnce' /\ FinalWhenDone'
    BY <1>1, <1>3 DEF LineInv, NothingBefore, RefusalsFirst, FinalOnce, FinalWhenDone
<1>6. EndLast'
    BY <1>1, <1>4 DEF LineInv, EndLast
<1> QED BY <1>5, <1>6 DEF LineInv

LEMMA EndLines ==
    ASSUME Typed, LineInv, End
    PROVE  LineInv'
<1>1. /\ AllEnded /\ got = Len(lines) /\ over' = TRUE
      /\ UNCHANGED <<stream, phase, pc, lines, got, gone>>
    BY DEF End, jobvars
<1>2. NothingBefore' /\ RefusalsFirst' /\ FinalOnce' /\ FinalWhenDone'
    BY <1>1 DEF LineInv, NothingBefore, RefusalsFirst, FinalOnce, FinalWhenDone, AllEnded
<1>3. EndLast'
    BY <1>1 DEF LineInv, EndLast, AllEnded
<1> QED BY <1>2, <1>3 DEF LineInv

LEMMA DisconnectLines ==
    ASSUME Typed, LineInv, Disconnect
    PROVE  LineInv'
<1>1. /\ phase = "running" /\ ~over /\ gone' = TRUE
      /\ UNCHANGED <<stream, phase, lines, got, over>>
    BY DEF Disconnect
<1>2. CASE stream
  <2>1. pc' = pc
      BY <1>2 DEF Disconnect
  <2>2. NothingBefore' /\ RefusalsFirst' /\ FinalOnce' /\ FinalWhenDone'
      BY <1>1, <2>1 DEF LineInv, NothingBefore, RefusalsFirst, FinalOnce, FinalWhenDone
  <2>3. EndLast'
      BY <1>1, <1>2, <2>1 DEF LineInv, EndLast
  <2> QED BY <2>2, <2>3 DEF LineInv
<1>3. CASE ~stream
  <2>1. lines = <<>> /\ lines' = <<>> /\ Len(lines') = 0
      BY <1>1, <1>3 DEF LineInv, RefusalsFirst
  <2>2. NothingBefore' /\ RefusalsFirst' /\ FinalOnce' /\ FinalWhenDone'
      BY <1>1, <1>3, <2>1 DEF NothingBefore, RefusalsFirst, FinalOnce, FinalWhenDone
  <2>3. pc' = [j \in Jobs |-> IF pc[j] = "done" THEN "done" ELSE "dropped"]
      BY <1>3 DEF Disconnect
  <2>4. EndLast'
      BY <1>1, <1>3, <2>3 DEF EndLast
  <2> QED BY <2>2, <2>4 DEF LineInv
<1> QED BY <1>2, <1>3 DEF Typed

-----------------------------------------------------------------------------
(* One step.                                                               *)

\* A cook that goes on records nothing.
LEMMA MoveKeeps ==
    ASSUME IInv, NEW i \in Jobs, pc[i] \notin Ended \cup {"new"},
           NEW to \in Places \ {"new", "fetch", "done", "dead", "dropped"},
           Goto(i, to), UNCHANGED <<now, guards, stream, phase, lines, client>>
    PROVE  IInv'
<1>1. LineInv'
    BY MoveLines DEF IInv, client
<1>2. Typed'
    BY DEF IInv, Typed, Goto, guards, client
<1>3. Fetching' \subseteq Fetching
    BY DEF IInv, Typed, Goto, Fetching
<1>4. WindowIsRecorded' /\ GuardsHold'
    BY <1>3, GuardsStay DEF IInv, Typed
<1> QED BY <1>1, <1>2, <1>4 DEF IInv

LEMMA CheckKeeps ==
    ASSUME IInv, NEW i \in Jobs, Check(i)
    PROVE  IInv'
<1> DEFINE to == IF check(UrlOf[i]) = "go" THEN "fetch" ELSE "final"
<1>1. /\ pc[i] = "check" /\ to \in {"fetch", "final"} /\ Goto(i, to)
      /\ UNCHANGED <<now, until, window, stream, phase, lines, got, over, gone>>
    BY DEF Check, guards, client
<1>2. WindowIsRecorded' /\ GuardsHold'
    BY CheckGuards DEF IInv
<1> HIDE DEF to
<1>3. LineInv'
    BY <1>1, MoveLines DEF IInv, Places, Ended
<1>4. Typed'
    BY <1>1 DEF IInv, Typed, Goto, Places
<1> QED BY <1>2, <1>3, <1>4 DEF IInv

\* An answer that closes a window ends its cook.
LEMMA RecordKeeps ==
    ASSUME IInv, NEW i \in Jobs, pc[i] = "fetch",
           NEW key \in Keys, NEW ttl \in Nat, NEW cooks \in SUBSET Jobs,
           record(key, ttl, cooks), Goto(i, "final"),
           UNCHANGED <<now, stream, phase, lines, client>>,
           \A j \in Fetching \ {i} : key \in {ORIGIN, UrlOf[j]} => j \in cooks
    PROVE  IInv'
<1>1. LineInv'
    BY MoveLines DEF IInv, client, Places, Ended
<1>2. /\ WindowIsRecorded' /\ GuardsHold'
      /\ until' \in [Keys -> Nat]
      /\ window' \in [Keys -> [until : Nat, excused : SUBSET Jobs]]
    BY RecordGuards DEF IInv
<1>3. Typed'
    BY <1>2 DEF IInv, Typed, Goto, client, Places
<1> QED BY <1>1, <1>2, <1>3 DEF IInv

LEMMA AnswersKeep ==
    ASSUME IInv, NEW i \in Jobs,
           (\E ttl \in Ttls : AnswerOverloaded(i, ttl)) \/ AnswerError(i) \/ Answer(i)
    PROVE  IInv'
<1>1. ASSUME NEW ttl \in Ttls, AnswerOverloaded(i, ttl)
      PROVE  IInv'
  <2>1. Min({ttl, Ceiling}) \in Nat
      BY LeastOfTwo, BatchAssumption, GuardAssumption
  <2>2. Fetching \ {i} \in SUBSET Jobs
      BY DEF Fetching
  <2> QED BY <1>1, <2>1, <2>2, KeysOfJobs, RecordKeeps DEF AnswerOverloaded
<1>2. CASE AnswerError(i)
  <2> DEFINE cooks == {j \in Fetching \ {i} : UrlOf[j] = UrlOf[i]}
  <2>1. cooks \in SUBSET Jobs
      BY DEF Fetching
  <2>2. \A j \in Fetching \ {i} : UrlOf[i] \in {ORIGIN, UrlOf[j]} => j \in cooks
      BY KeysOfJobs
  <2>3. FailTtl \in Nat /\ UrlOf[i] \in Keys
      BY GuardAssumption, KeysOfJobs
  <2>4. record(UrlOf[i], FailTtl, cooks)
      BY <1>2 DEF AnswerError
  <2> HIDE DEF cooks
  <2> QED BY <1>2, <2>1, <2>2, <2>3, <2>4, RecordKeeps DEF AnswerError
<1>3. CASE Answer(i)
    BY <1>3, MoveKeeps DEF Answer, Places, Ended
<1> QED BY <1>1, <1>2, <1>3

LEMMA PanicKeeps ==
    ASSUME IInv, NEW i \in Jobs, NEW ttl, Panic(i, ttl)
    PROVE  IInv'
<1>1. LineInv'
    BY PanicLines DEF IInv
<1>2. /\ UNCHANGED <<now, until, window, stream, phase, lines, got, gone>>
      /\ \/ stream /\ pc' = [pc EXCEPT ![i] = "dead"] /\ over' = over
         \/ pc' = [j \in Jobs |-> IF j = i THEN "dead" ELSE "dropped"] /\ over' = TRUE
    BY DEF Panic, Goto, guards
<1>3. Typed'
    BY <1>2 DEF IInv, Typed, Places
<1>4. Fetching' \subseteq Fetching
    BY <1>2 DEF IInv, Typed, Fetching
<1>5. WindowIsRecorded' /\ GuardsHold'
    BY <1>2, <1>4, GuardsStay DEF IInv, Typed, guards
<1> QED BY <1>1, <1>3, <1>5 DEF IInv

\* Steps that leave the cooks where they are, or only end some.
LEMMA EndingKeeps ==
    ASSUME IInv, LineInv', UNCHANGED <<guards, stream>>, now' \in Nat, now <= now',
           phase' \in {"new", "running", "refused"},
           \/ UNCHANGED pc
           \/ pc' \in [Jobs -> Places] /\ \A j \in Jobs : pc'[j] # "fetch",
           lines' \in Seq([item : 1..N, kind : {"progress", "final"}]), got' \in 0..Len(lines'),
           over' \in BOOLEAN, gone' \in BOOLEAN
    PROVE  IInv'
<1>1. Typed'
    BY DEF IInv, Typed, guards
<1>2. Fetching' \subseteq Fetching
    BY DEF Fetching
<1>3. WindowIsRecorded' /\ GuardsHold'
    BY <1>2, GuardsStay DEF IInv
<1> QED BY <1>1, <1>3 DEF IInv

LEMMA LinesKeep ==
    ASSUME IInv, NEW i \in Jobs, Progress(i) \/ Finish(i)
    PROVE  IInv'
<1>1. LineInv'
    BY ProgressLines, FinishLines DEF IInv
<1>2. UNCHANGED <<now, guards, stream, phase, got, over, gone>>
    BY DEF Progress, Finish, client
<1>3. lines' \in Seq([item : 1..N, kind : {"progress", "final"}]) /\ got' \in 0..Len(lines')
  <2>1. CASE UNCHANGED lines
      BY <1>2, <2>1 DEF IInv, Typed
  <2>2. ASSUME NEW kind \in {"progress", "final"}, lines' = Append(lines, Line(i, kind))
        PROVE  lines' \in Seq([item : 1..N, kind : {"progress", "final"}]) /\ got' \in 0..Len(lines')
      BY <1>2, <2>2, AppendTyped DEF IInv, Typed
  <2> QED BY <2>1, <2>2 DEF Progress, Finish
<1>4. pc' = pc \/ pc' = [pc EXCEPT ![i] = "done"]
    BY DEF Progress, Finish, Goto
<1>5. Typed'
    BY <1>2, <1>3, <1>4 DEF IInv, Typed, guards, Places
<1>6. Fetching' \subseteq Fetching
    BY <1>4 DEF IInv, Typed, Fetching
<1>7. WindowIsRecorded' /\ GuardsHold'
    BY <1>2, <1>6, GuardsStay DEF IInv, Typed
<1> QED BY <1>1, <1>5, <1>7 DEF IInv

LEMMA JobKeeps ==
    ASSUME IInv, NEW i \in Jobs, JobStep(i)
    PROVE  IInv'
<1>1. CASE Check(i)
    BY <1>1, CheckKeeps
<1>2. CASE (\E ttl \in Ttls : AnswerOverloaded(i, ttl)) \/ AnswerError(i) \/ Answer(i)
    BY <1>2, AnswersKeep
<1>3. ASSUME NEW ttl \in Ttls, Panic(i, ttl)
      PROVE  IInv'
    BY <1>3, PanicKeeps
<1>4. CASE Progress(i) \/ Finish(i)
    BY <1>4, LinesKeep
<1>5. CASE Work(i)
    BY <1>5, MoveKeeps DEF Work, Places, Ended
<1>6. CASE StartTool(i)
    BY <1>6, MoveKeeps DEF StartTool, Places, Ended
<1>7. CASE ToolReturns(i)
    BY <1>7, MoveKeeps DEF ToolReturns, Places, Ended
<1>8. CASE ToolExits(i) \/ Deadline(i) \/ Release(i)
  <2>1. UNCHANGED <<now, guards, stream, phase, pc, lines, got, over, gone>>
      BY <1>8 DEF ToolExits, Deadline, Release, ToolStep, client
  <2>2. LineInv'
      BY <2>1, LinesStay DEF IInv
  <2> QED BY <2>1, <2>2, EndingKeeps DEF IInv, Typed
<1> QED BY <1>1, <1>2, <1>3, <1>4, <1>5, <1>6, <1>7, <1>8 DEF JobStep

LEMMA BatchKeeps ==
    ASSUME IInv, Refuse \/ Accept \/ Read \/ End \/ Disconnect \/
                 (Tick /\ UNCHANGED <<stream, phase, jobvars, lines, client>>)
    PROVE  IInv'
<1> USE DEF jobvars, client
<1>1. CASE Refuse
  <2>1. LineInv'
    <3>1. NothingBefore' /\ RefusalsFirst'
        BY <1>1 DEF Refuse, IInv, LineInv, NothingBefore, RefusalsFirst
    <3>2. FinalWhenDone' /\ FinalOnce'
        BY <1>1 DEF Refuse, IInv, LineInv, FinalWhenDone, FinalOnce
    <3>3. EndLast'
        BY <1>1 DEF Refuse, IInv, LineInv, NothingBefore, EndLast
    <3> QED BY <3>1, <3>2, <3>3 DEF LineInv
  <2> QED BY <1>1, <2>1, EndingKeeps DEF Refuse, IInv, Typed
<1>2. CASE Accept
  <2>1. LineInv'
      BY <1>2, AcceptLines DEF IInv
  <2>2. pc' \in [Jobs -> Places] /\ \A j \in Jobs : pc'[j] # "fetch"
      BY <1>2 DEF Accept, Places
  <2>3. lines' \in Seq([item : 1..N, kind : {"progress", "final"}]) /\ got' \in 0..Len(lines')
    <3>1. got = 0 /\ lines' \in {lines, Limits(Overflow)}
        BY <1>2 DEF Accept, IInv, LineInv, NothingBefore
    <3> QED BY <1>2, <3>1, LimitsAre, OverflowSize DEF Accept, IInv, Typed
  <2>4. UNCHANGED <<now, guards, stream, over, gone>> /\ phase' = "running"
      BY <1>2 DEF Accept
  <2> QED BY <2>1, <2>2, <2>3, <2>4, EndingKeeps DEF IInv, Typed
<1>3. CASE Read
  <2>1. LineInv'
      BY <1>3, ReadLines DEF IInv
  <2>2. got' \in 0..Len(lines') /\ UNCHANGED <<now, guards, stream, phase, pc, lines, over, gone>>
      BY <1>3 DEF Read, IInv, Typed
  <2> QED BY <2>1, <2>2, EndingKeeps DEF IInv, Typed
<1>4. CASE End
  <2>1. LineInv'
      BY <1>4, EndLines DEF IInv
  <2> QED BY <1>4, <2>1, EndingKeeps DEF End, IInv, Typed
<1>5. CASE Disconnect
  <2>1. LineInv'
      BY <1>5, DisconnectLines DEF IInv
  <2>2. \/ UNCHANGED pc
        \/ pc' \in [Jobs -> Places] /\ \A j \in Jobs : pc'[j] # "fetch"
      BY <1>5 DEF Disconnect, Places
  <2>3. UNCHANGED <<now, guards, stream, phase, lines, got, over>> /\ gone' = TRUE
      BY <1>5 DEF Disconnect
  <2> QED BY <2>1, <2>2, <2>3, EndingKeeps DEF IInv, Typed
<1>6. CASE Tick /\ UNCHANGED <<stream, phase, jobvars, lines, client>>
  <2>1. now' = now + 1 /\ UNCHANGED guards
      BY <1>6 DEF Tick
  <2>2. LineInv'
      BY <1>6, LinesStay DEF IInv
  <2> QED BY <1>6, <2>1, <2>2, EndingKeeps DEF IInv, Typed
<1> QED BY <1>1, <1>2, <1>3, <1>4, <1>5, <1>6

LEMMA InitHolds == Init => IInv
<1> SUFFICES ASSUME Init PROVE IInv
    OBVIOUS
<1>1. Typed
  <2>1. /\ now \in Nat /\ until \in [Keys -> Nat]
        /\ window \in [Keys -> [until : Nat, excused : SUBSET Jobs]]
      BY DEF Init, InitGuard
  <2>2. lines \in Seq([item : 1..N, kind : {"progress", "final"}]) /\ got \in 0..Len(lines)
      BY DEF Init
  <2>3. /\ stream \in BOOLEAN /\ phase \in {"new", "running", "refused"} /\ pc \in [Jobs -> Places]
        /\ over \in BOOLEAN /\ gone \in BOOLEAN
      BY DEF Init, Places
  <2> QED BY <2>1, <2>2, <2>3 DEF Typed
<1>2. WindowIsRecorded /\ GuardsHold
    BY DEF Init, InitGuard, WindowIsRecorded, GuardsHold, Fetching
<1>3. NothingBefore /\ RefusalsFirst /\ FinalWhenDone /\ FinalOnce /\ EndLast
    BY DEF Init, NothingBefore, RefusalsFirst, FinalWhenDone, FinalOnce, EndLast
<1> QED BY <1>1, <1>2, <1>3 DEF IInv, LineInv

LEMMA StepKeeps == IInv /\ [Next]_vars => IInv'
<1> SUFFICES ASSUME IInv, [Next]_vars PROVE IInv'
    OBVIOUS
<1>1. CASE UNCHANGED vars
  <2>1. UNCHANGED <<now, guards, stream, phase, pc, lines, got, over, gone>>
      BY <1>1 DEF vars, jobvars, client
  <2>2. LineInv'
      BY <2>1, LinesStay DEF IInv
  <2> QED BY <2>1, <2>2, EndingKeeps DEF IInv, Typed
<1> QED BY <1>1, JobKeeps, BatchKeeps DEF Next

-----------------------------------------------------------------------------
(* What the client is promised.                                            *)
Answered ==
    IF stream THEN Delivered
    ELSE IF over /\ \A i \in Jobs : pc[i] = "done" THEN 1..N ELSE {}

Lost ==
    IF stream THEN {i \in Jobs : pc[i] = "dead"}
    ELSE IF \E i \in Jobs : pc[i] = "dead" THEN 1..N ELSE {}

Open == 1..N \ (Answered \cup Lost)

\* A step that no client can see.
LEMMA Unseen ==
    ASSUME IInv, UNCHANGED <<stream, over, got>>,
           \A i \in Jobs : pc'[i] = "dead" <=> pc[i] = "dead",
           \A m \in 1..got : lines'[m] = lines[m],
           over => UNCHANGED pc
    PROVE  UNCHANGED <<Answered, Lost>>
<1>1. Lost' = Lost
    BY DEF Lost
<1>2. got \in Nat
    BY DEF IInv, Typed
<1>3. Delivered' = Delivered
    BY <1>2 DEF Delivered
<1>4. Answered' = Answered
  <2>1. CASE stream
      BY <1>3, <2>1 DEF Answered
  <2>2. CASE ~stream /\ over
      BY <2>2 DEF Answered
  <2>3. CASE ~stream /\ ~over
      BY <2>3 DEF Answered
  <2> QED BY <2>1, <2>2, <2>3
<1> QED BY <1>1, <1>4

LEMMA JobUnseen ==
    ASSUME IInv, NEW i \in Jobs, JobStep(i), ~ \E ttl \in Ttls : Panic(i, ttl)
    PROVE  UNCHANGED <<stream, over, Answered, Lost>>
<1>1. pc[i] \notin Ended \cup {"new"} \/ UNCHANGED <<stream, over, got, pc, lines>>
    BY DEF JobStep, Check, AnswerOverloaded, AnswerError, Answer, Progress, Work, StartTool,
        ToolExits, Deadline, Release, ToolStep, ToolReturns, Finish, client, Ended
<1>2. CASE UNCHANGED <<stream, over, got, pc, lines>>
    BY <1>2, Unseen
<1>3. CASE pc[i] \notin Ended \cup {"new"}
  <2>1. ~over
      BY <1>3, UnderWay DEF IInv
  <2>2. /\ UNCHANGED <<stream, over, got>>
        /\ UNCHANGED pc \/ \E to \in Places \ {"dead"} : pc' = [pc EXCEPT ![i] = to]
        /\ UNCHANGED lines \/ \E kind \in {"progress", "final"} : lines' = Append(lines, Line(i, kind))
      BY DEF JobStep, Check, AnswerOverloaded, AnswerError, Answer, Progress, Work, StartTool,
          ToolExits, Deadline, Release, ToolStep, ToolReturns, Finish, client, Goto, Places
  <2>3. \A j \in Jobs : pc'[j] = "dead" <=> pc[j] = "dead"
      BY <1>3, <2>2 DEF IInv, Typed, Ended
  <2>4. \A m \in 1..got : lines'[m] = lines[m]
    <3>1. CASE UNCHANGED lines
        BY <3>1
    <3>2. ASSUME NEW kind \in {"progress", "final"}, lines' = Append(lines, Line(i, kind))
          PROVE  \A m \in 1..got : lines'[m] = lines[m]
      <4>1. Len(lines) \in Nat /\ \A m \in 1..Len(lines) : lines'[m] = lines[m]
          BY <3>2, AppendTyped DEF IInv
      <4> QED BY <4>1 DEF IInv, Typed
    <3> QED BY <2>2, <3>1, <3>2
  <2> QED BY <2>1, <2>2, <2>3, <2>4, Unseen
<1> QED BY <1>1, <1>2, <1>3

\* A line that the client takes from the channel.
LEMMA ReadSeen ==
    ASSUME IInv, Read
    PROVE  /\ ~over /\ over' = FALSE /\ UNCHANGED <<stream, Lost>>
           /\ \E S \in SUBSET Open : Answered' = Answered \cup S
<1>1. /\ got < Len(lines) /\ got' = got + 1 /\ got \in Nat /\ Len(lines) \in Nat
      /\ UNCHANGED <<stream, phase, pc, lines, over>>
    BY DEF Read, jobvars, IInv, Typed
<1>2. stream
    BY <1>1 DEF IInv, LineInv, RefusalsFirst
<1>3. ~over /\ over' = FALSE
    BY <1>1, <1>2 DEF IInv, LineInv, EndLast, Typed
<1>4. Lost' = Lost
    BY <1>1 DEF Lost
<1> DEFINE l == lines[got + 1]
<1>5. CASE l.kind # "final"
  <2>1. Delivered' = Delivered
      BY <1>1, <1>5 DEF Delivered
  <2>2. Answered' = Answered \cup {}
      BY <1>1, <1>2, <2>1 DEF Answered
  <2> QED BY <1>1, <1>3, <1>4, <2>2
<1>6. CASE l.kind = "final"
  <2>1. got + 1 \in 1..Len(lines) /\ l.item \in 1..N
    <3>1. got + 1 \in 1..Len(lines)
        BY <1>1
    <3>2. lines \in Seq([item : 1..N, kind : {"progress", "final"}])
        BY DEF IInv, Typed
    <3> DEFINE T == [item : 1..N, kind : {"progress", "final"}]
    <3> HIDE DEF T
    <3>3. lines \in Seq(T)
        BY <3>2 DEF T
    <3>4. \A m \in 1..Len(lines) : lines[m] \in T
        BY <3>3
    <3> QED BY <3>1, <3>4 DEF T
  <2>2. l.item \notin Delivered
      BY <1>1, <2>1 DEF Delivered, IInv, LineInv, FinalOnce
  <2>3. l.item \notin Lost
      BY <1>2, <1>6, <2>1 DEF Lost, IInv, LineInv, FinalWhenDone
  <2>4. {l.item} \in SUBSET Open
      BY <1>2, <2>1, <2>2, <2>3 DEF Open, Answered
  <2>5. Delivered' = Delivered \cup {l.item}
      BY <1>1, <1>6 DEF Delivered
  <2>6. Answered' = Answered \cup {l.item}
      BY <1>1, <1>2, <2>5 DEF Answered
  <2> QED BY <1>1, <1>3, <1>4, <2>4, <2>6
<1> QED BY <1>5, <1>6

\* Nobody is open when the response ends.
LEMMA EndSeen ==
    ASSUME IInv, End
    PROVE  /\ ~over /\ over' = TRUE /\ UNCHANGED <<stream, Lost>>
           /\ Answered' = Answered \cup Open
<1>1. /\ AllEnded /\ ~over /\ ~gone /\ got = Len(lines) /\ over' = TRUE
      /\ UNCHANGED <<stream, phase, pc, lines, got>>
    BY DEF End, jobvars
<1>2. Lost' = Lost
    BY <1>1 DEF Lost
<1>3. CASE stream
  <2>1. Delivered' = Delivered
      BY <1>1 DEF Delivered
  <2>2. \A i \in Jobs : i \in Delivered \cup Lost
    <3> TAKE i \in Jobs
    <3>1. pc[i] \in {"done", "dead"}
        BY <1>1, <1>3 DEF AllEnded, IInv, LineInv, EndLast
    <3>2. CASE pc[i] = "done"
      <4>1. PICK m \in 1..Len(lines) : lines[m] = Line(i, "final")
          BY <1>3, <3>2 DEF IInv, LineInv, FinalWhenDone
      <4> QED BY <1>1, <4>1 DEF Delivered, Line
    <3>3. CASE pc[i] = "dead"
        BY <1>3, <3>3 DEF Lost
    <3> QED BY <3>1, <3>2, <3>3
  <2>3. \A i \in Overflow : i \in Delivered
    <3> TAKE i \in Overflow
    <3>1. Turned \in Nat /\ Turned <= Len(lines) /\ Len(lines) \in Nat
        BY <1>1, <1>3, OverflowSize DEF AllEnded, IInv, LineInv, RefusalsFirst, Typed
    <3>2. i - BATCH_MAX_ITEMS \in 1..Turned /\ i \in Nat
        BY JobsAre, BatchAssumption DEF Turned
    <3>3. lines[i - BATCH_MAX_ITEMS] = Line((i - BATCH_MAX_ITEMS) + BATCH_MAX_ITEMS, "final")
        BY <3>1, <3>2 DEF IInv, LineInv, RefusalsFirst
    <3>4. (i - BATCH_MAX_ITEMS) + BATCH_MAX_ITEMS = i
        BY <3>2, BatchAssumption
    <3> QED BY <1>1, <3>1, <3>2, <3>3, <3>4 DEF Delivered, Line
  <2>4. Open = {}
      BY <1>3, <2>2, <2>3, JobsAre DEF Open, Answered
  <2> QED BY <1>1, <1>2, <1>3, <2>1, <2>4 DEF Answered
<1>4. CASE ~stream
  <2>1. \A i \in Jobs : pc[i] = "done"
      BY <1>1, <1>4 DEF AllEnded, IInv, LineInv, EndLast
  <2>2. Lost = {} /\ Answered = {} /\ Answered' = 1..N
      BY <1>1, <1>4, <2>1 DEF Lost, Answered
  <2> QED BY <1>1, <1>2, <2>2 DEF Open
<1> QED BY <1>3, <1>4 DEF IInv, Typed

\* A panic loses one item of a stream and the whole of an array.
LEMMA PanicSeen ==
    ASSUME IInv, NEW i \in Jobs, NEW ttl, Panic(i, ttl)
    PROVE  /\ ~over /\ over' = ~stream /\ UNCHANGED <<stream, Answered>>
           /\ i \in Open /\ Lost' = Lost \cup (IF stream THEN {i} ELSE Open)
<1>1. pc[i] = "fetch" /\ UNCHANGED <<stream, phase, lines, got, gone>>
    BY DEF Panic
<1>2. ~over
    BY <1>1, UnderWay DEF IInv, Ended
<1>3. i \in 1..N
    BY JobsAre
<1>4. CASE stream
  <2>1. pc' = [pc EXCEPT ![i] = "dead"] /\ over' = over
      BY <1>4 DEF Panic, Goto
  <2>2. Delivered' = Delivered
      BY <1>1 DEF Delivered
  <2>3. i \notin Delivered
    <3> SUFFICES ASSUME NEW m \in 1..got, lines[m].kind = "final", lines[m].item = i PROVE FALSE
        BY DEF Delivered
    <3>1. m \in 1..Len(lines)
        BY DEF IInv, Typed
    <3> QED BY <1>1, <3>1 DEF IInv, LineInv, FinalWhenDone
  <2>4. i \notin Lost /\ Lost' = Lost \cup {i}
      BY <1>1, <1>4, <2>1 DEF Lost, IInv, Typed
  <2>5. UNCHANGED Answered /\ i \notin Answered
      BY <1>1, <1>4, <2>2, <2>3 DEF Answered
  <2>6. over' = ~stream
      BY <1>2, <1>4, <2>1 DEF IInv, Typed
  <2> QED BY <1>1, <1>2, <1>3, <1>4, <2>4, <2>5, <2>6 DEF Open
<1>5. CASE ~stream
  <2>1. pc' = [j \in Jobs |-> IF j = i THEN "dead" ELSE "dropped"] /\ over' = TRUE
      BY <1>5 DEF Panic
  <2>2. Lost = {}
      BY <1>2, <1>5 DEF Lost, IInv, LineInv, EndLast
  <2>3. Answered = {} /\ Answered' = {} /\ Lost' = 1..N
      BY <1>1, <1>2, <1>5, <2>1 DEF Answered, Lost
  <2> QED BY <1>1, <1>2, <1>3, <1>5, <2>1, <2>2, <2>3 DEF Open
<1> QED BY <1>4, <1>5 DEF IInv, Typed

LEMMA StepKeepsPromise == IInv /\ [Next]_vars => [Promise!Next]_(Promise!vars)
<1> SUFFICES ASSUME IInv, [Next]_vars PROVE [Promise!Next]_(Promise!vars)
    OBVIOUS
<1>1. ASSUME UNCHANGED <<stream, over, Answered, Lost>>
      PROVE  UNCHANGED Promise!vars
    BY <1>1 DEF Promise!vars, Answered, Lost
<1>2. CASE UNCHANGED vars
  <2>1. UNCHANGED <<stream, over, got, pc, lines>>
      BY <1>2 DEF vars, jobvars, client
  <2> QED BY <1>1, <2>1, Unseen
<1>3. ASSUME NEW i \in Jobs, NEW ttl, Panic(i, ttl)
      PROVE  Promise!Next
  <2>1. Promise!Open = Open
      BY DEF Promise!Open, Open, Answered, Lost
  <2>2. Promise!Lose(i)
      BY <1>3, <2>1, PanicSeen DEF Promise!Lose, Answered, Lost
  <2> QED BY <1>3, <2>1, <2>2, PanicSeen DEF Promise!Next
<1>4. ASSUME NEW i \in Jobs, JobStep(i)
      PROVE  [Promise!Next]_(Promise!vars)
    BY <1>1, <1>3, <1>4, JobUnseen
<1>5. CASE Read
  <2>1. Promise!Open = Open
      BY DEF Promise!Open, Open, Answered, Lost
  <2>2. PICK S \in SUBSET Open : Answered' = Answered \cup S
      BY <1>5, ReadSeen
  <2>3. ~over /\ over' = FALSE /\ stream' = stream /\ Lost' = Lost
      BY <1>5, ReadSeen
  <2>4. Promise!Answer(S)
      BY <2>2, <2>3 DEF Promise!Answer, Answered, Lost
  <2> QED BY <2>1, <2>2, <2>4 DEF Promise!Next
<1>6. CASE End
  <2>1. Promise!Open = Open
      BY DEF Promise!Open, Open, Answered, Lost
  <2>2. ~over /\ over' = TRUE /\ stream' = stream /\ Lost' = Lost /\ Answered' = Answered \cup Open
      BY <1>6, EndSeen
  <2>3. PICK S : S = Open
      OBVIOUS
  <2>4. Promise!Answer(S)
      BY <2>1, <2>2, <2>3 DEF Promise!Answer, Answered, Lost
  <2>5. S \in SUBSET Promise!Open
      BY <2>1, <2>3
  <2> QED BY <2>4, <2>5 DEF Promise!Next
<1>7. CASE Refuse \/ Accept
  <2>1. UNCHANGED <<stream, over, got>> /\ got = 0 /\ ~over
      BY <1>7 DEF Refuse, Accept, client, IInv, LineInv, NothingBefore
  <2>2. \A i \in Jobs : pc'[i] # "dead" /\ pc[i] # "dead"
      BY <1>7 DEF Refuse, Accept, jobvars, IInv, LineInv, NothingBefore
  <2> QED BY <1>1, <2>1, <2>2, Unseen
<1>8. CASE Disconnect
  <2>1. UNCHANGED <<stream, over, got, lines>> /\ ~over
      BY <1>8 DEF Disconnect
  <2>2. \A i \in Jobs : pc'[i] = "dead" <=> pc[i] = "dead"
      BY <1>8 DEF Disconnect, IInv, LineInv, EndLast
  <2> QED BY <1>1, <2>1, <2>2, Unseen
<1>9. CASE Tick /\ UNCHANGED <<stream, phase, jobvars, lines, client>>
  <2>1. UNCHANGED <<stream, over, got, pc, lines>>
      BY <1>9 DEF jobvars, client
  <2> QED BY <1>1, <2>1, Unseen
<1> QED BY <1>2, <1>4, <1>5, <1>6, <1>7, <1>8, <1>9 DEF Next

LEMMA InitKeepsPromise == Init => Promise!Init
<1> SUFFICES ASSUME Init PROVE Promise!Init
    OBVIOUS
<1>1. Delivered = {}
    BY DEF Init, Delivered
<1> QED BY <1>1 DEF Init, Promise!Init

-----------------------------------------------------------------------------
(* routes.rs, fetch_guard.rs: the invariant the proofs rest on holds with  *)
(* every answer, panic, disconnect and order of the lines.                 *)
THEOREM BatchInvariant == Spec => []IInv
  BY InitHolds, StepKeeps, PTL DEF Spec

(* connect, record_failure, record_overload: while a window lasts, only    *)
(* cooks that had passed the check before it are under way.                *)
THEOREM WindowsHold == Spec => []GuardsHold
<1>1. IInv => GuardsHold
    BY DEF IInv
<1> QED BY <1>1, BatchInvariant, PTL

(* The batch route's channel: refusals first, and after the final line of  *)
(* an item no line of it.                                                  *)
THEOREM OneFinalLine == Spec => []LinesInOrder
<1>1. IInv => LinesInOrder
  <2> SUFFICES ASSUME IInv PROVE LinesInOrder
      OBVIOUS
  <2>1. Len(lines) \in Nat /\ Cardinality(Overflow) = Turned /\ Turned \in Nat
      BY OverflowSize DEF IInv, Typed
  <2>2. ASSUME NEW m \in 1..Len(lines)
        PROVE  lines[m].item \in Overflow <=> m <= Turned
    <3>1. CASE m <= Turned
      <4>0. lines[m] = Line(m + BATCH_MAX_ITEMS, "final")
          BY <3>1 DEF IInv, LineInv, RefusalsFirst
      <4>1. lines[m].item = m + BATCH_MAX_ITEMS
          BY <4>0 DEF Line
      <4> QED BY <2>1, <3>1, <4>1, JobsAre, BatchAssumption DEF Turned
    <3>2. CASE ~(m <= Turned)
        BY <3>2, JobsAre DEF IInv, LineInv, RefusalsFirst
    <3> QED BY <3>1, <3>2
  <2>3. ASSUME NEW m \in 1..Len(lines), lines[m].kind = "final", NEW n \in m + 1..Len(lines)
        PROVE  lines[n].item # lines[m].item
      BY <2>1, <2>3 DEF IInv, LineInv, FinalOnce
  <2> QED BY <2>1, <2>2, <2>3 DEF LinesInOrder
<1> QED BY <1>1, BatchInvariant, PTL

(* The batch route, as a stream and as an array: no item is answered twice *)
(* and no end comes before an answer, whatever panics or leaves.           *)
THEOREM KeepsPromise == Spec => ImplementsAnswers
<1>1. Spec => Promise!Spec
    BY InitKeepsPromise, StepKeepsPromise, BatchInvariant, PTL DEF Spec, Promise!Spec
<1> QED BY <1>1 DEF ImplementsAnswers
=============================================================================
