----------------------------- MODULE HttpBuffer -----------------------------
(***************************************************************************)
(* Random access to a source behind one forward HTTP stream (http_buf.rs): *)
(* a sparse page cache, a cursor, Range requests for the tail, a streaming *)
(* mode that keeps one chunk, and an artificial end of file.               *)
(*                                                                         *)
(* A byte is told apart only by being the source's byte of that offset or  *)
(* not, so a page is its length and `wrong` collects the cached offsets    *)
(* that hold something else.  The buffer has one owner, so one call runs   *)
(* at a time; a call is several steps because it waits for the network.    *)
(***************************************************************************)
EXTENDS Integers, FiniteSets

CONSTANTS
    Page,        \* PAGE_SIZE
    TailFetch,   \* TAIL_FETCH_SIZE
    Skip,        \* STREAM_SKIP_THRESHOLD
    StreamSkip,  \* the gap that suffices in streaming mode, 16 pages
    Lens,        \* lengths of the source
    Wants,       \* lengths callers ask for
    Eofs,        \* artificial ends callers set
    MaxChunk,    \* bound on the bytes of one chunk
    RangeCalls,  \* the pairs <<start, length>> callers pass to fetch_range
    Answers,     \* what range requests answer: "range", "other"
    Limit,       \* bound on the offsets the cache may hold bytes of
    NONE

ASSUME BufferAssumption ==
    /\ Page \in Nat \ {0}
    /\ {TailFetch, Skip, StreamSkip} \subseteq Nat
    /\ Lens \subseteq Nat
    /\ Wants \subseteq Nat \ {0}
    /\ Eofs \subseteq Nat
    /\ MaxChunk \in Nat \ {0}
    /\ RangeCalls \subseteq Nat \X (Nat \ {0})
    /\ Answers \subseteq {"range", "other"}
    /\ Limit \in Nat
    /\ \A n \in Lens : n < Limit
    /\ \A r \in RangeCalls : r[1] + r[2] <= Limit
    /\ NONE \notin Int

VARIABLES
    len,        \* bytes the primary stream delivers before it ends
    known,      \* content_length, or NONE
    ranges,     \* accepts_ranges
    cursor,
    stream_pos,
    have,       \* have[p]: bytes of page p in the cache
    wrong,      \* cached offsets whose byte is not the source's
    suspect,    \* history: pages that Range answers spoilt
    eof,        \* eof_override, or NONE
    streaming,  \* streaming_mode
    chunk,      \* the streaming chunk: where it begins, how many bytes it has
    pc,
    want,       \* bytes the running call still wants
    saved,      \* the cursor read_at restores, or NONE in a plain read
    ret         \* history: the verdict on the last read()

source == <<len, ranges>>
data == <<stream_pos, known, have, wrong, suspect, chunk>>
call == <<cursor, pc, want, saved, ret>>
vars == <<source, data, call, eof, streaming>>

MinOf(a, b) == IF a <= b THEN a ELSE b
MaxOf(a, b) == IF a >= b THEN a ELSE b
SatSub(a, b) == IF a >= b THEN a - b ELSE 0

\* The page of an offset and its place in it.
PageOf(o) == o \div Page
InPage(o) == o % Page

\* Pages that may hold something.
Pages == 0..PageOf(Limit)

\* stream_len(): the length reads respect.
End == IF eof # NONE THEN eof ELSE known
AtEnd == End # NONE /\ cursor >= End

-----------------------------------------------------------------------------
(* store_chunk_at: n bytes for the offsets from `off` on, bytes the source *)
(* has at `from` on (NONE: no bytes of the source).  What a page has stays *)
(* and a hole before the new bytes is filled with zeros.                   *)
Lo(p, off) == MaxOf(off, p * Page)
Hi(p, off, n) == MinOf(off + n, (p + 1) * Page)

Store(off, n, from) ==
    /\ have' = [p \in Pages |-> IF Lo(p, off) < Hi(p, off, n)
                                THEN MaxOf(have[p], Hi(p, off, n) - p * Page)
                                ELSE have[p]]
    /\ wrong' = wrong \cup
         {o \in 0..Limit : /\ o < Hi(PageOf(o), off, n)
                           /\ Lo(PageOf(o), off) < Hi(PageOf(o), off, n)
                           /\ InPage(o) >= have[PageOf(o)]
                           /\ o < off \/ from # off}

-----------------------------------------------------------------------------
\* The buffer after open, and the sniff of inspect: read_at(0, SNIFF_LEN).
Init ==
    /\ len \in Lens
    /\ known \in {len, NONE}
    /\ ranges \in BOOLEAN
    /\ cursor = 0
    /\ stream_pos = 0
    /\ have = [p \in Pages |-> 0]
    /\ wrong = {}
    /\ suspect = {}
    /\ eof = NONE
    /\ streaming = FALSE
    /\ chunk = [start |-> 0, len |-> 0]
    /\ pc = "read"
    /\ want = Page
    /\ saved = 0
    /\ ret = [exact |-> TRUE, sound |-> TRUE, end |-> TRUE, within |-> TRUE]

Idle == pc = "idle"

\* read_at(o, n).
ReadAt(o, n) ==
    /\ Idle
    /\ saved' = cursor
    /\ cursor' = o
    /\ want' = n
    /\ pc' = "read"
    /\ UNCHANGED <<source, data, eof, streaming, ret>>

\* read() of a caller with a buffer of n bytes.
Read(n) ==
    /\ Idle
    /\ saved' = NONE
    /\ want' = n
    /\ pc' = "read"
    /\ UNCHANGED <<source, data, eof, streaming, cursor, ret>>

\* fetch_range(start, n): a Range request of its own.
FetchRange(start, n) ==
    /\ Idle
    /\ ranges
    /\ saved' = start
    /\ want' = n
    /\ pc' = "range"
    /\ UNCHANGED <<source, data, eof, streaming, cursor, ret>>

Seek(o) ==
    /\ Idle
    /\ cursor' = o
    /\ UNCHANGED <<source, data, eof, streaming, pc, want, saved, ret>>

set_eof(e) ==
    /\ Idle
    /\ eof' = e
    /\ UNCHANGED <<source, data, call, streaming>>

\* Seeded fault: streaming mode can be left again.
toggle_streaming_mode ==
    /\ Idle
    /\ streaming' = ~streaming
    /\ UNCHANGED <<source, data, call, eof>>

enter_streaming_mode ==
    /\ Idle
    /\ streaming' = TRUE
    /\ UNCHANGED <<source, data, call, eof>>

\* close() gives up the connection; the buffer is dropped after it.
close ==
    /\ Idle
    /\ pc' = "closed"
    /\ have' = [have EXCEPT ![0] = 0]
    /\ UNCHANGED <<source, stream_pos, known, wrong, suspect, chunk, cursor, want, saved,
                   ret, eof, streaming>>

-----------------------------------------------------------------------------
\* The buffer of one read(): read_at reads through one of a page.
Room == IF saved = NONE THEN want ELSE MinOf(want, Page)

\* Verdict on a read() of n bytes, `bad` of them not the source's.
Verdict(n, bad) ==
    [exact  |-> bad = {},
     sound  |-> \A o \in bad : PageOf(o) \in suspect,
     end    |-> n = 0 => AtEnd \/ cursor >= len \/ PageOf(cursor) \in suspect,
     within |-> End = NONE \/ cursor + n <= MaxOf(cursor, End)]

\* Seeded fault: read_at goes on when no bytes come.
DeliverUntilFull(n, bad) ==
    /\ ret' = Verdict(n, bad)
    /\ IF saved = NONE
       THEN pc' = "idle" /\ cursor' = cursor + n /\ want' = 0 /\ UNCHANGED saved
       ELSE IF n = want
       THEN pc' = "idle" /\ cursor' = saved /\ want' = 0 /\ saved' = NONE
       ELSE pc' = "read" /\ cursor' = cursor + n /\ want' = want - n /\ UNCHANGED saved

\* Seeded fault: read_at leaves the cursor behind its last byte.
DeliverMovesCursor(n, bad) ==
    /\ ret' = Verdict(n, bad)
    /\ cursor' = cursor + n
    /\ IF saved = NONE \/ n = 0 \/ n = want
       THEN pc' = "idle" /\ want' = 0 /\ saved' = NONE
       ELSE pc' = "read" /\ want' = want - n /\ UNCHANGED saved

(* read() returns n bytes at the cursor; read_at asks again until it has   *)
(* its bytes or none come.                                                 *)
Deliver(n, bad) ==
    /\ ret' = Verdict(n, bad)
    /\ IF saved = NONE
       THEN pc' = "idle" /\ cursor' = cursor + n /\ want' = 0 /\ UNCHANGED saved
       ELSE IF n = 0 \/ n = want
       THEN pc' = "idle" /\ cursor' = saved /\ want' = 0 /\ saved' = NONE
       ELSE pc' = "read" /\ cursor' = cursor + n /\ want' = want - n /\ UNCHANGED saved

Return(n, bad) ==
    /\ Deliver(n, bad)
    /\ UNCHANGED <<source, data, eof, streaming>>

\* An error leaves the call where it is; the cursor stays too.
Fail ==
    /\ pc' = "idle"
    /\ want' = 0
    /\ saved' = NONE
    /\ UNCHANGED <<source, data, eof, streaming, cursor, ret>>

Goto(l) ==
    /\ pc' = l
    /\ UNCHANGED <<source, data, eof, streaming, cursor, want, saved, ret>>

PastEnd ==
    /\ pc = "read"
    /\ AtEnd
    /\ Return(0, {})

\* ensure_page_cached: how many bytes the page of the cursor must have.
Expected ==
    IF known = NONE THEN Page
    ELSE SatSub(MinOf(known, (PageOf(cursor) + 1) * Page), PageOf(cursor) * Page)

\* Seeded fault: the stream has passed the page once it has entered it.
SettledOnceEntered == have[PageOf(cursor)] >= Expected \/ stream_pos > PageOf(cursor) * Page

\* Nothing to wait for: the page is complete, past the end, or passed by.
Settled ==
    \/ known # NONE /\ PageOf(cursor) * Page >= known
    \/ have[PageOf(cursor)] >= Expected
    \/ stream_pos >= (PageOf(cursor) + 1) * Page

\* The far tail of a source of known length is worth a Range request.
TailWorth(o, gap) ==
    /\ known # NONE
    /\ ranges
    /\ o >= SatSub(known, TailFetch)
    /\ SatSub(o, stream_pos) > gap

StartTail ==
    /\ pc = "read"
    /\ ~streaming
    /\ ~AtEnd
    /\ ~Settled
    /\ TailWorth(PageOf(cursor) * Page, Skip)
    /\ Goto("tail")

StartForward ==
    /\ pc = "read"
    /\ ~streaming
    /\ ~AtEnd
    /\ ~Settled
    /\ ~TailWorth(PageOf(cursor) * Page, Skip)
    /\ Goto("forward")

\* The bytes of the page that read_cached may hand out.
Available == SatSub(have[PageOf(cursor)], InPage(cursor))

CopyPage ==
    /\ ~streaming
    /\ \/ pc = "read" /\ ~AtEnd /\ Settled
       \/ pc = "forward" /\ Settled
       \/ pc = "copy"
    /\ LET n == MinOf(Room, IF End = NONE THEN Available
                            ELSE MinOf(Available, SatSub(End, cursor)))
       IN  Return(n, wrong \cap (cursor..(cursor + n - 1)))

\* Seeded fault: the position advances before the chunk is stored.
ForwardChunkAfterAdvance(n) ==
    /\ pc = "forward"
    /\ ~Settled
    /\ stream_pos + n <= len
    /\ Store(stream_pos + n, n, stream_pos)
    /\ stream_pos' = stream_pos + n
    /\ UNCHANGED <<source, known, suspect, chunk, eof, streaming, call>>

\* A chunk of the primary stream goes to its pages.
ForwardChunk(n) ==
    /\ pc = "forward"
    /\ ~Settled
    /\ stream_pos + n <= len
    /\ Store(stream_pos, n, stream_pos)
    /\ stream_pos' = stream_pos + n
    /\ UNCHANGED <<source, known, suspect, chunk, eof, streaming, call>>

\* The stream ended: its length is the source's when none was announced.
StreamEnd(l) ==
    /\ pc = l
    /\ stream_pos = len
    /\ known' = IF known = NONE THEN stream_pos ELSE known
    /\ UNCHANGED <<source, stream_pos, have, wrong, suspect, chunk, eof, streaming>>

ForwardEnd ==
    /\ StreamEnd("forward")
    /\ ~Settled
    /\ pc' = "copy"
    /\ UNCHANGED <<cursor, want, saved, ret>>

-----------------------------------------------------------------------------
\* read_streaming: with a far cursor it asks for the tail before it looks.
StartStreamingTail ==
    /\ pc = "read"
    /\ streaming
    /\ ~AtEnd
    /\ TailWorth(cursor, StreamSkip)
    /\ Goto("tail")

Looking ==
    /\ streaming
    /\ \/ pc = "read" /\ ~AtEnd /\ ~TailWorth(cursor, StreamSkip)
       \/ pc = "copy"

InChunk == chunk.start <= cursor /\ cursor < chunk.start + chunk.len

\* The chunk's bytes are the last ones the stream delivered.
FromChunk(c, pos) ==
    LET n == MinOf(Room, c.start + c.len - cursor)
    IN  Deliver(n, IF c.start + c.len = pos THEN {} ELSE cursor..(cursor + n - 1))

StreamingPage ==
    /\ Looking
    /\ Available > 0
    /\ LET n == MinOf(Room, Available)
       IN  Return(n, wrong \cap (cursor..(cursor + n - 1)))

StreamingChunk ==
    /\ Looking
    /\ Available = 0
    /\ InChunk
    /\ FromChunk(chunk, stream_pos)
    /\ UNCHANGED <<source, data, eof, streaming>>

SeekBehindStream ==
    /\ Looking
    /\ Available = 0
    /\ ~InChunk
    /\ cursor < stream_pos
    /\ Fail

StartStream ==
    /\ Looking
    /\ Available = 0
    /\ ~InChunk
    /\ cursor >= stream_pos
    /\ Goto("stream")

\* Seeded fault: the position advances before the chunk is placed.
NewChunkAfterAdvance(n) == [start |-> stream_pos + n, len |-> n]

NewChunk(n) == [start |-> stream_pos, len |-> n]

(* The chunk replaces the one before it; a cursor inside it is served.     *)
StreamChunk(n) ==
    /\ pc = "stream"
    /\ stream_pos + n <= len
    /\ chunk' = NewChunk(n)
    /\ stream_pos' = stream_pos + n
    /\ IF chunk'.start <= cursor /\ cursor < chunk'.start + n
       THEN FromChunk(chunk', stream_pos')
       ELSE UNCHANGED call
    /\ UNCHANGED <<source, known, have, wrong, suspect, eof, streaming>>

StreamingEnd ==
    /\ StreamEnd("stream")
    /\ Deliver(0, {})

-----------------------------------------------------------------------------
\* The page-aligned start of the tail.
TailStart == PageOf(SatSub(known, TailFetch)) * Page

(* The answer to a Range request is stored at the start that was asked,    *)
(* whatever its status: the range itself, or bytes of something else.  The *)
(* latter spoils the pages asked for and those it fills, a range that      *)
(* begins inside a page spoils that page.                                  *)
RangeAnswer(a, start, n, asked) ==
    \/ /\ a = "range"
       /\ n = MinOf(asked, SatSub(len, start))
       /\ Store(start, n, start)
       /\ suspect' = suspect \cup {p \in {PageOf(start)} : InPage(start) > 0}
    \/ /\ a = "other"
       /\ n \in 1..(Limit - start)
       /\ Store(start, n, NONE)
       /\ suspect' = suspect \cup (PageOf(start)..PageOf(start + MaxOf(n, asked) - 1))

TailAnswer(a, n) ==
    /\ pc = "tail"
    /\ RangeAnswer(a, TailStart, n, known - TailStart)
    /\ pc' = "copy"
    /\ UNCHANGED <<source, stream_pos, known, chunk, cursor, want, saved, ret, eof, streaming>>

RangeDone(a, n) ==
    /\ pc = "range"
    /\ RangeAnswer(a, saved, n, want)
    /\ pc' = "idle"
    /\ want' = 0
    /\ saved' = NONE
    /\ UNCHANGED <<source, stream_pos, known, chunk, cursor, ret, eof, streaming>>

\* The connection breaks or times out while a call waits for it.
NetworkError ==
    /\ pc \in {"forward", "stream", "tail", "range"}
    /\ ~(pc = "forward" /\ Settled)
    /\ Fail

-----------------------------------------------------------------------------
Calls ==
    \/ \E o \in 0..(len + 1), n \in Wants : ReadAt(o, n)
    \/ \E n \in Wants : Read(n)
    \/ \E r \in RangeCalls : FetchRange(r[1], r[2])
    \/ \E o \in 0..(len + 1) : Seek(o)
    \/ \E e \in Eofs \cup {NONE} : set_eof(e)
    \/ enter_streaming_mode
    \/ close

Answer == \E n \in 0..Limit :
    \/ n \in 1..MaxChunk /\ (ForwardChunk(n) \/ StreamChunk(n))
    \/ \E a \in Answers : TailAnswer(a, n) \/ RangeDone(a, n)

Run ==
    \/ PastEnd
    \/ StartTail
    \/ StartForward
    \/ CopyPage
    \/ ForwardEnd
    \/ StartStreamingTail
    \/ StreamingPage
    \/ StreamingChunk
    \/ SeekBehindStream
    \/ StartStream
    \/ StreamingEnd
    \/ Answer
    \/ NetworkError

Next == Calls \/ Run

Spec == Init /\ [][Next]_vars

(* The owner of the buffer awaits its call, and the stream delivers, ends  *)
(* or fails within the client's read timeout.                              *)
FairSpec == Spec /\ WF_vars(Run)

-----------------------------------------------------------------------------
(* Types; the streaming chunk, if any, ends where the stream stands.       *)
TypeOK ==
    /\ len \in Lens
    /\ known \in {len, NONE}
    /\ ranges \in BOOLEAN
    /\ cursor \in Nat
    /\ stream_pos \in 0..len
    /\ have \in [Pages -> 0..Page]
    /\ wrong \subseteq 0..Limit
    /\ suspect \subseteq Pages
    /\ eof \in Nat \cup {NONE}
    /\ streaming \in BOOLEAN
    /\ chunk \in [start : 0..len, len : 0..len]
    /\ chunk.len > 0 => chunk.start + chunk.len = stream_pos
    /\ pc \in {"idle", "read", "forward", "stream", "tail", "copy", "range", "closed"}
    /\ want \in Nat
    /\ saved \in Nat \cup {NONE}
    /\ ret \in [exact : BOOLEAN, sound : BOOLEAN, end : BOOLEAN, within : BOOLEAN]

(* Until streaming mode, every byte the stream has delivered is cached: a  *)
(* page the stream has passed is as complete as it will ever be, which     *)
(* ensure_page_cached relies on when it gives up on it.                    *)
StreamedBytesKept ==
    (~streaming /\ pc # "closed") =>
        \A o \in 0..(stream_pos - 1) : InPage(o) < have[PageOf(o)]

(* Whatever chunks, seeks, mode changes and Range requests came before, a  *)
(* read delivers the bytes the source has at those offsets; other bytes    *)
(* come only from a page that a bad or unaligned Range answer spoilt.      *)
ReadsSourceBytes == ret.sound

(* A read reports the end of the file only at the end: at or past the      *)
(* artificial or announced length, past the last byte of the stream, or in *)
(* a spoilt page.                                                          *)
EndIsReal == ret.end

(* Every call comes back, if the network answers or fails.                 *)
CallReturns == (pc \notin {"idle", "closed"}) ~> (pc = "idle")

-----------------------------------------------------------------------------
(* The inductive invariant (see ThumbnailProofs).                             *)

\* A byte that is not the source's lies in a page that was spoilt.
WrongIsSuspect == \A o \in wrong : PageOf(o) \in suspect

\* Streaming mode alone has a chunk.
ChunkOfStreaming == ~streaming => chunk.len = 0

\* A call waits in its mode, behind the stream's position, for what it asked.
Waits ==
    /\ pc \in {"read", "forward", "stream", "tail", "copy"} => want > 0
    /\ pc = "forward" => ~streaming
    /\ pc = "stream" => streaming /\ cursor >= stream_pos
    /\ pc = "tail" => known # NONE /\ TailStart <= cursor
    /\ pc = "range" => want > 0 /\ saved # NONE /\ saved + want <= Limit

\* After the stream's end or a tail fetch, the byte at the cursor is there.
CopyHasByte ==
    pc = "copy" => cursor >= len \/ Available > 0 \/ PageOf(cursor) \in suspect

\* The cursor and the cached bytes stay below the limit.
Bounded ==
    /\ cursor <= Limit
    /\ saved # NONE => saved <= Limit
    /\ \A p \in Pages : have[p] > 0 => p * Page + have[p] <= Limit

IInv ==
    /\ TypeOK
    /\ Bounded
    /\ StreamedBytesKept
    /\ WrongIsSuspect
    /\ ChunkOfStreaming
    /\ Waits
    /\ CopyHasByte
    /\ ReadsSourceBytes
    /\ EndIsReal

-----------------------------------------------------------------------------
(* What the comments say and the code does not keep; the README names the  *)
(* behaviours that refute them.                                            *)

(* "Artificial EOF - limits the visible file length": no read delivers     *)
(* bytes past it.                                                          *)
EofLimitsReads == ret.within

(* "Read len bytes starting at offset without moving the cursor": when     *)
(* read_at is over, the cursor is where it was.                            *)
CursorKept ==
    [][(pc \notin {"idle", "range"} /\ pc' = "idle" /\ saved # NONE) => cursor' = saved]_vars

(* "small enough to catch typical video-container tail seeks without       *)
(* triggering a second Range request for every sequential page read in the *)
(* tail": no Range request is sent for a byte that is in the cache.        *)
TailFetchedOnce == [][(pc = "read" /\ pc' = "tail") => Available = 0]_vars
=============================================================================
