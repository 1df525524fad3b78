-------------------------------- MODULE Batch --------------------------------
(***************************************************************************)
(* One POST /batch (routes.rs): the cooks of its items, which share the    *)
(* fetch protection, may wait for external tools and may panic, and the    *)
(* client that reads their results, either as lines of a stream, in the    *)
(* order of completion, or as one array at the end.                        *)
(*                                                                         *)
(* A cook is reduced to what the batch can see of it: the check, the       *)
(* answer of the source, progress, an external tool, the result.  Items    *)
(* are numbered as in the request.                                         *)
(***************************************************************************)
EXTENDS FetchGuard, ToolRun, Sequences

CONSTANTS
    N,               \* items of the request
    BATCH_MAX_ITEMS, \* items that are cooked; the others are turned down
    UrlOf,           \* the URL of each item
    Ttls,            \* values of Retry-After
    MaxProgress      \* bound on the progress lines of an item

ASSUME BatchAssumption ==
    /\ N \in Nat /\ BATCH_MAX_ITEMS \in Nat \ {0} /\ MaxProgress \in Nat
    /\ UrlOf \in [1..N -> Urls]
    /\ Ttls \subseteq Nat

Jobs == 1..Min({N, BATCH_MAX_ITEMS})
Overflow == 1..N \ Jobs

VARIABLES
    stream,   \* the client asked for NDJSON
    phase,    \* "new", "running", "refused"
    pc,       \* pc[i]: where the cook of job i is
    tool,     \* tool[i]: the tool it waits for
    progress, \* progress[i]: progress lines sent
    lines,    \* the channel: every line sent so far
    got,      \* how many of them the client has
    over,     \* the client has seen the end of the response
    gone      \* the client went away

jobvars == <<pc, tool, progress>>
client == <<got, over, gone>>
vars == <<now, guards, stream, phase, jobvars, lines, client>>

Line(i, kind) == [item |-> i, kind |-> kind]

Init ==
    /\ InitGuard
    /\ stream \in BOOLEAN
    /\ phase = "new"
    /\ pc = [i \in Jobs |-> "new"]
    /\ tool = [i \in Jobs |-> Started(FALSE, FALSE)]
    /\ progress = [i \in Jobs |-> 0]
    /\ lines = <<>>
    /\ got = 0 /\ over = FALSE /\ gone = FALSE

-----------------------------------------------------------------------------
\* One URL that is not accepted refuses the whole batch.
Refuse ==
    /\ phase = "new"
    /\ phase' = "refused"
    /\ UNCHANGED <<now, guards, stream, jobvars, lines, client>>

Limits(S) == [n \in 1..Cardinality(S) |-> Line(n + BATCH_MAX_ITEMS, "final")]

\* Items beyond the limit are answered at once; the others are started.
Accept ==
    /\ phase = "new"
    /\ phase' = "running"
    /\ pc' = [i \in Jobs |-> "check"]
    /\ lines' = IF stream THEN Limits(Overflow) ELSE lines
    /\ UNCHANGED <<now, guards, stream, tool, progress, client>>

Goto(i, to) == pc' = [pc EXCEPT ![i] = to]

Check(i) ==
    /\ pc[i] = "check"
    /\ Goto(i, IF check(UrlOf[i]) = "go" THEN "fetch" ELSE "final")
    /\ UNCHANGED <<now, guards, stream, phase, tool, progress, lines, client>>

-----------------------------------------------------------------------------
Fetching == {i \in Jobs : pc[i] = "fetch"}

\* 429 or 503: the origin is left alone.
AnswerOverloaded(i, ttl) ==
    /\ pc[i] = "fetch"
    /\ Fits(ttl)
    /\ record(ORIGIN, Min({ttl, Ceiling}), Fetching \ {i})
    /\ Goto(i, "final")
    /\ UNCHANGED <<now, stream, phase, tool, progress, lines, client>>

\* Seeded fault: a panic in a stream ends the loop that joins the jobs.
PanicAborts(i, ttl) ==
    /\ pc[i] = "fetch"
    /\ ~Fits(ttl)
    /\ pc' = [j \in Jobs |-> IF j = i THEN "dead" ELSE IF pc[j] = "done" THEN "done" ELSE "dropped"]
    /\ over' = TRUE
    /\ UNCHANGED <<now, guards, stream, phase, tool, progress, lines, got, gone>>

(* A Retry-After that does not fit panics.  In a stream the panic ends the *)
(* task of the item; otherwise it ends the handler with every cook in it,  *)
(* and the connection.                                                     *)
Panic(i, ttl) ==
    /\ pc[i] = "fetch"
    /\ ~Fits(ttl)
    /\ IF stream
       THEN Goto(i, "dead") /\ UNCHANGED over
       ELSE /\ pc' = [j \in Jobs |-> IF j = i THEN "dead" ELSE "dropped"]
            /\ over' = TRUE
    /\ UNCHANGED <<now, guards, stream, phase, tool, progress, lines, got, gone>>

\* Any other 4xx or 5xx: the URL is left alone.
AnswerError(i) ==
    /\ pc[i] = "fetch"
    /\ record(UrlOf[i], FailTtl, {j \in Fetching \ {i} : UrlOf[j] = UrlOf[i]})
    /\ Goto(i, "final")
    /\ UNCHANGED <<now, stream, phase, tool, progress, lines, client>>

\* A network error and a 304 end the cook, a 200 goes on.
Answer(i) ==
    /\ pc[i] = "fetch"
    /\ \E to \in {"final", "work"} : Goto(i, to)
    /\ UNCHANGED <<now, guards, stream, phase, tool, progress, lines, client>>

-----------------------------------------------------------------------------
\* Seeded fault: a renderer reports its progress after the cook has ended.
ProgressLate(i) ==
    /\ pc[i] \in {"work", "done"} /\ stream
    /\ progress[i] < MaxProgress
    /\ progress' = [progress EXCEPT ![i] = @ + 1]
    /\ lines' = Append(lines, Line(i, "progress"))
    /\ UNCHANGED <<now, guards, stream, phase, pc, tool, client>>

\* A progress line before a renderer or a handoff.
Progress(i) ==
    /\ pc[i] = "work" /\ stream
    /\ progress[i] < MaxProgress
    /\ progress' = [progress EXCEPT ![i] = @ + 1]
    /\ lines' = Append(lines, Line(i, "progress"))
    /\ UNCHANGED <<now, guards, stream, phase, pc, tool, client>>

\* A shortcut, a renderer in the process, or a handoff.
Work(i) ==
    /\ pc[i] = "work"
    /\ Goto(i, "final")
    /\ UNCHANGED <<now, guards, stream, phase, tool, progress, lines, client>>

StartTool(i) ==
    /\ pc[i] = "work"
    /\ \E limited, held \in BOOLEAN : tool' = [tool EXCEPT ![i] = Started(limited, held)]
    /\ Goto(i, "tool")
    /\ UNCHANGED <<now, guards, stream, phase, progress, lines, client>>

ToolStep(i, enabled, next) ==
    /\ pc[i] = "tool"
    /\ enabled
    /\ tool' = [tool EXCEPT ![i] = next]
    /\ UNCHANGED <<now, guards, stream, phase, pc, progress, lines, client>>

ToolExits(i) == ToolStep(i, Exit(tool[i]), Exited(tool[i]))
Deadline(i) == ToolStep(i, Overdue(tool[i]), Killed(tool[i]))
Release(i) == ToolStep(i, tool[i].held, Released(tool[i]))

ToolReturns(i) ==
    /\ pc[i] = "tool"
    /\ Joined(tool[i])
    /\ Goto(i, "final")
    /\ UNCHANGED <<now, guards, stream, phase, tool, progress, lines, client>>

-----------------------------------------------------------------------------
\* The result of a cook; it is a line of its own in a stream.
Finish(i) ==
    /\ pc[i] = "final"
    /\ Goto(i, "done")
    /\ lines' = IF stream THEN Append(lines, Line(i, "final")) ELSE lines
    /\ UNCHANGED <<now, guards, stream, phase, tool, progress, client>>

Read ==
    /\ ~gone /\ got < Len(lines)
    /\ got' = got + 1
    /\ UNCHANGED <<now, guards, stream, phase, jobvars, lines, over, gone>>

AllEnded == phase = "running" /\ \A i \in Jobs : pc[i] \in {"done", "dead", "dropped"}

\* Seeded fault: the channel counts as closed when the last job is started.
EndEarly ==
    /\ phase = "running" /\ ~over /\ ~gone
    /\ got = Len(lines)
    /\ over' = TRUE
    /\ UNCHANGED <<now, guards, stream, phase, jobvars, lines, got, gone>>

(* The end of the response: every sender of the channel is dropped and the *)
(* channel is empty, or all results are in the array.                      *)
End ==
    /\ AllEnded /\ ~over /\ ~gone
    /\ got = Len(lines)
    /\ over' = TRUE
    /\ UNCHANGED <<now, guards, stream, phase, jobvars, lines, got, gone>>

(* The client disconnects: the tasks of a stream go on, the cooks of an    *)
(* array are dropped with the request.                                     *)
Disconnect ==
    /\ phase = "running" /\ ~gone /\ ~over
    /\ gone' = TRUE
    /\ pc' = IF stream THEN pc ELSE [i \in Jobs |-> IF pc[i] = "done" THEN "done" ELSE "dropped"]
    /\ UNCHANGED <<now, guards, stream, phase, tool, progress, lines, got, over>>

JobStep(i) ==
    \/ Check(i)
    \/ \E ttl \in Ttls : AnswerOverloaded(i, ttl) \/ Panic(i, ttl)
    \/ AnswerError(i) \/ Answer(i)
    \/ Progress(i) \/ Work(i) \/ StartTool(i)
    \/ ToolExits(i) \/ Deadline(i) \/ Release(i) \/ ToolReturns(i)
    \/ Finish(i)

Next ==
    \/ Refuse \/ Accept
    \/ \E i \in Jobs : JobStep(i)
    \/ Read \/ End \/ Disconnect
    \/ Tick /\ UNCHANGED <<stream, phase, jobvars, lines, client>>

Spec == Init /\ [][Next]_vars

(* The runtime polls every cook, a source answers or runs into a timeout   *)
(* of the HTTP client, a deadline passes, a client that stays reads.  That *)
(* what a killed tool left behind ends at all is an assumption (Release);  *)
(* nothing is assumed of a tool itself.                                    *)
JobFairness(i) ==
    /\ WF_vars(Check(i) \/ Answer(i) \/ Work(i) \/ ToolReturns(i) \/ Finish(i))
    /\ WF_vars(Deadline(i))
    /\ WF_vars(Release(i))

FairSpec == Spec /\ (\A i \in Jobs : JobFairness(i)) /\ WF_vars(Read \/ End)

-----------------------------------------------------------------------------
(* Every variable has its type.                                            *)
TypeOK ==
    /\ now \in 0..MaxTime
    /\ until \in [Keys -> 0..(MaxTime + Max({Ceiling, FailTtl}))]
    /\ phase \in {"new", "running", "refused"}
    /\ pc \in [Jobs -> {"new", "check", "fetch", "work", "tool", "final", "done", "dead",
                        "dropped"}]
    /\ tool \in [Jobs -> Run]
    /\ progress \in [Jobs -> 0..MaxProgress]
    /\ got \in 0..Len(lines)
    /\ {stream, over, gone} \subseteq BOOLEAN

(* While the window that an origin's or a URL's last answer opened lasts,  *)
(* the only requests under way are those of cooks that had passed the      *)
(* check when the answer came, however the answers of several cooks and    *)
(* their windows interleave.                                               *)
GuardsHold ==
    \A i \in Fetching : \A k \in {ORIGIN, UrlOf[i]} :
        now < window[k].until => i \in window[k].excused

(* A reader of the stream can take the first "final" line of an item as    *)
(* its last line, and has the refusals of the overflow before anything     *)
(* else.                                                                   *)
LinesInOrder ==
    \A m \in 1..Len(lines) :
        /\ lines[m].item \in Overflow <=> m <= Cardinality(Overflow)
        /\ lines[m].kind = "final" =>
             \A n \in m + 1..Len(lines) : lines[n].item # lines[m].item

Delivered == {lines[n].item : n \in {n \in 1..got : lines[n].kind = "final"}}

Promise == INSTANCE Answers WITH
    Items <- 1..N,
    alone <- stream,
    answered <- IF stream THEN Delivered
                ELSE IF over /\ \A i \in Jobs : pc[i] = "done" THEN 1..N ELSE {},
    lost <- IF stream THEN {i \in Jobs : pc[i] = "dead"}
            ELSE IF \E i \in Jobs : pc[i] = "dead" THEN 1..N ELSE {},
    over <- over

(* The response keeps the promise of Answers: with the lines in flight,    *)
(* the panics and the disconnects, the client never sees an end that comes *)
(* before an answer, nor an item that was answered twice.                  *)
ImplementsAnswers == Promise!Spec

Stuck(i) == pc[i] = "tool" /\ ~tool[i].limited /\ tool[i].phase = "running"

(* A batch that was accepted ends: every cook ends, also when the client   *)
(* has left, and a client that stays sees the end, unless some tool that   *)
(* is run without a deadline never exits.                                  *)
BatchEnds ==
    \/ (phase = "running") ~> (AllEnded /\ (over \/ gone))
    \/ \E i \in Jobs : <>[]Stuck(i)
=============================================================================
