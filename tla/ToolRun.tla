------------------------------- MODULE ToolRun -------------------------------
(***************************************************************************)
(* One external tool that a renderer of tier 3 waits for.  Some are run by *)
(* sandbox::output, which kills the tool at its deadline and then joins    *)
(* the readers of its pipes; the others are simply waited for.  Joining a  *)
(* reader waits for every process that holds the pipe, also for one the    *)
(* tool left behind.                                                       *)
(***************************************************************************)

\* limited: run by sandbox::output; held: a process the tool started has its pipes.
Run == [limited : BOOLEAN, phase : {"running", "exited", "killed"}, held : BOOLEAN]

Started(limited, held) == [limited |-> limited, phase |-> "running", held |-> held]

\* The tool ends by itself.
Exit(r) == r.phase = "running"
Exited(r) == [r EXCEPT !.phase = "exited"]

\* Seeded fault: the deadline is only looked at once the tool has ended.
OverdueLate(r) == r.limited /\ r.phase = "exited"

\* wait_timeout ran out: the tool, and only the tool, is killed.
Overdue(r) == r.limited /\ r.phase = "running"
Killed(r) == [r EXCEPT !.phase = "killed"]

\* The last process that holds the pipes ends.
Released(r) == [r EXCEPT !.held = FALSE]

\* The readers are joined and the renderer has its outcome.
Joined(r) == r.phase # "running" /\ ~r.held
=============================================================================
