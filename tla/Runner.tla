------------------------------- MODULE Runner -------------------------------
(* Running a command line tool (process.rs).                               *)
(*                                                                         *)
(* Runner::run starts gh, glab, git or entire in a process group of its    *)
(* own, drains both output pipes on threads with a limit, feeds its input  *)
(* on a third, and polls all of them between checks of the cancellation,   *)
(* of the limit flag and of the deadline. The tool may start a helper that *)
(* inherits the pipes and outlives it, in its group or in a session of its *)
(* own.                                                                    *)
EXTENDS Naturals, FiniteSets

CONSTANTS OutputLimit,   \* stdout_limit and stderr_limit, in blocks
          MaxOutput      \* bound on the blocks the tool writes to a pipe

ASSUME RunnerAssumption == OutputLimit \in Nat /\ MaxOutput \in Nat

Pipes == {"stdout", "stderr"}

VARIABLES
  rpc,         \* where run is: the polls of its loop, "done", or "start"
  answer,      \* "none", "ok", or the error it returned
  child,       \* "none", "running", "success", "failure" or "killed"
  reaped,      \* wait has collected the child
  helper,      \* a process the child started: "none", "group", "session"
  written,     \* pipe -> blocks written to it
  drained,     \* pipe -> blocks its thread has read
  channel,     \* pipe or "stdin" -> "empty", "whole", "limit" or "broken"
  polled,      \* what the loop took from the channels, and the status
  overflow,    \* the flag both drain threads share
  cancelled,   \* the load was cancelled
  late         \* the deadline has passed

runnerVars == <<rpc, answer, child, reaped, helper, written, drained, channel,
                polled, overflow, cancelled, late>>

Channels == Pipes \cup {"stdin"}

RunnerInit ==
  /\ rpc = "start" /\ answer = "none"
  /\ child = "none" /\ reaped = FALSE /\ helper = "none"
  /\ written = [p \in Pipes |-> 0] /\ drained = [p \in Pipes |-> 0]
  /\ channel = [c \in Channels |-> "empty"]
  /\ polled = [c \in Channels \cup {"status"} |-> "none"]
  /\ overflow = FALSE /\ cancelled = FALSE /\ late = FALSE

-----------------------------------------------------------------------------
(* The tool.                                                               *)

\* A pipe is open for writing as long as anybody who inherited it lives.
Writers == child = "running" \/ helper # "none"

ToolWrites(p) ==
  /\ rpc # "start" /\ Writers /\ written[p] < MaxOutput /\ channel[p] = "empty"
  /\ written' = [written EXCEPT ![p] = @ + 1]
  /\ UNCHANGED <<rpc, answer, child, reaped, helper, drained, channel, polled, overflow, cancelled, late>>

ToolForks(where) ==
  /\ child = "running" /\ helper = "none"
  /\ helper' = where
  /\ UNCHANGED <<rpc, answer, child, reaped, written, drained, channel, polled, overflow, cancelled, late>>

ToolExits(status) ==
  /\ child = "running"
  /\ child' = status
  /\ UNCHANGED <<rpc, answer, reaped, helper, written, drained, channel, polled, overflow, cancelled, late>>

HelperExits ==
  /\ helper # "none" /\ child # "running"
  /\ helper' = "none"
  /\ UNCHANGED <<rpc, answer, child, reaped, written, drained, channel, polled, overflow, cancelled, late>>

-----------------------------------------------------------------------------
(* The threads of a run.                                                   *)

\* Mutant: a drain thread stops at its limit as if the pipe had ended.
DrainReadsCut(p) ==
  /\ rpc # "start" /\ channel[p] = "empty" /\ drained[p] < written[p]
  /\ IF drained[p] + 1 > OutputLimit
       THEN channel' = [channel EXCEPT ![p] = "whole"] /\ UNCHANGED <<overflow, drained>>
       ELSE drained' = [drained EXCEPT ![p] = @ + 1] /\ UNCHANGED <<overflow, channel>>
  /\ UNCHANGED <<rpc, answer, child, reaped, helper, written, polled, cancelled, late>>

\* drain reads a block: past its limit it sets the flag and sends the error.
DrainReads(p) ==
  /\ rpc # "start" /\ channel[p] = "empty" /\ drained[p] < written[p]
  /\ IF drained[p] + 1 > OutputLimit
       THEN /\ overflow' = TRUE
            /\ channel' = [channel EXCEPT ![p] = "limit"]
            /\ UNCHANGED drained
       ELSE /\ drained' = [drained EXCEPT ![p] = @ + 1]
            /\ UNCHANGED <<overflow, channel>>
  /\ UNCHANGED <<rpc, answer, child, reaped, helper, written, polled, cancelled, late>>

\* drain meets the end of the pipe, once nobody can write to it.
DrainEnds(p) ==
  /\ rpc # "start" /\ channel[p] = "empty" /\ drained[p] = written[p] /\ ~Writers
  /\ channel' = [channel EXCEPT ![p] = "whole"]
  /\ UNCHANGED <<rpc, answer, child, reaped, helper, written, drained, polled, overflow, cancelled, late>>

\* The input thread: all of it written, or the tool closed its end before.
InputEnds(how) ==
  /\ rpc # "start" /\ channel["stdin"] = "empty"
  /\ channel' = [channel EXCEPT !["stdin"] = how]
  /\ UNCHANGED <<rpc, answer, child, reaped, helper, written, drained, polled, overflow, cancelled, late>>

Cancel ==
  /\ ~cancelled /\ cancelled' = TRUE
  /\ UNCHANGED <<rpc, answer, child, reaped, helper, written, drained, channel, polled, overflow, late>>

DeadlinePasses ==
  /\ ~late /\ rpc # "start" /\ late' = TRUE
  /\ UNCHANGED <<rpc, answer, child, reaped, helper, written, drained, channel, polled, overflow, cancelled>>

-----------------------------------------------------------------------------
(* Runner::run.                                                            *)

Return(a) == rpc' = "done" /\ answer' = a

\* ChildGuard::terminate: kill the group and the child, and wait for it.
Terminate ==
  /\ child' = IF child = "running" THEN "killed" ELSE child
  /\ helper' = IF helper = "group" THEN "none" ELSE helper
  /\ reaped' = TRUE

\* ChildGuard::drop: nothing to do for a child that was waited for.
Dropped ==
  IF child # "running" THEN reaped' = TRUE /\ UNCHANGED <<child, helper>> ELSE Terminate

\* The checks before the start, and the spawn.
Spawn ==
  /\ rpc = "start"
  /\ \/ cancelled /\ Return("cancelled") /\ UNCHANGED child
     \/ Return("refused") /\ UNCHANGED child      \* program, input size, spawn
     \/ ~cancelled /\ rpc' = "check" /\ child' = "running" /\ UNCHANGED answer
  /\ UNCHANGED <<reaped, helper, written, drained, channel, polled, overflow, cancelled, late>>

\* The top of the loop: three reasons to give up.
Check ==
  /\ rpc = "check"
  /\ IF cancelled \/ overflow \/ late
       THEN /\ Return(IF cancelled THEN "cancelled" ELSE IF overflow THEN "overflow" ELSE "deadline")
            /\ Terminate
       ELSE rpc' = "poll" /\ UNCHANGED <<answer, child, reaped, helper>>
  /\ UNCHANGED <<written, drained, channel, polled, overflow, cancelled, late>>

\* try_recv of the three channels, in this order, but each sees what is there.
Poll ==
  /\ rpc = "poll"
  /\ polled' = [c \in DOMAIN polled |->
       IF c \in Channels /\ polled[c] = "none" /\ channel[c] # "empty" THEN channel[c] ELSE polled[c]]
  /\ rpc' = "status"
  /\ UNCHANGED <<answer, child, reaped, helper, written, drained, channel, overflow, cancelled, late>>

\* try_wait, which reaps a child that has ended.
PollStatus ==
  /\ rpc = "status"
  /\ IF child # "running"
       THEN polled' = [polled EXCEPT !["status"] = child] /\ reaped' = TRUE
       ELSE UNCHANGED <<polled, reaped>>
  /\ rpc' = "conclude"
  /\ UNCHANGED <<answer, child, helper, written, drained, channel, overflow, cancelled, late>>

\* All four are there: an output error first, then, for a tool that succeeded,
\* an input error; else sleep and loop.
Conclude ==
  /\ rpc = "conclude"
  /\ IF \E c \in DOMAIN polled : polled[c] = "none"
       THEN rpc' = "check" /\ UNCHANGED <<answer, child, reaped, helper>>
       ELSE /\ Return(IF \E p \in Pipes : polled[p] = "limit" THEN "output"
                      ELSE IF polled["status"] = "success" /\ polled["stdin"] = "broken" THEN "input"
                      ELSE "ok")
            /\ Dropped
  /\ UNCHANGED <<written, drained, channel, polled, overflow, cancelled, late>>

Loop == Check \/ Poll \/ PollStatus \/ Conclude

RunnerNext ==
  \/ \E p \in Pipes : ToolWrites(p) \/ DrainReads(p) \/ DrainEnds(p)
  \/ \E w \in {"group", "session"} : ToolForks(w)
  \/ \E s \in {"success", "failure"} : ToolExits(s)
  \/ HelperExits
  \/ \E h \in {"whole", "broken"} : InputEnds(h)
  \/ Cancel \/ DeadlinePasses
  \/ Spawn \/ Loop

RunnerSpec == RunnerInit /\ [][RunnerNext]_runnerVars

-----------------------------------------------------------------------------
\* Every variable has its type.
RunnerTypeOK ==
  /\ rpc \in {"start", "check", "poll", "status", "conclude", "done"}
  /\ answer \in {"none", "ok", "refused", "cancelled", "overflow", "deadline", "output", "input"}
  /\ child \in {"none", "running", "success", "failure", "killed"}
  /\ helper \in {"none", "group", "session"}
  /\ written \in [Pipes -> Nat] /\ drained \in [Pipes -> Nat]
  /\ channel \in [Channels -> {"empty", "whole", "limit", "broken"}]
  /\ polled \in [Channels \cup {"status"} ->
       {"none", "whole", "limit", "broken", "success", "failure", "killed"}]
  /\ reaped \in BOOLEAN /\ overflow \in BOOLEAN /\ cancelled \in BOOLEAN /\ late \in BOOLEAN

\* A run that answers ok hands over everything the tool and its helpers wrote:
\* nobody can write any more, nothing was cut at the limit, and a tool that
\* succeeded had all its input. Whatever it answers, the tool has ended and
\* was waited for, and a helper of its group does not outlive a run that gave
\* up on it.
OutputWhole ==
  rpc = "done" /\ answer # "refused" /\ child # "none" =>
    /\ reaped /\ child # "running"
    /\ answer = "ok" =>
         /\ ~Writers
         /\ \A p \in Pipes : drained[p] = written[p] /\ written[p] =< OutputLimit
         /\ child = "success" => channel["stdin"] = "whole"
    /\ answer \in {"cancelled", "overflow", "deadline"} => helper # "group"

\* What a drain thread knows when it stops: at the end of the pipe it has all that
\* was written and nobody can write any more.
PipesInv ==
  \A p \in Pipes :
    /\ channel[p] # "broken"
    /\ drained[p] =< written[p] /\ drained[p] =< OutputLimit
    /\ channel[p] = "whole" => drained[p] = written[p] /\ ~Writers

\* What the loop took from the channels and from try_wait is still so, and the
\* tool is there from the spawn on.
LoopInv ==
  /\ rpc = "start" => child = "none" /\ \A c \in Channels : channel[c] = "empty"
  /\ rpc \notin {"start", "done"} => child # "none"
  /\ channel["stdin"] # "limit"
  /\ \A c \in Channels : polled[c] # "none" => polled[c] = channel[c]
  /\ polled["status"] # "none" => child = polled["status"]

\* The inductive form of OutputWhole.
RunnerInv == OutputWhole /\ PipesInv /\ LoopInv

\* The loop is a thread of its own and its clock runs; the tool, its helpers
\* and the input thread promise nothing.
RunnerFairness == WF_runnerVars(Loop) /\ WF_runnerVars(DeadlinePasses)

\* A run that started the tool returns, even when a helper in another session
\* keeps the pipes open for ever.
RunEnds == rpc = "check" ~> rpc = "done"
=============================================================================
