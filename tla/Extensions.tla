----------------------------- MODULE Extensions -----------------------------
(* Extensions that annotate a review: discovery of their folders           *)
(* (core/src/extension.rs), the registry that runs the annotators one      *)
(* after the other (registry.rs, annotation.rs), the component calls and   *)
(* the thread that counts their time (component.rs), and the window that   *)
(* takes the result for the review it shows (annotate of source.rs).       *)
(*                                                                         *)
(* Time is counted in ticks of the epoch thread. A review is a number.     *)
EXTENDS Integers, Sequences, FiniteSets

CONSTANTS
  Folders,      \* number of extension folders, in the order of their names
  Ids,          \* ids their manifests may give
  TickLimit,        \* ticks a component may run
  MaxReviews    \* bound on the reviews shown

VARIABLES
  manifests,    \* per folder: id, whether it loads, and what its component does
  shown,        \* the review in the window, 0 for none
  jobs,         \* per review, the background annotation of it
  annotations,  \* those in the window
  told,         \* ids of the annotators whose problem was reported with them
  running,      \* Calls::running
  ticker        \* the epoch thread: "check", "parked" or "sleeping"

extensionVars == <<manifests, shown, jobs, annotations, told, running, ticker>>

Behaviours == {"finds", "strays", "fails", "loops", "broken"}
NoJob == [pc |-> "none", cancelled |-> FALSE, at |-> 0, left |-> 0, found |-> {}, problems |-> {}]

-----------------------------------------------------------------------------
(* What is installed.                                                      *)

\* discover and load: a folder whose manifest does not load, or whose id is
\* one that an earlier folder has, is left out.
Installed ==
  {f \in 1 .. Folders :
     manifests[f].loads /\ \A e \in 1 .. f - 1 : manifests[e].loads => manifests[e].id # manifests[f].id}

\* Registry::builtin and add_extensions: the built-in check comes first.
Annotators ==
  <<[id |-> "diff check", does |-> "finds"]>> \o
    SelectSeq([f \in 1 .. Folders |-> [id |-> manifests[f].id,
                                       does |-> IF f \in Installed THEN manifests[f].does ELSE "none"]],
              LAMBDA a : a.does # "none")

\* What an annotator returns for a review: a remark on a line of it, and, if it
\* strays, one on a line that the review does not show.
Remarks(a, r) ==
  {[by |-> a.id, review |-> r, inside |-> TRUE]}
    \cup (IF a.does = "strays" THEN {[by |-> a.id, review |-> r, inside |-> FALSE]} ELSE {})

-----------------------------------------------------------------------------
ExtensionsInit ==
  /\ manifests \in [1 .. Folders -> [id : Ids, loads : BOOLEAN, does : Behaviours]]
  /\ shown = 0 /\ jobs = [r \in 1 .. MaxReviews |-> NoJob]
  /\ annotations = {} /\ told = {} /\ running = 0 /\ ticker = "check"

\* annotate, from install: the job for the review before is cancelled.
Show ==
  /\ shown < MaxReviews
  /\ shown' = shown + 1
  /\ jobs' = [r \in DOMAIN jobs |->
                IF r = shown + 1 THEN [NoJob EXCEPT !.pc = "next", !.at = 1]
                ELSE IF r = shown THEN [jobs[r] EXCEPT !.cancelled = TRUE] ELSE jobs[r]]
  /\ annotations' = {} /\ told' = {}
  /\ UNCHANGED <<manifests, running, ticker>>

Job(r) == jobs[r]
Turn(r) == Annotators[Job(r).at]

\* A failed annotator is a problem; the next one runs all the same.
Failed(r) ==
  [Job(r) EXCEPT !.pc = "next", !.at = @ + 1, !.problems = @ \cup {Turn(r).id}, !.left = 0]

\* What was found is kept where the review shows it (in_snapshot).
Found(r) ==
  LET remarks == Remarks(Turn(r), r)
      kept == {m \in remarks : m.inside}
  IN  [Job(r) EXCEPT !.pc = "next", !.at = @ + 1, !.left = 0, !.found = @ \cup kept,
                     !.problems = IF kept = remarks THEN @ ELSE @ \cup {Turn(r).id}]

\* Registry::annotate between two annotators; DiffCheck runs at once, and
\* compile says when a component cannot be.
Begin(r) ==
  /\ Job(r).pc = "next"
  /\ jobs' = [jobs EXCEPT ![r] =
                CASE Job(r).cancelled \/ Job(r).at > Len(Annotators) -> [@ EXCEPT !.pc = "done"]
                  [] ~Job(r).cancelled /\ Job(r).at = 1 -> Found(r)
                  [] ~Job(r).cancelled /\ Job(r).at \in 2 .. Len(Annotators) /\ Turn(r).does = "broken"
                       -> Failed(r)
                  [] OTHER -> [@ EXCEPT !.pc = "compiled"]]
  /\ UNCHANGED <<manifests, shown, annotations, told, running, ticker>>

\* Mutant: the epoch thread is not woken.
StartCallUnheard(r) ==
  /\ Job(r).pc = "compiled" /\ ~Job(r).cancelled
  /\ running' = running + 1
  /\ jobs' = [jobs EXCEPT ![r].pc = "started"]
  /\ UNCHANGED <<manifests, shown, annotations, told, ticker>>

\* Calls::start counts the call and wakes the epoch thread.
StartCall(r) ==
  /\ Job(r).pc = "compiled" /\ ~Job(r).cancelled
  /\ running' = running + 1
  /\ ticker' = IF ticker = "parked" THEN "check" ELSE ticker
  /\ jobs' = [jobs EXCEPT ![r].pc = "started"]
  /\ UNCHANGED <<manifests, shown, annotations, told>>

\* Cancelled before the call: an error of this annotator.
StartRefused(r) ==
  /\ Job(r).pc = "compiled" /\ Job(r).cancelled
  /\ jobs' = [jobs EXCEPT ![r] = Failed(r)]
  /\ UNCHANGED <<manifests, shown, annotations, told, running, ticker>>

\* set_epoch_deadline, from when it is set.
SetDeadline(r) ==
  /\ Job(r).pc = "started"
  /\ jobs' = [jobs EXCEPT ![r].pc = "calling", ![r].left = TickLimit]
  /\ UNCHANGED <<manifests, shown, annotations, told, running, ticker>>

\* The component returns before its time is over; dropping the Call counts it
\* out.
CallReturns(r) ==
  /\ Job(r).pc = "calling" /\ Turn(r).does # "loops"
  /\ running' = running - 1
  /\ jobs' = [jobs EXCEPT ![r] = IF Turn(r).does = "fails" THEN Failed(r) ELSE Found(r)]
  /\ UNCHANGED <<manifests, shown, annotations, told, ticker>>

\* The deadline has passed: the component is interrupted.
Interrupt(r) ==
  /\ Job(r).pc = "calling" /\ Job(r).left = 0
  /\ running' = running - 1
  /\ jobs' = [jobs EXCEPT ![r] = Failed(r)]
  /\ UNCHANGED <<manifests, shown, annotations, told, ticker>>

\* Calls::wait under its lock: sleep through the next tick, or park.
Wait ==
  /\ ticker = "check"
  /\ ticker' = IF running = 0 THEN "parked" ELSE "sleeping"
  /\ UNCHANGED <<manifests, shown, jobs, annotations, told, running>>

\* increment_epoch.
Tick ==
  /\ ticker = "sleeping"
  /\ ticker' = "check"
  /\ jobs' = [r \in DOMAIN jobs |->
                IF jobs[r].left > 0 THEN [jobs[r] EXCEPT !.left = @ - 1] ELSE jobs[r]]
  /\ UNCHANGED <<manifests, shown, annotations, told, running>>

\* Back in the window: a cancelled job, or one for another review, is dropped.
Apply(r) ==
  /\ Job(r).pc = "done"
  /\ IF Job(r).cancelled \/ shown # r THEN UNCHANGED <<annotations, told>>
     ELSE annotations' = Job(r).found /\ told' = Job(r).problems
  /\ jobs' = [jobs EXCEPT ![r].pc = "applied"]
  /\ UNCHANGED <<manifests, shown, running, ticker>>

Works(r) ==
  Begin(r) \/ StartCall(r) \/ StartRefused(r) \/ SetDeadline(r) \/ CallReturns(r) \/ Interrupt(r)
    \/ Apply(r)

ExtensionsNext == Show \/ Wait \/ Tick \/ \E r \in 1 .. MaxReviews : Works(r)

\* Background tasks and the epoch thread are scheduled in the end.
ExtensionsFairness ==
  /\ WF_extensionVars(Wait) /\ WF_extensionVars(Tick)
  /\ \A r \in 1 .. MaxReviews : WF_extensionVars(Works(r))

-----------------------------------------------------------------------------
(* Properties.                                                             *)

\* Every annotation job comes to an end, a component that never returns
\* included: the thread that counts time is awake while a call runs (Calls).
JobEnds == \A r \in 1 .. MaxReviews : [](Job(r).pc # "none" => <>(Job(r).pc = "applied"))
=============================================================================
