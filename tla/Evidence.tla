------------------------------ MODULE Evidence ------------------------------
(* What a review shows of gates, checks, reviews and recorded sessions, and *)
(* what it may claim from them. The gates of an Entire Change are evaluated *)
(* while the author pushes, and their report is written field by field, so *)
(* that an answer can mix two commits and two evaluations (entire_context  *)
(* .rs). Check rows, review decisions and session lists are read once      *)
(* (github.rs, gitlab.rs, review_details.rs, entire_sessions.rs). GitHub's *)
(* decision comes from its list of reviews; GitLab's from two answers,     *)
(* either of which may be lost without a word.                             *)
EXTENDS Naturals, Sequences, FiniteSets, SequencesExt

CONSTANTS MaxHeads,     \* bound on the commits that are pushed
          MaxRuns,      \* bound on evaluations
          MaxReviews,   \* bound on the reviews of a change
          MaxListed     \* MAX_ROWS, the sessions a page may add to the notices

ASSUME EvidenceAssumption ==
  /\ MaxHeads \in Nat \ {0} /\ MaxRuns \in Nat /\ MaxReviews \in Nat /\ MaxListed \in Nat \ {0}

VARIABLES
  about,      \* what this behaviour is about
  head,       \* the newest commit of the change
  outcome,     \* commit -> outcome of its last finished evaluation
  running,    \* the commit under evaluation, 0 for none
  runs,       \* evaluations started
  gate,       \* the gate as the service reports it
  pin,        \* the commit the reader shows, 0 before it is read
  input,      \* a check, reviews, approvals or a list of sessions
  displayed       \* what the review shows: {} or one record

evidenceVars == <<about, head, outcome, running, runs, gate, pin, input, displayed>>

Heads == 1 .. MaxHeads
Outcomes == {"passed", "failed", "error"}
-----------------------------------------------------------------------------
(* Gates.                                                                  *)

\* Mutant: the commit of the evaluation is not looked at.
GateVerdictOfAnyCommit(g, h) ==
  IF g.status = "not_applicable" THEN "not_applicable"
  ELSE IF g.status = "skipped" THEN "skipped"
  ELSE IF g.state = "stale" \/ g.head # h THEN "pending"
  ELSE IF g.state = "running" THEN "in_progress"
  ELSE IF g.status = "pending" \/ g.state = "pending" THEN "pending"
  ELSE IF g.outcome \notin {"none", g.status} THEN "unavailable"
  ELSE IF g.status = "passed" THEN "success" ELSE "failure"

\* gate_verdict: the row of a gate for commit h; 0 stands for an absent hash.
GateVerdict(g, h) ==
  IF g.status = "new word" \/ g.state = "new word" THEN "unavailable"
  ELSE IF g.state = "not_applicable" \/ g.status = "not_applicable" THEN "not_applicable"
  ELSE IF g.state = "disabled" \/ g.status = "skipped" THEN "skipped"
  ELSE IF g.state = "stale" \/ g.stale \/ g.at \notin {0, h} \/ g.head # h THEN "pending"
  ELSE IF g.state = "running" THEN "in_progress"
  ELSE IF g.status = "pending" \/ g.state = "pending" THEN "pending"
  ELSE IF g.at # h \/ g.outcome \notin {"none", g.status} THEN "unavailable"
  ELSE CASE g.status = "passed" -> "success"
         [] g.status = "failed" -> "failure"
         [] OTHER               -> "error"

\* apply: nothing is shown of a report that is not pinned to the commit.
ReportPinned(h) == gate.report = h

-----------------------------------------------------------------------------
(* Checks, reviews and sessions.                                           *)

\* check_row for a commit status, and for a check or workflow run.
GithubCheck(c) ==
  IF c.kind = "status"
    THEN [status |-> IF c.state = "pending" THEN "queued" ELSE "completed", conclusion |-> c.state]
    ELSE [status |-> c.state, conclusion |-> c.conclusion]

\* check of a pipeline or a job.
GitlabCheck(c) ==
  LET known == [success |-> "success", failed |-> "failure", canceled |-> "cancelled", skipped |-> "skipped"]
  IN  IF c.state \in DOMAIN known
        THEN [status |-> "completed", conclusion |-> known[c.state]]
        ELSE [status |-> c.state, conclusion |-> "none"]

\* A row of add_runs; a run that is only a placeholder needs no evidence.
EntireRuns(c) ==
  LET placeholder == c.state = "queued" /\ ~c.started /\ c.conclusion = "none"
      row == CASE c.state \in {"queued", "in_progress"} -> [status |-> c.state, conclusion |-> "none"]
               [] c.state = "completed" /\ c.conclusion \in {"success", "failure", "cancelled"} ->
                    [status |-> "completed", conclusion |-> c.conclusion]
               [] OTHER -> [status |-> "unavailable", conclusion |-> "none"]
  IN  IF c.available \/ placeholder THEN {row} ELSE {}

\* Rows of one check, as each reader makes them.
CheckRows(c) ==
  CASE c.from = "github" -> {GithubCheck(c)}
    [] c.from = "gitlab" -> IF c.commit = pin THEN {GitlabCheck(c)} ELSE {}
    [] OTHER             -> IF c.commit = pin THEN EntireRuns(c) ELSE {}

CheckInputs ==
  {c \in [from : {"github", "gitlab", "entire"}, kind : {"status", "run"},
          state : {"pending", "queued", "in_progress", "completed", "success", "failed", "canceled"},
          conclusion : {"none", "success", "failure", "new word"},
          started : BOOLEAN, available : BOOLEAN, commit : {1, 2}] :
     c.from = "github" => c.commit = 1}

Reviewers == {"ann", "bob"}
Word == {"APPROVED", "CHANGES_REQUESTED", "DISMISSED", "COMMENTED"}
Counted == Word \ {"COMMENTED"}

\* review_decision: the last counted word of each reviewer.
Decision(reviews) ==
  LET after[n \in 0 .. Len(reviews)] ==
        IF n = 0 THEN [u \in Reviewers |-> "none"]
        ELSE IF reviews[n].word \in Counted THEN [after[n - 1] EXCEPT ![reviews[n].by] = reviews[n].word]
        ELSE after[n - 1]
      latest == after[Len(reviews)]
  IN  IF \E u \in Reviewers : latest[u] = "CHANGES_REQUESTED" THEN "changes requested"
      ELSE IF \E u \in Reviewers : latest[u] = "APPROVED" THEN "approved" ELSE "none"

\* The approvals and the reviewers of a merge request as the service has them,
\* and which of the two answers could not be read.
Approvals == [approved : BOOLEAN, asks : BOOLEAN, lost : SUBSET {"approvals", "reviewers"}]

\* The decision of GitlabReader::snapshot: an answer that is lost says nothing.
GitlabDecision(a) ==
  LET approved         == a.approved /\ "approvals" \notin a.lost
      requestedChanges == a.asks /\ "reviewers" \notin a.lost
  IN  IF requestedChanges THEN "changes requested" ELSE IF approved THEN "approved" ELSE "none"

\* A page of sessions: what the service has indexed, what it lists of it, and
\* what it says of the list. An honest service leaves a cursor behind.
SessionLists ==
  {l \in [indexed : 0 .. MaxListed + 1, listed : 0 .. MaxListed + 1, bad : 0 .. 1, twice : 0 .. 1,
          access : BOOLEAN, complete : BOOLEAN, more : BOOLEAN] :
     /\ l.listed =< l.indexed /\ l.bad + l.twice =< l.listed
     /\ l.complete /\ l.access => (l.more <=> l.listed - l.twice < l.indexed)}

Shorter(m, n) == IF m < n THEN m ELSE n

\* entire_sessions::apply: the rows that are shown and what is said of them.
Sessions(l) ==
  LET usable  == Shorter(l.listed, MaxListed) - l.bad - l.twice
      partial == ~l.complete \/ l.more \/ l.listed > MaxListed \/ l.bad > 0 \/ l.twice > 0
  IN  IF ~l.access THEN [rows |-> 0, says |-> "unavailable"]
      ELSE [rows |-> usable,
            says |-> IF partial THEN "incomplete" ELSE IF usable = 0 THEN "none indexed" ELSE "all"]

-----------------------------------------------------------------------------
NoGate == [status |-> "pending", state |-> "none", outcome |-> "none", head |-> 1, at |-> 0,
           stale |-> FALSE, report |-> 1]

EvidenceInit ==
  /\ about \in {"gate", "check", "decision", "approvals", "sessions"}
  /\ head = 1 /\ outcome = [h \in Heads |-> "none"] /\ running = 0 /\ runs = 0
  /\ gate = NoGate
  /\ pin = IF about = "check" THEN 1 ELSE 0
  /\ input \in (CASE about = "check"     -> CheckInputs
                  [] about = "decision"  -> BoundedSeq([by : Reviewers, word : Word], MaxReviews)
                  [] about = "approvals" -> Approvals
                  [] about = "sessions"  -> SessionLists
                  [] OTHER               -> {"no input"})
  /\ displayed = {}

\* Somebody pushes; the report still speaks of the commit before.
Push ==
  /\ about = "gate" /\ head < MaxHeads
  /\ head' = head + 1
  /\ UNCHANGED <<about, outcome, running, runs, gate, pin, input, displayed>>

\* The service turns the report to the newest commit; whether it marks the
\* result stale, and where, differs between its versions.
ReportMoves ==
  /\ about = "gate" /\ gate.report # head
  /\ \E stale \in BOOLEAN, state \in {"none", "stale", gate.state} :
       gate' = [gate EXCEPT !.report = head, !.head = head, !.stale = stale, !.state = state]
  /\ UNCHANGED <<about, head, outcome, running, runs, pin, input, displayed>>

EvaluationStarts ==
  /\ about = "gate" /\ running = 0 /\ runs < MaxRuns
  /\ running' = head /\ runs' = runs + 1
  /\ \E state \in {"none", "running", "pending"} : gate' = [gate EXCEPT !.state = state, !.stale = FALSE]
  /\ UNCHANGED <<about, head, outcome, pin, input, displayed>>

\* The outcome and its commit are written before the status, except by a
\* service that reports no outcome.
EvaluationEnds(o) ==
  /\ about = "gate" /\ running > 0
  /\ outcome' = [outcome EXCEPT ![running] = o]
  /\ \/ gate' = [gate EXCEPT !.outcome = o, !.at = running]
     \/ gate' = [gate EXCEPT !.outcome = "none", !.status = o, !.at = running, !.state = "evaluated"]
  /\ running' = 0
  /\ UNCHANGED <<about, head, runs, pin, input, displayed>>

StatusWritten ==
  /\ about = "gate" /\ gate.outcome \notin {"none", gate.status}
  /\ \E state \in {"none", "evaluated"} : gate' = [gate EXCEPT !.status = gate.outcome, !.state = state]
  /\ UNCHANGED <<about, head, outcome, running, runs, pin, input, displayed>>

\* The gate is switched off, or answers in a word the reader does not know.
GateChanges ==
  /\ about = "gate"
  /\ \/ \E s \in {"skipped", "not_applicable", "new word"} : gate' = [gate EXCEPT !.status = s]
     \/ \E s \in {"disabled", "not_applicable", "new word"} : gate' = [gate EXCEPT !.state = s]
  /\ UNCHANGED <<about, head, outcome, running, runs, pin, input, displayed>>

\* The commit the snapshot shows (Pins::read).
ReadPins ==
  /\ about = "gate" /\ pin = 0
  /\ pin' = head
  /\ UNCHANGED <<about, head, outcome, running, runs, gate, input, displayed>>

\* entire_context::apply and add_gate, on the answer of a later request.
ShowGate ==
  /\ about = "gate" /\ pin > 0 /\ displayed = {}
  /\ displayed' = {[says |-> IF ReportPinned(pin) THEN GateVerdict(gate, pin) ELSE "nothing",
                truth |-> outcome[pin]]}
  /\ UNCHANGED <<about, head, outcome, running, runs, gate, pin, input>>

\* The other rows of an overview.
ShowInput ==
  /\ about \in {"check", "decision", "approvals", "sessions"} /\ displayed = {}
  /\ displayed' = CASE about = "check"     -> CheckRows(input)
                    [] about = "decision"  -> {Decision(input)}
                    [] about = "approvals" -> {GitlabDecision(input)}
                    [] OTHER               -> {Sessions(input)}
  /\ UNCHANGED <<about, head, outcome, running, runs, gate, pin, input>>

EvidenceNext ==
  \/ Push \/ ReportMoves \/ EvaluationStarts \/ StatusWritten
  \/ \E o \in Outcomes : EvaluationEnds(o)
  \/ GateChanges \/ ReadPins \/ ShowGate \/ ShowInput

EvidenceSpec == EvidenceInit /\ [][EvidenceNext]_evidenceVars

-----------------------------------------------------------------------------
\* What a list of reviews says, by the last counted word of each reviewer.
LastWord(reviews, u) ==
  LET said == {i \in DOMAIN reviews : reviews[i].by = u /\ reviews[i].word \in Counted}
  IN  IF said = {} THEN "none" ELSE reviews[CHOOSE i \in said : \A j \in said : j =< i].word

\* What a merge request's decision may say of its approvals and reviewers.
ApprovalTrue(s, a) ==
  /\ s = "approved" => a.approved /\ (a.asks => "reviewers" \in a.lost)
  /\ a.asks /\ "reviewers" \notin a.lost => s = "changes requested"
  /\ s = "changes requested" => a.asks

\* Nothing turns green that has not earned it: a gate shown as passed did pass
\* on the commit that is shown, although the report is written while pushes and
\* evaluations go on; a check is green only when it has completed with success
\* on this commit; a pull request is approved only by somebody who has not taken
\* it back, with nobody asking for changes; a merge request only when somebody
\* approved it and nobody asks for changes, as far as the two answers could be
\* read: if the one about the reviewers is lost, the snapshot says approved
\* although somebody asks for changes; and a list of sessions is called complete
\* only when every indexed session is in it.
GreenIsEarned ==
  \A s \in displayed :
    CASE about = "gate"     -> s.says = "success" => s.truth = "passed"
      [] about = "check"    -> s.conclusion = "success" /\ s.status = "completed" =>
                                 /\ "success" \in {input.state, input.conclusion}
                                 /\ input.commit = pin
                                 /\ input.from = "entire" => input.available
      [] about = "decision" -> /\ (s = "approved") = (/\ \E u \in Reviewers : LastWord(input, u) = "APPROVED"
                                                      /\ \A u \in Reviewers : LastWord(input, u) # "CHANGES_REQUESTED")
                               /\ (s = "changes requested") = (\E u \in Reviewers : LastWord(input, u) = "CHANGES_REQUESTED")
      [] about = "approvals" -> ApprovalTrue(s, input)
      [] OTHER              -> s.says \in {"all", "none indexed"} => s.rows = input.indexed

\* The report of a gate: an outcome that it states, or a status without one, is
\* that of the commit it names.
GateTells ==
  /\ gate.at = 0 => gate.outcome = "none" /\ gate.status \notin Outcomes
  /\ gate.at # 0 /\ gate.outcome # "none" => gate.outcome = outcome[gate.at]
  /\ gate.at # 0 /\ gate.outcome = "none" /\ gate.status \in Outcomes => gate.status = outcome[gate.at]

GateType ==
  /\ head \in Heads /\ running \in {0} \cup Heads /\ pin \in {0} \cup Heads
  /\ outcome \in [Heads -> Outcomes \cup {"none"}]
  /\ gate \in [status : Outcomes \cup {"pending", "skipped", "not_applicable", "new word"},
               state : {"none", "stale", "running", "pending", "evaluated", "disabled",
                        "not_applicable", "new word"},
               outcome : Outcomes \cup {"none"}, head : Heads, at : {0} \cup Heads,
               stale : BOOLEAN, report : Heads]

\* The inductive invariant of GreenIsEarned.
EvidenceInv ==
  /\ about = "gate" => GateType /\ GateTells
  /\ about = "check" => input \in CheckInputs /\ pin = 1
  /\ about = "decision" => input \in Seq([by : Reviewers, word : Word])
  /\ about = "approvals" => input \in Approvals
  /\ about = "sessions" => input \in SessionLists
  /\ about \in {"gate", "check", "decision", "approvals", "sessions"}
  /\ GreenIsEarned
=============================================================================
