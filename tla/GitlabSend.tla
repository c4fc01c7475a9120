----------------------------- MODULE GitlabSend -----------------------------
(* Publishing a review on GitLab (GitlabWriter), which has no review of    *)
(* several comments: a change request, a discussion per comment, an        *)
(* approval and a summary note are requests of their own, each after a     *)
(* check that the merge request is still the one that was read. Every note *)
(* carries the marker of the prepared review; the summary goes last.       *)
EXTENDS Naturals

CONSTANTS N,            \* comments of the prepared review
          MaxPushes     \* bound on changes of the merge request

ASSUME GitlabSendAssumption == N \in Nat /\ MaxPushes \in Nat

VARIABLES
  verdict,    \* "comment", "approve" or "request_changes"
  mrSame,     \* the merge request is the target that was prepared
  pushes,     \* changes of it so far
  part,       \* the part that is sent next
  step,       \* "check", "send", "wait" or "over"
  sent,       \* a request may have left
  onWire,     \* requests the service may still apply
  notes,      \* parts on the service now
  applied,    \* parts the service ever applied
  outcome     \* what send, and a later reading, told

sendVars == <<verdict, mrSame, pushes, part, step, sent, onWire, notes, applied, outcome>>

Verdicts == {"comment", "approve", "request_changes"}

\* The parts of a review, numbered in the order of the body of send.
Changes == 0
Comments == 1 .. N
Approval == N + 1
Summary == N + 2

PartsOf(v) ==
  Comments \cup {Summary}
    \cup {p \in {Changes} : v = "request_changes"} \cup {p \in {Approval} : v = "approve"}

\* The part after p.
After(v, p) == CHOOSE q \in PartsOf(v) : q > p /\ \A r \in PartsOf(v) : r > p => q =< r

First(v) == CHOOSE q \in PartsOf(v) : \A r \in PartsOf(v) : q =< r

SendInit ==
  /\ verdict \in Verdicts
  /\ mrSame \in BOOLEAN /\ pushes = 0
  /\ part = First(verdict) /\ step = "check"
  /\ sent = FALSE /\ onWire = {} /\ notes = {} /\ applied = {}
  /\ outcome = "nothing"

\* Mutant: an error is a rejection although something was sent.
FailAsRejected ==
  /\ step' = "over"
  /\ outcome' = "rejected"

\* The error arms of send: unknown once a request may have left.
Fail ==
  /\ step' = "over"
  /\ outcome' = IF sent THEN "unknown" ELSE "rejected"

\* A prepared review that does not verify under the rules is not sent.
Unverified ==
  /\ step = "check" /\ part = First(verdict)
  /\ step' = "over" /\ outcome' = "rejected"
  /\ UNCHANGED <<verdict, mrSame, pushes, part, sent, onWire, notes, applied>>

\* `self.current(&p.target)? != p.target`, before every request.
Recheck ==
  /\ step = "check"
  /\ \/ mrSame /\ step' = "send" /\ UNCHANGED outcome
     \/ Fail                       \* changed, or the reading failed
  /\ UNCHANGED <<verdict, mrSame, pushes, part, sent, onWire, notes, applied>>

\* `sent = true` and the request.
Request ==
  /\ step = "send"
  /\ sent' = TRUE
  /\ onWire' = {part}
  /\ step' = "wait"
  /\ UNCHANGED <<verdict, mrSame, pushes, part, notes, applied, outcome>>

\* The service applies a request, in time or after the deadline; an approval
\* names the commit and is only applied to it.
ServiceApplies ==
  \E p \in onWire :
    /\ p = Approval => mrSame
    /\ onWire' = onWire \ {p}
    /\ notes' = notes \cup {p} /\ applied' = applied \cup {p}
    /\ UNCHANGED <<verdict, mrSame, pushes, part, step, sent, outcome>>

\* A confirming status; after the summary, its note must carry the marker.
Confirmed ==
  /\ step = "wait" /\ part \in applied
  /\ IF part = Summary
       THEN step' = "over" /\ outcome' \in {"accepted", "unknown"} /\ UNCHANGED part
       ELSE step' = "check" /\ part' = After(verdict, part) /\ UNCHANGED outcome
  /\ UNCHANGED <<verdict, mrSame, pushes, sent, onWire, notes, applied>>

\* Another status: the service did not apply the request.
RefusedByService ==
  /\ step = "wait" /\ onWire # {}
  /\ onWire' = {}
  /\ Fail
  /\ UNCHANGED <<verdict, mrSame, pushes, part, sent, notes, applied>>

\* No answer: the request may be applied, now, later or never.
NoAnswer ==
  /\ step = "wait"
  /\ Fail
  /\ UNCHANGED <<verdict, mrSame, pushes, part, sent, onWire, notes, applied>>

\* reviews and comments: the marked summary, the verdict it names and the
\* marked discussions on the commits of the target, or an error.
ReadBack ==
  /\ step = "over" /\ outcome = "unknown"
  /\ mrSame
  /\ Summary \in notes /\ Comments \subseteq notes
  /\ verdict = "approve" => Approval \in notes
  /\ verdict = "request_changes" => Changes \in notes
  /\ outcome' = "found"
  /\ UNCHANGED <<verdict, mrSame, pushes, part, step, sent, onWire, notes, applied>>

\* Somebody pushes to the merge request, closes it, or sets it back.
Push ==
  /\ pushes < MaxPushes
  /\ pushes' = pushes + 1 /\ mrSame' = ~mrSame
  /\ UNCHANGED <<verdict, part, step, sent, onWire, notes, applied, outcome>>

\* Somebody deletes a note or takes a verdict back.
Withdraw ==
  \E p \in notes :
    /\ notes' = notes \ {p}
    /\ UNCHANGED <<verdict, mrSame, pushes, part, step, sent, onWire, applied, outcome>>

SendNext ==
  \/ Unverified \/ Recheck \/ Request \/ Confirmed \/ RefusedByService \/ NoAnswer
  \/ ServiceApplies \/ ReadBack \/ Push \/ Withdraw

SendSpec == SendInit /\ [][SendNext]_sendVars

-----------------------------------------------------------------------------
PartsOK ==
  /\ verdict \in Verdicts
  /\ part \in PartsOf(verdict)
  /\ onWire \subseteq PartsOf(verdict) /\ notes \subseteq applied
  /\ applied \subseteq PartsOf(verdict)

SendTypeOK ==
  /\ PartsOK
  /\ mrSame \in BOOLEAN /\ sent \in BOOLEAN
  /\ pushes \in 0 .. MaxPushes
  /\ step \in {"check", "send", "wait", "over"}
  /\ outcome \in {"nothing", "accepted", "rejected", "unknown", "found"}

\* A marked summary on the service stands for the whole review, even when the
\* sender never heard of it: whoever finds it need not look for missing parts.
SummaryIsLast == Summary \in applied => applied = PartsOf(verdict)

\* What has been applied is the parts up to the one that is being sent, in
\* their order, and only that one can be under way; nothing has left before
\* the flag says so, and each outcome is what the parts show.
SendOrder ==
  /\ \/ applied = {q \in PartsOf(verdict) : q < part}
     \/ applied = {q \in PartsOf(verdict) : q =< part}
  /\ onWire \subseteq {part} \ applied
  /\ step \in {"check", "send"} => onWire = {} /\ applied = {q \in PartsOf(verdict) : q < part}
  /\ step = "wait" => sent
  /\ step = "check" /\ sent => applied # {}
  /\ step # "over" => outcome = "nothing"
  /\ ~sent => applied = {} /\ onWire = {}
  /\ outcome = "rejected" => ~sent
  /\ outcome \in {"accepted", "found"} => applied = PartsOf(verdict)

SendInv == SendTypeOK /\ SendOrder

Abstract == INSTANCE Delivery WITH
  review <- PartsOf(verdict), landed <- applied, told <- outcome

\* The requests of GitlabWriter::send deliver a review the way the outbox
\* relies on: accepted means all of it, rejected none of it, ever, and an
\* unknown one is found only when it is complete.
SendDelivers == Abstract!DeliverySpec
=============================================================================
