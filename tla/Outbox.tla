------------------------------- MODULE Outbox -------------------------------
(***************************************************************************)
(* Publication of a review: the outbox rows and the draft rows of the      *)
(* SQLite store (adapters/src/store.rs), Outbox::publish and               *)
(* Outbox::reconcile (adapters/src/outbox.rs), the preview that feeds them *)
(* (PreparedReview::prepare), the crash of the process at any point and    *)
(* the recovery Store::open runs, against a hosting service that moves on, *)
(* loses answers, and applies a request late.                              *)
(*                                                                         *)
(* A draft text is the pair <<draft, version>>: Store::save_draft refuses  *)
(* another body for a stored version.  A review on the service is a record *)
(* of its content and of the operation that posted it, or NoOp.            *)
(***************************************************************************)
EXTENDS Integers, FiniteSets

CONSTANTS
  Drafts,        \* draft ids
  Ops,           \* operation ids (one per preview)
  Prs,           \* pull or merge requests
  Accounts,      \* accounts the provider's CLI may be signed in to
  Heads,         \* revisions of a pull request
  Notes,         \* verdict and summary of a review
  NoOp,          \* no operation: the author of a review that diffz did not post
  Marked,        \* ReviewRules::marks_reviews: TRUE for GitLab, FALSE for GitHub
  MaxVersion,    \* bound: versions of one draft
  MaxReviews,    \* bound: reviews on the service
  MaxCrashes     \* bound: crashes of the process

ASSUME MarkedAssumption == Marked \in BOOLEAN
ASSUME BoundsAssumption == MaxVersion \in Nat /\ MaxReviews \in Nat /\ MaxCrashes \in Nat
ASSUME NoOpAssumption == NoOp \notin Ops
ASSUME InhabitedAssumption ==
  Prs # {} /\ Accounts # {} /\ Heads # {} /\ Notes # {}

VARIABLES
  drafts,     \* draft rows; version 0 is no row
  outbox,     \* outbox rows; state "absent" is no row
  pub,        \* the publish call that holds the provider's gate
  rec,        \* the reconcile call (it takes no gate that publish holds)
  proc,       \* the process: "up", "down", or "opening" (inside Store::open)
  account,    \* the account the provider's CLI is signed in to
  live,       \* each PR on the service: its head, and open without a pending review
  posted,     \* the reviews on the service
  nextId,     \* the id the service gives next
  wire,       \* operations whose request may still be applied by the service
  sends,      \* how often each operation was sent
  discarded,  \* drafts whose row was deleted by the reader
  crashes

vars == <<drafts, outbox, pub, rec, proc, account, live, posted, nextId, wire,
          sends, discarded, crashes>>
remote == <<account, live, posted, nextId, wire>>
ghosts == <<sends, discarded, crashes>>

-----------------------------------------------------------------------------
(* Data.                                                                   *)

Versions == 1 .. MaxVersion
Ids == 1 .. MaxReviews

\* A frozen snapshot: its identity fixes the PR, the account and the head.
Snapshots == [pr : Prs, account : Accounts, head : Heads]
Texts == Drafts \X Versions

States == {"absent", "prepared", "in_flight", "confirmed", "rejected", "unknown"}

Row == [snap : Snapshots, version : 0 .. MaxVersion, published : BOOLEAN]

Entry == [state : States, snap : Snapshots, note : Notes, comments : SUBSET Texts,
          baseline : SUBSET Ids, remote_id : 0 .. MaxReviews]

Review == [id : Ids, pr : Prs, account : Accounts, head : Heads,
           by : Ops \cup {NoOp}, note : Notes, comments : SUBSET Texts]

AnySnap == CHOOSE s \in Snapshots : TRUE
AnyNote == CHOOSE n \in Notes : TRUE

\* The snapshot that opening this PR now freezes.
Opened(p) == [pr |-> p, account |-> account, head |-> live[p].head]

\* `current != p.target || !current.open || current.pending_review`
\* A prepared target is open and has no pending review.
MatchesTarget(s) == Opened(s.pr) = s /\ live[s.pr].ok

SamePr(s, t) == s.pr = t.pr /\ s.account = t.account

IsUnresolved(e) == e.state \in {"in_flight", "unknown"}

CanTransition(old, new) ==
  <<old, new>> \in {<<"prepared", "in_flight">>, <<"prepared", "rejected">>,
                    <<"in_flight", "confirmed">>, <<"in_flight", "rejected">>,
                    <<"in_flight", "unknown">>, <<"unknown", "confirmed">>}

-----------------------------------------------------------------------------
(* The draft rows.                                                         *)

\* Store::save_draft, called with version v of the text.
SaveDraft(d, s, v) ==
  /\ proc = "up"
  /\ drafts[d].version > 0 => s = drafts[d].snap /\ ~drafts[d].published
  /\ drafts[d].version =< v
  /\ drafts' = [drafts EXCEPT ![d] = [snap |-> s, version |-> v, published |-> FALSE]]
  /\ UNCHANGED <<outbox, pub, rec, proc, remote, ghosts>>

\* Store::discard_draft, called with the version the reader saw.
DiscardDraft(d) ==
  /\ proc = "up"
  /\ drafts[d].version > 0
  /\ ~drafts[d].published
  /\ drafts' = [drafts EXCEPT ![d].version = 0]
  /\ discarded' = discarded \cup {d}
  /\ UNCHANGED <<outbox, pub, rec, proc, remote, sends, crashes>>

\* The texts a preview on snapshot s may take: saved ones of that snapshot.
\* The window's copy may not show yet that a text was published.
Previewable(s) ==
  {<<d, drafts[d].version>> : d \in {e \in Drafts : drafts[e].version > 0 /\ drafts[e].snap = s}}

\* Services::prepare: PreparedReview::prepare, then Store::insert_prepared.
Prepare(o, s, n, cs) ==
  /\ proc = "up"
  /\ outbox[o].state = "absent"
  /\ cs \subseteq Previewable(s)
  /\ outbox' = [outbox EXCEPT ![o] =
       [state |-> "prepared", snap |-> s, note |-> n, comments |-> cs,
        baseline |-> {}, remote_id |-> 0]]
  /\ UNCHANGED <<drafts, pub, rec, proc, remote, ghosts>>

\* Mutant: the version of the row is not compared.
MarkPublishedAnyVersion(ds, cs) ==
  [d \in Drafts |->
     IF ds[d].version > 0 /\ \E v \in Versions : <<d, v>> \in cs
       THEN [ds[d] EXCEPT !.published = TRUE] ELSE ds[d]]

\* Store::transition when it confirms: the rows that still hold the confirmed
\* text are marked published, in the same transaction.
MarkPublished(ds, cs) ==
  [d \in Drafts |->
     IF ds[d].version > 0 /\ <<d, ds[d].version>> \in cs
       THEN [ds[d] EXCEPT !.published = TRUE] ELSE ds[d]]

\* Store::write_transition: one transaction over the outbox row and the drafts.
WriteTransition(o, e) ==
  /\ CanTransition(outbox[o].state, e.state)
  /\ e.state = "confirmed" => e.remote_id # 0
  /\ outbox' = [outbox EXCEPT ![o] = e]
  /\ drafts' = IF e.state = "confirmed" THEN MarkPublished(drafts, e.comments) ELSE drafts

-----------------------------------------------------------------------------
(* Outbox::publish, one action per access to the store or to the service.  *)

Idle == [phase |-> "idle", op |-> NoOp, baseline |-> {}, id |-> 0, result |-> "absent"]

NoOtherUnresolved(o) ==
  \A x \in Ops \ {o} : SamePr(outbox[x].snap, outbox[o].snap) => ~IsUnresolved(outbox[x])

\* The gate is taken; the entry is still Prepared, and no other operation of
\* this PR and account is unresolved.
PublishBegin(o) ==
  /\ proc = "up"
  /\ pub.phase = "idle"
  /\ outbox[o].state = "prepared"
  /\ NoOtherUnresolved(o)
  /\ pub' = [Idle EXCEPT !.phase = "current", !.op = o]
  /\ UNCHANGED <<drafts, outbox, rec, proc, remote, ghosts>>

\* ReviewRemote::current agrees with the preview.
PublishCurrent ==
  /\ pub.phase = "current"
  /\ MatchesTarget(outbox[pub.op].snap)
  /\ pub' = [pub EXCEPT !.phase = "drafts"]
  /\ UNCHANGED <<drafts, outbox, rec, proc, remote, ghosts>>

\* ReviewRemote::current disagrees: the entry is Rejected and publish returns.
PublishMoved ==
  /\ pub.phase = "current"
  /\ ~MatchesTarget(outbox[pub.op].snap)
  /\ WriteTransition(pub.op, [outbox[pub.op] EXCEPT !.state = "rejected"])
  /\ pub' = Idle
  /\ UNCHANGED <<rec, proc, remote, ghosts>>

\* Mutant: the published mark is not looked at.
SavedIgnoringPublished(e) ==
  \A c \in e.comments :
    LET d == drafts[c[1]] IN d.version = c[2] /\ d.snap = e.snap

\* Each text of the preview is the stored one and not published.
SavedAsPreviewed(e) ==
  \A c \in e.comments :
    LET d == drafts[c[1]] IN
      d.version = c[2] /\ d.snap = e.snap /\ ~d.published

PublishDrafts ==
  /\ pub.phase = "drafts"
  /\ SavedAsPreviewed(outbox[pub.op])
  /\ pub' = [pub EXCEPT !.phase = "baseline"]
  /\ UNCHANGED <<drafts, outbox, rec, proc, remote, ghosts>>

\* ReviewRemote::reviews of the PR.
ReviewIds(s) == {r.id : r \in {x \in posted : x.pr = s.pr}}

PublishBaseline ==
  /\ pub.phase = "baseline"
  /\ pub' = [pub EXCEPT !.phase = "recheck", !.baseline = ReviewIds(outbox[pub.op].snap)]
  /\ UNCHANGED <<drafts, outbox, rec, proc, remote, ghosts>>

\* The target is read again, and InFlight is durable before anything is sent.
PublishInFlight ==
  /\ pub.phase = "recheck"
  /\ MatchesTarget(outbox[pub.op].snap)
  /\ WriteTransition(pub.op, [outbox[pub.op] EXCEPT
                                !.state = "in_flight", !.baseline = pub.baseline])
  /\ pub' = [pub EXCEPT !.phase = "send"]
  /\ UNCHANGED <<rec, proc, remote, ghosts>>

\* An early return: a check or a remote or store call fails before the send.
PublishError ==
  /\ pub.phase \in {"current", "drafts", "baseline", "recheck"}
  /\ pub' = Idle
  /\ UNCHANGED <<drafts, outbox, rec, proc, remote, ghosts>>

\* The review the service stores for operation o.
ReviewOf(o, who) ==
  LET e == outbox[o] IN
    [id |-> nextId, pr |-> e.snap.pr, account |-> e.snap.account, head |-> e.snap.head,
     by |-> who, note |-> e.note, comments |-> e.comments]

Post(o, who) ==
  /\ nextId =< MaxReviews
  /\ posted' = posted \cup {ReviewOf(o, who)}
  /\ nextId' = nextId + 1

Sent == sends' = [sends EXCEPT ![pub.op] = @ + 1]

\* SendOutcome::Accepted with the id of the review.
SendAccepted ==
  /\ pub.phase = "send"
  /\ Post(pub.op, pub.op)
  /\ pub' = [pub EXCEPT !.phase = "verify", !.id = nextId]
  /\ Sent
  /\ UNCHANGED <<drafts, outbox, rec, proc, account, live, wire, discarded, crashes>>

\* SendOutcome::Rejected: a refusal by the service.
SendRejected ==
  /\ pub.phase = "send"
  /\ pub' = [pub EXCEPT !.phase = "settle", !.result = "rejected"]
  /\ Sent
  /\ UNCHANGED <<drafts, outbox, rec, proc, remote, discarded, crashes>>

\* Mutant: a missing answer counts as a refusal.
SendUnknownRefused ==
  /\ pub.phase = "send"
  /\ wire' = wire \cup {pub.op}
  /\ pub' = [pub EXCEPT !.phase = "settle", !.result = "rejected"]
  /\ Sent
  /\ UNCHANGED <<drafts, outbox, rec, proc, account, live, posted, nextId, discarded, crashes>>

\* SendOutcome::Unknown: no usable answer; the request may be applied yet.
SendUnknown ==
  /\ pub.phase = "send"
  /\ wire' = wire \cup {pub.op}
  /\ pub' = [pub EXCEPT !.phase = "settle", !.result = "unknown"]
  /\ Sent
  /\ UNCHANGED <<drafts, outbox, rec, proc, account, live, posted, nextId, discarded, crashes>>

\* The accepted review is read back; it may not be readable or not match.
Verify(result) ==
  /\ pub.phase = "verify"
  /\ pub' = [pub EXCEPT !.phase = "settle", !.result = result]
  /\ UNCHANGED <<drafts, outbox, rec, proc, remote, ghosts>>

PublishSettle ==
  /\ pub.phase = "settle"
  /\ WriteTransition(pub.op, [outbox[pub.op] EXCEPT
                                !.state = pub.result, !.baseline = pub.baseline,
                                !.remote_id = pub.id])
  /\ pub' = Idle
  /\ UNCHANGED <<rec, proc, remote, ghosts>>

\* The last transition fails: the row stays InFlight until the next open.
PublishStoreFails ==
  /\ pub.phase = "settle"
  /\ pub' = Idle
  /\ UNCHANGED <<drafts, outbox, rec, proc, remote, ghosts>>

-----------------------------------------------------------------------------
(* Outbox::reconcile.                                                      *)

RecIdle == [phase |-> "idle", op |-> NoOp, found |-> {}]

\* Only an UnknownOutcome is reconciled, under the account that sent it.
ReconcileBegin(o) ==
  /\ proc = "up"
  /\ rec.phase = "idle"
  /\ outbox[o].state = "unknown"
  /\ account = outbox[o].snap.account
  /\ rec' = [RecIdle EXCEPT !.phase = "list", !.op = o]
  /\ UNCHANGED <<drafts, outbox, pub, proc, remote, ghosts>>

\* matches_metadata and matches_review, with the fingerprint where it is written.
MatchesReview(o, r) ==
  LET e == outbox[o] IN
    /\ Marked => r.by = o
    /\ r.pr = e.snap.pr /\ r.head = e.snap.head /\ r.account = e.snap.account
    /\ r.note = e.note /\ r.comments = e.comments

\* The known review if there is one, else any review newer than the baseline.
Candidate(e, id) == IF e.remote_id # 0 THEN id = e.remote_id ELSE id \notin e.baseline

\* Mutant: the content of the review is not compared.
MatchingIdsByAge(o) == {r.id : r \in {x \in posted : Candidate(outbox[o], x.id)}}

MatchingIds(o) ==
  {r.id : r \in {x \in posted : Candidate(outbox[o], x.id) /\ MatchesReview(o, x)}}

ReconcileList ==
  /\ rec.phase = "list"
  /\ rec' = [rec EXCEPT !.phase = "commit", !.found = MatchingIds(rec.op)]
  /\ UNCHANGED <<drafts, outbox, pub, proc, remote, ghosts>>

\* Exactly one match confirms.
ReconcileCommit(id) ==
  /\ rec.phase = "commit"
  /\ rec.found = {id}
  /\ WriteTransition(rec.op, [outbox[rec.op] EXCEPT !.state = "confirmed", !.remote_id = id])
  /\ rec' = RecIdle
  /\ UNCHANGED <<pub, proc, remote, ghosts>>

\* No match, several, or a failing call: the row stays UnknownOutcome.
ReconcileReturn ==
  /\ rec.phase # "idle"
  /\ rec' = RecIdle
  /\ UNCHANGED <<drafts, outbox, pub, proc, remote, ghosts>>

-----------------------------------------------------------------------------
(* The process: a crash may happen between any two steps.  The request of a *)
(* send under way may then reach the service without anybody reading the    *)
(* answer.                                                                  *)

InSend == pub.phase = "send"

Crash ==
  /\ proc # "down"
  /\ crashes < MaxCrashes
  /\ crashes' = crashes + 1
  /\ proc' = "down"
  /\ pub' = Idle
  /\ rec' = RecIdle
  /\ wire' = IF InSend THEN wire \cup {pub.op} ELSE wire
  /\ sends' = IF InSend THEN [sends EXCEPT ![pub.op] = @ + 1] ELSE sends
  /\ UNCHANGED <<drafts, outbox, account, live, posted, nextId, discarded>>

\* Store::open takes the writer lock.
Open ==
  /\ proc = "down"
  /\ proc' = "opening"
  /\ UNCHANGED <<drafts, outbox, pub, rec, remote, ghosts>>

\* Mutant: an interrupted operation may be tried again.
RecoverToPrepared(o) ==
  /\ proc = "opening"
  /\ outbox[o].state = "in_flight"
  /\ outbox' = [outbox EXCEPT ![o].state = "prepared"]
  /\ UNCHANGED <<drafts, pub, rec, proc, remote, ghosts>>

\* Store::recover_inflight: one transaction per row.
Recover(o) ==
  /\ proc = "opening"
  /\ outbox[o].state = "in_flight"
  /\ WriteTransition(o, [outbox[o] EXCEPT !.state = "unknown"])
  /\ UNCHANGED <<pub, rec, proc, remote, ghosts>>

\* Mutant: the recovery loop is left out.
OpenDoneAtOnce ==
  /\ proc = "opening"
  /\ proc' = "up"
  /\ UNCHANGED <<drafts, outbox, pub, rec, remote, ghosts>>

\* Store::open returns once the recovery loop has seen every row.
OpenDone ==
  /\ proc = "opening"
  /\ \A o \in Ops : outbox[o].state # "in_flight"
  /\ proc' = "up"
  /\ UNCHANGED <<drafts, outbox, pub, rec, remote, ghosts>>

-----------------------------------------------------------------------------
(* The service and its users.                                              *)

\* A request without an answer is applied late.
Land(o) ==
  /\ o \in wire
  /\ Post(o, o)
  /\ wire' = wire \ {o}
  /\ UNCHANGED <<drafts, outbox, pub, rec, proc, account, live, ghosts>>

\* The same review, posted by hand or with another tool.
OutsideReview(o) ==
  /\ outbox[o].state # "absent"
  /\ Post(o, NoOp)
  /\ UNCHANGED <<drafts, outbox, pub, rec, proc, account, live, wire, ghosts>>

\* A push, a close, or the start of a pending review.
RemoteMoves(p, t) ==
  /\ live' = [live EXCEPT ![p] = t]
  /\ UNCHANGED <<drafts, outbox, pub, rec, proc, account, posted, nextId, wire, ghosts>>

AccountSwitch(a) ==
  /\ account' = a
  /\ UNCHANGED <<drafts, outbox, pub, rec, proc, live, posted, nextId, wire, ghosts>>

-----------------------------------------------------------------------------
PrState == [head : Heads, ok : BOOLEAN]

Init ==
  /\ drafts = [d \in Drafts |-> [snap |-> AnySnap, version |-> 0, published |-> FALSE]]
  /\ outbox = [o \in Ops |-> [state |-> "absent", snap |-> AnySnap, note |-> AnyNote,
                              comments |-> {}, baseline |-> {}, remote_id |-> 0]]
  /\ pub = Idle
  /\ rec = RecIdle
  /\ proc = "up"
  /\ account \in Accounts
  /\ live \in [Prs -> [head : Heads, ok : {TRUE}]]
  /\ posted = {}
  /\ nextId = 1
  /\ wire = {}
  /\ sends = [o \in Ops |-> 0]
  /\ discarded = {}
  /\ crashes = 0

\* The reader: a text is written on the snapshot that is open now, or rewritten
\* on its own; a preview is taken on such a snapshot.
Reader ==
  \/ \E d \in Drafts, v \in Versions :
       \E s \in {Opened(p) : p \in Prs} \cup {drafts[d].snap} : SaveDraft(d, s, v)
  \/ \E d \in Drafts : DiscardDraft(d)
  \/ \E o \in Ops, n \in Notes :
       \E s \in {Opened(p) : p \in Prs} \cup {drafts[d].snap : d \in Drafts} :
         \E cs \in SUBSET Previewable(s) : Prepare(o, s, n, cs)

Publish ==
  \/ PublishCurrent \/ PublishMoved \/ PublishDrafts \/ PublishBaseline
  \/ PublishInFlight \/ PublishError
  \/ SendAccepted \/ SendRejected \/ SendUnknown
  \/ \E result \in {"confirmed", "unknown"} : Verify(result)
  \/ PublishSettle \/ PublishStoreFails

Reconcile ==
  \/ ReconcileList
  \/ \E id \in Ids : ReconcileCommit(id)
  \/ ReconcileReturn

Opening == OpenDone \/ \E o \in Ops : Recover(o)

Service ==
  \/ \E o \in Ops : Land(o) \/ OutsideReview(o)
  \/ \E p \in Prs, t \in PrState : RemoteMoves(p, t)
  \/ \E a \in Accounts : AccountSwitch(a)

Next ==
  \/ Reader
  \/ \E o \in Ops : PublishBegin(o) \/ ReconcileBegin(o)
  \/ Publish
  \/ Reconcile
  \/ Crash \/ Open \/ Opening
  \/ Service

Spec == Init /\ [][Next]_vars

\* Every remote call of publish and reconcile has a deadline, and Store::open
\* runs its loop to the end; the reader and the service promise nothing.
Fairness == WF_vars(Publish) /\ WF_vars(Reconcile) /\ WF_vars(Opening)

FairSpec == Spec /\ Fairness

-----------------------------------------------------------------------------
(* Properties.                                                             *)

Phases == {"idle", "current", "drafts", "baseline", "recheck", "send", "verify", "settle"}

\* Every variable has its type.
TypeOK ==
  /\ drafts \in [Drafts -> Row]
  /\ outbox \in [Ops -> Entry]
  /\ pub \in [phase : Phases, op : Ops \cup {NoOp}, baseline : SUBSET Ids, id : 0 .. MaxReviews,
              result : {"absent", "confirmed", "rejected", "unknown"}]
  /\ pub.phase # "idle" => pub.op \in Ops
  /\ rec \in [phase : {"idle", "list", "commit"}, op : Ops \cup {NoOp}, found : SUBSET Ids]
  /\ rec.phase # "idle" => rec.op \in Ops
  /\ proc \in {"up", "down", "opening"}
  /\ account \in Accounts
  /\ live \in [Prs -> PrState]
  /\ posted \in SUBSET Review
  /\ nextId \in 1 .. MaxReviews + 1
  /\ wire \in SUBSET Ops
  /\ sends \in [Ops -> Nat]
  /\ discarded \in SUBSET Drafts
  /\ crashes \in 0 .. MaxCrashes

\* At most one operation of a PR and account is unresolved, whatever crashes,
\* failing writes and reconciliations come between its steps: the check that
\* Outbox::publish makes long before it writes InFlight still holds then.
UnresolvedUnique ==
  \A a, b \in Ops :
    a # b /\ SamePr(outbox[a].snap, outbox[b].snap)
      => ~(IsUnresolved(outbox[a]) /\ IsUnresolved(outbox[b]))

\* An operation is sent at most once, and one that is still Prepared never was:
\* "No state permits an automatic retry" (outbox.rs), across crashes.
SentOnce ==
  \A o \in Ops :
    /\ sends[o] =< 1
    /\ outbox[o].state = "prepared" => sends[o] = 0

\* A text reaches the service in at most one review that diffz posted, as long
\* as the reader did not delete its draft meanwhile: previews that share it,
\* late requests, crashes and reconciliations included.
NoDoublePublication ==
  \A r, q \in posted :
    r # q /\ r.by # NoOp /\ q.by # NoOp
      => \A c \in r.comments \cap q.comments : c[1] \in discarded

\* A Confirmed row names a review on the service with its content that was not
\* there when the request was made; where reviews carry the fingerprint it is
\* the operation's own.
ConfirmedHasEvidence ==
  \A o \in Ops :
    outbox[o].state = "confirmed" =>
      \E r \in posted :
        /\ r.id = outbox[o].remote_id
        /\ r.id \notin outbox[o].baseline
        /\ MatchesReview(o, r)

\* A draft marked published holds the very text of a Confirmed operation,
\* although it may be edited or deleted while that is sent.
PublishedHasEvidence ==
  \A d \in Drafts :
    drafts[d].version > 0 /\ drafts[d].published =>
      \E o \in Ops :
        /\ outbox[o].state = "confirmed"
        /\ <<d, drafts[d].version>> \in outbox[o].comments

\* A Rejected or Prepared operation has no review on the service and no request
\* that may still be applied: its drafts can be sent again.
RejectedNeverPosted ==
  \A o \in Ops :
    outbox[o].state \in {"prepared", "rejected"} =>
      /\ o \notin wire
      /\ \A r \in posted : r.by # o

-----------------------------------------------------------------------------
(* The inductive invariant behind the safety properties.                   *)

Checking == {"current", "drafts", "baseline", "recheck"}
Sending == {"send", "verify", "settle"}

\* Where the calls are, and the row they work on.
CallState ==
  /\ pub.phase # "idle" => proc = "up"
  /\ pub.phase \in Checking => outbox[pub.op].state = "prepared"
  /\ pub.phase \in Sending => outbox[pub.op].state = "in_flight"
  /\ rec.phase # "idle" => proc = "up" /\ outbox[rec.op].state = "unknown"

\* What publish found at its start still holds while it holds the gate.
GateHolds == pub.phase # "idle" => NoOtherUnresolved(pub.op)

\* Before its request is made an operation was not sent.
NotSentYet ==
  /\ \A o \in Ops : outbox[o].state \in {"absent", "prepared"} => sends[o] = 0
  /\ pub.phase = "send" => sends[pub.op] = 0
  /\ \A o \in Ops : sends[o] =< 1

PublicationInv == TypeOK /\ CallState /\ GateHolds /\ UnresolvedUnique /\ NotSentYet

\* Nothing of operation o is on the service or on its way there.
NoTrace(o) == o \notin wire /\ \A r \in posted : r.by # o

\* What a request leaves behind: at most one review, of the content of its row, as
\* long as it is not on its way; and nothing when it was not made or was refused.
TraceInv ==
  /\ \A o \in Ops : sends[o] = 0 \/ outbox[o].state = "rejected" => NoTrace(o)
  /\ pub.phase = "settle" /\ pub.result = "rejected" => NoTrace(pub.op)
  /\ \A r \in posted : r.by # NoOp => r.by \notin wire /\ r.comments = outbox[r.by].comments
  /\ \A r, q \in posted : r.by # NoOp /\ r.by = q.by => r = q

\* Ids are given once, so that a review accepted or found now was not there when the
\* baseline was read.
IdInv ==
  /\ \A r \in posted : r.id < nextId
  /\ \A i \in pub.baseline : i < nextId
  /\ pub.phase \in Checking \cup {"send"} => pub.id = 0
  /\ pub.id \notin pub.baseline
  /\ \A o \in Ops : outbox[o].state = "prepared" => outbox[o].remote_id = 0
  /\ \A o \in Ops : outbox[o].remote_id \notin outbox[o].baseline
  /\ rec.phase = "commit" => rec.found \cap outbox[rec.op].baseline = {}

\* The service has a review of this id with the content of operation o.
Shown(o, id) == \E r \in posted : r.id = id /\ MatchesReview(o, r)

\* The calls that are about to confirm a row hold the evidence a confirmed row has.
EvidenceInv ==
  /\ \A o \in Ops : outbox[o].state = "confirmed" => Shown(o, outbox[o].remote_id)
  /\ pub.phase = "verify" \/ (pub.phase = "settle" /\ pub.result = "confirmed") =>
       Shown(pub.op, pub.id)
  /\ rec.phase = "commit" => \A id \in rec.found : Shown(rec.op, id)

\* Operations whose texts may be on the service.
Out(o) == outbox[o].state \in {"in_flight", "unknown", "confirmed"}

\* The texts two operations share are of discarded drafts.
Apart(x, y) == \A c \in outbox[x].comments \cap outbox[y].comments : c[1] \in discarded

\* Unless its draft was discarded, a text in an outbox row is the stored one or an
\* older one, on the same snapshot; once confirmed it cannot pass for unpublished.
TextInv ==
  /\ \A o \in Ops : outbox[o].state # "absent" =>
       \A c \in outbox[o].comments : c[1] \notin discarded =>
         /\ c[2] =< drafts[c[1]].version
         /\ drafts[c[1]].snap = outbox[o].snap
         /\ outbox[o].state = "confirmed" /\ c[2] = drafts[c[1]].version => drafts[c[1]].published
  /\ pub.phase \in {"baseline", "recheck"} =>
       \A x \in Ops \ {pub.op} : Out(x) => Apart(x, pub.op)
  /\ \A x, y \in Ops : x # y /\ Out(x) /\ Out(y) => Apart(x, y)

\* A row keeps the content of its preview, and its state only moves on.
RowStep ==
  \A o \in Ops : outbox[o].state # "absent" =>
    /\ outbox'[o].snap = outbox[o].snap
    /\ outbox'[o].note = outbox[o].note
    /\ outbox'[o].comments = outbox[o].comments
    /\ \/ outbox'[o] = outbox[o]
       \/ CanTransition(outbox[o].state, outbox'[o].state)

-----------------------------------------------------------------------------
\* Store::open ends with no InFlight row, unless the process dies again.
ReopenResolves ==
  proc = "opening" ~>
    \/ proc = "down"
    \/ proc = "up" /\ \A o \in Ops : outbox[o].state # "in_flight"

=============================================================================
