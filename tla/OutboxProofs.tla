---------------------------- MODULE OutboxProofs ----------------------------
(* Proofs about Outbox, for every value of its constants. *)
EXTENDS Outbox, TLAPS

-----------------------------------------------------------------------------
(* Typing.                                                                 *)

\* The CHOOSE witnesses of Init have their types.
LEMMA WitnessTypes ==
  AnySnap \in Snapshots /\ AnyNote \in Notes
<1>1. Snapshots # {}
  <2>1. PICK p \in Prs, a \in Accounts, h \in Heads : TRUE
    BY InhabitedAssumption
  <2>2. [pr |-> p, account |-> a, head |-> h] \in Snapshots
    BY <2>1 DEF Snapshots
  <2>3. QED
    BY <2>2
<1>2. QED
  BY <1>1, InhabitedAssumption DEF AnySnap, AnyNote

\* Opening a PR gives a snapshot.
LEMMA OpenedType ==
  ASSUME TypeOK, NEW p \in Prs
  PROVE  Opened(p) \in Snapshots
BY DEF TypeOK, Opened, Snapshots, PrState

\* A transition of an outbox row keeps the types of both tables.
LEMMA TransitionTypes ==
  ASSUME TypeOK, NEW o \in Ops, NEW e \in Entry, WriteTransition(o, e)
  PROVE  outbox' \in [Ops -> Entry] /\ drafts' \in [Drafts -> Row]
<1>1. MarkPublished(drafts, e.comments) \in [Drafts -> Row]
  BY DEF TypeOK, MarkPublished, Row
<1>2. QED
  BY <1>1 DEF TypeOK, WriteTransition

\* Rewriting the outcome fields of an entry gives an entry.
LEMMA EntryState ==
  ASSUME NEW e \in Entry, NEW s \in States
  PROVE  [e EXCEPT !.state = s] \in Entry
BY DEF Entry

\* The same with the baseline, as InFlight is written.
LEMMA EntryBaseline ==
  ASSUME NEW e \in Entry, NEW s \in States, NEW b \in SUBSET Ids
  PROVE  [e EXCEPT !.state = s, !.baseline = b] \in Entry
BY DEF Entry

\* The same with the review id, as reconcile writes it.
LEMMA EntryRemote ==
  ASSUME NEW e \in Entry, NEW s \in States, NEW i \in 0 .. MaxReviews
  PROVE  [e EXCEPT !.state = s, !.remote_id = i] \in Entry
BY DEF Entry

\* The same with both, as publish settles.
LEMMA EntryOutcome ==
  ASSUME NEW e \in Entry, NEW s \in States, NEW b \in SUBSET Ids, NEW i \in 0 .. MaxReviews
  PROVE  [e EXCEPT !.state = s, !.baseline = b, !.remote_id = i] \in Entry
BY DEF Entry

\* A review that is posted has its type, and ids stay below the bound.
LEMMA PostTypes ==
  ASSUME TypeOK, NEW o \in Ops, NEW w \in Ops \cup {NoOp}, Post(o, w)
  PROVE  /\ ReviewOf(o, w) \in Review
         /\ nextId \in Ids
         /\ posted' \in SUBSET Review
         /\ nextId' \in 1 .. MaxReviews + 1
<1>1. nextId \in Ids /\ nextId' \in 1 .. MaxReviews + 1
  BY BoundsAssumption DEF TypeOK, Post, Ids
<1>2. outbox[o] \in Entry
  BY DEF TypeOK
<1>3. ReviewOf(o, w) \in Review
  BY <1>1, <1>2 DEF ReviewOf, Review, Entry, Snapshots
<1>4. QED
  BY <1>1, <1>3 DEF TypeOK, Post

\* Types are preserved by every step.
LEMMA TypeStep ==
  ASSUME TypeOK, [Next]_vars
  PROVE  TypeOK'
<1> USE BoundsAssumption
<1>0. CASE UNCHANGED vars
  BY <1>0 DEF vars, TypeOK
<1>1. ASSUME NEW d \in Drafts, NEW v \in Versions,
             NEW s \in {Opened(p) : p \in Prs} \cup {drafts[d].snap}, SaveDraft(d, s, v)
      PROVE  TypeOK'
  <2>1. s \in Snapshots
    BY OpenedType DEF TypeOK, Row
  <2>2. [snap |-> s, version |-> v, published |-> FALSE] \in Row
    BY <2>1 DEF Row, Versions
  <2>3. QED
    BY <1>1, <2>2 DEF TypeOK, SaveDraft, remote, ghosts
<1>2. ASSUME NEW d \in Drafts, DiscardDraft(d)
      PROVE  TypeOK'
  <2>1. [drafts[d] EXCEPT !.version = 0] \in Row
    BY DEF TypeOK, Row
  <2>2. QED
    BY <1>2, <2>1 DEF TypeOK, DiscardDraft, remote, Row
<1>3. ASSUME NEW o \in Ops, NEW n \in Notes,
             NEW s \in {Opened(p) : p \in Prs} \cup {drafts[d].snap : d \in Drafts},
             NEW cs \in SUBSET Previewable(s), Prepare(o, s, n, cs)
      PROVE  TypeOK'
  <2>1. s \in Snapshots
    BY OpenedType DEF TypeOK, Row
  <2>2. cs \in SUBSET Texts
    BY DEF Previewable, Texts, Versions, TypeOK, Row
  <2>3. [state |-> "prepared", snap |-> s, note |-> n, comments |-> cs,
         baseline |-> {}, remote_id |-> 0] \in Entry
    BY <2>1, <2>2 DEF Entry, States
  <2>4. QED
    BY <1>3, <2>3 DEF TypeOK, Prepare, remote, ghosts
<1>4. ASSUME NEW o \in Ops, PublishBegin(o)
      PROVE  TypeOK'
  <2>1. pub' = [phase |-> "current", op |-> o, baseline |-> {}, id |-> 0, result |-> "absent"]
    BY <1>4 DEF PublishBegin, Idle
  <2>2. QED
    BY <1>4, <2>1 DEF TypeOK, PublishBegin, remote, ghosts, Phases
<1>5. ASSUME NEW o \in Ops, ReconcileBegin(o)
      PROVE  TypeOK'
  BY <1>5 DEF TypeOK, ReconcileBegin, remote, ghosts, RecIdle
<1>6. CASE PublishCurrent
  BY <1>6 DEF TypeOK, PublishCurrent, remote, ghosts, Phases
<1>7. CASE PublishMoved
  <2>1. pub.op \in Ops
    BY <1>7 DEF TypeOK, PublishMoved
  <2>2. [outbox[pub.op] EXCEPT !.state = "rejected"] \in Entry
    <3>1. outbox[pub.op] \in Entry /\ "rejected" \in States
      BY <2>1 DEF TypeOK, States
    <3>2. QED
      BY <3>1, EntryState
  <2>3. outbox' \in [Ops -> Entry] /\ drafts' \in [Drafts -> Row]
    BY <1>7, <2>1, <2>2, TransitionTypes DEF PublishMoved
  <2>4. QED
    BY <1>7, <2>3 DEF TypeOK, PublishMoved, remote, ghosts, Idle, Phases
<1>8. CASE PublishDrafts
  BY <1>8 DEF TypeOK, PublishDrafts, remote, ghosts, Phases
<1>9. CASE PublishBaseline
  <2>1. ReviewIds(outbox[pub.op].snap) \in SUBSET Ids
    BY DEF ReviewIds, TypeOK, Review
  <2>2. QED
    BY <1>9, <2>1 DEF TypeOK, PublishBaseline, remote, ghosts, Phases
<1>10. CASE PublishInFlight
  <2>1. pub.op \in Ops
    BY <1>10 DEF TypeOK, PublishInFlight
  <2>2. [outbox[pub.op] EXCEPT !.state = "in_flight", !.baseline = pub.baseline] \in Entry
    <3>1. outbox[pub.op] \in Entry /\ "in_flight" \in States /\ pub.baseline \in SUBSET Ids
      BY <2>1 DEF TypeOK, States
    <3>2. QED
      BY <3>1, EntryBaseline
  <2>3. outbox' \in [Ops -> Entry] /\ drafts' \in [Drafts -> Row]
    BY <1>10, <2>1, <2>2, TransitionTypes DEF PublishInFlight
  <2>4. QED
    BY <1>10, <2>3 DEF TypeOK, PublishInFlight, remote, ghosts, Phases
<1>11. CASE PublishError
  BY <1>11 DEF TypeOK, PublishError, remote, ghosts, Idle, Phases
<1>12. CASE SendAccepted
  <2>1. pub.op \in Ops
    BY <1>12 DEF TypeOK, SendAccepted
  <2>2. /\ nextId \in Ids /\ posted' \in SUBSET Review
        /\ nextId' \in 1 .. MaxReviews + 1
    BY <1>12, <2>1, PostTypes DEF SendAccepted
  <2>3. nextId \in 0 .. MaxReviews
    BY <2>2 DEF Ids
  <2>4. sends' \in [Ops -> Nat]
    BY <1>12 DEF TypeOK, SendAccepted, Sent
  <2>5. QED
    BY <1>12, <2>1, <2>2, <2>3, <2>4 DEF TypeOK, SendAccepted, Phases
<1>13. CASE SendRejected
  <2>1. sends' \in [Ops -> Nat]
    BY <1>13 DEF TypeOK, SendRejected, Sent
  <2>2. QED
    BY <1>13, <2>1 DEF TypeOK, SendRejected, remote, Phases
<1>14. CASE SendUnknown
  <2>1. sends' \in [Ops -> Nat]
    BY <1>14 DEF TypeOK, SendUnknown, Sent
  <2>2. QED
    BY <1>14, <2>1 DEF TypeOK, SendUnknown, Phases
<1>15. ASSUME NEW result \in {"confirmed", "unknown"}, Verify(result)
       PROVE  TypeOK'
  BY <1>15 DEF TypeOK, Verify, remote, ghosts, Phases
<1>16. CASE PublishSettle
  <2>1. pub.op \in Ops
    BY <1>16 DEF TypeOK, PublishSettle
  <2>2. [outbox[pub.op] EXCEPT !.state = pub.result, !.baseline = pub.baseline,
                               !.remote_id = pub.id] \in Entry
    <3>1. /\ outbox[pub.op] \in Entry /\ pub.result \in States
          /\ pub.baseline \in SUBSET Ids /\ pub.id \in 0 .. MaxReviews
      BY <2>1 DEF TypeOK, States
    <3>2. QED
      BY <3>1, EntryOutcome
  <2>3. outbox' \in [Ops -> Entry] /\ drafts' \in [Drafts -> Row]
    BY <1>16, <2>1, <2>2, TransitionTypes DEF PublishSettle
  <2>4. QED
    BY <1>16, <2>3 DEF TypeOK, PublishSettle, remote, ghosts, Idle, Phases
<1>17. CASE PublishStoreFails
  BY <1>17 DEF TypeOK, PublishStoreFails, remote, ghosts, Idle, Phases
<1>18. CASE ReconcileList
  <2>1. MatchingIds(rec.op) \in SUBSET Ids
    BY DEF MatchingIds, TypeOK, Review
  <2>2. QED
    BY <1>18, <2>1 DEF TypeOK, ReconcileList, remote, ghosts
<1>19. ASSUME NEW id \in Ids, ReconcileCommit(id)
       PROVE  TypeOK'
  <2>1. rec.op \in Ops
    BY <1>19 DEF TypeOK, ReconcileCommit
  <2>2. [outbox[rec.op] EXCEPT !.state = "confirmed", !.remote_id = id] \in Entry
    <3>1. id \in 0 .. MaxReviews
      BY DEF Ids
    <3>2. outbox[rec.op] \in Entry /\ "confirmed" \in States
      BY <2>1 DEF TypeOK, States
    <3>3. QED
      BY <3>1, <3>2, EntryRemote
  <2>3. outbox' \in [Ops -> Entry] /\ drafts' \in [Drafts -> Row]
    BY <1>19, <2>1, <2>2, TransitionTypes DEF ReconcileCommit
  <2>4. QED
    BY <1>19, <2>3 DEF TypeOK, ReconcileCommit, remote, ghosts, RecIdle
<1>20. CASE ReconcileReturn
  BY <1>20 DEF TypeOK, ReconcileReturn, remote, ghosts, RecIdle
<1>21. CASE Crash
  <2>1. InSend => pub.op \in Ops
    BY DEF TypeOK, InSend
  <2>2. wire' \in SUBSET Ops /\ sends' \in [Ops -> Nat]
    BY <1>21, <2>1 DEF TypeOK, Crash
  <2>3. QED
    BY <1>21, <2>2 DEF TypeOK, Crash, Idle, RecIdle, Phases
<1>22. CASE Open
  BY <1>22 DEF TypeOK, Open, remote, ghosts
<1>23. CASE OpenDone
  BY <1>23 DEF TypeOK, OpenDone, remote, ghosts
<1>24. ASSUME NEW o \in Ops, Recover(o)
       PROVE  TypeOK'
  <2>1. [outbox[o] EXCEPT !.state = "unknown"] \in Entry
    <3>1. outbox[o] \in Entry /\ "unknown" \in States
      BY DEF TypeOK, States
    <3>2. QED
      BY <3>1, EntryState
  <2>2. outbox' \in [Ops -> Entry] /\ drafts' \in [Drafts -> Row]
    BY <1>24, <2>1, TransitionTypes DEF Recover
  <2>3. QED
    BY <1>24, <2>2 DEF TypeOK, Recover, remote, ghosts
<1>25. ASSUME NEW o \in Ops, Land(o)
       PROVE  TypeOK'
  <2>1. posted' \in SUBSET Review /\ nextId' \in 1 .. MaxReviews + 1
    BY <1>25, PostTypes DEF Land
  <2>2. QED
    BY <1>25, <2>1 DEF TypeOK, Land, ghosts
<1>26. ASSUME NEW o \in Ops, OutsideReview(o)
       PROVE  TypeOK'
  <2>1. posted' \in SUBSET Review /\ nextId' \in 1 .. MaxReviews + 1
    BY <1>26, PostTypes DEF OutsideReview
  <2>2. QED
    BY <1>26, <2>1 DEF TypeOK, OutsideReview, ghosts
<1>27. ASSUME NEW p \in Prs, NEW t \in PrState, RemoteMoves(p, t)
       PROVE  TypeOK'
  BY <1>27 DEF TypeOK, RemoteMoves, ghosts
<1>28. ASSUME NEW a \in Accounts, AccountSwitch(a)
       PROVE  TypeOK'
  BY <1>28 DEF TypeOK, AccountSwitch, ghosts
<1>29. QED
  BY <1>0, <1>1, <1>2, <1>3, <1>4, <1>5, <1>6, <1>7, <1>8, <1>9, <1>10, <1>11, <1>12,
     <1>13, <1>14, <1>15, <1>16, <1>17, <1>18, <1>19, <1>20, <1>21, <1>22, <1>23, <1>24,
     <1>25, <1>26, <1>27, <1>28
     DEF Next, Reader, Publish, Reconcile, Opening, Service

\* The initial state is well typed.
LEMMA TypeInit == Init => TypeOK
<1> SUFFICES ASSUME Init PROVE TypeOK
  OBVIOUS
<1> USE BoundsAssumption, WitnessTypes
<1>1. drafts \in [Drafts -> Row]
  BY DEF Init, Row
<1>2. outbox \in [Ops -> Entry]
  BY DEF Init, Entry, States
<1>3. live \in [Prs -> PrState]
  BY DEF Init, PrState
<1>4. /\ pub \in [phase : Phases, op : Ops \cup {NoOp}, baseline : SUBSET Ids,
                 id : 0 .. MaxReviews, result : {"absent", "confirmed", "rejected", "unknown"}]
      /\ pub.phase = "idle"
  BY DEF Init, Idle, Phases
<1>5. /\ rec \in [phase : {"idle", "list", "commit"}, op : Ops \cup {NoOp}, found : SUBSET Ids]
      /\ rec.phase = "idle"
  BY DEF Init, RecIdle
<1>6. nextId \in 1 .. MaxReviews + 1 /\ crashes \in 0 .. MaxCrashes
  BY DEF Init
<1>7. QED
  BY <1>1, <1>2, <1>3, <1>4, <1>5, <1>6 DEF Init, TypeOK

\* Every reachable state is well typed.
THEOREM TypeCorrect == Spec => []TypeOK
<1>1. QED
  BY TypeInit, TypeStep, PTL DEF Spec

-----------------------------------------------------------------------------
(* One unresolved operation per PR and account, sent at most once.         *)

Calls == CallState /\ GateHolds /\ UnresolvedUnique /\ NotSentYet

\* Steps that touch neither the outbox rows, the calls nor the sends.
LEMMA CallsFrame ==
  ASSUME Calls, UNCHANGED <<outbox, pub, rec, proc, sends>>
  PROVE  Calls'
BY DEF Calls, CallState, GateHolds, UnresolvedUnique, NotSentYet, NoOtherUnresolved,
       IsUnresolved, SamePr

\* Every step keeps the call invariant.
LEMMA CallsStep ==
  ASSUME TypeOK, Calls, [Next]_vars
  PROVE  Calls'
<1> USE DEF Calls
<1>0. CASE UNCHANGED vars
  BY <1>0, CallsFrame DEF vars
<1>1. ASSUME NEW d \in Drafts, NEW v \in Versions, NEW s, SaveDraft(d, s, v)
      PROVE  Calls'
  BY <1>1, CallsFrame DEF SaveDraft, ghosts
<1>2. ASSUME NEW d \in Drafts, DiscardDraft(d)
      PROVE  Calls'
  BY <1>2, CallsFrame DEF DiscardDraft
<1>3. ASSUME NEW o \in Ops, NEW n \in Notes, NEW s, NEW cs, Prepare(o, s, n, cs)
      PROVE  Calls'
  <2>1. /\ outbox[o].state = "absent" /\ outbox'[o].state = "prepared"
        /\ \A x \in Ops \ {o} : outbox'[x] = outbox[x]
        /\ UNCHANGED <<pub, rec, proc, sends>>
    BY <1>3 DEF Prepare, TypeOK, ghosts
  <2>2. pub.phase # "idle" => pub.op \in Ops /\ pub.op # o
    BY <2>1 DEF TypeOK, CallState, Phases, Checking, Sending
  <2>3. rec.phase # "idle" => rec.op \in Ops /\ rec.op # o
    BY <2>1 DEF TypeOK, CallState
  <2>4. CallState'
    BY <2>1, <2>2, <2>3 DEF CallState, Checking, Sending
  <2>5. GateHolds'
    BY <2>1, <2>2 DEF GateHolds, NoOtherUnresolved, IsUnresolved
  <2>6. UnresolvedUnique'
    BY <2>1 DEF UnresolvedUnique, IsUnresolved
  <2>7. NotSentYet'
    BY <2>1 DEF NotSentYet
  <2>8. QED
    BY <2>4, <2>5, <2>6, <2>7
<1>4. ASSUME NEW o \in Ops, PublishBegin(o)
      PROVE  Calls'
  <2>1. /\ pub'.phase = "current" /\ pub'.op = o /\ outbox[o].state = "prepared"
        /\ NoOtherUnresolved(o) /\ proc = "up"
        /\ UNCHANGED <<outbox, rec, proc, sends>>
    BY <1>4 DEF PublishBegin, Idle, ghosts
  <2>2. QED
    BY <2>1 DEF CallState, GateHolds, UnresolvedUnique, NotSentYet, NoOtherUnresolved,
                Checking, Sending
<1>5. ASSUME NEW o \in Ops, ReconcileBegin(o)
      PROVE  Calls'
  <2>1. /\ rec'.phase = "list" /\ rec'.op = o /\ outbox[o].state = "unknown" /\ proc = "up"
        /\ UNCHANGED <<outbox, pub, proc, sends>>
    BY <1>5 DEF ReconcileBegin, RecIdle, ghosts
  <2>2. QED
    BY <2>1 DEF CallState, GateHolds, UnresolvedUnique, NotSentYet, NoOtherUnresolved
<1>6. ASSUME UNCHANGED <<outbox, rec, proc, sends>>,
             \/ pub'.phase = "idle"
             \/ /\ pub'.op = pub.op
                /\ \/ pub.phase \in Checking /\ pub'.phase \in Checking
                   \/ pub.phase \in Sending /\ pub'.phase \in {"verify", "settle"}
      PROVE  Calls'
  BY <1>6 DEF CallState, GateHolds, UnresolvedUnique, NotSentYet, NoOtherUnresolved,
              Checking, Sending
<1>7. CASE PublishCurrent \/ PublishDrafts \/ PublishBaseline \/ PublishError
           \/ PublishStoreFails \/ \E result \in {"confirmed", "unknown"} : Verify(result)
  <2>1. pub \in [phase : Phases, op : Ops \cup {NoOp}, baseline : SUBSET Ids,
                 id : 0 .. MaxReviews,
                 result : {"absent", "confirmed", "rejected", "unknown"}]
    BY DEF TypeOK
  <2>2. CASE PublishCurrent \/ PublishDrafts \/ PublishBaseline
    BY <1>6, <2>1, <2>2 DEF PublishCurrent, PublishDrafts, PublishBaseline, Checking, ghosts
  <2>3. CASE PublishError \/ PublishStoreFails
    BY <1>6, <2>3 DEF PublishError, PublishStoreFails, Idle, ghosts
  <2>4. CASE \E result \in {"confirmed", "unknown"} : Verify(result)
    BY <1>6, <2>1, <2>4 DEF Verify, Sending, ghosts
  <2>5. QED
    BY <1>7, <2>2, <2>3, <2>4
<1>8. ASSUME pub.phase = "send", pub'.phase \in {"verify", "settle"}, pub'.op = pub.op, Sent,
             UNCHANGED <<outbox, rec, proc>>
      PROVE  Calls'
  <2>1. pub.op \in Ops /\ sends' = [sends EXCEPT ![pub.op] = 1]
    <3>1. pub.op \in Ops /\ sends[pub.op] = 0
      BY <1>8 DEF TypeOK, NotSentYet
    <3>2. QED
      BY <1>8, <3>1 DEF Sent, TypeOK
  <2>2. NotSentYet'
    BY <1>8, <2>1 DEF NotSentYet, CallState, Sending, TypeOK
  <2>3. QED
    BY <1>8, <2>2 DEF CallState, GateHolds, UnresolvedUnique, NoOtherUnresolved,
                      Checking, Sending
<1>9. CASE SendAccepted \/ SendRejected \/ SendUnknown
  <2>1. pub \in [phase : Phases, op : Ops \cup {NoOp}, baseline : SUBSET Ids,
                 id : 0 .. MaxReviews,
                 result : {"absent", "confirmed", "rejected", "unknown"}]
    BY DEF TypeOK
  <2>2. QED
    BY <1>8, <1>9, <2>1 DEF SendAccepted, SendRejected, SendUnknown
<1>10. ASSUME NEW o \in Ops, NEW e \in Entry, WriteTransition(o, e), e.snap = outbox[o].snap,
              e.state # "in_flight", o # pub.op \/ pub'.phase = "idle",
              o # rec.op \/ rec'.phase = "idle",
              pub' = pub \/ pub'.phase = "idle", rec' = rec \/ rec'.phase = "idle",
              UNCHANGED <<proc, sends>>
       PROVE  Calls'
  <2>1. /\ outbox'[o] = e /\ \A x \in Ops \ {o} : outbox'[x] = outbox[x]
        /\ CanTransition(outbox[o].state, e.state)
    BY <1>10 DEF WriteTransition, TypeOK
  <2>2. /\ e.state \notin {"absent", "prepared"}
        /\ IsUnresolved(e) => IsUnresolved(outbox[o])
    BY <1>10, <2>1 DEF CanTransition, IsUnresolved
  <2>3. pub.phase # "idle" => pub.op \in Ops
    BY DEF TypeOK
  <2>4. rec.phase # "idle" => rec.op \in Ops
    BY DEF TypeOK
  <2>5. CallState'
    BY <1>10, <2>1, <2>3, <2>4 DEF CallState, Checking, Sending
  <2>6. UnresolvedUnique'
    BY <1>10, <2>1, <2>2 DEF UnresolvedUnique
  <2>7. GateHolds'
    BY <1>10, <2>1, <2>2, <2>3 DEF GateHolds, NoOtherUnresolved
  <2>8. NotSentYet'
    BY <1>10, <2>1, <2>2 DEF NotSentYet
  <2>9. QED
    BY <2>5, <2>6, <2>7, <2>8
<1>11. CASE PublishMoved
  <2>1. pub.op \in Ops /\ [outbox[pub.op] EXCEPT !.state = "rejected"] \in Entry
    BY <1>11, EntryState DEF PublishMoved, TypeOK, States
  <2>2. rec.phase # "idle" => rec.op # pub.op
    BY <1>11 DEF PublishMoved, CallState, Checking
  <2>3. QED
    BY <1>10, <1>11, <2>1, <2>2 DEF PublishMoved, Idle, ghosts, Entry
<1>12. CASE PublishInFlight
  <2>1. pub.op \in Ops /\ pub.phase = "recheck" /\ outbox[pub.op].state = "prepared"
    BY <1>12 DEF PublishInFlight, TypeOK, CallState, Checking
  <2>2. /\ outbox'[pub.op].state = "in_flight"
        /\ outbox'[pub.op].snap = outbox[pub.op].snap
        /\ \A x \in Ops \ {pub.op} : outbox'[x] = outbox[x]
        /\ pub'.phase = "send" /\ pub'.op = pub.op
        /\ UNCHANGED <<rec, proc, sends>>
    BY <1>12, <2>1 DEF PublishInFlight, WriteTransition, TypeOK, ghosts, Entry
  <2>3. rec.phase # "idle" => rec.op \in Ops /\ rec.op # pub.op
    BY <2>1 DEF TypeOK, CallState
  <2>4. NoOtherUnresolved(pub.op)
    BY <2>1 DEF GateHolds
  <2>5. CallState'
    BY <2>1, <2>2, <2>3 DEF CallState, Checking, Sending
  <2>6. UnresolvedUnique'
    BY <2>1, <2>2, <2>4 DEF UnresolvedUnique, NoOtherUnresolved, SamePr
  <2>7. GateHolds'
    BY <2>1, <2>2, <2>4 DEF GateHolds, NoOtherUnresolved
  <2>8. NotSentYet'
    BY <2>1, <2>2 DEF NotSentYet
  <2>9. QED
    BY <2>5, <2>6, <2>7, <2>8
<1>13. CASE PublishSettle
  <2> DEFINE e == [outbox[pub.op] EXCEPT !.state = pub.result, !.baseline = pub.baseline,
                                         !.remote_id = pub.id]
  <2>1. pub.op \in Ops /\ pub.result \in States /\ pub.result # "in_flight"
    BY <1>13 DEF PublishSettle, TypeOK, States
  <2>2. e \in Entry
    BY <2>1, EntryOutcome DEF TypeOK
  <2>3. e.snap = outbox[pub.op].snap /\ e.state = pub.result
    BY <2>1 DEF TypeOK, Entry
  <2>4. rec.phase # "idle" => rec.op # pub.op
    BY <1>13 DEF PublishSettle, CallState, Sending
  <2>5. WriteTransition(pub.op, e) /\ pub'.phase = "idle" /\ UNCHANGED <<rec, proc, sends>>
    BY <1>13 DEF PublishSettle, Idle, ghosts
  <2> HIDE DEF e
  <2>6. QED
    BY <1>10, <2>1, <2>2, <2>3, <2>4, <2>5
<1>14. CASE ReconcileList
  <2>1. rec'.op = rec.op /\ rec.phase = "list" /\ UNCHANGED <<outbox, pub, proc, sends>>
    BY <1>14 DEF ReconcileList, TypeOK, ghosts
  <2>2. QED
    BY <2>1 DEF CallState, GateHolds, UnresolvedUnique, NotSentYet, NoOtherUnresolved
<1>15. ASSUME NEW id \in Ids, ReconcileCommit(id)
       PROVE  Calls'
  <2> DEFINE e == [outbox[rec.op] EXCEPT !.state = "confirmed", !.remote_id = id]
  <2>1. rec.op \in Ops /\ "confirmed" \in States /\ id \in 0 .. MaxReviews
    BY <1>15 DEF ReconcileCommit, TypeOK, States, Ids
  <2>2. e \in Entry
    BY <2>1, EntryRemote DEF TypeOK
  <2>3. e.snap = outbox[rec.op].snap /\ e.state = "confirmed"
    BY <2>1 DEF TypeOK, Entry
  <2>4. pub.phase # "idle" => rec.op # pub.op
    BY <1>15 DEF ReconcileCommit, CallState, Checking, Sending, TypeOK, Phases
  <2>5. WriteTransition(rec.op, e) /\ rec'.phase = "idle" /\ UNCHANGED <<pub, proc, sends>>
    BY <1>15 DEF ReconcileCommit, RecIdle, ghosts
  <2> HIDE DEF e
  <2>6. QED
    BY <1>10, <2>1, <2>2, <2>3, <2>4, <2>5
<1>16. CASE ReconcileReturn
  <2>1. rec'.phase = "idle" /\ UNCHANGED <<outbox, pub, proc, sends>>
    BY <1>16 DEF ReconcileReturn, RecIdle, ghosts
  <2>2. QED
    BY <2>1 DEF CallState, GateHolds, UnresolvedUnique, NotSentYet, NoOtherUnresolved
<1>17. CASE Crash
  <2>1. pub'.phase = "idle" /\ rec'.phase = "idle" /\ UNCHANGED outbox
    BY <1>17 DEF Crash, Idle, RecIdle
  <2>2. NotSentYet'
    <3>1. CASE InSend
      <4>1. pub.op \in Ops /\ sends[pub.op] = 0 /\ outbox[pub.op].state = "in_flight"
        BY <3>1 DEF InSend, TypeOK, NotSentYet, CallState, Sending
      <4>2. sends' = [sends EXCEPT ![pub.op] = 1]
        BY <1>17, <3>1, <4>1 DEF Crash, TypeOK
      <4>3. QED
        BY <2>1, <4>1, <4>2 DEF NotSentYet, TypeOK
    <3>2. CASE ~InSend
      BY <1>17, <2>1, <3>2 DEF Crash, NotSentYet
    <3>3. QED
      BY <3>1, <3>2
  <2>3. QED
    BY <2>1, <2>2 DEF CallState, GateHolds, UnresolvedUnique, Checking, Sending
<1>18. CASE Open \/ OpenDone
  <2>1. proc # "up" /\ UNCHANGED <<outbox, pub, rec, sends>>
    BY <1>18 DEF Open, OpenDone, ghosts
  <2>2. pub.phase = "idle" /\ rec.phase = "idle"
    BY <2>1 DEF CallState
  <2>3. QED
    BY <2>1, <2>2 DEF CallState, GateHolds, UnresolvedUnique, NotSentYet, Checking, Sending
<1>19. ASSUME NEW o \in Ops, Recover(o)
       PROVE  Calls'
  <2> DEFINE e == [outbox[o] EXCEPT !.state = "unknown"]
  <2>1. e \in Entry
    BY EntryState DEF TypeOK, States
  <2>2. e.snap = outbox[o].snap /\ e.state = "unknown"
    BY DEF TypeOK, Entry
  <2>3. pub.phase = "idle" /\ rec.phase = "idle"
    BY <1>19 DEF Recover, CallState
  <2>4. WriteTransition(o, e) /\ UNCHANGED <<pub, rec, proc, sends>>
    BY <1>19 DEF Recover, ghosts
  <2> HIDE DEF e
  <2>5. QED
    BY <1>10, <2>1, <2>2, <2>3, <2>4
<1>20. CASE Service
  <2>1. UNCHANGED <<outbox, pub, rec, proc, sends>>
    BY <1>20 DEF Service, Land, OutsideReview, RemoteMoves, AccountSwitch, ghosts
  <2>2. QED
    BY <2>1, CallsFrame
<1>21. QED
  BY <1>0, <1>1, <1>2, <1>3, <1>4, <1>5, <1>7, <1>9, <1>11, <1>12, <1>13, <1>14, <1>15,
     <1>16, <1>17, <1>18, <1>19, <1>20
     DEF Next, Reader, Publish, Reconcile, Opening

\* The inductive invariant holds in every reachable state.
THEOREM PublicationInvariant == Spec => []PublicationInv
<1>1. Init => Calls
  BY DEF Init, Calls, CallState, GateHolds, UnresolvedUnique, NotSentYet, Idle, RecIdle,
         Checking, Sending, IsUnresolved
<1>2. TypeOK /\ Calls /\ [Next]_vars => Calls'
  BY CallsStep
<1>3. TypeOK /\ Calls <=> PublicationInv
  BY DEF Calls, PublicationInv
<1>4. QED
  BY <1>1, <1>2, <1>3, TypeCorrect, PTL DEF Spec

\* At most one operation of a PR and account is unresolved.
THEOREM UnresolvedIsUnique == Spec => []UnresolvedUnique
<1>1. PublicationInv => UnresolvedUnique
  BY DEF PublicationInv
<1>2. QED
  BY <1>1, PublicationInvariant, PTL

\* An operation is sent at most once, whatever crashes and restarts happen.
THEOREM SentAtMostOnce == Spec => []SentOnce
<1>1. PublicationInv => SentOnce
  BY DEF PublicationInv, NotSentYet, SentOnce
<1>2. QED
  BY <1>1, PublicationInvariant, PTL

-----------------------------------------------------------------------------
(* A row is written once with the content of its preview, and then only    *)
(* moves on: Store::write_transition is the one writer.                    *)

\* One transition keeps the content of every row.
LEMMA TransitionRows ==
  ASSUME TypeOK, NEW o \in Ops, NEW e \in Entry, WriteTransition(o, e),
         e.snap = outbox[o].snap, e.note = outbox[o].note, e.comments = outbox[o].comments
  PROVE  RowStep
<1>1. outbox'[o] = e /\ \A x \in Ops \ {o} : outbox'[x] = outbox[x]
  BY DEF WriteTransition, TypeOK
<1>2. CanTransition(outbox[o].state, e.state)
  BY DEF WriteTransition
<1> QED
  BY <1>1, <1>2 DEF RowStep

\* A step writes a transition of row o to e, which keeps the content of the preview.
Transition(o, e) ==
  /\ WriteTransition(o, e)
  /\ discarded' = discarded
  /\ e.snap = outbox[o].snap /\ e.note = outbox[o].note /\ e.comments = outbox[o].comments
  /\ e.state = "in_flight" => PublishInFlight /\ o = pub.op

\* What a step may write to the two tables: nothing, one draft, a new preview, or one
\* transition.
LEMMA StoreStep ==
  ASSUME TypeOK, [Next]_vars
  PROVE  \/ UNCHANGED <<outbox, drafts, discarded>>
         \/ \E d \in Drafts, v \in Versions :
              \E s \in {Opened(p) : p \in Prs} \cup {drafts[d].snap} : SaveDraft(d, s, v)
         \/ \E d \in Drafts : DiscardDraft(d)
         \/ \E o \in Ops, n \in Notes : \E s, cs : Prepare(o, s, n, cs)
         \/ \E o \in Ops, e \in Entry : Transition(o, e)
<1> DEFINE Moves == \E o \in Ops, e \in Entry : Transition(o, e)
<1>1. CASE PublishMoved
  <2> DEFINE e == [outbox[pub.op] EXCEPT !.state = "rejected"]
  <2>1. pub.op \in Ops /\ outbox[pub.op] \in Entry /\ "rejected" \in States
    BY <1>1 DEF PublishMoved, TypeOK, States
  <2>2. e \in Entry
    BY <2>1, EntryState
  <2>3. /\ e.snap = outbox[pub.op].snap /\ e.note = outbox[pub.op].note
        /\ e.comments = outbox[pub.op].comments
        /\ e.state # "in_flight"
    BY <1>1, <2>1 DEF Entry, TypeOK
  <2>4. WriteTransition(pub.op, e) /\ discarded' = discarded
    BY <1>1 DEF PublishMoved, ghosts
  <2> HIDE DEF e
  <2> QED
    BY <2>1, <2>2, <2>3, <2>4 DEF Transition
<1>2. CASE PublishInFlight
  <2> DEFINE e == [outbox[pub.op] EXCEPT !.state = "in_flight", !.baseline = pub.baseline]
  <2>1. /\ pub.op \in Ops /\ outbox[pub.op] \in Entry /\ "in_flight" \in States
        /\ pub.baseline \in SUBSET Ids
    BY <1>2 DEF PublishInFlight, TypeOK, States
  <2>2. e \in Entry
    BY <2>1, EntryBaseline
  <2>3. /\ e.snap = outbox[pub.op].snap /\ e.note = outbox[pub.op].note
        /\ e.comments = outbox[pub.op].comments
        /\ PublishInFlight
    BY <1>2, <2>1 DEF Entry, TypeOK
  <2>4. WriteTransition(pub.op, e) /\ discarded' = discarded
    BY <1>2 DEF PublishInFlight, ghosts
  <2> HIDE DEF e
  <2> QED
    BY <2>1, <2>2, <2>3, <2>4 DEF Transition
<1>3. CASE PublishSettle
  <2> DEFINE e == [outbox[pub.op] EXCEPT !.state = pub.result, !.baseline = pub.baseline,
                                         !.remote_id = pub.id]
  <2>1. /\ pub.op \in Ops /\ outbox[pub.op] \in Entry /\ pub.result \in States
        /\ pub.baseline \in SUBSET Ids /\ pub.id \in 0 .. MaxReviews
    BY <1>3 DEF PublishSettle, TypeOK, States
  <2>2. e \in Entry
    BY <2>1, EntryOutcome
  <2>3. /\ e.snap = outbox[pub.op].snap /\ e.note = outbox[pub.op].note
        /\ e.comments = outbox[pub.op].comments
        /\ e.state # "in_flight"
    BY <1>3, <2>1 DEF Entry, TypeOK
  <2>4. WriteTransition(pub.op, e) /\ discarded' = discarded
    BY <1>3 DEF PublishSettle, ghosts
  <2> HIDE DEF e
  <2> QED
    BY <2>1, <2>2, <2>3, <2>4 DEF Transition
<1>4. ASSUME NEW id \in Ids, ReconcileCommit(id)
      PROVE  Moves
  <2> DEFINE e == [outbox[rec.op] EXCEPT !.state = "confirmed", !.remote_id = id]
  <2>1. /\ rec.op \in Ops /\ outbox[rec.op] \in Entry /\ "confirmed" \in States
        /\ id \in 0 .. MaxReviews
    BY <1>4 DEF ReconcileCommit, TypeOK, States, Ids
  <2>2. e \in Entry
    BY <2>1, EntryRemote
  <2>3. /\ e.snap = outbox[rec.op].snap /\ e.note = outbox[rec.op].note
        /\ e.comments = outbox[rec.op].comments
        /\ e.state # "in_flight"
    BY <1>4, <2>1 DEF Entry, TypeOK
  <2>4. WriteTransition(rec.op, e) /\ discarded' = discarded
    BY <1>4 DEF ReconcileCommit, ghosts
  <2> HIDE DEF e
  <2> QED
    BY <2>1, <2>2, <2>3, <2>4 DEF Transition
<1>5. ASSUME NEW o \in Ops, Recover(o)
      PROVE  Moves
  <2> DEFINE e == [outbox[o] EXCEPT !.state = "unknown"]
  <2>1. o \in Ops /\ outbox[o] \in Entry /\ "unknown" \in States
    BY <1>5 DEF Recover, TypeOK, States
  <2>2. e \in Entry
    BY <2>1, EntryState
  <2>3. /\ e.snap = outbox[o].snap /\ e.note = outbox[o].note
        /\ e.comments = outbox[o].comments
        /\ e.state # "in_flight"
    BY <1>5, <2>1 DEF Entry, TypeOK
  <2>4. WriteTransition(o, e) /\ discarded' = discarded
    BY <1>5 DEF Recover, ghosts
  <2> HIDE DEF e
  <2> QED
    BY <2>1, <2>2, <2>3, <2>4 DEF Transition
<1>6. CASE \/ PublishCurrent \/ PublishDrafts \/ PublishBaseline \/ PublishError
           \/ SendAccepted \/ SendRejected \/ SendUnknown \/ PublishStoreFails
           \/ \E result \in {"confirmed", "unknown"} : Verify(result)
  BY <1>6 DEF PublishCurrent, PublishDrafts, PublishBaseline, PublishError, SendAccepted,
              SendRejected, SendUnknown, PublishStoreFails, Verify, ghosts
<1>7. CASE \/ \E o \in Ops : PublishBegin(o) \/ ReconcileBegin(o)
           \/ ReconcileList \/ ReconcileReturn \/ Crash \/ Open \/ OpenDone \/ Service
  BY <1>7 DEF PublishBegin, ReconcileBegin, ReconcileList, ReconcileReturn, Crash, Open, OpenDone,
              Service, Land, OutsideReview, RemoteMoves, AccountSwitch, ghosts
<1>8. CASE UNCHANGED vars
  BY <1>8 DEF vars
<1>9. CASE Reader
  BY <1>9 DEF Reader
<1> QED
  BY <1>1, <1>2, <1>3, <1>4, <1>5, <1>6, <1>7, <1>8, <1>9
     DEF Next, Publish, Reconcile, Opening

\* Every step keeps the rows of previews as they are, but for their outcome.
LEMMA RowsKept ==
  ASSUME TypeOK, [Next]_vars
  PROVE  RowStep
<1>1. ASSUME outbox' = outbox
      PROVE  RowStep
  BY <1>1 DEF RowStep
<1>2. ASSUME NEW o \in Ops, NEW s, NEW n, NEW cs, Prepare(o, s, n, cs)
      PROVE  RowStep
  BY <1>2 DEF Prepare, RowStep, TypeOK
<1>3. ASSUME NEW o \in Ops, NEW e \in Entry, Transition(o, e)
      PROVE  RowStep
  BY <1>3, TransitionRows DEF Transition
<1> QED
  BY <1>1, <1>2, <1>3, StoreStep DEF SaveDraft, DiscardDraft

\* A preview is frozen: its target, verdict and texts stay as the reader saw them, and
\* its state only takes the moves OperationState::can_transition allows.
THEOREM PreviewIsFrozen == Spec => [][RowStep]_vars
<1>1. TypeOK /\ [Next]_vars => [RowStep]_vars
  BY RowsKept
<1> QED
  BY <1>1, TypeCorrect, PTL DEF Spec

-----------------------------------------------------------------------------
(* What a request leaves on the service.                                   *)

\* A row that was sent, or is being sent, is there.
LEMMA TracesAreRows ==
  ASSUME TypeOK, Calls, TraceInv, NEW r \in posted, r.by # NoOp
  PROVE  r.by \in Ops /\ outbox[r.by].state \notin {"absent", "prepared", "rejected"}
<1>1. r.by \in Ops
  BY DEF TypeOK, Review
<1>2. ~NoTrace(r.by)
  BY DEF NoTrace
<1>3. sends[r.by] # 0 /\ outbox[r.by].state # "rejected"
  BY <1>1, <1>2 DEF TraceInv
<1> QED
  BY <1>1, <1>3 DEF Calls, NotSentYet

\* A step after which the service has nothing new and nothing new is on its way.
LEMMA TraceFrame ==
  ASSUME TypeOK, Calls, TraceInv, RowStep, posted' = posted, wire' = wire,
         \A o \in Ops : sends'[o] = 0 => sends[o] = 0,
         \A o \in Ops : outbox'[o].state = "rejected" => outbox[o].state = "rejected" \/ NoTrace(o),
         pub'.phase = "settle" /\ pub'.result = "rejected" => NoTrace(pub'.op)
  PROVE  TraceInv'
<1>1. \A o : NoTrace(o)' <=> NoTrace(o)
  BY DEF NoTrace
<1>2. \A r \in posted : r.by # NoOp => outbox'[r.by].comments = outbox[r.by].comments
  BY TracesAreRows DEF RowStep
<1>3. \A o \in Ops : sends'[o] = 0 \/ outbox'[o].state = "rejected" => NoTrace(o)
  BY DEF TraceInv
<1>4. \A r \in posted : r.by # NoOp => r.by \notin wire /\ r.comments = outbox'[r.by].comments
  BY <1>2 DEF TraceInv
<1>5. \A r, q \in posted : r.by # NoOp /\ r.by = q.by => r = q
  BY DEF TraceInv
<1>6. pub'.phase = "settle" /\ pub'.result = "rejected" => NoTrace(pub.op)'
  BY DEF NoTrace
<1> QED
  BY <1>1, <1>3, <1>4, <1>5, <1>6 DEF TraceInv

\* A review of operation o is posted: the first one, and its row is in flight or later.
LEMMA TracePost ==
  ASSUME TypeOK, Calls, TraceInv, NEW o \in Ops, Post(o, o),
         \A r \in posted : r.by # o,
         wire' = wire \ {o},
         outbox' = outbox,
         outbox[o].state # "rejected", sends'[o] # 0,
         \A x \in Ops : sends'[x] = 0 => sends[x] = 0,
         pub'.phase = "settle" /\ pub'.result = "rejected" =>
           pub'.op # o /\ NoTrace(pub'.op)
  PROVE  TraceInv'
<1>1. PICK n : n = ReviewOf(o, o)
  OBVIOUS
<1>2. n.by = o /\ n.comments = outbox[o].comments
  BY <1>1 DEF ReviewOf
<1>3. posted' = posted \cup {n}
  BY <1>1 DEF Post
<1>4. o # NoOp
  BY NoOpAssumption
<1>5. \A x : x # o /\ NoTrace(x) => NoTrace(x)'
  BY <1>2, <1>3 DEF NoTrace
<1>6. \A x \in Ops : sends'[x] = 0 \/ outbox'[x].state = "rejected" => NoTrace(x)'
  BY <1>5 DEF TraceInv
<1>7. pub'.phase = "settle" /\ pub'.result = "rejected" => NoTrace(pub.op)'
  BY <1>2, <1>3 DEF NoTrace
<1>8. \A r \in posted' : r.by # NoOp => r.by \notin wire' /\ r.comments = outbox'[r.by].comments
  BY <1>2, <1>3 DEF TraceInv
<1>9. \A r, q \in posted' : r.by # NoOp /\ r.by = q.by => r = q
  BY <1>2, <1>3 DEF TraceInv
<1> QED
  BY <1>6, <1>7, <1>8, <1>9 DEF TraceInv

\* A request that nobody answered joins the ones on their way.
LEMMA TraceWire ==
  ASSUME TypeOK, Calls, TraceInv, NEW o \in Ops, sends[o] = 0,
         outbox[o].state = "in_flight",
         wire' = wire \cup {o}, sends' = [sends EXCEPT ![o] = @ + 1],
         UNCHANGED <<outbox, posted>>,
         pub'.phase = "settle" => pub'.result # "rejected"
  PROVE  TraceInv'
<1>1. sends'[o] # 0 /\ \A x \in Ops : x # o => sends'[x] = sends[x]
  BY DEF TypeOK
<1>2. \A x : x # o /\ NoTrace(x) => NoTrace(x)'
  BY DEF NoTrace
<1>3. \A x \in Ops : sends'[x] = 0 \/ outbox'[x].state = "rejected" => NoTrace(x)'
  BY <1>1, <1>2 DEF TraceInv
<1>4. NoTrace(o)
  BY DEF TraceInv
<1>5. \A r \in posted : r.by # NoOp => r.by \notin wire' /\ r.comments = outbox'[r.by].comments
  BY <1>4 DEF TraceInv, NoTrace
<1> QED
  BY <1>3, <1>5 DEF TraceInv

\* Every step keeps the traces of an operation in order.
LEMMA TraceStep ==
  ASSUME TypeOK, Calls, TraceInv, [Next]_vars
  PROVE  TraceInv'
<1> USE RowsKept
<1>1. pub \in [phase : Phases, op : Ops \cup {NoOp}, baseline : SUBSET Ids, id : 0 .. MaxReviews,
               result : {"absent", "confirmed", "rejected", "unknown"}]
  BY DEF TypeOK
<1>2. ASSUME UNCHANGED <<posted, wire, sends>>,
             \A o \in Ops : outbox'[o].state = "rejected" => outbox[o].state = "rejected",
             pub' = pub \/ pub'.phase # "settle" \/ pub'.result # "rejected"
      PROVE  TraceInv'
  <2>1. pub'.phase = "settle" /\ pub'.result = "rejected" => NoTrace(pub'.op)
    BY <1>2 DEF TraceInv
  <2> QED
    BY <1>2, <2>1, TraceFrame
<1>3. CASE \/ \E d \in Drafts, v \in Versions :
                \E s \in {Opened(p) : p \in Prs} \cup {drafts[d].snap} : SaveDraft(d, s, v)
           \/ \E d \in Drafts : DiscardDraft(d)
           \/ \E o \in Ops : ReconcileBegin(o)
           \/ ReconcileList \/ ReconcileReturn \/ Open \/ OpenDone
           \/ \E p \in Prs, t \in PrState : RemoteMoves(p, t)
           \/ \E a \in Accounts : AccountSwitch(a)
           \/ UNCHANGED vars
  BY <1>2, <1>3 DEF SaveDraft, DiscardDraft, ReconcileBegin, ReconcileList, ReconcileReturn,
                    Open, OpenDone, RemoteMoves, AccountSwitch, vars, remote, ghosts
<1>4. ASSUME NEW o \in Ops, NEW s, NEW n, NEW cs, Prepare(o, s, n, cs)
      PROVE  TraceInv'
  <2>1. \A x \in Ops : outbox'[x].state = "rejected" => outbox[x].state = "rejected"
    BY <1>4 DEF Prepare, TypeOK
  <2> QED
    BY <1>2, <1>4, <2>1 DEF Prepare, remote, ghosts
<1>5. CASE \/ \E o \in Ops : PublishBegin(o)
           \/ PublishCurrent \/ PublishDrafts \/ PublishBaseline \/ PublishError
           \/ PublishStoreFails
  <2>1. UNCHANGED <<outbox, posted, wire, sends>>
    BY <1>5 DEF PublishBegin, PublishCurrent, PublishDrafts, PublishBaseline, PublishError,
                PublishStoreFails, remote, ghosts
  <2>2. (\E o \in Ops : PublishBegin(o)) => pub'.phase # "settle"
    BY DEF PublishBegin, Idle
  <2>3. PublishCurrent \/ PublishDrafts \/ PublishBaseline => pub'.phase # "settle"
    BY <1>1 DEF PublishCurrent, PublishDrafts, PublishBaseline
  <2>4. PublishError \/ PublishStoreFails => pub'.phase # "settle"
    BY DEF PublishError, PublishStoreFails, Idle
  <2>5. pub'.phase # "settle"
    BY <1>5, <2>2, <2>3, <2>4
  <2> QED
    BY <1>2, <2>1, <2>5
<1>6. ASSUME NEW result \in {"confirmed", "unknown"}, Verify(result)
      PROVE  TraceInv'
  <2>1. pub'.result # "rejected" /\ UNCHANGED <<outbox, posted, wire, sends>>
    BY <1>1, <1>6 DEF Verify, remote, ghosts
  <2> QED
    BY <1>2, <2>1
<1>7. CASE PublishMoved
  <2>1. pub.op \in Ops /\ outbox[pub.op].state = "prepared"
    BY <1>7 DEF PublishMoved, TypeOK, Calls, CallState, Checking
  <2>2. NoTrace(pub.op)
    BY <2>1 DEF TraceInv, Calls, NotSentYet
  <2>3. \A x \in Ops : x # pub.op => outbox'[x] = outbox[x]
    BY <1>7, <2>1 DEF PublishMoved, WriteTransition, TypeOK
  <2>4. pub'.phase # "settle" /\ UNCHANGED <<posted, wire, sends>>
    BY <1>7 DEF PublishMoved, Idle, remote, ghosts
  <2> QED
    BY <2>2, <2>3, <2>4, TraceFrame
<1>8. CASE PublishInFlight
  <2>1. \A x \in Ops : outbox'[x].state = "rejected" => outbox[x].state = "rejected"
    BY <1>8 DEF PublishInFlight, WriteTransition, TypeOK, Entry
  <2>2. pub'.phase # "settle" /\ UNCHANGED <<posted, wire, sends>>
    BY <1>1, <1>8 DEF PublishInFlight, remote, ghosts
  <2> QED
    BY <1>2, <2>1, <2>2
<1>9. CASE PublishSettle
  <2>1. pub.op \in Ops /\ pub.phase = "settle"
    BY <1>9 DEF PublishSettle, TypeOK
  <2>2. \A x \in Ops : x # pub.op => outbox'[x] = outbox[x]
    BY <1>9, <2>1 DEF PublishSettle, WriteTransition, TypeOK
  <2>3. outbox'[pub.op].state = pub.result
    BY <1>9, <2>1 DEF PublishSettle, WriteTransition, TypeOK, Entry
  <2>4. outbox'[pub.op].state = "rejected" => NoTrace(pub.op)
    BY <2>1, <2>3 DEF TraceInv
  <2>5. pub'.phase # "settle" /\ UNCHANGED <<posted, wire, sends>>
    BY <1>9 DEF PublishSettle, Idle, remote, ghosts
  <2> QED
    BY <2>2, <2>4, <2>5, TraceFrame
<1>10. CASE SendRejected
  <2>1. pub.op \in Ops /\ sends[pub.op] = 0
    BY <1>10 DEF SendRejected, TypeOK, Calls, NotSentYet
  <2>2. pub'.op = pub.op /\ NoTrace(pub.op)
    BY <1>1, <1>10, <2>1 DEF SendRejected, TraceInv
  <2>3. \A x \in Ops : sends'[x] = 0 => sends[x] = 0
    BY <1>10, <2>1 DEF SendRejected, Sent, TypeOK
  <2> QED
    BY <1>10, <2>2, <2>3, TraceFrame DEF SendRejected, remote
<1>11. CASE SendUnknown
  <2>1. pub.op \in Ops /\ sends[pub.op] = 0 /\ outbox[pub.op].state = "in_flight"
    BY <1>11 DEF SendUnknown, TypeOK, Calls, NotSentYet, CallState, Sending
  <2>2. pub'.result # "rejected"
    BY <1>1, <1>11 DEF SendUnknown
  <2> QED
    BY <1>11, <2>1, <2>2, TraceWire DEF SendUnknown, Sent
<1>12. CASE SendAccepted
  <2>1. pub.op \in Ops /\ sends[pub.op] = 0 /\ outbox[pub.op].state = "in_flight"
    BY <1>12 DEF SendAccepted, TypeOK, Calls, NotSentYet, CallState, Sending
  <2>2. NoTrace(pub.op)
    BY <2>1 DEF TraceInv
  <2>3. sends'[pub.op] # 0 /\ \A x \in Ops : sends'[x] = 0 => sends[x] = 0
    BY <1>12, <2>1 DEF SendAccepted, Sent, TypeOK
  <2>4. pub'.phase = "verify"
    BY <1>1, <1>12 DEF SendAccepted
  <2>5. wire' = wire \ {pub.op}
    BY <1>12, <2>2 DEF SendAccepted, NoTrace
  <2>6. /\ Post(pub.op, pub.op) /\ outbox' = outbox
    BY <1>12 DEF SendAccepted
  <2> QED
    BY <2>1, <2>2, <2>3, <2>4, <2>5, <2>6, TracePost DEF NoTrace
<1>13. ASSUME NEW o \in Ops, Land(o)
       PROVE  TraceInv'
  <2>1. o \in wire /\ Post(o, o) /\ wire' = wire \ {o} /\ UNCHANGED <<outbox, pub, sends>>
    BY <1>13 DEF Land, ghosts
  <2>2. ~NoTrace(o) /\ \A r \in posted : r.by # o
    BY <2>1, NoOpAssumption DEF NoTrace, TraceInv
  <2>3. outbox[o].state # "rejected" /\ sends[o] # 0
    BY <2>2 DEF TraceInv
  <2>4. pub.phase = "settle" /\ pub.result = "rejected" => pub.op # o /\ NoTrace(pub.op)
    BY <2>2 DEF TraceInv
  <2> QED
    BY <2>1, <2>2, <2>3, <2>4, TracePost
<1>14. ASSUME NEW o \in Ops, OutsideReview(o)
       PROVE  TraceInv'
  <2>1. PICK n : n = ReviewOf(o, NoOp)
    OBVIOUS
  <2>2. n.by = NoOp /\ posted' = posted \cup {n} /\ UNCHANGED <<outbox, pub, wire, sends>>
    BY <1>14, <2>1 DEF OutsideReview, Post, ReviewOf, ghosts
  <2>3. \A x \in Ops : NoTrace(x) => NoTrace(x)'
    BY <2>2, NoOpAssumption DEF NoTrace
  <2>4. pub.phase = "settle" => pub.op \in Ops
    BY DEF TypeOK
  <2>5. pub'.phase = "settle" /\ pub'.result = "rejected" => NoTrace(pub.op)'
    BY <2>2, <2>4, NoOpAssumption DEF TraceInv, NoTrace
  <2>6. \A x \in Ops : sends'[x] = 0 \/ outbox'[x].state = "rejected" => NoTrace(x)'
    BY <2>2, <2>3 DEF TraceInv
  <2> QED
    BY <2>2, <2>5, <2>6 DEF TraceInv
<1>15. ASSUME NEW id \in Ids, ReconcileCommit(id)
       PROVE  TraceInv'
  <2>1. \A x \in Ops : outbox'[x].state = "rejected" => outbox[x].state = "rejected"
    BY <1>15 DEF ReconcileCommit, WriteTransition, TypeOK, Entry
  <2> QED
    BY <1>2, <1>15, <2>1 DEF ReconcileCommit, remote, ghosts
<1>16. ASSUME NEW o \in Ops, Recover(o)
       PROVE  TraceInv'
  <2>1. \A x \in Ops : outbox'[x].state = "rejected" => outbox[x].state = "rejected"
    BY <1>16 DEF Recover, WriteTransition, TypeOK, Entry
  <2> QED
    BY <1>2, <1>16, <2>1 DEF Recover, remote, ghosts
<1>17. CASE Crash
  <2>1. pub'.phase = "idle" /\ UNCHANGED <<outbox, posted>>
    BY <1>17 DEF Crash, Idle
  <2>2. CASE InSend
    <3>1. pub.op \in Ops /\ sends[pub.op] = 0 /\ outbox[pub.op].state = "in_flight"
      BY <2>2 DEF InSend, TypeOK, Calls, NotSentYet, CallState, Sending
    <3>2. wire' = wire \cup {pub.op} /\ sends' = [sends EXCEPT ![pub.op] = @ + 1]
      BY <1>17, <2>2 DEF Crash
    <3> QED
      BY <2>1, <3>1, <3>2, TraceWire
  <2>3. CASE ~InSend
    BY <1>2, <1>17, <2>1, <2>3 DEF Crash
  <2> QED
    BY <2>2, <2>3
<1> QED
  BY <1>3, <1>4, <1>5, <1>6, <1>7, <1>8, <1>9, <1>10, <1>11, <1>12, <1>13, <1>14, <1>15,
     <1>16, <1>17 DEF Next, Reader, Publish, Reconcile, Opening, Service

\* The traces of every operation are in order in every reachable state.
LEMMA TraceInvariant == Spec => []TraceInv
<1>1. Init => TraceInv
  BY DEF Init, TraceInv, NoTrace, Idle
<1>2. PublicationInv /\ TraceInv /\ [Next]_vars => TraceInv'
  BY TraceStep DEF PublicationInv, Calls
<1> QED
  BY <1>1, <1>2, PublicationInvariant, PTL DEF Spec

\* A refused or merely prepared operation left nothing on the service and nothing is on
\* its way there, whatever answers were lost: its texts can be sent again.
THEOREM RejectedIsNeverPosted == Spec => []RejectedNeverPosted
<1>1. PublicationInv /\ TraceInv => RejectedNeverPosted
  BY DEF PublicationInv, NotSentYet, TraceInv, NoTrace, RejectedNeverPosted
<1> QED
  BY <1>1, PublicationInvariant, TraceInvariant, PTL

-----------------------------------------------------------------------------
(* What a Confirmed row and a published draft rest on.                     *)

\* Every step gives an id at most once and leaves the baselines behind it.
LEMMA IdStep ==
  ASSUME TypeOK, Calls, IdInv, [Next]_vars
  PROVE  IdInv'
<1> DEFINE Rows == /\ \A o \in Ops : outbox[o].state = "prepared" => outbox[o].remote_id = 0
                   /\ \A o \in Ops : outbox[o].remote_id \notin outbox[o].baseline
           Call == /\ \A i \in pub.baseline : i < nextId
                   /\ pub.phase \in Checking \cup {"send"} => pub.id = 0
                   /\ pub.id \notin pub.baseline
           Found == rec.phase = "commit" => rec.found \cap outbox[rec.op].baseline = {}
           Given == \A r \in posted : r.id < nextId
<1>a. IdInv <=> Given /\ Call /\ Rows /\ Found
  BY DEF IdInv
<1>b. IdInv' <=> Given' /\ Call' /\ Rows' /\ Found'
  BY DEF IdInv
<1>1. pub \in [phase : Phases, op : Ops \cup {NoOp}, baseline : SUBSET Ids, id : 0 .. MaxReviews,
               result : {"absent", "confirmed", "rejected", "unknown"}]
  BY DEF TypeOK
<1>2. nextId \in Nat /\ \A i \in Ids : i \in Nat /\ i # 0
  BY BoundsAssumption DEF TypeOK, Ids
<1>3. ASSUME UNCHANGED <<outbox, rec, posted, nextId>>, Call' PROVE IdInv'
  BY <1>3, <1>a, <1>b
<1>4. CASE UNCHANGED <<outbox, rec, posted, nextId, pub>>
  BY <1>4, <1>a, <1>b
<1>5. CASE \/ \E d \in Drafts, v \in Versions :
                \E s \in {Opened(p) : p \in Prs} \cup {drafts[d].snap} : SaveDraft(d, s, v)
           \/ \E d \in Drafts : DiscardDraft(d)
           \/ Open \/ OpenDone
           \/ \E p \in Prs, t \in PrState : RemoteMoves(p, t)
           \/ \E a \in Accounts : AccountSwitch(a)
           \/ UNCHANGED vars
  BY <1>4, <1>5 DEF SaveDraft, DiscardDraft, Open, OpenDone, RemoteMoves, AccountSwitch, vars,
                    remote, ghosts
<1>6. ASSUME NEW o \in Ops, NEW s, NEW n, NEW cs, Prepare(o, s, n, cs)
      PROVE  IdInv'
  <2>1. /\ outbox[o].state = "absent" /\ outbox'[o].remote_id = 0 /\ outbox'[o].baseline = {}
        /\ \A x \in Ops \ {o} : outbox'[x] = outbox[x]
        /\ UNCHANGED <<pub, rec, posted, nextId>>
    BY <1>6 DEF Prepare, TypeOK, remote
  <2>2. rec.phase # "idle" => rec.op \in Ops /\ rec.op # o
    BY <2>1 DEF TypeOK, Calls, CallState
  <2>3. Rows'
    BY <2>1, <1>a
  <2>4. Found'
    BY <2>1, <2>2, <1>a
  <2> QED
    BY <1>a, <1>b, <2>1, <2>3, <2>4
<1>7. ASSUME NEW o \in Ops, PublishBegin(o)
      PROVE  IdInv'
  <2>1. pub'.baseline = {} /\ pub'.id = 0
    BY <1>7 DEF PublishBegin, Idle
  <2> QED
    BY <1>3, <1>7, <2>1 DEF PublishBegin, remote
<1>8. CASE PublishError \/ PublishStoreFails
  <2>1. pub'.baseline = {} /\ pub'.id = 0
    BY <1>8 DEF PublishError, PublishStoreFails, Idle
  <2> QED
    BY <1>3, <1>8, <2>1 DEF PublishError, PublishStoreFails, remote
<1>9. CASE \/ PublishCurrent \/ PublishDrafts \/ SendRejected \/ SendUnknown
           \/ \E result \in {"confirmed", "unknown"} : Verify(result)
  <2>1. UNCHANGED <<outbox, rec, posted, nextId>>
    BY <1>9 DEF PublishCurrent, PublishDrafts, SendRejected, SendUnknown, Verify, remote
  <2>2. /\ pub'.baseline = pub.baseline /\ pub'.id = pub.id
        /\ pub'.phase \in Checking => pub.phase \in Checking
        /\ pub'.phase # "send"
    BY <1>1, <1>9 DEF PublishCurrent, PublishDrafts, SendRejected, SendUnknown, Verify, Checking
  <2> QED
    BY <1>3, <1>a, <2>1, <2>2
<1>10. CASE PublishBaseline
  <2>1. pub.id = 0 /\ pub'.id = 0 /\ pub'.baseline = ReviewIds(outbox[pub.op].snap)
    BY <1>1, <1>10, <1>a DEF PublishBaseline, Checking
  <2>2. \A i \in ReviewIds(outbox[pub.op].snap) : i \in Ids /\ i < nextId
    BY <1>a DEF ReviewIds, TypeOK, Review
  <2>3. UNCHANGED <<outbox, rec, posted, nextId>>
    BY <1>10 DEF PublishBaseline, remote
  <2>4. Call'
    BY <1>2, <2>1, <2>2, <2>3
  <2> QED
    BY <1>3, <2>3, <2>4
<1>11. CASE PublishInFlight
  <2>1. /\ pub.op \in Ops /\ outbox[pub.op].state = "prepared" /\ pub.id = 0
        /\ pub.baseline \in SUBSET Ids
    BY <1>11, <1>a DEF PublishInFlight, TypeOK, Calls, CallState, Checking
  <2>2. /\ outbox'[pub.op].state = "in_flight" /\ outbox'[pub.op].baseline = pub.baseline
        /\ outbox'[pub.op].remote_id = outbox[pub.op].remote_id
        /\ \A x \in Ops \ {pub.op} : outbox'[x] = outbox[x]
    BY <1>11, <2>1 DEF PublishInFlight, WriteTransition, TypeOK, Entry
  <2>3. UNCHANGED <<rec, posted, nextId>> /\ pub'.id = pub.id /\ pub'.baseline = pub.baseline
    BY <1>1, <1>11 DEF PublishInFlight, remote
  <2>4. rec.phase # "idle" => rec.op \in Ops /\ rec.op # pub.op
    BY <2>1 DEF TypeOK, Calls, CallState
  <2>5. Rows'
    BY <1>2, <1>a, <2>1, <2>2
  <2>6. Found'
    BY <1>a, <2>2, <2>3, <2>4
  <2> QED
    BY <1>a, <1>b, <2>1, <2>3, <2>5, <2>6
<1>12. CASE SendAccepted
  <2>1. pub.op \in Ops
    BY <1>12 DEF SendAccepted, TypeOK
  <2>2. /\ posted' = posted \cup {ReviewOf(pub.op, pub.op)} /\ nextId' = nextId + 1
        /\ UNCHANGED <<outbox, rec>>
    BY <1>12 DEF SendAccepted, Post
  <2>3. pub'.phase = "verify" /\ pub'.id = nextId /\ pub'.baseline = pub.baseline
    BY <1>1, <1>12 DEF SendAccepted
  <2>4. ReviewOf(pub.op, pub.op).id = nextId
    BY DEF ReviewOf
  <2>5. \A r \in posted : r.id \in Nat
    BY <1>2 DEF TypeOK, Review
  <2>6. Given'
    BY <1>2, <1>a, <2>2, <2>4, <2>5
  <2>7. Call'
    BY <1>1, <1>2, <1>a, <2>2, <2>3 DEF Checking
  <2> QED
    BY <1>a, <1>b, <2>2, <2>6, <2>7
<1>13. ASSUME NEW o \in Ops, NEW w, Post(o, w), UNCHANGED <<outbox, rec, pub>>
       PROVE  IdInv'
  <2>1. posted' = posted \cup {ReviewOf(o, w)} /\ nextId' = nextId + 1
    BY <1>13 DEF Post
  <2>2. ReviewOf(o, w).id = nextId
    BY DEF ReviewOf
  <2>3. \A r \in posted : r.id \in Nat
    BY <1>2 DEF TypeOK, Review
  <2>4. Given'
    BY <1>2, <1>a, <2>1, <2>2, <2>3
  <2>5. \A i \in pub.baseline : i \in Nat
    BY <1>1, <1>2
  <2>6. Call'
    BY <1>2, <1>13, <1>a, <2>1, <2>5
  <2> QED
    BY <1>13, <1>a, <1>b, <2>1, <2>4, <2>6
<1>14. CASE \E o \in Ops : Land(o) \/ OutsideReview(o)
  BY <1>13, <1>14 DEF Land, OutsideReview
<1>15. ASSUME NEW o \in Ops, outbox'[o].remote_id \notin outbox'[o].baseline,
              outbox'[o].state # "prepared", rec'.phase # "idle" => rec.op # o,
              \A x \in Ops \ {o} : outbox'[x] = outbox[x], rec' = rec \/ rec'.phase = "idle",
              Call', UNCHANGED <<posted, nextId>>
       PROVE  IdInv'
  <2>1. Rows'
    BY <1>15, <1>a
  <2>2. Found'
    BY <1>15, <1>a DEF TypeOK
  <2> QED
    BY <1>15, <1>a, <1>b, <2>1, <2>2
<1>16. CASE PublishMoved \/ PublishSettle
  <2>1. pub.op \in Ops /\ outbox[pub.op].state # "unknown"
    BY <1>16 DEF PublishMoved, PublishSettle, TypeOK, Calls, CallState, Checking, Sending
  <2>2. rec.phase # "idle" => rec.op # pub.op
    BY <2>1 DEF Calls, CallState
  <2>3. pub'.baseline = {} /\ pub'.id = 0 /\ UNCHANGED <<rec, posted, nextId>>
    BY <1>16 DEF PublishMoved, PublishSettle, Idle, remote
  <2>4. \A x \in Ops \ {pub.op} : outbox'[x] = outbox[x]
    BY <1>16 DEF PublishMoved, PublishSettle, WriteTransition, TypeOK
  <2>5. outbox'[pub.op].remote_id \notin outbox'[pub.op].baseline
    <3>1. CASE PublishMoved
      BY <1>a, <2>1, <3>1 DEF PublishMoved, WriteTransition, TypeOK, Entry
    <3>2. CASE PublishSettle
      BY <1>a, <2>1, <3>2 DEF PublishSettle, WriteTransition, TypeOK, Entry
    <3> QED
      BY <1>16, <3>1, <3>2
  <2>6. outbox'[pub.op].state # "prepared"
    <3>1. CASE PublishMoved
      BY <2>1, <3>1 DEF PublishMoved, WriteTransition, TypeOK, Entry
    <3>2. CASE PublishSettle
      BY <2>1, <3>2 DEF PublishSettle, WriteTransition, TypeOK, Entry
    <3> QED
      BY <1>16, <3>1, <3>2
  <2> QED
    BY <1>15, <2>1, <2>2, <2>3, <2>4, <2>5, <2>6
<1>17. ASSUME NEW o \in Ops, Recover(o)
       PROVE  IdInv'
  <2>1. outbox'[o].remote_id = outbox[o].remote_id /\ outbox'[o].baseline = outbox[o].baseline
        /\ outbox'[o].state = "unknown" /\ \A x \in Ops \ {o} : outbox'[x] = outbox[x]
    BY <1>17 DEF Recover, WriteTransition, TypeOK, Entry
  <2>2. rec.phase = "idle" /\ UNCHANGED <<rec, pub, posted, nextId>>
    BY <1>17 DEF Recover, Calls, CallState, remote
  <2> QED
    BY <1>15, <1>a, <2>1, <2>2
<1>18. ASSUME NEW id \in Ids, ReconcileCommit(id)
       PROVE  IdInv'
  <2>1. rec.op \in Ops /\ id \in rec.found /\ rec.phase = "commit"
    BY <1>18 DEF ReconcileCommit, TypeOK
  <2>2. /\ outbox'[rec.op].remote_id = id /\ outbox'[rec.op].baseline = outbox[rec.op].baseline
        /\ outbox'[rec.op].state = "confirmed" /\ \A x \in Ops \ {rec.op} : outbox'[x] = outbox[x]
    BY <1>18, <2>1 DEF ReconcileCommit, WriteTransition, TypeOK, Entry
  <2>3. rec'.phase = "idle" /\ UNCHANGED <<pub, posted, nextId>>
    BY <1>18 DEF ReconcileCommit, RecIdle, remote
  <2>4. id \notin outbox[rec.op].baseline
    BY <1>a, <2>1
  <2> QED
    BY <1>15, <1>a, <2>1, <2>2, <2>3, <2>4
<1>19. ASSUME UNCHANGED <<outbox, pub, posted, nextId>>, Found'
       PROVE  IdInv'
  BY <1>19, <1>a, <1>b
<1>20. CASE ReconcileReturn \/ \E o \in Ops : ReconcileBegin(o)
  <2>1. ReconcileReturn => rec'.phase # "commit"
    BY DEF ReconcileReturn, RecIdle
  <2>2. (\E o \in Ops : ReconcileBegin(o)) => rec'.phase # "commit"
    BY DEF ReconcileBegin, RecIdle
  <2> QED
    BY <1>19, <1>20, <2>1, <2>2 DEF ReconcileReturn, ReconcileBegin, remote
<1>21. CASE ReconcileList
  <2>1. rec.op \in Ops /\ rec'.op = rec.op /\ rec'.found = MatchingIds(rec.op)
    BY <1>21 DEF ReconcileList, TypeOK
  <2>2. \A i \in MatchingIds(rec.op) : i \notin outbox[rec.op].baseline
    BY <1>a, <2>1 DEF MatchingIds, Candidate
  <2> QED
    BY <1>19, <1>21, <2>1, <2>2 DEF ReconcileList, remote
<1>22. CASE Crash
  <2>1. pub'.baseline = {} /\ pub'.id = 0 /\ rec'.phase = "idle"
    BY <1>22 DEF Crash, Idle, RecIdle
  <2> QED
    BY <1>22, <1>a, <1>b, <2>1 DEF Crash
<1> QED
  BY <1>5, <1>6, <1>7, <1>8, <1>9, <1>10, <1>11, <1>12, <1>14, <1>16, <1>17, <1>18, <1>20,
     <1>21, <1>22 DEF Next, Reader, Publish, Reconcile, Opening, Service

\* A review that shows an operation's content goes on showing it.
LEMMA ShownKept ==
  ASSUME TypeOK, RowStep, posted \subseteq posted',
         NEW o \in Ops, outbox[o].state # "absent", NEW id, Shown(o, id)
  PROVE  \E r \in posted' : r.id = id /\ MatchesReview(o, r)'
BY DEF Shown, MatchesReview, RowStep

\* Every step keeps the evidence of confirmed rows and of the calls about to confirm.
LEMMA EvidenceStep ==
  ASSUME TypeOK, Calls, EvidenceInv, [Next]_vars
  PROVE  EvidenceInv'
<1> DEFINE Confirmed == \A o \in Ops : outbox[o].state = "confirmed" => Shown(o, outbox[o].remote_id)
           Accepted == pub.phase = "verify" \/ (pub.phase = "settle" /\ pub.result = "confirmed")
           Found == rec.phase = "commit" => \A id \in rec.found : Shown(rec.op, id)
<1>a. EvidenceInv <=> Confirmed /\ (Accepted => Shown(pub.op, pub.id)) /\ Found
  BY DEF EvidenceInv
<1>b. EvidenceInv' <=> Confirmed' /\ (Accepted' => Shown(pub.op, pub.id)') /\ Found'
  BY DEF EvidenceInv
<1>1. pub \in [phase : Phases, op : Ops \cup {NoOp}, baseline : SUBSET Ids, id : 0 .. MaxReviews,
               result : {"absent", "confirmed", "rejected", "unknown"}]
  BY DEF TypeOK
<1>2. posted \subseteq posted'
  BY DEF Next, Reader, SaveDraft, DiscardDraft, Prepare, PublishBegin, ReconcileBegin, Publish,
         PublishCurrent, PublishMoved, PublishDrafts, PublishBaseline, PublishInFlight,
         PublishError, SendAccepted, SendRejected, SendUnknown, Verify, PublishSettle,
         PublishStoreFails, Reconcile, ReconcileList, ReconcileCommit, ReconcileReturn, Crash,
         Open, Opening, OpenDone, Recover, Service, Land, OutsideReview, RemoteMoves,
         AccountSwitch, Post, vars, remote
<1>3. ASSUME NEW o \in Ops, outbox[o].state # "absent", NEW id, Shown(o, id)
      PROVE  Shown(o, id)'
  BY <1>2, <1>3, RowsKept, ShownKept DEF Shown
<1>4. Accepted => pub.op \in Ops /\ outbox[pub.op].state = "in_flight"
  BY DEF TypeOK, Calls, CallState, Sending
<1>5. rec.phase = "commit" => rec.op \in Ops /\ outbox[rec.op].state = "unknown"
  BY DEF TypeOK, Calls, CallState
<1>6. ASSUME NEW o \in Ops, outbox[o].state = "confirmed"
      PROVE  Shown(o, outbox[o].remote_id)'
  <2>1. outbox'[o] = outbox[o]
    BY <1>6, RowsKept DEF RowStep, CanTransition
  <2>2. \E r \in posted' : r.id = outbox[o].remote_id /\ MatchesReview(o, r)'
    BY <1>2, <1>6, <1>a, RowsKept, ShownKept
  <2> QED
    BY <2>1, <2>2 DEF Shown
<1>7. pub' = pub /\ Accepted => Shown(pub.op, pub.id)'
  <2> SUFFICES ASSUME pub' = pub, Accepted PROVE Shown(pub.op, pub.id)'
    OBVIOUS
  <2>1. \E r \in posted' : r.id = pub.id /\ MatchesReview(pub.op, r)'
    <3>1. \A o \in Ops : o = pub.op => \E r \in posted' : r.id = pub.id /\ MatchesReview(o, r)'
      BY <1>2, <1>4, <1>a, RowsKept, ShownKept
    <3>2. pub.op \in Ops
      BY <1>4
    <3> QED BY <3>1, <3>2 DEF MatchesReview
  <2> QED
    BY <2>1 DEF Shown, MatchesReview

<1>8. ASSUME \A o \in Ops : outbox'[o].state = "confirmed" => outbox[o].state = "confirmed"
      PROVE  Confirmed'
  BY <1>6, <1>8
<1>9. rec' = rec => Found'
  <2> SUFFICES ASSUME rec' = rec, rec.phase = "commit", NEW id \in rec.found
               PROVE  Shown(rec.op, id)'
    OBVIOUS
  <2>1. rec.op \in Ops /\ Shown(rec.op, id)
    BY <1>5, <1>a
  <2>2. \A o \in Ops : o = rec.op => \E r \in posted' : r.id = id /\ MatchesReview(o, r)'
    BY <1>2, <1>5, <2>1, RowsKept, ShownKept
  <2> QED
    BY <2>1, <2>2 DEF Shown, MatchesReview
<1>10. ASSUME UNCHANGED <<pub, rec>>,
              \A o \in Ops : outbox'[o].state = "confirmed" => outbox[o].state = "confirmed"
       PROVE  EvidenceInv'
  BY <1>7, <1>8, <1>9, <1>10, <1>b
<1>11. CASE \/ \E d \in Drafts, v \in Versions :
                 \E s \in {Opened(p) : p \in Prs} \cup {drafts[d].snap} : SaveDraft(d, s, v)
            \/ \E d \in Drafts : DiscardDraft(d)
            \/ Open \/ OpenDone \/ Service \/ UNCHANGED vars
  BY <1>10, <1>11 DEF SaveDraft, DiscardDraft, Open, OpenDone, Service, Land, OutsideReview,
                      RemoteMoves, AccountSwitch, vars, remote, ghosts
<1>12. ASSUME NEW o \in Ops, NEW s, NEW n, NEW cs, Prepare(o, s, n, cs)
       PROVE  EvidenceInv'
  BY <1>10, <1>12 DEF Prepare, TypeOK
<1>13. ASSUME NEW o \in Ops, Recover(o)
       PROVE  EvidenceInv'
  <2>1. \A x \in Ops : outbox'[x].state = "confirmed" => outbox[x].state = "confirmed"
    BY <1>13 DEF Recover, WriteTransition, TypeOK, Entry
  <2> QED
    BY <1>10, <1>13, <2>1 DEF Recover
<1>14. ASSUME ~Accepted', rec' = rec,
              \A o \in Ops : outbox'[o].state = "confirmed" => outbox[o].state = "confirmed"
       PROVE  EvidenceInv'
  BY <1>8, <1>9, <1>14, <1>b
<1>15. ASSUME NEW o \in Ops, PublishBegin(o)
       PROVE  EvidenceInv'
  <2>1. pub'.phase = "current"
    BY <1>15 DEF PublishBegin, Idle
  <2> QED
    BY <1>14, <1>15, <2>1 DEF PublishBegin
<1>16. CASE PublishError \/ PublishStoreFails
  <2>1. pub'.phase = "idle"
    BY <1>16 DEF PublishError, PublishStoreFails, Idle
  <2> QED
    BY <1>14, <1>16, <2>1 DEF PublishError, PublishStoreFails
<1>17. CASE PublishCurrent \/ PublishDrafts \/ PublishBaseline \/ SendRejected \/ SendUnknown
  <2>1. ~Accepted'
    BY <1>1, <1>17 DEF PublishCurrent, PublishDrafts, PublishBaseline, SendRejected, SendUnknown
  <2> QED
    BY <1>14, <1>17, <2>1
       DEF PublishCurrent, PublishDrafts, PublishBaseline, SendRejected, SendUnknown
<1>18. CASE PublishMoved
  <2>1. \A x \in Ops : outbox'[x].state = "confirmed" => outbox[x].state = "confirmed"
    BY <1>18 DEF PublishMoved, WriteTransition, TypeOK, Entry
  <2>2. pub'.phase = "idle"
    BY <1>18 DEF PublishMoved, Idle
  <2> QED
    BY <1>14, <1>18, <2>1, <2>2 DEF PublishMoved
<1>19. CASE PublishInFlight
  <2>1. \A x \in Ops : outbox'[x].state = "confirmed" => outbox[x].state = "confirmed"
    BY <1>19 DEF PublishInFlight, WriteTransition, TypeOK, Entry
  <2>2. pub'.phase = "send"
    BY <1>1, <1>19 DEF PublishInFlight
  <2> QED
    BY <1>14, <1>19, <2>1, <2>2 DEF PublishInFlight
<1>20. CASE SendAccepted
  <2>1. pub.op \in Ops /\ pub'.op = pub.op /\ pub'.id = nextId /\ UNCHANGED <<outbox, rec>>
    BY <1>1, <1>20 DEF SendAccepted, TypeOK
  <2>2. PICK r : r = ReviewOf(pub.op, pub.op)
    OBVIOUS
  <2>3. r \in posted'
    BY <1>20, <2>2 DEF SendAccepted, Post
  <2>4. r.id = nextId /\ MatchesReview(pub.op, r)
    BY <2>2 DEF ReviewOf, MatchesReview
  <2>5. Shown(pub.op, pub.id)'
    BY <2>1, <2>3, <2>4 DEF Shown, MatchesReview
  <2> QED
    BY <1>8, <1>9, <1>b, <2>1, <2>5
<1>21. ASSUME NEW result \in {"confirmed", "unknown"}, Verify(result)
       PROVE  EvidenceInv'
  <2>1. /\ pub.phase = "verify" /\ pub'.op = pub.op /\ pub'.id = pub.id
        /\ UNCHANGED <<outbox, rec>>
    BY <1>1, <1>21 DEF Verify
  <2>2. \E r \in posted : r.id = pub.id /\ MatchesReview(pub.op, r)
    BY <1>a, <2>1 DEF Shown
  <2>3. Shown(pub.op, pub.id)'
    BY <1>2, <2>1, <2>2 DEF Shown, MatchesReview
  <2> QED
    BY <1>8, <1>9, <1>b, <2>1, <2>3
<1>22. CASE PublishSettle
  <2>1. pub.op \in Ops /\ pub.phase = "settle"
    BY <1>22 DEF PublishSettle, TypeOK
  <2>2. /\ outbox'[pub.op].state = pub.result /\ outbox'[pub.op].remote_id = pub.id
        /\ \A x \in Ops \ {pub.op} : outbox'[x] = outbox[x]
    BY <1>22, <2>1 DEF PublishSettle, WriteTransition, TypeOK, Entry
  <2>3. pub'.phase = "idle" /\ rec' = rec /\ posted' = posted
    BY <1>22 DEF PublishSettle, Idle, remote
  <2>4. pub.result = "confirmed" => Shown(pub.op, outbox'[pub.op].remote_id)
    BY <1>a, <2>1, <2>2
  <2>5. \A o \in Ops : o = pub.op /\ pub.result = "confirmed" => Shown(o, outbox[o].remote_id)'
    <3>1. outbox[pub.op].state # "absent"
      BY <2>1 DEF Calls, CallState, Sending
    <3>2. ASSUME NEW o \in Ops, o = pub.op, pub.result = "confirmed"
          PROVE  \E r \in posted' : r.id = outbox'[o].remote_id /\ MatchesReview(o, r)'
      BY <1>2, <2>4, <3>1, <3>2, RowsKept, ShownKept
    <3> QED
      BY <3>2 DEF Shown
  <2>6. Confirmed'
    BY <1>6, <2>1, <2>2, <2>5
  <2> QED
    BY <1>9, <1>b, <2>3, <2>6
<1>23. ASSUME NEW id \in Ids, ReconcileCommit(id)
       PROVE  EvidenceInv'
  <2>1. rec.op \in Ops /\ rec.phase = "commit" /\ id \in rec.found
    BY <1>23 DEF ReconcileCommit, TypeOK
  <2>2. /\ outbox'[rec.op].remote_id = id
        /\ \A x \in Ops \ {rec.op} : outbox'[x] = outbox[x]
    BY <1>23, <2>1 DEF ReconcileCommit, WriteTransition, TypeOK, Entry
  <2>3. rec'.phase = "idle" /\ pub' = pub /\ posted' = posted
    BY <1>23 DEF ReconcileCommit, RecIdle, remote
  <2>4. Shown(rec.op, id) /\ outbox[rec.op].state # "absent"
    BY <1>5, <1>a, <2>1
  <2>5. \A o \in Ops : o = rec.op => Shown(o, outbox[o].remote_id)'
    <3>1. ASSUME NEW o \in Ops, o = rec.op
          PROVE  \E r \in posted' : r.id = outbox'[o].remote_id /\ MatchesReview(o, r)'
      BY <1>2, <2>2, <2>4, <3>1, RowsKept, ShownKept
    <3> QED
      BY <3>1 DEF Shown
  <2>6. Confirmed'
    BY <1>6, <2>1, <2>2, <2>5
  <2> QED
    BY <1>7, <1>b, <2>3, <2>6
<1>24. ASSUME UNCHANGED <<outbox, pub>>, Found'
       PROVE  EvidenceInv'
  BY <1>7, <1>8, <1>24, <1>b
<1>25. CASE ReconcileReturn \/ \E o \in Ops : ReconcileBegin(o)
  <2>1. ReconcileReturn => rec'.phase # "commit"
    BY DEF ReconcileReturn, RecIdle
  <2>2. (\E o \in Ops : ReconcileBegin(o)) => rec'.phase # "commit"
    BY DEF ReconcileBegin, RecIdle
  <2> QED
    BY <1>24, <1>25, <2>1, <2>2 DEF ReconcileReturn, ReconcileBegin
<1>26. CASE ReconcileList
  <2>1. /\ rec.op \in Ops /\ rec'.op = rec.op /\ rec'.found = MatchingIds(rec.op)
        /\ UNCHANGED <<outbox, posted, pub>>
    BY <1>26 DEF ReconcileList, TypeOK, remote
  <2>2. \A id \in MatchingIds(rec.op) : \E r \in posted : r.id = id /\ MatchesReview(rec.op, r)
    BY DEF MatchingIds
  <2>3. Found'
    BY <2>1, <2>2 DEF Shown, MatchesReview
  <2> QED
    BY <1>24, <2>1, <2>3
<1>27. CASE Crash
  <2>1. pub'.phase = "idle" /\ rec'.phase = "idle" /\ outbox' = outbox
    BY <1>27 DEF Crash, Idle, RecIdle
  <2> QED
    BY <1>8, <1>b, <2>1
<1> QED
  BY <1>11, <1>12, <1>13, <1>15, <1>16, <1>17, <1>18, <1>19, <1>20, <1>21, <1>22, <1>23,
     <1>25, <1>26, <1>27 DEF Next, Reader, Publish, Reconcile, Opening

\* A Confirmed row names a review that the service has, with the row's content, which
\* was not there when the request was made: whoever confirms it, publish or reconcile.
THEOREM ConfirmedRestsOnEvidence == Spec => []ConfirmedHasEvidence
<1>1. Init => IdInv /\ EvidenceInv
  BY DEF Init, IdInv, EvidenceInv, Idle, RecIdle, Checking
<1>2. PublicationInv /\ IdInv /\ [Next]_vars => IdInv'
  BY IdStep DEF PublicationInv, Calls
<1>3. PublicationInv /\ EvidenceInv /\ [Next]_vars => EvidenceInv'
  BY EvidenceStep DEF PublicationInv, Calls
<1>4. IdInv /\ EvidenceInv => ConfirmedHasEvidence
  BY DEF IdInv, EvidenceInv, Shown, ConfirmedHasEvidence
<1> QED
  BY <1>1, <1>2, <1>3, <1>4, PublicationInvariant, PTL DEF Spec

-----------------------------------------------------------------------------
(* What a draft row says about its text, and where a text may be.          *)

\* A transition leaves the texts alone; it marks the confirmed ones, and nothing else.
LEMMA TransitionDrafts ==
  ASSUME TypeOK, NEW o \in Ops, NEW e \in Entry, WriteTransition(o, e), NEW d \in Drafts
  PROVE  /\ drafts'[d].version = drafts[d].version /\ drafts'[d].snap = drafts[d].snap
         /\ drafts[d].published => drafts'[d].published
         /\ drafts'[d].published =>
              \/ drafts[d].published
              \/ e.state = "confirmed" /\ <<d, drafts[d].version>> \in e.comments
         /\ e.state = "confirmed" /\ drafts[d].version > 0 /\ <<d, drafts[d].version>> \in e.comments
              => drafts'[d].published
<1>1. drafts[d] \in Row
  BY DEF TypeOK
<1>2. CASE e.state = "confirmed"
  <2>1. drafts'[d] = IF drafts[d].version > 0 /\ <<d, drafts[d].version>> \in e.comments
                       THEN [drafts[d] EXCEPT !.published = TRUE] ELSE drafts[d]
    BY <1>2 DEF WriteTransition, MarkPublished
  <2> QED
    BY <1>1, <1>2, <2>1 DEF Row
<1>3. CASE e.state # "confirmed"
  BY <1>3 DEF WriteTransition
<1> QED
  BY <1>2, <1>3

\* A confirmed row stays, and a published draft loses its mark only with its row.
LEMMA PublishedStep ==
  ASSUME TypeOK, PublishedHasEvidence, [Next]_vars
  PROVE  PublishedHasEvidence'
<1>1. ASSUME NEW o \in Ops, outbox[o].state = "confirmed"
      PROVE  outbox'[o] = outbox[o]
  BY <1>1, RowsKept DEF RowStep, CanTransition
<1>2. ASSUME NEW d \in Drafts, drafts[d].version > 0, drafts[d].published,
             drafts'[d].version = drafts[d].version
      PROVE  \E o \in Ops : outbox'[o].state = "confirmed" /\ <<d, drafts'[d].version>> \in outbox'[o].comments
  BY <1>1, <1>2 DEF PublishedHasEvidence
<1>3. CASE UNCHANGED <<outbox, drafts, discarded>>
  BY <1>3 DEF PublishedHasEvidence
<1>4. ASSUME NEW d \in Drafts, NEW v \in Versions, NEW s, SaveDraft(d, s, v)
      PROVE  PublishedHasEvidence'
  <2>1. ~drafts'[d].published /\ \A x \in Drafts \ {d} : drafts'[x] = drafts[x]
    BY <1>4 DEF SaveDraft, TypeOK
  <2> QED
    BY <1>2, <2>1 DEF PublishedHasEvidence
<1>5. ASSUME NEW d \in Drafts, DiscardDraft(d)
      PROVE  PublishedHasEvidence'
  <2>1. drafts'[d].version = 0 /\ \A x \in Drafts \ {d} : drafts'[x] = drafts[x]
    BY <1>5 DEF DiscardDraft, TypeOK, Row
  <2> QED
    BY <1>2, <2>1 DEF PublishedHasEvidence
<1>6. ASSUME NEW o \in Ops, NEW s, NEW n, NEW cs, Prepare(o, s, n, cs)
      PROVE  PublishedHasEvidence'
  BY <1>2, <1>6 DEF Prepare, PublishedHasEvidence
<1>7. ASSUME NEW o \in Ops, NEW e \in Entry, Transition(o, e)
      PROVE  PublishedHasEvidence'
  <2>1. WriteTransition(o, e)
    BY <1>7 DEF Transition
  <2>2. outbox'[o] = e
    BY <2>1 DEF WriteTransition, TypeOK
  <2>3. ASSUME NEW d \in Drafts, drafts'[d].version > 0, drafts'[d].published
        PROVE  \E x \in Ops : outbox'[x].state = "confirmed" /\ <<d, drafts'[d].version>> \in outbox'[x].comments
    <3>1. CASE drafts[d].published
      BY <1>2, <2>1, <2>3, <3>1, TransitionDrafts
    <3>2. CASE ~drafts[d].published
      BY <2>1, <2>2, <2>3, <3>2, TransitionDrafts
    <3> QED
      BY <3>1, <3>2
  <2> QED
    BY <2>3 DEF PublishedHasEvidence
<1> QED
  BY <1>3, <1>4, <1>5, <1>6, <1>7, StoreStep

\* A draft is marked published only for a text that a Confirmed operation holds: never
\* for an edit made while the older text was sent.
THEOREM PublishedRestsOnConfirmation == Spec => []PublishedHasEvidence
<1>1. Init => PublishedHasEvidence
  BY DEF Init, PublishedHasEvidence
<1>2. TypeOK /\ PublishedHasEvidence /\ [Next]_vars => PublishedHasEvidence'
  BY PublishedStep
<1> QED
  BY <1>1, <1>2, TypeCorrect, PTL DEF Spec

\* The texts of a row, in the words of TextInv.
TextsHeld(o) ==
  outbox[o].state # "absent" =>
    \A c \in outbox[o].comments : c[1] \notin discarded =>
      /\ c[2] =< drafts[c[1]].version
      /\ drafts[c[1]].snap = outbox[o].snap
      /\ outbox[o].state = "confirmed" /\ c[2] = drafts[c[1]].version => drafts[c[1]].published

\* Every step keeps what the rows say about the stored texts.
LEMMA TextsStep ==
  ASSUME TypeOK, \A o \in Ops : TextsHeld(o), [Next]_vars
  PROVE  \A o \in Ops : TextsHeld(o)'
<1>1. \A o \in Ops : outbox[o] \in Entry /\ outbox[o].comments \subseteq Texts
  BY DEF TypeOK, Entry
<1>2. \A c \in Texts : c[1] \in Drafts /\ c[2] \in Nat /\ c[2] > 0 /\ c = <<c[1], c[2]>>
  BY BoundsAssumption DEF Texts, Versions
<1>3. \A d \in Drafts : drafts[d] \in Row /\ drafts[d].version \in Nat
  BY BoundsAssumption DEF TypeOK, Row
<1>4. CASE UNCHANGED <<outbox, drafts, discarded>>
  BY <1>4 DEF TextsHeld
<1>5. ASSUME NEW d \in Drafts, NEW v \in Versions, NEW s, SaveDraft(d, s, v), NEW o \in Ops
      PROVE  TextsHeld(o)'
  <2>1. UNCHANGED <<outbox, discarded>> /\ \A x \in Drafts \ {d} : drafts'[x] = drafts[x]
    BY <1>5 DEF SaveDraft, ghosts, TypeOK
  <2>2. /\ drafts'[d].version = v /\ drafts'[d].snap = s /\ v \in Nat /\ drafts[d].version =< v
        /\ drafts[d].version > 0 => s = drafts[d].snap /\ ~drafts[d].published
    BY <1>5, BoundsAssumption DEF SaveDraft, TypeOK, Versions
  <2>3. ASSUME NEW c \in outbox[o].comments, c[1] \notin discarded, outbox[o].state # "absent"
        PROVE  /\ c[2] =< drafts'[c[1]].version
               /\ drafts'[c[1]].snap = outbox[o].snap
               /\ outbox[o].state = "confirmed" /\ c[2] = drafts'[c[1]].version => drafts'[c[1]].published
    <3>1. /\ c[2] =< drafts[c[1]].version /\ drafts[c[1]].snap = outbox[o].snap
          /\ outbox[o].state = "confirmed" /\ c[2] = drafts[c[1]].version => drafts[c[1]].published
      BY <2>3 DEF TextsHeld
    <3>2. c \in Texts /\ c[1] \in Drafts /\ c[2] \in Nat /\ c[2] > 0
      BY <1>1, <1>2
    <3>3. CASE c[1] = d
      <4>1. drafts[d].version > 0
        BY <1>3, <3>1, <3>2, <3>3
      <4> QED
        BY <1>3, <2>2, <3>1, <3>2, <3>3, <4>1
    <3>4. CASE c[1] # d
      BY <2>1, <3>1, <3>2, <3>4
    <3> QED
      BY <3>3, <3>4
  <2> QED
    BY <2>1, <2>3 DEF TextsHeld
<1>6. ASSUME NEW d \in Drafts, DiscardDraft(d), NEW o \in Ops
      PROVE  TextsHeld(o)'
  <2>1. /\ outbox' = outbox /\ discarded' = discarded \cup {d}
        /\ \A x \in Drafts \ {d} : drafts'[x] = drafts[x]
    BY <1>6 DEF DiscardDraft, TypeOK
  <2> QED
    BY <1>1, <1>2, <2>1 DEF TextsHeld
<1>7. ASSUME NEW o \in Ops, NEW s, NEW n, NEW cs, Prepare(o, s, n, cs), NEW x \in Ops
      PROVE  TextsHeld(x)'
  <2>1. UNCHANGED <<drafts, discarded>> /\ cs \subseteq Previewable(s)
    BY <1>7 DEF Prepare, ghosts
  <2>2. CASE x = o
    <3>1. outbox'[x].state = "prepared" /\ outbox'[x].snap = s /\ outbox'[x].comments = cs
      BY <1>7, <2>2 DEF Prepare, TypeOK
    <3>2. \A c \in cs : c[2] = drafts[c[1]].version /\ drafts[c[1]].snap = s /\ c[2] \in Nat
      BY <1>3, <2>1 DEF Previewable
    <3> QED
      BY <2>1, <3>1, <3>2 DEF TextsHeld
  <2>3. CASE x # o
    <3>1. outbox'[x] = outbox[x]
      BY <1>7, <2>3 DEF Prepare, TypeOK
    <3> QED
      BY <2>1, <3>1 DEF TextsHeld
  <2> QED
    BY <2>2, <2>3
<1>8. ASSUME NEW o \in Ops, NEW e \in Entry, Transition(o, e), NEW x \in Ops
      PROVE  TextsHeld(x)'
  <2>1. WriteTransition(o, e) /\ discarded' = discarded
    BY <1>8 DEF Transition
  <2>2. /\ outbox'[o] = e /\ outbox[o].state # "absent" /\ outbox[o].state # "confirmed"
        /\ \A y \in Ops \ {o} : outbox'[y] = outbox[y]
        /\ e.snap = outbox[o].snap /\ e.comments = outbox[o].comments
    BY <1>8 DEF Transition, WriteTransition, CanTransition, TypeOK
  <2>3. ASSUME outbox'[x].state # "absent", NEW c \in outbox'[x].comments, c[1] \notin discarded
        PROVE  /\ c[2] =< drafts'[c[1]].version
               /\ drafts'[c[1]].snap = outbox'[x].snap
               /\ outbox'[x].state = "confirmed" /\ c[2] = drafts'[c[1]].version => drafts'[c[1]].published
    <3>1. outbox[x].state # "absent" /\ c \in outbox[x].comments /\ outbox'[x].snap = outbox[x].snap
      BY <2>2, <2>3
    <3>2. /\ c[2] =< drafts[c[1]].version /\ drafts[c[1]].snap = outbox[x].snap
          /\ outbox[x].state = "confirmed" /\ c[2] = drafts[c[1]].version => drafts[c[1]].published
      BY <2>3, <3>1 DEF TextsHeld
    <3>3. c[1] \in Drafts /\ c[2] \in Nat /\ c[2] > 0 /\ c = <<c[1], c[2]>>
      BY <1>1, <1>2, <3>1
    <3>4. /\ drafts'[c[1]].version = drafts[c[1]].version /\ drafts'[c[1]].snap = drafts[c[1]].snap
          /\ drafts[c[1]].published => drafts'[c[1]].published
          /\ e.state = "confirmed" /\ drafts[c[1]].version > 0
               /\ <<c[1], drafts[c[1]].version>> \in e.comments => drafts'[c[1]].published
      BY <2>1, <3>3, TransitionDrafts
    <3>5. ASSUME outbox'[x].state = "confirmed", c[2] = drafts'[c[1]].version
          PROVE  drafts'[c[1]].published
      <4>1. CASE x = o
        BY <2>2, <3>1, <3>3, <3>4, <3>5, <4>1
      <4>2. CASE x # o
        BY <2>2, <3>2, <3>4, <3>5, <4>2
      <4> QED
        BY <4>1, <4>2
    <3> QED
      BY <3>1, <3>2, <3>4, <3>5
  <2> QED
    BY <2>1, <2>3 DEF TextsHeld
<1> QED
  BY <1>4, <1>5, <1>6, <1>7, <1>8, StoreStep

\* While the gate holds, texts that are saved as previewed are in no other operation that
\* may have reached the service: one still unresolved would have stopped publish at the
\* gate, and a confirmed one has marked them.
LEMMA SavedIsApart ==
  ASSUME TypeOK, Calls, \A o \in Ops : TextsHeld(o), pub.phase = "drafts",
         SavedAsPreviewed(outbox[pub.op]), NEW x \in Ops \ {pub.op}, Out(x)
  PROVE  Apart(x, pub.op)
<1> SUFFICES ASSUME NEW c \in outbox[x].comments \cap outbox[pub.op].comments,
                    c[1] \notin discarded
             PROVE  FALSE
  BY DEF Apart
<1>1. pub.op \in Ops
  BY DEF TypeOK
<1>2. /\ drafts[c[1]].version = c[2] /\ drafts[c[1]].snap = outbox[pub.op].snap
      /\ ~drafts[c[1]].published
  BY DEF SavedAsPreviewed
<1>3. /\ drafts[c[1]].snap = outbox[x].snap
      /\ outbox[x].state = "confirmed" => drafts[c[1]].published
  BY <1>2 DEF TextsHeld, Out
<1>4. ~IsUnresolved(outbox[x])
  BY <1>1, <1>2, <1>3 DEF Calls, GateHolds, NoOtherUnresolved, SamePr
<1> QED
  BY <1>2, <1>3, <1>4 DEF Out, IsUnresolved

\* Every step keeps the texts of operations apart.
LEMMA TextStep ==
  ASSUME TypeOK, Calls, TextInv, [Next]_vars
  PROVE  TextInv'
<1> DEFINE Gate == pub.phase \in {"baseline", "recheck"} =>
                     \A x \in Ops \ {pub.op} : Out(x) => Apart(x, pub.op)
           Pairs == \A x, y \in Ops : x # y /\ Out(x) /\ Out(y) => Apart(x, y)
<1>a. TextInv <=> (\A o \in Ops : TextsHeld(o)) /\ Gate /\ Pairs
  BY DEF TextInv, TextsHeld
<1>b. TextInv' <=> (\A o \in Ops : TextsHeld(o)') /\ Gate' /\ Pairs'
  BY DEF TextInv, TextsHeld
<1>1. pub \in [phase : Phases, op : Ops \cup {NoOp}, baseline : SUBSET Ids, id : 0 .. MaxReviews,
               result : {"absent", "confirmed", "rejected", "unknown"}]
  BY DEF TypeOK
<1>2. discarded \subseteq discarded'
  BY StoreStep DEF SaveDraft, DiscardDraft, Prepare, Transition, ghosts
<1>3. ASSUME NEW x \in Ops, NEW y \in Ops, outbox[x].state # "absent", outbox[y].state # "absent",
             Apart(x, y)
      PROVE  Apart(x, y)'
  BY <1>2, <1>3, RowsKept DEF RowStep, Apart
<1>4. ASSUME NEW x \in Ops, Out(x)'
      PROVE  Out(x) \/ (PublishInFlight /\ x = pub.op)
  <2>1. CASE outbox' = outbox
    BY <1>4, <2>1 DEF Out
  <2>2. ASSUME NEW o \in Ops, NEW s, NEW n, NEW cs, Prepare(o, s, n, cs)
        PROVE  Out(x)
    BY <1>4, <2>2 DEF Prepare, TypeOK, Out
  <2>3. ASSUME NEW o \in Ops, NEW e \in Entry, Transition(o, e)
        PROVE  Out(x) \/ (PublishInFlight /\ x = pub.op)
    <3>1. /\ outbox'[o] = e /\ \A y \in Ops \ {o} : outbox'[y] = outbox[y]
          /\ CanTransition(outbox[o].state, e.state)
          /\ e.state = "in_flight" => PublishInFlight /\ o = pub.op
      BY <2>3 DEF Transition, WriteTransition, TypeOK
    <3> QED
      BY <1>4, <3>1 DEF Out, CanTransition
  <2> QED
    BY <2>1, <2>2, <2>3, StoreStep DEF SaveDraft, DiscardDraft
<1>5. pub.phase \in Checking => pub.op \in Ops /\ outbox[pub.op].state = "prepared"
  BY DEF TypeOK, Calls, CallState, Checking
<1>6. Pairs'
  <2> SUFFICES ASSUME NEW x \in Ops, NEW y \in Ops, x # y, Out(x)', Out(y)'
               PROVE  Apart(x, y)'
    OBVIOUS
  <2>1. CASE Out(x) /\ Out(y)
    BY <1>3, <1>a, <2>1 DEF Out
  <2>2. PublishInFlight => pub.phase = "recheck" /\ pub.op \in Ops /\ outbox[pub.op].state = "prepared"
    BY <1>5 DEF PublishInFlight, Checking
  <2>3. ASSUME NEW z \in Ops, NEW w \in Ops, z # w, Out(z), w = pub.op, PublishInFlight
        PROVE  Apart(z, w)'
    <3>1. Apart(z, w)
      BY <1>a, <2>2, <2>3
    <3> QED
      BY <1>3, <2>2, <2>3, <3>1 DEF Out
  <2>4. Apart(y, x)' => Apart(x, y)'
    BY DEF Apart
  <2> QED
    BY <1>4, <2>1, <2>3, <2>4
<1>7. Gate'
  <2> SUFFICES ASSUME pub'.phase \in {"baseline", "recheck"},
                      NEW x \in Ops, x # pub'.op, Out(x)'
               PROVE  Apart(x, pub.op)'
    OBVIOUS
  <2>1. \/ pub' = pub
        \/ PublishDrafts /\ pub'.op = pub.op
        \/ PublishBaseline /\ pub'.op = pub.op
    <3>1. \A o \in Ops : ~PublishBegin(o)
      BY DEF PublishBegin, Idle
    <3>2. ~PublishMoved /\ ~PublishError /\ ~PublishSettle /\ ~PublishStoreFails /\ ~Crash
      BY DEF PublishMoved, PublishError, PublishSettle, PublishStoreFails, Crash, Idle
    <3>3. /\ ~PublishCurrent /\ ~PublishInFlight /\ ~SendAccepted /\ ~SendRejected /\ ~SendUnknown
          /\ \A result \in {"confirmed", "unknown"} : ~Verify(result)
      BY <1>1 DEF PublishCurrent, PublishInFlight, SendAccepted, SendRejected, SendUnknown, Verify
    <3>4. (PublishDrafts \/ PublishBaseline) => pub'.op = pub.op
      BY <1>1 DEF PublishDrafts, PublishBaseline
    <3> QED
      BY <3>1, <3>2, <3>3, <3>4
         DEF Next, Reader, SaveDraft, DiscardDraft, Prepare, ReconcileBegin, Publish, Reconcile,
             ReconcileList, ReconcileCommit, ReconcileReturn, Open, Opening, OpenDone, Recover,
             Service, Land, OutsideReview, RemoteMoves, AccountSwitch, vars
  <2>2. pub'.op = pub.op /\ pub.phase \in {"drafts", "baseline", "recheck"}
    BY <2>1 DEF PublishDrafts, PublishBaseline
  <2>3. pub.op \in Ops /\ outbox[pub.op].state = "prepared"
    BY <1>5, <2>2 DEF Checking
  <2>4. Out(x)
    BY <1>4, <2>2
  <2>5. Apart(x, pub.op)
    <3>1. CASE PublishDrafts
      BY <1>a, <2>2, <2>4, <3>1, SavedIsApart DEF PublishDrafts
    <3>2. CASE pub.phase \in {"baseline", "recheck"}
      BY <1>a, <2>2, <2>4, <3>2
    <3> QED
      BY <2>1, <3>1, <3>2 DEF PublishBaseline
  <2>6. \A o \in Ops : o = pub.op => Apart(x, o)'
    BY <1>3, <2>3, <2>4, <2>5 DEF Out
  <2> QED
    BY <2>2, <2>3, <2>6 DEF Apart
<1> QED
  BY <1>6, <1>7, <1>a, <1>b, TextsStep

\* A text reaches the service at most once: two reviews that diffz posted share no text
\* of a draft that the reader left in place.
THEOREM NoTextTwice == Spec => []NoDoublePublication
<1>1. Init => TextInv
  BY DEF Init, TextInv, Out, Idle
<1>2. PublicationInv /\ TextInv /\ [Next]_vars => TextInv'
  BY TextStep DEF PublicationInv, Calls
<1>3. PublicationInv /\ TraceInv /\ TextInv => NoDoublePublication
  <2> SUFFICES ASSUME PublicationInv, TraceInv, TextInv,
                      NEW r \in posted, NEW q \in posted, r # q, r.by # NoOp, q.by # NoOp,
                      NEW c \in r.comments \cap q.comments
               PROVE  c[1] \in discarded
    BY DEF NoDoublePublication
  <2>1. TypeOK /\ Calls
    BY DEF PublicationInv, Calls
  <2>2. /\ r.by \in Ops /\ outbox[r.by].state \notin {"absent", "prepared", "rejected"}
        /\ q.by \in Ops /\ outbox[q.by].state \notin {"absent", "prepared", "rejected"}
    BY <2>1, TracesAreRows
  <2>3. Out(r.by) /\ Out(q.by)
    BY <2>1, <2>2 DEF Out, TypeOK, Entry, States
  <2>4. r.by # q.by /\ r.comments = outbox[r.by].comments /\ q.comments = outbox[q.by].comments
    BY DEF TraceInv
  <2>5. Apart(r.by, q.by)
    BY <2>2, <2>3, <2>4 DEF TextInv
  <2> QED
    BY <2>4, <2>5 DEF Apart
<1> QED
  BY <1>1, <1>2, <1>3, PublicationInvariant, TraceInvariant, PTL DEF Spec
=============================================================================
