----------------------------- MODULE Workbench -----------------------------
(***************************************************************************)
(* The comment drafts of one review in the window: typing, the debounced   *)
(* save of each draft and its acknowledgement, discarding, preview and     *)
(* publication, switching to another review and back, and closing the      *)
(* window (ui/src/app/review_flow.rs, ui/src/app/source.rs, ui/src/app.rs) *)
(* against the draft rows of the store (adapters/src/store.rs).            *)
(*                                                                         *)
(* The window's handlers run one at a time.  A save, a discard, a preview  *)
(* and a publication each run on a background thread and answer to the     *)
(* window later.  A new save of a draft drops the previous task of that    *)
(* draft: a job that was not started is cancelled, one that a thread has   *)
(* begun runs to its end and nobody reads its answer (an orphan).          *)
(***************************************************************************)
EXTENDS Integers

CONSTANTS
  Drafts,      \* draft ids of the review
  MaxEdits,    \* bound: how often one draft is edited
  MaxLoads     \* bound: how often a source is opened

ASSUME BoundsAssumption == MaxEdits \in Nat /\ MaxLoads \in Nat

VARIABLES
  active,     \* the window shows this review (and not another one)
  mem,        \* the drafts in the window
  row,        \* the drafts in the store; version 0 is no row
  task,       \* the save task of each draft
  orphans,    \* saves a thread has begun whose task was dropped
  disc,       \* the discard of each draft that is under way
  busy,       \* Workbench::busy
  preparing,  \* the texts Services::prepare is freezing
  prepared,   \* the preview shown
  pub,        \* the publication under way
  sent,       \* texts that were in a request to the service
  doubt,      \* those of the operation whose outcome is unknown
  load,       \* the source being opened, with the draft rows it read
  loads,
  typed,      \* the newest version of each draft the reader typed
  discarded,  \* drafts whose row the reader had deleted
  closed      \* the window is gone

vars == <<active, mem, row, task, orphans, disc, busy, preparing, prepared, pub, sent,
          doubt, load, loads, typed, discarded, closed>>

saving == <<task, orphans>>
publishing == <<preparing, pub, sent, doubt>>
opening == <<active, load, loads>>
ghosts == <<typed, discarded>>

-----------------------------------------------------------------------------
\* A text of a draft: its version and its body.  A body is the number of the edit
\* that wrote it, so one version has two bodies when the window went back.
Texts == [draft : Drafts, version : Nat, body : Nat]

Text(d, x) == [draft |-> d, version |-> x.version, body |-> x.body]

NoDraft == [here |-> FALSE, version |-> 0, body |-> 0, saved |-> 0, published |-> FALSE]
NoTask == [stage |-> "none", version |-> 0, body |-> 0]
NoDiscard == [stage |-> "none", version |-> 0]
NoPrepare == [stage |-> "none", texts |-> {}, ok |-> FALSE]
NoPublish == [stage |-> "none", texts |-> {}, confirmed |-> FALSE]
NoPreview == [shown |-> FALSE, texts |-> {}]
NoRow == [version |-> 0, body |-> 0, published |-> FALSE]
NoLoad == [stage |-> "none", same |-> FALSE, rows |-> [d \in Drafts |-> NoRow]]

IsSaved(d) == mem[d].version = mem[d].saved

\* mutant: asks for pending timers and forgets a save that failed
UnsavedPending == active /\ \E d \in Drafts : mem[d].here /\ task[d].stage = "timer"

\* Workbench::unsaved, for the drafts.
Unsaved == active /\ \E d \in Drafts : mem[d].here /\ ~IsSaved(d)

\* The view counts as well.  Installing a review schedules a save of its view after
\* 250 ms, so that a timer of 180 ms that was running before has fired once the
\* window has nothing unsaved.
Outstanding == Unsaved \/ \E d \in Drafts : task[d].stage = "timer"

-----------------------------------------------------------------------------
(* Store::save_draft, Store::discard_draft and the marks of a confirmation. *)

\* mutant: the order of two saves is not looked at
SavesAnyVersion(x) == ~row[x.draft].published

\* An older version, or another body for the stored version, is refused.
Saves(x) ==
  LET r == row[x.draft] IN
    /\ ~r.published
    /\ r.version =< x.version
    /\ r.version = x.version => r.body = x.body

StoreSave(x) ==
  row' = [row EXCEPT ![x.draft] = [version |-> x.version, body |-> x.body, published |-> FALSE]]

Discards(d, v) == row[d].version = v /\ ~row[d].published

Stored(texts) == \A x \in texts : Text(x.draft, row[x.draft]) = x /\ ~row[x.draft].published

MarkRows(texts) ==
  [d \in Drafts |->
     IF Text(d, row[d]) \in texts THEN [row[d] EXCEPT !.published = TRUE] ELSE row[d]]

-----------------------------------------------------------------------------
(* Typing and saving.                                                      *)

\* save_tasks.insert drops the task that was there.
Orphaned(d) ==
  IF task[d].stage = "store" THEN {{}, {Text(d, task[d])}} ELSE {{}}

Timer(x) == [stage |-> "timer", version |-> x.version, body |-> x.body]

\* Workbench::edit_draft with a body that differs: a draft is created on the
\* first text; the composer is read-only while busy or once it is published.
EditDraft(d) ==
  /\ active /\ ~busy
  /\ mem[d].here \/ (typed[d] = 0 /\ d \notin discarded)
  /\ ~mem[d].published
  /\ typed[d] < MaxEdits
  /\ typed' = [typed EXCEPT ![d] = @ + 1]
  /\ mem' = [mem EXCEPT ![d].here = TRUE, ![d].version = @ + 1, ![d].body = typed[d] + 1]
  /\ prepared' = NoPreview
  /\ task' = [task EXCEPT ![d] = Timer(mem'[d])]
  /\ \E x \in Orphaned(d) : orphans' = orphans \cup x
  /\ UNCHANGED <<row, disc, busy, discarded, publishing, opening>>

\* Workbench::retry_saves, for one unsaved draft.
RetrySave(d) ==
  /\ active
  /\ mem[d].here /\ ~IsSaved(d)
  /\ task' = [task EXCEPT ![d] = Timer(mem[d])]
  /\ \E x \in Orphaned(d) : orphans' = orphans \cup x
  /\ UNCHANGED <<mem, row, disc, busy, prepared, publishing, opening, ghosts>>

\* 180 ms later the save is handed to a thread.
SaveTimer(d) ==
  /\ task[d].stage = "timer"
  /\ task' = [task EXCEPT ![d].stage = "store"]
  /\ UNCHANGED <<mem, row, orphans, disc, busy, prepared, publishing, opening, ghosts>>

\* Services::save_draft runs, or the store refuses the write or fails.
SaveRuns(d) ==
  /\ task[d].stage = "store"
  /\ \/ /\ Saves(Text(d, task[d]))
        /\ StoreSave(Text(d, task[d]))
        /\ task' = [task EXCEPT ![d].stage = "saved"]
     \/ /\ task' = [task EXCEPT ![d].stage = "failed"]
        /\ UNCHANGED row
  /\ UNCHANGED <<mem, orphans, disc, busy, prepared, publishing, opening, ghosts>>

OrphanRuns(x) ==
  /\ orphans' = orphans \ {x}
  /\ IF Saves(x) THEN StoreSave(x) ELSE UNCHANGED row
  /\ UNCHANGED <<mem, task, disc, busy, prepared, publishing, opening, ghosts>>

\* acknowledge_save: only a version the draft has reached, and never backwards.
AcknowledgeSave(m, v) ==
  IF v =< m.version /\ v > m.saved THEN [m EXCEPT !.saved = v] ELSE m

\* mutant: a failed save is acknowledged too
SaveAnswerAny(d) ==
  /\ task[d].stage \in {"saved", "failed"}
  /\ task' = [task EXCEPT ![d] = NoTask]
  /\ mem' = IF active /\ mem[d].here
              THEN [mem EXCEPT ![d] = AcknowledgeSave(@, task[d].version)] ELSE mem
  /\ UNCHANGED <<row, orphans, disc, busy, prepared, publishing, opening, ghosts>>

\* The answer to the window; it is ignored when another review is shown.
SaveAnswer(d) ==
  /\ task[d].stage \in {"saved", "failed"}
  /\ task' = [task EXCEPT ![d] = NoTask]
  /\ mem' = IF task[d].stage = "saved" /\ active /\ mem[d].here
              THEN [mem EXCEPT ![d] = AcknowledgeSave(@, task[d].version)] ELSE mem
  /\ UNCHANGED <<row, orphans, disc, busy, prepared, publishing, opening, ghosts>>

-----------------------------------------------------------------------------
(* Discarding.  The button is shown for any unpublished draft, also while  *)
(* the window is busy; the first click only asks.                          *)

DiscardSelected(d) ==
  /\ active
  /\ mem[d].here /\ ~mem[d].published
  /\ IsSaved(d)
  /\ disc[d].stage = "none"
  /\ busy' = TRUE
  /\ disc' = [disc EXCEPT ![d].stage = "store", ![d].version = mem[d].version]
  /\ UNCHANGED <<mem, row, prepared, saving, publishing, opening, ghosts>>

DiscardRuns(d) ==
  /\ disc[d].stage = "store"
  /\ \/ /\ Discards(d, disc[d].version)
        /\ row' = [row EXCEPT ![d] = NoRow]
        /\ disc' = [disc EXCEPT ![d].stage = "ok"]
        /\ discarded' = discarded \cup {d}
     \/ /\ disc' = [disc EXCEPT ![d].stage = "err"]
        /\ UNCHANGED <<row, discarded>>
  /\ UNCHANGED <<mem, busy, prepared, typed, saving, publishing, opening>>

\* mutant: a refused discard leaves the window busy
DiscardAnswerStuck(d) ==
  /\ disc[d].stage \in {"ok", "err"}
  /\ busy' = (disc[d].stage = "err" /\ busy)
  /\ disc' = [disc EXCEPT ![d] = NoDiscard]
  /\ IF disc[d].stage = "ok"
       THEN /\ mem' = [mem EXCEPT ![d] = NoDraft]
            /\ prepared' = NoPreview
       ELSE UNCHANGED <<mem, prepared>>
  /\ UNCHANGED <<row, saving, publishing, opening, ghosts>>

DiscardAnswer(d) ==
  /\ disc[d].stage \in {"ok", "err"}
  /\ busy' = FALSE
  /\ disc' = [disc EXCEPT ![d] = NoDiscard]
  /\ IF disc[d].stage = "ok"
       THEN /\ mem' = [mem EXCEPT ![d] = NoDraft]
            /\ prepared' = NoPreview
       ELSE UNCHANGED <<mem, prepared>>
  /\ UNCHANGED <<row, saving, publishing, opening, ghosts>>

-----------------------------------------------------------------------------
(* Preview and publication.                                                *)

\* The unpublished drafts of the window, each with its text.
Selected == {Text(d, mem[d]) : d \in {e \in Drafts : mem[e].here /\ ~mem[e].published}}

\* Workbench::prepare; it is refused unless every draft it takes is saved.
PrepareClick ==
  /\ active /\ ~busy
  /\ preparing.stage = "none"
  /\ busy' = TRUE
  /\ prepared' = NoPreview
  /\ preparing' = [stage |-> "run", texts |-> Selected,
                   ok |-> \A x \in Selected : IsSaved(x.draft)]
  /\ UNCHANGED <<mem, row, disc, pub, sent, doubt, saving, opening, ghosts>>

PrepareAnswer ==
  /\ preparing.stage = "run"
  /\ busy' = FALSE
  /\ \/ preparing.ok /\ prepared' = [shown |-> TRUE, texts |-> preparing.texts]
     \/ UNCHANGED prepared
  /\ preparing' = NoPrepare
  /\ UNCHANGED <<mem, row, disc, pub, sent, doubt, saving, opening, ghosts>>

\* Workbench::publish.
PublishClick ==
  /\ ~busy
  /\ prepared.shown
  /\ pub.stage = "none"
  /\ busy' = TRUE
  /\ pub' = [stage |-> "check", texts |-> prepared.texts, confirmed |-> FALSE]
  /\ UNCHANGED <<mem, row, disc, preparing, prepared, sent, doubt, saving, opening, ghosts>>

\* Outbox::publish: no operation of this review is unresolved, and the stored
\* texts are compared with the preview before they are sent.
PublishSends ==
  /\ pub.stage = "check"
  /\ doubt = {} /\ Stored(pub.texts)
  /\ sent' = sent \cup pub.texts
  /\ pub' = [pub EXCEPT !.stage = "wait"]
  /\ UNCHANGED <<mem, row, disc, busy, preparing, prepared, doubt, saving, opening, ghosts>>

\* Outbox::publish ends: confirmed, refused, or with an unknown outcome.
PublishEnds(confirmed) ==
  /\ pub.stage \in (IF confirmed THEN {"wait"} ELSE {"wait", "check"})
  /\ row' = IF confirmed THEN MarkRows(pub.texts) ELSE row
  /\ doubt' \in (IF pub.stage = "wait" /\ ~confirmed THEN {{}, pub.texts} ELSE {doubt})
  /\ pub' = [pub EXCEPT !.stage = "answer", !.confirmed = confirmed,
                      !.texts = IF confirmed THEN @ ELSE {}]
  /\ UNCHANGED <<mem, disc, busy, preparing, prepared, sent, saving, opening, ghosts>>

\* Workbench::reconcile, of the operation in doubt.
ReconcileClick ==
  /\ ~busy
  /\ doubt # {} /\ pub.stage = "none"
  /\ busy' = TRUE
  /\ pub' = [stage |-> "look", texts |-> doubt, confirmed |-> FALSE]
  /\ UNCHANGED <<mem, row, disc, preparing, prepared, sent, doubt, saving, opening, ghosts>>

\* Outbox::reconcile: the service shows the review, or it stays in doubt.
ReconcileEnds(confirmed) ==
  /\ pub.stage = "look"
  /\ row' = IF confirmed THEN MarkRows(pub.texts) ELSE row
  /\ doubt' = IF confirmed THEN {} ELSE doubt
  /\ pub' = [pub EXCEPT !.stage = "looked", !.confirmed = confirmed,
                      !.texts = IF confirmed THEN @ ELSE {}]
  /\ UNCHANGED <<mem, disc, busy, preparing, prepared, sent, saving, opening, ghosts>>

\* mutant: the version is not compared
MarkMemoryById(texts) ==
  [d \in Drafts |->
     IF mem[d].here /\ \E x \in texts : x.draft = d
       THEN [mem[d] EXCEPT !.published = TRUE] ELSE mem[d]]

\* mark_confirmed_drafts_published.
MarkMemory(texts) ==
  [d \in Drafts |->
     IF mem[d].here /\ \E x \in texts : x.draft = d /\ x.version = mem[d].version
       THEN [mem[d] EXCEPT !.published = TRUE] ELSE mem[d]]

PublishAnswer ==
  /\ pub.stage = "answer"
  /\ busy' = FALSE
  /\ mem' = IF pub.confirmed /\ active THEN MarkMemory(pub.texts) ELSE mem
  /\ prepared' \in (IF pub.confirmed THEN {NoPreview} ELSE {NoPreview, prepared})
  /\ pub' = NoPublish
  /\ UNCHANGED <<row, disc, preparing, sent, doubt, saving, opening, ghosts>>

\* The answer to the window; the preview is left as it is.
ReconcileAnswer ==
  /\ pub.stage = "looked"
  /\ busy' = FALSE
  /\ mem' = IF pub.confirmed /\ active THEN MarkMemory(pub.texts) ELSE mem
  /\ pub' = NoPublish
  /\ UNCHANGED <<row, disc, preparing, prepared, sent, doubt, saving, opening, ghosts>>

-----------------------------------------------------------------------------
(* Opening a source: this review again, or another one.                    *)

\* Workbench::open_pending; a load under way is superseded.
OpenPending(same) ==
  /\ ~Outstanding /\ ~busy
  /\ loads < MaxLoads
  /\ loads' = loads + 1
  /\ load' = [NoLoad EXCEPT !.stage = "read", !.same = same]
  /\ UNCHANGED <<active, mem, row, disc, busy, prepared, saving, publishing, ghosts>>

\* Services::load reads the draft rows last; those of another review play no part.
LoadReads ==
  /\ load.stage = "read"
  /\ load' = [load EXCEPT !.stage = "answer", !.rows = IF load.same THEN row ELSE @]
  /\ UNCHANGED <<active, mem, row, disc, busy, prepared, loads, saving, publishing, ghosts>>

\* The load fails, or was only a refresh: the drafts of the window stay.
LoadEndsWithout ==
  /\ load.stage # "none"
  /\ load' = NoLoad
  /\ UNCHANGED <<active, mem, row, disc, busy, prepared, loads, saving, publishing, ghosts>>

\* Workbench::install replaces what the window holds.
Install ==
  /\ load.stage = "answer"
  /\ active' = load.same
  /\ mem' = [d \in Drafts |->
       IF load.same /\ load.rows[d].version > 0
         THEN [here |-> TRUE, version |-> load.rows[d].version, body |-> load.rows[d].body,
               saved |-> load.rows[d].version, published |-> load.rows[d].published]
         ELSE NoDraft]
  /\ prepared' = NoPreview
  /\ load' = NoLoad
  /\ UNCHANGED <<row, disc, busy, loads, saving, publishing, ghosts>>

\* on_window_should_close.
Close ==
  /\ ~Outstanding /\ ~busy
  /\ closed' = TRUE
  /\ UNCHANGED <<mem, row, disc, busy, prepared, saving, publishing, opening, ghosts>>

-----------------------------------------------------------------------------
Init ==
  /\ active = TRUE
  /\ mem = [d \in Drafts |-> NoDraft]
  /\ row = [d \in Drafts |-> NoRow]
  /\ task = [d \in Drafts |-> NoTask]
  /\ orphans = {}
  /\ disc = [d \in Drafts |-> NoDiscard]
  /\ busy = FALSE
  /\ preparing = NoPrepare
  /\ prepared = NoPreview
  /\ pub = NoPublish
  /\ sent = {}
  /\ doubt = {}
  /\ load = NoLoad
  /\ loads = 0
  /\ typed = [d \in Drafts |-> 0]
  /\ discarded = {}
  /\ closed = FALSE

Background(d) ==
  \/ SaveTimer(d) \/ SaveRuns(d) \/ SaveAnswer(d)
  \/ DiscardRuns(d) \/ DiscardAnswer(d)
  \/ \E x \in orphans : x.draft = d /\ OrphanRuns(x)

Window ==
  \/ \E d \in Drafts : EditDraft(d) \/ RetrySave(d) \/ DiscardSelected(d) \/ Background(d)
  \/ PrepareClick \/ PrepareAnswer
  \/ PublishClick \/ PublishSends \/ PublishAnswer
  \/ \E c \in BOOLEAN : PublishEnds(c) \/ ReconcileEnds(c)
  \/ ReconcileClick \/ ReconcileAnswer
  \/ \E same \in BOOLEAN : OpenPending(same)
  \/ LoadReads \/ LoadEndsWithout \/ Install

Next == ~closed /\ (Close \/ (Window /\ UNCHANGED closed))

Spec == Init /\ [][Next]_vars

\* The threads run and the answers reach the window; the reader promises nothing.
Running(A) == ~closed /\ A /\ UNCHANGED closed

Fairness ==
  /\ \A d \in Drafts :
       /\ WF_vars(Running(DiscardRuns(d))) /\ WF_vars(Running(DiscardAnswer(d)))
  /\ WF_vars(Running(PrepareAnswer))
  /\ WF_vars(Running(PublishSends \/ \E c \in BOOLEAN : PublishEnds(c)))
  /\ WF_vars(Running(\E c \in BOOLEAN : ReconcileEnds(c)))
  /\ WF_vars(Running(PublishAnswer)) /\ WF_vars(Running(ReconcileAnswer))

FairSpec == Spec /\ Fairness

-----------------------------------------------------------------------------
(* Properties.                                                             *)

Draft == [here : BOOLEAN, version : Nat, body : Nat, saved : Nat, published : BOOLEAN]
Row == [version : Nat, body : Nat, published : BOOLEAN]
SaveTask == [stage : {"none", "timer", "store", "saved", "failed"}, version : Nat, body : Nat]
DiscardTask == [stage : {"none", "store", "ok", "err"}, version : Nat]
PrepareTask == [stage : {"none", "run"}, texts : SUBSET Texts, ok : BOOLEAN]
Preview == [shown : BOOLEAN, texts : SUBSET Texts]
PublishTask == [stage : {"none", "check", "wait", "answer", "look", "looked"},
                texts : SUBSET Texts, confirmed : BOOLEAN]
LoadTask == [stage : {"none", "read", "answer"}, same : BOOLEAN, rows : [Drafts -> Row]]

\* Every variable has its type.
TypeOK ==
  /\ mem \in [Drafts -> Draft]
  /\ row \in [Drafts -> Row]
  /\ task \in [Drafts -> SaveTask] /\ orphans \in SUBSET Texts
  /\ disc \in [Drafts -> DiscardTask]
  /\ preparing \in PrepareTask /\ prepared \in Preview
  /\ pub \in PublishTask /\ sent \in SUBSET Texts /\ doubt \in SUBSET Texts
  /\ load \in LoadTask
  /\ loads \in 0 .. MaxLoads
  /\ typed \in [Drafts -> 0 .. MaxEdits]
  /\ discarded \in SUBSET Drafts
  /\ active \in BOOLEAN /\ busy \in BOOLEAN /\ closed \in BOOLEAN

\* A stored text is never replaced by an older one, and a published row never
\* changes, in whatever order the threads of dropped and repeated saves run:
\* "the draft write is stale; the newer text remains stored".
StoreNeverGoesBackStep ==
  \A d \in Drafts :
    /\ row'[d].version < row[d].version => row'[d].version = 0 /\ disc[d].stage = "store"
    /\ row[d].published => row'[d] = row[d]

\* Store::save_draft refuses the older write: every step keeps to the above.
StoreNeverGoesBack == [][StoreNeverGoesBackStep]_vars

\* The stored row has the text x, or one of a later version.
Covers(r, x) == x.version < r.version \/ (x.version = r.version /\ x.body = r.body)

\* A draft the window shows as saved is in the store with that very text, or was
\* followed there by a later version: what it acknowledges is durable, whichever
\* task answered, and no other text has taken its version.
AckIsDurable ==
  \A d \in Drafts :
    mem[d].here /\ d \notin discarded /\ IsSaved(d) => Covers(row[d], mem[d])

\* When the window closes, the store has every text it was showing, or a later
\* version of it.
CloseKeepsShownText ==
  closed => \A d \in Drafts :
    mem[d].here /\ d \notin discarded => Covers(row[d], mem[d])

\* What is marked published was sent.  A row gets the mark only for the very text
\* in the request; the window marks by version, so there it is a sent text of that
\* version: a text typed while the publication ran keeps neither mark.
MarkedWasSent ==
  \A d \in Drafts :
    /\ row[d].published => Text(d, row[d]) \in sent
    /\ mem[d].here /\ mem[d].published =>
         \E x \in sent : x.draft = d /\ x.version = mem[d].version

-----------------------------------------------------------------------------
(* The inductive invariants behind the safety properties.                  *)

\* A window that shows another review holds no draft of this one.  An unsaved draft's
\* task, unless it has answered, saves the very text on screen: an edit replaces the
\* task, and what a load installs is saved.
ScreenInv ==
  \A d \in Drafts :
    /\ ~active => ~mem[d].here
    /\ mem[d].saved =< mem[d].version
    /\ mem[d].here /\ ~IsSaved(d) /\ task[d].stage # "none" => Text(d, task[d]) = Text(d, mem[d])

\* The store covers every text that was saved, wherever its copy is: in the window, in
\* an answer on its way, or in the rows a load has read.
DurableInv ==
  \A d \in Drafts : d \notin discarded =>
    /\ mem[d].here /\ IsSaved(d) => Covers(row[d], mem[d])
    /\ task[d].stage = "saved" => Covers(row[d], task[d])
    /\ load.stage = "answer" /\ load.same => Covers(row[d], load.rows[d])

\* The texts of a publication that made its request, and of one in doubt, were sent,
\* and so was every text with the mark, in the store, on screen, or in a load.
SentInv ==
  /\ pub.stage \notin {"none", "check"} => pub.texts \subseteq sent
  /\ doubt \subseteq sent
  /\ \A d \in Drafts : load.rows[d].published => Text(d, load.rows[d]) \in sent
  /\ MarkedWasSent

-----------------------------------------------------------------------------
\* The window does not stay busy.
BusyEnds == busy ~> ~busy

-----------------------------------------------------------------------------
(* Statements of the program about itself that it does not keep.           *)

\* "Close blocked: saves/publication still running": a window that closes has
\* no publication under way.
CloseWaitsForPublication == closed => pub.stage \notin {"check", "wait"}

\* "Click Confirm discard; that deletes this local draft": a discarded draft
\* does not come back.
DiscardIsFinal == \A d \in discarded : row[d].version = 0

=============================================================================
