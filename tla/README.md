# Verification of diffz

diffz is a desktop reader for code reviews. It opens a pull request, a merge
request, an Entire Change, a local Git range or a patch as a frozen snapshot,
keeps comment drafts in a local SQLite store, and publishes a review to GitHub or
GitLab. This directory holds TLA+ models of diffz, the TLC runs that check them on
small instances, and proofs checked by TLAPS for instances of any size.

All paths below are relative to `src/crates/`.

## Inventory

| Part | State | Operations | Talks to |
| --- | --- | --- | --- |
| Publication outbox (`adapters/src/outbox.rs`, `core/src/review.rs`) | outbox rows: prepared, in flight, confirmed, rejected, unknown; baseline of review ids | `publish`, `reconcile` | store, provider's writer |
| Store (`adapters/src/store.rs`) | draft rows, outbox rows, snapshots, views, recents, blame; `writer.lock` | `save_draft`, `discard_draft`, `transition`, `open` with `recover_inflight` and `prune` | SQLite |
| Readers (`adapters/src/github.rs`, `gitlab.rs`, `entire*.rs`, `local_git.rs`, `releases.rs`) | none; what they read moves meanwhile | `snapshot`, `compare`, `releases`, `blame`, `source` | `gh`, `glab`, `entire`, `git` processes |
| Writers (`github.rs`, `gitlab.rs`) | none | `current`, `reviews`, `comments`, `send` | `gh` / `glab` processes |
| Subprocess runner (`adapters/src/process.rs`) | child, three threads, output limit, deadline, cancellation | `run` | the tool, its helpers |
| Services (`adapters/src/service.rs`) | read permits, one outbox per provider; which state directory | `open`, `load`, `prepare`, `publish`, `reconcile` | all of the above |
| Window (`ui/src/app.rs`, `ui/src/app/*.rs`) | the open review, its drafts, busy flag, preview, save tasks, generation of the load under way, offered revision, view | typing, saving, discarding, preview, publication, switching, refreshing, closing | services, on background threads |
| Reading surface (`ui/src/viewport*`, `reader*`, `scrolling.rs`, `file_browser.rs`, `comment_editor*`, `core/src/scroll.rs`, `file_tree.rs`) | rows, cursor, anchor; gesture and coast; file panel; tree, filter, cursor; slash menu | scrolling, splitting, expanding, filtering, turning files | window |
| Themes and extensions (`core/src/theme.rs`, `palette.rs`, `extension.rs`, `registry.rs`, `component.rs`) | chosen theme and its files; annotators, epoch thread | apply, watch; annotate | file system, WebAssembly components |
| Patch parser, addresses (`core/src/patch.rs`, `app/src/main.rs`) | none | `parse_patch`, parsers and `launch_args` | |
| Handoff (`adapters/src/handoff.rs`, `app/src/main.rs`) | `writer.lock`, `launch.lock`, `handoff.sock`, activation token | `deliver`, `send`, `settle`, `open_or_hand_off`, `Listener::bind` / `accept`, `reply` | other diffz processes |

What is hard in this code:

* **A request whose answer is lost.** A review may have been posted, may be
  posted later, or never; on GitLab it is a batch of requests of which any may be.
* **Crashes** between the write, the request, the answer and the final write, and
  in the middle of recovery.
* **Reading what moves.** One snapshot takes many requests while the author
  pushes, the account changes, an editor writes, or the service leaves files out.
* **Late answers.** Saves, loads, release lists, blame and context are read on
  threads and answer after the window has gone on.
* **Several processes on one state directory**, coordinated by two file locks, a
  socket path and a rename.
* **State of the reading surface** that many independent handlers change: timers,
  frames, panels, filters and indexes into lists that are read again.

`PROJECT.json` lists each hazard at its line, with the properties about it.

## Modules

| Module | Contents | Run |
| --- | --- | --- |
| `Outbox`, `OutboxProofs` | publication, reconciliation, the two tables, crash and recovery, the hosting service | `outbox_github`, `progress` |
| `Workbench`, `WorkbenchProofs` | the drafts of a review in the window against the draft rows | `workbench`, `progress` |
| `Handoff`, `HandoffProofs` | invocations, window processes, locks, socket and token | `handoff`, `progress` |
| `Delivery` | abstract: what sending a review promises | `services` |
| `GitlabSend` | the requests of one GitLab review; implements `Delivery` | `services` |
| `Runner` | running a command line tool with limit, deadline and cancellation | `services` |
| `ReadGate` | the permits for four reads at a time | `services` |
| `LocalGit` | capturing a worktree while it is written | `services` |
| `Fanout` | bounded fan-out of reads and the merge of their answers | `services` |
| `Extensions` | discovery, annotation jobs, the thread that counts time | `services` |
| `Capture` | the requests of one snapshot, for every reader | `reading` |
| `Sources` | opening, refreshing, offers, releases, blame and view saves in the window | `reading` |
| `Retention` | snapshots, drafts, views and operations over starts and pruning | `reading` |
| `Coverage` | what listings leave out and what is said of it | `reading` |
| `Evidence` | gates, checks, decisions and session lists | `reading` |
| `Trails` | from an Entire address to one Change | `reading` |
| `Timeline` | the steps of a release timeline, their commits and their files | `window`, `renamed_file_lost` |
| `Anchors` | a comment on its way out and back | `window`, `comment_not_recognised` |
| `PatchParser` | `parse_patch` | `window` |
| `Addresses` | parsers, detection, launch arguments, reopening | `window` |
| `Viewport` | rows, fetched context, cursor and anchor of the source view | `window` |
| `Gestures` | wheel, coast, and the pull that turns a file | `window` |
| `Peek` | the floating file panel | `window` |
| `Composer` | the slash menu among the panels | `window` |
| `Themes` | theme files, loads and the watch | `window` |
| `FileTree` | tree, filters, release filter, next file, find | `window` |
| `StateDir` | choosing the state directory | `state_directory_race` |
| `ServicesProofs` | proofs about `Runner`, `Fanout`, `ReadGate`, `GitlabSend` and `LocalGit` | |
| `ReadingProofs` | proofs about `Sources`, `Capture`, `Retention`, `Coverage`, `Evidence` and `Trails` | |
| `WindowProofs` | proofs about `Peek`, `Gestures`, `Composer`, `Themes`, `Anchors`, `Viewport` and `FileTree` | |
| `PatchProofs` | proofs about `PatchParser` | |
| `NamingProofs` | proofs about `Timeline` and `Addresses` | |

`MCOutbox`, `MCWorkbench`, `MCHandoff` instantiate one module. `MCProgress`,
`MCServices`, `MCReading` and `MCWindow` put several next to each other: a behaviour
begins with one of them as its `topic` and takes only its steps, while the others are
at rest, in a state of their own that enables no fair action. The parts of one such
run share no variables, so every part is checked exactly as if it ran alone.

Definitions whose comment starts with *mutant* are faulty variants of the
definition that follows them. No specification uses them; each shows that some
property notices that fault.

### Outbox

A draft row is a version, the snapshot it belongs to and the published mark. A
draft text is the pair of draft and version, because `save_draft` refuses another
body for a stored version. An outbox row has its state, its snapshot, its comments
and the baseline. `publish` is one action per call that can fail or be overtaken:

| Action | Code in `Outbox::publish` |
| --- | --- |
| `PublishBegin` | the gate, the stored row, no other unresolved operation on this PR and account |
| `PublishCurrent`, `PublishMoved` | `remote.current` and the comparison with the preview |
| `PublishDrafts` | saved drafts equal the previewed texts |
| `PublishBaseline` | the review ids before the request |
| `PublishInFlight` | the second comparison and the durable `InFlight` |
| `SendAccepted`, `SendRejected`, `SendUnknown` | `remote.send` |
| `Verify`, `PublishSettle`, `PublishStoreFails` | checking the response and the final transition |
| `PublishError` | any early return before `InFlight` |

`reconcile` builds an `Outbox` of its own, so it does not share the gate of
`publish`: the model lets both run at once. `Crash` is possible everywhere;
`Open`, `Recover` and `OpenDone` are `Store::open`, which handles one operation
per step. The hosting service is external: it applies a request late (`Land`),
receives an identical review from somebody else (`OutsideReview`), and moves the
head, the state of the PR and the account under the program's feet.

Two limits are part of the statements. A draft the reader deleted may be posted
again, because its row no longer carries a mark. And without fingerprints
(GitHub) a matching review need not be the program's own: for one operation
`ConfirmedHasEvidence` asks for a review with its content that was not in the
baseline.

### Delivery and GitlabSend

GitLab has no review of several comments. `GitlabWriter::send` makes a request for
a change request, for every comment, for an approval and for the summary, each
after a check that the merge request is still the one that was prepared. `Delivery`
says what the outbox relies on: *accepted* means that all parts landed, *rejected*
that none did and none will, and an unknown review is *found* only when it is
complete. `SendDelivers` is the refinement (`review` is the parts of the verdict, `landed`
what the service ever applied, `told` the outcome); it is checked by TLC and proved.

### Workbench

The window's handlers are atomic. Each background job is split where the code
splits it: the click, the work on a thread, the answer in the window. A body is
the number of the edit that wrote it, so the model can tell two texts of one
version apart, which happens when a review is opened again from rows that were
read before a later save. `SaveTimer`, `SaveRuns` and `SaveAnswer` are the 180 ms
debounce, `Store::save_draft` and the acknowledgement. A new save drops the old
task: `Orphaned` keeps a job that a thread has begun, or forgets it. `doubt` is the
operation whose outcome is unknown; reconciliation confirms it after any number of
edits, loads and discards.

The view's own save appears only in `Outstanding`: closing and switching wait for
it, and it was scheduled 250 ms ahead when the review was installed, so by then
every older 180 ms timer has fired.

`MarkedWasSent` is weaker for the window than for the store. The window marks by
version; after a stale re-open, a body that was not sent can carry the version of
one that was, and the window shows it as published until the review is read again.
For the same reason `AckIsDurable` and `CloseKeepsShownText` compare by version: the
store has the very text or one of a later version (`Covers`). After a stale re-open the
newest text may even have the lower number. Its save is then refused with "the draft write is
stale; the newer text remains stored" (`adapters/src/store.rs:242`), and the window keeps
showing the draft as not saved, so nothing it calls saved is affected.

### Handoff and StateDir

Every process has a program counter that follows `send_within`, `exchange`,
`settle`, `deliver_observed` and `open_or_hand_off`. The probe `store::in_use` is
two steps, since it holds the writer lock for an instant. Removing the socket is a
step of its own. A window may exit or crash at any point while it holds the lock:
the kernel frees the lock and closes the socket, the path may stay. Deadlines
(`STARTUP`, `ACK`, `LAUNCH`) are choices: wherever the code may time out, the
model may. The contents of a request are its origin; a version mismatch, a missing
write permission and an open composer are all a request that is turned down.
`writer.lock` exists from the start; before the first start ever, the probe
returns without taking it, which leaves fewer interleavings. `StateDir` is
`default_state_dir`: two names were used before the present one, and each look and each
rename is a step.

### Runner, ReadGate, Fanout, LocalGit, Extensions

`Runner` has the child, its three threads with a channel each, the polling loop and
the order of its checks; the tool writes, exits or hangs and may leave a helper with
the pipes, in its process group or in a session of its own. `OutputWhole` is what
callers rely on when they decode an answer. `ReadGate` is a counter, a condition variable and
readers that wait, are cancelled, fail or never end; `NoneWaitsForNothing` holds
without any assumption that a read ends. `Fanout` is `releases::bounded` with its shared index, workers that
panic or stop the others, and the merge by index. `LocalGit` reads file after file, twice,
while an editor writes; content is the number of the write, so `OneInstant` can say that
two equal passes are one tree, except when a file got an earlier content back.
`Extensions` counts time in ticks of the epoch thread, which parks while no component
runs.

### Capture, Coverage, Evidence, Trails, Timeline, Anchors

`Capture` is one module for all readers: a reader is a sequence of stages, each a set
of requests that run at once; a request is pinned to commits or reads what is there
now. Pushes, renames and sign-ins come in between, requests are lost, and the reader
decides from two readings whether to retry. `Coverage` takes the diff and the list of
files from two endpoints, each leaving out what its service documents, and compares
what is missing with what is said. `Evidence` writes the gate report field by field while
evaluations and pushes go on. A decision is GitHub's, from the list of reviews, or GitLab's,
from the answers to `/approvals` and `/reviewers`, each of which may be lost and then counts
as saying nothing. `Trails` has two forges with repositories of one name,
Trails and Changes numbered apart, and people who move them. `Timeline` takes every
small commit graph with every set of tags; files are numbered paths, which each step's own compare
may list as changed, deleted or renamed, chains and swaps within one step included. `Retained` is the
cut to the paths of the patch, and `RenamedIn` goes through the files of a step in the order of
the list, as the loop of `releases_by_path` does, with a map that grows on the way. `Anchors` follows one comment through the
four translations of its place: prepared, sent, recognised, shown.

### Sources and Retention

`Sources` has one token per background read and its answers in any order: loads by
generation, a refresh that becomes an offer, a release list, blame that belongs to a
list, and view saves with revisions. `AckedViewStored` is by revision: a load that read the
view before a later save puts the older one back, whose revisions are then used again.
`Retention` lets the clock be set back and the program stop between any two
transactions. Its table of snapshots gives each one its time and its rowid; only the
order of the rowids matters, so `Renumbered` closes the gaps that pruning leaves.

### PatchParser, Addresses, Viewport, Gestures, Peek, Composer, Themes, FileTree

A patch is a sequence of line forms, among them every header the parser accepts and
hunk headers at the edges of the number range. An address is a sequence of segments
with host, scheme and query; `SameSource` follows it through its second and third parse. `Viewport`
builds the display rows from hunks, columns and inserted context as the code does;
`PlaceIsKept` compares the line at the anchor between two frames. `Gestures` separates events, frames, the
lift timer and the coast; a wheel event is upright or mostly sideways, and only an upright one
reaches `BoundaryScroll`. `Peek` has the hit regions of the last frame, which the pointer may
have left. `Composer` keeps the menu's state apart from the panel it is drawn in. `Themes` reads two
files one after the other and asks for their times last. `FileTree` compares the folded
rows and the order of the next-file commands with definitions of their own: who is
listed, who comes first, and which folder has a row.

## Runs

| Run | Instance | States | Shows |
| --- | --- | --- | --- |
| `outbox_github` | 1 draft, 2 operations, 2 versions, 2 reviews, 1 crash, no fingerprint | 283 382 | the safety properties of publication, and what a confirmation rests on |
| `workbench` | 1 draft, 3 edits, 1 load | 6 949 461 | saved means stored, marked means sent, no going back |
| `handoff` | 2 invocations, 2 windows | 306 254 | one window, one launch, one receiver per token, honest status |
| `progress` | 2 invocations and 1 window; 1 draft, 1 edit, 1 load; 2 operations, 2 accounts, 2 crashes | 126 362 | every invocation ends, no busy phase stays, recovery resolves every operation |
| `services` | see `MCServices.cfg` | 168 860 | runs and jobs end, output and fan-out are whole, the gate, `GitlabSend` implements `Delivery` |
| `reading` | see `MCReading.cfg` | 1 295 318 | snapshots are coherent, late answers harmless, gaps told, green earned, the named Change, work kept |
| `window` | see `MCWindow.cfg` | 1 345 077 | releases, comments, patches, addresses, place, gestures, panel, menu, themes, tree |

Five more runs violate their property; see *Disagreements*.

Bounds. Two operations are what `SentOnce` and `NoDoublePublication` are about;
two reviews allow the program's and somebody else's, or two of the program's; one
crash can fall between any two steps. The instance with fairness has two crashes, so that
recovery itself is interrupted, and two operations of two accounts, so that two rows can be in flight
at once and one is resolved before the other; its reviews consist of a verdict and a summary,
since no draft row has a part in recovery. `outbox_github` has no fingerprints, so a confirmation there
rests on baseline and content; that it rests on the operation's own review where there are
fingerprints is proved (`ConfirmedRestsOnEvidence`). Three edits and one load are the least that let two bodies
have one version. Drafts do not interact except through the busy flag, which
several jobs of one draft exercise too. Two invocations and two windows allow a
cold start race, a replacement and a foreground window. In `services`: an output limit
of one and a tool that writes two; four readers for two permits, so that two wait;
two comments beside verdict and summary, with two pushes (away and back); two files
and three writes; four files in batches of two for two workers; two extensions with
one tick of time. In `reading`: two moves, so that a change can go away and come back;
two loads that overtake each other; two snapshots of which one is kept; three
files with pages of one, of which three are read, and a cap of two, so that a page is refused and a file is behind
the cap; two Changes under two forges. In `window`:
every graph of three commits with three tags; two steps over three paths, with every
rename, swap and chain there is; patches of five lines whose hunks have up to two numbered lines on a side,
of at most three; addresses with
up to three segments from names that collide with keywords (`compare`, `et`); two
hunks of a twelve-line file with long and marked lines; files with no room, little and
more room to scroll; five wheel events; three small trees with a rename, two release
lists and four steps. Operations, invocations and windows are
interchangeable, and the safety runs use that symmetry; runs with fairness do not.
Deadlock is not checked, because all these systems may come to rest: nothing is
left to publish, the window is closed, every process has ended.

Fairness. `Outbox`: the steps of a running publish or reconcile call and of
`Store::open` continue, as each remote call has a deadline; the reader, the
service and crashes promise nothing. `Workbench`: threads run and answers reach
the window. `Handoff`: processes keep running, and a deadline that is looked at
again and again passes (strong fairness of `GiveUp`: the loop leaves the state in
which it looks). Windows need not answer or close. `Runner`: its loop runs and its
clock advances; the tool, its helpers and the input thread promise nothing. `ReadGate`: a
waiter whose timeout has come or whose mutex is free goes on; reads need not end.
`Extensions`: background tasks and the epoch thread are scheduled; a component need not return.

## Disagreements between the code and what it says

Each is shown by a run that violates one property:

* `close_during_publication`: `discard_selected` is not disabled while the window
  is busy, and its answer clears `busy`. A window then closes while a publication
  is waiting, in spite of "Close blocked: saves/publication still running".
* `discard_comes_back`: an orphaned older save inserts its row again after the
  draft was discarded, since the check for a stale write needs an existing row.
* `comment_not_recognised`: GitLab's `file_level_note` takes a summary that starts with a
  bold line for one more file comment, and `comments` reads a left-side comment of a
  renamed file under its old path. A review that was stored exactly as sent then never matches
  and stays unknown, although the README says a batch "can be reconciled".
* `state_directory_race`: two processes that start together after an upgrade both find
  `review-workbench`; the first renames it to `diffr`, and the second's rename fails because of that.
  Its inner `migrated_state_dir` returns the old name, which is gone, its outer one finds neither that nor
  `diffz`, and it opens an empty store under `diffz`, although "existing drafts and saved reviews remain
  available". In this run a rename fails only for want of the directory (`Spurious` is FALSE).
* `renamed_file_lost`: `Services::releases` keeps only those files of a step whose path is in the patch of the
  compare, and so drops what an earlier step lists under a name that a later one changed. Of a file that step 1
  adds and step 2 renames only step 2 is found, although "A file renamed inside the range is found under its head path
  in the releases before the rename". `EachCommitReleasedOnce` says what does hold: a path is found in the steps
  that list it as long as nothing is renamed from it or to it.

Observations that are part of the models and for which the properties make an
explicit exception, or which no statement of the program contradicts:

* `send_within` unlinks the socket after its probe released the lock, and may
  remove that of a window that has just bound it (`Handoff`).
* `deliver` reports a launch when any window accepts a connection, while the process
  it launched may still be turned away (`Handoff`).
* Text typed while another review loads is replaced by `install` although its save
  failed; so is a summary typed just before (`Workbench`, `Sources`).
* A patch with some header forms is accepted with a file that has no path;
  `FileChange::path` would panic on it (`PatchParser`).
* An edit of a theme file between its read and `newest_mtime` is not noticed (`Themes`).
* A split toggled while context is fetched puts the lines at rows of the other
  layout (`Viewport`).
* A mostly sideways wheel event scrolls the source view without telling `BoundaryScroll`: a pull that has begun goes
  on over one that takes the view off its edge and one that brings it back. `TurnIsDeliberate` does not count what such
  events scroll during a pull (`Gestures`).
* When GitLab's `/reviewers` cannot be read, a merge request that somebody approved is shown as approved although
  a reviewer may ask for changes; `GreenIsEarned` speaks of the answers that came (`Evidence`).
* In the rich view one gesture may bring the view to its edge and turn the file (`Gestures`).
* Enter or an arrow on a folder while a filter is typed changes its collapsed state
  without showing it, and the next-file commands do nothing when the shown file is
  hidden by the filter (`FileTree`).
* A GitHub comment on a whole file comes back without a line, so that such a review
  is not confirmed by its comments (`Anchors`).
* A GitHub compare list that reached its cap proves nothing about the files behind it
  (`Coverage`).

## Proofs

For any sets of drafts, operations, accounts, PRs and any bounds
(`OutboxProofs`, assumptions `BoundsAssumption`, `NoOpAssumption`,
`MarkedAssumption`, `InhabitedAssumption`):

* `TypeCorrect`: `Spec => []TypeOK`.
* `PublicationInvariant`: `Spec => []PublicationInv`, the inductive invariant. Neither
  `UnresolvedUnique` nor `SentOnce` is inductive. A publish call checks that no
  other operation is unresolved long before it writes `InFlight`; `GateHolds` says
  that what it found stays true while it runs, and `CallState` which state the row
  has in each phase. `NotSentYet` ties the send to the phase before it.
* `UnresolvedIsUnique` and `SentAtMostOnce` follow from it.
* `PreviewIsFrozen`: no step changes what a stored operation says, and its state only moves along
  the transitions of the outbox.
* `RejectedIsNeverPosted`: inductive with `TraceInv`: a request leaves at most one review, of its row's
  content, and none when it was not made or was refused. A late request must not be on its way
  either.
* `ConfirmedRestsOnEvidence`: inductive with `IdInv` (ids are given once, so what is accepted or found was not
  in the baseline) and `EvidenceInv` (the calls about to confirm a row hold what a confirmed
  row has).
* `PublishedRestsOnConfirmation`: the mark on a draft row comes from a confirmed operation with that text.
* `NoTextTwice`: inductive with `TextInv`: texts in outbox rows are the stored ones or older, so
  an edit cannot bring back one that was sent, and two operations that may be on the
  service share only texts of discarded drafts.

For any sets of invocations and windows (`HandoffProofs`, assumption
`ProcessesAssumption`):

* `TypeCorrect`.
* `OneWindowAtATime`: inductive with `LockInv`, which adds that a probe between its two
  steps is the holder of the lock, so that its release frees no window's lock.
* `HandedOffIsTaken`: inductive with `TakenInv`, which follows a positive answer back
  from the status over the reply to the taking.
* `AtMostOneLaunch`: inductive with `LaunchInv`: an invocation in its second send has the launch lock,
  and one that then found the writer lock free knows that nothing was launched.
* `TokenAtMostOnce`: inductive with `TokenPlaces`: each token has one place, with a process,
  in an unread connection, or with the window that received it. `TokenFrame`
  handles the steps that move none; one lemma handles each of the five that do.

For any number of comments and pushes (`ServicesProofs`, assumption
`GitlabSendAssumption`):

* `SendInvariant`: `SendOrder` says that the applied parts are a prefix of the
  review in its order and that at most the part being sent is under way. Without
  the prefix neither *accepted* nor *found* says anything about the parts before.
* `SendImplementsDelivery`: `SendSpec => SendDelivers`; `DeliveryInitially` and `DeliveryStep` are its two
  halves. Requests, checks, pushes and withdrawals are stutters of `Delivery`.
* `SummaryComesLast`: a marked summary stands for the whole review.

For any set of files and any number of writes and rounds (`ServicesProofs`,
assumption `LocalGitAssumption`):

* `AcceptedIsOneInstant`: inductive with `PassOrder`: without a return a file only moves on,
  so the first pass saw nothing newer than the tree between the passes and the
  second nothing older; equal passes squeeze the tree between them.

For any set of drafts and any number of edits and loads (`WorkbenchProofs`, assumption
`BoundsAssumption`):

* `TypeCorrect`.
* `TheStoreNeverGoesBack`: the action property `StoreNeverGoesBack`, whatever order dropped,
  repeated and late saves take.
* `MarkedTextsWereSent`: inductive with `SentInv`. A load carries marks from the store to the
  window, and a publication's answer comes long after its request, so the texts of both are
  followed too.
* `AcknowledgedIsDurable` and `ClosingLosesNoText`: inductive with `ScreenInv` and `DurableInv`. A text
  that was saved has copies in the window, in an answer on its way and in the rows a
  load has read, and the store covers all of them; the task of an unsaved draft saves
  the very text on screen.

For any output, limit, workers, batches and readers (`ServicesProofs`, assumptions
`RunnerAssumption`, `FanoutAssumption`, `ReadGateAssumption`):

* `TheOutputIsWhole`: inductive with `PipesInv` (a drain thread that saw the end of its pipe has
  all of it, and nobody can write any more) and `LoopInv` (what the loop took from a
  channel in an earlier poll is still so).
* `FanoutAnswersLineUp`: inductive with `FanoutInv`. `StopOthers` sets the shared counter to the end,
  possibly below where it was; it stays past every item that was taken.
* `ReadsAreLimited`: `GateInv` says that the counter is the number of reads under way, so
  no permit is lost or given twice. `Limit` many reads at most follow.

For any sources, commits, files and snapshots and any number of moves (`ReadingProofs`,
assumptions `SourcesAssumption`, `CaptureAssumption`, `RetentionAssumption`,
`CoverageAssumption`, `EvidenceAssumption`, `TrailsAssumption`):

* `SourcesTypeCorrect`.
* `MarksBelongToTheirList`: inductive with `BlameInv`: a list comes on screen with a new number of
  the snapshot, so a blame read with the number on screen is for the list on screen.
* `SavedViewsAreStored`: inductive with `ViewInv`, which covers views in loads and offers.
* `SnapshotsAreCoherent`: `CaptureInv` follows each request by stage. `ReadingInv` relates what it read
  to what the first request saw, `ContentInv` the content to the commits and the account,
  with the exceptions of a move away and back.
* `UnfinishedWorkIsKept`: the action property `WorkIsKept`, from `RetentionInv`. It does not depend on
  which snapshots are the newest, only on what pruning spares besides.
* `WhatIsMissingIsTold`: `CoverageInv` keeps list and diff within what their service promises. The
  proof is a comparison of the number of files in the list, in the diff and in the change
  for each service.
* `GreenIsAlwaysEarned`: inductive with `GateTells`: an outcome in the report is that of the commit
  the report names, although its fields are written one by one. For the decision of a list of
  reviews of any length, the latest word per reviewer that the code collects row by row is
  shown to be the last counted word of that reviewer. GitLab's decision is compared with what the two
  endpoints have, as far as they answered (`ApprovalIsTrue`).
* `TheNamedChangeIsShown`: `TrailsInv` follows an address over Trail, forge and placement to a pin, and
  the pin to what is captured.

For any number of files, events, replies, edits and rows (`WindowProofs`, assumptions
`GesturesAssumption`, `ComposerBounds`, `ThemeBounds`, `AnchorsAssumption`,
`ViewportAssumption`):

* `ThePanelIsHeld`: inductive with `PeekInv`: each flag has its region under the pointer, and a
  panel that no flag holds has its closing on the way.
* `TurnsAreDeliberate`: inductive with `GesturesInv`: a gesture that pulls has not turned and, in the
  source view, not scrolled, but for sideways events during the pull.
* `TheHighlightedEntryExists` (`ComposerInv`) and `EditsAreAlwaysNoticed` (`ThemesInv`: an edit is marked as made
  during a load, older than the load, or newer than the time that is compared).
* `ConfirmedIsAlwaysShown`: `AnchorsInv` says that what is stored is the comment of a draft that could
  be sent. That a comment found again has one place rests on a lemma about a file of any length:
  the line numbers of a side grow from one row that has it to the next.
* `HiddenLinesAreContiguous`: `ContextIsContiguous` for any hunks with any blocks, any file length,
  step and budget. It is inductive with `ViewportInv`. `LaidOut` says where each hunk begins, with
  its header, so that "under the header" and "before the next header" are the two ends of the
  hunk's rows. `NumbersInv` says that the numbers of a hunk on each side run from its start, less
  what was expanded above, to its end and what was expanded below. `FetchInv` says that lines on
  their way are next to that, unless the columns changed since they were asked for. Lines above a
  hunk always arrive in full, because a hunk lies within its file (`ArrivedCount`); only lines below
  may come short.
* `TheTreeIsCurrent`: after any filter, release, folder, refresh, late list or other review, the
  tree is the one that `RowsOf` makes of what is chosen at that moment (`TreeIsCurrent`). It needs
  `ReleaseInv`: a chosen release is an index of the list that is there, and while a list is read
  there is none chosen, so that the answer, which does not build the tree again, cannot make it
  stale. It is the half of `TreeShowsChosen` that is about the handlers.

For a patch of any number of lines (`PatchProofs`, assumption `PatchAssumption`):

* `AcceptedPatchesAreSound`: inductive with `PatchInv`. Of the hunk being read it keeps how many lines of
  each side were counted and that they are numbered on from its start; of the finished ones that they
  have what their header counts; that the numbers then grow along a file follows from hunks that do not
  overlap.

For a history of any length and project paths of any depth (`NamingProofs`, assumptions
`TimelineAssumption`, `AddressesAssumption`):

* `CommitsAreSharedOut`: the state only says that a report was made from one history (`TimelineInv`).
  The work is in the lemmas on the two walks, of the first parents to the base and of the map of names from
  the newest step back. The map is a function of both step and place in its list (`InStep`, `OverSteps`); by
  induction over both it sends a path that no step renames to itself, and leads to a path only from itself
  or from a file that a step renamed to it (`NotedIsFair`, `StepIsFair`, `LaterIsFair`).
* `NamedSourceIsKept`: `AddressesInv` says that each stage still holds the address that was typed. One
  lemma per provider and form of address shows that what is printed to reopen a review parses to
  that review.

Where a definition is a recursive function (the walk of a timeline, the decoding of a path, the
rows of a presentation), its equation is proved first: a lemma shows that a function may be given by
its value at 0 and a step, and induction over `0 .. n` is done through the least number at which a
statement fails, so no induction principle with an operator parameter is needed.

The bounds in the constants are natural numbers throughout, so a theorem holds for any
number of crashes, edits or pushes; the assumptions ask for no more than that sets are
finite or inhabited where the code has a finite or an inhabited collection.

Only model-checked, and why:

* Every liveness property (`ReopenResolves`, `DeliverEnds`, `BusyEnds`, `WorkEnds`,
  `NoneWaitsForNothing`): fairness and `ENABLED` are outside the prover's reach.
* `PlaceIsKept`: the cursor's normal form is a recursion that steps over rows of different heights
  in both directions, and where a row stands is a fold over those heights; what the two compute
  for rows of any heights is not proved.
* `TreeShowsChosen`: that the tree is built from what is chosen now is proved (`TheTreeIsCurrent`).
  That sorting and flattening any set of files lists each once, in the order of the tree and with the
  right folders, is an induction over the folders that is not done.
* `Extensions` and `StateDir` have no invariant that a passing run checks.

## Plan

1. `Outbox` shown to implement `Delivery` for each operation. `Delivery` tells *accepted* from *found*,
   and a confirmed row of the outbox does not, so a history variable is needed first. What the
   refinement would say of a row is in `PreviewIsFrozen`, `RejectedIsNeverPosted` and
   `ConfirmedRestsOnEvidence`.
2. The rest of `TreeShowsChosen`: what `Flatten` makes of a set of files, by induction over the depth
   of a folder.

## Not modelled

Rich text, syntax highlighting and word marks are functions of text whose grammar is
out of a model checker's reach; their results only colour the view. Rendering,
native text input with its bidirectional runs, icons, fonts and magnification draw
what the modelled state says. The height index is a numeric data structure over
pixels, used through what it promises. The activation policy is a table per
desktop. Export, fixtures, timing and profiling do not act on the state. Settings
and saved replies are single writes. The wire grammar of the services' answers is
abstracted to the fields that decide something. Quitting with the keyboard shortcut ends the process
without the close guard (`ui/src/app.rs`); for the store that is a crash, which
`Outbox` covers.
