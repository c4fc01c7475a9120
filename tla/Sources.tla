------------------------------ MODULE Sources ------------------------------
(* What the window shows while sources load, refresh and change (source.rs *)
(* and the view saves of app.rs), over the snapshot, blame and view tables *)
(* of the store.                                                           *)
(*                                                                         *)
(* The window's thread runs its handlers one at a time; opening, listing   *)
(* releases, reading blame and saving run on background threads, answer in *)
(* any order, and are only told by a token that nobody wants them any      *)
(* more. Drafts, busy and publication are in Workbench.                    *)
EXTENDS Naturals, FiniteSets

CONSTANTS Addresses,    \* sources the reader may open
          MaxOpens,     \* bound on opens and refreshes
          MaxTyping,    \* bound on changes of the review summary
          MaxTags       \* bound on changes of the release tags of a source

ASSUME SourcesAssumption ==
  /\ IsFiniteSet(Addresses) /\ Addresses # {}
  /\ MaxOpens \in Nat /\ MaxTyping \in Nat /\ MaxTags \in Nat

NoAddress == "none"

\* A captured snapshot is named by its source and the revision of it.
Names == Addresses \X (1 .. 2)

VARIABLES
  revision,   \* source -> the revision the service has
  tags,       \* the release list the service has; 0 is an empty one
  shown,      \* the active snapshot: see ShownType
  arcs,       \* snapshots the window has been handed so far
  generation, \* open_generation
  loads,      \* opens and refreshes on their way
  offered,    \* a refreshed revision that waits to be accepted, or {}
  listings,   \* release reads on their way
  blaming,    \* the blame read on its way: {} or one
  keeping,    \* writes of found blame on their way
  viewTask,   \* the view save that waits for its timer or its answer: {} or one
  writing,    \* view saves a thread has begun
  disk,       \* name -> what the store holds of the snapshot
  typed       \* changes of the summary so far

sourceVars == <<revision, tags, shown, arcs, generation, loads, offered, listings,
                blaming, keeping, viewTask, writing, disk, typed>>

SourcesInit ==
  /\ revision = [a \in Addresses |-> 1] /\ tags = 1
  /\ shown = [name |-> <<NoAddress, 0>>, releases |-> 0, blame |-> {}, arc |-> 0, gen |-> 0,
              view |-> [rev |-> 0, text |-> 0], ack |-> 0]
  /\ arcs = 0 /\ generation = 0 /\ loads = {} /\ offered = {} /\ listings = {}
  /\ blaming = {} /\ keeping = {} /\ viewTask = {} /\ writing = {} /\ typed = 0
  /\ disk = [n \in Names |->
       [stored |-> FALSE, releases |-> 0, rows |-> {}, view |-> [rev |-> 0, text |-> 0]]]

Active == shown.arc > 0

\* Workbench::unsaved, as far as the view goes.
Unsaved == Active /\ shown.view.rev > shown.ack

\* Store::put_snapshot: blame rows of the snapshot go with its old data.
Put(d, n, list) == [d EXCEPT ![n].stored = TRUE, ![n].releases = list, ![n].rows = {}]

\* Store::snapshot and Services::load of a fresh capture.
FromDisk(n) ==
  [name |-> n, releases |-> disk[n].releases, blame |-> disk[n].rows \cap {disk[n].releases}]
Fresh(a) == [name |-> <<a, revision[a]>>, releases |-> 0, blame |-> {}]

-----------------------------------------------------------------------------
(* Handlers that several others call.                                      *)

\* schedule_view_save: the next revision; the task replaces the one before,
\* which a thread may have begun all the same.
Scheduled(s) == [s EXCEPT !.view.rev = @ + 1]
TaskFor(s) == {[name |-> s.name, rev |-> s.view.rev + 1, phase |-> "timer"]}

\* load_releases: the read for the snapshot before is told to stop; a
\* snapshot that has its list needs no other.
Listing(s) ==
  {[l EXCEPT !.cancelled = TRUE] : l \in listings}
    \cup {[arc |-> s.arc, name |-> s.name, cancelled |-> FALSE, read |-> FALSE, found |-> 0]
           : x \in {0} \cap {s.releases}}

\* install: the snapshot, its saved view, no offer; select_file schedules a
\* save of the view, and the releases are asked for.
Install(h, g) ==
  LET s == [name |-> h.name, releases |-> h.releases, blame |-> h.blame,
            arc |-> arcs + 1, gen |-> g, view |-> h.view, ack |-> h.view.rev]
  IN /\ shown' = Scheduled(s)
     /\ viewTask' = TaskFor(s)
     /\ arcs' = arcs + 1
     /\ offered' = {}
     /\ listings' = Listing(s)

-----------------------------------------------------------------------------
(* Opening.                                                                *)

\* open_pending, for a request or for a refresh of what is shown: the load
\* before and the blame read are told to stop.
Open(a, how) ==
  /\ generation < MaxOpens /\ ~Unsaved
  /\ how = "refresh" => Active /\ a = shown.name[1]
  /\ how = "resume" => disk[<<a, 1>>].stored
  /\ generation' = generation + 1
  /\ loads' = {[l EXCEPT !.cancelled = TRUE] : l \in loads}
       \cup {[gen |-> generation + 1, address |-> a, how |-> how, cancelled |-> FALSE, answer |-> {}]}
  /\ blaming' = {[b EXCEPT !.cancelled = TRUE] : b \in blaming}
  /\ UNCHANGED <<revision, tags, shown, arcs, offered, listings, keeping, viewTask, writing, disk, typed>>

\* Services::load on its thread: a capture is stored, a saved snapshot read.
LoadReads(l) ==
  /\ l.answer = {}
  /\ LET h == IF l.how = "resume" THEN FromDisk(<<l.address, 1>>) ELSE Fresh(l.address)
         v == disk[h.name].view
     IN /\ loads' = (loads \ {l}) \cup {[l EXCEPT !.answer = {[name |-> h.name, releases |-> h.releases,
                                           blame |-> h.blame, view |-> v]}]}
        /\ disk' = IF l.how = "resume" THEN disk ELSE Put(disk, h.name, 0)
  /\ UNCHANGED <<revision, tags, shown, arcs, generation, offered, listings, blaming, keeping, viewTask, writing, typed>>

\* A load that fails, or that sees its cancellation, changes the status only.
LoadFails(l) ==
  /\ l.answer = {}
  /\ loads' = loads \ {l}
  /\ UNCHANGED <<revision, tags, shown, arcs, generation, offered, listings, blaming, keeping, viewTask, writing, disk, typed>>

\* The answer: ignored when another open came after it; a refresh that finds
\* another revision offers it, one that finds the same replaces the data of
\* the snapshot in place; else the snapshot is installed.
LoadAnswered(l) ==
  /\ l.answer # {}
  /\ loads' = loads \ {l}
  /\ \E h \in l.answer :
       \/ /\ l.gen # generation
          /\ UNCHANGED <<shown, arcs, offered, listings, viewTask>>
       \/ /\ l.gen = generation /\ l.how = "refresh" /\ h.name # shown.name
          /\ offered' = {[handed |-> h, gen |-> l.gen]}
          /\ UNCHANGED <<shown, arcs, listings, viewTask>>
       \/ /\ l.gen = generation /\ l.how = "refresh" /\ h.name = shown.name
          /\ shown' = [shown EXCEPT !.releases = h.releases, !.blame = h.blame, !.arc = arcs + 1]
          /\ arcs' = arcs + 1
          /\ listings' = Listing(shown')
          /\ UNCHANGED <<offered, viewTask>>
       \/ /\ l.gen = generation /\ l.how # "refresh"
          /\ Install(h, l.gen)
  /\ UNCHANGED <<revision, tags, generation, blaming, keeping, writing, disk, typed>>

\* accept_offer.
AcceptOffer ==
  /\ offered # {} /\ ~Unsaved
  /\ \E o \in offered : Install(o.handed, o.gen)
  /\ UNCHANGED <<revision, tags, generation, loads, blaming, keeping, writing, disk, typed>>

-----------------------------------------------------------------------------
(* Releases and blame.                                                     *)

\* Services::releases on its thread: the list the service has, or none with a
\* warning; stored unless the read was told to stop before.
ListingReads(l) ==
  /\ ~l.read
  /\ \E found \in {0, tags} :
       /\ listings' = (listings \ {l}) \cup {[l EXCEPT !.read = TRUE, !.found = found]}
       /\ disk' = IF l.cancelled THEN disk ELSE Put(disk, l.name, found)
  /\ UNCHANGED <<revision, tags, shown, arcs, generation, loads, offered, blaming, keeping, viewTask, writing, typed>>

\* The answer of load_releases: dropped when it was told to stop or another
\* snapshot is shown; else the list is shown and blame can begin.
ListingAnswered(l) ==
  /\ l.read
  /\ listings' = listings \ {l}
  /\ IF l.cancelled \/ shown.name # l.name
       THEN UNCHANGED <<shown, arcs>>
       ELSE /\ shown' = [shown EXCEPT !.releases = l.found, !.blame = {}, !.arc = arcs + 1]
            /\ arcs' = arcs + 1
  /\ UNCHANGED <<revision, tags, generation, loads, offered, blaming, keeping, viewTask, writing, disk, typed>>

\* fetch_blame, which every handler that changes the snapshot or the file
\* ends with: one read at a time, for a list with releases, of what is not
\* there yet.
BlameBegins ==
  /\ Active /\ blaming = {} /\ shown.releases > 0 /\ shown.blame = {}
  /\ blaming' = {[arc |-> shown.arc, name |-> shown.name, releases |-> shown.releases, cancelled |-> FALSE]}
  /\ UNCHANGED <<revision, tags, shown, arcs, generation, loads, offered, listings, keeping, viewTask, writing, disk, typed>>

\* Mutant: found blame is laid over whatever has the same name.
BlameAnsweredByName(b) ==
  /\ blaming' = {}
  /\ IF ~b.cancelled /\ shown.name = b.name
       THEN /\ shown' = [shown EXCEPT !.blame = @ \cup {b.releases}]
            /\ keeping' = keeping \cup {[name |-> b.name, key |-> b.releases]}
       ELSE UNCHANGED <<shown, keeping>>
  /\ UNCHANGED <<revision, tags, arcs, generation, loads, offered, listings, viewTask, writing, disk, typed>>

\* The answer of a blame read: Services::blame fails when it was told to stop,
\* and blame_applies only to the very snapshot it was read for.
BlameAnswered(b) ==
  /\ blaming' = {}
  /\ \/ /\ ~b.cancelled /\ shown.arc = b.arc
        /\ shown' = [shown EXCEPT !.blame = @ \cup {b.releases}]
        /\ keeping' = keeping \cup {[name |-> b.name, key |-> b.releases]}
     \/ UNCHANGED <<shown, keeping>>
  /\ UNCHANGED <<revision, tags, arcs, generation, loads, offered, listings, viewTask, writing, disk, typed>>

\* Store::save_blame, under the key of the list it was attributed with.
KeepBlame(k) ==
  /\ keeping' = keeping \ {k}
  /\ disk' = IF disk[k.name].stored THEN [disk EXCEPT ![k.name].rows = @ \cup {k.key}] ELSE disk
  /\ UNCHANGED <<revision, tags, shown, arcs, generation, loads, offered, listings, blaming, viewTask, writing, typed>>

-----------------------------------------------------------------------------
(* Saving the view.                                                        *)

\* The reader types in the summary, or moves: schedule_view_save.
TypeSummary ==
  /\ Active /\ typed < MaxTyping
  /\ typed' = typed + 1
  /\ shown' = Scheduled([shown EXCEPT !.view.text = typed + 1])
  /\ viewTask' = TaskFor(shown)
  /\ UNCHANGED <<revision, tags, arcs, generation, loads, offered, listings, blaming, keeping, writing, disk>>

\* The timer of a save: the view as it is now, unless it changed again.
ViewTimer(t) ==
  /\ t.phase = "timer"
  /\ IF shown.name = t.name /\ shown.view.rev = t.rev
       THEN /\ viewTask' = {[t EXCEPT !.phase = "saving"]}
            /\ writing' = writing \cup {[name |-> t.name, view |-> shown.view]}
       ELSE viewTask' = {} /\ UNCHANGED writing
  /\ UNCHANGED <<revision, tags, shown, arcs, generation, loads, offered, listings, blaming, keeping, disk, typed>>

\* Mutant: a save writes whatever its revision is.
WriteViewAlways(w) ==
  /\ writing' = writing \ {w}
  /\ disk' = [disk EXCEPT ![w.name].view = w.view]
  /\ viewTask' = IF viewTask = {[name |-> w.name, rev |-> w.view.rev, phase |-> "saving"]} THEN {} ELSE viewTask
  /\ shown' = IF viewTask' = {} /\ shown.name = w.name
                THEN [shown EXCEPT !.ack = IF @ < w.view.rev THEN w.view.rev ELSE @] ELSE shown
  /\ UNCHANGED <<revision, tags, arcs, generation, loads, offered, listings, blaming, keeping, typed>>

\* Store::save_view keeps the newer revision; the task that waits for this
\* save acknowledges it if the snapshot is still shown.
WriteView(w) ==
  LET mine == [name |-> w.name, rev |-> w.view.rev, phase |-> "saving"] \in viewTask
  IN /\ writing' = writing \ {w}
     /\ disk' = IF w.view.rev >= disk[w.name].view.rev THEN [disk EXCEPT ![w.name].view = w.view] ELSE disk
     /\ viewTask' = IF mine THEN {} ELSE viewTask
     /\ shown' = IF mine /\ shown.name = w.name
                   THEN [shown EXCEPT !.ack = IF @ < w.view.rev THEN w.view.rev ELSE @] ELSE shown
     /\ UNCHANGED <<revision, tags, arcs, generation, loads, offered, listings, blaming, keeping, typed>>

\* The store refuses a save: "View not saved", until the next change.
WriteViewFails(w) ==
  /\ writing' = writing \ {w}
  /\ viewTask' = viewTask \ {[name |-> w.name, rev |-> w.view.rev, phase |-> "saving"]}
  /\ UNCHANGED <<revision, tags, shown, arcs, generation, loads, offered, listings, blaming, keeping, disk, typed>>

-----------------------------------------------------------------------------
\* Somebody pushes a second revision of a source.
SourceMoves(a) ==
  /\ revision[a] = 1
  /\ revision' = [revision EXCEPT ![a] = 2]
  /\ UNCHANGED <<tags, shown, arcs, generation, loads, offered, listings, blaming, keeping, viewTask, writing, disk, typed>>

\* Somebody tags a release.
TagsMove ==
  /\ tags < MaxTags
  /\ tags' = tags + 1
  /\ UNCHANGED <<revision, shown, arcs, generation, loads, offered, listings, blaming, keeping, viewTask, writing, disk, typed>>

SourcesNext ==
  \/ \E a \in Addresses, how \in {"open", "resume", "refresh"} : Open(a, how)
  \/ \E l \in loads : LoadReads(l) \/ LoadFails(l) \/ LoadAnswered(l)
  \/ AcceptOffer
  \/ \E l \in listings : ListingReads(l) \/ ListingAnswered(l)
  \/ BlameBegins \/ \E b \in blaming : BlameAnswered(b)
  \/ \E k \in keeping : KeepBlame(k)
  \/ TypeSummary
  \/ \E t \in viewTask : ViewTimer(t)
  \/ \E w \in writing : WriteView(w) \/ WriteViewFails(w)
  \/ \E a \in Addresses : SourceMoves(a)
  \/ TagsMove

SourcesSpec == SourcesInit /\ [][SourcesNext]_sourceVars

-----------------------------------------------------------------------------
ViewType == [rev : Nat, text : Nat]

\* What a load hands to the window.
HandedType == [name : Names, releases : Nat, blame : SUBSET Nat, view : ViewType]

\* Before the first install nothing is shown.
ShownType ==
  [name : Names \cup {<<NoAddress, 0>>}, releases : Nat, blame : SUBSET Nat, arc : Nat, gen : Nat,
   view : ViewType, ack : Nat]

LoadType ==
  [gen : Nat, address : Addresses, how : {"open", "resume", "refresh"}, cancelled : BOOLEAN,
   answer : SUBSET HandedType]

ListingType == [arc : Nat, name : Names, cancelled : BOOLEAN, read : BOOLEAN, found : Nat]

KeptType == [stored : BOOLEAN, releases : Nat, rows : SUBSET Nat, view : ViewType]

\* Every variable has its type.
SourcesTypeOK ==
  /\ revision \in [Addresses -> 1 .. 2] /\ tags \in Nat
  /\ shown \in ShownType /\ (Active <=> shown.name \in Names)
  /\ arcs \in Nat /\ generation \in Nat /\ typed \in Nat
  /\ loads \subseteq LoadType
  /\ offered \subseteq [handed : HandedType, gen : Nat]
  /\ listings \subseteq ListingType
  /\ blaming \subseteq [arc : Nat, name : Names, releases : Nat, cancelled : BOOLEAN]
  /\ keeping \subseteq [name : Names, key : Nat]
  /\ viewTask \subseteq [name : Names, rev : Nat, phase : {"timer", "saving"}]
  /\ writing \subseteq [name : Names, view : ViewType]
  /\ disk \in [Names -> KeptType]

\* Release marks on screen were attributed with the list on screen, although
\* refreshes, release reads and blame reads answer in any order and found
\* blame is written to the store late; so are those a resumed snapshot has.
BlameOfItsList ==
  /\ shown.blame \subseteq {shown.releases}
  /\ \A l \in loads : \A h \in l.answer : h.blame \subseteq {h.releases}

\* The view revision that the window counts as saved is stored, or a later one
\* of the same snapshot is, although saves run on threads and overtake each
\* other (schedule_view_save, Store::save_view).
AckedViewStored ==
  Active => disk[shown.name].view.rev >= shown.ack

\* The inductive form of BlameOfItsList: a list comes on screen with a new number
\* of the snapshot, so a blame read with the number on screen is for the list on
\* screen; what waits to be accepted is like what is on its way.
BlameInv ==
  /\ BlameOfItsList
  /\ \A o \in offered : o.handed.blame \subseteq {o.handed.releases}
  /\ shown.arc = arcs
  /\ \A b \in blaming : b.arc =< arcs /\ (b.arc = shown.arc => b.releases = shown.releases)

\* The inductive form of AckedViewStored: a view that was handed out is counted as
\* saved when it is installed, and may have been overtaken by later saves since.
ViewInv ==
  /\ AckedViewStored
  /\ \A l \in loads : \A h \in l.answer : h.view.rev =< disk[h.name].view.rev
  /\ \A o \in offered : o.handed.view.rev =< disk[o.handed.name].view.rev
=============================================================================
