---------------------------- MODULE ReadingProofs ----------------------------
(***************************************************************************)
(* What a window reads and keeps.                                          *)
(*                                                                         *)
(* Sources: for any number of sources, opens, refreshes and answers in any *)
(* order, the release marks on screen belong to the list on screen, and a  *)
(* view that counts as saved is stored.                                    *)
(*                                                                         *)
(* Capture: a snapshot read with many requests shows one version of its    *)
(* change and was read with one account. What carries the argument is that *)
(* the content lies between two readings of both (the order of the stages),*)
(* so that a second reading that agrees either means that nothing moved or *)
(* that it moved and came back.                                            *)
(*                                                                         *)
(* Retention: no start of the program takes away work that is not finished.*)
(*                                                                         *)
(* Coverage, Evidence, Trails: nothing is left out in silence, nothing     *)
(* turns green that has not earned it, and what is shown is the Change     *)
(* that the address names.                                                 *)
(***************************************************************************)
EXTENDS Sources, Capture, Retention, Coverage, Evidence, Trails, FiniteSetTheorems, SequenceTheorems,
        WellFoundedInduction, TLAPS

\* The handlers and threads of the window, split the way the proofs below do.
LEMMA SourcesCases ==
  ASSUME SourcesNext
  PROVE  \/ \E a \in Addresses, how \in {"open", "resume", "refresh"} : Open(a, how)
         \/ \E l \in loads : LoadReads(l)
         \/ \E l \in loads : LoadFails(l)
         \/ \E l \in loads : LoadAnswered(l)
         \/ AcceptOffer
         \/ \E l \in listings : ListingReads(l)
         \/ \E l \in listings : ListingAnswered(l)
         \/ BlameBegins
         \/ \E b \in blaming : BlameAnswered(b)
         \/ \E k \in keeping : KeepBlame(k)
         \/ TypeSummary
         \/ \E t \in viewTask : ViewTimer(t)
         \/ \E w \in writing : WriteView(w)
         \/ \E w \in writing : WriteViewFails(w)
         \/ \E a \in Addresses : SourceMoves(a)
         \/ TagsMove
  BY DEF SourcesNext

-----------------------------------------------------------------------------
(* Types.                                                                  *)

\* load_releases asks for a snapshot of the store.
LEMMA ListingTypes ==
  ASSUME SourcesTypeOK, NEW s \in ShownType, s.name \in Names
  PROVE  Listing(s) \subseteq ListingType
<1>1. \A l \in listings : [l EXCEPT !.cancelled = TRUE] \in ListingType
  BY DEF SourcesTypeOK, ListingType
<1>2. [arc |-> s.arc, name |-> s.name, cancelled |-> FALSE, read |-> FALSE, found |-> 0]
        \in ListingType
  BY DEF ShownType, ListingType
<1> QED BY <1>1, <1>2 DEF Listing

\* install shows what it was handed.
LEMMA InstallTypes ==
  ASSUME SourcesTypeOK, NEW h \in HandedType, NEW g \in Nat, Install(h, g)
  PROVE  /\ shown' \in ShownType /\ shown'.name = h.name /\ h.name \in Names
         /\ shown'.releases = h.releases /\ shown'.blame = h.blame
         /\ shown'.arc = arcs + 1 /\ arcs' = arcs + 1 /\ shown'.ack = h.view.rev
         /\ offered' = {}
         /\ viewTask' \subseteq [name : Names, rev : Nat, phase : {"timer", "saving"}]
         /\ listings' \subseteq ListingType
<1> DEFINE s == [name |-> h.name, releases |-> h.releases, blame |-> h.blame,
                 arc |-> arcs + 1, gen |-> g, view |-> h.view, ack |-> h.view.rev]
<1>1. /\ h.name \in Names /\ h.releases \in Nat /\ h.blame \in SUBSET Nat
      /\ h.view \in ViewType /\ h.view.rev \in Nat /\ arcs \in Nat
  BY DEF HandedType, ViewType, SourcesTypeOK
<1>2. s \in ShownType /\ s.name = h.name /\ s.view.rev \in Nat
  BY <1>1 DEF ShownType, ViewType
<1>3. shown' = Scheduled(s) /\ viewTask' = TaskFor(s) /\ arcs' = arcs + 1 /\ offered' = {}
      /\ listings' = Listing(s)
  BY DEF Install
<1>4. Listing(s) \subseteq ListingType
  BY <1>1, <1>2, ListingTypes
<1>5. /\ Scheduled(s).name = h.name /\ Scheduled(s).releases = h.releases
      /\ Scheduled(s).blame = h.blame /\ Scheduled(s).arc = arcs + 1
      /\ Scheduled(s).ack = h.view.rev
  BY DEF Scheduled
<1>6. Scheduled(s) \in ShownType
  BY <1>2 DEF Scheduled, ShownType, ViewType
<1>7. TaskFor(s) \subseteq [name : Names, rev : Nat, phase : {"timer", "saving"}]
  BY <1>1, <1>2 DEF TaskFor
<1> HIDE DEF s
<1> QED BY <1>1, <1>3, <1>4, <1>5, <1>6, <1>7

\* What a load reads of a source is one of its snapshots.
LEMMA ReadTypes ==
  ASSUME SourcesTypeOK, NEW a \in Addresses
  PROVE  /\ <<a, 1>> \in Names /\ <<a, revision[a]>> \in Names
         /\ \A n \in Names : disk[n] \in KeptType /\ disk[n].view \in ViewType
                             /\ disk[n].view.rev \in Nat
  BY DEF SourcesTypeOK, Names, KeptType, ViewType

\* Storing a snapshot keeps its rows' type.
LEMMA PutTypes ==
  ASSUME NEW d \in [Names -> KeptType], NEW n \in Names, NEW list \in Nat
  PROVE  Put(d, n, list) \in [Names -> KeptType]
<1>1. d[n] \in [stored : BOOLEAN, releases : Nat, rows : SUBSET Nat, view : ViewType]
  BY DEF KeptType
<1>2. [d[n] EXCEPT !.stored = TRUE, !.releases = list, !.rows = {}] \in KeptType
  BY <1>1 DEF KeptType
<1> QED BY <1>2 DEF Put

\* Every handler and thread keeps the types.
LEMMA SourcesTypeStep ==
  ASSUME SourcesTypeOK, [SourcesNext]_sourceVars
  PROVE  SourcesTypeOK'
<1> USE SourcesAssumption DEF SourcesTypeOK, Active
<1>1. ASSUME NEW a \in Addresses, NEW how \in {"open", "resume", "refresh"}, Open(a, how)
      PROVE  SourcesTypeOK'
  <2>1. loads' \subseteq LoadType
    <3>1. \A l \in loads : [l EXCEPT !.cancelled = TRUE] \in LoadType
      BY DEF LoadType
    <3>2. [gen |-> generation + 1, address |-> a, how |-> how, cancelled |-> FALSE, answer |-> {}]
            \in LoadType
      BY DEF LoadType
    <3> QED BY <1>1, <3>1, <3>2 DEF Open
  <2>2. blaming' \subseteq [arc : Nat, name : Names, releases : Nat, cancelled : BOOLEAN]
    BY <1>1 DEF Open
  <2> QED BY <1>1, <2>1, <2>2 DEF Open
<1>2. ASSUME NEW l \in loads, LoadReads(l)
      PROVE  SourcesTypeOK'
  <2> DEFINE h == IF l.how = "resume" THEN FromDisk(<<l.address, 1>>) ELSE Fresh(l.address)
             g == [name |-> h.name, releases |-> h.releases, blame |-> h.blame,
                   view |-> disk[h.name].view]
  <2>1. l \in LoadType /\ l.address \in Addresses
    BY DEF LoadType
  <2>2. h.name \in Names /\ h.releases \in Nat /\ h.blame \in SUBSET Nat
    BY <2>1, ReadTypes DEF FromDisk, Fresh, KeptType
  <2>3. g \in HandedType
    BY <2>2, ReadTypes, <2>1 DEF HandedType
  <2>4. /\ loads' = (loads \ {l}) \cup {[l EXCEPT !.answer = {g}]}
        /\ disk' = IF l.how = "resume" THEN disk ELSE Put(disk, h.name, 0)
    BY <1>2 DEF LoadReads
  <2> HIDE DEF h, g
  <2>5. loads' \subseteq LoadType
    BY <2>1, <2>3, <2>4 DEF LoadType
  <2>6. disk' \in [Names -> KeptType]
    BY <2>2, <2>4, PutTypes
  <2> QED BY <1>2, <2>5, <2>6 DEF LoadReads
<1>3. ASSUME NEW l \in loads, LoadFails(l)
      PROVE  SourcesTypeOK'
  BY <1>3 DEF LoadFails
<1>4. ASSUME NEW l \in loads, LoadAnswered(l)
      PROVE  SourcesTypeOK'
  <2>1. l \in LoadType /\ l.gen \in Nat /\ l.answer \in SUBSET HandedType
    BY DEF LoadType
  <2>2. /\ loads' \subseteq LoadType
        /\ UNCHANGED <<revision, tags, generation, blaming, keeping, writing, disk, typed>>
    BY <1>4 DEF LoadAnswered
  <2>3. PICK h \in l.answer :
          \/ UNCHANGED <<shown, arcs, offered, listings, viewTask>>
          \/ /\ offered' = {[handed |-> h, gen |-> l.gen]}
             /\ UNCHANGED <<shown, arcs, listings, viewTask>>
          \/ /\ h.name = shown.name
             /\ shown' = [shown EXCEPT !.releases = h.releases, !.blame = h.blame, !.arc = arcs + 1]
             /\ arcs' = arcs + 1
             /\ listings' = Listing(shown')
             /\ UNCHANGED <<offered, viewTask>>
          \/ Install(h, l.gen)
    BY <1>4 DEF LoadAnswered
  <2>4. h \in HandedType /\ h.name \in Names
    BY <2>1 DEF HandedType
  <2>5. CASE UNCHANGED <<shown, arcs, offered, listings, viewTask>>
    BY <2>2, <2>5
  <2>6. CASE /\ offered' = {[handed |-> h, gen |-> l.gen]}
             /\ UNCHANGED <<shown, arcs, listings, viewTask>>
    BY <2>1, <2>2, <2>4, <2>6
  <2>7. CASE /\ h.name = shown.name
             /\ shown' = [shown EXCEPT !.releases = h.releases, !.blame = h.blame, !.arc = arcs + 1]
             /\ arcs' = arcs + 1
             /\ listings' = Listing(shown')
             /\ UNCHANGED <<offered, viewTask>>
    <3>1. shown' \in ShownType /\ shown'.name \in Names
      <4>1. h.releases \in Nat /\ h.blame \in SUBSET Nat /\ arcs + 1 \in Nat
        BY <2>4 DEF HandedType
      <4>2. shown \in ShownType
        OBVIOUS
      <4> HIDE DEF SourcesTypeOK
      <4>3. shown' \in ShownType
        BY <2>7, <4>1, <4>2 DEF ShownType
      <4> QED BY <2>4, <2>7, <4>2, <4>3 DEF ShownType
    <3>2. listings' \subseteq ListingType
      BY <2>7, <3>1, ListingTypes
    <3> QED BY <2>2, <2>7, <3>1, <3>2
  <2>8. CASE Install(h, l.gen)
    BY <2>1, <2>2, <2>4, <2>8, InstallTypes
  <2> QED BY <2>3, <2>5, <2>6, <2>7, <2>8
<1>5. CASE AcceptOffer
  <2>1. PICK o \in offered : Install(o.handed, o.gen)
    BY <1>5 DEF AcceptOffer
  <2>2. o.handed \in HandedType /\ o.gen \in Nat
    OBVIOUS
  <2> QED BY <1>5, <2>1, <2>2, InstallTypes DEF AcceptOffer
<1>6. ASSUME NEW l \in listings, ListingReads(l)
      PROVE  SourcesTypeOK'
  <2>1. PICK found \in {0, tags} :
          /\ listings' = (listings \ {l}) \cup {[l EXCEPT !.read = TRUE, !.found = found]}
          /\ disk' = IF l.cancelled THEN disk ELSE Put(disk, l.name, found)
    BY <1>6 DEF ListingReads
  <2>2. found \in Nat /\ l \in ListingType /\ l.name \in Names
    BY DEF ListingType
  <2>3. listings' \subseteq ListingType
    BY <2>1, <2>2 DEF ListingType
  <2>4. disk' \in [Names -> KeptType]
    BY <2>1, <2>2, PutTypes
  <2> QED BY <1>6, <2>3, <2>4 DEF ListingReads
<1>7. ASSUME NEW l \in listings, ListingAnswered(l)
      PROVE  SourcesTypeOK'
  <2>1. l.name \in Names /\ l.found \in Nat
    BY DEF ListingType
  <2>2. shown' \in ShownType /\ arcs' \in Nat /\ (shown'.arc > 0 <=> shown'.name \in Names)
    <3>1. CASE l.cancelled \/ shown.name # l.name
      BY <1>7, <3>1 DEF ListingAnswered
    <3>2. CASE ~(l.cancelled \/ shown.name # l.name)
      <4>1. /\ shown' = [shown EXCEPT !.releases = l.found, !.blame = {}, !.arc = arcs + 1]
            /\ arcs' = arcs + 1 /\ {} \in SUBSET Nat /\ arcs + 1 \in Nat
        BY <1>7, <3>2 DEF ListingAnswered
      <4>2. shown \in ShownType
        OBVIOUS
      <4> HIDE DEF SourcesTypeOK
      <4>3. shown' \in ShownType
        BY <2>1, <4>1, <4>2 DEF ShownType
      <4>4. shown'.name = shown.name /\ shown'.arc = arcs + 1
        BY <4>1, <4>2 DEF ShownType
      <4>5. arcs + 1 > 0
        BY DEF SourcesTypeOK
      <4> QED BY <2>1, <3>2, <4>1, <4>3, <4>4, <4>5
    <3> QED BY <3>1, <3>2
  <2> QED BY <1>7, <2>2 DEF ListingAnswered
<1>8. CASE BlameBegins
  <2>1. blaming' \subseteq [arc : Nat, name : Names, releases : Nat, cancelled : BOOLEAN]
    BY <1>8 DEF BlameBegins, ShownType
  <2> QED BY <1>8, <2>1 DEF BlameBegins
<1>9. ASSUME NEW b \in blaming, BlameAnswered(b)
      PROVE  SourcesTypeOK'
  <2>1. shown' \in ShownType /\ shown'.name = shown.name /\ shown'.arc = shown.arc
    BY <1>9 DEF BlameAnswered, ShownType
  <2>2. keeping' \subseteq [name : Names, key : Nat]
    BY <1>9 DEF BlameAnswered
  <2> QED BY <1>9, <2>1, <2>2 DEF BlameAnswered
<1>10. ASSUME NEW k \in keeping, KeepBlame(k)
       PROVE  SourcesTypeOK'
  <2>1. disk' \in [Names -> KeptType]
    BY <1>10 DEF KeepBlame, KeptType
  <2> QED BY <1>10, <2>1 DEF KeepBlame
<1>11. CASE TypeSummary
  <2>1. shown' \in ShownType /\ shown'.name = shown.name /\ shown.name \in Names
        /\ shown'.arc = shown.arc
    <3>1. /\ shown' = [[shown EXCEPT !.view.text = typed + 1] EXCEPT !.view.rev = @ + 1]
          /\ shown.view \in ViewType
      BY <1>11 DEF TypeSummary, Scheduled, ShownType
    <3>2. [shown EXCEPT !.view.text = typed + 1] \in ShownType
      BY DEF ShownType, ViewType
    <3>3. \A s \in ShownType : [s EXCEPT !.view.rev = @ + 1] \in ShownType
      BY DEF ShownType, ViewType
    <3> QED BY <1>11, <3>1, <3>2, <3>3 DEF TypeSummary, ShownType
  <2>2. viewTask' \subseteq [name : Names, rev : Nat, phase : {"timer", "saving"}]
    BY <1>11, <2>1 DEF TypeSummary, TaskFor, ShownType, ViewType
  <2> QED BY <1>11, <2>1, <2>2 DEF TypeSummary
<1>12. ASSUME NEW t \in viewTask, ViewTimer(t)
       PROVE  SourcesTypeOK'
  <2>1. writing' \subseteq [name : Names, view : ViewType]
    BY <1>12 DEF ViewTimer, ShownType
  <2>2. viewTask' \subseteq [name : Names, rev : Nat, phase : {"timer", "saving"}]
    BY <1>12 DEF ViewTimer
  <2> QED BY <1>12, <2>1, <2>2 DEF ViewTimer
<1>13. ASSUME NEW w \in writing, WriteView(w)
       PROVE  SourcesTypeOK'
  <2>1. disk' \in [Names -> KeptType]
    BY <1>13 DEF WriteView, KeptType
  <2>2. shown' \in ShownType /\ shown'.name = shown.name /\ shown'.arc = shown.arc
    BY <1>13 DEF WriteView, ShownType, ViewType
  <2> QED BY <1>13, <2>1, <2>2 DEF WriteView
<1>14. ASSUME NEW w \in writing, WriteViewFails(w)
       PROVE  SourcesTypeOK'
  BY <1>14 DEF WriteViewFails
<1>15. ASSUME NEW a \in Addresses, SourceMoves(a)
       PROVE  SourcesTypeOK'
  BY <1>15 DEF SourceMoves
<1>16. CASE TagsMove
  BY <1>16 DEF TagsMove
<1>17. CASE UNCHANGED sourceVars
  BY <1>17 DEF sourceVars
<1> QED
  BY <1>1, <1>2, <1>3, <1>4, <1>5, <1>6, <1>7, <1>8, <1>9, <1>10, <1>11, <1>12, <1>13, <1>14,
     <1>15, <1>16, <1>17, SourcesCases

\* At the start nothing is shown and nothing is on its way.
LEMMA SourcesStart ==
  ASSUME SourcesInit
  PROVE  SourcesTypeOK /\ BlameInv /\ ViewInv
<1> USE DEF SourcesInit, Active
<1>1. shown \in ShownType
  BY DEF ShownType, ViewType
<1>2. disk \in [Names -> KeptType]
  BY DEF KeptType, ViewType
<1>3. SourcesTypeOK
  <2>1. <<NoAddress, 0>> \notin Names /\ shown.name = <<NoAddress, 0>> /\ shown.arc = 0
    BY DEF Names
  <2> QED BY <1>1, <1>2, <2>1 DEF SourcesTypeOK
<1> QED BY <1>3 DEF BlameInv, BlameOfItsList, ViewInv, AckedViewStored

\* The window shows only well typed states, for any sets of sources and bounds.
THEOREM SourcesTypeCorrect == SourcesSpec => []SourcesTypeOK
  BY SourcesStart, SourcesTypeStep, PTL DEF SourcesSpec

-----------------------------------------------------------------------------
(* Release marks.  Found blame is laid over the snapshot with the number   *)
(* it was read for; every handler that brings another list also brings     *)
(* another number.                                                         *)

\* A step that brings no list, no blame and no blame read keeps the marks.
LEMMA BlameFrame ==
  ASSUME SourcesTypeOK, BlameInv,
         arcs' = arcs, shown'.arc = shown.arc,
         shown'.releases = shown.releases, shown'.blame = shown.blame,
         \A l \in loads' : l.answer = {} \/ \E k \in loads : k.answer = l.answer,
         offered' \subseteq offered,
         \A b \in blaming' : \E c \in blaming : b.arc = c.arc /\ b.releases = c.releases
  PROVE  BlameInv'
<1>1. BlameOfItsList'
  BY DEF BlameInv, BlameOfItsList
<1> QED BY <1>1 DEF BlameInv

\* A step that brings another list with the next number, and blame of that list.
LEMMA BlameNewList ==
  ASSUME SourcesTypeOK, BlameInv,
         arcs' = arcs + 1, shown'.arc = arcs + 1, shown'.blame \subseteq {shown'.releases},
         loads' \subseteq loads, offered' \subseteq offered, blaming' = blaming
  PROVE  BlameInv'
<1>1. BlameOfItsList'
  BY DEF BlameInv, BlameOfItsList
<1>2. arcs \in Nat /\ \A b \in blaming : b.arc \in Nat
  BY DEF SourcesTypeOK
<1>3. \A b \in blaming : b.arc =< arcs
  BY DEF BlameInv
<1> QED BY <1>1, <1>2, <1>3 DEF BlameInv

\* Every step keeps the marks with their list.
LEMMA BlameStep ==
  ASSUME SourcesTypeOK, BlameInv, [SourcesNext]_sourceVars
  PROVE  BlameInv'
<1>1. ASSUME NEW a \in Addresses, NEW how \in {"open", "resume", "refresh"}, Open(a, how)
      PROVE  BlameInv'
  <2>1. \A l \in loads : [l EXCEPT !.cancelled = TRUE].answer = l.answer
    BY DEF SourcesTypeOK, LoadType
  <2>2. \A l \in loads' : l.answer = {} \/ \E k \in loads : k.answer = l.answer
    <3> DEFINE new == [gen |-> generation + 1, address |-> a, how |-> how, cancelled |-> FALSE,
                       answer |-> {}]
    <3>1. loads' = {[l EXCEPT !.cancelled = TRUE] : l \in loads} \cup {new} /\ new.answer = {}
      BY <1>1 DEF Open
    <3> HIDE DEF new
    <3> QED BY <2>1, <3>1
  <2>3. \A b \in blaming' : \E c \in blaming : b.arc = c.arc /\ b.releases = c.releases
    BY <1>1 DEF Open, SourcesTypeOK
  <2> QED BY <1>1, <2>2, <2>3, BlameFrame DEF Open
<1>2. ASSUME NEW l \in loads, LoadReads(l)
      PROVE  BlameInv'
  <2> DEFINE h == IF l.how = "resume" THEN FromDisk(<<l.address, 1>>) ELSE Fresh(l.address)
             g == [name |-> h.name, releases |-> h.releases, blame |-> h.blame,
                   view |-> disk[h.name].view]
  <2>1. l \in LoadType
    BY DEF SourcesTypeOK
  <2>2. g.blame \subseteq {g.releases}
    BY DEF FromDisk, Fresh
  <2>3. /\ loads' = (loads \ {l}) \cup {[l EXCEPT !.answer = {g}]}
        /\ UNCHANGED <<shown, arcs, offered, blaming>>
    BY <1>2 DEF LoadReads
  <2> HIDE DEF h, g
  <2>4. \A k \in loads' : k \in loads \/ k.answer = {g}
    BY <2>1, <2>3 DEF LoadType
  <2>5. BlameOfItsList'
    BY <2>2, <2>3, <2>4 DEF BlameInv, BlameOfItsList
  <2> QED BY <2>3, <2>5 DEF BlameInv
<1>3. ASSUME NEW l \in loads, LoadFails(l)
      PROVE  BlameInv'
  BY <1>3, BlameFrame DEF LoadFails
<1>4. ASSUME NEW l \in loads, LoadAnswered(l)
      PROVE  BlameInv'
  <2>1. l.answer \in SUBSET HandedType /\ l.gen \in Nat
    BY DEF SourcesTypeOK, LoadType
  <2>2. loads' = loads \ {l} /\ blaming' = blaming
    BY <1>4 DEF LoadAnswered
  <2>3. PICK h \in l.answer :
          \/ UNCHANGED <<shown, arcs, offered>>
          \/ offered' = {[handed |-> h, gen |-> l.gen]} /\ UNCHANGED <<shown, arcs>>
          \/ /\ shown' = [shown EXCEPT !.releases = h.releases, !.blame = h.blame, !.arc = arcs + 1]
             /\ arcs' = arcs + 1 /\ UNCHANGED offered
          \/ Install(h, l.gen)
    BY <1>4 DEF LoadAnswered
  <2>4. h.blame \subseteq {h.releases} /\ h \in HandedType
    BY <2>1 DEF BlameInv, BlameOfItsList
  <2>5. CASE UNCHANGED <<shown, arcs, offered>>
    BY <2>2, <2>5, BlameFrame
  <2>6. CASE offered' = {[handed |-> h, gen |-> l.gen]} /\ UNCHANGED <<shown, arcs>>
    <3>1. BlameOfItsList'
      BY <2>2, <2>6 DEF BlameInv, BlameOfItsList
    <3> QED BY <2>2, <2>4, <2>6, <3>1 DEF BlameInv
  <2>7. CASE /\ shown' = [shown EXCEPT !.releases = h.releases, !.blame = h.blame, !.arc = arcs + 1]
             /\ arcs' = arcs + 1 /\ UNCHANGED offered
    <3>1. shown'.blame = h.blame /\ shown'.releases = h.releases /\ shown'.arc = arcs + 1
      BY <2>7 DEF SourcesTypeOK, ShownType
    <3> QED BY <2>2, <2>4, <2>7, <3>1, BlameNewList
  <2>8. CASE Install(h, l.gen)
    <3>1. /\ shown'.blame = h.blame /\ shown'.releases = h.releases /\ shown'.arc = arcs + 1
          /\ arcs' = arcs + 1 /\ offered' = {}
      BY <2>1, <2>4, <2>8, InstallTypes
    <3> QED BY <2>2, <2>4, <3>1, BlameNewList
  <2> QED BY <2>3, <2>5, <2>6, <2>7, <2>8
<1>5. CASE AcceptOffer
  <2>1. PICK o \in offered : Install(o.handed, o.gen)
    BY <1>5 DEF AcceptOffer
  <2>2. o.handed \in HandedType /\ o.gen \in Nat /\ o.handed.blame \subseteq {o.handed.releases}
    BY DEF SourcesTypeOK, BlameInv
  <2>3. /\ shown'.blame = o.handed.blame /\ shown'.releases = o.handed.releases
        /\ shown'.arc = arcs + 1 /\ arcs' = arcs + 1 /\ offered' = {}
    BY <2>1, <2>2, InstallTypes
  <2> QED BY <1>5, <2>2, <2>3, BlameNewList DEF AcceptOffer
<1>6. ASSUME NEW l \in listings, ListingReads(l)
      PROVE  BlameInv'
  BY <1>6, BlameFrame DEF ListingReads
<1>7. ASSUME NEW l \in listings, ListingAnswered(l)
      PROVE  BlameInv'
  <2>1. UNCHANGED <<loads, offered, blaming>>
    BY <1>7 DEF ListingAnswered
  <2>2. CASE UNCHANGED <<shown, arcs>>
    BY <2>1, <2>2, BlameFrame
  <2>3. CASE /\ shown' = [shown EXCEPT !.releases = l.found, !.blame = {}, !.arc = arcs + 1]
             /\ arcs' = arcs + 1
    <3>1. shown'.blame = {} /\ shown'.arc = arcs + 1
      BY <2>3 DEF SourcesTypeOK, ShownType
    <3> QED BY <2>1, <2>3, <3>1, BlameNewList
  <2> QED BY <1>7, <2>2, <2>3 DEF ListingAnswered
<1>8. CASE BlameBegins
  <2>1. /\ UNCHANGED <<shown, arcs, loads, offered>>
        /\ \A b \in blaming' : b.arc = shown.arc /\ b.releases = shown.releases
    BY <1>8 DEF BlameBegins
  <2>2. BlameOfItsList'
    BY <2>1 DEF BlameInv, BlameOfItsList
  <2>3. arcs \in Nat
    BY DEF SourcesTypeOK
  <2> QED BY <2>1, <2>2, <2>3 DEF BlameInv
<1>9. ASSUME NEW b \in blaming, BlameAnswered(b)
      PROVE  BlameInv'
  <2>1. blaming' = {} /\ UNCHANGED <<arcs, loads, offered>>
    BY <1>9 DEF BlameAnswered
  <2>2. CASE UNCHANGED shown
    BY <2>1, <2>2, BlameFrame
  <2>3. CASE shown.arc = b.arc /\ shown' = [shown EXCEPT !.blame = @ \cup {b.releases}]
    <3>1. /\ shown'.blame = shown.blame \cup {b.releases}
          /\ shown'.releases = shown.releases /\ shown'.arc = shown.arc
      BY <2>3 DEF SourcesTypeOK, ShownType
    <3>2. b.releases = shown.releases
      BY <2>3 DEF BlameInv
    <3>3. BlameOfItsList'
      BY <2>1, <3>1, <3>2 DEF BlameInv, BlameOfItsList
    <3> QED BY <2>1, <3>1, <3>3 DEF BlameInv
  <2> QED BY <1>9, <2>2, <2>3 DEF BlameAnswered
<1>10. ASSUME NEW k \in keeping, KeepBlame(k)
       PROVE  BlameInv'
  BY <1>10, BlameFrame DEF KeepBlame
<1>11. CASE TypeSummary
  <2>1. /\ shown'.arc = shown.arc /\ shown'.releases = shown.releases
        /\ shown'.blame = shown.blame
    BY <1>11 DEF TypeSummary, Scheduled, SourcesTypeOK, ShownType
  <2> QED BY <1>11, <2>1, BlameFrame DEF TypeSummary
<1>12. ASSUME NEW t \in viewTask, ViewTimer(t)
       PROVE  BlameInv'
  BY <1>12, BlameFrame DEF ViewTimer
<1>13. ASSUME NEW w \in writing, WriteView(w)
       PROVE  BlameInv'
  <2>1. /\ shown'.arc = shown.arc /\ shown'.releases = shown.releases
        /\ shown'.blame = shown.blame
    BY <1>13 DEF WriteView, SourcesTypeOK, ShownType
  <2> QED BY <1>13, <2>1, BlameFrame DEF WriteView
<1>14. ASSUME NEW w \in writing, WriteViewFails(w)
       PROVE  BlameInv'
  BY <1>14, BlameFrame DEF WriteViewFails
<1>15. ASSUME NEW a \in Addresses, SourceMoves(a)
       PROVE  BlameInv'
  BY <1>15, BlameFrame DEF SourceMoves
<1>16. CASE TagsMove
  BY <1>16, BlameFrame DEF TagsMove
<1>17. CASE UNCHANGED sourceVars
  BY <1>17, BlameFrame DEF sourceVars
<1> QED
  BY <1>1, <1>2, <1>3, <1>4, <1>5, <1>6, <1>7, <1>8, <1>9, <1>10, <1>11, <1>12, <1>13, <1>14,
     <1>15, <1>16, <1>17, SourcesCases

\* Release marks on screen were attributed with the list on screen, in whatever order
\* refreshes, release reads, blame reads and late writes of blame answer.
THEOREM MarksBelongToTheirList == SourcesSpec => []BlameOfItsList
<1>1. BlameInv => BlameOfItsList
  BY DEF BlameInv
<1> QED
  BY <1>1, SourcesStart, BlameStep, SourcesTypeCorrect, PTL DEF SourcesSpec

-----------------------------------------------------------------------------
(* Saved views.  No step takes a stored revision back (Store::save_view    *)
(* keeps the newer one, Put leaves views alone), so what was read of the   *)
(* store stays a lower bound of it until it is installed.                  *)

\* The stored revision of a view never goes back.
LEMMA StoredViewStep ==
  ASSUME SourcesTypeOK, [SourcesNext]_sourceVars, NEW n \in Names
  PROVE  disk[n].view.rev =< disk'[n].view.rev
<1>1. disk \in [Names -> KeptType] /\ disk[n].view.rev \in Nat
  BY DEF SourcesTypeOK, KeptType, ViewType
<1>2. CASE disk' = disk
  BY <1>1, <1>2
<1>3. ASSUME NEW m \in Names, NEW found, disk' = Put(disk, m, found)
      PROVE  disk'[n].view.rev = disk[n].view.rev
  BY <1>1, <1>3 DEF Put, KeptType
<1>4. ASSUME NEW l \in loads, LoadReads(l)
      PROVE  disk[n].view.rev =< disk'[n].view.rev
  <2>1. l.address \in Addresses
    BY DEF SourcesTypeOK, LoadType
  <2>2. disk' = disk \/ disk' = Put(disk, <<l.address, revision[l.address]>>, 0)
    BY <1>4 DEF LoadReads, Fresh
  <2>3. <<l.address, revision[l.address]>> \in Names
    BY <2>1, ReadTypes
  <2> QED BY <1>1, <1>2, <1>3, <2>2, <2>3
<1>5. ASSUME NEW l \in listings, ListingReads(l)
      PROVE  disk[n].view.rev =< disk'[n].view.rev
  <2>1. l.name \in Names
    BY DEF SourcesTypeOK, ListingType
  <2> QED BY <1>1, <1>3, <1>5, <2>1 DEF ListingReads
<1>6. ASSUME NEW k \in keeping, KeepBlame(k)
      PROVE  disk[n].view.rev =< disk'[n].view.rev
  BY <1>1, <1>6 DEF KeepBlame, SourcesTypeOK, KeptType
<1>7. ASSUME NEW w \in writing, WriteView(w)
      PROVE  disk[n].view.rev =< disk'[n].view.rev
  <2>1. w.name \in Names /\ w.view.rev \in Nat
    BY DEF SourcesTypeOK, ViewType
  <2> QED BY <1>1, <1>7, <2>1 DEF WriteView, KeptType
<1>8. CASE UNCHANGED disk
  BY <1>2, <1>8
<1> QED
  BY <1>4, <1>5, <1>6, <1>7, <1>8, SourcesCases
     DEF Open, LoadFails, LoadAnswered, AcceptOffer, ListingAnswered, BlameBegins, BlameAnswered,
         TypeSummary, ViewTimer, WriteViewFails, SourceMoves, TagsMove, sourceVars

\* A step that hands out nothing new and counts nothing more as saved.
LEMMA ViewFrame ==
  ASSUME SourcesTypeOK, SourcesTypeOK', ViewInv, [SourcesNext]_sourceVars,
         shown'.arc > 0 => shown.arc > 0 /\ shown'.name = shown.name,
         shown'.ack = shown.ack,
         \A l \in loads' : l.answer = {} \/ \E k \in loads : k.answer = l.answer,
         offered' \subseteq offered
  PROVE  ViewInv'
<1>1. \A n \in Names : disk[n].view.rev \in Nat /\ disk'[n].view.rev \in Nat
  BY DEF SourcesTypeOK, KeptType, ViewType
<1>2. \A n \in Names : disk[n].view.rev =< disk'[n].view.rev
  BY StoredViewStep
<1>3. \A k \in loads : \A h \in k.answer : h.name \in Names /\ h.view.rev \in Nat
  BY DEF SourcesTypeOK, LoadType, HandedType, ViewType
<1>4. \A o \in offered : o.handed.name \in Names /\ o.handed.view.rev \in Nat
  BY DEF SourcesTypeOK, HandedType, ViewType
<1>5. shown.ack \in Nat /\ (shown.arc > 0 => shown.name \in Names)
  BY DEF SourcesTypeOK, ShownType, Active
<1>6. AckedViewStored'
  BY <1>1, <1>2, <1>5 DEF AckedViewStored, ViewInv, Active
<1>7. \A l \in loads' : \A h \in l.answer : h.view.rev =< disk'[h.name].view.rev
  BY <1>1, <1>2, <1>3 DEF ViewInv
<1>8. \A o \in offered' : o.handed.view.rev =< disk'[o.handed.name].view.rev
  BY <1>1, <1>2, <1>4 DEF ViewInv
<1> QED BY <1>6, <1>7, <1>8 DEF ViewInv

\* install counts the revision it was handed as saved.
LEMMA ViewInstall ==
  ASSUME SourcesTypeOK, ViewInv, NEW h \in HandedType, NEW g \in Nat, Install(h, g),
         h.view.rev =< disk[h.name].view.rev, disk' = disk, loads' \subseteq loads
  PROVE  ViewInv'
<1>1. shown'.name = h.name /\ shown'.ack = h.view.rev /\ offered' = {}
  BY InstallTypes
<1>2. AckedViewStored'
  BY <1>1 DEF AckedViewStored, SourcesTypeOK, KeptType, ViewType, HandedType
<1> QED BY <1>1, <1>2 DEF ViewInv

\* Every step keeps what counts as saved in the store.
LEMMA ViewStep ==
  ASSUME SourcesTypeOK, SourcesTypeOK', ViewInv, [SourcesNext]_sourceVars
  PROVE  ViewInv'
<1>1. ASSUME NEW a \in Addresses, NEW how \in {"open", "resume", "refresh"}, Open(a, how)
      PROVE  ViewInv'
  <2>1. \A l \in loads : [l EXCEPT !.cancelled = TRUE].answer = l.answer
    BY DEF SourcesTypeOK, LoadType
  <2>2. \A l \in loads' : l.answer = {} \/ \E k \in loads : k.answer = l.answer
    <3> DEFINE new == [gen |-> generation + 1, address |-> a, how |-> how, cancelled |-> FALSE,
                       answer |-> {}]
    <3>1. loads' = {[l EXCEPT !.cancelled = TRUE] : l \in loads} \cup {new} /\ new.answer = {}
      BY <1>1 DEF Open
    <3> HIDE DEF new
    <3> QED BY <2>1, <3>1
  <2> QED BY <1>1, <2>2, ViewFrame DEF Open
<1>2. ASSUME NEW l \in loads, LoadReads(l)
      PROVE  ViewInv'
  <2> DEFINE h == IF l.how = "resume" THEN FromDisk(<<l.address, 1>>) ELSE Fresh(l.address)
             g == [name |-> h.name, releases |-> h.releases, blame |-> h.blame,
                   view |-> disk[h.name].view]
  <2>1. l \in LoadType /\ l.address \in Addresses
    BY DEF SourcesTypeOK, LoadType
  <2>2. h.name \in Names /\ g.name = h.name /\ g.view.rev = disk[h.name].view.rev
    BY <2>1, ReadTypes DEF FromDisk, Fresh
  <2>3. /\ loads' = (loads \ {l}) \cup {[l EXCEPT !.answer = {g}]}
        /\ UNCHANGED <<shown, offered>>
    BY <1>2 DEF LoadReads
  <2> HIDE DEF h, g
  <2>4. \A k \in loads' : k \in loads \/ k.answer = {g}
    BY <2>1, <2>3 DEF LoadType
  <2>5. \A n \in Names : /\ disk[n].view.rev \in Nat /\ disk'[n].view.rev \in Nat
                         /\ disk[n].view.rev =< disk'[n].view.rev
    <3>1. \A n \in Names : disk[n].view.rev \in Nat /\ disk'[n].view.rev \in Nat
      BY DEF SourcesTypeOK, KeptType, ViewType
    <3> QED BY <3>1, StoredViewStep
  <2>6. \A k \in loads : \A x \in k.answer : x.name \in Names /\ x.view.rev \in Nat
    BY DEF SourcesTypeOK, LoadType, HandedType, ViewType
  <2>7. \A k \in loads' : \A x \in k.answer : x.view.rev =< disk'[x.name].view.rev
    BY <2>2, <2>4, <2>5, <2>6 DEF ViewInv
  <2>8. \A o \in offered : o.handed.name \in Names /\ o.handed.view.rev \in Nat
    BY DEF SourcesTypeOK, HandedType, ViewType
  <2>9. \A o \in offered' : o.handed.view.rev =< disk'[o.handed.name].view.rev
    BY <2>3, <2>5, <2>8 DEF ViewInv
  <2>10. shown.ack \in Nat /\ (shown.arc > 0 => shown.name \in Names)
    BY DEF SourcesTypeOK, ShownType, Active
  <2>11. AckedViewStored'
    BY <2>3, <2>5, <2>10 DEF AckedViewStored, ViewInv, Active
  <2> QED BY <2>7, <2>9, <2>11 DEF ViewInv
<1>3. ASSUME NEW l \in loads, LoadFails(l)
      PROVE  ViewInv'
  BY <1>3, ViewFrame DEF LoadFails
<1>4. ASSUME NEW l \in loads, LoadAnswered(l)
      PROVE  ViewInv'
  <2>1. l.answer \in SUBSET HandedType /\ l.gen \in Nat
    BY DEF SourcesTypeOK, LoadType
  <2>2. loads' = loads \ {l} /\ disk' = disk
    BY <1>4 DEF LoadAnswered
  <2>3. PICK h \in l.answer :
          \/ UNCHANGED <<shown, offered>>
          \/ offered' = {[handed |-> h, gen |-> l.gen]} /\ UNCHANGED shown
          \/ /\ h.name = shown.name
             /\ shown' = [shown EXCEPT !.releases = h.releases, !.blame = h.blame, !.arc = arcs + 1]
             /\ UNCHANGED offered
          \/ Install(h, l.gen)
    BY <1>4 DEF LoadAnswered
  <2>4. h \in HandedType /\ h.view.rev =< disk[h.name].view.rev
    BY <2>1 DEF ViewInv
  <2>5. CASE UNCHANGED <<shown, offered>>
    BY <2>2, <2>5, ViewFrame
  <2>6. CASE offered' = {[handed |-> h, gen |-> l.gen]} /\ UNCHANGED shown
    <3>1. AckedViewStored'
      BY <2>2, <2>6 DEF AckedViewStored, ViewInv, Active
    <3> QED BY <2>2, <2>4, <2>6, <3>1 DEF ViewInv
  <2>7. CASE /\ h.name = shown.name
             /\ shown' = [shown EXCEPT !.releases = h.releases, !.blame = h.blame, !.arc = arcs + 1]
             /\ UNCHANGED offered
    \* A snapshot that is shown, found unchanged, keeps its view and what is saved of it.
    <3>1. shown'.name = shown.name /\ shown'.ack = shown.ack
      BY <2>7 DEF SourcesTypeOK, ShownType
    <3>2. shown.arc > 0
      BY <2>4, <2>7 DEF SourcesTypeOK, HandedType, Active
    <3> QED BY <2>2, <2>7, <3>1, <3>2, ViewFrame
  <2>8. CASE Install(h, l.gen)
    BY <2>1, <2>2, <2>4, <2>8, ViewInstall
  <2> QED BY <2>3, <2>5, <2>6, <2>7, <2>8
<1>5. CASE AcceptOffer
  <2>1. PICK o \in offered : Install(o.handed, o.gen)
    BY <1>5 DEF AcceptOffer
  <2>2. /\ o.handed \in HandedType /\ o.gen \in Nat
        /\ o.handed.view.rev =< disk[o.handed.name].view.rev
    BY DEF SourcesTypeOK, ViewInv
  <2> QED BY <1>5, <2>1, <2>2, ViewInstall DEF AcceptOffer
<1>6. ASSUME NEW l \in listings, ListingReads(l)
      PROVE  ViewInv'
  BY <1>6, ViewFrame DEF ListingReads
<1>7. ASSUME NEW l \in listings, ListingAnswered(l)
      PROVE  ViewInv'
  <2>1. shown'.name = shown.name /\ shown'.ack = shown.ack
    BY <1>7 DEF ListingAnswered, SourcesTypeOK, ShownType
  <2>2. shown'.arc > 0 => shown.arc > 0
    BY <2>1 DEF SourcesTypeOK, Active
  <2> QED BY <1>7, <2>1, <2>2, ViewFrame DEF ListingAnswered
<1>8. CASE BlameBegins
  BY <1>8, ViewFrame DEF BlameBegins
<1>9. ASSUME NEW b \in blaming, BlameAnswered(b)
      PROVE  ViewInv'
  <2>1. shown'.name = shown.name /\ shown'.ack = shown.ack /\ shown'.arc = shown.arc
    BY <1>9 DEF BlameAnswered, SourcesTypeOK, ShownType
  <2> QED BY <1>9, <2>1, ViewFrame DEF BlameAnswered
<1>10. ASSUME NEW k \in keeping, KeepBlame(k)
       PROVE  ViewInv'
  BY <1>10, ViewFrame DEF KeepBlame
<1>11. CASE TypeSummary
  <2>1. shown'.name = shown.name /\ shown'.ack = shown.ack /\ shown'.arc = shown.arc
    BY <1>11 DEF TypeSummary, Scheduled, SourcesTypeOK, ShownType
  <2> QED BY <1>11, <2>1, ViewFrame DEF TypeSummary
<1>12. ASSUME NEW t \in viewTask, ViewTimer(t)
       PROVE  ViewInv'
  BY <1>12, ViewFrame DEF ViewTimer
<1>13. ASSUME NEW w \in writing, WriteView(w)
       PROVE  ViewInv'
  <2>1. w.name \in Names /\ w.view \in ViewType /\ w.view.rev \in Nat
    BY DEF SourcesTypeOK, ViewType
  <2>2. UNCHANGED <<loads, offered>>
    BY <1>13 DEF WriteView
  <2>3. shown'.name = shown.name /\ shown'.arc = shown.arc
        /\ (shown'.ack = shown.ack \/ (shown'.ack = w.view.rev /\ shown.name = w.name))
    BY <1>13 DEF WriteView, SourcesTypeOK, ShownType
  <2>4. CASE shown'.ack = shown.ack
    BY <2>2, <2>3, <2>4, ViewFrame
  <2>5. CASE shown'.ack = w.view.rev /\ shown.name = w.name
    \* The write is in the store, or a newer one is.
    <3>1. \A n \in Names : /\ disk[n].view.rev \in Nat /\ disk'[n].view.rev \in Nat
                           /\ disk[n].view.rev =< disk'[n].view.rev
      <4>1. \A n \in Names : disk[n].view.rev \in Nat /\ disk'[n].view.rev \in Nat
        BY DEF SourcesTypeOK, KeptType, ViewType
      <4> QED BY <4>1, StoredViewStep
    <3>2. disk'[w.name].view.rev >= w.view.rev
      <4>1. disk \in [Names -> KeptType] /\ disk[w.name].view.rev \in Nat
        BY <2>1 DEF SourcesTypeOK, KeptType, ViewType
      <4> QED BY <1>13, <2>1, <4>1 DEF WriteView, KeptType
    <3>3. AckedViewStored'
      BY <2>1, <2>3, <2>5, <3>1, <3>2 DEF AckedViewStored
    <3>4. \A l \in loads : \A h \in l.answer : h.name \in Names /\ h.view.rev \in Nat
      BY DEF SourcesTypeOK, LoadType, HandedType, ViewType
    <3>5. \A o \in offered : o.handed.name \in Names /\ o.handed.view.rev \in Nat
      BY DEF SourcesTypeOK, HandedType, ViewType
    <3>6. \A l \in loads' : \A h \in l.answer : h.view.rev =< disk'[h.name].view.rev
      BY <2>2, <3>1, <3>4 DEF ViewInv
    <3>7. \A o \in offered' : o.handed.view.rev =< disk'[o.handed.name].view.rev
      BY <2>2, <3>1, <3>5 DEF ViewInv
    <3> QED BY <3>3, <3>6, <3>7 DEF ViewInv
  <2> QED BY <2>3, <2>4, <2>5
<1>14. ASSUME NEW w \in writing, WriteViewFails(w)
       PROVE  ViewInv'
  BY <1>14, ViewFrame DEF WriteViewFails
<1>15. ASSUME NEW a \in Addresses, SourceMoves(a)
       PROVE  ViewInv'
  BY <1>15, ViewFrame DEF SourceMoves
<1>16. CASE TagsMove
  BY <1>16, ViewFrame DEF TagsMove
<1>17. CASE UNCHANGED sourceVars
  BY <1>17, ViewFrame DEF sourceVars
<1> QED
  BY <1>1, <1>2, <1>3, <1>4, <1>5, <1>6, <1>7, <1>8, <1>9, <1>10, <1>11, <1>12, <1>13, <1>14,
     <1>15, <1>16, <1>17, SourcesCases

\* The revision of the view that the window counts as saved is in the store, or a
\* later one, over saves that overlap, fail or are replaced and snapshots that come
\* and go.
THEOREM SavedViewsAreStored == SourcesSpec => []AckedViewStored
<1>1. ViewInv => AckedViewStored
  BY DEF ViewInv
<1>2. SourcesTypeOK /\ SourcesTypeOK' /\ ViewInv /\ [SourcesNext]_sourceVars => ViewInv'
  BY ViewStep
<1> QED
  BY <1>1, <1>2, SourcesStart, SourcesTypeCorrect, PTL DEF SourcesSpec

-----------------------------------------------------------------------------
(* The requests of a capture.                                              *)

\* A request belongs to one stage of a reader.
LEMMA StagesApart ==
  ASSUME NEW k \in Kinds, NEW i \in DOMAIN Stages[k], NEW j \in DOMAIN Stages[k],
         NEW r, r \in Stages[k][i], r \in Stages[k][j]
  PROVE  i = j
<1>1. CASE k = "github"
  BY <1>1 DEF Stages, GithubStages
<1>2. CASE k = "gitlab"
  BY <1>2 DEF Stages, GitlabStages
<1>3. CASE k = "entire"
  BY <1>3 DEF Stages, EntireStages
<1>4. CASE k = "githubCompare"
  BY <1>4 DEF Stages, GithubCompareStages
<1>5. CASE k = "gitlabCompare"
  BY <1>5 DEF Stages, GitlabCompareStages
<1> QED  BY <1>1, <1>2, <1>3, <1>4, <1>5 DEF Kinds

\* The stages are numbered from 1.
LEMMA StageNumbers ==
  ASSUME NEW k \in Kinds
  PROVE  /\ Len(Stages[k]) \in Nat
         /\ DOMAIN Stages[k] = 1 .. Len(Stages[k])
<1>1. CASE k = "github"
  BY <1>1 DEF Stages, GithubStages
<1>2. CASE k = "gitlab"
  BY <1>2 DEF Stages, GitlabStages
<1>3. CASE k = "entire"
  BY <1>3 DEF Stages, EntireStages
<1>4. CASE k = "githubCompare"
  BY <1>4 DEF Stages, GithubCompareStages
<1>5. CASE k = "gitlabCompare"
  BY <1>5 DEF Stages, GitlabCompareStages
<1> QED  BY <1>1, <1>2, <1>3, <1>4, <1>5 DEF Kinds

\* Every reader asks for the change, and for the account where it names one,
\* before the content.
LEMMA FirstReadings ==
  ASSUME NEW k \in Kinds, NEW i \in DOMAIN Stages[k], NEW r \in Content, r \in Stages[k][i]
  PROVE  /\ \E j \in 1 .. (i - 1) : "before" \in Stages[k][j]
         /\ k = "gitlabCompare" => \E j \in 1 .. (i - 1) : "from" \in Stages[k][j]
         /\ k \in {"github", "gitlab", "entire"} =>
              \E j \in 1 .. (i - 1) : "account" \in Stages[k][j]
<1>1. CASE k = "github"
  <2>1. i = 2
    BY <1>1 DEF Stages, GithubStages, Content
  <2> QED  BY <1>1, <2>1 DEF Stages, GithubStages
<1>2. CASE k = "gitlab"
  <2>1. i > 2
    BY <1>2 DEF Stages, GitlabStages, Content
  <2> QED  BY <1>2, <2>1 DEF Stages, GitlabStages
<1>3. CASE k = "entire"
  <2>1. i > 3
    BY <1>3 DEF Stages, EntireStages, Content
  <2> QED  BY <1>3, <2>1 DEF Stages, EntireStages
<1>4. CASE k = "githubCompare"
  <2>1. i = 2
    BY <1>4 DEF Stages, GithubCompareStages, Content
  <2> QED  BY <1>4, <2>1 DEF Stages, GithubCompareStages
<1>5. CASE k = "gitlabCompare"
  <2>1. i = 2
    BY <1>5 DEF Stages, GitlabCompareStages, Content
  <2> QED  BY <1>5, <2>1 DEF Stages, GitlabCompareStages
<1> QED  BY <1>1, <1>2, <1>3, <1>4, <1>5 DEF Kinds

\* The second readings come after all content.
LEMMA SecondReadings ==
  ASSUME NEW k \in Kinds, NEW i \in DOMAIN Stages[k], NEW j \in DOMAIN Stages[k],
         NEW r \in Content, r \in Stages[k][j],
         "after" \in Stages[k][i] \/ "still" \in Stages[k][i]
  PROVE  j < i
<1>1. CASE k = "github"
  BY <1>1 DEF Stages, GithubStages, Content
<1>2. CASE k = "gitlab"
  BY <1>2 DEF Stages, GitlabStages, Content
<1>3. CASE k = "entire"
  BY <1>3 DEF Stages, EntireStages, Content
<1>4. CASE k = "githubCompare"
  BY <1>4 DEF Stages, GithubCompareStages, Content
<1>5. CASE k = "gitlabCompare"
  BY <1>5 DEF Stages, GitlabCompareStages, Content
<1> QED  BY <1>1, <1>2, <1>3, <1>4, <1>5 DEF Kinds

\* What a request is for: which readers make it, and what they pin.
LEMMA RequestKinds ==
  ASSUME NEW k \in Kinds, NEW i \in DOMAIN Stages[k], NEW r, r \in Stages[k][i]
  PROVE  /\ r = "account" => k \in {"github", "gitlab", "entire"}
         /\ r = "from" => k = "gitlabCompare"
         /\ r \in Content /\ r \notin Pinned[k] => k \in {"github", "gitlab"}
<1>1. CASE k \in {"github", "gitlab"}
  BY <1>1 DEF Stages, GithubStages, GitlabStages
<1>3. CASE k = "entire"
  BY <1>3 DEF Stages, EntireStages, Content, Pinned
<1>4. CASE k = "githubCompare"
  BY <1>4 DEF Stages, GithubCompareStages, Content, Pinned
<1>5. CASE k = "gitlabCompare"
  BY <1>5 DEF Stages, GitlabCompareStages, Content, Pinned
<1> QED  BY <1>1, <1>3, <1>4, <1>5 DEF Kinds

\* Where the second readings are made.
LEMMA ReadTwice ==
  ASSUME NEW k \in {"github", "gitlab", "entire"}
  PROVE  /\ \E i \in DOMAIN Stages[k] : "after" \in Stages[k][i]
         /\ \E i \in DOMAIN Stages[k] : "still" \in Stages[k][i]
<1>1. CASE k = "github"
  BY <1>1 DEF Stages, GithubStages
<1>2. CASE k = "gitlab"
  BY <1>2 DEF Stages, GitlabStages
<1>3. CASE k = "entire"
  BY <1>3 DEF Stages, EntireStages
<1> QED  BY <1>1, <1>2, <1>3

\* The readings of the change and the account are no content and never pinned.
LEMMA ReadingsUnpinned ==
  ASSUME NEW k \in Kinds, NEW r \in {"before", "from", "after", "account", "still"}
  PROVE  r \notin Pinned[k] /\ r \notin Content
  BY DEF Kinds, Pinned, Content

\* A new attempt keeps what the first stages answered, and no content.
LEMMA KeptFirst ==
  ASSUME NEW k \in Kinds
  PROVE  /\ \A i \in DOMAIN Stages[k] : Stages[k][i] \cap Kept[k] # {}
              => \A j \in 1 .. (i - 1) : Stages[k][j] \subseteq Kept[k]
         /\ Kept[k] \cap (Optional \cup LateChecked[k]) = {}
         /\ Kept[k] \cap Content = {}
         /\ "before" \notin Kept[k]
<1>1. CASE k = "github"
  BY <1>1 DEF Stages, GithubStages, Kept, Optional, LateChecked, Content, Kinds
<1>2. CASE k = "gitlab"
  BY <1>2 DEF Stages, GitlabStages, Kept, Optional, LateChecked, Content, Kinds
<1>3. CASE k = "entire"
  BY <1>3 DEF Stages, EntireStages, Kept, Optional, LateChecked, Content, Kinds
<1>4. CASE k = "githubCompare"
  BY <1>4 DEF Stages, GithubCompareStages, Kept, Optional, LateChecked, Content, Kinds
<1>5. CASE k = "gitlabCompare"
  BY <1>5 DEF Stages, GitlabCompareStages, Kept, Optional, LateChecked, Content, Kinds
<1> QED  BY <1>1, <1>2, <1>3, <1>4, <1>5 DEF Kinds

-----------------------------------------------------------------------------
(* One version of the change.                                              *)

\* A joined request that had to be answered was answered.
LEMMA JoinedAnswered ==
  ASSUME kind \in Kinds, ~Failed, NEW i \in DOMAIN Stages[kind], Joined(i),
         NEW j \in 1 .. i, NEW r \in Stages[kind][j], r \notin Optional \cup LateChecked[kind]
  PROVE  r \in DOMAIN got
<1>1. i \in Nat /\ j \in DOMAIN Stages[kind] /\ Joined(j)
  BY StageNumbers DEF Joined
<1>2. r \in Settled
  BY DEF Joined
<1>3. r \notin lost
  BY <1>1 DEF Failed
<1> QED  BY <1>2, <1>3 DEF Settled

\* A request that can be made has the first readings behind it, and is in the one
\* stage whose turn it is.
LEMMA DueOrder ==
  ASSUME CaptureInv, NEW q, Due(q)
  PROVE  /\ q \notin Settled
         /\ \E i \in DOMAIN Stages[kind] : q \in Stages[kind][i]
         /\ \A i \in DOMAIN Stages[kind] : q \in Stages[kind][i] => Joined(i - 1)
         /\ q \in Content =>
              /\ "before" \in DOMAIN got
              /\ kind = "gitlabCompare" => "from" \in DOMAIN got
              /\ kind \in {"github", "gitlab", "entire"} => "account" \in DOMAIN got
              /\ "after" \notin DOMAIN got /\ "still" \notin DOMAIN got
<1>1. kind \in Kinds /\ ~Failed
  BY DEF CaptureInv, Due
<1>2. PICK i \in DOMAIN Stages[kind] : Joined(i - 1) /\ q \in Stages[kind][i] /\ q \notin Settled
  BY DEF Due
<1>3. \A k \in DOMAIN Stages[kind] : q \in Stages[kind][k] => k = i
  BY <1>1, <1>2, StagesApart
<1>4. ASSUME q \in Content
      PROVE  /\ "before" \in DOMAIN got
             /\ kind = "gitlabCompare" => "from" \in DOMAIN got
             /\ kind \in {"github", "gitlab", "entire"} => "account" \in DOMAIN got
  <2>1. \A j \in 1 .. (i - 1), r \in {"before", "from", "account"} :
          r \in Stages[kind][j] => r \in DOMAIN got
    <3>1. SUFFICES ASSUME NEW j \in 1 .. (i - 1), NEW r \in {"before", "from", "account"},
                          r \in Stages[kind][j]
                   PROVE  r \in DOMAIN got
      OBVIOUS
    <3>2. i - 1 \in DOMAIN Stages[kind]
      BY <1>1, StageNumbers
    <3>3. r \notin Optional \cup LateChecked[kind]
      BY <1>1 DEF Optional, LateChecked
    <3>4. Joined(i - 1)
      BY <1>2
    <3> HIDE DEF Failed, Joined
    <3> QED  BY <1>1, <3>1, <3>2, <3>3, <3>4, JoinedAnswered, Zenon
  <2> QED  BY <1>1, <1>2, <1>4, <2>1, FirstReadings
<1>5. ASSUME q \in Content, NEW s \in {"after", "still"}
      PROVE  s \notin DOMAIN got
  <2>1. SUFFICES ASSUME s \in DOMAIN got
                 PROVE  FALSE
    OBVIOUS
  <2>2. s \in Settled
    BY <2>1 DEF Settled
  <2>3. PICK j \in DOMAIN Stages[kind] : s \in Stages[kind][j]
    BY <2>2 DEF CaptureInv, StageInv
  <2>4. Joined(j - 1)
    BY <2>2, <2>3 DEF CaptureInv, StageInv
  <2>5. i < j
    BY <1>1, <1>2, <1>5, <2>3, SecondReadings
  <2>6. i \in 1 .. (j - 1)
    BY <1>1, <2>5, StageNumbers
  <2> QED  BY <1>2, <2>4, <2>6 DEF Joined
<1> QED  BY <1>2, <1>3, <1>4, <1>5

\* A request that is settled keeps the stages in order.
LEMMA SettleStages ==
  ASSUME CaptureInv, NEW q, Due(q), Settled' = Settled \cup {q}, kind' = kind
  PROVE  StageInv'
<1>1. \A i : Joined(i) => Joined(i)'
  BY DEF Joined
<1>2. \A i \in DOMAIN Stages[kind] : q \in Stages[kind][i] => Joined(i - 1)
  BY DueOrder
<1>3. \E i \in DOMAIN Stages[kind] : q \in Stages[kind][i]
  BY DueOrder
<1> QED  BY <1>1, <1>2, <1>3 DEF CaptureInv, StageInv

\* What got shows after an answer.
LEMMA ReadEffect ==
  ASSUME NEW q, Read(q), CaptureInv
  PROVE  /\ DOMAIN got' = DOMAIN got \cup {q}
         /\ got'[q] = [seen |-> Answer(q), as |-> login]
         /\ \A x \in DOMAIN got : got'[x] = got[x]
         /\ UNCHANGED <<kind, now, login, lost, left, back, leftLogin, backLogin, result>>
         /\ q \notin DOMAIN got
         /\ result = "running"
<1>1. q \notin Settled /\ result = "running"
  BY DueOrder DEF Read, Due
<1> QED  BY <1>1 DEF Read, Settled

LEMMA ReadStep ==
  ASSUME CaptureInv, NEW q, Read(q)
  PROVE  CaptureInv'
<1> DEFINE a == Answer(q)
<1>1. /\ DOMAIN got' = DOMAIN got \cup {q}
      /\ got'[q] = [seen |-> a, as |-> login]
      /\ \A x \in DOMAIN got : got'[x] = got[x]
      /\ q \notin DOMAIN got
  BY ReadEffect
<1>2. /\ kind' = kind /\ now' = now /\ login' = login
      /\ left' = left /\ back' = back /\ leftLogin' = leftLogin /\ backLogin' = backLogin
      /\ lost' = lost /\ result' = "running"
  BY ReadEffect
<1>3. kind \in Kinds
  BY DEF CaptureInv
<1>4. /\ q \in {"account", "still"} => a = login
      /\ q \in {"before", "from", "after"} => a = now
      /\ q \in Content /\ q \in Pinned[kind] => a = Pins
      /\ q \in Content /\ q \notin Pinned[kind] => a = now
  <2>1. q \in {"before", "from", "after", "account", "still"} => q \notin Pinned[kind]
    BY <1>3, ReadingsUnpinned
  <2>2. q \in {"account", "still"} => a = login
    BY <2>1 DEF Answer
  <2>3. q \in {"before", "from", "after"} => a = now
    BY <2>1 DEF Answer
  <2>4. q \in Content => q \notin {"account", "still"}
    BY DEF Content
  <2>5. q \notin {"account", "still"} /\ q \in Pinned[kind] => a = Pins
    BY DEF Answer
  <2>6. q \notin {"account", "still"} /\ q \notin Pinned[kind] => a = now
    BY DEF Answer
  <2> QED  BY <2>2, <2>3, <2>4, <2>5, <2>6
<1> HIDE DEF a
<1>5. StageInv'
  <2>1. Settled' = Settled \cup {q}
    BY <1>1, <1>2 DEF Settled
  <2>2. Due(q)
    BY DEF Read
  <2> QED  BY <1>2, <2>1, <2>2, SettleStages, Zenon
<1>6. ReadingInv'
  BY <1>1, <1>2, <1>4 DEF CaptureInv, ReadingInv, Seen
<1>7. ContentInv'
  <2>1. SUFFICES ASSUME NEW r \in Content, r \in DOMAIN got'
                 PROVE  /\ "before" \in DOMAIN got'
                        /\ kind = "gitlabCompare" => "from" \in DOMAIN got'
                        /\ kind \in {"github", "gitlab", "entire"} => "account" \in DOMAIN got'
                        /\ r \in Pinned[kind] => Seen(r)' = Pins'
                        /\ r \notin Pinned[kind] =>
                             \/ Seen(r)' = Seen("before")'
                             \/ /\ Seen("before")' \in left
                                /\ "after" \in DOMAIN got' /\ Seen("after")' = Seen("before")'
                                     => Seen("before")' \in back
                        /\ "account" \in DOMAIN got' =>
                             \/ got'[r].as = Seen("account")'
                             \/ /\ Seen("account")' \in leftLogin
                                /\ "still" \in DOMAIN got' /\ Seen("still")' = Seen("account")'
                                     => Seen("account")' \in backLogin
    BY <1>2 DEF ContentInv
  <2>2. /\ "before" \in DOMAIN got
        /\ kind = "gitlabCompare" => "from" \in DOMAIN got
        /\ kind \in {"github", "gitlab", "entire"} => "account" \in DOMAIN got
    <3>1. CASE r = q
      BY <3>1, DueOrder DEF Read
    <3>2. CASE r # q
      BY <1>1, <2>1, <3>2 DEF CaptureInv, ContentInv
    <3> QED  BY <3>1, <3>2
  <2>3. q # "before" /\ q # "from" /\ q # "account"
    <3>1. PICK i \in DOMAIN Stages[kind] : q \in Stages[kind][i]
      BY DueOrder DEF Read
    <3> QED  BY <1>1, <1>3, <2>2, <3>1, RequestKinds
  <2>4. /\ Seen("before")' = Seen("before")
        /\ Pins' = Pins
        /\ "account" \in DOMAIN got' <=> "account" \in DOMAIN got
        /\ "account" \in DOMAIN got => Seen("account")' = Seen("account")
    BY <1>1, <1>2, <2>2, <2>3 DEF Seen, Pins
  <2>5. CASE r = q
    <3>1. "after" \notin DOMAIN got /\ "still" \notin DOMAIN got
      BY <2>5, DueOrder DEF Read
    <3>2. "after" \notin DOMAIN got' /\ "still" \notin DOMAIN got'
      BY <1>1, <2>1, <2>5, <3>1 DEF Content
    <3>3. Seen(r)' = a /\ got'[r].as = login
      BY <1>1, <2>5 DEF Seen
    <3> QED  BY <1>1, <1>2, <1>4, <2>2, <2>4, <2>5, <3>2, <3>3 DEF CaptureInv, ReadingInv
  <2>6. CASE r # q
    <3>1. r \in DOMAIN got /\ got'[r] = got[r] /\ Seen(r)' = Seen(r)
      BY <1>1, <2>1, <2>6 DEF Seen
    <3>2. /\ r \in Pinned[kind] => Seen(r) = Pins
          /\ r \notin Pinned[kind] =>
               \/ Seen(r) = Seen("before")
               \/ /\ Seen("before") \in left
                  /\ "after" \in DOMAIN got /\ Seen("after") = Seen("before") => Seen("before") \in back
          /\ "account" \in DOMAIN got =>
               \/ got[r].as = Seen("account")
               \/ /\ Seen("account") \in leftLogin
                  /\ "still" \in DOMAIN got /\ Seen("still") = Seen("account")
                       => Seen("account") \in backLogin
      BY <3>1 DEF CaptureInv, ContentInv
    <3>3. "after" \in DOMAIN got' =>
            \/ "after" \in DOMAIN got /\ Seen("after")' = Seen("after")
            \/ Seen("after")' = now
      BY <1>1, <1>4 DEF Seen
    <3>4. "still" \in DOMAIN got' =>
            \/ "still" \in DOMAIN got /\ Seen("still")' = Seen("still")
            \/ Seen("still")' = login
      BY <1>1, <1>4 DEF Seen
    <3>5. (now \in left => now \in back) /\ (login \in leftLogin => login \in backLogin)
      BY DEF CaptureInv, ReadingInv
    <3> QED  BY <1>1, <2>2, <2>4, <3>1, <3>2, <3>3, <3>4, <3>5
  <2> QED  BY <2>5, <2>6
<1> QED  BY <1>2, <1>3, <1>5, <1>6, <1>7 DEF CaptureInv, SnapshotCoherent

LEMMA LoseStep ==
  ASSUME CaptureInv, NEW q, Lose(q)
  PROVE  CaptureInv'
<1>1. /\ kind' = kind /\ now' = now /\ login' = login /\ got' = got
      /\ left' = left /\ back' = back /\ leftLogin' = leftLogin /\ backLogin' = backLogin
      /\ lost' = lost \cup {q} /\ Due(q) /\ result' = "running"
  BY DEF Lose, Due
<1>2. Settled' = Settled \cup {q}
  BY <1>1 DEF Settled
<1>3. StageInv'
  BY <1>1, <1>2, SettleStages, Zenon
<1>4. ReadingInv' /\ ContentInv'
  BY <1>1 DEF CaptureInv, ReadingInv, ContentInv, Seen, Pins
<1> QED  BY <1>1, <1>3, <1>4 DEF CaptureInv, SnapshotCoherent

\* A new attempt keeps the answers of the first stages, all of which it had.
LEMMA RetryStep ==
  ASSUME CaptureInv, Retry
  PROVE  CaptureInv'
<1>1. kind' = kind /\ now' = now /\ login' = login
      /\ leftLogin' = leftLogin /\ backLogin' = backLogin /\ ~Failed /\ kind \in Kinds
      /\ result = "running"
  BY DEF Retry, CaptureInv
<1>2. CASE attempt < MaxAttempts
  <2>1. /\ DOMAIN got' = DOMAIN got \cap Kept[kind]
        /\ \A x \in DOMAIN got' : got'[x] = got[x]
        /\ lost' = {} /\ left' = {} /\ back' = {} /\ result' = "running"
    BY <1>1, <1>2 DEF Retry
  <2>2. Settled' = DOMAIN got \cap Kept[kind]
    BY <2>1 DEF Settled
  <2>3. StageInv'
    <3>1. \A r \in Settled' : \E i \in DOMAIN Stages[kind] : r \in Stages[kind][i]
      BY <2>2 DEF CaptureInv, StageInv, Settled
    <3>2. ASSUME NEW i \in DOMAIN Stages[kind], Stages[kind][i] \cap Settled' # {},
                 NEW j \in 1 .. (i - 1), NEW r \in Stages[kind][j]
          PROVE  r \in Settled'
      <4>1. Stages[kind][i] \cap Settled # {} /\ Stages[kind][i] \cap Kept[kind] # {}
        BY <2>2, <3>2 DEF Settled
      <4>2. Joined(i - 1)
        BY <4>1 DEF CaptureInv, StageInv
      <4>3. r \in Kept[kind] /\ r \notin Optional \cup LateChecked[kind]
        BY <1>1, <4>1, KeptFirst
      <4>4. i - 1 \in DOMAIN Stages[kind]
        BY <1>1, StageNumbers
      <4>5. r \in DOMAIN got
        BY <1>1, <3>2, <4>2, <4>3, <4>4, JoinedAnswered, Zenon
      <4> QED  BY <2>2, <4>3, <4>5
    <3>3. \A i \in DOMAIN Stages[kind] : Stages[kind][i] \cap Settled' # {} => Joined(i - 1)'
      BY <1>1, <3>2 DEF Joined
    <3> QED  BY <1>1, <3>1, <3>3 DEF StageInv
  <2>4. ReadingInv'
    <3>1. "before" \notin DOMAIN got'
      BY <1>1, <2>1, KeptFirst
    <3> QED  BY <1>1, <2>1, <3>1 DEF CaptureInv, ReadingInv, Seen
  <2>5. ContentInv'
    <3>1. Content \cap DOMAIN got' = {}
      BY <1>1, <2>1, KeptFirst
    <3> QED  BY <3>1 DEF ContentInv
  <2> QED  BY <1>1, <2>1, <2>3, <2>4, <2>5 DEF CaptureInv, SnapshotCoherent
<1>3. CASE ~(attempt < MaxAttempts)
  <2>1. UNCHANGED <<got, lost, left, back>> /\ result' = "error"
    BY <1>3 DEF Retry
  <2>2. StageInv'
    BY <1>1, <2>1 DEF CaptureInv, StageInv, Joined, Settled
  <2>3. ReadingInv' /\ ContentInv'
    BY <1>1, <2>1 DEF CaptureInv, ReadingInv, ContentInv, Seen, Pins
  <2> QED  BY <1>1, <2>1, <2>2, <2>3 DEF CaptureInv, SnapshotCoherent
<1> QED  BY <1>2, <1>3

\* Pushes and renames: the version that was there is one the change has left.
LEMMA RemoteMovesStep ==
  ASSUME CaptureInv, RemoteMoves
  PROVE  CaptureInv'
<1>1. /\ UNCHANGED <<kind, login, got, lost, leftLogin, backLogin>> /\ result' = "running"
      /\ now' # now /\ left' = left \cup {now} /\ back' = back \cup ({now'} \cap left)
  BY DEF RemoteMoves
<1>2. StageInv'
  BY <1>1 DEF CaptureInv, StageInv, Joined, Settled
<1>3. ReadingInv'
  BY <1>1 DEF CaptureInv, ReadingInv, Seen
<1>4. ContentInv'
  BY <1>1 DEF CaptureInv, ContentInv, Seen, Pins
<1> QED  BY <1>1, <1>2, <1>3, <1>4 DEF CaptureInv, SnapshotCoherent

\* A sign-in: the same for the login.
LEMMA AccountSwitchesStep ==
  ASSUME CaptureInv, AccountSwitches
  PROVE  CaptureInv'
<1>1. /\ UNCHANGED <<kind, now, got, lost, left, back>> /\ result' = "running"
      /\ login' # login /\ leftLogin' = leftLogin \cup {login}
      /\ backLogin' = backLogin \cup ({login'} \cap leftLogin)
  BY DEF AccountSwitches
<1>2. StageInv'
  BY <1>1 DEF CaptureInv, StageInv, Joined, Settled
<1>3. ReadingInv'
  BY <1>1 DEF CaptureInv, ReadingInv, Seen
<1>4. ContentInv'
  BY <1>1 DEF CaptureInv, ContentInv, Seen, Pins
<1> QED  BY <1>1, <1>2, <1>3, <1>4 DEF CaptureInv, SnapshotCoherent

\* What is returned: the second readings agree with the first.
LEMMA FinishCoherent ==
  ASSUME CaptureInv, ~Failed, ~Moved, Done, ~Refused, NEW r \in Content \cap DOMAIN got
  PROVE  /\ \/ Tips(Seen(r)) = Pins
            \/ r \notin Pinned[kind] /\ Seen("before") \in back
         /\ "account" \in DOMAIN got =>
              got[r].as = Seen("account") \/ Seen("account") \in backLogin
<1>1. kind \in Kinds
  BY DEF CaptureInv
<1>2. PICK i \in DOMAIN Stages[kind] : r \in Stages[kind][i]
  BY DEF CaptureInv, StageInv, Settled
<1>3. /\ r \in Pinned[kind] => Seen(r) = Pins
      /\ r \notin Pinned[kind] =>
           \/ Seen(r) = Seen("before")
           \/ /\ Seen("before") \in left
              /\ "after" \in DOMAIN got /\ Seen("after") = Seen("before") => Seen("before") \in back
      /\ "account" \in DOMAIN got =>
           \/ got[r].as = Seen("account")
           \/ /\ Seen("account") \in leftLogin
              /\ "still" \in DOMAIN got /\ Seen("still") = Seen("account")
                   => Seen("account") \in backLogin
  BY DEF CaptureInv, ContentInv
<1>4. ASSUME kind \in {"github", "gitlab", "entire"}
      PROVE  /\ "after" \in DOMAIN got
             /\ "still" \in DOMAIN got \/ (kind = "github" /\ "still" \in lost)
  <2>1. \A j \in DOMAIN Stages[kind] : \A x \in Stages[kind][j] :
          x \notin Optional \cup LateChecked[kind] => x \in DOMAIN got
    <3>1. SUFFICES ASSUME NEW j \in DOMAIN Stages[kind], NEW x \in Stages[kind][j],
                          x \notin Optional \cup LateChecked[kind]
                   PROVE  x \in DOMAIN got
      OBVIOUS
    <3>2. Joined(Len(Stages[kind])) /\ j \in 1 .. Len(Stages[kind])
          /\ Len(Stages[kind]) \in DOMAIN Stages[kind]
      BY <1>1, StageNumbers DEF Done
    <3> QED  BY <1>1, <3>1, <3>2, JoinedAnswered, Zenon
  <2>2. "after" \in DOMAIN got
    <3>1. "after" \notin Optional \cup LateChecked[kind]
      BY <1>1 DEF Optional, LateChecked
    <3> QED  BY <1>4, <2>1, <3>1, ReadTwice
  <2>3. "still" \in DOMAIN got \/ (kind = "github" /\ "still" \in lost)
    <3>1. PICK j \in DOMAIN Stages[kind] : "still" \in Stages[kind][j]
      BY <1>4, ReadTwice
    <3>2. "still" \in Settled
      BY <1>1, <3>1, StageNumbers DEF Done, Joined
    <3>3. kind # "github" => "still" \notin Optional \cup LateChecked[kind]
      BY <1>1 DEF Optional, LateChecked
    <3>4. CASE kind = "github"
      BY <3>2, <3>4 DEF Settled
    <3>5. CASE kind # "github"
      BY <2>1, <3>1, <3>3, <3>5
    <3> QED  BY <3>4, <3>5
  <2> QED  BY <2>2, <2>3
<1>5. Tips(Pins) = Pins
  BY DEF Tips, Pins
<1>6. kind # "gitlabCompare" => Tips(Seen("before")) = Pins
  BY DEF Tips, Pins
<1>7. kind \in {"github", "gitlab"} => Seen("after") = Seen("before")
  BY DEF Moved, GithubMoved, Refused, GitlabRefuses
<1>8. kind \in {"github", "gitlab", "entire"} =>
        "still" \in DOMAIN got /\ Seen("still") = Seen("account")
  BY <1>4 DEF Refused, GithubRefuses, GitlabRefuses, EntireRefuses
<1>9. "account" \in DOMAIN got => kind \in {"github", "gitlab", "entire"}
  <2>1. "account" \in DOMAIN got =>
          \E j \in DOMAIN Stages[kind] : "account" \in Stages[kind][j]
    BY DEF CaptureInv, StageInv, Settled
  <2> QED  BY <1>1, <2>1, RequestKinds
<1>10. r \notin Pinned[kind] => kind \in {"github", "gitlab"}
  BY <1>1, <1>2, RequestKinds
<1>11. \/ Tips(Seen(r)) = Pins
       \/ r \notin Pinned[kind] /\ Seen("before") \in back
  BY <1>3, <1>4, <1>5, <1>6, <1>7, <1>10
<1>12. "account" \in DOMAIN got =>
         got[r].as = Seen("account") \/ Seen("account") \in backLogin
  BY <1>3, <1>8, <1>9
<1> QED  BY <1>11, <1>12

\* Steps that only end the capture.
LEMMA EndStep ==
  ASSUME CaptureInv,
         UNCHANGED <<kind, now, login, got, lost, left, back, leftLogin, backLogin>>,
         SnapshotCoherent'
  PROVE  CaptureInv'
<1>1. StageInv'
  BY DEF CaptureInv, StageInv, Joined, Settled
<1>2. ReadingInv' /\ ContentInv'
  BY DEF CaptureInv, ReadingInv, ContentInv, Seen, Pins
<1> QED  BY <1>1, <1>2 DEF CaptureInv

LEMMA FinishStep ==
  ASSUME CaptureInv, Finish
  PROVE  CaptureInv'
<1>1. UNCHANGED <<kind, now, login, got, lost, left, back, leftLogin, backLogin>>
  BY DEF Finish
<1>2. ~Failed /\ ~Moved /\ Done /\ result' = (IF Refused THEN "error" ELSE "ok")
  BY DEF Finish
<1>3. SnapshotCoherent'
  <2>1. CASE Refused
    BY <1>2, <2>1 DEF SnapshotCoherent
  <2>2. CASE ~Refused
    <3>1. \A r \in Content \cap DOMAIN got :
            /\ \/ Tips(Seen(r)) = Pins
               \/ r \notin Pinned[kind] /\ Seen("before") \in back
            /\ "account" \in DOMAIN got =>
                 got[r].as = Seen("account") \/ Seen("account") \in backLogin
      BY <1>2, <2>2, FinishCoherent
    <3> QED  BY <1>1, <3>1 DEF SnapshotCoherent, Tips, Seen, Pins
  <2> QED  BY <2>1, <2>2
<1> QED  BY <1>1, <1>3, EndStep

LEMMA CaptureStep ==
  ASSUME CaptureInv, [CaptureNext]_captureVars
  PROVE  CaptureInv'
<1>1. ASSUME NEW r \in Requests, Read(r)
      PROVE  CaptureInv'
  BY <1>1, ReadStep
<1>2. ASSUME NEW r \in Requests, Lose(r)
      PROVE  CaptureInv'
  BY <1>2, LoseStep
<1>3. CASE Abort
  <2>1. UNCHANGED <<kind, now, login, got, lost, left, back, leftLogin, backLogin>>
        /\ result' = "error"
    BY <1>3 DEF Abort
  <2> QED  BY <2>1, EndStep DEF SnapshotCoherent
<1>4. CASE RefuseDiff
  <2>1. UNCHANGED <<kind, now, login, got, lost, left, back, leftLogin, backLogin>>
        /\ result' = "error"
    BY <1>4 DEF RefuseDiff
  <2> QED  BY <2>1, EndStep DEF SnapshotCoherent
<1>5. CASE UNCHANGED captureVars
  <2>1. UNCHANGED <<kind, now, login, got, lost, left, back, leftLogin, backLogin>>
        /\ result' = result
    BY <1>5 DEF captureVars
  <2>2. SnapshotCoherent'
    BY <2>1 DEF CaptureInv, SnapshotCoherent, Tips, Seen, Pins
  <2> QED  BY <2>1, <2>2, EndStep
<1> QED  BY <1>1, <1>2, <1>3, <1>4, <1>5, RetryStep, FinishStep, RemoteMovesStep, AccountSwitchesStep
         DEF CaptureNext

\* A snapshot that `open` or a compare returns shows one version of its change, read
\* with one account, for any number of commits, accounts, moves, lost requests and
\* attempts and any order of the threads of a stage.
THEOREM SnapshotsAreCoherent == CaptureSpec => []SnapshotCoherent
<1>1. CaptureInit => CaptureInv
  BY DEF CaptureInit, CaptureInv, SnapshotCoherent, StageInv, ReadingInv, ContentInv, Settled
<1>2. CaptureInv => SnapshotCoherent
  BY DEF CaptureInv
<1> QED  BY <1>1, <1>2, CaptureStep, PTL DEF CaptureSpec

-----------------------------------------------------------------------------
(* Retention.                                                              *)

\* What one step owes to work that is not finished; WorkIsKept asks it of all.
KeepsWork ==
  /\ \A s \in Snapshots : ~up /\ drafts[s] = "saved" => drafts'[s] = "saved"
  /\ \A s \in Snapshots : drafts'[s] # None => s \in Stored'
  /\ \A o \in Operations : ops'[o].state \in Unresolved => ops'[o].snapshot \in Stored'

LEMMA RetentionInitially == RetentionInit => RetentionInv
<1> SUFFICES ASSUME RetentionInit PROVE RetentionInv
  OBVIOUS
<1>1. Stored = {}
  BY DEF RetentionInit, Stored
<1>2. \A o \in Operations : ops[o] = NoOp
  BY DEF RetentionInit
<1> QED
  BY <1>1, <1>2 DEF RetentionInit, RetentionInv, NoOp, Unresolved, None

\* A step that touches neither drafts nor operations and removes no snapshot.
LEMMA RetentionFrame ==
  ASSUME RetentionInv, UNCHANGED <<drafts, ops>>, Stored \subseteq Stored', Stored' \subseteq Snapshots
  PROVE  RetentionInv'
  BY DEF RetentionInv

\* Store::open: what prune takes has neither an unpublished draft nor an
\* operation that is unresolved after recovery.
LEMMA OpenStoreStep ==
  ASSUME RetentionInv, OpenStore
  PROVE  RetentionInv' /\ \A s \in Snapshots : drafts[s] = "saved" => drafts'[s] = "saved"
<1> DEFINE gone == Doomed(ops')
<1>1. /\ Stored' = Stored \ gone
      /\ drafts' = [s \in Snapshots |-> IF s \in gone THEN None ELSE drafts[s]]
  BY DEF OpenStore, Renumbered, Stored
<1>2. ops' = [o \in Operations |-> IF ops[o].state = "in_flight"
                                     THEN [ops[o] EXCEPT !.state = "unknown"] ELSE ops[o]]
  BY DEF OpenStore
<1>3. \A s \in gone : drafts[s] # "saved" /\ \A o \in Operations :
                        ~(ops'[o].snapshot = s /\ ops'[o].state \in Unresolved)
  BY DEF Doomed
<1> HIDE DEF gone
<1>4. ASSUME NEW o \in Operations
      PROVE  /\ ops'[o] \in [snapshot : Snapshots \cup {None}, state : States \cup {None}, carries : BOOLEAN]
             /\ ops'[o].snapshot = ops[o].snapshot
             /\ ops'[o].state \in Unresolved => ops[o].state \in Unresolved
  <2>1. ops[o] \in [snapshot : Snapshots \cup {None}, state : States \cup {None}, carries : BOOLEAN]
    BY DEF RetentionInv
  <2>2. CASE ops[o].state = "in_flight"
    <3>1. ops'[o] = [ops[o] EXCEPT !.state = "unknown"]
      BY <1>2, <2>2
    <3>2. "unknown" \in States /\ "in_flight" \in Unresolved
      BY DEF States, Unresolved
    <3> QED
      BY <2>1, <2>2, <3>1, <3>2
  <2>3. CASE ops[o].state # "in_flight"
    BY <1>2, <2>1, <2>3
  <2> QED
    BY <2>2, <2>3
<1>5. ops' \in [Operations -> [snapshot : Snapshots \cup {None}, state : States \cup {None}, carries : BOOLEAN]]
  BY <1>2, <1>4
<1>6. \A o \in Operations : ops'[o].state \in Unresolved => ops'[o].snapshot \in Stored'
  BY <1>1, <1>3, <1>4 DEF RetentionInv
<1>7. drafts' \in [Snapshots -> {None, "saved", "published"}]
  BY <1>1 DEF RetentionInv
<1>8. /\ \A s \in Snapshots : drafts'[s] # None => s \in Stored'
      /\ \A s \in Snapshots : drafts[s] = "saved" => drafts'[s] = "saved"
  BY <1>1, <1>3 DEF RetentionInv
<1>9. Stored' \subseteq Snapshots
  BY <1>1 DEF RetentionInv
<1> QED
  BY <1>5, <1>6, <1>7, <1>8, <1>9 DEF RetentionInv

LEMMA TransitionStep ==
  ASSUME RetentionInv, NEW o \in Operations, Transition(o)
  PROVE  RetentionInv'
<1>1. PICK to \in States :
        /\ ops[o].state \in {"prepared", "in_flight", "unknown"}
        /\ ops' = [ops EXCEPT ![o].state = to]
        /\ drafts' = IF to = "confirmed" /\ ops[o].carries /\ drafts[ops[o].snapshot] = "saved"
                       THEN [drafts EXCEPT ![ops[o].snapshot] = "published"] ELSE drafts
  BY DEF Transition
<1>2. ops[o].snapshot \in Stored /\ ops[o].snapshot \in Snapshots /\ UNCHANGED Stored
  BY <1>1 DEF RetentionInv, Unresolved, Transition, Stored
<1>3. /\ drafts' \in [Snapshots -> {None, "saved", "published"}]
      /\ \A s \in Snapshots : drafts'[s] # None => s \in Stored
  BY <1>1, <1>2 DEF RetentionInv
<1>4. ASSUME NEW q \in Operations
      PROVE  /\ ops'[q] \in [snapshot : Snapshots \cup {None}, state : States \cup {None}, carries : BOOLEAN]
             /\ ops'[q].snapshot = ops[q].snapshot
             /\ ops'[q].state \in Unresolved => ops[q].state \in Unresolved
  <2>1. ops[q] \in [snapshot : Snapshots \cup {None}, state : States \cup {None}, carries : BOOLEAN]
    BY DEF RetentionInv
  <2>2. CASE q = o
    <3>1. ops'[q] = [ops[q] EXCEPT !.state = to]
      BY <1>1, <2>2 DEF RetentionInv
    <3>2. ops[q].state \in Unresolved
      BY <1>1, <2>2 DEF Unresolved
    <3> QED
      BY <2>1, <3>1, <3>2
  <2>3. CASE q # o
    BY <1>1, <2>1, <2>3 DEF RetentionInv
  <2> QED
    BY <2>2, <2>3
<1>5. DOMAIN ops' = Operations /\ ops' = [q \in Operations |-> ops'[q]]
  BY <1>1 DEF RetentionInv
<1>6. ops' \in [Operations -> [snapshot : Snapshots \cup {None}, state : States \cup {None}, carries : BOOLEAN]]
  BY <1>4, <1>5
<1>7. \A q \in Operations : ops'[q].state \in Unresolved => ops'[q].snapshot \in Stored
  BY <1>4 DEF RetentionInv
<1> QED
  BY <1>2, <1>3, <1>6, <1>7 DEF RetentionInv

LEMMA RetentionStep ==
  RetentionInv /\ [RetentionNext]_retentionVars => RetentionInv' /\ KeepsWork
<1> SUFFICES ASSUME RetentionInv, [RetentionNext]_retentionVars
             PROVE  RetentionInv' /\ \A s \in Snapshots : ~up /\ drafts[s] = "saved" => drafts'[s] = "saved"
  BY DEF RetentionInv, KeepsWork
<1>1. CASE UNCHANGED retentionVars \/ Stop \/ ClockMoves \/ HideRecent(Snapshots)
           \/ \E s \in Snapshots : HideRecent({s}) \/ SaveView(s)
  <2>1. UNCHANGED <<drafts, ops, rows>>
    BY <1>1 DEF retentionVars, Stop, ClockMoves, HideRecent, SaveView
  <2>2. Stored' = Stored
    BY <2>1 DEF Stored
  <2>3. RetentionInv'
    BY <2>1, <2>2, RetentionFrame DEF RetentionInv
  <2> QED
    BY <2>1, <2>3
<1>2. ASSUME NEW s \in Snapshots, PutSnapshot(s)
      PROVE  RetentionInv' /\ up
  <2>1. Stored' = Stored \cup {s}
    BY <1>2 DEF PutSnapshot, Stored, Touched
  <2> QED
    BY <1>2, <2>1, RetentionFrame DEF PutSnapshot, RetentionInv
<1>3. ASSUME NEW s \in Snapshots, ShowRecent(s)
      PROVE  RetentionInv' /\ up
  <2>1. Stored' = Stored
    BY <1>3 DEF ShowRecent, Stored, Touched
  <2> QED
    BY <1>3, <2>1, RetentionFrame DEF ShowRecent, RetentionInv
<1>4. ASSUME NEW s \in Snapshots, SaveDraft(s) \/ DiscardDraft(s)
      PROVE  RetentionInv' /\ up
  <2>1. /\ up /\ s \in Stored /\ UNCHANGED <<ops, rows>>
        /\ drafts' = [drafts EXCEPT ![s] = "saved"] \/ drafts' = [drafts EXCEPT ![s] = None]
    BY <1>4 DEF SaveDraft, DiscardDraft, RetentionInv, None
  <2>2. Stored' = Stored
    BY <2>1 DEF Stored
  <2> QED
    BY <2>1, <2>2 DEF RetentionInv
<1>5. ASSUME NEW s \in Snapshots, NEW o \in Operations, Prepare(o, s)
      PROVE  RetentionInv' /\ up
  <2> DEFINE row == [snapshot |-> s, state |-> "prepared", carries |-> drafts[s] = "saved"]
  <2>1. up /\ s \in Stored /\ UNCHANGED <<drafts, rows>> /\ ops' = [ops EXCEPT ![o] = row]
    BY <1>5 DEF Prepare
  <2>2. Stored' = Stored
    BY <2>1 DEF Stored
  <2>3. /\ row \in [snapshot : Snapshots \cup {None}, state : States \cup {None}, carries : BOOLEAN]
        /\ row.snapshot = s
    BY DEF States
  <2> HIDE DEF row
  <2> QED
    BY <2>1, <2>2, <2>3 DEF RetentionInv
<1>6. ASSUME NEW o \in Operations, Transition(o)
      PROVE  RetentionInv' /\ up
  BY <1>6, TransitionStep DEF Transition
<1>7. CASE OpenStore
  BY <1>7, OpenStoreStep
<1> QED
  BY <1>1, <1>2, <1>3, <1>4, <1>5, <1>6, <1>7 DEF RetentionNext

\* No start, however the clock is set and whatever is opened, takes away work
\* that is not finished (WorkIsKept): for any snapshots, operations and limits.
THEOREM UnfinishedWorkIsKept == RetentionSpec => WorkIsKept
<1>1. RetentionInit => RetentionInv
  BY RetentionInitially
<1>2. RetentionInv /\ [RetentionNext]_retentionVars => RetentionInv' /\ [KeepsWork]_retentionVars
  BY RetentionStep
<1> QED
  BY <1>1, <1>2, PTL DEF RetentionSpec, WorkIsKept, KeepsWork

-----------------------------------------------------------------------------
(* Coverage.                                                               *)

\* The files of a change are finitely many, so that two sets of them of one
\* size, one within the other, are the same.
LEMMA ChangedIsFinite ==
  ASSUME form \in UNION {[S -> Forms] : S \in SUBSET Files}
  PROVE  /\ IsFiniteSet(Changed)
         /\ Changed \subseteq Files
         /\ \A f \in Changed : form[f] \in Forms
         /\ \A S \in SUBSET Changed :
              /\ IsFiniteSet(S)
              /\ Cardinality(S) \in Nat
              /\ Cardinality(S) = Cardinality(Changed) => S = Changed
<1>1. Changed \subseteq Files /\ \A f \in Changed : form[f] \in Forms
  BY DEF Changed
<1>2. IsFiniteSet(Changed)
  BY <1>1, FS_Subset, CoverageAssumption DEF CoverageAssumption
<1>3. ASSUME NEW S \in SUBSET Changed
      PROVE  /\ IsFiniteSet(S)
             /\ Cardinality(S) \in Nat
             /\ Cardinality(S) = Cardinality(Changed) => S = Changed
  BY <1>2, FS_Subset, FS_CardinalityType
<1> QED
  BY <1>1, <1>2, <1>3

\* What a list is, by the endpoint it comes from.
LEMMA ListingFacts ==
  ASSUME NEW r \in Providers, NEW l \in ListingOf(r)
  PROVE  /\ {l.files, l.texts, l.left} \subseteq SUBSET Changed
         /\ l.said = Cardinality(Changed)
         /\ l.cut \in BOOLEAN
         /\ l.texts \subseteq l.files /\ l.texts \subseteq OfForm(Lines)
         /\ (l.files \cap OfForm({"text"})) \subseteq l.texts
         /\ l.left = (l.files \cap OfForm({"huge"})) \ l.texts
         /\ r = "entire" => l.cut = (l.files # Changed)
         /\ r = "gitlabCompare" => l.files = Changed \/ l.cut \/ Cardinality(l.files) = ListingCap
         /\ r = "githubCompare" => l.files = Changed \/ Cardinality(l.files) = ListingCap
         /\ r = "gitlab" => l.files = Changed
  BY DEF ListingOf, Providers

\* What a diff is.
LEMMA RawFacts ==
  ASSUME NEW k, NEW r \in RawOf(k)
  PROVE  /\ {r.files, r.texts} \subseteq SUBSET Changed
         /\ r.texts \subseteq OfForm(Lines)
         /\ (r.files \cap OfForm({"text"})) \subseteq r.texts
         /\ (r.files \cap listing.texts) \subseteq r.texts
         /\ r.status \in {200, 406, 500}
         /\ r.status = 406 => k \in {"github", "githubCompare"}
  BY DEF RawOf

\* A diff of all the files has every line, when the lines that the list leaves
\* out are not missing in the diff either.
LEMMA WholeByComparison ==
  ASSUME NEW r \in Providers, listing \in ListingOf(r), NEW k, raw \in RawOf(k),
         listing.files = Changed, raw.files = Changed, listing.left \subseteq raw.texts
  PROVE  Whole
<1>1. OfForm(Lines) = OfForm({"text"}) \cup OfForm({"huge"})
  BY DEF OfForm, Lines
<1>2. OfForm(Lines) \subseteq raw.texts
  BY <1>1, ListingFacts, RawFacts DEF OfForm
<1>3. raw.texts \subseteq OfForm(Lines)
  BY RawFacts
<1> QED
  BY <1>2, <1>3 DEF Whole

\* So has a list of all the files that leaves out nothing.
LEMMA WholeByListing ==
  ASSUME NEW r \in Providers, listing \in ListingOf(r), raw = FromListing,
         listing.files = Changed, listing.left = {}
  PROVE  Whole
<1>1. OfForm(Lines) = OfForm({"text"}) \cup OfForm({"huge"})
  BY DEF OfForm, Lines
<1> QED
  BY <1>1, ListingFacts DEF OfForm, Whole, FromListing

\* The warnings of the reader, as Assess adds them.
Warned ==
  CASE reader = "github"        -> GithubWarnings
    [] reader = "githubCompare" -> GithubCompareWarnings
    [] reader = "gitlabCompare" -> GitlabCompareWarnings
    [] reader = "entire"        -> EntireWarnings
    [] OTHER                    -> {}

\* No warning means that nothing is missing.
LEMMA SilenceIsWhole ==
  ASSUME CoverageInv, report = "read", ~GitlabRefusesFiles, ~EntireRefusesEmpty,
         warnings = {}, Warned = {}
  PROVE  Whole \/ BeyondCap
<1>1. listing \in ListingOf(reader) /\ reader \in Providers
  BY DEF CoverageInv, ReadInv
<1>2. /\ {listing.files, listing.texts, listing.left} \subseteq SUBSET Changed
      /\ listing.said = Cardinality(Changed)
  BY <1>1, ListingFacts
<1>3. /\ ListingCap \in Nat
      /\ \A S \in SUBSET Changed :
           /\ Cardinality(S) \in Nat
           /\ Cardinality(S) = Cardinality(Changed) => S = Changed
  BY ChangedIsFinite, CoverageAssumption DEF CoverageInv, CoverageAssumption
<1>4. CASE reader = "gitlabCompare"
  <2>1. raw = FromListing
    BY <1>4 DEF CoverageInv, ReadInv
  <2>2. GitlabCompareWarnings = {}
    BY <1>4 DEF Warned
  <2>3. ~listing.cut /\ ~(Cardinality(listing.files) >= ListingCap) /\ listing.left = {}
    BY <2>2 DEF GitlabCompareWarnings
  <2>4. listing.files = Changed
    BY <1>1, <1>2, <1>3, <1>4, <2>3, ListingFacts
  <2> QED
    BY <1>1, <2>1, <2>3, <2>4, WholeByListing
<1>5. CASE reader # "gitlabCompare"
  <2>1. raw \in RawOf(reader)
    BY <1>5 DEF CoverageInv, ReadInv
  <2>2. {raw.files, raw.texts} \subseteq SUBSET Changed
    BY <2>1, RawFacts
  <2>3. CASE reader = "github"
    <3>1. GithubWarnings = {}
      BY <2>3 DEF Warned
    <3>2. /\ listing.said = Cardinality(listing.files) /\ listing.said = Cardinality(raw.files)
          /\ Omitted = {}
      BY <3>1 DEF GithubWarnings
    <3>3. listing.files = Changed /\ raw.files = Changed
      BY <1>2, <1>3, <2>2, <3>2
    <3>4. listing.left \subseteq raw.texts
      BY <3>2 DEF Omitted
    <3> QED
      BY <1>1, <2>1, <3>3, <3>4, WholeByComparison
  <2>4. CASE reader = "githubCompare"
    <3>1. GithubCompareWarnings = {}
      BY <2>4 DEF Warned
    <3>2. /\ Cardinality(listing.files) >= ListingCap \/ Cardinality(raw.files) = Cardinality(listing.files)
          /\ Omitted = {}
      BY <3>1 DEF GithubCompareWarnings
    <3>3. CASE ~(Cardinality(listing.files) >= ListingCap)
      <4>1. listing.files = Changed
        BY <1>1, <1>2, <1>3, <2>4, <3>3, ListingFacts
      <4>2. raw.files = Changed
        BY <1>3, <2>2, <3>2, <3>3, <4>1
      <4>3. listing.left \subseteq raw.texts
        BY <3>2 DEF Omitted
      <4> QED
        BY <1>1, <2>1, <4>1, <4>2, <4>3, WholeByComparison
    <3> QED
      BY <2>4, <3>3 DEF BeyondCap
  <2>5. CASE reader = "gitlab"
    <3>1. listing.files = Changed /\ raw.files = Changed /\ listing.left = {}
      BY <1>1, <2>5, ListingFacts DEF GitlabRefusesFiles
    <3> QED
      BY <1>1, <2>1, <3>1, WholeByComparison
  <2>6. CASE reader = "entire"
    <3>1. EntireWarnings = {}
      BY <2>6 DEF Warned
    <3>2. ~listing.cut /\ listing.files = raw.files /\ listing.left = {}
      BY <3>1 DEF EntireWarnings
    <3>3. listing.files = Changed
      BY <1>1, <2>6, <3>2, ListingFacts
    <3> QED
      BY <1>1, <2>1, <3>2, <3>3, WholeByComparison
  <2> QED
    BY <1>1, <1>5, <2>3, <2>4, <2>5, <2>6 DEF Providers
<1> QED
  BY <1>4, <1>5

LEMMA BelowTheCap ==
  ASSUME NEW m \in Nat, NEW n \in Nat, m < n
  PROVE  ~(m >= n)
  OBVIOUS

\* Nothing missing means no warning.
LEMMA WholeIsSilent ==
  ASSUME CoverageInv, report = "read", "from files" \notin warnings, Whole,
         listing.files = Changed, listing.left = {}, ~listing.cut,
         Cardinality(Changed) < ListingCap
  PROVE  ~GitlabRefusesFiles /\ ~EntireRefusesEmpty /\ warnings = {} /\ Warned = {}
<1>1. listing \in ListingOf(reader) /\ reader \in Providers
  BY DEF CoverageInv, ReadInv
<1>2. listing.said = Cardinality(Changed)
  BY <1>1, ListingFacts
<1>3. raw.files = Changed /\ Omitted = {}
  BY DEF Whole, Omitted
<1>4. Cardinality(Changed) \in Nat /\ ListingCap \in Nat
  BY ChangedIsFinite, CoverageAssumption, ZenonT(60) DEF CoverageInv, CoverageAssumption
<1>5. warnings = {}
  <2>1. warnings = {"from files"} \/ warnings = {}
    BY DEF CoverageInv, ReadInv
  <2> QED
    BY <2>1
<1>6. ~GitlabRefusesFiles /\ ~EntireRefusesEmpty
  BY <1>3 DEF GitlabRefusesFiles, EntireRefusesEmpty
<1>7. GithubWarnings = {}
  BY <1>2, <1>3 DEF GithubWarnings
<1>8. /\ Cardinality(listing.files) = Cardinality(raw.files)
       /\ ~(Cardinality(listing.files) >= ListingCap)
  <2>1. Cardinality(listing.files) = Cardinality(Changed)
    BY Zenon
  <2>2. Cardinality(raw.files) = Cardinality(Changed)
    BY <1>3, Zenon
  <2>3. ~(Cardinality(Changed) >= ListingCap)
    BY <1>4, BelowTheCap, Zenon
  <2> QED
    BY <2>1, <2>2, <2>3, Zenon
<1>9. GithubCompareWarnings = {}
  BY <1>3, <1>8 DEF GithubCompareWarnings
<1>10. GitlabCompareWarnings = {}
  BY <1>8 DEF GitlabCompareWarnings
<1>11. EntireWarnings = {}
  BY <1>3 DEF EntireWarnings
<1> QED
  BY <1>1, <1>5, <1>6, <1>7, <1>9, <1>10, <1>11 DEF Warned, Providers

LEMMA CoverageInitially == CoverageInit => CoverageInv
  BY DEF CoverageInit, CoverageInv, ReadInv, MissingIsTold, NoRaw

LEMMA CoverageStep == CoverageInv /\ [CoverageNext]_coverageVars => CoverageInv'
<1> SUFFICES ASSUME CoverageInv, [CoverageNext]_coverageVars PROVE CoverageInv'
  OBVIOUS
<1>1. CASE UNCHANGED coverageVars
  <2>1. ReadInv'
    <3>1. /\ ListingOf(reader)' = ListingOf(reader) /\ RawOf(reader)' = RawOf(reader)
          /\ FromListing' = FromListing
      BY <1>1 DEF coverageVars, FromListing, ListingOf, RawOf, OfForm, Changed
    <3> QED
      BY <1>1, <3>1 DEF CoverageInv, coverageVars, ReadInv
  <2>2. MissingIsTold'
    BY <1>1 DEF CoverageInv, coverageVars, MissingIsTold, Whole, BeyondCap, OfForm, Changed
  <2> QED
    BY <1>1, <2>1, <2>2 DEF CoverageInv, coverageVars
<1>2. CASE ReadListing
  <2>1. /\ UNCHANGED <<reader, form, raw, warnings>> /\ raw = NoRaw /\ warnings = {}
        /\ listing' \in ListingOf(reader)
        /\ report' \in {"listed", "refused"}
    BY <1>2 DEF ReadListing, Refuse, CoverageInv, ReadInv
  <2>2. ListingOf(reader)' = ListingOf(reader)
    BY <2>1 DEF ListingOf, OfForm, Changed
  <2>3. raw'.status = 0
    BY <2>1 DEF NoRaw
  <2>4. MissingIsTold'
    BY <2>1, <2>3 DEF MissingIsTold
  <2>5. ReadInv'
    BY <2>1, <2>2 DEF ReadInv
  <2> QED
    BY <2>1, <2>4, <2>5 DEF CoverageInv
<1>3. CASE ReadRaw
  <2>1. PICK r \in IF reader = "gitlabCompare" THEN {FromListing} ELSE RawOf(reader) :
          /\ raw' = IF r.status = 406 THEN FromListing ELSE r
          /\ IF r.status = 500
               THEN Refuse
               ELSE /\ warnings' = IF r.status = 406 THEN {"from files"} ELSE {}
                    /\ report' = "read"
    BY <1>3 DEF ReadRaw
  <2>2. UNCHANGED <<reader, form, listing>> /\ report = "listed"
    BY <1>3 DEF ReadRaw
  <2>3. /\ ListingOf(reader)' = ListingOf(reader)
        /\ RawOf(reader)' = RawOf(reader)
        /\ FromListing' = FromListing /\ FromListing.status = 200
    BY <2>2 DEF ListingOf, RawOf, OfForm, Changed, FromListing
  <2>4. r.status \in {200, 406, 500} /\ (r.status = 406 => reader # "gitlabCompare")
    <3>1. CASE reader = "gitlabCompare"
      BY <2>3, <3>1
    <3>2. CASE reader # "gitlabCompare"
      <4>1. r \in RawOf(reader)
        BY <3>2
      <4> QED
        BY <3>2, <4>1, RawFacts
    <3> QED
      BY <3>1, <3>2
  <2>5. CASE r.status = 500
    <3>1. report' = "refused" /\ raw'.status = 500
      BY <2>1, <2>5 DEF Refuse
    <3> QED
      BY <2>2, <3>1 DEF CoverageInv, ReadInv, MissingIsTold
  <2>6. CASE r.status # 500
    <3>1. report' = "read" /\ raw'.status = 200
      BY <2>1, <2>3, <2>4, <2>6
    <3>2. \/ raw' = FromListing /\ warnings' = {"from files"}
          \/ raw' = FromListing /\ warnings' = {} /\ reader = "gitlabCompare"
          \/ raw' \in RawOf(reader) /\ warnings' = {} /\ reader # "gitlabCompare"
      <4>1. CASE r.status = 406
        BY <2>1, <2>6, <4>1
      <4>2. CASE r.status # 406
        BY <2>1, <2>6, <4>2
      <4> QED
        BY <4>1, <4>2
    <3>3. listing' \in ListingOf(reader)'
      BY <2>2, <2>3 DEF CoverageInv, ReadInv
    <3>4. ReadInv'
      BY <2>2, <2>3, <3>1, <3>2, <3>3 DEF ReadInv
    <3> QED
      BY <2>2, <3>1, <3>4 DEF CoverageInv, MissingIsTold
  <2> QED
    BY <2>5, <2>6
<1>4. CASE Assess
  <2>1. /\ UNCHANGED <<reader, form, listing, raw>> /\ report = "read"
        /\ Whole' = Whole /\ BeyondCap' = BeyondCap /\ Changed' = Changed
    BY <1>4 DEF Assess, Whole, BeyondCap, OfForm, Changed
  <2>2. IF GitlabRefusesFiles \/ EntireRefusesEmpty
          THEN report' = "refused" /\ warnings' = warnings
          ELSE report' = "shown" /\ warnings' = warnings \cup Warned
    BY <1>4 DEF Assess, Refuse, Warned
  <2>3. ASSUME report' = "shown", warnings' = {}
        PROVE  Whole \/ BeyondCap
    BY <2>1, <2>2, <2>3, SilenceIsWhole
  <2>4. ASSUME "from files" \notin warnings', Whole, listing.files = Changed,
               listing.left = {}, ~listing.cut, Cardinality(Changed) < ListingCap
        PROVE  report' = "shown" /\ warnings' = {}
    BY <2>1, <2>2, <2>4, WholeIsSilent
  <2>5. MissingIsTold'
    BY <2>1, <2>3, <2>4 DEF MissingIsTold
  <2>6. report' \in {"refused", "shown"}
    BY <2>2
  <2> QED
    BY <2>1, <2>5, <2>6 DEF CoverageInv, ReadInv
<1> QED
  BY <1>1, <1>2, <1>3, <1>4 DEF CoverageNext

\* Whatever a service leaves out, the snapshot says so, and it says so only
\* then: MissingIsTold for every set of files, page size and cap.
THEOREM WhatIsMissingIsTold == CoverageSpec => []MissingIsTold
<1>1. CoverageInit => CoverageInv
  BY CoverageInitially
<1>2. CoverageInv /\ [CoverageNext]_coverageVars => CoverageInv'
  BY CoverageStep
<1>3. CoverageInv => MissingIsTold
  BY DEF CoverageInv
<1> QED
  BY <1>1, <1>2, <1>3, PTL DEF CoverageSpec

-----------------------------------------------------------------------------
(* Evidence.                                                               *)

\* A gate that is shown as passed did pass on that commit.
LEMMA GateShownIsTrue ==
  ASSUME GateType, GateTells, pin # 0, GateVerdict(gate, pin) = "success"
  PROVE  outcome[pin] = "passed"
<1>1. gate.status = "passed" /\ gate.at = pin /\ gate.outcome \in {"none", gate.status}
  BY DEF GateVerdict
<1> QED
  BY <1>1 DEF GateTells, Outcomes

\* A check that is shown as green completed with success on this commit.
LEMMA CheckShownIsTrue ==
  ASSUME NEW c \in CheckInputs, pin = 1, NEW s \in CheckRows(c),
         s.conclusion = "success", s.status = "completed"
  PROVE  /\ "success" \in {c.state, c.conclusion}
         /\ c.commit = pin
         /\ c.from = "entire" => c.available
<1>1. CASE c.from = "github"
  <2>1. s = GithubCheck(c) /\ c.commit = 1
    BY <1>1 DEF CheckRows, CheckInputs
  <2> QED
    BY <1>1, <2>1 DEF GithubCheck
<1>2. CASE c.from = "gitlab"
  <2>1. s = GitlabCheck(c) /\ c.commit = pin
    BY <1>2 DEF CheckRows
  <2>2. c.state = "success"
    BY <2>1 DEF GitlabCheck
  <2> QED
    BY <1>2, <2>1, <2>2
<1>3. CASE c.from = "entire"
  <2>1. s \in EntireRuns(c) /\ c.commit = pin
    BY <1>3 DEF CheckRows
  <2>2. c.state = "completed" /\ c.conclusion = "success"
    BY <2>1 DEF EntireRuns
  <2>3. c.available
    BY <2>1, <2>2 DEF EntireRuns
  <2> QED
    BY <2>1, <2>2, <2>3
<1>4. c.from \in {"github", "gitlab", "entire"}
  BY DEF CheckInputs
<1> QED
  BY <1>1, <1>2, <1>3, <1>4

\* The arithmetic of a page that was neither cut nor filtered.
LEMMA UncutPage ==
  ASSUME NEW cap \in Nat, NEW indexed \in 0 .. cap + 1, NEW listed \in 0 .. cap + 1,
         NEW bad \in 0 .. 1, NEW twice \in 0 .. 1,
         listed =< indexed, ~(listed - twice < indexed),
         ~(listed > cap), ~(bad > 0), ~(twice > 0)
  PROVE  Shorter(listed, cap) - bad - twice = indexed
  BY DEF Shorter

\* A list of sessions that is called complete has every indexed session.
LEMMA SessionsShownAreAll ==
  ASSUME NEW l \in SessionLists, Sessions(l).says \in {"all", "none indexed"}
  PROVE  Sessions(l).rows = l.indexed
<1>1. MaxListed \in Nat
  BY EvidenceAssumption DEF EvidenceAssumption
<1>2. /\ l.indexed \in 0 .. MaxListed + 1 /\ l.listed \in 0 .. MaxListed + 1
      /\ l.bad \in 0 .. 1 /\ l.twice \in 0 .. 1
      /\ l.listed =< l.indexed
      /\ l.complete /\ l.access => (l.more <=> l.listed - l.twice < l.indexed)
  BY DEF SessionLists
<1>3. /\ l.access /\ l.complete /\ ~l.more
      /\ ~(l.listed > MaxListed) /\ ~(l.bad > 0) /\ ~(l.twice > 0)
      /\ Sessions(l).rows = Shorter(l.listed, MaxListed) - l.bad - l.twice
  BY DEF Sessions
<1>4. ~(l.listed - l.twice < l.indexed)
  BY <1>2, <1>3, Zenon
<1>5. Shorter(l.listed, MaxListed) - l.bad - l.twice = l.indexed
  <2> DEFINE listed == l.listed
             indexed == l.indexed
             bad == l.bad
             twice == l.twice
  <2>1. MaxListed \in Nat
    BY <1>1
  <2>2. indexed \in 0 .. MaxListed + 1 /\ listed \in 0 .. MaxListed + 1
    BY <1>2
  <2>3. bad \in 0 .. 1 /\ twice \in 0 .. 1
    BY <1>2
  <2>4. listed =< indexed
    BY <1>2
  <2>5. ~(listed - twice < indexed)
    BY <1>4
  <2>6. ~(listed > MaxListed) /\ ~(bad > 0) /\ ~(twice > 0)
    BY <1>3
  <2> HIDE DEF listed, indexed, bad, twice
  <2>7. Shorter(listed, MaxListed) - bad - twice = indexed
    BY ONLY <2>1, <2>2, <2>3, <2>4, <2>5, <2>6, UncutPage
  <2> QED
    BY <2>7 DEF listed, indexed, bad, twice
<1> QED
  BY <1>3, <1>5, Zenon

-----------------------------------------------------------------------------
(* The decision of a list of reviews.                                      *)

\* A set of numbers has a least one.
LEMMA LeastNumber ==
  ASSUME NEW S, S \subseteq Nat, S # {}
  PROVE  \E x \in S : \A y \in S : x =< y
<1>1. PICK x \in S : \A y \in S : ~(<<y, x>> \in OpToRel(<, Nat))
  BY NatLessThanWellFounded, WFMin
<1>2. \A y \in S : ~(y < x)
  BY <1>1 DEF OpToRel
<1> QED
  BY <1>2

\* What holds before the first element and stays true from one to the next
\* holds after each.
LEMMA AfterEach ==
  ASSUME NEW n \in Nat, NEW S, 0 \in S, \A k \in 0 .. n - 1 : k \in S => k + 1 \in S
  PROVE  0 .. n \subseteq S
<1> DEFINE Bad == {k \in 0 .. n : k \notin S}
<1> SUFFICES ASSUME Bad # {} PROVE FALSE
  OBVIOUS
<1>1. Bad \subseteq Nat
  OBVIOUS
<1>2. PICK k \in Bad : \A y \in Bad : k =< y
  <2> HIDE DEF Bad
  <2> QED
    BY <1>1, LeastNumber
<1>3. k \in 0 .. n /\ k \notin S /\ k # 0
  BY <1>2
<1>4. k - 1 \in 0 .. n - 1 /\ k - 1 \in 0 .. n /\ ~(k =< k - 1)
  BY ONLY <1>3, n \in Nat
<1>5. k - 1 \in S
  BY <1>2, <1>4
<1>6. (k - 1) + 1 \in S
  BY <1>4, <1>5
<1>7. (k - 1) + 1 = k
  BY <1>3
<1> QED
  BY <1>3, <1>6, <1>7

\* The words that count after each review, as review_decision collects them.
Heard(g, reviews, n) ==
  IF n = 0 THEN [u \in Reviewers |-> "none"]
  ELSE IF reviews[n].word \in Counted THEN [g[n - 1] EXCEPT ![reviews[n].by] = reviews[n].word]
  ELSE g[n - 1]

\* review_decision may be unfolded.
LEMMA DecisionUnfolds ==
  ASSUME NEW reviews, Len(reviews) \in Nat
  PROVE  \E g : /\ \A n \in 0 .. Len(reviews) : g[n] = Heard(g, reviews, n)
                /\ Decision(reviews)
                     = IF \E u \in Reviewers : g[Len(reviews)][u] = "CHANGES_REQUESTED" THEN "changes requested"
                       ELSE IF \E u \in Reviewers : g[Len(reviews)][u] = "APPROVED" THEN "approved" ELSE "none"
<1> DEFINE len == Len(reviews)
           Ok(g, m) == \A n \in 0 .. m : g[n] = Heard(g, reviews, n)
           Good == {m \in 0 .. len : \E g : Ok(g, m)}
<1>1. 0 \in Good
  <2>1. Ok([n \in {0} |-> [u \in Reviewers |-> "none"]], 0)
    BY DEF Heard
  <2>2. 0 \in 0 .. len
    OBVIOUS
  <2> HIDE DEF Ok
  <2>3. \E g : Ok(g, 0)
    BY <2>1
  <2> QED
    BY <2>2, <2>3
<1>2. ASSUME NEW m \in 0 .. len - 1, m \in Good
      PROVE  m + 1 \in Good
  <2>1. PICK g : Ok(g, m)
    BY <1>2
  <2> DEFINE next == IF reviews[m + 1].word \in Counted THEN [g[m] EXCEPT ![reviews[m + 1].by] = reviews[m + 1].word]
                     ELSE g[m]
             h == [n \in 0 .. m + 1 |-> IF n =< m THEN g[n] ELSE next]
  <2> HIDE DEF next
  <2>2. ASSUME NEW n \in 0 .. m + 1
        PROVE  h[n] = Heard(h, reviews, n)
    <3>1. CASE n =< m
      <4>1. n \in 0 .. m /\ h[n] = g[n] /\ (n # 0 => h[n - 1] = g[n - 1])
        BY <3>1
      <4>2. g[n] = Heard(g, reviews, n)
        BY <2>1, <4>1
      <4> HIDE DEF h
      <4> QED
        BY <4>1, <4>2 DEF Heard
    <3>2. CASE ~(n =< m)
      <4>1. n = m + 1 /\ n # 0 /\ n - 1 = m /\ m =< m
        BY <3>2
      <4>2. h[n] = next
        BY <3>2
      <4>3. m \in 0 .. m + 1
        OBVIOUS
      <4>4. h[m] = g[m]
        BY <4>1, <4>3
      <4> HIDE DEF h
      <4> QED
        BY <4>1, <4>2, <4>4 DEF Heard, next
    <3> QED
      BY <3>1, <3>2
  <2> HIDE DEF h
  <2>3. Ok(h, m + 1)
    BY <2>2
  <2>4. m + 1 \in 0 .. len
    OBVIOUS
  <2> HIDE DEF Ok
  <2> QED
    BY <2>3, <2>4
<1>3. len \in Good
  <2> HIDE DEF Good
  <2>1. 0 .. len \subseteq Good
    BY <1>1, <1>2, AfterEach
  <2> QED
    BY <2>1
<1>4. PICK g : Ok(g, len)
  BY <1>3
<1> DEFINE f == [n \in 0 .. len |-> g[n]]
<1>5. ASSUME NEW n \in 0 .. len
      PROVE  f[n] = Heard(f, reviews, n)
  <2>1. n # 0 => n - 1 \in 0 .. len
    OBVIOUS
  <2>2. f[n] = Heard(g, reviews, n) /\ (n # 0 => f[n - 1] = g[n - 1])
    BY <1>4, <2>1
  <2> HIDE DEF f
  <2> QED
    BY <2>2 DEF Heard
<1>6. f = [n \in 0 .. len |-> Heard(f, reviews, n)]
  BY <1>5
<1> DEFINE d == CHOOSE d : d = [n \in 0 .. len |-> Heard(d, reviews, n)]
<1>7. d = [n \in 0 .. len |-> Heard(d, reviews, n)]
  <2> HIDE DEF f
  <2> QED
    BY <1>6
<1>8. Decision(reviews) = IF \E u \in Reviewers : d[len][u] = "CHANGES_REQUESTED" THEN "changes requested"
                          ELSE IF \E u \in Reviewers : d[len][u] = "APPROVED" THEN "approved" ELSE "none"
  BY DEF Decision, Heard
<1>9. \A n \in 0 .. len : d[n] = Heard(d, reviews, n)
  <2> HIDE DEF d
  <2> QED
    BY <1>7
<1> HIDE DEF d
<1> QED
  BY <1>8, <1>9

\* What is heard of a reviewer after n reviews is the last counted word.
Speaks(reviews, u, i) == reviews[i].by = u /\ reviews[i].word \in Counted
HeardLast(reviews, u, n, w) ==
  \/ w = "none" /\ \A i \in 1 .. n : ~Speaks(reviews, u, i)
  \/ \E i \in 1 .. n : /\ Speaks(reviews, u, i) /\ w = reviews[i].word
                       /\ \A j \in i + 1 .. n : ~Speaks(reviews, u, j)

LEMMA HeardLastIs ==
  ASSUME NEW reviews \in Seq([by : Reviewers, word : Word]), NEW u \in Reviewers,
         NEW w, HeardLast(reviews, u, Len(reviews), w)
  PROVE  w = LastWord(reviews, u)
<1> DEFINE said == {i \in DOMAIN reviews : reviews[i].by = u /\ reviews[i].word \in Counted}
           Latest(i) == \A j \in said : j =< i
<1>0. Len(reviews) \in Nat /\ DOMAIN reviews = 1 .. Len(reviews)
  OBVIOUS
<1>1. LastWord(reviews, u) = IF said = {} THEN "none" ELSE reviews[CHOOSE i \in said : Latest(i)].word
  BY DEF LastWord
<1>2. \A i \in 1 .. Len(reviews) : i \in said <=> Speaks(reviews, u, i)
  BY <1>0 DEF Speaks
<1>3. CASE w = "none" /\ \A i \in 1 .. Len(reviews) : ~Speaks(reviews, u, i)
  <2>1. said = {}
    BY <1>0, <1>2, <1>3
  <2> HIDE DEF said
  <2> QED
    BY <1>1, <1>3, <2>1
<1>4. CASE \E i \in 1 .. Len(reviews) : /\ Speaks(reviews, u, i) /\ w = reviews[i].word
                                        /\ \A j \in i + 1 .. Len(reviews) : ~Speaks(reviews, u, j)
  <2>1. PICK i \in 1 .. Len(reviews) : /\ Speaks(reviews, u, i) /\ w = reviews[i].word
                                       /\ \A j \in i + 1 .. Len(reviews) : ~Speaks(reviews, u, j)
    BY <1>4
  <2>2. i \in said /\ said \subseteq 1 .. Len(reviews)
    BY <1>0, <1>2, <2>1
  <2>3. \A j \in said : ~(j \in i + 1 .. Len(reviews))
    BY <1>2, <2>1, <2>2
  <2> HIDE DEF said
  <2>4. Latest(i)
    BY <1>0, <2>2, <2>3
  <2>5. \A k \in said : Latest(k) => k = i
    <3>1. ASSUME NEW k \in said, Latest(k)
          PROVE  k = i
      <4>1. k =< i /\ i =< k
        BY <2>2, <2>4, <3>1
      <4>2. k \in Nat /\ i \in Nat
        BY <1>0, <2>2
      <4> QED
        BY ONLY <4>1, <4>2
    <3> QED
      BY <3>1
  <2> HIDE DEF Latest
  <2>6. (CHOOSE k \in said : Latest(k)) = i
    BY <2>2, <2>4, <2>5
  <2> QED
    BY <1>1, <2>1, <2>2, <2>6
<1> QED
  BY <1>3, <1>4 DEF HeardLast

LEMMA HeardGrows ==
  ASSUME NEW reviews \in Seq([by : Reviewers, word : Word]), NEW g,
         \A n \in 0 .. Len(reviews) : g[n] = Heard(g, reviews, n)
  PROVE  \A u \in Reviewers : HeardLast(reviews, u, Len(reviews), g[Len(reviews)][u])
<1> DEFINE len == Len(reviews)
           Good == {n \in 0 .. len : /\ DOMAIN g[n] = Reviewers
                                      /\ \A u \in Reviewers : HeardLast(reviews, u, n, g[n][u])}
<1>0. len \in Nat
  OBVIOUS
<1>1. 0 \in Good
  <2>1. g[0] = [u \in Reviewers |-> "none"]
    <3>1. 0 \in 0 .. Len(reviews)
      BY <1>0
    <3>2. g[0] = Heard(g, reviews, 0)
      BY <3>1, Zenon
    <3> QED
      BY <3>2 DEF Heard
  <2>2. \A u \in Reviewers : HeardLast(reviews, u, 0, "none")
    BY DEF HeardLast
  <2> QED
    BY <1>0, <2>1, <2>2
<1>2. ASSUME NEW n \in 0 .. len - 1, n \in Good
      PROVE  n + 1 \in Good
  <2>1. n + 1 \in 0 .. len /\ n + 1 \in 1 .. len /\ n + 1 # 0 /\ (n + 1) - 1 = n /\ n \in Nat
    BY <1>0
  <2>2. g[n + 1] = IF reviews[n + 1].word \in Counted THEN [g[n] EXCEPT ![reviews[n + 1].by] = reviews[n + 1].word]
                   ELSE g[n]
    BY <2>1 DEF Heard
  <2>3. DOMAIN g[n] = Reviewers /\ \A u \in Reviewers : HeardLast(reviews, u, n, g[n][u])
    BY <1>2
  <2>4. DOMAIN g[n + 1] = Reviewers
    BY <2>2, <2>3
  <2>5. ASSUME NEW u \in Reviewers
        PROVE  HeardLast(reviews, u, n + 1, g[n + 1][u])
    <3>1. CASE Speaks(reviews, u, n + 1)
      <4>1. g[n + 1][u] = reviews[n + 1].word
        BY <2>2, <2>3, <3>1 DEF Speaks
      <4>2. n + 1 \in 1 .. n + 1 /\ \A j \in (n + 1) + 1 .. n + 1 : FALSE
        BY <2>1
      <4> QED
        BY <3>1, <4>1, <4>2 DEF HeardLast
    <3>2. CASE ~Speaks(reviews, u, n + 1)
      <4>1. g[n + 1][u] = g[n][u]
        BY <2>2, <2>3, <3>2 DEF Speaks
      <4>2. HeardLast(reviews, u, n, g[n][u])
        BY <2>3
      <4>3. CASE g[n][u] = "none" /\ \A i \in 1 .. n : ~Speaks(reviews, u, i)
        <5>1. \A i \in 1 .. n + 1 : i \in 1 .. n \/ i = n + 1
          BY <2>1
        <5>2. \A i \in 1 .. n + 1 : ~Speaks(reviews, u, i)
          BY <3>2, <4>3, <5>1
        <5> QED
          BY <4>1, <4>3, <5>2 DEF HeardLast
      <4>4. CASE \E i \in 1 .. n : /\ Speaks(reviews, u, i) /\ g[n][u] = reviews[i].word
                                   /\ \A j \in i + 1 .. n : ~Speaks(reviews, u, j)
        <5>1. PICK i \in 1 .. n : /\ Speaks(reviews, u, i) /\ g[n][u] = reviews[i].word
                                  /\ \A j \in i + 1 .. n : ~Speaks(reviews, u, j)
          BY <4>4
        <5>2. i \in 1 .. n + 1 /\ \A j \in i + 1 .. n + 1 : j \in i + 1 .. n \/ j = n + 1
          BY <2>1
        <5>3. \A j \in i + 1 .. n + 1 : ~Speaks(reviews, u, j)
          BY <3>2, <5>1, <5>2
        <5> QED
          BY <4>1, <5>1, <5>2, <5>3 DEF HeardLast
      <4> QED
        BY <4>2, <4>3, <4>4 DEF HeardLast
    <3> QED
      BY <3>1, <3>2
  <2> QED
    BY <2>1, <2>4, <2>5
<1>3. 0 .. len \subseteq Good
  <2> HIDE DEF Good
  <2> QED
    BY <1>0, <1>1, <1>2, AfterEach
<1> QED
  BY <1>0, <1>3

\* A review is approved by somebody who has not taken it back, with nobody
\* asking for changes, and by nothing else.
LEMMA DecisionIsTrue ==
  ASSUME NEW reviews \in Seq([by : Reviewers, word : Word])
  PROVE  /\ (Decision(reviews) = "approved") = (/\ \E u \in Reviewers : LastWord(reviews, u) = "APPROVED"
                                                /\ \A u \in Reviewers : LastWord(reviews, u) # "CHANGES_REQUESTED")
         /\ (Decision(reviews) = "changes requested") = (\E u \in Reviewers : LastWord(reviews, u) = "CHANGES_REQUESTED")
<1>0. Len(reviews) \in Nat
  OBVIOUS
<1>1. PICK g : /\ \A n \in 0 .. Len(reviews) : g[n] = Heard(g, reviews, n)
               /\ Decision(reviews)
                    = IF \E u \in Reviewers : g[Len(reviews)][u] = "CHANGES_REQUESTED" THEN "changes requested"
                      ELSE IF \E u \in Reviewers : g[Len(reviews)][u] = "APPROVED" THEN "approved" ELSE "none"
  BY <1>0, DecisionUnfolds
<1>2. \A u \in Reviewers : HeardLast(reviews, u, Len(reviews), g[Len(reviews)][u])
  BY <1>1, HeardGrows
<1>3. \A u \in Reviewers : g[Len(reviews)][u] = LastWord(reviews, u)
  BY <1>2, HeardLastIs
<1>4. Decision(reviews)
        = IF \E u \in Reviewers : LastWord(reviews, u) = "CHANGES_REQUESTED" THEN "changes requested"
          ELSE IF \E u \in Reviewers : LastWord(reviews, u) = "APPROVED" THEN "approved" ELSE "none"
  BY <1>1, <1>3
<1> QED
  BY <1>4

\* What a merge request's two answers come to.
LEMMA ApprovalIsTrue ==
  ASSUME NEW a \in Approvals
  PROVE  ApprovalTrue(GitlabDecision(a), a)
  BY DEF GitlabDecision, Approvals, ApprovalTrue

LEMMA EvidenceInitially == EvidenceInit => EvidenceInv
<1> SUFFICES ASSUME EvidenceInit PROVE EvidenceInv
  OBVIOUS
<1>1. about = "gate" => GateType /\ GateTells
  <2>1. 1 \in Heads
    BY EvidenceAssumption DEF EvidenceAssumption, Heads
  <2>2. about = "gate" => GateTells
    BY DEF EvidenceInit, GateTells, NoGate, Outcomes
  <2>3. about = "gate" => GateType
    BY <2>1 DEF EvidenceInit, GateType, NoGate, Outcomes
  <2> QED
    BY <2>2, <2>3
<1>2. /\ about = "check" => input \in CheckInputs /\ pin = 1
      /\ about = "approvals" => input \in Approvals
      /\ about = "sessions" => input \in SessionLists
      /\ about \in {"gate", "check", "decision", "approvals", "sessions"}
  BY DEF EvidenceInit
<1>3. GreenIsEarned
  BY DEF EvidenceInit, GreenIsEarned
<1>4. ASSUME about = "decision"
      PROVE  input \in Seq([by : Reviewers, word : Word])
  <2> DEFINE R == [by : Reviewers, word : Word]
  <2>1. input \in BoundedSeq(R, MaxReviews)
    BY <1>4 DEF EvidenceInit
  <2> HIDE DEF R
  <2>2. PICK m \in 0 .. MaxReviews : input \in [1 .. m -> R]
    BY <2>1 DEF BoundedSeq, SeqOf
  <2>3. m \in Nat
    BY <2>2, EvidenceAssumption DEF EvidenceAssumption
  <2>4. input \in Seq(R)
    BY <2>2, <2>3, SeqDef
  <2> QED
    BY <2>4 DEF R
<1> QED
  BY <1>1, <1>2, <1>3, <1>4 DEF EvidenceInv

\* A step that leaves alone what is shown and what it was made of.
LEMMA GreenFrame ==
  ASSUME EvidenceInv, UNCHANGED <<about, input, displayed>>, about = "gate"
  PROVE  GreenIsEarned'
  BY DEF EvidenceInv, GreenIsEarned

\* The report stays true to its commit while pushes and evaluations go on.
LEMMA GateStep ==
  ASSUME EvidenceInv, about = "gate",
         \/ Push \/ ReportMoves \/ EvaluationStarts \/ StatusWritten
         \/ (\E o \in Outcomes : EvaluationEnds(o))
         \/ GateChanges \/ ReadPins
  PROVE  GateType' /\ GateTells'
<1> USE DEF GateType, GateTells
<1>0. GateType /\ GateTells /\ MaxHeads \in Nat \ {0}
  BY EvidenceAssumption DEF EvidenceInv, EvidenceAssumption
<1>1. CASE Push
  <2>1. head' \in Heads
    <3>1. head \in 1 .. MaxHeads /\ head < MaxHeads /\ head' = head + 1 /\ MaxHeads \in Nat
      BY <1>0, <1>1 DEF Push, Heads
    <3>2. head' \in 1 .. MaxHeads
      BY ONLY <3>1
    <3> QED
      BY <3>2 DEF Heads
  <2>2. UNCHANGED <<outcome, running, gate, pin>>
    BY <1>1 DEF Push
  <2> QED
    BY <1>0, <2>1, <2>2, ZenonT(60)
<1>2. CASE ReportMoves
  BY <1>0, <1>2, ZenonT(60) DEF ReportMoves
<1>3. CASE EvaluationStarts
  <2>1. PICK word \in {"none", "running", "pending"} :
          gate' = [gate EXCEPT !.state = word, !.stale = FALSE]
    BY <1>3 DEF EvaluationStarts
  <2>2. UNCHANGED <<head, outcome, pin>> /\ running' = head
    BY <1>3 DEF EvaluationStarts
  <2>3. GateTells'
    BY <1>0, <2>1, <2>2
  <2>4. GateType'
    BY <1>0, <2>1, <2>2
  <2> QED
    BY <2>3, <2>4
<1>4. CASE StatusWritten
  BY <1>0, <1>4 DEF StatusWritten
<1>5. ASSUME NEW o \in Outcomes, EvaluationEnds(o)
      PROVE  GateType' /\ GateTells'
  <2>1. UNCHANGED <<head, pin>> /\ running' = 0 /\ outcome' = [outcome EXCEPT ![running] = o]
    BY <1>5 DEF EvaluationEnds
  <2>2. running \in Heads /\ running # 0 /\ o # "none"
    <3>1. running > 0 /\ running \in {0} \cup Heads
      BY <1>0, <1>5 DEF EvaluationEnds
    <3>2. running # 0
      BY <3>1
    <3>3. o # "none"
      BY DEF Outcomes
    <3> QED
      BY <3>1, <3>2, <3>3
  <2>3. outcome'[running] = o /\ outcome' \in [Heads -> Outcomes \cup {"none"}]
    BY <1>0, <2>1, <2>2
  <2>4. CASE gate' = [gate EXCEPT !.outcome = o, !.at = running]
    <3>1. GateTells'
      BY <1>0, <2>2, <2>3, <2>4
    <3>2. GateType'
      BY <1>0, <2>1, <2>2, <2>3, <2>4
    <3> QED
      BY <3>1, <3>2
  <2>5. CASE gate' = [gate EXCEPT !.outcome = "none", !.status = o, !.at = running, !.state = "evaluated"]
    <3>1. GateTells'
      BY <1>0, <2>2, <2>3, <2>5
    <3>2. GateType'
      BY <1>0, <2>1, <2>2, <2>3, <2>5
    <3> QED
      BY <3>1, <3>2
  <2> QED
    BY <1>5, <2>4, <2>5 DEF EvaluationEnds
<1>6. CASE GateChanges
  BY <1>0, <1>6, ZenonT(60) DEF GateChanges, Outcomes
<1>7. CASE ReadPins
  BY <1>0, <1>7 DEF ReadPins
<1> QED
  BY <1>1, <1>2, <1>3, <1>4, <1>5, <1>6, <1>7

LEMMA EvidenceStep == EvidenceInv /\ [EvidenceNext]_evidenceVars => EvidenceInv'
<1> SUFFICES ASSUME EvidenceInv, [EvidenceNext]_evidenceVars PROVE EvidenceInv'
  OBVIOUS
<1>1. CASE UNCHANGED evidenceVars
  <2>1. (about = "gate" => GateType /\ GateTells)'
    BY <1>1 DEF evidenceVars, EvidenceInv, GateType, GateTells
  <2>2. GreenIsEarned'
    <3> DEFINE Earned(s, of, inp, at) ==
                 CASE of = "gate"     -> s.says = "success" => s.truth = "passed"
                   [] of = "check"    -> s.conclusion = "success" /\ s.status = "completed" =>
                                           /\ "success" \in {inp.state, inp.conclusion}
                                           /\ inp.commit = at
                                           /\ inp.from = "entire" => inp.available
                   [] of = "decision" -> /\ (s = "approved") = (/\ \E u \in Reviewers : LastWord(inp, u) = "APPROVED"
                                                                /\ \A u \in Reviewers : LastWord(inp, u) # "CHANGES_REQUESTED")
                                         /\ (s = "changes requested") = (\E u \in Reviewers : LastWord(inp, u) = "CHANGES_REQUESTED")
                   [] of = "approvals" -> ApprovalTrue(s, inp)
                   [] OTHER           -> s.says \in {"all", "none indexed"} => s.rows = inp.indexed
    <3>1. GreenIsEarned = \A s \in displayed : Earned(s, about, input, pin)
      BY Zenon DEF GreenIsEarned
    <3>2. GreenIsEarned' = \A s \in displayed' : Earned(s, about', input', pin')
      BY Zenon DEF GreenIsEarned, LastWord
    <3>3. displayed' = displayed /\ about' = about /\ input' = input /\ pin' = pin
      BY <1>1 DEF evidenceVars
    <3>4. GreenIsEarned
      BY DEF EvidenceInv
    <3> HIDE DEF Earned
    <3> QED BY ONLY <3>1, <3>2, <3>3, <3>4
  <2> QED
    BY <1>1, <2>1, <2>2 DEF evidenceVars, EvidenceInv
<1>2. CASE \/ Push \/ ReportMoves \/ EvaluationStarts \/ StatusWritten
           \/ (\E o \in Outcomes : EvaluationEnds(o))
           \/ GateChanges \/ ReadPins
  <2>1. about = "gate" /\ UNCHANGED <<about, input, displayed>>
    BY <1>2 DEF Push, ReportMoves, EvaluationStarts, StatusWritten, EvaluationEnds, GateChanges,
         ReadPins
  <2>2. GateType' /\ GateTells'
    BY <1>2, <2>1, GateStep
  <2>3. GreenIsEarned'
    BY <2>1, GreenFrame
  <2> QED
    BY <2>1, <2>2, <2>3 DEF EvidenceInv
<1>3. CASE ShowGate
  <2>1. /\ about = "gate" /\ pin # 0 /\ UNCHANGED <<about, head, outcome, running, gate, pin, input>>
        /\ GateType /\ GateTells
    <3>1. about = "gate" /\ pin > 0 /\ GateType /\ GateTells
      BY <1>3 DEF ShowGate, EvidenceInv
    <3>2. pin # 0
      BY <3>1
    <3> QED
      BY <1>3, <3>1, <3>2 DEF ShowGate
  <2>2. GateType' /\ GateTells'
    BY <2>1 DEF GateType, GateTells
  <2>3. ASSUME NEW s \in displayed', s.says = "success"
        PROVE  s.truth = "passed"
    <3>1. /\ s.says = IF ReportPinned(pin) THEN GateVerdict(gate, pin) ELSE "nothing"
          /\ s.truth = outcome[pin]
      BY <1>3, <2>3 DEF ShowGate
    <3>2. GateVerdict(gate, pin) = "success"
      BY <2>3, <3>1
    <3> QED
      BY <2>1, <3>1, <3>2, GateShownIsTrue
  <2>4. GreenIsEarned'
    BY <2>1, <2>3 DEF GreenIsEarned
  <2> QED
    BY <2>1, <2>2, <2>4 DEF EvidenceInv
<1>4. CASE ShowInput
  <2>1. /\ about \in {"check", "decision", "approvals", "sessions"} /\ UNCHANGED <<about, pin, input>>
        /\ about = "check" => displayed' = CheckRows(input)
        /\ about = "decision" => displayed' = {Decision(input)}
        /\ about = "approvals" => displayed' = {GitlabDecision(input)}
        /\ about = "sessions" => displayed' = {Sessions(input)}
    BY <1>4 DEF ShowInput
  <2>2. CASE about = "check"
    <3>1. input \in CheckInputs /\ pin = 1
      BY <2>2 DEF EvidenceInv
    <3>2. GreenIsEarned'
      BY <2>1, <2>2, <3>1, CheckShownIsTrue DEF GreenIsEarned
    <3> QED
      BY <2>1, <2>2, <3>1, <3>2 DEF EvidenceInv
  <2>3. CASE about = "sessions"
    <3>1. input \in SessionLists
      BY <2>3 DEF EvidenceInv
    <3>2. GreenIsEarned'
      BY <2>1, <2>3, <3>1, SessionsShownAreAll DEF GreenIsEarned
    <3> QED
      BY <2>1, <2>3, <3>1, <3>2 DEF EvidenceInv
  <2>4. CASE about = "decision"
    <3>1. input \in Seq([by : Reviewers, word : Word])
      BY <2>4 DEF EvidenceInv
    <3>2. GreenIsEarned'
      BY <2>1, <2>4, <3>1, DecisionIsTrue DEF GreenIsEarned
    <3> QED
      BY <2>1, <2>4, <3>1, <3>2 DEF EvidenceInv
  <2>5. CASE about = "approvals"
    <3>1. input \in Approvals
      BY <2>5 DEF EvidenceInv
    <3>2. /\ displayed' = {GitlabDecision(input)} /\ about' = "approvals" /\ input' = input
          /\ ApprovalTrue(GitlabDecision(input), input)
      BY <2>1, <2>5, <3>1, ApprovalIsTrue
    <3>3. GreenIsEarned'
      BY ONLY <3>2 DEF GreenIsEarned
    <3> QED
      BY <2>1, <2>5, <3>1, <3>3 DEF EvidenceInv
  <2> QED
    BY <2>1, <2>2, <2>3, <2>4, <2>5
<1> QED
  BY <1>1, <1>2, <1>3, <1>4 DEF EvidenceNext

\* Nothing turns green that has not earned it (GreenIsEarned), for any number of
\* pushes and evaluations and lists of any length: gates, checks, the decision of a
\* list of reviews, the decision of a merge request as far as its two answers could
\* be read, and lists of sessions (gate_verdict, check_row, review_decision,
\* GitlabReader::snapshot, entire_sessions::apply).
THEOREM GreenIsAlwaysEarned == EvidenceSpec => []GreenIsEarned
<1>1. EvidenceInit => EvidenceInv
  BY EvidenceInitially
<1>2. EvidenceInv /\ [EvidenceNext]_evidenceVars => EvidenceInv'
  BY EvidenceStep
<1>3. EvidenceInv => GreenIsEarned
  BY DEF EvidenceInv
<1> QED
  BY <1>1, <1>2, <1>3, PTL DEF EvidenceSpec

-----------------------------------------------------------------------------
(* Trails.                                                                 *)

\* The directory answers with the placement of the forge of the address.
LEMMA DirectoryIsOfTheForge ==
  ASSUME WorldInv, Directory # 0
  PROVE  Directory = place[asked.forge] /\ asked.forge \in Forges
<1> DEFINE found == {f \in Forges : DirectoryName(f)}
<1>1. found \subseteq {asked.forge} /\ asked.forge \in Forges
  BY DEF DirectoryName, WorldInv, TrailAddresses
<1>2. Cardinality(found) = 1 /\ Directory = place[CHOOSE f \in found : TRUE]
  BY DEF Directory
<1>3. found # {}
  BY <1>2, FS_EmptySet
<1>4. found = {asked.forge}
  BY <1>1, <1>3
<1>5. (CHOOSE f \in found : TRUE) = asked.forge
  BY <1>4
<1> QED
  BY <1>1, <1>2, <1>5

\* A placement belongs to one forge.
LEMMA PlacementsApart ==
  ASSUME WorldInv, NEW f \in Forges
  PROVE  /\ place[f] \in Nat \ {0}
         /\ place[f] % 2 = IF f = "et" THEN 1 ELSE 0
  BY DEF WorldInv, Forges

\* What a placement answers under the number that is wanted.
LEMMA PinsAreNamed ==
  ASSUME TrailsInv, tpc \in {"before", "after"}, NEW p \in PinsRead
  PROVE  /\ p \in [change : Changes, parent : {0} \cup TrailNumbers]
         /\ home[p.change].forge = asked.forge
         /\ asked.kind # "trail" => home[p.change].number = asked.number
         /\ asked.kind # "repository" => p.parent = asked.trail
         /\ asked.kind = "trail" => p.change = selected.change
<1>1. PICK c \in Changes :
        /\ p = [change |-> c, parent |-> Parent(c)]
        /\ place[home[c].forge] = repo /\ home[c].number = Wanted
        /\ selected # NoPins => c = selected.change
        /\ asked.kind # "repository" => Parent(c) = asked.trail
  BY DEF PinsRead, At
<1>2. Parent(c) \in {0} \cup TrailNumbers
  BY DEF Parent, TrailsInv, WorldInv
<1>3. home[c].forge \in Forges /\ asked.forge \in Forges
  BY DEF TrailsInv, WorldInv, TrailAddresses
<1>4. home[c].forge = asked.forge
  <2>1. repo % 2 = IF asked.forge = "et" THEN 1 ELSE 0
    BY DEF TrailsInv, SelectionInv, Unread
  <2>2. repo % 2 = IF home[c].forge = "et" THEN 1 ELSE 0
    BY <1>1, <1>3, PlacementsApart DEF TrailsInv
  <2> QED
    BY <1>3, <2>1, <2>2 DEF Forges
<1>5. asked.kind = "trail" => selected # NoPins
  BY DEF TrailsInv, SelectionInv, NoPins
<1> QED
  BY <1>1, <1>2, <1>4, <1>5 DEF Wanted

\* Two Changes of one forge and one number are one.
LEMMA OneChange ==
  ASSUME WorldInv, NEW c \in Changes, NEW d \in Changes,
         home[c].forge = home[d].forge, home[c].number = home[d].number
  PROVE  c = d
<1>1. home[c] \in [forge : Forges, number : {1, 2}] /\ home[d] \in [forge : Forges, number : {1, 2}]
  BY DEF WorldInv
<1>2. home[c] = home[d]
  BY <1>1
<1> QED
  BY <1>2 DEF WorldInv

LEMMA NamedChangeFollows == TrailsInv => TheNamedChange
<1> SUFFICES ASSUME TrailsInv PROVE TheNamedChange
  OBVIOUS
<1>1. \A c \in opened : home[c].forge = asked.forge
  BY DEF TrailsInv, OpenedInv
<1>2. \A c, d \in opened : c = d
  <2>1. CASE asked.kind = "trail"
    BY <2>1 DEF TrailsInv, OpenedInv
  <2>2. CASE asked.kind # "trail"
    BY <2>2, OneChange DEF TrailsInv, OpenedInv
  <2> QED
    BY <2>1, <2>2
<1>3. Cardinality(opened) =< 1
  <2>1. CASE opened = {}
    BY <2>1, FS_EmptySet
  <2>2. CASE opened # {}
    <3>1. PICK c : opened = {c}
      BY <1>2, <2>2
    <3>2. Cardinality(opened) = 1
      BY <3>1, FS_Singleton, Zenon
    <3> QED
      BY <3>2
  <2> QED
    BY <2>1, <2>2
<1>4. ASSUME tpc = "shown"
      PROVE  /\ captured.from % 2 = (IF asked.forge = "et" THEN 1 ELSE 0)
             /\ asked.kind # "trail" => home[captured.change].number = asked.number
             /\ asked.kind # "repository" => captured.parent = asked.trail
             /\ asked.kind = "trail" => captured.members = {captured.change}
  <2>1. tpc \in AfterPins /\ tpc \in AfterDiff /\ tpc \notin Unread
    BY <1>4 DEF AfterPins, AfterDiff, Unread
  <2>2. captured.from = repo /\ repo % 2 = (IF asked.forge = "et" THEN 1 ELSE 0)
    BY <2>1 DEF TrailsInv, PinsInv, SelectionInv
  <2>3. captured.change = pins.change /\ captured.parent = pins.parent
    BY <1>4 DEF TrailsInv, PinsInv
  <2> QED
    BY <1>4, <2>1, <2>2, <2>3 DEF TrailsInv, PinsInv
<1> QED
  BY <1>1, <1>3, <1>4 DEF TheNamedChange

LEMMA TrailsInitially == TrailsInit => TrailsInv
<1> SUFFICES ASSUME TrailsInit PROVE TrailsInv
  OBVIOUS
<1>1. WorldInv
  <2>1. place["et"] = 1 /\ place["gh"] = 2 /\ place \in [Forges -> Nat \ {0}]
    BY DEF TrailsInit, Forges
  <2> QED
    BY <2>1 DEF TrailsInit, WorldInv
<1>2. SelectionInv
  BY DEF TrailsInit, SelectionInv, Unread
<1>3. PinsInv
  BY DEF TrailsInit, PinsInv, AfterPins, AfterDiff, NoCapture
<1>4. OpenedInv
  BY DEF TrailsInit, OpenedInv
<1> QED
  BY <1>1, <1>2, <1>3, <1>4 DEF TrailsInv

\* The service moves Changes, projects, repositories and logins, and no
\* repository to a placement of the other forge.
LEMMA MovesStep ==
  ASSUME TrailsInv, Moves
  PROVE  TrailsInv'
<1>1. UNCHANGED <<home, spelled, ready, asked, tpc, selected, repo, pins, tries, captured, context, opened>>
  BY DEF Moves
<1>2. trail' \in [Changes -> {0} \cup TrailNumbers]
  BY DEF Moves, TrailsInv, WorldInv
<1>3. place' \in [Forges -> Nat \ {0}] /\ place'["et"] % 2 = 1 /\ place'["gh"] % 2 = 0
  <2>1. CASE UNCHANGED place
    BY <2>1 DEF TrailsInv, WorldInv
  <2>2. ASSUME NEW f \in Forges, place' = [place EXCEPT ![f] = @ + 2]
        PROVE  place' \in [Forges -> Nat \ {0}] /\ place'["et"] % 2 = 1 /\ place'["gh"] % 2 = 0
    <3>1. /\ place \in [Forges -> Nat \ {0}] /\ place["et"] % 2 = 1 /\ place["gh"] % 2 = 0
      BY DEF TrailsInv, WorldInv
    <3>2. \A g \in Forges : place'[g] \in Nat \ {0} /\ place'[g] % 2 = place[g] % 2
      BY ONLY <2>2, <3>1
    <3>3. "et" \in Forges /\ "gh" \in Forges
      BY DEF Forges
    <3> QED
      BY <2>2, <3>1, <3>2, <3>3
  <2> QED
    BY <2>1, <2>2 DEF Moves
<1>4. session' \in [account : {1, 2}, production : BOOLEAN]
  <2>1. CASE UNCHANGED session
    BY <2>1 DEF TrailsInv, WorldInv
  <2>2. CASE session' = [session EXCEPT !.account = 3 - @]
    <3>1. session \in [account : {1, 2}, production : BOOLEAN]
      BY DEF TrailsInv, WorldInv
    <3>2. 3 - session.account \in {1, 2}
      BY ONLY <3>1
    <3> QED
      BY <2>2, <3>1, <3>2, Zenon
  <2> QED
    BY <2>1, <2>2 DEF Moves
<1>5. WorldInv'
  BY <1>1, <1>2, <1>3, <1>4 DEF TrailsInv, WorldInv
<1>6. SelectionInv'
  BY <1>1 DEF TrailsInv, SelectionInv
<1>7. PinsInv'
  BY <1>1 DEF TrailsInv, PinsInv
<1>8. OpenedInv'
  BY <1>1 DEF TrailsInv, OpenedInv
<1> QED
  BY <1>5, <1>6, <1>7, <1>8 DEF TrailsInv

\* A step of the reader leaves the service and the address alone.
LEMMA WorldFrame ==
  ASSUME WorldInv, UNCHANGED <<world, asked>>
  PROVE  WorldInv'
  BY DEF WorldInv, world

\* A refused read shows nothing.
LEMMA RefusedStep ==
  ASSUME TrailsInv, RefuseTrail, UNCHANGED <<world, asked>>, tpc # "shown"
  PROVE  TrailsInv'
<1>1. SelectionInv'
  BY DEF RefuseTrail, TrailsInv, SelectionInv, Unread
<1>2. PinsInv'
  BY DEF RefuseTrail, TrailsInv, PinsInv, AfterPins, AfterDiff, world
<1>3. OpenedInv'
  BY DEF RefuseTrail, TrailsInv, OpenedInv, world
<1> QED
  BY <1>1, <1>2, <1>3, WorldFrame DEF TrailsInv

\* The steps of the reader before it has the Change.
LEMMA SelectionSteps ==
  ASSUME TrailsInv, SignIn \/ SelectFromTrail \/ LookUp, ~RefuseTrail
  PROVE  TrailsInv'
<1>0. UNCHANGED <<world, asked>> /\ tpc \in {"login", "trail", "directory"}
  BY DEF SignIn, SelectFromTrail, LookUp
<1>1. CASE SignIn
  <2>1. /\ tpc = "login" /\ session.production
        /\ tpc' = IF asked.kind = "trail" THEN "trail" ELSE "directory"
        /\ captured' = [NoCapture EXCEPT !.account = session.account]
        /\ UNCHANGED <<selected, repo, pins, tries, context, opened>>
    BY <1>1 DEF SignIn
  <2>2. tpc' \in {"trail", "directory"} /\ (asked.kind = "trail" => tpc' = "trail")
    BY <2>1
  <2>3. SelectionInv'
    BY <1>0, <2>1, <2>2 DEF TrailsInv, SelectionInv, Unread
  <2>4. captured' \in [change : Changes \cup {NoChange}, parent : {0} \cup TrailNumbers, from : Nat,
                       account : {0, 1, 2}, members : SUBSET Changes]
    BY <2>1 DEF NoCapture, TrailsInv, WorldInv
  <2>5. PinsInv'
    BY <2>2, <2>4 DEF PinsInv, AfterPins, AfterDiff
  <2>6. OpenedInv'
    BY <1>0, <2>1, <2>2 DEF TrailsInv, OpenedInv, world
  <2> QED
    BY <1>0, <2>3, <2>5, <2>6, WorldFrame DEF TrailsInv
<1>2. CASE SelectFromTrail
  <2>1. PICK c \in OnlyChange(asked.forge, asked.trail) :
          /\ tpc = "trail" /\ selected' = [change |-> c, parent |-> place[asked.forge]]
          /\ tpc' = "directory"
          /\ UNCHANGED <<repo, pins, tries, captured, context, opened>>
    BY <1>2 DEF SelectFromTrail
  <2>2. c \in Changes
    BY DEF OnlyChange, Listed, Members
  <2>3. asked.forge \in Forges /\ place[asked.forge] \in Nat \ {0}
    BY PlacementsApart DEF TrailsInv, WorldInv, TrailAddresses
  <2>4. asked.kind = "trail"
    BY <2>1 DEF TrailsInv, SelectionInv
  <2>5. SelectionInv'
    BY <1>0, <2>1, <2>2, <2>3, <2>4 DEF SelectionInv, Unread
  <2>6. PinsInv'
    BY <2>1 DEF TrailsInv, PinsInv, AfterPins, AfterDiff
  <2>7. OpenedInv'
    BY <1>0, <2>1 DEF TrailsInv, OpenedInv, world
  <2> QED
    BY <1>0, <2>5, <2>6, <2>7, WorldFrame DEF TrailsInv
<1>3. CASE LookUp
  <2>1. /\ tpc = "directory" /\ Directory # 0 /\ repo' = Directory /\ tpc' = "before"
        /\ UNCHANGED <<selected, pins, tries, captured, context, opened>>
    BY <1>3 DEF LookUp
  <2>2. repo' \in Nat /\ repo' % 2 = IF asked.forge = "et" THEN 1 ELSE 0
    BY <2>1, DirectoryIsOfTheForge, PlacementsApart DEF TrailsInv
  <2>3. SelectionInv'
    BY <1>0, <2>1, <2>2 DEF TrailsInv, SelectionInv, Unread
  <2>4. PinsInv'
    BY <2>1 DEF TrailsInv, PinsInv, AfterPins, AfterDiff
  <2>5. OpenedInv'
    BY <1>0, <2>1 DEF TrailsInv, OpenedInv, world
  <2> QED
    BY <1>0, <2>3, <2>4, <2>5, WorldFrame DEF TrailsInv
<1> QED
  BY <1>1, <1>2, <1>3

\* The steps from the Change to the second lookup.
LEMMA ReadingSteps ==
  ASSUME TrailsInv, ReadBefore \/ ReadDiff \/ ReadAfter \/ LookUpAgain, ~RefuseTrail
  PROVE  TrailsInv'
<1>0. UNCHANGED <<world, asked>> /\ tpc \in {"before", "diff", "after", "directory again"}
  BY DEF ReadBefore, ReadDiff, ReadAfter, LookUpAgain
<1>1. CASE ReadBefore
  <2>1. /\ tpc = "before" /\ pins' \in PinsRead /\ tpc' = "diff"
        /\ UNCHANGED <<selected, repo, tries, captured, context, opened>>
    BY <1>1 DEF ReadBefore
  <2>2. SelectionInv'
    BY <1>0, <2>1 DEF TrailsInv, SelectionInv, Unread, AfterPins
  <2>3. /\ pins' \in [change : Changes, parent : {0} \cup TrailNumbers]
        /\ home[pins'.change].forge = asked.forge
        /\ asked.kind # "trail" => home[pins'.change].number = asked.number
        /\ asked.kind # "repository" => pins'.parent = asked.trail
        /\ asked.kind = "trail" => pins'.change = selected.change
    BY <2>1, PinsAreNamed
  <2>4. PinsInv'
    BY <1>0, <2>1, <2>3 DEF TrailsInv, PinsInv, AfterPins, AfterDiff, world
  <2>5. OpenedInv'
    BY <1>0, <2>1 DEF TrailsInv, OpenedInv, world
  <2> QED
    BY <1>0, <2>2, <2>4, <2>5, WorldFrame DEF TrailsInv
<1>2. CASE ReadDiff
  <2>1. /\ tpc = "diff" /\ captured' = [captured EXCEPT !.from = repo] /\ tpc' = "after"
        /\ UNCHANGED <<selected, repo, pins, tries, context, opened>>
    BY <1>2 DEF ReadDiff
  <2>2. SelectionInv'
    BY <1>0, <2>1 DEF TrailsInv, SelectionInv, Unread, AfterPins
  <2>3. repo \in Nat
    BY <2>1 DEF TrailsInv, SelectionInv, Unread
  <2>4. /\ captured' \in [change : Changes \cup {NoChange}, parent : {0} \cup TrailNumbers, from : Nat,
                          account : {0, 1, 2}, members : SUBSET Changes]
        /\ captured'.from = repo
    BY <2>1, <2>3 DEF TrailsInv, PinsInv
  <2>5. PinsInv'
    BY <1>0, <2>1, <2>4 DEF TrailsInv, PinsInv, AfterPins, AfterDiff, world
  <2>6. OpenedInv'
    BY <1>0, <2>1 DEF TrailsInv, OpenedInv, world
  <2> QED
    BY <1>0, <2>2, <2>5, <2>6, WorldFrame DEF TrailsInv
<1>3. CASE ReadAfter \/ LookUpAgain
  <2>1. /\ tpc \in {"after", "directory again"}
        /\ tpc' \in {"before", "directory again", "trail again", "account"}
        /\ tpc' = "account" => asked.kind # "trail"
        /\ UNCHANGED <<selected, repo, pins, captured, context, opened>>
    BY <1>3 DEF ReadAfter, LookUpAgain
  <2>2. SelectionInv'
    BY <1>0, <2>1 DEF TrailsInv, SelectionInv, Unread, AfterPins
  <2>3. PinsInv'
    BY <1>0, <2>1 DEF TrailsInv, PinsInv, AfterPins, AfterDiff, world
  <2>4. OpenedInv'
    BY <1>0, <2>1 DEF TrailsInv, OpenedInv, world
  <2> QED
    BY <1>0, <2>2, <2>3, <2>4, WorldFrame DEF TrailsInv
<1> QED
  BY <1>1, <1>2, <1>3

\* The Trail once more: it has one Change, and that is the one that was read.
LEMMA TrailAgainStep ==
  ASSUME TrailsInv, TrailAgain, ~RefuseTrail
  PROVE  TrailsInv'
<1>1. /\ UNCHANGED <<world, asked>> /\ tpc = "trail again" /\ tpc' = "account"
      /\ OnlyChange(asked.forge, asked.trail) = {selected.change}
      /\ captured' = [captured EXCEPT !.members = Members(asked.forge, asked.trail)]
      /\ UNCHANGED <<selected, repo, pins, tries, context, opened>>
  BY DEF TrailAgain
<1>2. Members(asked.forge, asked.trail) = {selected.change}
  BY <1>1 DEF OnlyChange
<1>3. Members(asked.forge, asked.trail) \subseteq Changes
  BY DEF Members
<1>4. SelectionInv'
  BY <1>1 DEF TrailsInv, SelectionInv, Unread, AfterPins
<1>5. /\ captured' \in [change : Changes \cup {NoChange}, parent : {0} \cup TrailNumbers, from : Nat,
                        account : {0, 1, 2}, members : SUBSET Changes]
      /\ captured'.members = {selected.change} /\ captured'.from = captured.from
  BY <1>1, <1>2, <1>3 DEF TrailsInv, PinsInv
<1>6. PinsInv'
  BY <1>1, <1>5 DEF TrailsInv, PinsInv, AfterPins, AfterDiff, world
<1>7. OpenedInv'
  BY <1>1 DEF TrailsInv, OpenedInv, world
<1> QED
  BY <1>1, <1>4, <1>6, <1>7, WorldFrame DEF TrailsInv

\* The snapshot: a reopened address captures the Change it was made up for.
LEMMA InstallStep ==
  ASSUME TrailsInv, InstallChange, ~RefuseTrail
  PROVE  TrailsInv'
<1>1. /\ UNCHANGED <<world, asked>> /\ tpc = "account" /\ tpc' = "shown"
      /\ captured' = [captured EXCEPT !.change = pins.change, !.parent = pins.parent]
      /\ opened' = opened \cup {pins.change}
      /\ UNCHANGED <<selected, repo, pins, tries, context>>
  BY DEF InstallChange
<1>2. /\ pins \in [change : Changes, parent : {0} \cup TrailNumbers]
      /\ home[pins.change].forge = asked.forge
      /\ asked.kind # "trail" => home[pins.change].number = asked.number
  BY <1>1 DEF TrailsInv, PinsInv, AfterPins
<1>3. SelectionInv'
  BY <1>1 DEF TrailsInv, SelectionInv, Unread, AfterPins
<1>4. /\ captured' \in [change : Changes \cup {NoChange}, parent : {0} \cup TrailNumbers, from : Nat,
                        account : {0, 1, 2}, members : SUBSET Changes]
      /\ captured'.members = captured.members /\ captured'.from = captured.from
      /\ captured'.change = pins.change /\ captured'.parent = pins.parent
  BY <1>1, <1>2 DEF TrailsInv, PinsInv
<1>5. PinsInv'
  BY <1>1, <1>4 DEF TrailsInv, PinsInv, AfterPins, AfterDiff, world
<1>6. OpenedInv'
  BY <1>1, <1>2 DEF TrailsInv, OpenedInv, world
<1> QED
  BY <1>1, <1>3, <1>5, <1>6, WorldFrame DEF TrailsInv

LEMMA ReopenStep ==
  ASSUME TrailsInv, ReopenTrail
  PROVE  TrailsInv'
<1>1. /\ tpc = "shown" /\ tpc' = "login" /\ selected' = NoPins
      /\ captured' = NoCapture /\ UNCHANGED <<world, opened>>
  BY DEF ReopenTrail
<1>2. /\ captured.change = pins.change /\ captured.parent \in {0} \cup TrailNumbers
      /\ pins.change \in Changes /\ asked \in TrailAddresses
      /\ home[pins.change].forge = asked.forge
      /\ asked.kind # "trail" => home[pins.change].number = asked.number
      /\ home[pins.change].number \in {1, 2}
  BY <1>1 DEF TrailsInv, PinsInv, AfterPins, WorldInv
<1>3. /\ asked' \in TrailAddresses /\ asked'.forge = asked.forge /\ asked'.kind # "trail"
      /\ asked'.number = home[pins.change].number
  <2> DEFINE sort == IF captured.parent > 0 THEN "change" ELSE "repository"
             under == IF captured.parent > 0 THEN captured.parent ELSE asked.trail
  <2>1. sort \in AddressKinds /\ sort # "trail"
    BY DEF AddressKinds
  <2>2. under \in TrailNumbers
    BY <1>2 DEF TrailAddresses, TrailNumbers
  <2>3. asked' = [asked EXCEPT !.kind = sort, !.trail = under, !.number = home[pins.change].number]
    BY <1>2 DEF ReopenTrail
  <2> HIDE DEF sort, under
  <2> QED
    BY <1>2, <2>1, <2>2, <2>3 DEF TrailAddresses
<1>4. \A c \in opened : c \in Changes /\ home[c].forge = asked.forge
                         /\ home[c].number = home[pins.change].number
  BY <1>2 DEF TrailsInv, OpenedInv
<1>5. WorldInv'
  BY <1>1, <1>3 DEF TrailsInv, WorldInv, world
<1>6. SelectionInv'
  BY <1>1, <1>3 DEF SelectionInv, Unread
<1>7. PinsInv'
  BY <1>1 DEF PinsInv, AfterPins, AfterDiff, NoCapture
<1>8. OpenedInv'
  BY <1>1, <1>3, <1>4 DEF OpenedInv, world
<1> QED
  BY <1>5, <1>6, <1>7, <1>8 DEF TrailsInv

LEMMA TrailsStep == TrailsInv /\ [TrailsNext]_trailVars => TrailsInv'
<1> SUFFICES ASSUME TrailsInv, [TrailsNext]_trailVars PROVE TrailsInv'
  OBVIOUS
<1>1. CASE UNCHANGED trailVars \/ SourceLines
  <2>1. UNCHANGED <<world, asked, tpc, selected, repo, pins, captured, opened>>
    BY <1>1 DEF trailVars, world, SourceLines
  <2>2. WorldInv'
    BY <2>1, WorldFrame DEF TrailsInv
  <2>3. SelectionInv'
    BY <2>1 DEF TrailsInv, SelectionInv
  <2>4. PinsInv'
    BY <2>1 DEF TrailsInv, PinsInv, world
  <2>5. OpenedInv'
    BY <2>1 DEF TrailsInv, OpenedInv, world
  <2> QED
    BY <2>2, <2>3, <2>4, <2>5 DEF TrailsInv
<1>2. CASE SignIn \/ SelectFromTrail \/ LookUp \/ ReadBefore \/ ReadDiff \/ ReadAfter
           \/ LookUpAgain \/ TrailAgain \/ InstallChange
  <2>1. UNCHANGED <<world, asked>> /\ tpc # "shown"
    BY <1>2 DEF SignIn, SelectFromTrail, LookUp, ReadBefore, ReadDiff, ReadAfter, LookUpAgain,
         TrailAgain, InstallChange
  <2>2. CASE RefuseTrail
    BY <2>1, <2>2, RefusedStep
  <2>3. CASE ~RefuseTrail
    BY <1>2, <2>3, SelectionSteps, ReadingSteps, TrailAgainStep, InstallStep
  <2> QED
    BY <2>2, <2>3
<1>3. CASE Moves
  BY <1>3, MovesStep
<1>4. CASE ReopenTrail
  BY <1>4, ReopenStep
<1> QED
  BY <1>1, <1>2, <1>3, <1>4 DEF TrailsNext

\* The snapshot is of the Change that the address names (TheNamedChange), for
\* any Changes, moves at the service and reopenings.
THEOREM TheNamedChangeIsShown == TrailsSpec => []TheNamedChange
<1>1. TrailsInit => TrailsInv
  BY TrailsInitially
<1>2. TrailsInv /\ [TrailsNext]_trailVars => TrailsInv'
  BY TrailsStep
<1>3. TrailsInv => TheNamedChange
  BY NamedChangeFollows
<1> QED
  BY <1>1, <1>2, <1>3, PTL DEF TrailsSpec
=============================================================================
