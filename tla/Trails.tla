------------------------------- MODULE Trails -------------------------------
(* From an Entire address to one Change: the project Trail with its        *)
(* readable Changes, the forge-qualified directory of repositories with    *)
(* their placements, the Change itself read before and after its diff, and *)
(* the address the snapshot is reopened by (entire.rs). What is captured   *)
(* about the Change is Capture's; here the question is which Change it is. *)
(*                                                                         *)
(* Repositories of one owner and name exist under both forges, Changes are *)
(* numbered within a repository and Trails within a project, and people    *)
(* move Changes between Trails, repositories between placements, and log   *)
(* in with another account while the reads go on.                          *)
EXTENDS Naturals, FiniteSets

CONSTANTS
  Changes,      \* identities of Changes
  MaxTrailEvents,     \* bound on what happens at the service meanwhile
  MaxReopens,   \* bound on reopening what is shown
  Tries         \* reads of the Change that may disagree before it is given up

ASSUME TrailsAssumption == MaxTrailEvents \in Nat /\ MaxReopens \in Nat /\ Tries \in Nat \ {0}

VARIABLES
  home,      \* repository (its forge) and number of each Change
  trail,     \* the project Trail each Change belongs to, 0 for none
  unlisted,    \* Changes whose project the login may not enumerate
  spelled,      \* how the directory writes each repository, "absent" when it does not
  place,     \* the processing-primary placement of each repository
  ready,     \* repositories whose placement is indexed
  session,   \* the login: account, and whether its token is for production
  trailEvents,     \* what happened at the service so far
  asked,     \* the address
  tpc,       \* the next read, "shown" or "refused"
  selected,  \* what the address or the Trail selected
  repo,      \* what the directory answered: placement, or 0
  pins,      \* the Change as it was read before the diff
  tries,     \* reads that disagreed
  captured,  \* the snapshot, NoCapture before
  context,   \* the account that read source lines for it, 0 for none
  opened     \* the Changes captured by the address and its reopenings

trailVars ==
  <<home, trail, unlisted, spelled, place, ready, session, trailEvents, asked, tpc, selected, repo, pins,
    tries, captured, context, opened>>

world == <<home, trail, unlisted, spelled, place, ready, session, trailEvents>>

Forges == {"et", "gh"}
TrailNumbers == {1, 2}
NoChange == "no change"
NoPins == [change |-> NoChange, parent |-> 0]
NoCapture == [change |-> NoChange, parent |-> 0, from |-> 0, account |-> 0, members |-> {}]

\* What a row of the directory says of the repository it is about.
RowForms == {"absent", "qualified", "qualified and stated", "stated", "bare", "contradicted"}

AddressKinds == {"trail", "change", "repository"}
TrailAddresses == [kind : AddressKinds, forge : Forges, trail : TrailNumbers, number : {1, 2}]

TrailsInit ==
  /\ home \in [Changes -> [forge : Forges, number : {1, 2}]]
  /\ \A c, d \in Changes : home[c] = home[d] => c = d
  /\ trail \in [Changes -> {0} \cup TrailNumbers]
  /\ unlisted \in SUBSET Changes
  /\ spelled \in [Forges -> RowForms]
  /\ place = [f \in Forges |-> IF f = "et" THEN 1 ELSE 2]
  /\ ready \in SUBSET Forges
  /\ session \in [account : {1}, production : BOOLEAN]
  /\ trailEvents \in 0 .. MaxTrailEvents
  /\ asked \in TrailAddresses
  /\ tpc = "login" /\ selected = NoPins /\ repo = 0 /\ pins = NoPins /\ tries = 0
  /\ captured = NoCapture /\ context = 0 /\ opened = {}

-----------------------------------------------------------------------------
(* The service.                                                            *)

\* A Change is moved, a project is closed to the login, a repository migrates
\* to another placement, or the user logs in elsewhere.
Moves ==
  /\ trailEvents < MaxTrailEvents
  /\ trailEvents' = trailEvents + 1
  /\ \/ \E c \in Changes, t \in {0} \cup TrailNumbers :
          trail' = [trail EXCEPT ![c] = t] /\ UNCHANGED <<unlisted, place, session>>
     \/ \E c \in Changes : unlisted' = unlisted \cup {c} /\ UNCHANGED <<trail, place, session>>
     \/ \E f \in Forges : place' = [place EXCEPT ![f] = @ + 2] /\ UNCHANGED <<trail, unlisted, session>>
     \/ session' = [session EXCEPT !.account = 3 - @] /\ UNCHANGED <<trail, unlisted, place>>
  /\ UNCHANGED <<home, spelled, ready, asked, tpc, selected, repo, pins, tries, captured, context, opened>>

\* The Changes of a project Trail, and the ones its list shows.
Members(f, t) == {c \in Changes : home[c].forge = f /\ trail[c] = t}
Listed(f, t) == Members(f, t) \ unlisted

\* The Change a placement has under a number, and the parent it shows: none
\* to a reader of the repository alone.
At(placement, number) == {c \in Changes : place[home[c].forge] = placement /\ home[c].number = number}
Parent(c) == IF c \in unlisted THEN 0 ELSE trail[c]

-----------------------------------------------------------------------------
(* The reader.                                                             *)
RefuseTrail == tpc' = "refused" /\ UNCHANGED <<selected, repo, pins, tries, captured, context, opened>>

\* EntireReader::login and Login::from_token: a token whose audience is not
\* Entire's production is refused; then select decides what to read next.
SignIn ==
  /\ tpc = "login"
  /\ UNCHANGED <<world, asked>>
  /\ IF ~session.production THEN RefuseTrail
     ELSE /\ tpc' = IF asked.kind = "trail" THEN "trail" ELSE "directory"
          /\ captured' = [NoCapture EXCEPT !.account = session.account]
          /\ UNCHANGED <<selected, repo, pins, tries, context, opened>>

\* select_project_change: one Change, and a list the service does not mark as
\* possibly filtered.
OnlyChange(f, t) ==
  IF Cardinality(Listed(f, t)) = 1 /\ Listed(f, t) = Members(f, t) THEN Listed(f, t) ELSE {}

\* EntireReader::project and the selection from its Trail.
SelectFromTrail ==
  /\ tpc = "trail"
  /\ UNCHANGED <<world, asked>>
  /\ IF OnlyChange(asked.forge, asked.trail) = {} THEN RefuseTrail
     ELSE \E c \in OnlyChange(asked.forge, asked.trail) :
            /\ selected' = [change |-> c, parent |-> place[asked.forge]]
            /\ tpc' = "directory"
            /\ UNCHANGED <<repo, pins, tries, captured, context, opened>>

\* The number of the Change, named by the address or selected from its Trail.
Wanted == IF asked.kind = "trail" THEN home[selected.change].number ELSE asked.number

\* Mutant: the provider of an unqualified row is not looked at.
DirectoryNameUnstated(f) == spelled[f] # "absent" /\ (spelled[f] \in {"stated", "bare"} \/ f = asked.forge)

\* directory_name: a qualified name proves its forge unless the row states
\* another provider, and an unqualified one needs the provider stated.
DirectoryName(f) == f = asked.forge /\ spelled[f] \in {"qualified", "qualified and stated", "stated"}

\* EntireReader::repository: one row of that name, whose processing primary is
\* ready, at a trusted origin (api_origin).
Directory ==
  LET found == {f \in Forges : DirectoryName(f)}
  IN  IF Cardinality(found) = 1 /\ found \subseteq ready
        THEN place[CHOOSE f \in found : TRUE]
        ELSE 0

\* The first lookup; the Trail's own placement of the Change must agree.
LookUp ==
  /\ tpc = "directory"
  /\ UNCHANGED <<world, asked>>
  /\ IF Directory = 0 \/ (selected # NoPins /\ selected.parent # Directory) THEN RefuseTrail
     ELSE /\ repo' = Directory
          /\ tpc' = "before"
          /\ UNCHANGED <<selected, pins, tries, captured, context, opened>>

\* Pins::read and Parent::read of what the placement answers: the selected
\* Change, and the Trail that the address names.
PinsRead ==
  {[change |-> c, parent |-> Parent(c)] :
     c \in {c \in At(repo, Wanted) :
              /\ (selected # NoPins => c = selected.change)
              /\ (asked.kind # "repository" => Parent(c) = asked.trail)}}

\* The Change before its diff.
ReadBefore ==
  /\ tpc = "before"
  /\ UNCHANGED <<world, asked>>
  /\ IF PinsRead = {} THEN RefuseTrail
     ELSE /\ pins' \in PinsRead
          /\ tpc' = "diff"
          /\ UNCHANGED <<selected, repo, tries, captured, context, opened>>

\* The comparison and the diff, from the placement; one that is gone answers
\* with an error.
ReadDiff ==
  /\ tpc = "diff"
  /\ UNCHANGED <<world, asked>>
  /\ IF \A f \in Forges : place[f] # repo THEN RefuseTrail
     ELSE /\ captured' = [captured EXCEPT !.from = repo]
          /\ tpc' = "after"
          /\ UNCHANGED <<selected, repo, pins, tries, context, opened>>

\* The Change after its diff: another try when it moved, three in all.
ReadAfter ==
  /\ tpc = "after"
  /\ UNCHANGED <<world, asked>>
  /\ IF PinsRead = {} \/ (pins \notin PinsRead /\ tries + 1 = Tries) THEN RefuseTrail
     ELSE /\ tpc' = IF pins \in PinsRead THEN "directory again" ELSE "before"
          /\ tries' = IF pins \in PinsRead THEN tries ELSE tries + 1
          /\ UNCHANGED <<selected, repo, pins, captured, context, opened>>

\* The second lookup, which must answer the same.
LookUpAgain ==
  /\ tpc = "directory again"
  /\ UNCHANGED <<world, asked>>
  /\ IF Directory # repo THEN RefuseTrail
     ELSE /\ tpc' = IF asked.kind = "trail" THEN "trail again" ELSE "account"
          /\ UNCHANGED <<selected, repo, pins, tries, captured, context, opened>>

\* The Trail once more: its Change must be the one that was selected.
TrailAgain ==
  /\ tpc = "trail again"
  /\ UNCHANGED <<world, asked>>
  /\ IF OnlyChange(asked.forge, asked.trail) # {selected.change} \/ selected.parent # place[asked.forge]
       THEN RefuseTrail
       ELSE /\ tpc' = "account"
            /\ captured' = [captured EXCEPT !.members = Members(asked.forge, asked.trail)]
            /\ UNCHANGED <<selected, repo, pins, tries, context, opened>>

\* The account once more, then the snapshot.
InstallChange ==
  /\ tpc = "account"
  /\ UNCHANGED <<world, asked>>
  /\ IF session.account # captured.account THEN RefuseTrail
     ELSE /\ captured' = [captured EXCEPT !.change = pins.change, !.parent = pins.parent]
          /\ opened' = opened \cup {pins.change}
          /\ tpc' = "shown"
          /\ UNCHANGED <<selected, repo, pins, tries, context>>

\* reopen_address: the Change under its project Trail when it showed one, and
\* the repository's own address otherwise.
ReopenTrail ==
  /\ tpc = "shown"
  /\ tries < Tries + MaxReopens
  /\ asked' = [asked EXCEPT !.kind = IF captured.parent > 0 THEN "change" ELSE "repository",
                            !.trail = IF captured.parent > 0 THEN captured.parent ELSE @,
                            !.number = home[captured.change].number]
  /\ tpc' = "login" /\ selected' = NoPins /\ repo' = 0 /\ pins' = NoPins
  /\ tries' = Tries + MaxReopens /\ captured' = NoCapture /\ context' = 0
  /\ UNCHANGED <<world, opened>>

\* EntireReader::source: source lines by the account of the snapshot only.
SourceLines ==
  /\ tpc = "shown" /\ context = 0
  /\ session.production /\ session.account = captured.account
  /\ context' = session.account
  /\ UNCHANGED <<world, asked, tpc, selected, repo, pins, tries, captured, opened>>

TrailsNext ==
  \/ Moves \/ SignIn \/ SelectFromTrail \/ LookUp \/ ReadBefore \/ ReadDiff \/ ReadAfter
  \/ LookUpAgain \/ TrailAgain \/ InstallChange \/ ReopenTrail \/ SourceLines

TrailsSpec == TrailsInit /\ [][TrailsNext]_trailVars

-----------------------------------------------------------------------------
(* Properties.                                                             *)

\* The snapshot is of the Change the address names and of no other
\* (EntireReader::snapshot): of that forge's repository although the other
\* forge has one of the same name and number, under the Trail the address
\* names, the only one of a Trail that names none, its diff read where its
\* repository was, and still the same Change after it is reopened by the
\* address that was made up for it.
TheNamedChange ==
  /\ \A c \in opened : home[c].forge = asked.forge
  /\ Cardinality(opened) =< 1
  /\ tpc = "shown" =>
       /\ captured.from % 2 = (IF asked.forge = "et" THEN 1 ELSE 0)
       /\ asked.kind # "trail" => home[captured.change].number = asked.number
       /\ asked.kind # "repository" => captured.parent = asked.trail
       /\ asked.kind = "trail" => captured.members = {captured.change}

\* The repositories and the address. The two forges never share a placement,
\* and two Changes never share a repository and a number.
WorldInv ==
  /\ home \in [Changes -> [forge : Forges, number : {1, 2}]]
  /\ \A c, d \in Changes : home[c] = home[d] => c = d
  /\ trail \in [Changes -> {0} \cup TrailNumbers]
  /\ place \in [Forges -> Nat \ {0}]
  /\ place["et"] % 2 = 1 /\ place["gh"] % 2 = 0
  /\ session \in [account : {1, 2}, production : BOOLEAN]
  /\ asked \in TrailAddresses

Unread == {"login", "trail", "directory", "refused"}
AfterPins == {"diff", "after", "directory again", "trail again", "account", "shown"}
AfterDiff == AfterPins \ {"diff"}

\* What the reads so far are about: the placement is one of the forge of the
\* address, and the Change is the one that the address or its Trail names.
SelectionInv ==
  /\ tpc \in Unread \cup {"before"} \cup AfterPins
  /\ tpc = "trail" => asked.kind = "trail"
  /\ asked.kind # "trail" => selected = NoPins
  /\ asked.kind = "trail" /\ tpc \notin {"login", "trail", "refused"} =>
       selected \in [change : Changes, parent : Nat \ {0}]
  /\ tpc \notin Unread => repo \in Nat /\ repo % 2 = (IF asked.forge = "et" THEN 1 ELSE 0)

PinsInv ==
  /\ tpc \in AfterPins =>
       /\ pins \in [change : Changes, parent : {0} \cup TrailNumbers]
       /\ home[pins.change].forge = asked.forge
       /\ asked.kind # "trail" => home[pins.change].number = asked.number
       /\ asked.kind # "repository" => pins.parent = asked.trail
       /\ asked.kind = "trail" => pins.change = selected.change
  /\ captured \in [change : Changes \cup {NoChange}, parent : {0} \cup TrailNumbers, from : Nat,
                   account : {0, 1, 2}, members : SUBSET Changes]
  /\ tpc \in AfterDiff => captured.from = repo
  /\ tpc \in {"account", "shown"} /\ asked.kind = "trail" => captured.members = {pins.change}
  /\ tpc = "shown" => captured.change = pins.change /\ captured.parent = pins.parent

OpenedInv ==
  /\ opened \subseteq {c \in Changes : home[c].forge = asked.forge}
  /\ asked.kind = "trail" => opened \subseteq {pins.change} /\ (tpc # "shown" => opened = {})
  /\ asked.kind # "trail" => \A c \in opened : home[c].number = asked.number

\* The inductive invariant of TheNamedChange.
TrailsInv == WorldInv /\ SelectionInv /\ PinsInv /\ OpenedInv
=============================================================================
