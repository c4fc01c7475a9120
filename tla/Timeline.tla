------------------------------ MODULE Timeline ------------------------------
(* The release timeline of a compare: steps cuts the first-parent path at  *)
(* its tags, members gives every commit of the range to a step, attribute  *)
(* maps blamed lines to steps, the files of each step are cut to the paths *)
(* of the compare's patch, and releases_by_path finds the steps that       *)
(* touched a file under the name it has at the head (releases.rs,          *)
(* review_details.rs, Services::releases in service.rs, and releases of    *)
(* the GitHub and GitLab readers).                                         *)
(*                                                                         *)
(* The range is commits 1 .. Tip, listed oldest first; commit 0 stands      *)
(* for everything before it, the base included.                            *)
EXTENDS Naturals, Sequences, FiniteSets, SequencesExt, FiniteSetsExt

CONSTANTS Tip,           \* the head: the number of commits of the compare
          MaxTags,       \* bound on the tags the service has
          TagLimit,      \* TAG_PAGES pages of tags
          MaxReleases,   \* MAX_RELEASES
          History,       \* steps whose files are told apart
          MaxNames       \* paths of files, numbered as a listing orders them

ASSUME TimelineAssumption ==
  /\ Tip \in Nat \ {0} /\ MaxTags \in Nat /\ TagLimit \in Nat
  /\ MaxReleases \in Nat \ {0} /\ History \in Nat /\ MaxNames \in Nat

VARIABLES
  parent,     \* commit -> its first parent
  mergedIn,     \* commit -> its second parent, or itself
  tagged,     \* tag, in the order of the listing -> its commit
  released,   \* tags that have release notes
  baseFiles,  \* the paths that exist at the base
  changes,    \* step -> path -> what the step's own compare lists for it
  patchFiles, \* display_path of the files in the compare's patch
  timeline    \* what releases returned: {} or one record

rangeVars == <<parent, mergedIn, tagged, released, baseFiles, changes, patchFiles>>
timelineVars == <<rangeVars, timeline>>

Commits == 1 .. Tip

\* Everything a commit reaches within the range, itself included.
Reached[c \in 0 .. Tip] ==
  IF c = 0 THEN {} ELSE {c} \cup Reached[parent[c]] \cup (IF mergedIn[c] < c THEN Reached[mergedIn[c]] ELSE {})

\* What a step's compare may list for a path: nothing, a change or a new file,
\* a file that was deleted, or one that was renamed from another path.
FileNames == 1 .. MaxNames
FileChanges ==
  [kind : {"none", "touch", "gone"}, from : {0}] \cup [kind : {"move"}, from : FileNames]

Vacated(s) == {s[n].from : n \in FileNames} \ {0}

\* The lists a service can give of what became of the files there were: a file
\* is moved to one path at most, and to a path that is free or is left.
Possible(s, files) ==
  /\ \A n \in FileNames : s[n].kind = "gone" => n \in files
  /\ \A n \in FileNames : s[n].kind = "move" =>
       /\ s[n].from \in files \ {n} /\ s[s[n].from].kind \in {"none", "move"}
       /\ n \in files => n \in Vacated(s)
       /\ \A m \in FileNames : s[m].from = s[n].from => m = n

FilesLeft(s, files) ==
  {n \in FileNames : \/ s[n].kind \in {"touch", "move"}
                     \/ s[n].kind = "none" /\ n \in files \ Vacated(s)}

\* The files there are after the first i steps.
FilesAfter[i \in 0 .. History] ==
  IF i = 0 THEN baseFiles ELSE FilesLeft(changes[i], FilesAfter[i - 1])

StepLists == {s \in [FileNames -> FileChanges] : \E files \in SUBSET FileNames : Possible(s, files)}

TimelineInit ==
  /\ parent \in {p \in [Commits -> 0 .. Tip - 1] : \A c \in Commits : p[c] < c}
  /\ mergedIn \in {m \in [Commits -> 0 .. Tip] : \A c \in Commits : m[c] =< c /\ m[c] # parent[c]}
  /\ Reached[Tip] = Commits
  /\ tagged \in BoundedSeq(0 .. Tip, MaxTags)
  /\ released \in SUBSET DOMAIN tagged
  /\ baseFiles \in SUBSET FileNames
  /\ changes \in [1 .. History -> StepLists]
  /\ \A i \in 1 .. History : Possible(changes[i], FilesAfter[i - 1])
  /\ patchFiles \in SUBSET (baseFiles \cup FilesAfter[History])
  /\ timeline = {}

-----------------------------------------------------------------------------
\* The first-parent path back from a commit. Along it commits only get older,
\* so the path is a set and its order the order of its numbers.
PathTo[c \in 0 .. Tip] == IF c = 0 THEN {} ELSE {c} \cup PathTo[parent[c]]

\* The tags that were listed, and whether the listing was cut.
Listed == 1 .. IF Len(tagged) < TagLimit THEN Len(tagged) ELSE TagLimit

\* Where tags share a commit, the first with a release wins, else the first.
TagAt(c) ==
  LET here  == {t \in Listed : tagged[t] = c}
      noted == here \cap released
  IN IF noted # {} THEN Min(noted) ELSE Min(here)

\* placed: the commits of the path that have a tag.
Placed == {c \in PathTo[Tip] : \E t \in Listed : tagged[t] = c}

\* Only the newest MaxReleases of them are kept.
Folded == {c \in Placed : Cardinality({d \in Placed : d >= c}) > MaxReleases}
Kept == Placed \ Folded

\* The rest of steps, by the commit a step ends at: each from where the one
\* before ended, and the untagged commits after the last tag.
Ends == IF Kept = {} THEN {} ELSE Kept \cup {Tip}

Steps ==
  [e \in Ends |-> [tag  |-> IF e \in Kept THEN TagAt(e) ELSE 0,
                   from |-> Max({0} \cup {d \in Ends : d < e})]]

Before(steps, e) == {d \in DOMAIN steps : d < e}

\* Mutant: members follows first parents only.
MembersOnPath(steps) ==
  [e \in DOMAIN steps |-> PathTo[e] \ UNION {PathTo[d] : d \in Before(steps, e)}]

\* members: what a step reaches and no earlier one did.
Members(steps) ==
  [e \in DOMAIN steps |-> Reached[e] \ UNION {Reached[d] : d \in Before(steps, e)}]

\* attribute: the step of a blamed commit, or 0 for one before the range.
Attribute(members, c) ==
  LET at == {e \in DOMAIN members : c \in members[e]} IN IF at = {} THEN 0 ELSE Max(at)

-----------------------------------------------------------------------------
\* Services::releases cuts a step's files to the paths of the patch.
Retained(i, n) == changes[i][n].kind # "none" /\ n \in patchFiles

\* releases_by_path within step i: the name at the head by earlier name, with
\* the files up to path n of the list gone through, from the map m the later
\* steps left.
RenamedIn(i, m) ==
  LET upTo[n \in 0 .. MaxNames] ==
        IF n = 0 THEN m
        ELSE IF Retained(i, n) /\ changes[i][n].from # 0
             THEN [upTo[n - 1] EXCEPT ![changes[i][n].from] = upTo[n - 1][n]]
             ELSE upTo[n - 1]
  IN upTo

\* The map after the newest k steps; a name without an entry is its own.
RenamedBy[k \in 0 .. History] ==
  IF k = 0 THEN [n \in FileNames |-> n]
  ELSE RenamedIn(History + 1 - k, RenamedBy[k - 1])[MaxNames]

\* The head that file n of step i is pushed under.
HeadPath(i, n) == RenamedIn(i, RenamedBy[History - i])[n - 1][n]

\* The steps that are found under path h.
ReleasesByPath(h) ==
  {i \in 1 .. History : \E n \in FileNames : Retained(i, n) /\ HeadPath(i, n) = h}

\* What releases of a reader returns: list, cut, place, and the warnings.
Report ==
  [steps |-> Steps, members |-> Members(Steps), folded |-> Folded,
   warned |-> Len(tagged) >= TagLimit,
   touched |-> [h \in FileNames |-> ReleasesByPath(h)]]

PlaceReleases ==
  /\ timeline = {} /\ timeline' = {Report}
  /\ UNCHANGED rangeVars

TimelineNext == PlaceReleases

TimelineSpec == TimelineInit /\ [][TimelineNext]_timelineVars

-----------------------------------------------------------------------------
\* The oldest kept tag that has a commit in its history: what a reader means
\* by "released in".
FirstWith(steps, c) == Min({e \in DOMAIN steps : c \in Reached[e]})

\* Step e starts at the base or where another step ends, and no step ends on
\* the way.
JoinsUp(steps, e) ==
  /\ steps[e].from \in {0} \cup DOMAIN steps /\ steps[e].from < e
  /\ ~\E d \in DOMAIN steps : steps[e].from < d /\ d < e

\* Some step from i on renames the file at h away, or another one to h.
LeavesFrom(i, h) == \E j \in i .. History, n \in FileNames : changes[j][n].from = h
ArrivesFrom(i, h) == \E j \in i .. History : changes[j][h].kind = "move"

\* The commits of the range are shared out: with any tag placed, every commit,
\* merged branches included, belongs to exactly one step, the first whose end
\* has it, so that each blamed line names the release that brought it; the
\* steps join up from the base to the head, along the path; at most the newest
\* MAX_RELEASES tags get one; a tag on the path is shown unless it shares its
\* commit, was folded, or the listing was cut with a warning. A step that lists
\* a path of the patch is found under it unless a step from there on renames
\* the file, and a step is found under a path it does not list only if a step
\* from there on renamed a file to it, whatever else is renamed around it; the
\* steps before a rename are what RenamedIsFound is about.
EachCommitReleasedOnce ==
  \A t \in timeline :
    /\ DOMAIN t.steps # {} =>
         /\ \A c \in Commits : Attribute(t.members, c) = FirstWith(t.steps, c)
         /\ \A d, e \in DOMAIN t.members : d # e => t.members[d] \cap t.members[e] = {}
         /\ Tip \in DOMAIN t.steps /\ DOMAIN t.steps \subseteq PathTo[Tip]
         /\ \A e \in DOMAIN t.steps : JoinsUp(t.steps, e)
    /\ Cardinality({e \in DOMAIN t.steps : t.steps[e].tag # 0}) =< MaxReleases
    /\ \A d \in t.folded, e \in DOMAIN t.steps : d < e
    /\ \A k \in DOMAIN tagged : tagged[k] \in PathTo[Tip] =>
         tagged[k] \in DOMAIN t.steps \cup t.folded \/ t.warned
    /\ \A i \in 1 .. History, h \in FileNames :
         /\ Retained(i, h) /\ ~LeavesFrom(i, h) => i \in t.touched[h]
         /\ i \in t.touched[h] /\ ~ArrivesFrom(i, h) => changes[i][h].kind # "none"

\* Where the file that is at path n after step i is at the head, 0 if it is gone.
Followed[i \in 0 .. History] ==
  IF i = 0 THEN [n \in FileNames |-> n]
  ELSE LET j == History + 1 - i
       IN [n \in FileNames |->
             IF \E m \in FileNames : changes[j][m].from = n
             THEN Followed[i - 1][CHOOSE m \in FileNames : changes[j][m].from = n]
             ELSE IF changes[j][n].kind = "gone" THEN 0 ELSE Followed[i - 1][n]]

\* "A file renamed inside the range is found under its head path in the
\* releases before the rename": a step that changed or moved a file is among
\* the steps of the path that file has at the head, if the patch shows it.
RenamedIsFound ==
  \A t \in timeline : \A i \in 1 .. History, n \in FileNames :
    LET head == Followed[History - i][n]
    IN changes[i][n].kind \in {"touch", "move"} /\ head \in patchFiles => i \in t.touched[head]
=============================================================================
