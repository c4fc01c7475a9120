------------------------------- MODULE MCWindow -------------------------------
(* How a review is named, parsed, placed, drawn and steered, one part at a  *)
(* time: a run begins with one of them as its topic, whose steps are taken, *)
(* and the others rest.                                                     *)
EXTENDS Timeline, Anchors, PatchParser, Addresses, Viewport, Gestures, Peek,
        Composer, Themes, FileTree

VARIABLE topic    \* the part that runs

Topics ==
  {"timeline", "anchors", "parser", "addresses", "viewport", "gestures", "peek", "composer", "themes",
   "tree"}

vars ==
  <<topic, timelineVars, anchorVars, patchVars, addressVars, viewportVars,
    gestureVars, peekVars, composerVars, themeVars, treeVars>>

-----------------------------------------------------------------------------
(* Constants that a configuration cannot write down.                       *)

\* Two hunks with a change of unequal sides each, and lines hidden before,
\* between and after them.
TwoHunks ==
  << [old |-> 4, new |-> 4, blocks |-> <<[context |-> 1, removed |-> 2, added |-> 1]>>],
     [old |-> 9, new |-> 8, blocks |-> <<[context |-> 0, removed |-> 1, added |-> 2],
                                         [context |-> 1, removed |-> 0, added |-> 0]>>] >>

\* A file to scroll, one that fits the window, and one with a single step.
ThreeFiles == <<2, 0, 1>>

UpAndDown == {-1, 1}

\* Starts, counts and their edges: an empty side, one line, the line behind it,
\* two lines, and two that do not fit the line numbers.
RangeEdges == {<<0, 0>>, <<1, 0>>, <<1, 1>>, <<2, 1>>, <<1, 2>>, <<2, 2>>}

\* Folders in folders beside a file and a folder with two files of one name, a
\* review in which other folders are folded, and one without files.
ThreeTrees ==
  << << <<1, 1, 1>>, <<1, 1, 2>>, <<1, 2>>, <<2, 1, 1>>, <<2, 1, 1>> >>,
     << <<1, 1, 1>>, <<1, 2, 1>>, <<1, 1, 2>> >>, <<>> >>

\* One file was renamed.
OneMove == << << <<>>, <<>>, <<4, 1>>, <<>>, <<>> >>, << <<>>, <<>>, <<>> >>, <<>> >>

\* Two releases of the first review.
TwoReleases == {<< {<<1, 1, 1>>, <<2, 1, 1>>}, {<<1, 2>>} >>}

-----------------------------------------------------------------------------
(* Where each part begins, and where it rests.                             *)

Straight ==
  /\ parent = [c \in Commits |-> c - 1] /\ mergedIn = [c \in Commits |-> c] /\ tagged = <<>>
  /\ released = {}

Untouched ==
  /\ baseFiles = {} /\ patchFiles = {}
  /\ changes = [i \in 1 .. History |-> [n \in FileNames |-> [kind |-> "none", from |-> 0]]]

\* The graph with the tags, and the files of the steps, vary one at a time.
TimelineStart == (Untouched \/ Straight) /\ TimelineInit

TimelineRest == Straight /\ Untouched /\ timeline = {}

\* What stands in the way of a review, a binary file and the summary do not
\* depend on the rows of the patch.
AnchorsStart ==
  /\ AnchorsInit
  /\ blocker # "none" \/ patched.content = "binary" \/ boldTop => Len(patched.rows) = 1

AnchorsRest ==
  /\ provider = "github" /\ draft = [side |-> "right", start |-> 0, line |-> 0, whole |-> TRUE]
  /\ patched = [rows |-> <<>>, cut |-> 0, renamed |-> FALSE, content |-> "text"]
  /\ blocker = "none" /\ boldTop = FALSE /\ stored = {} /\ phase = "drafted" /\ pushed = FALSE

AddressesRest ==
  /\ typed = "nothing" /\ isFile = FALSE /\ login = {}
  /\ request = None /\ window = None /\ target = None /\ again = None /\ step = "refused"

TreeRest ==
  /\ reviewed = 3 /\ releaseList = <<>> /\ listing = TRUE /\ fileFilter = 0
  /\ releaseFilter = 0 /\ wanted = {} /\ collapsed = {} /\ viewed = {}
  /\ treeRows = <<>> /\ visibleFiles = <<>> /\ treeCursor = 1 /\ selectedFile = 0
  /\ treeFocus = FALSE /\ hits = <<>> /\ hitIndex = 1 /\ browses = 0

Init ==
  /\ topic \in Topics
  /\ IF topic = "timeline" THEN TimelineStart ELSE TimelineRest
  /\ IF topic = "anchors" THEN AnchorsStart ELSE AnchorsRest
  /\ IF topic = "addresses" THEN AddressesInit ELSE AddressesRest
  /\ PatchInit
  /\ ViewportInit /\ ~split /\ ~wrap
  /\ GesturesInit /\ (topic # "gestures" => ~rich)
  /\ PeekInit /\ (topic # "peek" => pinned)
  /\ ComposerInit /\ (topic # "composer" => replies = 0)
  /\ ThemesInit /\ (topic # "themes" => ~extends)
  /\ IF topic = "tree" THEN TreeInit ELSE TreeRest

Next ==
  /\ UNCHANGED topic
  /\ \/ /\ topic = "timeline" /\ TimelineNext
        /\ UNCHANGED <<anchorVars, patchVars, addressVars, viewportVars, gestureVars,
                       peekVars, composerVars, themeVars, treeVars>>
     \/ /\ topic = "anchors" /\ AnchorsNext
        /\ UNCHANGED <<timelineVars, patchVars, addressVars, viewportVars, gestureVars,
                       peekVars, composerVars, themeVars, treeVars>>
     \/ /\ topic = "parser" /\ PatchNext
        /\ UNCHANGED <<timelineVars, anchorVars, addressVars, viewportVars, gestureVars,
                       peekVars, composerVars, themeVars, treeVars>>
     \/ /\ topic = "addresses" /\ AddressesNext
        /\ UNCHANGED <<timelineVars, anchorVars, patchVars, viewportVars, gestureVars,
                       peekVars, composerVars, themeVars, treeVars>>
     \/ /\ topic = "viewport" /\ ViewportNext
        /\ UNCHANGED <<timelineVars, anchorVars, patchVars, addressVars, gestureVars,
                       peekVars, composerVars, themeVars, treeVars>>
     \/ /\ topic = "gestures" /\ GesturesNext
        /\ UNCHANGED <<timelineVars, anchorVars, patchVars, addressVars, viewportVars,
                       peekVars, composerVars, themeVars, treeVars>>
     \/ /\ topic = "peek" /\ PeekNext
        /\ UNCHANGED <<timelineVars, anchorVars, patchVars, addressVars, viewportVars,
                       gestureVars, composerVars, themeVars, treeVars>>
     \/ /\ topic = "composer" /\ ComposerNext
        /\ UNCHANGED <<timelineVars, anchorVars, patchVars, addressVars, viewportVars,
                       gestureVars, peekVars, themeVars, treeVars>>
     \/ /\ topic = "themes" /\ ThemesNext
        /\ UNCHANGED <<timelineVars, anchorVars, patchVars, addressVars, viewportVars,
                       gestureVars, peekVars, composerVars, treeVars>>
     \/ /\ topic = "tree" /\ TreeNext
        /\ UNCHANGED <<timelineVars, anchorVars, patchVars, addressVars, viewportVars,
                       gestureVars, peekVars, composerVars, themeVars>>

Spec == Init /\ [][Next]_vars
=============================================================================
