------------------------------ MODULE LocalGit ------------------------------
(* Capturing a worktree or an index while an editor writes to it           *)
(* (local_git.rs). `git diff` and the reading of untracked files look at   *)
(* one file after the other, so one capture may mix two states of the      *)
(* tree; LocalGit::snapshot captures twice and accepts only two equal      *)
(* captures, within three attempts.                                        *)
EXTENDS Naturals, FiniteSets

CONSTANTS Paths,         \* files of the worktree
          MaxEdits,      \* bound on writes to the tree during a capture
          MaxRounds      \* the `for _ in 0..3`

ASSUME LocalGitAssumption ==
  IsFiniteSet(Paths) /\ MaxEdits \in Nat /\ MaxRounds \in Nat \ {0}

Unread == MaxEdits + 1

VARIABLES
  tree,        \* path -> content now, as the number of its latest write
  edits,       \* writes made so far
  returned,    \* a path got an earlier content back during this round
  round,       \* attempt of the loop
  pass,        \* "first", "second" or "ended"
  first,       \* path -> content captured by the first pass of the round
  second,      \* and by the second
  between,     \* the tree as it was when the first pass ended
  captured     \* "none", "snapshot" or "error"

localVars == <<tree, edits, returned, round, pass, first, second, between, captured>>

Blank == [p \in Paths |-> Unread]

LocalInit ==
  /\ tree = [p \in Paths |-> 0] /\ edits = 0 /\ returned = FALSE
  /\ round = 1 /\ pass = "first" /\ first = Blank /\ second = Blank /\ between = tree
  /\ captured = "none"

\* `git diff` or untracked reads the next file of the pass.
CaptureFile(p) ==
  /\ \/ /\ pass = "first" /\ first[p] = Unread
        /\ first' = [first EXCEPT ![p] = tree[p]]
        /\ UNCHANGED second
     \/ /\ pass = "second" /\ second[p] = Unread
        /\ second' = [second EXCEPT ![p] = tree[p]]
        /\ UNCHANGED first
  /\ UNCHANGED <<tree, edits, returned, round, pass, between, captured>>

\* Git fails, an untracked item is no regular file, or there are too many of
\* them or too much: `?` ends the capture.
CaptureFails ==
  /\ pass \in {"first", "second"}
  /\ pass' = "ended" /\ captured' = "error"
  /\ UNCHANGED <<tree, edits, returned, round, first, second, between>>

\* The first patch and its untracked files are complete.
FirstPassEnds ==
  /\ pass = "first" /\ \A p \in Paths : first[p] # Unread
  /\ pass' = "second" /\ between' = tree
  /\ UNCHANGED <<tree, edits, returned, round, first, second, captured>>

\* Mutant: the second capture is not compared.
SecondPassEndsUnchecked ==
  /\ pass = "second" /\ \A p \in Paths : second[p] # Unread
  /\ pass' = "ended" /\ captured' = "snapshot"
  /\ UNCHANGED <<tree, edits, returned, round, first, second, between>>

\* Two equal patches are a snapshot; else the next round, or the error.
SecondPassEnds ==
  /\ pass = "second" /\ \A p \in Paths : second[p] # Unread
  /\ \/ /\ first = second
        /\ pass' = "ended" /\ captured' = "snapshot"
        /\ UNCHANGED <<returned, round, first, second>>
     \/ /\ first # second /\ round < MaxRounds
        /\ round' = round + 1 /\ pass' = "first" /\ returned' = FALSE
        /\ first' = Blank /\ second' = Blank /\ UNCHANGED captured
     \/ /\ first # second /\ round = MaxRounds
        /\ pass' = "ended" /\ captured' = "error"
        /\ UNCHANGED <<returned, round, first, second>>
  /\ UNCHANGED <<tree, edits, between>>

\* An editor, a build or Git writes a file, or puts an earlier content back.
WriteFile(p) ==
  /\ edits < MaxEdits /\ pass # "ended"
  /\ edits' = edits + 1
  /\ \/ tree' = [tree EXCEPT ![p] = edits + 1] /\ UNCHANGED returned
     \/ \E v \in 0 .. tree[p] - 1 : tree' = [tree EXCEPT ![p] = v] /\ returned' = TRUE
  /\ UNCHANGED <<round, pass, first, second, between, captured>>

LocalNext ==
  \/ \E p \in Paths : CaptureFile(p) \/ WriteFile(p)
  \/ CaptureFails \/ FirstPassEnds \/ SecondPassEnds

LocalSpec == LocalInit /\ [][LocalNext]_localVars

-----------------------------------------------------------------------------
ContentsOK ==
  /\ tree \in [Paths -> 0 .. MaxEdits] /\ between \in [Paths -> 0 .. MaxEdits]
  /\ first \in [Paths -> 0 .. Unread] /\ second \in [Paths -> 0 .. Unread]
  /\ edits \in 0 .. MaxEdits

LocalTypeOK ==
  /\ ContentsOK
  /\ returned \in BOOLEAN
  /\ round \in 1 .. MaxRounds /\ pass \in {"first", "second", "ended"}
  /\ captured \in {"none", "snapshot", "error"}

\* An accepted worktree snapshot is a state the whole tree was in at one
\* instant, between the two passes, whatever was written meanwhile; only a
\* file that got an earlier content back can hide a mixture.
OneInstant == captured = "snapshot" => first = between \/ returned

\* What each pass may have seen: without a return a file only moves on, so the
\* first pass saw nothing newer than the tree between the passes and the second
\* nothing older.
PassOrder ==
  ~returned => \A p \in Paths :
    /\ first[p] # Unread => first[p] =< tree[p]
    /\ pass # "first" /\ captured # "error" =>
         /\ first[p] # Unread /\ first[p] =< between[p] /\ between[p] =< tree[p]
         /\ second[p] # Unread => between[p] =< second[p]

LocalInv ==
  /\ LocalTypeOK
  /\ \A p \in Paths : tree[p] =< edits
  /\ pass = "first" => second = Blank
  /\ pass # "ended" => captured = "none"
  /\ captured = "snapshot" => first = second
  /\ PassOrder
=============================================================================
