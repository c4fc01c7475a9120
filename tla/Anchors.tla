------------------------------ MODULE Anchors -------------------------------
(* A review comment on its way out and back: the draft is prepared against *)
(* the patch (PreparedReview::prepare), placed for the service (position   *)
(* and payload of the rules), stored there, read back by the writer to     *)
(* recognise what it sent (comments, matches_review), and read back by the *)
(* reader to show it (thread, discussion_comments, thread_location,        *)
(* thread_roots_at).                                                       *)
EXTENDS Naturals, Sequences, FiniteSets

CONSTANT MaxRows   \* bound on the rows of the patch of the file

ASSUME AnchorsAssumption == MaxRows \in Nat \ {0}

VARIABLES
  provider,  \* "github" or "gitlab"
  patched,      \* rows, hunk boundary, whether it was renamed, what it contains
  draft,     \* what the comment was written on
  blocker,   \* what stands in the way of the review as a whole
  boldTop,   \* the summary begins with a bold paragraph
  stored,    \* the comment of the review at the service: {} or one record
  phase,     \* "drafted", "prepared", "refused", "posted", "confirmed", "unknown"
  pushed     \* the change has another head by now

anchorVars == <<provider, patched, draft, blocker, boldTop, stored, phase, pushed>>

Sides == {"left", "right"}
RowKinds == {"context", "removed", "added"}

\* What prepare refuses before it looks at a draft, and what it refuses of one.
Blockers ==
  {"offline", "other provider", "read only", "compare", "quick action", "identity",
   "warnings", "closed", "pending review", "no summary", "too many",
   "duplicate", "other revision", "published", "unsaved", "empty body", "no file"}

-----------------------------------------------------------------------------
(* The patch.                                                              *)
Rows == DOMAIN patched.rows

Carries(i, side) == patched.rows[i] # IF side = "left" THEN "added" ELSE "removed"

\* PatchRow::number, 0 for none: one line of the file is hidden between hunks.
NumberOn(i, side) ==
  IF Carries(i, side)
    THEN Cardinality({j \in 1 .. i : Carries(j, side)}) + (IF i > patched.cut THEN 1 ELSE 0)
    ELSE 0

HunkSpans == {1 .. patched.cut, patched.cut + 1 .. Len(patched.rows)}

\* FileChange::line.
RowOf(side, n) == CHOOSE i \in Rows : NumberOn(i, side) = n
HasLine(side, n) == n > 0 /\ \E i \in Rows : NumberOn(i, side) = n

\* FileChange::eligible.
Eligible(d) ==
  /\ patched.content = "text"
  /\ d.start > 0 /\ d.start =< d.line
  /\ \E h \in HunkSpans : \A n \in d.start .. d.line : \E i \in h : NumberOn(i, d.side) = n

\* FileChange::path and the side's own path.
NewPath == "new"
OldPath == IF patched.renamed THEN "old" ELSE "new"

\* Lines a selection can have, eligible or not, and the whole file.
Drafts ==
  [side : Sides, start : 1 .. MaxRows + 1, line : 1 .. MaxRows + 1, whole : {FALSE}]
    \cup {[side |-> "right", start |-> 0, line |-> 0, whole |-> TRUE]}

-----------------------------------------------------------------------------
(* What is sent.                                                           *)

\* GithubRules::payload: a range names its start, a file has no line.
GithubComment(d) ==
  [path |-> NewPath, side |-> d.side, line |-> d.line,
   start |-> IF d.start < d.line THEN d.start ELSE 0, whole |-> d.whole]

\* GitlabRules::position: both numbers of the row, and of the first row of a
\* range, under both paths; the marker of the note keeps the side.
Position(d) ==
  LET at(n) == IF d.whole THEN [old |-> 0, new |-> 0]
               ELSE [old |-> NumberOn(RowOf(d.side, n), "left"),
                     new |-> NumberOn(RowOf(d.side, n), "right")]
  IN  [oldPath |-> OldPath, newPath |-> NewPath, row |-> at(d.line), mark |-> d.side,
       first |-> IF d.start # d.line THEN at(d.start) ELSE [old |-> 0, new |-> 0],
       whole |-> d.whole]

Comment(d) == IF provider = "github" THEN GithubComment(d) ELSE Position(d)

-----------------------------------------------------------------------------
(* What is read back.                                                      *)

\* A number that is absent gives way to another.
Or(n, other) == IF n > 0 THEN n ELSE other

\* GitlabWriter::comments: the side of the marker picks numbers and path.
GitlabKey(c) ==
  IF c.whole THEN [path |-> c.newPath, side |-> "right", start |-> 0, line |-> 0]
  ELSE IF c.mark = "right"
    THEN [path |-> c.newPath, side |-> "right",
          start |-> Or(c.first.new, c.row.new), line |-> c.row.new]
    ELSE [path |-> c.oldPath, side |-> "left",
          start |-> Or(c.first.old, c.row.old), line |-> c.row.old]

\* comment_key: a GitHub comment without a line has none.
GithubKeys(c) ==
  IF c.whole THEN {} ELSE {[path |-> c.path, side |-> c.side, start |-> Or(c.start, c.line), line |-> c.line]}

Keys(c) == IF provider = "github" THEN GithubKeys(c) ELSE {GitlabKey(c)}

\* file_level_note reads a GitLab summary that begins with a bold paragraph
\* as one more comment on a file.
ExtraComment == provider = "gitlab" /\ boldTop

\* Mutant: the side is left out of the key.
MatchesOneSide(d, c) ==
  /\ ~ExtraComment
  /\ \E k \in Keys(c) : k.path = NewPath /\ k.start = d.start /\ k.line = d.line

\* matches_review, for a review of one comment with the right metadata.
Matches(d, c) ==
  /\ ~ExtraComment
  /\ [path |-> NewPath, side |-> d.side, start |-> d.start, line |-> d.line] \in Keys(c)

\* thread of the GitHub reader and discussion_comments of the GitLab reader:
\* a note with a new line is on the right, whatever side it was written on.
\* GitlabReader::snapshot drops the lines of a note on another head.
Thread(c) ==
  IF provider = "github" THEN [c EXCEPT !.side = IF c.whole THEN "right" ELSE @]
  ELSE LET right == c.whole \/ c.row.new > 0
       IN  [path  |-> IF right THEN c.newPath ELSE c.oldPath,
            side  |-> IF right THEN "right" ELSE "left",
            line  |-> IF pushed THEN 0 ELSE IF right THEN c.row.new ELSE c.row.old,
            start |-> IF pushed THEN 0 ELSE IF right THEN c.first.new ELSE c.first.old,
            whole |-> c.whole]

\* thread_location: the place the list of threads goes to.
Location(t) ==
  CASE t.path = NewPath /\ ~t.whole /\ HasLine(t.side, t.line)    -> "line"
    [] t.path = NewPath /\ t.whole /\ t.side = "right" /\ ~pushed -> "file"
    [] OTHER                                                      -> "outdated"

\* threads_at.
ThreadAt(t, side, n) ==
  t.path = NewPath /\ t.side = side /\ t.line > 0 /\ n \in Or(t.start, t.line) .. t.line

\* thread_roots_at: a context row has the threads of both its sides.
RootsAt(t, side, n) ==
  IF n = 0 THEN Location(t) = "file"
  ELSE \/ ThreadAt(t, side, n)
       \/ /\ HasLine(side, n) /\ patched.rows[RowOf(side, n)] = "context"
          /\ \E other \in Sides \ {side} :
               ThreadAt(t, other, NumberOn(RowOf(side, n), other))

-----------------------------------------------------------------------------
AnchorsInit ==
  /\ provider \in {"github", "gitlab"}
  /\ \E n \in 1 .. MaxRows :
       patched \in [rows : [1 .. n -> RowKinds], cut : 1 .. n, renamed : BOOLEAN,
                 content : {"text", "binary"}]
  /\ draft \in Drafts
  /\ blocker \in Blockers \cup {"none"}
  /\ boldTop \in BOOLEAN
  /\ stored = {} /\ phase = "drafted" /\ pushed = FALSE

\* PreparedReview::prepare.
PrepareReview ==
  /\ phase = "drafted"
  /\ phase' = IF blocker = "none" /\ (draft.whole \/ Eligible(draft)) THEN "prepared" ELSE "refused"
  /\ UNCHANGED <<provider, patched, draft, blocker, boldTop, stored, pushed>>

\* The service stores the comment as it was sent, or the review whose id the
\* outbox looks at is another with the same summary: written by hand, or sent
\* from another machine, about any eligible place of this file.
Store ==
  /\ phase = "prepared"
  /\ \E d \in {draft} \cup {d \in Drafts : d.whole \/ Eligible(d)} : stored' = {Comment(d)}
  /\ phase' = "posted"
  /\ UNCHANGED <<provider, patched, draft, blocker, boldTop, pushed>>

\* The writer reads the comments of the review back, as publish and reconcile do.
ReadComments ==
  /\ phase = "posted"
  /\ phase' = IF \E c \in stored : Matches(draft, c) THEN "confirmed" ELSE "unknown"
  /\ UNCHANGED <<provider, patched, draft, blocker, boldTop, stored, pushed>>

\* The author pushes; a reload shows the same comment beside another head.
HeadMoves ==
  /\ phase \in {"confirmed", "unknown"} /\ ~pushed
  /\ pushed' = TRUE
  /\ UNCHANGED <<provider, patched, draft, blocker, boldTop, stored, phase>>

AnchorsNext == PrepareReview \/ Store \/ ReadComments \/ HeadMoves

AnchorsSpec == AnchorsInit /\ [][AnchorsNext]_anchorVars

\* A comment that the outbox confirmed is shown where it was written: on the
\* row it ends at, looked at from the side the draft was on, or on the file.
\* What is sent, what recognises it and what shows it read the anchor in three
\* ways, each with its own choice of side, number and path.
ConfirmedIsShown ==
  phase = "confirmed" /\ ~pushed =>
    \A c \in stored :
      /\ RootsAt(Thread(c), draft.side, draft.line)
      /\ Location(Thread(c)) = IF draft.whole THEN "file" ELSE "line"

\* A comment on a line that the service stored as it was sent is recognised,
\* so that a batch can be reconciled (README: "can be reconciled rather than
\* sent twice").
SentIsRecognised ==
  phase = "unknown" /\ ~draft.whole => \A c \in stored : c # Comment(draft)

\* A draft that prepare lets through.
Postable(d) == d.whole \/ Eligible(d)

\* The inductive invariant of ConfirmedIsShown: what is stored is the comment of
\* some placed draft, and a confirmed review matched it.
AnchorsInv ==
  /\ provider \in {"github", "gitlab"}
  /\ patched \in [rows : Seq(RowKinds), cut : Nat, renamed : BOOLEAN, content : {"text", "binary"}]
  /\ patched.cut =< Len(patched.rows)
  /\ draft \in Drafts
  /\ phase \in {"drafted", "prepared", "refused", "posted", "confirmed", "unknown"}
  /\ phase \in {"prepared", "posted", "confirmed"} => Postable(draft)
  /\ phase \in {"posted", "confirmed"} =>
       \E d \in Drafts : Postable(d) /\ stored = {Comment(d)}
  /\ phase = "confirmed" => \E c \in stored : Matches(draft, c)
=============================================================================
