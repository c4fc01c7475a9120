----------------------------- MODULE PatchParser ----------------------------
(* parse_patch (patch.rs): a unified patch is read line by line into files, *)
(* hunks and rows. A line is one of the forms the parser tells apart; what *)
(* it says beyond that is left out. Paths are names, "" for none.           *)
EXTENDS Integers, Sequences, FiniteSets, SequencesExt

CONSTANTS HunkRanges,     \* <<start, count>> pairs of hunk headers
          MaxLine,    \* u32::MAX
          MaxFiles,   \* max_files of ParseLimits
          MaxTotal,    \* max_rows
          MaxLines    \* bound on the lines of a patch

ASSUME PatchAssumption ==
  /\ HunkRanges \subseteq Nat \X Nat /\ MaxLine \in Nat
  /\ MaxFiles \in Nat /\ MaxTotal \in Nat /\ MaxLines \in Nat

VARIABLES
  files,     \* the files read so far
  current,   \* the file that is being read: {} or one record
  hunk,      \* the hunk whose rows are being read: {} or one record
  total,     \* total_rows
  at,        \* the lines read, `i`
  parse,     \* "reading", "ok" or "error"
  headers,   \* file headers met
  signed     \* the mail signature that ends everything has been met

patchVars == <<files, current, hunk, total, at, parse, headers, signed>>

PathNames == {"x", "y"}
LineSides == {"old", "new"}

\* header_paths: both names, or neither where the header can be cut twice.
HeaderNames == (PathNames \X PathNames) \cup {<<"", "">>}

NewFile(p) == [old |-> p[1], new |-> p[2], kind |-> "modified", content |-> "text", hunks |-> <<>>]

-----------------------------------------------------------------------------
PatchInit ==
  /\ files = <<>> /\ current = {} /\ hunk = {}
  /\ total = 0 /\ at = 0 /\ headers = 0 /\ signed = FALSE
  /\ parse = "reading"

\* One more line.
NextLine == parse = "reading" /\ at < MaxLines /\ at' = at + 1

Fails == parse' = "error" /\ UNCHANGED <<files, current, hunk, total, headers, signed>>

\* The end of a file: its paths must be known, its kind settles them, and the
\* pair of them must be new.
Closed(f) ==
  [f EXCEPT !.old = IF f.kind = "added" THEN "" ELSE @,
            !.new = IF f.kind = "deleted" THEN "" ELSE @]

Closes(f) ==
  /\ f.old # "" \/ f.new # ""
  /\ \A i \in DOMAIN files : <<files[i].old, files[i].new>> # <<Closed(f).old, Closed(f).new>>

AllClosed == IF current = {} THEN files ELSE Append(files, Closed(CHOOSE f \in current : TRUE))

\* `diff --git`: the file before it ends, another begins.
DiffLine(p) ==
  /\ NextLine /\ hunk = {} /\ ~signed
  /\ IF Len(files) + Cardinality(current) < MaxFiles /\ \A f \in current : Closes(f)
       THEN /\ files' = AllClosed
            /\ current' = {NewFile(p)}
            /\ headers' = headers + 1
            /\ UNCHANGED <<hunk, total, parse, signed>>
       ELSE Fails

\* Mutant: only the old side of the hunk before is looked at.
OverlapsOld(h, hunks) ==
  hunks # <<>> /\ h.old[1] < Last(hunks).old[1] + Last(hunks).old[2]

\* A hunk that begins before the last one of its file has ended.
Overlaps(h, hunks) ==
  hunks # <<>> /\ \E s \in LineSides : h[s][1] < Last(hunks)[s][1] + Last(hunks)[s][2]

\* pair: a range that has lines starts at 1 or later and fits the line numbers.
BadRange(r) == r[2] > 0 /\ (r[1] = 0 \/ r[1] + r[2] > MaxLine)

\* The rows a hunk still needs on a side.
Wanted(h, s) == h[s][2] - Cardinality({i \in DOMAIN h.rows : h.rows[i][s] > 0})

Complete(h) == \A s \in LineSides : Wanted(h, s) = 0

\* A hunk header (hunk_header); one that counts nothing is complete at once.
HunkLine(old, new) ==
  /\ NextLine /\ current # {} /\ hunk = {} /\ ~signed
  /\ LET h == [old |-> old, new |-> new, rows |-> <<>>]
     IN IF BadRange(old) \/ BadRange(new) \/ (\E f \in current : Overlaps(h, f.hunks))
          THEN Fails
          ELSE /\ IF Complete(h)
                    THEN /\ current' = {[f EXCEPT !.hunks = Append(@, h)] : f \in current}
                         /\ UNCHANGED hunk
                    ELSE hunk' = {h} /\ UNCHANGED current
               /\ UNCHANGED <<files, total, parse, headers, signed>>

\* The rows of a hunk, and the sides a row of each kind has.
RowForms == {"context", "added", "removed"}
RowSides(kind) == LineSides \ {IF kind = "added" THEN "old" ELSE IF kind = "removed" THEN "new" ELSE ""}

\* The number the next row of a hunk gets on a side it has, 0 on another one.
NumberOf(h, kind, s) == IF s \in RowSides(kind) THEN h[s][1] + h[s][2] - Wanted(h, s) ELSE 0

\* A row of a counted hunk. Text that looks like a header is a row here, and
\* so is a signature, which begins like a removed row.
RowLine(kind) ==
  /\ NextLine /\ hunk # {}
  /\ LET h   == CHOOSE h \in hunk : TRUE
         row == [kind |-> kind, ending |-> "lf", old |-> NumberOf(h, kind, "old"),
                 new |-> NumberOf(h, kind, "new")]
         grown == [h EXCEPT !.rows = Append(@, row)]
     IN IF (\E s \in RowSides(kind) : Wanted(h, s) = 0) \/ total = MaxTotal
          THEN Fails
          ELSE /\ total' = total + 1
               /\ IF Complete(grown)
                    THEN /\ current' = {[f EXCEPT !.hunks = Append(@, grown)] : f \in current}
                         /\ hunk' = {}
                    ELSE hunk' = {grown} /\ UNCHANGED current
               /\ UNCHANGED <<files, parse, headers, signed>>

\* A hunk row that starts with none of the three signs, or is empty.
StrayLine == NextLine /\ hunk # {} /\ Fails

\* mark_no_final_newline, on the last row of a hunk.
Unended(h) == [h EXCEPT !.rows[Len(h.rows)].ending = "none"]
MayMark(h) == h.rows # <<>> /\ Last(h.rows).ending # "none"

\* `\ No newline at end of file`, between the rows of a hunk or right behind.
EofMark ==
  /\ NextLine /\ current # {} /\ ~signed
  /\ IF hunk # {}
       THEN IF \A h \in hunk : MayMark(h)
              THEN hunk' = {Unended(h) : h \in hunk} /\ UNCHANGED <<files, current, total, parse, headers, signed>>
              ELSE Fails
       ELSE /\ \A f \in current : f.hunks # <<>>
            /\ IF \A f \in current : MayMark(Last(f.hunks))
                 THEN /\ current' = {[f EXCEPT !.hunks[Len(f.hunks)] = Unended(@)] : f \in current}
                      /\ UNCHANGED <<files, hunk, total, parse, headers, signed>>
                 ELSE Fails

\* A header line of a file, before its first hunk.
HeaderLine(Set(_)) ==
  /\ NextLine /\ current # {} /\ hunk = {} /\ ~signed
  /\ \A f \in current : f.hunks = <<>>
  /\ current' = {Set(f) : f \in current}
  /\ UNCHANGED <<files, hunk, total, parse, headers, signed>>

\* `---`, `+++`, rename, copy, file mode, submodule and binary lines.
OldMarker(p)    == HeaderLine(LAMBDA f : [f EXCEPT !.old = p])
NewMarker(p)    == HeaderLine(LAMBDA f : [f EXCEPT !.new = p])
MovedFrom(k, p) == HeaderLine(LAMBDA f : [f EXCEPT !.old = p, !.kind = k])
MovedTo(k, p)   == HeaderLine(LAMBDA f : [f EXCEPT !.new = p, !.kind = k])
NewFileMode     == HeaderLine(LAMBDA f : [f EXCEPT !.kind = "added", !.old = ""])
DeletedFileMode == HeaderLine(LAMBDA f : [f EXCEPT !.kind = "deleted", !.new = ""])
ContentLine(c)  == HeaderLine(LAMBDA f : [f EXCEPT !.content = IF @ = "submodule" THEN @ ELSE c])

\* The signature of a mailed patch: behind a hunk it ends the reading.
Signature ==
  /\ NextLine /\ hunk = {} /\ ~signed
  /\ current # {} /\ \A f \in current : f.hunks # <<>>
  /\ signed' = TRUE
  /\ UNCHANGED <<files, current, hunk, total, parse, headers>>

\* Other text behind a hunk.
Trailer ==
  /\ NextLine /\ hunk = {} /\ ~signed
  /\ current # {} /\ \A f \in current : f.hunks # <<>>
  /\ Fails

\* A file header behind the signature, as in a series of mailed patches.
Ignored ==
  /\ NextLine /\ signed /\ headers < MaxFiles
  /\ headers' = headers + 1
  /\ UNCHANGED <<files, current, hunk, total, parse, signed>>

\* A combined merge diff, or a line beyond the limit, anywhere in the input.
Unsupported == NextLine /\ Fails

\* The end of the input; an input without a file must be blank.
EndOfInput(blank) ==
  /\ parse = "reading"
  /\ IF hunk = {} /\ (\A f \in current : Closes(f)) /\ (current # {} \/ blank)
       THEN /\ parse' = "ok" /\ files' = AllClosed /\ current' = {}
            /\ UNCHANGED <<hunk, total, headers, signed>>
       ELSE Fails
  /\ UNCHANGED at

PatchNext ==
  \/ \E p \in HeaderNames : DiffLine(p)
  \/ \E old, new \in HunkRanges : HunkLine(old, new)
  \/ \E k \in RowForms : RowLine(k)
  \/ Unsupported \/ StrayLine \/ EofMark \/ Signature \/ Trailer \/ Ignored
  \/ \E p \in PathNames \cup {""} : OldMarker(p) \/ NewMarker(p)
  \/ \E k \in {"renamed", "copied"}, p \in PathNames : MovedFrom(k, p) \/ MovedTo(k, p)
  \/ NewFileMode \/ DeletedFileMode
  \/ \E c \in {"binary", "submodule"} : ContentLine(c)
  \/ \E blank \in BOOLEAN : EndOfInput(blank)

PatchSpec == PatchInit /\ [][PatchNext]_patchVars

-----------------------------------------------------------------------------
\* The rows of a hunk that have a number on a side.
OnSide(h, s) == {i \in DOMAIN h.rows : h.rows[i][s] > 0}

\* Going down a file, the numbers of a side grow and stay within a u32.
Grows(f, s) ==
  \A k, l \in DOMAIN f.hunks : \A i \in OnSide(f.hunks[k], s), j \in OnSide(f.hunks[l], s) :
    /\ f.hunks[k].rows[i][s] =< MaxLine
    /\ k < l \/ (k = l /\ i < j) => f.hunks[k].rows[i][s] < f.hunks[l].rows[j][s]

SamePaths(f, g) == <<f.old, f.new>> = <<g.old, g.new>>

\* What is accepted can be relied on: the numbers of a side grow along a file,
\* so that a side and a line name at most one row, and stay within a u32; every
\* hunk has the rows its header counts; no two files are the same change; and
\* every file header of the input is a file of the report, unless the signature
\* of a mail came before it.
AcceptedIsSound ==
  parse = "ok" =>
    /\ \A i \in DOMAIN files :
         /\ \A s \in LineSides : Grows(files[i], s)
         /\ \A k \in DOMAIN files[i].hunks : Complete(files[i].hunks[k])
         /\ \A j \in DOMAIN files : i # j => ~SamePaths(files[i], files[j])
    /\ ~signed => Len(files) = headers

-----------------------------------------------------------------------------
(* The inductive invariant of AcceptedIsSound.                             *)

RowType == [kind : RowForms, ending : {"lf", "none"}, old : Nat, new : Nat]
HunkType == [old : Nat \X Nat, new : Nat \X Nat, rows : Seq(RowType)]
FileType == [old : PathNames \cup {""}, new : PathNames \cup {""}, content : {"text", "binary", "submodule"},
             kind : {"modified", "added", "deleted", "renamed", "copied"}, hunks : Seq(HunkType)]

\* A side of a hunk: its numbers grow from the start the header names and are
\* used up one by one as rows come.
SideInv(h, s) ==
  /\ ~BadRange(h[s]) /\ Wanted(h, s) \in Nat
  /\ \A i \in OnSide(h, s) :
       /\ h[s][1] =< h.rows[i][s] /\ h.rows[i][s] < h[s][1] + h[s][2] - Wanted(h, s)
       /\ \A j \in OnSide(h, s) : i < j => h.rows[i][s] < h.rows[j][s]

HunkInv(h) == h \in HunkType /\ \A s \in LineSides : SideInv(h, s)

\* Hunk h starts behind the end of hunk g, on both sides.
Behind(h, g) == \A s \in LineSides : g[s][1] + g[s][2] =< h[s][1]

FileInv(f) ==
  /\ f \in FileType
  /\ \A k \in DOMAIN f.hunks : HunkInv(f.hunks[k]) /\ Complete(f.hunks[k])
  /\ \A k, l \in DOMAIN f.hunks : k < l => Behind(f.hunks[l], f.hunks[k])

PatchInv ==
  /\ headers \in Nat /\ total \in Nat
  /\ files \in Seq(FileType) /\ \A i \in DOMAIN files : FileInv(files[i])
  /\ \A i, j \in DOMAIN files : i # j => ~SamePaths(files[i], files[j])
  /\ \A f \in current : FileInv(f) /\ current = {f}
  /\ hunk # {} => current # {}
  /\ \A h \in hunk : HunkInv(h) /\ hunk = {h}
  /\ \A h \in hunk, f \in current : \A k \in DOMAIN f.hunks : Behind(h, f.hunks[k])
  /\ ~signed => headers = Len(files) + Cardinality(current)
  /\ parse = "ok" => current = {}
=============================================================================
