------------------------------ MODULE Coverage ------------------------------
(* What a reader says of the files it could not show.                      *)
(*                                                                         *)
(* The services leave things out: a diff that stops at a number of files,  *)
(* a file list cut at its last page, a text that is too large. A reader    *)
(* takes the diff and a list of the files from different endpoints and     *)
(* compares them; it refuses the snapshot, warns, or shows it as complete. *)
(* The endpoints are modelled by what they leave out, within what their    *)
(* services promise (see ListingOf and RawOf).                             *)
EXTENDS Naturals, FiniteSets

CONSTANTS Files,        \* files a change may touch
          PageSize,     \* 100
          MaxPages,     \* 100 pages of GitHub, 30 of GitLab
          ListingCap    \* 300 files in a GitHub compare, DIFF_FILES in GitLab's

ASSUME CoverageAssumption ==
  /\ IsFiniteSet(Files)
  /\ {PageSize, MaxPages, ListingCap} \subseteq Nat \ {0}

VARIABLES
  reader,     \* which reader
  form,       \* touched file -> what its change is
  listing,    \* the file list as it was answered
  raw,        \* the diff as it was answered
  warnings,   \* of the snapshot
  report      \* "start", "listed", "read", "refused" or "shown"

coverageVars == <<reader, form, listing, raw, warnings, report>>

Providers == {"github", "githubCompare", "gitlab", "gitlabCompare", "entire"}

\* A change of text, of text beyond what the service shows, of bytes, or of
\* the mode alone.
Forms == {"text", "huge", "binary", "mode"}
Lines == {"text", "huge"}     \* the forms that change lines

\* The files of this change, and those of one of the forms.
Changed == DOMAIN form
OfForm(fs) == {f \in Changed : form[f] \in fs}

-----------------------------------------------------------------------------
(* The answers.                                                            *)

\* A list: the files in it, those of them whose text it has, those it marks
\* as left out, the number of files it says there are, and whether it says
\* that it is cut. A huge text may be left out, and is then marked.
ListingOf(kind) ==
  {l \in [files : SUBSET Changed, texts : SUBSET Changed, left : SUBSET Changed,
          said : {Cardinality(Changed)}, cut : BOOLEAN] :
     /\ l.texts \subseteq l.files /\ l.texts \subseteq OfForm(Lines)
     /\ (l.files \cap OfForm({"text"})) \subseteq l.texts
     /\ l.left = (l.files \cap OfForm({"huge"})) \ l.texts
     /\ CASE kind = "entire"        -> l.cut = (l.files # Changed)
          [] kind = "gitlabCompare" -> l.files = Changed \/ l.cut \/ Cardinality(l.files) = ListingCap
          [] kind = "githubCompare" -> ~l.cut /\ Cardinality(l.files) =< ListingCap
                                       /\ (l.files = Changed \/ Cardinality(l.files) = ListingCap)
          [] kind = "gitlab"        -> ~l.cut /\ l.files = Changed
          [] OTHER                  -> ~l.cut}

\* A diff: its status, its files, and those whose lines it has. A diff may
\* leave out a file, or a text the list leaves out; 406 is a diff that is too
\* large.
RawOf(kind) ==
  {r \in [status : {200, 406, 500}, files : SUBSET Changed, texts : SUBSET Changed] :
     /\ r.texts \subseteq r.files \cap OfForm(Lines)
     /\ (r.files \cap OfForm({"text"})) \subseteq r.texts
     /\ r.status # 200 => r.files = {}
     /\ r.status = 406 => kind \in {"github", "githubCompare"}
     /\ (r.files \cap listing.texts) \subseteq r.texts}

-----------------------------------------------------------------------------
NoListing == [files |-> {}, texts |-> {}, left |-> {}, said |-> 0, cut |-> FALSE]
NoRaw == [status |-> 0, files |-> {}, texts |-> {}]

CoverageInit ==
  /\ reader \in Providers
  /\ form \in UNION {[S -> Forms] : S \in SUBSET Files}
  /\ listing = NoListing /\ raw = NoRaw /\ warnings = {} /\ report = "start"

Refuse == report' = "refused" /\ UNCHANGED warnings

\* pages of GitHub and GitLab: a page that is not full is the last; after the
\* last page that is asked for, the list is refused.
Paged(n) == n < PageSize * MaxPages

\* The file list: pages of it, or a part of the compare itself.
ReadListing ==
  /\ report = "start"
  /\ \E l \in ListingOf(reader) :
       /\ listing' = l
       /\ IF reader \in {"github", "gitlab"} /\ ~Paged(Cardinality(l.files))
            THEN Refuse
            ELSE report' = "listed" /\ UNCHANGED warnings
  /\ UNCHANGED <<reader, form, raw>>

\* patch_from_files and patch_from_diffs: a file of the list each, with the
\* lines the list has.
FromListing == [status |-> 200, files |-> listing.files, texts |-> listing.texts]

\* The diff, and what is made of it: GitHub goes over to the list when its
\* diff is too large, GitLab's compare has no other.
ReadRaw ==
  /\ report = "listed"
  /\ \E r \in IF reader = "gitlabCompare" THEN {FromListing} ELSE RawOf(reader) :
       /\ raw' = IF r.status = 406 THEN FromListing ELSE r
       /\ IF r.status = 500
            THEN Refuse
            ELSE /\ warnings' = IF r.status = 406 THEN {"from files"} ELSE {}
                 /\ report' = "read"
  /\ UNCHANGED <<reader, form, listing>>

\* "provider omitted text": a listed file without text, whose lines the diff
\* does not have either.
Omitted == {f \in listing.left : f \notin raw.texts}

\* Mutant: the number of files that the pull request has is not looked at.
GithubWarningsUncounted ==
  (IF listing.files # raw.files THEN {"paths"} ELSE {})
    \cup {"omitted" : f \in Omitted}

\* GithubReader::snapshot.
GithubWarnings ==
  (IF listing.said # Cardinality(listing.files) \/ listing.said # Cardinality(raw.files)
     THEN {"count"} ELSE {})
    \cup (IF listing.files # raw.files THEN {"paths"} ELSE {})
    \cup {"omitted" : f \in Omitted}

\* GithubReader::compare, whose list stops at the cap.
GithubCompareWarnings ==
  LET capped == Cardinality(listing.files) >= ListingCap
      listed == Cardinality(listing.files)
      shown  == Cardinality(raw.files)
  IN (IF "from files" \notin warnings /\ IF capped THEN shown < listed ELSE shown # listed
        THEN {"count"} ELSE {})
       \cup {"omitted" : f \in Omitted}

\* GitlabReader::snapshot refuses instead.
GitlabRefusesFiles ==
  reader = "gitlab" /\ (listing.files # raw.files \/ listing.left # {})

\* GitlabReader::compare.
GitlabCompareWarnings ==
  (IF listing.cut \/ Cardinality(listing.files) >= ListingCap THEN {"cut"} ELSE {})
    \cup (IF Cardinality(raw.files) # Cardinality(listing.files) THEN {"count"} ELSE {})
    \cup {"omitted" : f \in listing.left}

\* EntireReader::snapshot and Comparison::warnings.
EntireRefusesEmpty ==
  reader = "entire" /\ raw.files = {} /\ (listing.files # {} \/ listing.cut)

EntireWarnings ==
  (IF listing.cut THEN {"cut"} ELSE {})
    \cup (IF listing.files # raw.files THEN {"paths"} ELSE {})
    \cup {"omitted" : f \in listing.left}

\* The snapshot and what is said of it.
Assess ==
  /\ report = "read"
  /\ IF GitlabRefusesFiles \/ EntireRefusesEmpty
       THEN Refuse
       ELSE /\ report' = "shown"
            /\ warnings' = warnings \cup
                 CASE reader = "github"        -> GithubWarnings
                   [] reader = "githubCompare" -> GithubCompareWarnings
                   [] reader = "gitlabCompare" -> GitlabCompareWarnings
                   [] reader = "entire"        -> EntireWarnings
                   [] OTHER                    -> {}
  /\ UNCHANGED <<reader, form, listing, raw>>

CoverageNext == ReadListing \/ ReadRaw \/ Assess

CoverageSpec == CoverageInit /\ [][CoverageNext]_coverageVars

-----------------------------------------------------------------------------
\* Everything the change has is in the snapshot.
Whole == raw.files = Changed /\ OfForm(Lines) = raw.texts

\* The list of a GitHub compare that reached its cap proves nothing about the
\* files behind it.
BeyondCap == reader = "githubCompare" /\ Cardinality(listing.files) >= ListingCap

\* A snapshot without a warning is whole: whatever a service leaves out of its
\* diff or its list, the reader notices by comparing the two. And the reader
\* does not cry wolf: a whole snapshot is shown without a warning when the
\* list is whole, too, and was not the source of the diff.
MissingIsTold ==
  /\ report = "shown" /\ warnings = {} => Whole \/ BeyondCap
  /\ report \in {"refused", "shown"} /\ "from files" \notin warnings
       /\ raw.status = 200 /\ Whole /\ listing.files = Changed
       /\ listing.left = {} /\ ~listing.cut /\ Cardinality(Changed) < ListingCap
       => report = "shown" /\ warnings = {}

\* What is known of the list and of the diff once they are read: each is within
\* what its service promises, and the only warning so far is of the list that
\* stands in for the diff.
ReadInv ==
  /\ report \in {"listed", "read"} => listing \in ListingOf(reader)
  /\ report \in {"start", "listed"} => raw = NoRaw /\ warnings = {}
  /\ report = "read" =>
       \/ raw = FromListing /\ warnings = {"from files"}
       \/ raw = FromListing /\ warnings = {} /\ reader = "gitlabCompare"
       \/ raw \in RawOf(reader) /\ warnings = {} /\ reader # "gitlabCompare"

\* The inductive invariant of MissingIsTold.
CoverageInv ==
  /\ reader \in Providers
  /\ form \in UNION {[S -> Forms] : S \in SUBSET Files}
  /\ report \in {"start", "listed", "read", "refused", "shown"}
  /\ report = "read" => raw.status = 200
  /\ ReadInv /\ MissingIsTold
=============================================================================
