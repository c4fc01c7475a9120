------------------------------ MODULE FileTree ------------------------------
(* The tree of changed files (core/src/file_tree.rs, ui/src/file_browser.rs): *)
(* which files it lists under a text filter and a release, how folders are  *)
(* folded and collapsed, its cursor and keys, and the order in which the    *)
(* commands for the next file and the next search hit go through a review.  *)
(*                                                                          *)
(* A path is a sequence of names, and a name is a number, so that names can *)
(* be sorted. Two Git paths may have one display path.                      *)
EXTENDS Naturals, Sequences, FiniteSets, SequencesExt

CONSTANTS
  TreePaths,     \* for each review, the display paths of its files
  OldPaths,     \* for each review, the old path of a renamed file, or <<>>
  Lists,         \* release lists a service may answer: sequences of sets of paths
  TreeQueries,       \* names typed into the filter; 0 is the empty filter
  MaxBrowses     \* bound on the steps of the reader

ASSUME FileTreeAssumption ==
  /\ 0 \in TreeQueries /\ MaxBrowses \in Nat
  /\ \A r \in DOMAIN TreePaths : DOMAIN OldPaths[r] = DOMAIN TreePaths[r]

VARIABLES
  reviewed,       \* the review that is shown
  releaseList,    \* the releases of its snapshot; <<>> until they are read
  listing,        \* releases_pending
  fileFilter,     \* the text of filter_input
  releaseFilter,  \* index into releaseList, 0 for none
  wanted,         \* what the release the reader chose last touched
  collapsed,      \* paths of folders
  treeRows,       \* rows of the browser
  visibleFiles,   \* files the next-file commands go through
  treeCursor,     \* index of the row the keyboard is on, from 1
  selectedFile,   \* the file of the viewport, 0 for none
  viewed,         \* files marked as reviewed
  treeFocus,      \* whether the tree has the keyboard
  hits,           \* search_hits: their files
  hitIndex,       \* search_index, from 1; beyond the hits when none was visited
  browses         \* steps of the reader so far

treeVars == <<reviewed, releaseList, listing, fileFilter, releaseFilter, wanted, collapsed, treeRows,
              visibleFiles, treeCursor, selectedFile, viewed, treeFocus, hits, hitIndex, browses>>

Changed(r) == DOMAIN TreePaths[r]
PathOf(f) == TreePaths[reviewed][f]

-----------------------------------------------------------------------------
(* The rows of the tree.                                                   *)

\* The files below a folder of the tree of fs, and those directly in it.
Below(r, fs, dir) == {f \in fs : IsStrictPrefix(dir, TreePaths[r][f])}
Directly(r, fs, dir) == {f \in Below(r, fs, dir) : Len(TreePaths[r][f]) = Len(dir) + 1}

\* The folders in a folder.
Subfolders(r, fs, dir) ==
  {Append(dir, TreePaths[r][f][Len(dir) + 1]) : f \in Below(r, fs, dir) \ Directly(r, fs, dir)}

ByName(dirs) == SetToSortSeq(dirs, LAMBDA a, b : Last(a) < Last(b))

\* Files are keyed by their name and, where names collide, by their identity.
ByKey(r, fs) ==
  SetToSortSeq(fs, LAMBDA f, g : LET a == Last(TreePaths[r][f]) b == Last(TreePaths[r][g])
                                 IN  a < b \/ (a = b /\ f < g))

FileRow(f, depth) == [file |-> f, path |-> <<>>, depth |-> depth, expanded |-> FALSE]

\* The folders that any of the files is in.
Folders(r, fs) == UNION {{SubSeq(TreePaths[r][f], 1, n) : n \in 0 .. Len(TreePaths[r][f]) - 1} : f \in fs}

\* A folder with one folder and nothing else in it is one row with that.
FoldedTo(r, fs, dir) ==
  LET folded[d \in Folders(r, fs)] ==
        IF Directly(r, fs, d) = {} /\ Cardinality(Subfolders(r, fs, d)) = 1
          THEN folded[CHOOSE sub \in Subfolders(r, fs, d) : TRUE]
          ELSE d
  IN  folded[dir]

\* flatten: the folders of a folder with what is in them, then its files; a
\* folder with a single file is folded into the row of the file.
Flatten(r, fs, closed) ==
  LET rows[dir \in Folders(r, fs), depth \in Nat] ==
        LET folder(d) ==
              LET node == FoldedTo(r, fs, d)
                  one  == Directly(r, fs, node)
                  open == node \notin closed
              IN  IF Subfolders(r, fs, node) = {} /\ Cardinality(one) = 1
                    THEN <<FileRow(CHOOSE f \in one : TRUE, depth)>>
                    ELSE <<[file |-> 0, path |-> node, depth |-> depth, expanded |-> open]>>
                           \o (IF open THEN rows[node, depth + 1] ELSE <<>>)
            dirs == ByName(Subfolders(r, fs, dir))
            here == ByKey(r, Directly(r, fs, dir))
        IN  FlattenSeq([i \in DOMAIN dirs |-> folder(dirs[i])])
              \o [i \in DOMAIN here |-> FileRow(here[i], depth)]
  IN  IF fs = {} THEN <<>> ELSE rows[<<>>, 0]

\* FileTree::rows: while a filter is typed no folder is closed.
RowsOf(r, fs, closed, query) == Flatten(r, fs, IF query = 0 THEN closed ELSE {})

RowFiles(rs) == LET fs == SelectSeq(rs, LAMBDA row : row.file # 0)
               IN  [i \in DOMAIN fs |-> fs[i].file]

\* The filter looks at the path and at the path a renamed file had.
Fits(r, f, query) ==
  query = 0 \/ query \in Range(TreePaths[r][f]) \cup Range(OldPaths[r][f])

\* filter_files: the files a release touched, by their path at the head.
Entries(r, list, index) ==
  IF index = 0 THEN Changed(r)
  ELSE {f \in Changed(r) : index \in DOMAIN list /\ TreePaths[r][f] \in list[index]}

\* FileBrowserState::rebuild: navigation ignores collapsed folders, and the
\* cursor stays in the list.
Rebuild(r, list, index, query, closed, at) ==
  LET fs == {f \in Entries(r, list, index) : Fits(r, f, query)}
      rs == RowsOf(r, fs, closed, query)
  IN  /\ visibleFiles' = RowFiles(RowsOf(r, fs, {}, query))
      /\ treeRows' = rs
      /\ treeCursor' = IF at > Len(rs) THEN (IF rs = <<>> THEN 1 ELSE Len(rs)) ELSE at

-----------------------------------------------------------------------------
TreeInit ==
  /\ reviewed = 1 /\ releaseList = <<>> /\ listing = TRUE /\ fileFilter = 0
  /\ releaseFilter = 0 /\ wanted = {} /\ collapsed = {} /\ viewed = {}
  /\ treeRows = RowsOf(1, Changed(1), {}, 0)
  /\ visibleFiles = RowFiles(RowsOf(1, Changed(1), {}, 0))
  /\ treeCursor = 1 /\ selectedFile = 1 /\ treeFocus = FALSE
  /\ hits = <<>> /\ hitIndex = 1 /\ browses = 0

Browses == browses < MaxBrowses /\ browses' = browses + 1

\* Typing into the filter.
TypeFilter(query) ==
  /\ Browses /\ query # fileFilter
  /\ fileFilter' = query
  /\ Rebuild(reviewed, releaseList, releaseFilter, query, collapsed, treeCursor)
  /\ treeFocus' = FALSE
  /\ UNCHANGED <<reviewed, releaseList, listing, releaseFilter, wanted, collapsed, selectedFile, viewed, hits, hitIndex>>

\* filter_release, from the list of releases or from "Show all": a file that
\* is not listed gives way to the first that is.
FilterRelease(index) ==
  /\ Browses /\ index # releaseFilter /\ index \in {0} \cup DOMAIN releaseList
  /\ releaseFilter' = index
  /\ wanted' = IF index = 0 THEN wanted ELSE releaseList[index]
  /\ Rebuild(reviewed, releaseList, index, fileFilter, collapsed, treeCursor)
  /\ selectedFile' = IF visibleFiles' = <<>> \/ Contains(visibleFiles', selectedFile)
                       THEN selectedFile ELSE Head(visibleFiles')
  /\ UNCHANGED <<reviewed, releaseList, listing, fileFilter, collapsed, viewed, treeFocus, hits, hitIndex>>

\* activate_tree: a file is shown and gets the keyboard, a folder is closed or
\* opened.
Activate(index) ==
  /\ LET row    == treeRows[index]
         closed == (collapsed \ {row.path}) \cup ({row.path} \ collapsed)
     IN  IF row.file # 0
           THEN /\ treeCursor' = index /\ selectedFile' = row.file /\ treeFocus' = FALSE
                /\ UNCHANGED <<collapsed, treeRows, visibleFiles>>
           ELSE /\ collapsed' = closed /\ treeFocus' = TRUE
                /\ Rebuild(reviewed, releaseList, releaseFilter, fileFilter, closed, index)
                /\ UNCHANGED selectedFile
  /\ UNCHANGED <<reviewed, releaseList, listing, fileFilter, releaseFilter, wanted, viewed, hits, hitIndex>>

\* A click on a row, or Enter on the row of the cursor.
ActivateTree(index) == Browses /\ Activate(index)

\* The arrows, Home and End in the tree.
MoveCursor(at) ==
  /\ treeCursor' = at
  /\ UNCHANGED <<reviewed, releaseList, listing, fileFilter, releaseFilter, wanted, collapsed, treeRows,
                 visibleFiles, selectedFile, viewed, treeFocus, hits, hitIndex>>

OnRow == Browses /\ treeFocus /\ treeCursor \in DOMAIN treeRows

TreeUp   == OnRow /\ MoveCursor(IF treeCursor = 1 THEN 1 ELSE treeCursor - 1)
TreeDown == OnRow /\ MoveCursor(IF treeCursor = Len(treeRows) THEN treeCursor ELSE treeCursor + 1)
TreeHome == OnRow /\ MoveCursor(1)
TreeEnd  == OnRow /\ MoveCursor(Len(treeRows))

\* Left closes an open folder, else goes to the folder a row is in; Right opens
\* a closed folder, else goes on.
TreeLeft ==
  /\ OnRow
  /\ LET row   == treeRows[treeCursor]
         above == {i \in 1 .. treeCursor - 1 : treeRows[i].depth < row.depth}
     IN  IF row.file = 0 /\ row.expanded THEN Activate(treeCursor)
         ELSE MoveCursor(IF above = {} THEN treeCursor ELSE CHOOSE i \in above : \A j \in above : j =< i)

TreeRight ==
  /\ OnRow
  /\ LET row == treeRows[treeCursor]
     IN  IF row.file = 0 /\ ~row.expanded THEN Activate(treeCursor)
         ELSE MoveCursor(IF treeCursor = Len(treeRows) THEN treeCursor ELSE treeCursor + 1)

\* Space shows the file of the row and marks it as reviewed or not.
TreeSpace ==
  /\ OnRow /\ treeRows[treeCursor].file # 0
  /\ LET f == treeRows[treeCursor].file
     IN  /\ selectedFile' = f
         /\ viewed' = (viewed \ {f}) \cup ({f} \ viewed)
  /\ UNCHANGED <<reviewed, releaseList, listing, fileFilter, releaseFilter, wanted, collapsed, treeRows,
                 visibleFiles, treeCursor, treeFocus, hits, hitIndex>>

\* step_file: from a file that the filters hide there is no next one.
StepToFile(forward) ==
  /\ Browses
  /\ \E at \in DOMAIN visibleFiles :
       LET next == IF forward THEN at + 1 ELSE at - 1
       IN  /\ visibleFiles[at] = selectedFile /\ next \in DOMAIN visibleFiles
           /\ selectedFile' = visibleFiles[next]
  /\ UNCHANGED <<reviewed, releaseList, listing, fileFilter, releaseFilter, wanted, collapsed, treeRows,
                 visibleFiles, treeCursor, viewed, treeFocus, hits, hitIndex>>

\* Typing into the search field: hits come in the order of the patch.
TypeFind(fs) ==
  /\ Browses /\ fs \subseteq Changed(reviewed)
  /\ hits' = SelectSeq([f \in Changed(reviewed) |-> f], LAMBDA f : f \in fs)
  /\ hitIndex' = Cardinality(fs) + 1
  /\ treeFocus' = FALSE
  /\ UNCHANGED <<reviewed, releaseList, listing, fileFilter, releaseFilter, wanted, collapsed, treeRows,
                 visibleFiles, treeCursor, selectedFile, viewed>>

\* navigate_hit, which shows a file whether it is listed or not.
NavigateHit(forward) ==
  /\ Browses /\ hits # <<>>
  /\ hitIndex' = CASE hitIndex > Len(hits) -> IF forward THEN 1 ELSE Len(hits)
                   [] hitIndex =< Len(hits) /\ forward -> (hitIndex % Len(hits)) + 1
                   [] OTHER                -> ((hitIndex + Len(hits) - 2) % Len(hits)) + 1
  /\ selectedFile' = hits[hitIndex']
  /\ UNCHANGED <<reviewed, releaseList, listing, fileFilter, releaseFilter, wanted, collapsed, treeRows,
                 visibleFiles, treeCursor, viewed, treeFocus, hits>>

\* The answer of load_releases; the tree is left as it is.
ListingAnswers ==
  /\ listing /\ listing' = FALSE
  /\ releaseList' \in Lists \cup {releaseList}
  /\ UNCHANGED <<reviewed, fileFilter, releaseFilter, wanted, collapsed, treeRows, visibleFiles,
                 treeCursor, selectedFile, viewed, treeFocus, hits, hitIndex, browses>>

\* Mutant: the chosen release outlives the list it was chosen from.
RefreshKeepsRelease ==
  /\ Browses
  /\ releaseList' = <<>> /\ listing' = TRUE
  /\ Rebuild(reviewed, <<>>, releaseFilter, fileFilter, collapsed, treeCursor)
  /\ UNCHANGED <<reviewed, fileFilter, releaseFilter, wanted, collapsed, selectedFile, viewed, treeFocus, hits, hitIndex>>

\* A refresh that finds the source unchanged: the list is read again.
RefreshInPlace ==
  /\ Browses
  /\ releaseList' = <<>> /\ listing' = TRUE /\ releaseFilter' = 0
  /\ Rebuild(reviewed, <<>>, 0, fileFilter, collapsed, treeCursor)
  /\ UNCHANGED <<reviewed, fileFilter, wanted, collapsed, selectedFile, viewed, treeFocus, hits, hitIndex>>

\* install of a review, which may be saved with its releases: the text of the
\* filter, the collapsed folders and the cursor stay those of the one before.
InstallReview(r, list) ==
  /\ Browses
  /\ reviewed' = r /\ releaseList' = list /\ listing' = (list = <<>>)
  /\ releaseFilter' = 0 /\ hits' = <<>> /\ viewed' = {}
  /\ Rebuild(r, list, 0, fileFilter, collapsed, treeCursor)
  /\ selectedFile' \in IF Changed(r) = {} THEN {0} ELSE Changed(r)
  /\ UNCHANGED <<fileFilter, wanted, collapsed, treeFocus, hitIndex>>

TreeNext ==
  \/ \E query \in TreeQueries : TypeFilter(query)
  \/ \E index \in 0 .. 2 : FilterRelease(index)
  \/ \E index \in DOMAIN treeRows : ActivateTree(index)
  \/ TreeUp \/ TreeDown \/ TreeHome \/ TreeEnd \/ TreeLeft \/ TreeRight \/ TreeSpace
  \/ \E forward \in BOOLEAN : StepToFile(forward) \/ NavigateHit(forward)
  \/ \E fs \in {{}, {1}, Changed(reviewed)} : TypeFind(fs)
  \/ ListingAnswers \/ RefreshInPlace
  \/ \E r \in DOMAIN TreePaths, list \in Lists \cup {<<>>} : InstallReview(r, list)

TreeSpec == TreeInit /\ [][TreeNext]_treeVars

-----------------------------------------------------------------------------
(* Properties.                                                             *)

\* What the tree should list: the files that fit the filter, of the release
\* the reader chose.
Chosen ==
  {f \in Changed(reviewed) :
     Fits(reviewed, f, fileFilter) /\ (releaseFilter # 0 => PathOf(f) \in wanted)}

\* Folders come before the files beside them, and both in the order of names.
TreeBefore(f, g) ==
  LET p == PathOf(f) q == PathOf(g)
      both == 1 .. IF Len(p) < Len(q) THEN Len(p) ELSE Len(q)
      part == {k \in both : p[k] # q[k] \/ (k = Len(p)) # (k = Len(q))}
      k    == CHOOSE k \in part : \A j \in part : k =< j
  IN  IF part = {} THEN f < g
      ELSE IF (k = Len(p)) # (k = Len(q)) THEN k # Len(p)
      ELSE p[k] < q[k]

\* A folder has a row when it holds several files that are not all in one
\* folder of it.
IsFolder(dir) ==
  LET fs == {f \in Chosen : IsStrictPrefix(dir, PathOf(f))}
  IN  Cardinality(fs) > 1 /\ ~\E f \in fs : LET sub == SubSeq(PathOf(f), 1, Len(dir) + 1)
                                             IN  \A g \in fs : IsStrictPrefix(sub, PathOf(g))

\* The next-file commands go once through every file the filter and the chosen
\* release leave, in the order of the tree; the tree shows those of them that
\* are in no closed folder, and the cursor is on one of its rows. Folders are
\* folded by what is listed and collapsed by the path they are folded to, which
\* the filter, the release and another review change under the same set of
\* collapsed paths, and a release is an index into a list that a refresh reads
\* again.
TreeShowsChosen ==
  LET hidden(f) == fileFilter = 0 /\ \E dir \in collapsed : IsFolder(dir) /\ IsStrictPrefix(dir, PathOf(f))
  IN  /\ Range(visibleFiles) = Chosen
      /\ \A i, j \in DOMAIN visibleFiles : i < j => TreeBefore(visibleFiles[i], visibleFiles[j])
      /\ RowFiles(treeRows) = SelectSeq(visibleFiles, LAMBDA f : ~hidden(f))
      /\ treeRows # <<>> => treeCursor \in DOMAIN treeRows

\* The tree on screen is the tree of what is chosen now: every handler that
\* changes the review, the filter, the release or a folder builds it again, and
\* the answer that leaves it alone cannot change what is chosen.
TreeIsCurrent ==
  /\ treeRows = RowsOf(reviewed, Chosen, collapsed, fileFilter)
  /\ visibleFiles = RowFiles(RowsOf(reviewed, Chosen, {}, fileFilter))

\* A release is chosen from the list that is there, and none while it is read.
ReleaseInv ==
  /\ listing => releaseList = <<>> /\ releaseFilter = 0
  /\ releaseFilter # 0 => releaseFilter \in DOMAIN releaseList /\ wanted = releaseList[releaseFilter]
=============================================================================
