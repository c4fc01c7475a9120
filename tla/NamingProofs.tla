--------------------------- MODULE NamingProofs -----------------------------
(* Proofs about what the user names.                                        *)
(*                                                                          *)
(* Timeline: the commits of a compare are shared out among its releases,    *)
(* for a range, tags and histories of any size.                             *)
(*                                                                          *)
(* Addresses: the source that was named is the one every later parse        *)
(* arrives at, for every form of address and project paths of any depth.    *)
EXTENDS Timeline, Addresses, FiniteSetTheorems, SequenceTheorems, WellFoundedInduction, TLAPS

-----------------------------------------------------------------------------
(* Least and greatest numbers.                                             *)

LEMMA Least ==
  ASSUME NEW S, S \subseteq Nat, S # {}
  PROVE  \E x \in S : \A y \in S : x =< y
<1>1. PICK x \in S : \A y \in S : ~(<<y, x>> \in OpToRel(<, Nat))
  BY NatLessThanWellFounded, WFMin
<1>2. \A y \in S : ~(y < x)
  BY <1>1 DEF OpToRel
<1> QED BY <1>2

LEMMA MinIsLeast ==
  ASSUME NEW S, S \subseteq Nat, S # {}
  PROVE  Min(S) \in S /\ \A y \in S : Min(S) =< y
<1>1. \E x \in S : \A y \in S : x =< y
  BY Least
<1> QED BY <1>1 DEF Min

LEMMA MaxIsGreatest ==
  ASSUME NEW n \in Nat, NEW S, S \subseteq 0 .. n, S # {}
  PROVE  Max(S) \in S /\ \A y \in S : Max(S) >= y
<1> DEFINE D == {n - x : x \in S}
<1>1. D \subseteq Nat /\ D # {}
  OBVIOUS
<1>2. PICK d \in D : \A y \in D : d =< y
  <2> HIDE DEF D
  <2> QED BY <1>1, Least
<1>3. PICK x \in S : d = n - x
  BY <1>2
<1>4. \A y \in S : x >= y
  <2> SUFFICES ASSUME NEW y \in S PROVE x >= y
    OBVIOUS
  <2>1. n - y \in D
    OBVIOUS
  <2>2. n - x =< n - y
    BY <1>2, <1>3, <2>1
  <2> QED BY <2>2
<1>5. \E z \in S : \A y \in S : z >= y
  BY <1>4
<1> QED BY <1>5 DEF Max

\* What holds of 0 and, with a number, of the next one, holds of all up to n.
LEMMA UpTo ==
  ASSUME NEW n \in Nat, NEW S, 0 \in S, \A k \in 0 .. n - 1 : k \in S => k + 1 \in S
  PROVE  0 .. n \subseteq S
<1> DEFINE Bad == {k \in 0 .. n : k \notin S}
<1> SUFFICES ASSUME Bad # {} PROVE FALSE
  OBVIOUS
<1>1. Bad \subseteq Nat
  OBVIOUS
<1>2. PICK k \in Bad : \A y \in Bad : k =< y
  <2> HIDE DEF Bad
  <2> QED BY <1>1, Least
<1>3. k \in 0 .. n /\ k \notin S /\ k # 0
  BY <1>2
<1>4. k - 1 \in 0 .. n - 1 /\ k - 1 \in 0 .. n /\ ~(k =< k - 1)
  BY ONLY <1>3, n \in Nat
<1>5. k - 1 \in S
  BY <1>2, <1>4
<1>6. (k - 1) + 1 \in S
  BY <1>4, <1>5
<1>7. (k - 1) + 1 = k
  BY <1>3
<1> QED BY <1>3, <1>6, <1>7

-----------------------------------------------------------------------------
(* The inductive invariant: the input is as the reader hands it over, and   *)
(* what was returned is what the code computes from it.                     *)
TimelineInv ==
  /\ parent \in [Commits -> 0 .. Tip - 1] /\ \A c \in Commits : parent[c] < c
  /\ Reached[Tip] = Commits
  /\ tagged \in Seq(0 .. Tip) /\ changes \in [1 .. History -> [FileNames -> FileChanges]]
  /\ \A t \in timeline : t = Report

LEMMA ReportStays ==
  ASSUME UNCHANGED rangeVars
  PROVE  Report' = Report /\ Reached' = Reached
<1> USE DEF rangeVars
<1>1. Reached' = Reached
  BY DEF Reached
<1>2. PathTo' = PathTo
  BY DEF PathTo
<1>3. Listed' = Listed
  BY DEF Listed
<1>4. Placed' = Placed
  BY <1>2, <1>3 DEF Placed
<1>5. Folded' = Folded /\ Kept' = Kept
  BY <1>4 DEF Folded, Kept
<1>6. Ends' = Ends
  BY <1>5 DEF Ends
<1>7. Steps' = Steps
  BY <1>3, <1>5, <1>6 DEF Steps, TagAt
<1>8. Members(Steps)' = Members(Steps)
  BY <1>1, <1>7 DEF Members, Before
<1>9. RenamedBy' = RenamedBy
  BY DEF RenamedBy, RenamedIn, Retained
<1>10. \A h : ReleasesByPath(h)' = ReleasesByPath(h)
  BY <1>9 DEF ReleasesByPath, HeadPath, RenamedIn, Retained
<1> QED BY <1>1, <1>5, <1>7, <1>8, <1>10 DEF Report

LEMMA TimelineInvInit ==
  ASSUME TimelineInit
  PROVE  TimelineInv
<1>1. tagged \in Seq(0 .. Tip)
  <2>1. PICK m \in 0 .. MaxTags : tagged \in [1 .. m -> 0 .. Tip]
    BY Zenon DEF TimelineInit, BoundedSeq, SeqOf
  <2>2. m \in Nat
    BY TimelineAssumption
  <2> QED BY <2>1, <2>2, SeqDef
<1>2. changes \in [1 .. History -> [FileNames -> FileChanges]]
  BY DEF TimelineInit, StepLists
<1> QED BY <1>1, <1>2 DEF TimelineInit, TimelineInv

LEMMA TimelineInvStep ==
  ASSUME TimelineInv, [TimelineNext]_timelineVars
  PROVE  TimelineInv'
<1>1. UNCHANGED rangeVars
  BY DEF TimelineNext, PlaceReleases, timelineVars, rangeVars
<1>2. Report' = Report /\ Reached' = Reached
  BY <1>1, ReportStays
<1>3. timeline' = timeline \/ timeline' = {Report}
  BY DEF TimelineNext, PlaceReleases, timelineVars
<1> QED BY <1>1, <1>2, <1>3 DEF TimelineInv, rangeVars

-----------------------------------------------------------------------------
(* The path.                                                               *)

\* The recursive definition of the path has a solution, so it may be unfolded.
LEMMA PathUnfolds ==
  ASSUME TimelineInv
  PROVE  PathTo = [c \in 0 .. Tip |-> IF c = 0 THEN {} ELSE {c} \cup PathTo[parent[c]]]
<1> DEFINE Body(g, c) == IF c = 0 THEN {} ELSE {c} \cup g[parent[c]]
           Ok(g, n) == \A c \in 0 .. n : g[c] = Body(g, c)
           Good == {n \in 0 .. Tip : \E g : Ok(g, n)}
<1>0. Tip \in Nat /\ \A c \in 1 .. Tip : parent[c] \in 0 .. Tip /\ parent[c] < c
  BY TimelineAssumption DEF TimelineInv, Commits
<1>1. 0 \in Good
  <2>1. Ok([c \in {0} |-> {}], 0)
    OBVIOUS
  <2>2. 0 \in 0 .. Tip
    BY <1>0
  <2> HIDE DEF Ok
  <2>3. \E g : Ok(g, 0)
    BY <2>1
  <2> QED BY <2>2, <2>3
<1>2. ASSUME NEW n \in 0 .. Tip - 1, n \in Good
      PROVE  n + 1 \in Good
  <2>1. PICK g : Ok(g, n)
    BY <1>2
  <2> DEFINE h == [c \in 0 .. n + 1 |-> IF c =< n THEN g[c] ELSE Body(g, c)]
  <2>2. ASSUME NEW c \in 0 .. n + 1
        PROVE  h[c] = Body(h, c)
    <3>1. c # 0 => parent[c] \in 0 .. n /\ parent[c] \in 0 .. n + 1 /\ parent[c] =< n
      BY <1>0
    <3>2. c # 0 => h[parent[c]] = g[parent[c]]
      BY <3>1
    <3>3. Body(h, c) = Body(g, c)
      BY <3>2
    <3>4. h[c] = Body(g, c)
      <4>1. CASE c =< n
        <5>1. c \in 0 .. n /\ h[c] = g[c]
          BY <4>1
        <5> QED BY <2>1, <5>1
      <4>2. CASE ~(c =< n)
        BY <4>2
      <4> QED BY <4>1, <4>2
    <3> QED BY <3>3, <3>4
  <2> HIDE DEF h
  <2>3. Ok(h, n + 1)
    BY <2>2
  <2>4. n + 1 \in 0 .. Tip
    BY <1>0
  <2> QED BY <2>3, <2>4
<1>3. Tip \in Good
  <2> HIDE DEF Good
  <2>1. 0 .. Tip \subseteq Good
    BY <1>0, <1>1, <1>2, UpTo
  <2> QED BY <1>0, <2>1
<1>4. PICK g : Ok(g, Tip)
  BY <1>3
<1> DEFINE f == [c \in 0 .. Tip |-> g[c]]
<1>5. ASSUME NEW c \in 0 .. Tip
      PROVE  Body(f, c) = Body(g, c)
  <2>1. c # 0 => c \in 1 .. Tip
    BY <1>0
  <2>2. c # 0 => f[parent[c]] = g[parent[c]]
    BY <1>0, <2>1
  <2> QED BY <2>2
<1>6. f = [c \in 0 .. Tip |-> IF c = 0 THEN {} ELSE {c} \cup f[parent[c]]]
  BY <1>4, <1>5
<1>7. \E e : e = [c \in 0 .. Tip |-> IF c = 0 THEN {} ELSE {c} \cup e[parent[c]]]
  <2> HIDE DEF f
  <2> QED BY <1>6
<1> QED BY <1>7 DEF PathTo

\* A path ends at its commit and stays within the range.
LEMMA PathInRange ==
  ASSUME TimelineInv
  PROVE  PathTo[Tip] \subseteq Commits /\ Tip \in PathTo[Tip]
<1>0. Tip \in Nat \ {0} /\ \A c \in 1 .. Tip : parent[c] \in 0 .. Tip /\ parent[c] < c
  BY TimelineAssumption DEF TimelineInv, Commits
<1>1. \A c \in 0 .. Tip : PathTo[c] = IF c = 0 THEN {} ELSE {c} \cup PathTo[parent[c]]
  BY PathUnfolds
<1> DEFINE Good == {n \in 0 .. Tip : \A c \in 0 .. n : PathTo[c] \subseteq Commits}
<1>2. 0 \in Good
  <2>1. 0 \in 0 .. Tip /\ \A c \in 0 .. 0 : c = 0
    BY <1>0
  <2>2. PathTo[0] = {}
    BY <1>1, <2>1
  <2> QED BY <2>1, <2>2
<1>3. ASSUME NEW n \in 0 .. Tip - 1, n \in Good
      PROVE  n + 1 \in Good
  <2>1. n + 1 \in 1 .. Tip /\ n + 1 \in 0 .. Tip /\ n + 1 # 0 /\ parent[n + 1] \in 0 .. n
    BY <1>0
  <2>2. PathTo[n + 1] = {n + 1} \cup PathTo[parent[n + 1]]
    BY <1>1, <2>1, Zenon
  <2>3. PathTo[n + 1] \subseteq Commits
    BY <1>3, <2>1, <2>2 DEF Commits
  <2>4. \A c \in 0 .. n + 1 : c \in 0 .. n \/ c = n + 1
    OBVIOUS
  <2> QED BY <1>3, <2>1, <2>3, <2>4
<1>4. 0 .. Tip \subseteq Good
  <2> HIDE DEF Good
  <2> QED BY <1>0, <1>2, <1>3, UpTo
<1>5. Tip \in 0 .. Tip /\ PathTo[Tip] \subseteq Commits
  BY <1>0, <1>4
<1> QED BY <1>0, <1>1, <1>5

-----------------------------------------------------------------------------
(* Steps and members.                                                      *)

\* The steps of a timeline end at commits of the path, the last at the head.
LEMMA EndsOnPath ==
  ASSUME TimelineInv
  PROVE  /\ Ends \subseteq PathTo[Tip] /\ Ends \subseteq Commits /\ Kept \subseteq Ends
         /\ Ends # {} => Tip \in Ends
  BY PathInRange DEF Ends, Kept, Placed

\* Steps join up.
LEMMA StepsJoin ==
  ASSUME TimelineInv, NEW e \in Ends
  PROVE  JoinsUp(Steps, e)
<1> DEFINE S == {0} \cup {d \in Ends : d < e}
<1>1. Tip \in Nat /\ Ends \subseteq 1 .. Tip
  BY TimelineAssumption, EndsOnPath DEF Commits
<1>2. S \subseteq 0 .. Tip /\ S # {}
  <2>1. 0 \in 0 .. Tip /\ 1 .. Tip \subseteq 0 .. Tip
    BY <1>1
  <2> QED BY <1>1, <2>1
<1>3. Max(S) \in S /\ \A y \in S : Max(S) >= y
  <2> HIDE DEF S
  <2> QED BY <1>1, <1>2, MaxIsGreatest
<1>4. DOMAIN Steps = Ends /\ Steps[e].from = Max(S)
  BY DEF Steps
<1>5. Max(S) \in {0} \cup Ends /\ Max(S) < e
  BY <1>1, <1>3
<1>6. ASSUME NEW d \in Ends, Max(S) < d, d < e
      PROVE  FALSE
  <2>1. d \in S
    BY <1>6
  <2>2. Max(S) >= d /\ Max(S) \in Nat /\ d \in Nat
    BY <1>1, <1>2, <1>3, <2>1
  <2> HIDE DEF S
  <2> QED BY <1>6, <2>2
<1> HIDE DEF S
<1> QED BY <1>4, <1>5, <1>6 DEF JoinsUp

\* A commit belongs to the first step that reaches it and to no other.
LEMMA OneMember ==
  ASSUME TimelineInv, NEW c, NEW d \in Ends, c \in Reached[d]
  PROVE  {e \in Ends : c \in Members(Steps)[e]} = {FirstWith(Steps, c)}
<1> DEFINE With == {e \in Ends : c \in Reached[e]}
           first == Min(With)
<1>1. With \subseteq Nat /\ With # {} /\ With \subseteq Ends /\ Ends \subseteq Nat
  BY TimelineAssumption, EndsOnPath DEF Commits
<1>2. first \in With /\ \A y \in With : first =< y
  <2> HIDE DEF With
  <2> QED BY <1>1, MinIsLeast
<1>3. DOMAIN Steps = Ends
  BY DEF Steps
<1>4. FirstWith(Steps, c) = first
  BY <1>3 DEF FirstWith
<1>5. \A e \in Ends : c \in Members(Steps)[e] <=> e \in With /\ \A y \in With : ~(y < e)
  <2> SUFFICES ASSUME NEW e \in Ends
               PROVE  c \in Members(Steps)[e] <=> e \in With /\ \A y \in With : ~(y < e)
    OBVIOUS
  <2>1. Members(Steps)[e] = Reached[e] \ UNION {Reached[y] : y \in Before(Steps, e)}
    BY <1>3 DEF Members
  <2>2. Before(Steps, e) = {y \in Ends : y < e}
    BY <1>3 DEF Before
  <2> QED BY <2>1, <2>2
<1> HIDE DEF With, first
<1>6. \A e \in Ends : c \in Members(Steps)[e] <=> e = first
  <2>1. \A e \in With : e \in Nat /\ first \in Nat /\ first =< e
    BY <1>1, <1>2
  <2>2. \A e \in With : (\A y \in With : ~(y < e)) <=> e = first
    BY <1>2, <2>1
  <2> QED BY <1>1, <1>2, <1>5, <2>2
<1> QED BY <1>1, <1>2, <1>4, <1>6

\* Every commit of the range is attributed to the first step that has it.
LEMMA SharedOut ==
  ASSUME TimelineInv, Ends # {}, NEW c \in Commits
  PROVE  Attribute(Members(Steps), c) = FirstWith(Steps, c)
<1>1. Tip \in Ends /\ c \in Reached[Tip]
  BY EndsOnPath DEF TimelineInv
<1>2. {e \in Ends : c \in Members(Steps)[e]} = {FirstWith(Steps, c)}
  BY <1>1, OneMember
<1>3. DOMAIN Members(Steps) = Ends
  BY DEF Members, Steps
<1>4. FirstWith(Steps, c) \in Ends
  BY <1>2
<1>5. Max({FirstWith(Steps, c)}) = FirstWith(Steps, c)
  <2>1. {FirstWith(Steps, c)} \subseteq 0 .. Tip /\ Tip \in Nat
    BY <1>4, EndsOnPath, TimelineAssumption DEF Commits
  <2> QED BY <2>1, MaxIsGreatest
<1> QED BY <1>2, <1>3, <1>5 DEF Attribute

\* No commit is in two steps.
LEMMA NotShared ==
  ASSUME TimelineInv, NEW d \in Ends, NEW e \in Ends, d # e
  PROVE  Members(Steps)[d] \cap Members(Steps)[e] = {}
<1> SUFFICES ASSUME NEW c \in Members(Steps)[d], c \in Members(Steps)[e]
             PROVE  FALSE
  OBVIOUS
<1>1. c \in Reached[d]
  BY DEF Members, Steps
<1>2. {x \in Ends : c \in Members(Steps)[x]} = {FirstWith(Steps, c)}
  BY <1>1, OneMember
<1> QED BY <1>2

-----------------------------------------------------------------------------
(* Tags that are kept and tags that are folded.                            *)

\* The placed tags from a commit on.
PlacedFrom(c) == {d \in Placed : d >= c}

LEMMA FromIsFinite ==
  ASSUME TimelineInv, NEW c
  PROVE  /\ Placed \subseteq Nat /\ IsFiniteSet(PlacedFrom(c)) /\ Cardinality(PlacedFrom(c)) \in Nat
         /\ \A S : S \subseteq PlacedFrom(c) => Cardinality(S) =< Cardinality(PlacedFrom(c)) /\ Cardinality(S) \in Nat
<1>1. Placed \subseteq 1 .. Tip /\ Tip \in Nat
  BY PathInRange, TimelineAssumption DEF Placed, Commits
<1>2. IsFiniteSet(1 .. Tip) /\ PlacedFrom(c) \subseteq 1 .. Tip
  <2>1. 1 \in Int /\ Tip \in Int
    BY <1>1
  <2>2. IsFiniteSet(1 .. Tip)
    BY <2>1, FS_Interval
  <2>3. PlacedFrom(c) \subseteq 1 .. Tip
    BY <1>1 DEF PlacedFrom
  <2> QED BY <2>2, <2>3
<1>3. IsFiniteSet(PlacedFrom(c))
  BY <1>2, FS_Subset
<1>4. Cardinality(PlacedFrom(c)) \in Nat
  BY <1>3, FS_CardinalityType
<1>5. ASSUME NEW S, S \subseteq PlacedFrom(c)
      PROVE  Cardinality(S) =< Cardinality(PlacedFrom(c)) /\ Cardinality(S) \in Nat
  BY <1>3, <1>5, FS_Subset, FS_CardinalityType
<1> QED BY <1>1, <1>3, <1>4, <1>5

\* At most MaxReleases tags are kept.
LEMMA KeptAreFew ==
  ASSUME TimelineInv, NEW S, S \subseteq Kept
  PROVE  Cardinality(S) =< MaxReleases
<1>1. MaxReleases \in Nat
  BY TimelineAssumption
<1>2. CASE Kept = {}
  <2>1. S = {}
    BY <1>2
  <2> QED BY <1>1, <2>1, FS_EmptySet
<1>3. CASE Kept # {}
  <2>1. Kept \subseteq Placed /\ Kept \subseteq Nat
    BY FromIsFinite DEF Kept
  <2>2. PICK m \in Kept : \A y \in Kept : m =< y
    BY <1>3, <2>1, Least
  <2>3. \A y \in Kept : y >= m
    BY <2>1, <2>2
  <2>4. S \subseteq PlacedFrom(m)
    BY <2>1, <2>3 DEF PlacedFrom
  <2>5. ~(Cardinality(PlacedFrom(m)) > MaxReleases)
    BY <2>2 DEF Kept, Folded, PlacedFrom
  <2>6. Cardinality(S) =< Cardinality(PlacedFrom(m)) /\ Cardinality(S) \in Nat /\ Cardinality(PlacedFrom(m)) \in Nat
    BY <2>4, FromIsFinite
  <2> QED BY ONLY <1>1, <2>5, <2>6
<1> QED BY <1>2, <1>3

\* The folded tags are older than every step's end.
LEMMA FoldedAreOlder ==
  ASSUME TimelineInv, NEW d \in Folded, NEW e \in Ends
  PROVE  d < e
<1>1. MaxReleases \in Nat \ {0} /\ Tip \in Nat /\ Placed \subseteq 1 .. Tip
  BY TimelineAssumption, PathInRange DEF Placed, Commits
<1>2. d \in Placed /\ Cardinality(PlacedFrom(d)) > MaxReleases /\ d \in 1 .. Tip
  BY <1>1 DEF Folded, PlacedFrom
<1>3. e \in 1 .. Tip
  BY EndsOnPath DEF Commits
<1>4. CASE e \in Kept
  <2> SUFFICES ASSUME e =< d PROVE FALSE
    BY <1>2, <1>3
  <2>1. PlacedFrom(d) \subseteq PlacedFrom(e)
    <3>1. \A x \in 1 .. Tip : x >= d => x >= e
      BY <1>1, <1>2, <1>3
    <3> QED BY <1>1, <3>1 DEF PlacedFrom
  <2>2. ~(Cardinality(PlacedFrom(e)) > MaxReleases)
    BY <1>4 DEF Kept, Folded, PlacedFrom
  <2>3. /\ Cardinality(PlacedFrom(d)) =< Cardinality(PlacedFrom(e))
        /\ Cardinality(PlacedFrom(d)) \in Nat /\ Cardinality(PlacedFrom(e)) \in Nat
    BY <2>1, FromIsFinite
  <2> QED BY ONLY <1>1, <1>2, <2>2, <2>3
<1>5. CASE e = Tip
  <2> SUFFICES ASSUME ~(d < e) PROVE FALSE
    OBVIOUS
  <2>0. d = Tip /\ \A x \in 1 .. Tip : x >= d <=> x = Tip
    BY <1>1, <1>2, <1>5
  <2>1. PlacedFrom(d) = {Tip}
    BY <1>1, <1>2, <2>0 DEF PlacedFrom
  <2>2. Cardinality(PlacedFrom(d)) = 1
    BY <2>1, FS_Singleton
  <2> QED BY <1>1, <1>2, <2>2
<1> QED BY <1>4, <1>5 DEF Ends

\* A tag on the path is shown, folded, or the listing was cut.
LEMMA TagIsPlaced ==
  ASSUME TimelineInv, NEW k \in DOMAIN tagged, tagged[k] \in PathTo[Tip]
  PROVE  tagged[k] \in Ends \cup Folded \/ Len(tagged) >= TagLimit
<1>1. tagged \in Seq(0 .. Tip) /\ TagLimit \in Nat
  BY TimelineAssumption DEF TimelineInv
<1>2. CASE Len(tagged) < TagLimit
  <2>1. k \in Listed
    BY <1>1, <1>2 DEF Listed
  <2>2. tagged[k] \in Placed
    BY <2>1 DEF Placed
  <2> QED BY <2>2, EndsOnPath DEF Kept
<1>3. CASE ~(Len(tagged) < TagLimit)
  BY <1>1, <1>3
<1> QED BY <1>2, <1>3

-----------------------------------------------------------------------------
(* Names at the head.                                                      *)

\* Maps from names to names.
NameMaps == [FileNames -> FileNames]

\* What file n of step i does to the map.
Noted(i, n, m) ==
  IF Retained(i, n) /\ changes[i][n].from # 0
  THEN [m EXCEPT ![changes[i][n].from] = m[n]] ELSE m

\* Only a file that was moved has a path it was moved from.
LEMMA ChangeType ==
  ASSUME TimelineInv, NEW i \in 1 .. History, NEW n \in FileNames
  PROVE  /\ changes[i][n].from # 0 => changes[i][n].from \in FileNames /\ changes[i][n].kind = "move"
         /\ changes[i][n].kind = "move" => changes[i][n].from # 0
<1>1. changes[i][n] \in FileChanges
  BY DEF TimelineInv
<1>2. 0 \notin FileNames
  BY TimelineAssumption DEF FileNames
<1> QED BY <1>1, <1>2 DEF FileChanges

\* A function that is given at 0 and, at each number, from the number before.
Iterates(r, a, F, N) == r[0] = a /\ \A k \in 1 .. N : r[k] = F[k][r[k - 1]]

LEMMA RecursionExists ==
  ASSUME NEW N \in Nat, NEW D, NEW a \in D, NEW F \in [1 .. N -> [D -> D]]
  PROVE  \E r \in [0 .. N -> D] : Iterates(r, a, F, N)
<1> DEFINE Ok(r, n) == r[0] = a /\ \A k \in 1 .. n : r[k] = F[k][r[k - 1]]
           Good == {n \in 0 .. N : \E r \in [0 .. n -> D] : Ok(r, n)}
<1>1. 0 \in Good
  <2>1. [x \in 0 .. 0 |-> a] \in [0 .. 0 -> D] /\ Ok([x \in 0 .. 0 |-> a], 0)
    OBVIOUS
  <2>2. 0 \in 0 .. N
    OBVIOUS
  <2> HIDE DEF Ok
  <2> QED BY <2>1, <2>2
<1>2. ASSUME NEW n \in 0 .. N - 1, n \in Good
      PROVE  n + 1 \in Good
  <2>1. PICK r \in [0 .. n -> D] : Ok(r, n)
    BY <1>2
  <2> DEFINE q == [x \in 0 .. n + 1 |-> IF x = n + 1 THEN F[n + 1][r[n]] ELSE r[x]]
  <2>2. n + 1 \in 1 .. N /\ n \in 0 .. n /\ F[n + 1] \in [D -> D] /\ r[n] \in D
    OBVIOUS
  <2>3. \A x \in 0 .. n + 1 : x = n + 1 \/ x \in 0 .. n
    OBVIOUS
  <2>4. q \in [0 .. n + 1 -> D]
    BY <2>2, <2>3
  <2>5. ASSUME NEW k \in 1 .. n + 1
        PROVE  q[k] = F[k][q[k - 1]]
    <3>1. k - 1 \in 0 .. n /\ k - 1 # n + 1 /\ k - 1 \in 0 .. n + 1 /\ k \in 0 .. n + 1
      BY <2>5
    <3>2. q[k - 1] = r[k - 1]
      BY <3>1
    <3>3. CASE k = n + 1
      BY <3>2, <3>3
    <3>4. CASE k # n + 1
      <4>1. k \in 1 .. n
        BY <3>4
      <4> QED BY <2>1, <3>1, <3>2, <3>4, <4>1
    <3> QED BY <3>3, <3>4
  <2>6. q[0] = a
    <3>1. 0 \in 0 .. n + 1 /\ 0 # n + 1
      OBVIOUS
    <3> QED BY <2>1, <3>1
  <2>7. Ok(q, n + 1)
    BY <2>5, <2>6
  <2> HIDE DEF q, Ok
  <2> QED BY <2>2, <2>4, <2>7
<1>3. N \in Good
  <2> HIDE DEF Good
  <2>1. 0 .. N \subseteq Good
    BY <1>1, <1>2, UpTo
  <2> QED BY <2>1
<1> QED BY <1>3 DEF Iterates

LEMMA NotedType ==
  ASSUME TimelineInv, NEW i \in 1 .. History, NEW n \in FileNames, NEW m \in NameMaps
  PROVE  Noted(i, n, m) \in NameMaps
BY ChangeType DEF Noted, NameMaps

\* releases_by_path goes through the files of a step one by one.
LEMMA InStep ==
  ASSUME TimelineInv, NEW i \in 1 .. History, NEW m \in NameMaps
  PROVE  /\ RenamedIn(i, m) \in [0 .. MaxNames -> NameMaps] /\ RenamedIn(i, m)[0] = m
         /\ \A n \in 1 .. MaxNames : RenamedIn(i, m)[n] = Noted(i, n, RenamedIn(i, m)[n - 1])
<1>0. MaxNames \in Nat /\ FileNames = 1 .. MaxNames
  BY TimelineAssumption DEF FileNames
<1> DEFINE F == [n \in 1 .. MaxNames |-> [x \in NameMaps |-> Noted(i, n, x)]]
           Body(g, n) == IF n = 0 THEN m
                         ELSE IF Retained(i, n) /\ changes[i][n].from # 0
                              THEN [g[n - 1] EXCEPT ![changes[i][n].from] = g[n - 1][n]]
                              ELSE g[n - 1]
           u == RenamedIn(i, m)
<1>1. F \in [1 .. MaxNames -> [NameMaps -> NameMaps]]
  BY <1>0, NotedType
<1>2. PICK r \in [0 .. MaxNames -> NameMaps] : Iterates(r, m, F, MaxNames)
  <2> HIDE DEF F
  <2> QED BY <1>0, <1>1, RecursionExists, Zenon
<1>3. ASSUME NEW n \in 0 .. MaxNames
      PROVE  r[n] = Body(r, n)
  <2>1. CASE n = 0
    BY <1>2, <2>1 DEF Iterates
  <2>2. CASE n # 0
    <3>1. n \in 1 .. MaxNames /\ n - 1 \in 0 .. MaxNames
      BY <1>0, <2>2
    <3>2. r[n] = Noted(i, n, r[n - 1])
      BY <1>2, <3>1 DEF Iterates
    <3> QED BY <2>2, <3>2 DEF Noted
  <2> QED BY <2>1, <2>2
<1> HIDE DEF F
<1>4. r = [n \in 0 .. MaxNames |-> Body(r, n)]
  <2> HIDE DEF Body
  <2> QED BY <1>3
<1>5. u = CHOOSE g : g = [n \in 0 .. MaxNames |-> Body(g, n)]
  BY DEF RenamedIn
<1>6. u = [n \in 0 .. MaxNames |-> Body(u, n)]
  <2> HIDE DEF Body, u
  <2> QED BY <1>4, <1>5
<1>7. \A n \in 0 .. MaxNames : u[n] = Body(u, n)
  <2> HIDE DEF Body, u
  <2> QED BY <1>6
<1>8. u[0] = m
  <2>1. 0 \in 0 .. MaxNames
    BY <1>0
  <2> HIDE DEF u
  <2> QED BY <1>7, <2>1
<1>9. \A n \in 1 .. MaxNames : u[n] = Noted(i, n, u[n - 1])
  <2> HIDE DEF u
  <2>1. \A n \in 1 .. MaxNames : n # 0 /\ n \in 0 .. MaxNames
    BY <1>0
  <2> QED BY <1>7, <2>1 DEF Noted
<1> DEFINE Good == {n \in 0 .. MaxNames : u[n] \in NameMaps}
<1> HIDE DEF u, Body
<1>10. 0 \in Good
  BY <1>0, <1>8
<1>11. ASSUME NEW n \in 0 .. MaxNames - 1, n \in Good
       PROVE  n + 1 \in Good
  <2>1. n + 1 \in 1 .. MaxNames /\ n + 1 \in 0 .. MaxNames /\ (n + 1) - 1 = n
    BY <1>0
  <2>2. u[n + 1] = Noted(i, n + 1, u[n])
    BY <1>9, <2>1
  <2> QED BY <1>0, <1>11, <2>1, <2>2, NotedType
<1>12. \A n \in 0 .. MaxNames : u[n] \in NameMaps
  <2>1. 0 .. MaxNames \subseteq Good
    <3> HIDE DEF Good
    <3> QED BY <1>0, <1>10, <1>11, UpTo
  <2> QED BY <2>1
<1>13. u \in [0 .. MaxNames -> NameMaps]
  <2>1. DOMAIN u = 0 .. MaxNames /\ u = [n \in 0 .. MaxNames |-> u[n]]
    BY <1>6
  <2> QED BY <1>12, <2>1
<1> QED BY <1>8, <1>9, <1>13 DEF u

\* And through the steps, the newest first.
LEMMA OverSteps ==
  ASSUME TimelineInv
  PROVE  /\ RenamedBy \in [0 .. History -> NameMaps] /\ RenamedBy[0] = [n \in FileNames |-> n]
         /\ \A k \in 1 .. History :
              RenamedBy[k] = RenamedIn(History + 1 - k, RenamedBy[k - 1])[MaxNames]
<1>0. History \in Nat /\ MaxNames \in 0 .. MaxNames /\ \A k \in 1 .. History : History + 1 - k \in 1 .. History
  BY TimelineAssumption
<1> DEFINE Id == [n \in FileNames |-> n]
           F == [k \in 1 .. History |-> [x \in NameMaps |-> RenamedIn(History + 1 - k, x)[MaxNames]]]
           Body(g, k) == IF k = 0 THEN Id ELSE RenamedIn(History + 1 - k, g[k - 1])[MaxNames]
<1>1. ASSUME NEW k \in 1 .. History, NEW x \in NameMaps
      PROVE  RenamedIn(History + 1 - k, x)[MaxNames] \in NameMaps
  <2>1. RenamedIn(History + 1 - k, x) \in [0 .. MaxNames -> NameMaps]
    BY <1>0, InStep
  <2> QED BY <1>0, <2>1
<1>2. F \in [1 .. History -> [NameMaps -> NameMaps]] /\ Id \in NameMaps
  BY <1>1 DEF NameMaps
<1>3. PICK r \in [0 .. History -> NameMaps] : Iterates(r, Id, F, History)
  <2> HIDE DEF F, Id
  <2> QED BY <1>0, <1>2, RecursionExists, Zenon
<1>4. ASSUME NEW k \in 0 .. History
      PROVE  r[k] = Body(r, k)
  <2>1. CASE k = 0
    BY <1>3, <2>1 DEF Iterates
  <2>2. CASE k # 0
    <3>1. k \in 1 .. History /\ k - 1 \in 0 .. History
      BY <1>0, <2>2
    <3> QED BY <1>3, <2>2, <3>1 DEF Iterates
  <2> QED BY <2>1, <2>2
<1> HIDE DEF F
<1>5. r = [k \in 0 .. History |-> Body(r, k)]
  <2> HIDE DEF Body
  <2> QED BY <1>4
<1>6. RenamedBy = [k \in 0 .. History |-> Body(RenamedBy, k)]
  <2>1. \E g : g = [k \in 0 .. History |-> Body(g, k)]
    BY <1>5
  <2> QED BY <2>1 DEF RenamedBy
<1>7. \A k \in 0 .. History : RenamedBy[k] = Body(RenamedBy, k)
  <2> HIDE DEF Body
  <2> QED BY <1>6
<1>8. RenamedBy[0] = Id /\ \A k \in 1 .. History : RenamedBy[k] = RenamedIn(History + 1 - k, RenamedBy[k - 1])[MaxNames]
  <2>1. 0 \in 0 .. History /\ \A k \in 1 .. History : k # 0 /\ k \in 0 .. History
    BY <1>0
  <2> QED BY <1>7, <2>1
<1> DEFINE Good == {k \in 0 .. History : RenamedBy[k] \in NameMaps}
<1>9. 0 \in Good
  BY <1>0, <1>2, <1>8
<1>10. ASSUME NEW k \in 0 .. History - 1, k \in Good
       PROVE  k + 1 \in Good
  <2>1. k + 1 \in 1 .. History /\ k + 1 \in 0 .. History /\ (k + 1) - 1 = k
    BY <1>0
  <2>2. RenamedBy[k + 1] = RenamedIn(History + 1 - (k + 1), RenamedBy[k])[MaxNames]
    BY <1>8, <2>1
  <2> QED BY <1>1, <1>10, <2>1, <2>2
<1>11. \A k \in 0 .. History : RenamedBy[k] \in NameMaps
  <2>1. 0 .. History \subseteq Good
    <3> HIDE DEF Good
    <3> QED BY <1>0, <1>9, <1>10, UpTo
  <2> QED BY <2>1
<1>12. RenamedBy \in [0 .. History -> NameMaps]
  <2> HIDE DEF Body
  <2>1. DOMAIN RenamedBy = 0 .. History /\ RenamedBy = [k \in 0 .. History |-> RenamedBy[k]]
    BY <1>6
  <2> QED BY <1>11, <2>1
<1> QED BY <1>8, <1>12

\* What a map says of a path, as far as the steps it has seen allow: h is its
\* own head name unless it was left, and no other name leads to it unless
\* something was moved there.
Fair(m, h, left, came) ==
  /\ ~left => m[h] = h
  /\ ~came => \A n \in FileNames : m[n] = h => n = h

\* A file of a step keeps that.
LEMMA NotedIsFair ==
  ASSUME TimelineInv, NEW i \in 1 .. History, NEW n \in FileNames, NEW m \in NameMaps,
         NEW h \in FileNames, NEW left \in BOOLEAN, NEW came \in BOOLEAN, Fair(m, h, left, came),
         ~left => changes[i][n].from # h, ~came => changes[i][h].kind # "move"
  PROVE  Fair(Noted(i, n, m), h, left, came)
<1>1. CASE ~(Retained(i, n) /\ changes[i][n].from # 0)
  BY <1>1 DEF Noted
<1>2. CASE Retained(i, n) /\ changes[i][n].from # 0
  <2> DEFINE p == changes[i][n].from
  <2>1. p \in FileNames /\ changes[i][n].kind = "move"
    BY <1>2, ChangeType
  <2>2. Noted(i, n, m) = [m EXCEPT ![p] = m[n]]
    BY <1>2 DEF Noted
  <2> HIDE DEF p
  <2>3. \A x \in FileNames : Noted(i, n, m)[x] = IF x = p THEN m[n] ELSE m[x]
    BY <2>1, <2>2 DEF NameMaps
  <2>4. ~left => Noted(i, n, m)[h] = h
    BY <2>3 DEF Fair, p
  <2>5. ASSUME ~came, NEW x \in FileNames, Noted(i, n, m)[x] = h
        PROVE  x = h
    <3>1. m[n] # h
      BY <2>1, <2>5 DEF Fair
    <3> QED BY <2>3, <2>5, <3>1 DEF Fair
  <2> QED BY <2>4, <2>5 DEF Fair
<1> QED BY <1>1, <1>2

\* So does a step,
LEMMA StepIsFair ==
  ASSUME TimelineInv, NEW i \in 1 .. History, NEW m \in NameMaps,
         NEW h \in FileNames, NEW left \in BOOLEAN, NEW came \in BOOLEAN, Fair(m, h, left, came),
         ~left => \A n \in FileNames : changes[i][n].from # h, ~came => changes[i][h].kind # "move"
  PROVE  \A n \in 0 .. MaxNames : Fair(RenamedIn(i, m)[n], h, left, came)
<1> DEFINE u == RenamedIn(i, m)
           Good == {n \in 0 .. MaxNames : Fair(u[n], h, left, came)}
<1>0. MaxNames \in Nat /\ FileNames = 1 .. MaxNames
  BY TimelineAssumption DEF FileNames
<1>1. /\ u \in [0 .. MaxNames -> NameMaps] /\ u[0] = m
      /\ \A n \in 1 .. MaxNames : u[n] = Noted(i, n, u[n - 1])
  BY InStep
<1> HIDE DEF u
<1>2. 0 \in Good
  BY <1>0, <1>1
<1>3. ASSUME NEW n \in 0 .. MaxNames - 1, n \in Good
      PROVE  n + 1 \in Good
  <2>1. n + 1 \in FileNames /\ n + 1 \in 0 .. MaxNames /\ n \in 0 .. MaxNames /\ (n + 1) - 1 = n
    BY <1>0
  <2>2. u[n + 1] = Noted(i, n + 1, u[n]) /\ u[n] \in NameMaps
    BY <1>0, <1>1, <2>1
  <2>3. Fair(Noted(i, n + 1, u[n]), h, left, came)
    BY <1>3, <2>1, <2>2, NotedIsFair
  <2> QED BY <2>1, <2>2, <2>3
<1>4. 0 .. MaxNames \subseteq Good
  <2> HIDE DEF Good
  <2> QED BY <1>0, <1>2, <1>3, UpTo
<1> QED BY <1>4 DEF u

\* and so do all the steps from i on.
LEMMA LaterIsFair ==
  ASSUME TimelineInv, NEW i \in 1 .. History, NEW h \in FileNames
  PROVE  \A n \in 0 .. MaxNames :
           Fair(RenamedIn(i, RenamedBy[History - i])[n], h, LeavesFrom(i, h), ArrivesFrom(i, h))
<1> DEFINE left == LeavesFrom(i, h)
           came == ArrivesFrom(i, h)
           Good == {k \in 0 .. History - i : Fair(RenamedBy[k], h, left, came)}
<1>0. History \in Nat /\ MaxNames \in 0 .. MaxNames /\ History - i \in Nat
  BY TimelineAssumption
<1>1. /\ left \in BOOLEAN /\ came \in BOOLEAN
      /\ ~left => \A j \in i .. History, n \in FileNames : changes[j][n].from # h
      /\ ~came => \A j \in i .. History : changes[j][h].kind # "move"
  BY DEF LeavesFrom, ArrivesFrom
<1> HIDE DEF left, came
<1>2. 0 \in Good
  <2>1. RenamedBy[0] = [n \in FileNames |-> n]
    BY OverSteps
  <2> QED BY <1>0, <2>1 DEF Fair
<1>3. ASSUME NEW k \in 0 .. (History - i) - 1, k \in Good
      PROVE  k + 1 \in Good
  <2> DEFINE j == History + 1 - (k + 1)
  <2>1. /\ j \in 1 .. History /\ j \in i .. History /\ k + 1 \in 1 .. History
        /\ k + 1 \in 0 .. History - i /\ k \in 0 .. History /\ (k + 1) - 1 = k
    BY <1>0
  <2>2. RenamedBy[k + 1] = RenamedIn(j, RenamedBy[k])[MaxNames] /\ RenamedBy[k] \in NameMaps
    BY <2>1, OverSteps
  <2> HIDE DEF j
  <2>3. \A n \in 0 .. MaxNames : Fair(RenamedIn(j, RenamedBy[k])[n], h, left, came)
    BY <1>1, <1>3, <2>1, <2>2, StepIsFair
  <2> QED BY <1>0, <2>1, <2>2, <2>3
<1>4. 0 .. History - i \subseteq Good
  <2> HIDE DEF Good
  <2> QED BY <1>0, <1>2, <1>3, UpTo
<1>5. Fair(RenamedBy[History - i], h, left, came) /\ History - i \in 0 .. History
  BY <1>0, <1>4
<1>6. RenamedBy[History - i] \in NameMaps /\ i \in i .. History
  BY <1>0, <1>5, OverSteps
<1> QED BY <1>1, <1>5, <1>6, StepIsFair DEF left, came

\* Renames of other files do not lose or add a step.
LEMMA FoundUnderPath ==
  ASSUME TimelineInv, NEW i \in 1 .. History, NEW h \in FileNames
  PROVE  /\ Retained(i, h) /\ ~LeavesFrom(i, h) => i \in ReleasesByPath(h)
         /\ i \in ReleasesByPath(h) /\ ~ArrivesFrom(i, h) => changes[i][h].kind # "none"
<1>1. \A n \in FileNames : n - 1 \in 0 .. MaxNames
  BY TimelineAssumption DEF FileNames
<1>2. i \in ReleasesByPath(h) <=> \E n \in FileNames : Retained(i, n) /\ HeadPath(i, n) = h
  BY DEF ReleasesByPath
<1>3. ~LeavesFrom(i, h) => HeadPath(i, h) = h
  BY <1>1, LaterIsFair DEF Fair, HeadPath
<1>4. ~ArrivesFrom(i, h) => \A n \in FileNames : HeadPath(i, n) = h => n = h
  BY <1>1, LaterIsFair DEF Fair, HeadPath
<1> QED BY <1>2, <1>3, <1>4 DEF Retained

-----------------------------------------------------------------------------
LEMMA ReportIsSound ==
  ASSUME TimelineInv
  PROVE  EachCommitReleasedOnce
<1> SUFFICES ASSUME NEW t \in timeline, t = Report
             PROVE
    /\ DOMAIN t.steps # {} =>
         /\ \A c \in Commits : Attribute(t.members, c) = FirstWith(t.steps, c)
         /\ \A d, e \in DOMAIN t.members : d # e => t.members[d] \cap t.members[e] = {}
         /\ Tip \in DOMAIN t.steps /\ DOMAIN t.steps \subseteq PathTo[Tip]
         /\ \A e \in DOMAIN t.steps : JoinsUp(t.steps, e)
    /\ Cardinality({e \in DOMAIN t.steps : t.steps[e].tag # 0}) =< MaxReleases
    /\ \A d \in t.folded, e \in DOMAIN t.steps : d < e
    /\ \A k \in DOMAIN tagged : tagged[k] \in PathTo[Tip] =>
         tagged[k] \in DOMAIN t.steps \cup t.folded \/ t.warned
    /\ \A i \in 1 .. History, h \in FileNames :
         /\ Retained(i, h) /\ ~LeavesFrom(i, h) => i \in t.touched[h]
         /\ i \in t.touched[h] /\ ~ArrivesFrom(i, h) => changes[i][h].kind # "none"
  BY DEF EachCommitReleasedOnce, TimelineInv
<1>1. /\ t.steps = Steps /\ t.members = Members(Steps) /\ t.folded = Folded
      /\ t.warned = (Len(tagged) >= TagLimit)
      /\ \A h \in FileNames : t.touched[h] = ReleasesByPath(h)
  BY DEF Report
<1>2. DOMAIN Steps = Ends /\ DOMAIN Members(Steps) = Ends
  BY DEF Steps, Members
<1>3. Cardinality({e \in Ends : Steps[e].tag # 0}) =< MaxReleases
  <2>1. \A e \in Ends : Steps[e].tag # 0 => e \in Kept
    BY DEF Steps
  <2> QED BY <2>1, KeptAreFew
<1>4. Ends # {} => /\ \A c \in Commits : Attribute(Members(Steps), c) = FirstWith(Steps, c)
                   /\ \A d, e \in Ends : d # e => Members(Steps)[d] \cap Members(Steps)[e] = {}
                   /\ Tip \in Ends /\ Ends \subseteq PathTo[Tip]
                   /\ \A e \in Ends : JoinsUp(Steps, e)
  BY SharedOut, NotShared, EndsOnPath, StepsJoin
<1>5. \A d \in Folded, e \in Ends : d < e
  BY FoldedAreOlder
<1>6. \A k \in DOMAIN tagged : tagged[k] \in PathTo[Tip] =>
        tagged[k] \in Ends \cup Folded \/ Len(tagged) >= TagLimit
  BY TagIsPlaced
<1>7. \A i \in 1 .. History, h \in FileNames :
        /\ Retained(i, h) /\ ~LeavesFrom(i, h) => i \in t.touched[h]
        /\ i \in t.touched[h] /\ ~ArrivesFrom(i, h) => changes[i][h].kind # "none"
  BY <1>1, FoundUnderPath
<1> QED BY <1>1, <1>2, <1>3, <1>4, <1>5, <1>6, <1>7

\* Whatever the shape of the range, its tags and the histories of its files,
\* every commit is attributed to exactly one step, the first release that has
\* it; the steps cut the first-parent path from the base to the head; no tag on
\* it is dropped without a word; and a path that is not renamed from a step on
\* is found in that step exactly if the step lists it, whatever is renamed
\* around it (steps, members, attribute, releases_by_path).
THEOREM CommitsAreSharedOut == TimelineSpec => []EachCommitReleasedOnce
<1>1. TimelineInit => TimelineInv
  BY TimelineInvInit
<1>2. TimelineInv /\ [TimelineNext]_timelineVars => TimelineInv'
  BY TimelineInvStep
<1>3. TimelineInv => EachCommitReleasedOnce
  BY ReportIsSound
<1> QED BY <1>1, <1>2, <1>3, PTL DEF TimelineSpec

-----------------------------------------------------------------------------
(* Addresses: segments.                                                    *)

\* What a path may be made of: names, and the words of the routes.
Words ==
  {"..", "...", "up", "r%2Fx", "o:x", "r", "x", "y", "-", "0", "1", "pull", "files", "compare",
   "merge_requests", "diffs", "trails", "changes"}
Segs == Owners \cup Words

\* The first place of a segment.
LEMMA FirstFound ==
  ASSUME NEW s \in Seq(Segs), NEW seg, NEW i \in DOMAIN s, s[i] = seg
  PROVE  /\ First(s, seg) \in DOMAIN s /\ s[First(s, seg)] = seg
         /\ \A j \in 1 .. First(s, seg) - 1 : s[j] # seg
<1> DEFINE At == {k \in DOMAIN s : s[k] = seg}
<1>1. At \subseteq Nat /\ At # {} /\ \A k \in DOMAIN s : k \in Nat /\ \A j \in 1 .. k - 1 : j \in DOMAIN s /\ j < k
  OBVIOUS
<1>2. PICK k \in At : \A j \in At : k =< j
  <2> HIDE DEF At
  <2> QED BY <1>1, Least
<1>3. k \in DOMAIN s /\ s[k] = seg /\ \A j \in 1 .. k - 1 : s[j] # seg
  <2>1. \A j \in At : j \in Nat /\ k \in Nat /\ ~(j < k)
    BY <1>1, <1>2
  <2> QED BY <1>1, <1>2, <2>1
<1> HIDE DEF At
<1>4. \E n \in DOMAIN s : s[n] = seg /\ \A j \in 1 .. n - 1 : s[j] # seg
  BY <1>3
<1> QED BY <1>4 DEF First

LEMMA FirstAt ==
  ASSUME NEW s \in Seq(Segs), NEW seg, NEW i \in DOMAIN s, s[i] = seg, \A j \in 1 .. i - 1 : s[j] # seg
  PROVE  First(s, seg) = i
<1> DEFINE f == First(s, seg)
<1>1. f \in DOMAIN s /\ s[f] = seg /\ \A j \in 1 .. f - 1 : s[j] # seg
  BY FirstFound
<1> HIDE DEF f
<1>2. ~(f < i) /\ ~(i < f)
  BY <1>1
<1> QED BY <1>1, <1>2 DEF f

\* Nowhere in the path.
LEMMA FirstNone ==
  ASSUME NEW s \in Seq(Segs), NEW seg
  PROVE  First(s, seg) = 0 <=> \A i \in DOMAIN s : s[i] # seg
<1>1. CASE \E i \in DOMAIN s : s[i] = seg
  <2>1. First(s, seg) \in DOMAIN s
    BY <1>1, FirstFound
  <2>2. 0 \notin DOMAIN s
    OBVIOUS
  <2> QED BY <1>1, <2>1, <2>2
<1>2. CASE ~\E i \in DOMAIN s : s[i] = seg
  BY <1>2 DEF First
<1> QED BY <1>1, <1>2

\* decode_path may be unfolded.
LEMMA DecodeUnfolds ==
  ASSUME NEW s \in Seq(Segs)
  PROVE  \E d : /\ \A n \in 0 .. Len(s) :
                      d[n] = IF n = 0 THEN <<>>
                             ELSE d[n - 1] \o IF s[n] = "r%2Fx" THEN <<"r", "x">> ELSE <<s[n]>>
                /\ DecodePath(s) = d[Len(s)]
<1> DEFINE Part(n) == IF s[n] = "r%2Fx" THEN <<"r", "x">> ELSE <<s[n]>>
           Body(g, n) == IF n = 0 THEN <<>> ELSE g[n - 1] \o Part(n)
           Ok(g, m) == \A n \in 0 .. m : g[n] = Body(g, n)
           Good == {m \in 0 .. Len(s) : \E g : Ok(g, m)}
<1>0. Len(s) \in Nat
  OBVIOUS
<1> HIDE DEF Part
<1>1. 0 \in Good
  <2>1. Ok([n \in {0} |-> <<>>], 0)
    OBVIOUS
  <2>2. 0 \in 0 .. Len(s)
    BY <1>0
  <2> HIDE DEF Ok
  <2>3. \E g : Ok(g, 0)
    BY <2>1
  <2> QED BY <2>2, <2>3
<1>2. ASSUME NEW m \in 0 .. Len(s) - 1, m \in Good
      PROVE  m + 1 \in Good
  <2>1. PICK g : Ok(g, m)
    BY <1>2
  <2> DEFINE h == [n \in 0 .. m + 1 |-> IF n =< m THEN g[n] ELSE g[m] \o Part(n)]
  <2>2. ASSUME NEW n \in 0 .. m + 1
        PROVE  h[n] = Body(h, n)
    <3>1. CASE n =< m
      <4>1. n \in 0 .. m /\ h[n] = g[n] /\ (n # 0 => h[n - 1] = g[n - 1])
        BY <1>0, <3>1
      <4>2. g[n] = Body(g, n)
        BY <2>1, <4>1
      <4> HIDE DEF h
      <4> QED BY <4>1, <4>2
    <3>2. CASE ~(n =< m)
      <4>1. n = m + 1 /\ n # 0 /\ n - 1 = m /\ m =< m
        BY <1>0, <3>2
      <4>2. h[n] = g[m] \o Part(n)
        BY <3>2
      <4>3. m \in 0 .. m + 1
        OBVIOUS
      <4>4. h[m] = g[m]
        BY <4>1, <4>3
      <4> HIDE DEF h
      <4> QED BY <4>1, <4>2, <4>4
    <3> QED BY <3>1, <3>2
  <2> HIDE DEF h
  <2>3. Ok(h, m + 1)
    BY <2>2
  <2>4. m + 1 \in 0 .. Len(s)
    BY <1>0
  <2> HIDE DEF Ok
  <2> QED BY <2>3, <2>4
<1>3. Len(s) \in Good
  <2> HIDE DEF Good
  <2>1. 0 .. Len(s) \subseteq Good
    BY <1>0, <1>1, <1>2, UpTo
  <2> QED BY <1>0, <2>1
<1>4. PICK g : Ok(g, Len(s))
  BY <1>3
<1> DEFINE f == [n \in 0 .. Len(s) |-> g[n]]
<1>5. ASSUME NEW n \in 0 .. Len(s)
      PROVE  f[n] = Body(f, n)
  <2>1. n # 0 => n - 1 \in 0 .. Len(s)
    BY <1>0
  <2>2. f[n] = Body(g, n) /\ (n # 0 => f[n - 1] = g[n - 1])
    BY <1>4, <2>1
  <2> HIDE DEF f
  <2> QED BY <2>2
<1>6. f = [n \in 0 .. Len(s) |-> Body(f, n)]
  BY <1>5
<1> DEFINE d == CHOOSE d : d = [n \in 0 .. Len(s) |-> Body(d, n)]
<1>7. d = [n \in 0 .. Len(s) |-> Body(d, n)]
  <2> HIDE DEF f
  <2> QED BY <1>6
<1>8. DecodePath(s) = d[Len(s)]
  BY DEF DecodePath, Part
<1>9. \A n \in 0 .. Len(s) : d[n] = Body(d, n)
  <2> HIDE DEF d, Body
  <2> QED BY <1>7
<1> HIDE DEF d
<1> QED BY <1>8, <1>9 DEF Part

\* What decode_path yields: no encoded slash is left, nothing else is new, and
\* a path without one is left as it is.
LEMMA DecodeIs ==
  ASSUME NEW s \in Seq(Segs), NEW C, {s[i] : i \in DOMAIN s} \cup {"r", "x"} \subseteq C
  PROVE  /\ DecodePath(s) \in Seq(C \ {"r%2Fx"})
         /\ (\A i \in DOMAIN s : s[i] # "r%2Fx") => DecodePath(s) = s
<1>1. PICK d : /\ \A n \in 0 .. Len(s) :
                     d[n] = IF n = 0 THEN <<>>
                            ELSE d[n - 1] \o IF s[n] = "r%2Fx" THEN <<"r", "x">> ELSE <<s[n]>>
               /\ DecodePath(s) = d[Len(s)]
  BY DecodeUnfolds
<1> DEFINE D == C \ {"r%2Fx"}
<1>2. Len(s) \in Nat /\ Len(s) \in 0 .. Len(s) /\ 0 \in 0 .. Len(s) /\ DOMAIN s = 1 .. Len(s)
  OBVIOUS
<1>3. d[0] = <<>>
  BY <1>1, <1>2
<1>4. ASSUME NEW n \in 0 .. Len(s) - 1
      PROVE  /\ d[n + 1] = d[n] \o IF s[n + 1] = "r%2Fx" THEN <<"r", "x">> ELSE <<s[n + 1]>>
             /\ n + 1 \in DOMAIN s /\ n + 1 \in 0 .. Len(s)
  <2>1. n + 1 \in 0 .. Len(s) /\ n + 1 # 0 /\ (n + 1) - 1 = n /\ n + 1 \in DOMAIN s
    BY <1>2
  <2> QED BY <1>1, <2>1
<1>5. DecodePath(s) \in Seq(D)
  <2> DEFINE Good == {n \in 0 .. Len(s) : d[n] \in Seq(D)}
  <2>1. 0 \in Good
    <3>1. <<>> \in Seq(D)
      BY EmptySeq
    <3> QED BY <1>2, <1>3, <3>1
  <2>2. ASSUME NEW n \in 0 .. Len(s) - 1, n \in Good
        PROVE  n + 1 \in Good
    <3> DEFINE part == IF s[n + 1] = "r%2Fx" THEN <<"r", "x">> ELSE <<s[n + 1]>>
    <3>1. part \in Seq(D)
      <4>1. s[n + 1] \in C /\ "r" \in D /\ "x" \in D
        BY <1>4
      <4>2. CASE s[n + 1] = "r%2Fx"
        BY <4>1, <4>2
      <4>3. CASE s[n + 1] # "r%2Fx"
        <5>1. s[n + 1] \in D
          BY <4>1, <4>3
        <5> HIDE DEF D
        <5> QED BY <4>3, <5>1
      <4> QED BY <4>2, <4>3
    <3>2. d[n] \in Seq(D)
      BY <2>2
    <3> HIDE DEF part, D
    <3>3. d[n] \o part \in Seq(D)
      BY <3>1, <3>2
    <3> QED BY <1>4, <3>3 DEF part
  <2>3. 0 .. Len(s) \subseteq Good
    <3> HIDE DEF Good
    <3> QED BY <1>2, <2>1, <2>2, UpTo
  <2> QED BY <1>1, <1>2, <2>3
<1>6. ASSUME \A i \in DOMAIN s : s[i] # "r%2Fx"
      PROVE  DecodePath(s) = s
  <2> DEFINE Good == {n \in 0 .. Len(s) : d[n] = SubSeq(s, 1, n)}
  <2>1. 0 \in Good
    <3>1. SubSeq(s, 1, 0) = <<>>
      BY SubSeqEmpty
    <3> QED BY <1>2, <1>3, <3>1
  <2>2. ASSUME NEW n \in 0 .. Len(s) - 1, n \in Good
        PROVE  n + 1 \in Good
    <3>1. d[n + 1] = d[n] \o <<s[n + 1]>>
      BY <1>4, <1>6
    <3>2. SubSeq(s, 1, n + 1) = SubSeq(s, 1, n) \o <<s[n + 1]>>
      BY <1>2
    <3> QED BY <1>4, <2>2, <3>1, <3>2
  <2>3. 0 .. Len(s) \subseteq Good
    <3> HIDE DEF Good
    <3> QED BY <1>2, <2>1, <2>2, UpTo
  <2>4. SubSeq(s, 1, Len(s)) = s
    OBVIOUS
  <2> QED BY <1>1, <1>2, <2>3, <2>4
<1> QED BY <1>5, <1>6

\* Refs that a comparison may be written with again.
Plain == Segs \ (Dots \cup {"r%2Fx", "up"})

\* A range written from two refs is read back as those refs.
LEMMA RangeIsReadBack ==
  ASSUME NEW base \in Seq(Plain), NEW head \in Seq(Plain), NEW direct \in BOOLEAN,
         NEW range, range = base \o <<IF direct THEN ".." ELSE "...">> \o head
  PROVE  /\ Refs(range) = [found |-> TRUE, direct |-> direct, base |-> base, head |-> head]
         /\ range \in Seq(Segs) /\ range # <<>> /\ \A i \in DOMAIN range : range[i] # "up"
<1> DEFINE dots == IF direct THEN ".." ELSE "..."
           n == Len(base) + 1
<1>1. /\ base \in Seq(Segs) /\ head \in Seq(Segs) /\ dots \in Segs
      /\ \A i \in DOMAIN base : base[i] \in Plain
      /\ \A i \in DOMAIN head : head[i] \in Plain
  <2>1. Plain \subseteq Segs /\ dots \in Segs
    <3>1. dots \in Segs
      BY DEF Segs, Words
    <3> QED BY <3>1 DEF Plain
  <2>2. base \in Seq(Segs) /\ head \in Seq(Segs)
    BY <2>1, SeqMonotonic
  <2> QED BY <2>1, <2>2
<1>2. dots \notin Plain /\ dots # "r%2Fx" /\ dots # "up"
  BY DEF Plain, Dots
<1>3. range = base \o <<dots>> \o head
  OBVIOUS
<1> HIDE DEF dots
<1>4. range \in Seq(Segs) /\ Len(range) = Len(base) + 1 + Len(head) /\ DOMAIN range = 1 .. Len(range)
      /\ n \in Nat /\ n > 0 /\ n =< Len(range)
  BY <1>1, <1>3
<1>5. range[n] = dots /\ \A i \in 1 .. n - 1 : range[i] = base[i] /\ i \in DOMAIN base
  <2> DEFINE left == base \o <<dots>>
  <2>1. /\ left \in Seq(Segs) /\ Len(left) = n /\ left[n] = dots
        /\ \A i \in 1 .. n - 1 : left[i] = base[i] /\ i \in DOMAIN base
    BY <1>1
  <2> HIDE DEF left
  <2>2. \A i \in 1 .. Len(left) : range[i] = left[i]
    BY <1>1, <1>3, <2>1 DEF left
  <2> QED BY <2>1, <2>2
<1>6. \A i \in n + 1 .. Len(range) : range[i] = head[i - n] /\ i - n \in DOMAIN head
  BY <1>1, <1>3
<1>7. \A i \in DOMAIN range : i # n => range[i] \in Plain
  <2>1. \A i \in DOMAIN range : i # n => i \in 1 .. n - 1 \/ i \in n + 1 .. Len(range)
    BY <1>4
  <2> QED BY <1>1, <1>5, <1>6, <2>1
<1>8. \A i \in DOMAIN range : range[i] # "r%2Fx" /\ range[i] # "up"
  BY <1>2, <1>5, <1>7 DEF Plain
<1>9. DecodePath(range) = range
  <2> DEFINE C == {range[i] : i \in DOMAIN range} \cup {"r", "x"}
  <2>1. {range[i] : i \in DOMAIN range} \cup {"r", "x"} \subseteq C
    OBVIOUS
  <2>2. range \in Seq(Segs) /\ \A i \in DOMAIN range : range[i] # "r%2Fx"
    BY <1>4, <1>8
  <2> HIDE DEF C
  <2> QED BY ONLY <2>1, <2>2, DecodeIs, Zenon
<1>10. SubSeq(range, 1, n - 1) = base /\ SubSeq(range, n + 1, Len(range)) = head
  <2>1. SubSeq(range, 1, n - 1) = base
    BY <1>1, <1>4, <1>5
  <2>2. SubSeq(range, n + 1, Len(range)) = head
    BY <1>1, <1>4, <1>6
  <2> QED BY <2>1, <2>2
<1>11. First(range, dots) = n
  <2>1. n \in DOMAIN range /\ \A j \in 1 .. n - 1 : range[j] # dots
    BY <1>1, <1>2, <1>4, <1>5
  <2> HIDE DEF n
  <2> QED BY <1>4, <1>5, <2>1, FirstAt
<1>12. direct => First(range, "...") = 0
  <2>1. direct => \A i \in DOMAIN range : range[i] # "..."
    BY <1>5, <1>7 DEF Plain, Dots, dots
  <2> QED BY <1>4, <2>1, FirstNone
<1>13. (IF First(range, "...") > 0 THEN "..." ELSE "..") = dots
  BY <1>4, <1>11, <1>12 DEF dots
<1>14. (dots = "..") = direct
  BY DEF dots
<1> HIDE DEF n
<1>15. Refs(range) = [found |-> n > 0, direct |-> dots = "..", base |-> SubSeq(range, 1, n - 1),
                      head |-> SubSeq(range, n + 1, Len(range))]
  BY <1>9, <1>11, <1>13, Zenon DEF Refs, From
<1>16. range # <<>>
  BY <1>4
<1> QED BY <1>4, <1>8, <1>10, <1>14, <1>15, <1>16

\* A path put together from two.
LEMMA Joined ==
  ASSUME NEW a \in Seq(Segs), NEW b \in Seq(Segs), NEW q, q = a \o b
  PROVE  /\ q \in Seq(Segs) /\ Len(q) = Len(a) + Len(b) /\ DOMAIN q = 1 .. Len(q)
         /\ Len(a) \in Nat /\ Len(b) \in Nat /\ DOMAIN a = 1 .. Len(a) /\ DOMAIN b = 1 .. Len(b)
         /\ SubSeq(q, 1, Len(a)) = a /\ SubSeq(q, Len(a) + 1, Len(q)) = b
         /\ \A i \in DOMAIN a : q[i] = a[i]
         /\ \A i \in DOMAIN b : q[Len(a) + i] = b[i]
<1>1. /\ q \in Seq(Segs) /\ Len(q) = Len(a) + Len(b) /\ DOMAIN q = 1 .. Len(q)
      /\ Len(a) \in Nat /\ Len(b) \in Nat /\ DOMAIN a = 1 .. Len(a) /\ DOMAIN b = 1 .. Len(b)
  OBVIOUS
<1>2. \A i \in DOMAIN a : q[i] = a[i]
  BY <1>1
<1>3. \A i \in DOMAIN b : q[Len(a) + i] = b[i]
  BY <1>1
<1>4. SubSeq(q, 1, Len(a)) = a
  BY <1>1
<1>5. SubSeq(q, Len(a) + 1, Len(q)) = b
  BY <1>1
<1> QED BY <1>1, <1>2, <1>3, <1>4, <1>5

\* What neither part has is not in the whole.
LEMMA JoinedWithout ==
  ASSUME NEW a \in Seq(Segs), NEW b \in Seq(Segs), NEW q, q = a \o b, NEW seg,
         \A i \in DOMAIN a : a[i] # seg, \A i \in DOMAIN b : b[i] # seg
  PROVE  \A i \in DOMAIN q : q[i] # seg
<1>1. /\ DOMAIN q = 1 .. Len(a) + Len(b) /\ DOMAIN a = 1 .. Len(a) /\ DOMAIN b = 1 .. Len(b)
      /\ Len(a) \in Nat /\ Len(b) \in Nat
  BY Joined
<1>2. \A i \in DOMAIN a : q[i] = a[i]
  BY Joined
<1>3. \A i \in DOMAIN b : q[Len(a) + i] = b[i]
  BY Joined
<1>4. ASSUME NEW i \in DOMAIN q
      PROVE  q[i] # seg
  <2>1. CASE i \in DOMAIN a
    BY <1>2, <2>1
  <2>2. CASE i \notin DOMAIN a
    <3>1. i - Len(a) \in DOMAIN b /\ i = Len(a) + (i - Len(a))
      BY <1>1, <2>2
    <3>2. PICK k \in DOMAIN b : i = Len(a) + k
      BY <3>1
    <3> QED BY <1>3, <3>2
  <2> QED BY <2>1, <2>2
<1> QED BY <1>4

\* A reopened URL is clean where its path has no relative segment.
LEMMA UrlIsClean ==
  ASSUME NEW host, NEW q \in Seq(Segs), \A i \in DOMAIN q : q[i] # "up"
  PROVE  Clean(Url(host, q))
<1>1. First(q, "up") = 0
  BY FirstNone
<1> QED BY <1>1 DEF Clean, Url

\* The refs of a comparison that was accepted are plain.
LEMMA RefsAreDecoded ==
  ASSUME NEW range \in Seq(Segs), \A i \in DOMAIN range : range[i] # "up", Refs(range).found
  PROVE  /\ Refs(range).direct \in BOOLEAN
         /\ Refs(range).base \in Seq(Segs \ {"r%2Fx", "up"})
         /\ Refs(range).head \in Seq(Segs \ {"r%2Fx", "up"})
<1> DEFINE C == Segs \ {"up"}
           D == Segs \ {"r%2Fx", "up"}
           r == DecodePath(range)
           dots == IF First(r, "...") > 0 THEN "..." ELSE ".."
           n == First(r, dots)
<1>1. r \in Seq(D)
  <2>1. {range[i] : i \in DOMAIN range} \cup {"r", "x"} \subseteq C
    BY DEF Segs, Words
  <2> HIDE DEF C
  <2>2. r \in Seq(C \ {"r%2Fx"})
    BY <2>1, DecodeIs
  <2>3. C \ {"r%2Fx"} = D
    BY DEF C
  <2> QED BY <2>2, <2>3
<1>2. r \in Seq(Segs)
  <2>1. D \subseteq Segs
    OBVIOUS
  <2> HIDE DEF D, r
  <2> QED BY <1>1, <2>1, SeqMonotonic
<1> HIDE DEF r, D, dots
<1>3. /\ Refs(range).found = (n > 0) /\ Refs(range).direct = (dots = "..")
      /\ Refs(range).base = SubSeq(r, 1, n - 1) /\ Refs(range).head = SubSeq(r, n + 1, Len(r))
  BY DEF Refs, r, dots, From
<1>4. n # 0
  <2>1. n > 0
    BY <1>3
  <2> HIDE DEF n
  <2> QED BY <2>1
<1>5. n \in DOMAIN r
  BY <1>2, <1>4, FirstFound DEF First
<1> HIDE DEF n
<1>6. SubSeq(r, 1, n - 1) \in Seq(D) /\ SubSeq(r, n + 1, Len(r)) \in Seq(D)
  <2>1. \A i \in DOMAIN r : r[i] \in D
    BY <1>1
  <2>2. Len(r) \in Nat /\ DOMAIN r = 1 .. Len(r) /\ n \in 1 .. Len(r)
    BY <1>1, <1>5
  <2>3. SubSeq(r, 1, n - 1) \in Seq(D)
    BY <1>1, <2>2
  <2>4. SubSeq(r, n + 1, Len(r)) \in Seq(D)
    BY <1>1, <2>2
  <2> QED BY <2>3, <2>4
<1> QED BY <1>3, <1>6 DEF D

LEMMA RefsArePlain ==
  ASSUME NEW r \in Seq(Segs \ {"r%2Fx", "up"}), RefName(r) \/ ForkRef(r)
  PROVE  r \in Seq(Plain) /\ r # <<>>
<1> DEFINE D == Segs \ {"r%2Fx", "up"}
<1>1. r # <<>> /\ Len(r) \in Nat /\ DOMAIN r = 1 .. Len(r) /\ Len(r) > 0 /\ r \in Seq(D)
  BY DEF RefName, ForkRef
<1>2. \A i \in DOMAIN r : r[i] \in D
  BY <1>1
<1> HIDE DEF D
<1>3. \A i \in DOMAIN r : r[i] \notin Dots
  <2>1. CASE RefName(r)
    BY <2>1 DEF RefName
  <2>2. CASE ForkRef(r) /\ r[1] # "o:x"
    BY <2>2 DEF ForkRef, RefName
  <2>3. CASE ForkRef(r) /\ r[1] = "o:x"
    <3> DEFINE f == <<"x">> \o Tail(r)
    <3>1. RefName(f)
      BY <2>3 DEF ForkRef
    <3>2. DOMAIN f = DOMAIN r /\ \A i \in DOMAIN r : i # 1 => f[i] = r[i]
      BY <1>1
    <3> HIDE DEF f
    <3>3. \A i \in DOMAIN r : i # 1 => r[i] \notin Dots
      BY <3>1, <3>2 DEF RefName
    <3>4. r[1] \notin Dots
      BY <2>3 DEF Dots
    <3> QED BY <3>3, <3>4
  <2> QED BY <2>1, <2>2, <2>3
<1>4. \A i \in DOMAIN r : r[i] \in Plain
  BY <1>2, <1>3 DEF D, Plain
<1>5. r \in [1 .. Len(r) -> Plain]
  BY <1>1, <1>4
<1> QED BY <1>1, <1>5, SeqDef

-----------------------------------------------------------------------------
(* Addresses: every target is reopened as itself.                          *)

\* A pull request.
LEMMA PullIsReopened ==
  ASSUME NEW host, NEW p, p \in Seq(Segs), Len(p) = 2,
         Identifier(p[1]), Identifier(p[2])
  PROVE  GithubParse(Url(host, p \o <<"pull", "1">>)) = Target("github", host, p, 1, NoCompare)
<1> DEFINE b == <<"pull", "1">>
           q == p \o b
           a == Url(host, q)
<1>1. /\ b \in Seq(Segs) /\ Len(b) = 2 /\ DOMAIN b = 1 .. 2 /\ b[1] = "pull" /\ b[2] = "1"
      /\ \A i \in DOMAIN b : b[i] # "up"
  <2>1. "pull" \in Segs /\ "1" \in Segs
    BY DEF Segs, Words
  <2> QED BY <2>1
<1> HIDE DEF b
<1>2. /\ q \in Seq(Segs) /\ Len(q) = 4 /\ SubSeq(q, 1, 2) = p
      /\ q[1] = p[1] /\ q[2] = p[2] /\ q[3] = "pull" /\ q[4] = "1"
      /\ \A i \in DOMAIN q : q[i] # "up"
  <2>0. q = p \o b
    OBVIOUS
  <2> HIDE DEF q
  <2>1. /\ q \in Seq(Segs) /\ Len(q) = Len(p) + Len(b) /\ SubSeq(q, 1, Len(p)) = p
        /\ \A i \in DOMAIN p : q[i] = p[i]
        /\ \A i \in DOMAIN b : q[Len(p) + i] = b[i]
    <3>1. p \in Seq(Segs) /\ b \in Seq(Segs)
      BY <1>1
    <3> HIDE DEF a
    <3>2. q \in Seq(Segs) /\ Len(q) = Len(p) + Len(b) /\ SubSeq(q, 1, Len(p)) = p
      BY ONLY <2>0, <3>1, Joined
    <3>3. \A i \in DOMAIN p : q[i] = p[i]
      BY ONLY <2>0, <3>1, Joined
    <3>4. \A i \in DOMAIN b : q[Len(p) + i] = b[i]
      BY ONLY <2>0, <3>1, Joined
    <3> QED BY <3>2, <3>3, <3>4
  <2>2. DOMAIN p = 1 .. 2 /\ \A i \in DOMAIN p : p[i] # "up"
    <3>1. DOMAIN p = 1 .. 2 /\ \A i \in 1 .. 2 : i = 1 \/ i = 2
      OBVIOUS
    <3> QED BY <3>1 DEF Identifier
  <2>3. \A i \in DOMAIN q : q[i] # "up"
    <3>1. /\ p \in Seq(Segs) /\ b \in Seq(Segs)
          /\ (\A i \in DOMAIN p : p[i] # "up") /\ (\A i \in DOMAIN b : b[i] # "up")
      BY <1>1, <2>2
    <3> QED BY ONLY <2>0, <3>1, JoinedWithout
  <2> QED BY <1>1, <2>1, <2>2, <2>3
<1> HIDE DEF q
<1>3. Clean(a)
  BY <1>2, UrlIsClean
<1>4. a.scheme = "https" /\ a.path = q /\ a.host = host /\ a.query = "none"
  BY DEF Url
<1> HIDE DEF a
<1>5. GithubParse(a) = PrParse(a)
  BY <1>2, <1>4 DEF GithubParse
<1>6. PrParse(a) = Target("github", host, p, 1, NoCompare)
  <2>1. a.scheme # "#" /\ Number(q[4])
    BY <1>2, <1>4 DEF Number
  <2>2. Len(q) \in {4, 5} /\ (Len(q) = 5 => q[5] \in {"files", "commits"})
    BY <1>2
  <2>3. Identifier(q[1]) /\ Identifier(q[2])
    BY <1>2
  <2> QED BY <1>2, <1>3, <1>4, <2>1, <2>2, <2>3, Zenon DEF PrParse
<1> QED BY <1>5, <1>6 DEF a, q, b

\* A path put together from three: a project, the words of a route, a range.
LEMMA JoinedThrice ==
  ASSUME NEW p \in Seq(Segs), NEW m \in Seq(Segs), NEW range \in Seq(Segs),
         NEW q, q = (p \o m) \o range
  PROVE  /\ q \in Seq(Segs) /\ Len(q) = Len(p) + Len(m) + Len(range)
         /\ SubSeq(q, 1, Len(p)) = p /\ SubSeq(q, Len(p) + Len(m) + 1, Len(q)) = range
         /\ \A i \in DOMAIN p : q[i] = p[i]
         /\ \A i \in DOMAIN m : q[Len(p) + i] = m[i]
<1> DEFINE left == p \o m
<1>1. left = p \o m /\ q = left \o range
  OBVIOUS
<1> HIDE DEF left
<1>2. /\ left \in Seq(Segs) /\ Len(left) = Len(p) + Len(m) /\ DOMAIN left = 1 .. Len(left)
      /\ Len(p) \in Nat /\ Len(m) \in Nat /\ DOMAIN p = 1 .. Len(p) /\ DOMAIN m = 1 .. Len(m)
  BY <1>1, Joined
<1>3. (\A i \in DOMAIN p : left[i] = p[i]) /\ (\A i \in DOMAIN m : left[Len(p) + i] = m[i])
  BY <1>1, Joined
<1>4. /\ q \in Seq(Segs) /\ Len(q) = Len(left) + Len(range)
      /\ SubSeq(q, Len(left) + 1, Len(q)) = range
  BY <1>1, <1>2, Joined
<1>5. \A i \in DOMAIN left : q[i] = left[i]
  BY <1>1, <1>2, Joined
<1>6. \A i \in DOMAIN p : q[i] = p[i]
  <2>1. \A i \in DOMAIN p : i \in DOMAIN left
    BY <1>2
  <2> QED BY <1>3, <1>5, <2>1
<1>7. \A i \in DOMAIN m : q[Len(p) + i] = m[i]
  <2>1. \A i \in DOMAIN m : Len(p) + i \in DOMAIN left
    BY <1>2
  <2> QED BY <1>3, <1>5, <2>1
<1>8. SubSeq(q, 1, Len(p)) = p
  <2>1. Len(q) \in Nat /\ Len(p) =< Len(q) /\ DOMAIN q = 1 .. Len(q)
    BY <1>2, <1>4
  <2> QED BY <1>2, <1>4, <1>6, <2>1
<1> QED BY <1>2, <1>4, <1>6, <1>7, <1>8

\* A path of three parts without a relative segment.
LEMMA JoinedThriceWithout ==
  ASSUME NEW p \in Seq(Segs), NEW m \in Seq(Segs), NEW range \in Seq(Segs),
         NEW q, q = (p \o m) \o range, NEW seg, \A i \in DOMAIN p : p[i] # seg,
         \A i \in DOMAIN m : m[i] # seg, \A i \in DOMAIN range : range[i] # seg
  PROVE  \A i \in DOMAIN q : q[i] # seg
<1> DEFINE left == p \o m
<1>1. left = p \o m /\ q = left \o range /\ left \in Seq(Segs)
  OBVIOUS
<1> HIDE DEF left
<1>2. \A i \in DOMAIN left : left[i] # seg
  BY <1>1, JoinedWithout
<1> QED BY <1>1, <1>2, JoinedWithout

\* A comparison, of what its refs must be to be written into a URL.
Comparison(compare) ==
  /\ compare = [base |-> compare.base, head |-> compare.head, direct |-> compare.direct]
  /\ compare.base \in Seq(Plain) /\ compare.base # <<>>
  /\ compare.head \in Seq(Plain) /\ compare.head # <<>>
  /\ compare.direct \in BOOLEAN

\* A comparison of GitHub.
LEMMA GithubCompareIsReopened ==
  ASSUME NEW host, NEW p \in Seq(Segs), Len(p) = 2, Identifier(p[1]), Identifier(p[2]),
         NEW compare, Comparison(compare), ForkRef(compare.base), ForkRef(compare.head),
         NEW range, range = compare.base \o <<IF compare.direct THEN ".." ELSE "...">> \o compare.head
  PROVE  GithubParse(Url(host, p \o <<"compare">> \o range))
           = Target("github", host, p, 0, compare)
<1> DEFINE m == <<"compare">>
           q == (p \o m) \o range
           a == Url(host, q)
<1>1. m \in Seq(Segs) /\ Len(m) = 1 /\ DOMAIN m = 1 .. 1 /\ m[1] = "compare"
  <2>1. "compare" \in Segs
    BY DEF Segs, Words
  <2> QED BY <2>1
<1>2. /\ Refs(range) = [found |-> TRUE, direct |-> compare.direct, base |-> compare.base, head |-> compare.head]
      /\ range \in Seq(Segs) /\ range # <<>> /\ \A i \in DOMAIN range : range[i] # "up"
  BY RangeIsReadBack DEF Comparison
<1>3. q = (p \o m) \o range /\ a = Url(host, p \o <<"compare">> \o range)
  OBVIOUS
<1> HIDE DEF m, q, a
<1>p. p \in Seq(Segs) /\ m \in Seq(Segs) /\ range \in Seq(Segs) /\ q = (p \o m) \o range
  BY <1>1, <1>2, <1>3
<1>4. /\ q \in Seq(Segs) /\ Len(q) = Len(p) + Len(m) + Len(range)
      /\ SubSeq(q, 1, Len(p)) = p /\ SubSeq(q, Len(p) + Len(m) + 1, Len(q)) = range
  BY ONLY <1>p, JoinedThrice
<1>5. (\A i \in DOMAIN p : q[i] = p[i]) /\ (\A i \in DOMAIN m : q[Len(p) + i] = m[i])
  BY ONLY <1>p, JoinedThrice
<1>6. \A i \in DOMAIN q : q[i] # "up"
  <2>1. \A i \in DOMAIN p : p[i] # "up"
    <3>1. \A i \in DOMAIN p : i = 1 \/ i = 2
      OBVIOUS
    <3> QED BY <3>1 DEF Identifier
  <2>2. \A i \in DOMAIN m : m[i] # "up"
    BY <1>1
  <2>3. \A i \in DOMAIN range : range[i] # "up"
    BY <1>2
  <2> QED BY ONLY <1>p, <2>1, <2>2, <2>3, JoinedThriceWithout
<1>7. Clean(a)
  BY <1>4, <1>6, UrlIsClean DEF a
<1>8. a.scheme = "https" /\ a.path = q /\ a.host = host /\ a.query = "none"
  BY DEF Url, a
<1>9. /\ Len(q) > 3 /\ Len(q) > 2 /\ q[1] = p[1] /\ q[2] = p[2] /\ q[3] = "compare"
      /\ SubSeq(q, 1, 2) = p /\ SubSeq(q, 4, Len(q)) = range
  <2>1. Len(range) \in Nat /\ Len(range) > 0 /\ 1 \in DOMAIN p /\ 2 \in DOMAIN p
    <3>1. Len(p) = 2 /\ range # <<>>
      BY <1>2
    <3> QED BY ONLY <1>p, <3>1
  <2>2. Len(p) = 2
    OBVIOUS
  <2> QED BY ONLY <1>1, <1>4, <1>5, <2>1, <2>2
<1>10. GithubParse(a) = CompareParse(a)
  BY <1>8, <1>9 DEF GithubParse
<1>11. CompareParse(a) = Target("github", host, p, 0, Compare(Refs(range)))
  <2>1. Refs(From(q, 4)) = Refs(range)
    BY <1>9 DEF From
  <2>2. Refs(range).found /\ ForkRef(Refs(range).base) /\ ForkRef(Refs(range).head)
    BY <1>2
  <2>3. a.query \in {"none", "toggle"} /\ Identifier(q[1]) /\ Identifier(q[2])
    BY <1>8, <1>9
  <2> QED BY <1>7, <1>8, <1>9, <2>1, <2>2, <2>3, Zenon DEF CompareParse
<1>12. Compare(Refs(range)) = compare
  <2>1. Compare(Refs(range)) = [base |-> compare.base, head |-> compare.head, direct |-> compare.direct]
    BY <1>2 DEF Compare
  <2> QED BY <2>1, Zenon DEF Comparison
<1> QED BY <1>3, <1>10, <1>11, <1>12

\* The route behind a project without a "-".
LEMMA RoutedAt ==
  ASSUME NEW q \in Seq(Segs), NEW route, NEW k \in 2 .. Len(q) - 1,
         q[k] = "-", q[k + 1] = route, \A i \in 1 .. k - 1 : q[i] # "-"
  PROVE  Routed(q, route) = k
<1> DEFINE At == {i \in 2 .. Len(q) - 1 : q[i] = "-" /\ q[i + 1] = route}
           Smallest(i) == \A j \in At : i =< j
<1>1. k \in At /\ Smallest(k)
  <2>1. \A j \in At : j \in Nat /\ k \in Nat /\ ~(j \in 1 .. k - 1)
    OBVIOUS
  <2>2. \A j \in At : k =< j
    BY <2>1
  <2> QED BY <2>2
<1>2. \A i \in At : Smallest(i) => i = k
  <2>1. \A i \in At : i \in Nat /\ k \in Nat
    OBVIOUS
  <2> HIDE DEF At
  <2>2. ASSUME NEW i \in At, Smallest(i) PROVE i = k
    <3>1. i =< k /\ k =< i
      BY <1>1, <2>2
    <3> QED BY <2>1, <3>1
  <2> QED BY <2>2
<1>3. Routed(q, route) = IF At = {} THEN 0 ELSE CHOOSE i \in At : Smallest(i)
  BY DEF Routed
<1> HIDE DEF At, Smallest
<1> QED BY <1>1, <1>2, <1>3

\* A project of GitLab that exists.
ProjectExists(p) ==
  p \in Seq(Segs) /\ Project(p) /\ \A i \in DOMAIN p : p[i] # "-"

LEMMA ProjectIsClean ==
  ASSUME NEW p, ProjectExists(p)
  PROVE  /\ p \in Seq(Segs) /\ Len(p) \in Nat /\ Len(p) > 1 /\ DOMAIN p = 1 .. Len(p)
         /\ \A i \in DOMAIN p : p[i] # "up"
<1>1. p \in Seq(Segs) /\ Len(p) > 1
  BY DEF ProjectExists, Project
<1>2. \A i \in DOMAIN p : p[i] # "up"
  BY DEF ProjectExists, Project, Identifier
<1> QED BY <1>1, <1>2

\* A merge request.
LEMMA MergeRequestIsReopened ==
  ASSUME NEW host, NEW p, ProjectExists(p)
  PROVE  GitlabParse(Url(host, p \o <<"-", "merge_requests", "1">>))
           = Target("gitlab", host, p, 1, NoCompare)
<1> DEFINE b == <<"-", "merge_requests", "1">>
           q == p \o b
           a == Url(host, q)
           n == Len(p)
<1>1. /\ b \in Seq(Segs) /\ Len(b) = 3 /\ DOMAIN b = 1 .. 3
      /\ b[1] = "-" /\ b[2] = "merge_requests" /\ b[3] = "1"
  <2>1. "-" \in Segs /\ "merge_requests" \in Segs /\ "1" \in Segs
    BY DEF Segs, Words
  <2> QED BY <2>1
<1>2. q = p \o b /\ a = Url(host, p \o <<"-", "merge_requests", "1">>)
  OBVIOUS
<1> HIDE DEF b, q, a
<1>3. /\ p \in Seq(Segs) /\ n \in Nat /\ n > 1 /\ DOMAIN p = 1 .. n
      /\ \A i \in DOMAIN p : p[i] # "up"
  BY ProjectIsClean
<1> HIDE DEF n
<1>p. p \in Seq(Segs) /\ b \in Seq(Segs) /\ q = p \o b /\ n = Len(p)
  BY <1>1, <1>2, <1>3 DEF n
<1>4. /\ q \in Seq(Segs) /\ Len(q) = n + 3 /\ DOMAIN q = 1 .. Len(q) /\ SubSeq(q, 1, n) = p
  <2>1. q \in Seq(Segs) /\ Len(q) = Len(p) + Len(b) /\ SubSeq(q, 1, Len(p)) = p
    BY ONLY <1>p, Joined
  <2> QED BY ONLY <1>p, <1>1, <2>1
<1>5. \A i \in 1 .. n : q[i] = p[i]
  BY ONLY <1>p, <1>3, Joined
<1>6. q[n + 1] = "-" /\ q[n + 2] = "merge_requests" /\ q[n + 3] = "1"
  <2>1. \A i \in DOMAIN b : q[n + i] = b[i]
    BY ONLY <1>p, Joined
  <2> QED BY ONLY <1>1, <2>1
<1>7. \A i \in DOMAIN q : q[i] # "up"
  <2>1. \A i \in DOMAIN p : p[i] # "up"
    BY <1>3
  <2>2. \A i \in DOMAIN b : b[i] # "up"
    <3>1. \A i \in DOMAIN b : i = 1 \/ i = 2 \/ i = 3
      BY ONLY <1>1
    <3> QED BY ONLY <1>1, <3>1
  <2> QED BY ONLY <1>p, <2>1, <2>2, JoinedWithout
<1>8. \A i \in 1 .. n : q[i] # "-"
  BY <1>3, <1>5 DEF ProjectExists
<1>9. Clean(a)
  BY <1>4, <1>7, UrlIsClean DEF a
<1>10. a.scheme = "https" /\ a.path = q /\ a.host = host /\ a.query = "none"
  BY DEF Url, a
<1>11. Routed(q, "merge_requests") = n + 1
  <2>1. /\ n + 1 \in 2 .. Len(q) - 1 /\ q[n + 1] = "-" /\ q[(n + 1) + 1] = "merge_requests"
        /\ \A i \in 1 .. (n + 1) - 1 : q[i] # "-"
    BY ONLY <1>3, <1>4, <1>6, <1>8
  <2> QED BY ONLY <1>4, <2>1, RoutedAt
<1>12. ~\E i \in 1 .. Len(q) - 1 : q[i] = "-" /\ q[i + 1] = "compare"
  <2>1. ASSUME NEW i \in 1 .. Len(q) - 1, q[i] = "-", q[i + 1] = "compare" PROVE FALSE
    <3>1. i \in 1 .. n \/ i = n + 1 \/ i = n + 2
      BY ONLY <1>3, <1>4, i \in 1 .. Len(q) - 1
    <3>2. (n + 1) + 1 = n + 2
      BY ONLY <1>3
    <3>3. i # n + 2 /\ i # n + 1
      BY <1>6, <2>1, <3>2
    <3> QED BY <1>8, <2>1, <3>1, <3>3
  <2> QED BY <2>1
<1>13. GitlabParse(a) = MrParse(a)
  BY <1>10, <1>12 DEF GitlabParse
<1>14. MrParse(a) = Target("gitlab", host, p, 1, NoCompare)
  <2>1. a.scheme # "!"
    BY <1>10
  <2>2. n + 1 > 0 /\ Len(q) = (n + 1) + 2 /\ (n + 1) - 1 = n /\ (n + 1) + 2 = n + 3
    BY ONLY <1>3, <1>4
  <2>3. SubSeq(q, 1, (n + 1) - 1) = p /\ Number(q[(n + 1) + 2]) /\ Project(p)
    BY <1>4, <1>6, <2>2 DEF Number, ProjectExists
  <2> QED BY <1>9, <1>10, <1>11, <2>1, <2>2, <2>3, Zenon DEF MrParse
<1> QED BY <1>2, <1>13, <1>14

\* A comparison of GitLab.
LEMMA GitlabCompareIsReopened ==
  ASSUME NEW host, NEW p, ProjectExists(p),
         NEW compare, Comparison(compare), RefName(compare.base), RefName(compare.head),
         NEW range, range = compare.base \o <<IF compare.direct THEN ".." ELSE "...">> \o compare.head
  PROVE  GitlabParse(Url(host, p \o <<"-", "compare">> \o range))
           = Target("gitlab", host, p, 0, compare)
<1> DEFINE m == <<"-", "compare">>
           q == (p \o m) \o range
           a == Url(host, q)
           n == Len(p)
<1>1. /\ m \in Seq(Segs) /\ Len(m) = 2 /\ DOMAIN m = 1 .. 2 /\ m[1] = "-" /\ m[2] = "compare"
  <2>1. "-" \in Segs /\ "compare" \in Segs
    BY DEF Segs, Words
  <2> QED BY <2>1
<1>2. /\ Refs(range) = [found |-> TRUE, direct |-> compare.direct, base |-> compare.base, head |-> compare.head]
      /\ range \in Seq(Segs) /\ range # <<>> /\ \A i \in DOMAIN range : range[i] # "up"
  BY RangeIsReadBack DEF Comparison
<1>3. q = (p \o m) \o range /\ a = Url(host, p \o <<"-", "compare">> \o range)
  OBVIOUS
<1> HIDE DEF m, q, a
<1>4. /\ p \in Seq(Segs) /\ n \in Nat /\ n > 1 /\ DOMAIN p = 1 .. n
      /\ \A i \in DOMAIN p : p[i] # "up"
  BY ProjectIsClean
<1> HIDE DEF n
<1>p. p \in Seq(Segs) /\ m \in Seq(Segs) /\ range \in Seq(Segs) /\ q = (p \o m) \o range /\ n = Len(p)
  BY <1>1, <1>2, <1>3, <1>4 DEF n
<1>5. /\ q \in Seq(Segs) /\ Len(q) = n + 2 + Len(range)
      /\ SubSeq(q, 1, n) = p /\ SubSeq(q, n + 2 + 1, Len(q)) = range
  <2>1. /\ q \in Seq(Segs) /\ Len(q) = Len(p) + Len(m) + Len(range)
        /\ SubSeq(q, 1, Len(p)) = p /\ SubSeq(q, Len(p) + Len(m) + 1, Len(q)) = range
    BY ONLY <1>p, JoinedThrice
  <2>2. Len(m) = 2 /\ n = Len(p)
    BY ONLY <1>p, <1>1
  <2> QED BY ONLY <2>1, <2>2
<1>6. (\A i \in DOMAIN p : q[i] = p[i]) /\ (\A i \in DOMAIN m : q[n + i] = m[i])
  BY ONLY <1>p, JoinedThrice
<1>7. \A i \in DOMAIN q : q[i] # "up"
  <2>1. \A i \in DOMAIN p : p[i] # "up"
    BY <1>4
  <2>2. \A i \in DOMAIN m : m[i] # "up"
    <3>1. \A i \in DOMAIN m : i = 1 \/ i = 2
      BY ONLY <1>1
    <3> QED BY ONLY <1>1, <3>1
  <2>3. \A i \in DOMAIN range : range[i] # "up"
    BY <1>2
  <2> QED BY ONLY <1>p, <2>1, <2>2, <2>3, JoinedThriceWithout
<1>8. Clean(a)
  BY <1>5, <1>7, UrlIsClean DEF a
<1>9. a.scheme = "https" /\ a.path = q /\ a.host = host /\ a.query = "none"
  BY DEF Url, a
<1>10. /\ Len(q) \in Nat /\ n + 1 \in 2 .. Len(q) - 1 /\ q[n + 1] = "-" /\ q[(n + 1) + 1] = "compare"
       /\ (n + 1) + 2 = n + 2 + 1 /\ (n + 1) - 1 = n
  <2>1. Len(range) \in Nat /\ Len(range) > 0
    <3>1. range # <<>>
      BY <1>2
    <3> QED BY ONLY <1>p, <3>1
  <2>2. (n + 1) + 1 = n + 2
    BY ONLY <1>4
  <2> QED BY ONLY <1>1, <1>4, <1>5, <1>6, <2>1, <2>2
<1>11. Routed(q, "compare") = n + 1
  <2>1. \A i \in 1 .. (n + 1) - 1 : q[i] # "-"
    BY <1>4, <1>6, <1>10 DEF ProjectExists
  <2> QED BY ONLY <1>5, <1>10, <2>1, RoutedAt
<1>12. GitlabParse(a) = GitlabCompareParse(a)
  <2>1. n + 1 \in 1 .. Len(q) - 1
    BY ONLY <1>4, <1>10
  <2> QED BY <1>9, <1>10, <2>1, Zenon DEF GitlabParse
<1>13. GitlabCompareParse(a) = Target("gitlab", host, p, 0, Compare(Refs(range)))
  <2>1. From(q, (n + 1) + 2) = range /\ SubSeq(q, 1, (n + 1) - 1) = p
    BY <1>5, <1>10 DEF From
  <2>2. Refs(range).found /\ RefName(Refs(range).base) /\ RefName(Refs(range).head)
    BY <1>2
  <2>3. Project(p) /\ n + 1 > 0
    BY <1>4 DEF ProjectExists
  <2>4. a.query # "straight" /\ a.query # "crooked" /\ a.query \in {"none", "project"}
    BY <1>9
  <2>5. range # <<>>
    BY <1>2
  <2> QED BY <1>8, <1>9, <1>11, <2>1, <2>2, <2>3, <2>4, <2>5, Zenon DEF GitlabCompareParse
<1>14. Compare(Refs(range)) = compare
  <2>1. Compare(Refs(range)) = [base |-> compare.base, head |-> compare.head, direct |-> compare.direct]
    BY <1>2 DEF Compare
  <2> QED BY <2>1, Zenon DEF Comparison
<1> QED BY <1>3, <1>12, <1>13, <1>14

\* A Trail of a project, or a repository's own Change.
LEMMA TrailIsReopened ==
  ASSUME NEW p \in Seq(Segs), Len(p) = 3, p[1] \in {"et", "gh"}, Identifier(p[2]), p[2] # "-",
         p[3] = "-" \/ Identifier(p[3])
  PROVE  TrailParse(Url("entire.com", p \o <<"trails", "1">>))
           = Target("entire", "entire.com", p, 1, NoCompare)
<1> DEFINE b == <<"trails", "1">>
           q == p \o b
           a == Url("entire.com", q)
<1>1. b \in Seq(Segs) /\ Len(b) = 2 /\ DOMAIN b = 1 .. 2 /\ b[1] = "trails" /\ b[2] = "1"
  <2>1. "trails" \in Segs /\ "1" \in Segs
    BY DEF Segs, Words
  <2> QED BY <2>1
<1>2. q = p \o b /\ a = Url("entire.com", p \o <<"trails", "1">>)
  OBVIOUS
<1> HIDE DEF b, q, a
<1>p. p \in Seq(Segs) /\ b \in Seq(Segs) /\ q = p \o b
  BY <1>1, <1>2
<1>l. Len(p) = 3 /\ DOMAIN p = 1 .. 3
  OBVIOUS
<1>3. q \in Seq(Segs) /\ Len(q) = Len(p) + Len(b) /\ SubSeq(q, 1, Len(p)) = p
  BY ONLY <1>p, Joined
<1>4. (\A i \in DOMAIN p : q[i] = p[i]) /\ (\A i \in DOMAIN b : q[Len(p) + i] = b[i])
  BY ONLY <1>p, Joined
<1>5. /\ Len(q) = 5 /\ DOMAIN q = 1 .. 5 /\ SubSeq(q, 1, 3) = p
      /\ q[1] = p[1] /\ q[2] = p[2] /\ q[3] = p[3] /\ q[4] = "trails" /\ q[5] = "1"
  BY ONLY <1>1, <1>l, <1>3, <1>4
<1>6. \A i \in DOMAIN q : i \in {1, 2, 3, 4, 5}
  BY ONLY <1>5
<1>7. \A i \in DOMAIN q : q[i] # "up" /\ q[i] # "r%2Fx"
  BY <1>5, <1>6 DEF Identifier
<1>8. Clean(a)
  BY <1>3, <1>7, UrlIsClean DEF a
<1>9. a.scheme = "https" /\ a.path = q /\ a.host = "entire.com" /\ a.query = "none"
  BY DEF Url, a
<1>10. Len(q) > 4 /\ ~(Len(q) = 8) /\ Len(q) \in {5, 6} /\ ~(Len(q) = 6)
  BY ONLY <1>5
<1>11. Number(q[5]) /\ a.host \in EntireHosts /\ Identifier(q[2]) /\ q[2] # "-" /\ q[1] \in {"et", "gh"}
  BY <1>5, <1>9 DEF Number, EntireHosts
<1>12. q[3] # "-" => Identifier(q[3])
  BY <1>5
<1>13. TrailParse(a) = Target("entire", "entire.com", p, 1, NoCompare)
  <2>1. CASE q[3] = "-"
    BY <1>5, <1>7, <1>8, <1>9, <1>10, <1>11, <2>1, Zenon DEF TrailParse
  <2>2. CASE q[3] # "-"
    BY <1>5, <1>7, <1>8, <1>9, <1>10, <1>11, <1>12, <2>2, Zenon DEF TrailParse
  <2> QED BY <2>1, <2>2
<1> QED BY <1>2, <1>13

\* A Change of a Trail.
LEMMA ChangeIsReopened ==
  ASSUME NEW p \in Seq(Segs), Len(p) = 3, p[1] \in {"et", "gh"}, Identifier(p[2]), p[2] # "-", p[3] = "-",
         NEW c \in Segs, Identifier(c), c # "-"
  PROVE  TrailParse(Url("entire.com", p \o <<"trails", "1", "changes", c, "1">>))
           = Target("entire", "entire.com", p \o <<c>>, 1, NoCompare)
<1> DEFINE b == <<"trails", "1", "changes", c, "1">>
           q == p \o b
           a == Url("entire.com", q)
<1>1. /\ b \in Seq(Segs) /\ Len(b) = 5 /\ DOMAIN b = 1 .. 5
      /\ b[1] = "trails" /\ b[2] = "1" /\ b[3] = "changes" /\ b[4] = c /\ b[5] = "1"
  <2>1. "trails" \in Segs /\ "1" \in Segs /\ "changes" \in Segs
    BY DEF Segs, Words
  <2> QED BY <2>1
<1>2. q = p \o b /\ a = Url("entire.com", p \o <<"trails", "1", "changes", c, "1">>)
  OBVIOUS
<1> HIDE DEF b, q, a
<1>p. p \in Seq(Segs) /\ b \in Seq(Segs) /\ q = p \o b
  BY <1>1, <1>2
<1>l. Len(p) = 3 /\ DOMAIN p = 1 .. 3
  OBVIOUS
<1>3. q \in Seq(Segs) /\ Len(q) = Len(p) + Len(b) /\ SubSeq(q, 1, Len(p)) = p
  BY ONLY <1>p, Joined
<1>4. (\A i \in DOMAIN p : q[i] = p[i]) /\ (\A i \in DOMAIN b : q[Len(p) + i] = b[i])
  BY ONLY <1>p, Joined
<1>5. /\ Len(q) = 8 /\ DOMAIN q = 1 .. 8 /\ SubSeq(q, 1, 3) = p
      /\ q[1] = p[1] /\ q[2] = p[2] /\ q[3] = p[3] /\ q[4] = "trails" /\ q[5] = "1"
      /\ q[6] = "changes" /\ q[7] = c /\ q[8] = "1"
  <2>1. Len(q) = 8 /\ DOMAIN q = 1 .. 8 /\ SubSeq(q, 1, 3) = p
    BY ONLY <1>1, <1>l, <1>3
  <2>2. q[1] = p[1] /\ q[2] = p[2] /\ q[3] = p[3]
    BY ONLY <1>l, <1>4
  <2>3. \A i \in 1 .. 5 : q[3 + i] = b[i]
    BY ONLY <1>1, <1>l, <1>4
  <2>4. q[4] = b[1] /\ q[5] = b[2] /\ q[6] = b[3] /\ q[7] = b[4] /\ q[8] = b[5]
    BY ONLY <2>3
  <2> QED BY <1>1, <2>1, <2>2, <2>4
<1>6. \A i \in DOMAIN q : i \in {1, 2, 3, 4, 5, 6, 7, 8}
  BY ONLY <1>5
<1>7. \A i \in DOMAIN q : q[i] # "up" /\ q[i] # "r%2Fx"
  BY <1>5, <1>6 DEF Identifier
<1>8. Clean(a)
  BY <1>3, <1>7, UrlIsClean DEF a
<1>9. a.scheme = "https" /\ a.path = q /\ a.host = "entire.com" /\ a.query = "none"
  BY DEF Url, a
<1>10. Len(q) > 4 /\ ~(Len(q) = 5)
  BY ONLY <1>5
<1>11. /\ Number(q[5]) /\ Number(q[8]) /\ a.host \in EntireHosts /\ q[1] \in {"et", "gh"}
       /\ Identifier(q[2]) /\ q[2] # "-" /\ Identifier(q[7]) /\ q[7] # "-" /\ q[3] = "-"
  BY <1>5, <1>9 DEF Number, EntireHosts
<1>12. TrailParse(a) = Target("entire", "entire.com", p \o <<c>>, 1, NoCompare)
  BY <1>5, <1>7, <1>8, <1>9, <1>10, <1>11, Zenon DEF TrailParse
<1> QED BY <1>2, <1>12

\* The range a comparison is written with.
Written(c) == c.base \o <<IF c.direct THEN ".." ELSE "...">> \o c.head

\* reopen_address, provider by provider.
LEMMA ReopensAs ==
  ASSUME NEW t
  PROVE  /\ t.provider = "github" /\ t.compare # NoCompare
              => ReopenAddress(t) = Url(t.host, t.project \o <<"compare">> \o Written(t.compare))
         /\ t.provider = "gitlab" /\ t.compare # NoCompare
              => ReopenAddress(t) = Url(t.host, t.project \o <<"-", "compare">> \o Written(t.compare))
         /\ t.provider = "github" /\ t.compare = NoCompare
              => ReopenAddress(t) = Url(t.host, t.project \o <<"pull", "1">>)
         /\ t.provider = "gitlab" /\ t.compare = NoCompare
              => ReopenAddress(t) = Url(t.host, t.project \o <<"-", "merge_requests", "1">>)
         /\ t.provider = "entire" /\ Len(t.project) = 3
              => ReopenAddress(t) = Url(t.host, t.project \o <<"trails", "1">>)
         /\ t.provider = "entire" /\ Len(t.project) = 4
              => ReopenAddress(t)
                   = Url(t.host, SubSeq(t.project, 1, 3) \o <<"trails", "1", "changes", t.project[4], "1">>)
<1>1. ASSUME t.provider = "github", t.compare # NoCompare
      PROVE  ReopenAddress(t) = Url(t.host, t.project \o <<"compare">> \o Written(t.compare))
  BY <1>1 DEF ReopenAddress, Written
<1>2. ASSUME t.provider = "gitlab", t.compare # NoCompare
      PROVE  ReopenAddress(t) = Url(t.host, t.project \o <<"-", "compare">> \o Written(t.compare))
  BY <1>2 DEF ReopenAddress, Written
<1>3. ASSUME t.provider = "github", t.compare = NoCompare
      PROVE  ReopenAddress(t) = Url(t.host, t.project \o <<"pull", "1">>)
  BY <1>3 DEF ReopenAddress
<1>4. ASSUME t.provider = "gitlab", t.compare = NoCompare
      PROVE  ReopenAddress(t) = Url(t.host, t.project \o <<"-", "merge_requests", "1">>)
  BY <1>4 DEF ReopenAddress
<1>5. ASSUME t.provider = "entire", Len(t.project) = 3
      PROVE  ReopenAddress(t) = Url(t.host, t.project \o <<"trails", "1">>)
  BY <1>5 DEF ReopenAddress
<1>6. ASSUME t.provider = "entire", Len(t.project) = 4
      PROVE  ReopenAddress(t)
               = Url(t.host, SubSeq(t.project, 1, 3) \o <<"trails", "1", "changes", t.project[4], "1">>)
  BY <1>6 DEF ReopenAddress
<1> QED BY <1>1, <1>2, <1>3, <1>4, <1>5, <1>6

\* What a parser reads behind a route is a comparison that can be written again.
LEMMA ReadComparison ==
  ASSUME NEW path \in Seq(Segs), \A i \in DOMAIN path : path[i] # "up", NEW k \in Nat \ {0},
         NEW refs, refs = Refs(From(path, k)), refs.found,
         RefName(refs.base) \/ ForkRef(refs.base), RefName(refs.head) \/ ForkRef(refs.head)
  PROVE  /\ Comparison(Compare(refs)) /\ Compare(refs) # NoCompare
         /\ Compare(refs).base = refs.base /\ Compare(refs).head = refs.head
<1> DEFINE range == From(path, k)
<1>1. range \in Seq(Segs) /\ \A i \in DOMAIN range : range[i] # "up"
  <2>1. Len(path) \in Nat /\ DOMAIN path = 1 .. Len(path)
    OBVIOUS
  <2>2. CASE k =< Len(path)
    <3>1. range \in Seq(Segs)
      BY <2>1, <2>2 DEF From
    <3>2. \A i \in DOMAIN range : range[i] = path[k + i - 1] /\ k + i - 1 \in DOMAIN path
      BY <2>1, <2>2 DEF From
    <3> HIDE DEF range
    <3> QED BY <3>1, <3>2
  <2>3. CASE ~(k =< Len(path))
    <3>1. range = <<>>
      BY <2>1, <2>3, SubSeqEmpty DEF From
    <3> QED BY <3>1, EmptySeq
  <2> QED BY <2>2, <2>3
<1> HIDE DEF range
<1>2. refs = Refs(range)
  BY DEF range
<1>3. /\ refs.direct \in BOOLEAN
      /\ refs.base \in Seq(Segs \ {"r%2Fx", "up"}) /\ refs.head \in Seq(Segs \ {"r%2Fx", "up"})
  BY <1>1, <1>2, RefsAreDecoded
<1>4. /\ refs.base \in Seq(Plain) /\ refs.base # <<>>
      /\ refs.head \in Seq(Plain) /\ refs.head # <<>>
  BY <1>3, RefsArePlain
<1>5. /\ Compare(refs).base = refs.base /\ Compare(refs).head = refs.head /\ Compare(refs).direct = refs.direct
      /\ Compare(refs) = [base |-> refs.base, head |-> refs.head, direct |-> refs.direct]
  BY DEF Compare
<1>6. NoCompare.base = <<>>
  BY DEF NoCompare
<1>7. Comparison(Compare(refs))
  BY <1>3, <1>4, <1>5, Zenon DEF Comparison
<1> QED BY <1>4, <1>5, <1>6, <1>7

\* The first two segments of a path.
LEMMA FirstTwo ==
  ASSUME NEW path \in Seq(Segs), Len(path) > 2, NEW p, p = SubSeq(path, 1, 2)
  PROVE  p \in Seq(Segs) /\ Len(p) = 2 /\ p[1] = path[1] /\ p[2] = path[2]
OBVIOUS

\* A clean URL has no relative segment.
LEMMA CleanPath ==
  ASSUME NEW a, a.path \in Seq(Segs), Clean(a)
  PROVE  \A i \in DOMAIN a.path : a.path[i] # "up"
BY FirstNone DEF Clean

\* What GitHub's parser accepted is reopened as itself.
LEMMA GithubIsReopened ==
  ASSUME NEW a, a.path \in Seq(Segs), NEW t, t = GithubParse(a), t # None
  PROVE  t.provider = "github" /\ GithubParse(ReopenAddress(t)) = t
<1> DEFINE p == a.path
           two == SubSeq(p, 1, 2)
<1>0. p \in Seq(Segs)
  OBVIOUS
<1>1. CASE a.scheme = "https" /\ Len(a.path) > 2 /\ a.path[3] = "compare"
  <2> DEFINE refs == Refs(From(p, 4))
             c == Compare(refs)
  <2>1. t = CompareParse(a)
    BY <1>1 DEF GithubParse
  <2>2. /\ Clean(a) /\ Identifier(p[1]) /\ Identifier(p[2])
        /\ refs.found /\ ForkRef(refs.base) /\ ForkRef(refs.head)
        /\ t = Target("github", a.host, two, 0, c)
    BY <2>1, Zenon DEF CompareParse
  <2>3. t.provider = "github" /\ t.host = a.host /\ t.project = two /\ t.compare = c
    BY <2>2 DEF Target
  <2>4. \A i \in DOMAIN p : p[i] # "up"
    BY <2>2, CleanPath
  <2>5. two \in Seq(Segs) /\ Len(two) = 2 /\ two[1] = p[1] /\ two[2] = p[2]
    BY <1>0, <1>1, FirstTwo
  <2>6. refs = Refs(From(p, 4)) /\ c = Compare(refs)
    OBVIOUS
  <2> HIDE DEF refs, p, c, two
  <2>7. Comparison(Compare(refs)) /\ Compare(refs) # NoCompare
        /\ Compare(refs).base = refs.base /\ Compare(refs).head = refs.head
    <3>1. 4 \in Nat \ {0}
      OBVIOUS
    <3>2. (RefName(refs.base) \/ ForkRef(refs.base)) /\ (RefName(refs.head) \/ ForkRef(refs.head)) /\ refs.found
      BY <2>2
    <3>3. refs = Refs(From(p, 4))
      BY <2>6
    <3> QED BY ONLY <1>0, <2>4, <3>1, <3>2, <3>3, ReadComparison
  <2>8. ReopenAddress(t) = Url(a.host, two \o <<"compare">> \o Written(c))
    <3>1. t.compare # NoCompare
      BY <2>3, <2>6, <2>7
    <3>2. ReopenAddress(t) = Url(t.host, t.project \o <<"compare">> \o Written(t.compare))
      BY <2>3, <3>1, ReopensAs
    <3> QED BY <2>3, <3>2
  <2>9. GithubParse(Url(a.host, two \o <<"compare">> \o Written(c))) = Target("github", a.host, two, 0, c)
    <3>1. /\ Comparison(c) /\ ForkRef(c.base) /\ ForkRef(c.head)
          /\ Identifier(two[1]) /\ Identifier(two[2]) /\ two \in Seq(Segs) /\ Len(two) = 2
      BY <2>2, <2>5, <2>6, <2>7
    <3>2. Written(c) = c.base \o <<IF c.direct THEN ".." ELSE "...">> \o c.head
      BY DEF Written
    <3> HIDE DEF Written
    <3> QED BY ONLY <3>1, <3>2, GithubCompareIsReopened
  <2> QED BY <2>2, <2>3, <2>8, <2>9 DEF c, two, refs, p
<1>2. CASE ~(a.scheme = "https" /\ Len(a.path) > 2 /\ a.path[3] = "compare")
  <2> DEFINE short == a.scheme = "#" /\ Len(p) = 3
             host == IF short THEN "github.com" ELSE a.host
  <2>1. t = PrParse(a)
    BY <1>2, Zenon DEF GithubParse
  <2>2. /\ Len(p) = 3 \/ Len(p) \in {4, 5}
        /\ Identifier(p[1]) /\ Identifier(p[2])
        /\ t = Target("github", host, two, 1, NoCompare)
    BY <2>1, Zenon DEF PrParse
  <2>3. t.provider = "github" /\ t.host = host /\ t.project = two /\ t.compare = NoCompare
    BY <2>2 DEF Target
  <2>4. two \in Seq(Segs) /\ Len(two) = 2 /\ two[1] = p[1] /\ two[2] = p[2]
    <3>0. Len(p) = 3 \/ Len(p) \in {4, 5}
      BY <2>2, Zenon
    <3>1. Len(p) > 2
      <4>1. \A l \in Nat : l = 3 \/ l \in {4, 5} => l > 2
        BY ONLY TRUE
      <4>2. Len(p) \in Nat
        BY <1>0
      <4> QED BY ONLY <3>0, <4>1, <4>2, Zenon
    <3> QED BY <1>0, <3>1, FirstTwo
  <2> HIDE DEF p, two, host
  <2>5. ReopenAddress(t) = Url(host, two \o <<"pull", "1">>)
    <3>1. ReopenAddress(t) = Url(t.host, t.project \o <<"pull", "1">>)
      BY <2>3, ReopensAs
    <3> QED BY <2>3, <3>1
  <2>6. GithubParse(Url(host, two \o <<"pull", "1">>)) = Target("github", host, two, 1, NoCompare)
    <3>1. Identifier(two[1]) /\ Identifier(two[2]) /\ two \in Seq(Segs) /\ Len(two) = 2
      BY <2>2, <2>4
    <3> QED BY ONLY <3>1, PullIsReopened
  <2> QED BY <2>2, <2>3, <2>5, <2>6
<1> QED BY <1>1, <1>2

\* The start of a path, in front of a route.
LEMMA Ahead ==
  ASSUME NEW path \in Seq(Segs), NEW k, k \in 1 .. Len(path), NEW p, p = SubSeq(path, 1, k - 1)
  PROVE  p \in Seq(Segs)
OBVIOUS

\* A route that was found lies inside the path.
LEMMA RoutedInside ==
  ASSUME NEW path \in Seq(Segs), NEW route, Routed(path, route) > 0
  PROVE  /\ Routed(path, route) \in 2 .. Len(path) - 1 /\ Routed(path, route) \in 1 .. Len(path)
         /\ path[Routed(path, route)] = "-" /\ path[Routed(path, route) + 1] = route
<1> DEFINE At == {i \in 2 .. Len(path) - 1 : path[i] = "-" /\ path[i + 1] = route}
           Smallest(i) == \A j \in At : i =< j
<1>1. Routed(path, route) = IF At = {} THEN 0 ELSE CHOOSE i \in At : Smallest(i)
  BY DEF Routed
<1>2. Len(path) \in Nat /\ \A i \in At : i \in Nat
  OBVIOUS
<1>3. At # {}
  <2> HIDE DEF At, Smallest
  <2> QED BY <1>1
<1>4. \E i \in At : Smallest(i)
  <2>1. At \subseteq Nat
    BY <1>2
  <2> HIDE DEF At
  <2> QED BY <1>3, <2>1, Least
<1>5. Routed(path, route) \in At
  <2> HIDE DEF At, Smallest
  <2> QED BY <1>1, <1>3, <1>4
<1>6. \A i \in At : i \in 2 .. Len(path) - 1 /\ i \in 1 .. Len(path) /\ path[i] = "-" /\ path[i + 1] = route
  BY <1>2
<1> HIDE DEF At
<1> QED BY <1>5, <1>6

\* What GitLab's parser accepted is reopened as itself, for a project that
\* exists.
LEMMA GitlabIsReopened ==
  ASSUME NEW a, a.path \in Seq(Segs), NEW t, t = GitlabParse(a), t # None, Exists(t)
  PROVE  t.provider = "gitlab" /\ GitlabParse(ReopenAddress(t)) = t
<1> DEFINE p == a.path
<1>0. p \in Seq(Segs)
  OBVIOUS
<1>1. CASE a.scheme = "https" /\ \E i \in 1 .. Len(a.path) - 1 : a.path[i] = "-" /\ a.path[i + 1] = "compare"
  <2> DEFINE at == Routed(p, "compare")
             tail == From(p, at + 2)
             refs == IF tail # <<>> THEN Refs(tail)
                     ELSE [found |-> a.query \in {"refs", "refs straight"}, direct |-> a.query = "refs straight",
                           base |-> <<"x">>, head |-> <<"y">>]
             c == Compare(refs)
             front == SubSeq(p, 1, at - 1)
  <2>1. t = GitlabCompareParse(a)
    BY <1>1, Zenon DEF GitlabParse
  <2>2. /\ Clean(a) /\ at > 0 /\ refs.found /\ RefName(refs.base) /\ RefName(refs.head) /\ Project(front)
        /\ t = Target("gitlab", a.host, front, 0, c)
    BY <2>1, Zenon DEF GitlabCompareParse
  <2>3. t.provider = "gitlab" /\ t.host = a.host /\ t.project = front /\ t.compare = c
    <3>1. t = Target("gitlab", a.host, front, 0, c)
      BY <2>2
    <3> HIDE DEF c, front
    <3> QED BY ONLY <3>1 DEF Target
  <2>4. \A i \in DOMAIN p : p[i] # "up"
    BY <2>2, CleanPath
  <2>5. at \in 1 .. Len(p) /\ at \in 2 .. Len(p) - 1
    <3> HIDE DEF p
    <3> QED BY <1>0, <2>2, RoutedInside
  <2>6. refs.direct \in BOOLEAN /\ c = Compare(refs) /\ front = SubSeq(p, 1, at - 1) /\ tail = From(p, at + 2)
        /\ (tail # <<>> => refs = Refs(tail)) /\ (tail = <<>> => refs.base = <<"x">> /\ refs.head = <<"y">>)
        /\ (tail = <<>> => refs.direct \in BOOLEAN)
    <3>1. tail = <<>> => refs.base = <<"x">> /\ refs.head = <<"y">> /\ refs.direct \in BOOLEAN
      <4> HIDE DEF tail
      <4> QED OBVIOUS
    <3>2. tail # <<>> => refs = Refs(tail)
      BY Zenon
    <3>3. Refs(tail).direct \in BOOLEAN
      <4> HIDE DEF tail
      <4> QED BY DEF Refs
    <3> HIDE DEF tail, refs
    <3> QED BY <3>1, <3>2, <3>3 DEF tail
  <2> HIDE DEF refs, p, c, front, tail, at
  <2>7. Comparison(c) /\ c # NoCompare /\ RefName(c.base) /\ RefName(c.head)
    <3>1. CASE tail # <<>>
      <4>1. refs = Refs(From(p, at + 2)) /\ refs.found
        BY <2>2, <2>6, <3>1
      <4>2. at + 2 \in Nat \ {0}
        BY ONLY <1>0, <2>5
      <4>3. (RefName(refs.base) \/ ForkRef(refs.base)) /\ (RefName(refs.head) \/ ForkRef(refs.head))
        BY <2>2
      <4>4. /\ Comparison(Compare(refs)) /\ Compare(refs) # NoCompare
            /\ Compare(refs).base = refs.base /\ Compare(refs).head = refs.head
        BY ONLY <1>0, <2>4, <4>1, <4>2, <4>3, ReadComparison
      <4> QED BY <2>2, <2>6, <4>4
    <3>2. CASE tail = <<>>
      <4>1. "x" \in Plain /\ "y" \in Plain
        BY DEF Plain, Segs, Words, Dots
      <4>2. <<"x">> \in Seq(Plain) /\ <<"x">> # <<>> /\ <<"y">> \in Seq(Plain) /\ <<"y">> # <<>>
        BY <4>1
      <4>3. /\ c.base = refs.base /\ c.head = refs.head /\ c.direct = refs.direct
            /\ c = [base |-> refs.base, head |-> refs.head, direct |-> refs.direct]
        BY <2>6 DEF Compare
      <4>4. refs.base = <<"x">> /\ refs.head = <<"y">> /\ refs.direct \in BOOLEAN
        BY <2>6, <3>2
      <4>5. Comparison(c)
        BY <4>2, <4>3, <4>4, Zenon DEF Comparison
      <4>6. NoCompare.base = <<>>
        BY DEF NoCompare
      <4>7. c # NoCompare
        BY <4>2, <4>3, <4>4, <4>6, Zenon
      <4> QED BY <2>2, <4>3, <4>5, <4>7
    <3> QED BY <3>1, <3>2
  <2>8. ProjectExists(front)
    <3>1. front \in Seq(Segs)
      BY ONLY <1>0, <2>5, <2>6, Ahead
    <3>2. \A i \in DOMAIN front : front[i] # "-"
      BY <2>3 DEF Exists
    <3> QED BY <2>2, <3>1, <3>2 DEF ProjectExists
  <2>9. ReopenAddress(t) = Url(a.host, front \o <<"-", "compare">> \o Written(c))
    <3>1. t.compare # NoCompare
      BY <2>3, <2>7
    <3>2. ReopenAddress(t) = Url(t.host, t.project \o <<"-", "compare">> \o Written(t.compare))
      BY <2>3, <3>1, ReopensAs
    <3> QED BY <2>3, <3>2
  <2>10. GitlabParse(Url(a.host, front \o <<"-", "compare">> \o Written(c))) = Target("gitlab", a.host, front, 0, c)
    <3>1. Comparison(c) /\ RefName(c.base) /\ RefName(c.head) /\ ProjectExists(front)
      BY <2>7, <2>8
    <3>2. Written(c) = c.base \o <<IF c.direct THEN ".." ELSE "...">> \o c.head
      BY DEF Written
    <3> HIDE DEF Written
    <3> QED BY ONLY <3>1, <3>2, GitlabCompareIsReopened
  <2>11. t = Target("gitlab", a.host, front, 0, c)
    BY <2>2
  <2> QED BY <2>3, <2>9, <2>10, <2>11
<1>2. CASE ~(a.scheme = "https" /\ \E i \in 1 .. Len(a.path) - 1 : a.path[i] = "-" /\ a.path[i + 1] = "compare")
  <2> DEFINE short == a.scheme = "!" /\ p # <<>>
             at == IF short THEN Len(p) ELSE Routed(p, "merge_requests")
             host == IF short THEN "gitlab.com" ELSE a.host
             front == SubSeq(p, 1, at - 1)
  <2>1. t = MrParse(a)
    BY <1>2, Zenon DEF GitlabParse
  <2>2. /\ short \/ at > 0
        /\ Project(front)
        /\ t = Target("gitlab", host, front, 1, NoCompare)
    BY <2>1, Zenon DEF MrParse
  <2>3. t.provider = "gitlab" /\ t.host = host /\ t.project = front /\ t.compare = NoCompare
    <3> HIDE DEF host, front
    <3> QED BY <2>2 DEF Target
  <2>4. at \in 1 .. Len(p)
    <3>1. CASE short
      <4>1. p # <<>> /\ at = Len(p)
        BY <3>1
      <4> HIDE DEF p, short
      <4> QED BY ONLY <1>0, <4>1
    <3>2. CASE ~short
      <4>1. at = Routed(p, "merge_requests") /\ at > 0
        BY <2>2, <3>2, Zenon
      <4> HIDE DEF p, at
      <4> QED BY ONLY <1>0, <4>1, RoutedInside
    <3> QED BY <3>1, <3>2
  <2>5. front = SubSeq(p, 1, at - 1)
    OBVIOUS
  <2> HIDE DEF p, front, host, at
  <2>6. ProjectExists(front)
    <3>1. front \in Seq(Segs)
      BY ONLY <1>0, <2>4, <2>5, Ahead
    <3>2. \A i \in DOMAIN front : front[i] # "-"
      BY <2>3 DEF Exists
    <3> QED BY <2>2, <3>1, <3>2 DEF ProjectExists
  <2>7. ReopenAddress(t) = Url(host, front \o <<"-", "merge_requests", "1">>)
    <3>1. ReopenAddress(t) = Url(t.host, t.project \o <<"-", "merge_requests", "1">>)
      BY <2>3, ReopensAs
    <3> QED BY <2>3, <3>1
  <2>8. GitlabParse(Url(host, front \o <<"-", "merge_requests", "1">>)) = Target("gitlab", host, front, 1, NoCompare)
    BY <2>6, MergeRequestIsReopened
  <2> QED BY <2>2, <2>3, <2>7, <2>8
<1> QED BY <1>1, <1>2

\* What Entire's parser accepted is reopened as itself.
LEMMA EntireIsReopened ==
  ASSUME NEW a, a.path \in Seq(Segs), NEW t, t = TrailParse(a), t # None
  PROVE  t.provider = "entire" /\ TrailParse(ReopenAddress(t)) = t
<1> DEFINE p == a.path
           front == SubSeq(p, 1, 3)
           trail == p[3] = "-" /\ Len(p) = 5
           change == /\ p[3] = "-" /\ Len(p) = 8
                     /\ p[6] = "changes" /\ Identifier(p[7]) /\ p[7] # "-" /\ Number(p[8])
           own == /\ p[3] # "-" /\ Identifier(p[3]) /\ Len(p) \in {5, 6}
                  /\ (Len(p) = 6 => Identifier(p[6]) /\ p[6] # "-")
<1>1. /\ Len(p) > 4 /\ p[1] \in {"et", "gh"} /\ Identifier(p[2]) /\ p[2] # "-"
      /\ \/ trail /\ t = Target("entire", "entire.com", front, 1, NoCompare)
         \/ change /\ t = Target("entire", "entire.com", front \o <<p[7]>>, 1, NoCompare)
         \/ own /\ t = Target("entire", "entire.com", front, 1, NoCompare)
  <2> DEFINE known == /\ Clean(a) /\ a.query = "none" /\ a.host \in EntireHosts
                      /\ \A i \in DOMAIN p : p[i] # "r%2Fx"
                      /\ Len(p) > 4 /\ p[1] \in {"et", "gh"} /\ Identifier(p[2]) /\ p[2] # "-"
                      /\ p[4] = "trails" /\ Number(p[5])
             plain == Target("entire", "entire.com", front, 1, NoCompare)
             longer == Target("entire", "entire.com", front \o <<p[7]>>, 1, NoCompare)
  <2>1. t = CASE ~known -> None
              [] known /\ trail  -> plain
              [] known /\ change -> longer
              [] known /\ own    -> plain
              [] OTHER -> None
    BY Zenon DEF TrailParse
  <2>2. ~(trail /\ change) /\ ~(trail /\ own) /\ ~(change /\ own)
    OBVIOUS
  <2>3. known => Len(p) > 4 /\ p[1] \in {"et", "gh"} /\ Identifier(p[2]) /\ p[2] # "-"
    BY Zenon
  <2> HIDE DEF known, trail, change, own, plain, longer
  <2>4. known /\ ((trail /\ t = plain) \/ (change /\ t = longer) \/ (own /\ t = plain))
    BY <2>1, <2>2
  <2> QED BY <2>3, <2>4 DEF plain, longer
<1>0. p \in Seq(Segs) /\ Len(p) \in Nat /\ Len(p) > 4
  BY <1>1
<1>2. front \in Seq(Segs) /\ Len(front) = 3 /\ front[1] = p[1] /\ front[2] = p[2] /\ front[3] = p[3]
  <2>1. front = SubSeq(p, 1, 3)
    OBVIOUS
  <2> HIDE DEF p, front
  <2> QED BY ONLY <1>0, <2>1
<1>3. CASE t = Target("entire", "entire.com", front, 1, NoCompare) /\ (trail \/ own)
  <2>1. t.provider = "entire" /\ t.host = "entire.com" /\ t.project = front
    <3>1. t = Target("entire", "entire.com", front, 1, NoCompare)
      BY <1>3
    <3> HIDE DEF front
    <3> QED BY ONLY <3>1 DEF Target
  <2>2. front[3] = "-" \/ Identifier(front[3])
    BY <1>2, <1>3, Zenon
  <2>3. front[1] \in {"et", "gh"} /\ Identifier(front[2]) /\ front[2] # "-"
    BY <1>1, <1>2, Zenon
  <2> HIDE DEF front, p
  <2>4. ReopenAddress(t) = Url("entire.com", front \o <<"trails", "1">>)
    <3>1. ReopenAddress(t) = Url(t.host, t.project \o <<"trails", "1">>)
      BY <1>2, <2>1, ReopensAs
    <3> QED BY <2>1, <3>1
  <2>5. TrailParse(Url("entire.com", front \o <<"trails", "1">>)) = Target("entire", "entire.com", front, 1, NoCompare)
    BY ONLY <1>2, <2>2, <2>3, TrailIsReopened
  <2> QED BY <1>3, <2>1, <2>4, <2>5
<1>4. CASE t = Target("entire", "entire.com", front \o <<p[7]>>, 1, NoCompare) /\ change
  <2> DEFINE c == p[7]
             whole == front \o <<c>>
  <2>1. t.provider = "entire" /\ t.host = "entire.com" /\ t.project = whole
    <3>1. t = Target("entire", "entire.com", whole, 1, NoCompare)
      BY <1>4
    <3> HIDE DEF whole
    <3> QED BY ONLY <3>1 DEF Target
  <2>2. c \in Segs
    <3>1. Len(p) = 8
      BY <1>4, Zenon
    <3>2. c = p[7]
      OBVIOUS
    <3>3. p \in Seq(Segs) /\ 7 \in 1 .. Len(p)
      BY <1>0, <3>1
    <3>4. \A i \in 1 .. Len(p) : p[i] \in Segs
      BY <1>0
    <3> QED BY ONLY <3>2, <3>3, <3>4, Zenon
  <2>3. front[3] = "-" /\ Identifier(c) /\ c # "-"
    BY <1>2, <1>4, Zenon
  <2>4. front[1] \in {"et", "gh"} /\ Identifier(front[2]) /\ front[2] # "-"
    BY <1>1, <1>2, Zenon
  <2> HIDE DEF front, p, c
  <2>5. Len(whole) = 4 /\ SubSeq(whole, 1, 3) = front /\ whole[4] = c
    <3> DEFINE last == <<c>>
    <3>1. last \in Seq(Segs) /\ Len(last) = 1 /\ last[1] = c /\ whole = front \o last
      BY ONLY <2>2
    <3>2. front \in Seq(Segs) /\ last \in Seq(Segs) /\ whole = front \o last
      BY <1>2, <3>1
    <3>l. Len(front) = 3 /\ 1 \in DOMAIN last
      BY <1>2
    <3> HIDE DEF last, whole
    <3>3. Len(whole) = Len(front) + Len(last) /\ SubSeq(whole, 1, Len(front)) = front
      BY ONLY <3>2, Joined
    <3>4. \A i \in DOMAIN last : whole[Len(front) + i] = last[i]
      BY ONLY <3>2, Joined
    <3> QED BY ONLY <3>1, <3>l, <3>3, <3>4
  <2> HIDE DEF whole
  <2>6. ReopenAddress(t) = Url("entire.com", front \o <<"trails", "1", "changes", c, "1">>)
    <3>1. ReopenAddress(t)
            = Url(t.host, SubSeq(t.project, 1, 3) \o <<"trails", "1", "changes", t.project[4], "1">>)
      BY <2>1, <2>5, ReopensAs
    <3> QED BY <2>1, <2>5, <3>1
  <2>7. TrailParse(Url("entire.com", front \o <<"trails", "1", "changes", c, "1">>))
          = Target("entire", "entire.com", front \o <<c>>, 1, NoCompare)
    BY ONLY <1>2, <2>2, <2>3, <2>4, ChangeIsReopened
  <2>8. t = Target("entire", "entire.com", front \o <<c>>, 1, NoCompare)
    BY <1>4 DEF c
  <2> QED BY <2>1, <2>6, <2>7, <2>8
<1> QED BY <1>1, <1>3, <1>4, Zenon

\* What a provider loaded is what its own parser makes of the reopened address.
LEMMA TargetIsReopened ==
  ASSUME NEW v, NEW a, a.path \in Seq(Segs), NEW t, t = ParseBy(v, a), t # None, Exists(t)
  PROVE  ParseBy(t.provider, ReopenAddress(t)) = t
<1>1. CASE v = "github"
  <2>1. t = GithubParse(a)
    BY <1>1 DEF ParseBy
  <2>2. t.provider = "github" /\ GithubParse(ReopenAddress(t)) = t
    BY <2>1, GithubIsReopened
  <2> QED BY <2>2 DEF ParseBy
<1>2. CASE v = "gitlab"
  <2>1. t = GitlabParse(a)
    BY <1>2 DEF ParseBy
  <2>2. t.provider = "gitlab" /\ GitlabParse(ReopenAddress(t)) = t
    BY <2>1, GitlabIsReopened
  <2> QED BY <2>2 DEF ParseBy
<1>3. CASE v = "entire"
  <2>1. t = TrailParse(a)
    BY <1>3 DEF ParseBy
  <2>2. t.provider = "entire" /\ TrailParse(ReopenAddress(t)) = t
    BY <2>1, EntireIsReopened
  <2> QED BY <2>2 DEF ParseBy
<1>4. CASE v \notin {"github", "gitlab", "entire"}
  BY <1>4 DEF ParseBy
<1> QED BY <1>1, <1>2, <1>3, <1>4

-----------------------------------------------------------------------------
(* Addresses: what was named is what the window opens.                     *)

\* A path of the enumerated texts is a sequence of segments.
LEMMA RoutesAreSegments ==
  ASSUME NEW r \in Routes
  PROVE  r \in Seq(Segs)
<1>1. Words \subseteq Segs
  BY DEF Segs
<1>2. \A s \in Ranges : s \in Seq(Words)
  <2>1. /\ <<"x", "...", "y">> \in Seq(Words) /\ <<"x", "..", "y">> \in Seq(Words)
        /\ <<"o:x", "...", "y">> \in Seq(Words) /\ <<"r%2Fx", "..", "y">> \in Seq(Words)
        /\ <<"-", "...", "y">> \in Seq(Words) /\ <<"x">> \in Seq(Words)
    BY DEF Words
  <2>2. <<"x", "...", "y", "..", "x">> \in Seq(Words) /\ <<>> \in Seq(Words)
    BY DEF Words
  <2> QED BY <2>1, <2>2 DEF Ranges
<1>3. <<"compare">> \in Seq(Words) /\ <<"-", "compare">> \in Seq(Words)
  BY DEF Words
<1>4. /\ <<"pull", "1">> \in Seq(Words) /\ <<"pull", "1", "files">> \in Seq(Words)
      /\ <<"pull", "1", "x">> \in Seq(Words) /\ <<"pull", "0">> \in Seq(Words) /\ <<"1">> \in Seq(Words)
  BY DEF Words
<1>5. /\ <<"-", "merge_requests", "1">> \in Seq(Words) /\ <<"-", "merge_requests", "1", "diffs">> \in Seq(Words)
      /\ <<"-", "merge_requests", "1", "x">> \in Seq(Words) /\ <<"-", "merge_requests", "0">> \in Seq(Words)
  BY DEF Words
<1>6. /\ <<"trails", "1">> \in Seq(Words) /\ <<"trails", "1", "x">> \in Seq(Words)
      /\ <<"-", "trails", "1">> \in Seq(Words) /\ <<"-", "trails", "0">> \in Seq(Words)
      /\ <<"-", "trails", "1", "up">> \in Seq(Words)
  BY DEF Words
<1>7. <<"-", "trails", "1", "changes", "x", "1">> \in Seq(Words)
  BY DEF Words
<1>8. \A s \in Ranges : <<"compare">> \o s \in Seq(Words) /\ <<"-", "compare">> \o s \in Seq(Words)
  <2>1. \A u, s \in Seq(Words) : u \o s \in Seq(Words)
    OBVIOUS
  <2> QED BY <1>2, <1>3, <2>1, Zenon
<1>9. r \in Seq(Words)
  BY <1>4, <1>5, <1>6, <1>7, <1>8, Zenon DEF Routes
<1> QED BY <1>1, <1>9, SeqMonotonic

LEMMA ProjectsAreSegments ==
  ASSUME NEW p \in Projects
  PROVE  p \in Seq(Segs)
<1>1. PICK n \in 1 .. MaxDepth : p \in [1 .. n -> Owners]
  BY DEF Projects
<1>2. n \in Nat
  BY <1>1, AddressesAssumption
<1>3. p \in Seq(Owners)
  BY <1>1, <1>2, SeqDef
<1>4. Owners \subseteq Segs
  BY DEF Segs
<1> QED BY <1>3, <1>4, SeqMonotonic

LEMMA PathsAreSegments ==
  ASSUME NEW P, NEW R, P \subseteq Projects, R \subseteq Seq(Segs), NEW path \in Paths(P, R)
  PROVE  path \in Seq(Segs)
<1>1. PICK p \in P : path \in {p \o r : r \in R}
  BY Zenon DEF Paths
<1>2. PICK r \in R : path = p \o r
  BY <1>1, Zenon
<1>3. p \in Seq(Segs) /\ r \in Seq(Segs)
  BY ProjectsAreSegments
<1> QED BY <1>2, <1>3

LEMMA TextsAreSegments ==
  ASSUME NEW a \in Texts
  PROVE  a.path \in Seq(Segs)
<1> DEFINE plain == {<<"a">>, <<"a", "a">>} \cap Projects
           digits == {<<"0">>, <<"1">>}
<1>1. a.path \in Paths(Projects, Routes) \/ a.path \in Paths(plain, Routes) \/ a.path \in Paths(Projects, digits)
  <2> HIDE DEF plain, digits
  <2> QED BY DEF Texts, plain, digits
<1>2. Routes \subseteq Seq(Segs)
  BY RoutesAreSegments
<1>3. digits \subseteq Seq(Segs)
  <2>1. "0" \in Segs /\ "1" \in Segs
    BY DEF Segs, Words
  <2>2. <<"0">> \in Seq(Segs) /\ <<"1">> \in Seq(Segs)
    BY <2>1
  <2> QED BY <2>2
<1>4. plain \subseteq Projects /\ Projects \subseteq Projects
  OBVIOUS
<1> HIDE DEF plain, digits
<1> QED BY <1>1, <1>2, <1>3, <1>4, PathsAreSegments

\* A pull request of GitHub is never a comparison of GitLab.
LEMMA PullIsNoCompare ==
  ASSUME NEW a, a.path \in Seq(Segs), GithubParse(a) # None, GithubParse(a).compare = NoCompare
  PROVE  GitlabParse(a) = None \/ GitlabParse(a).compare = NoCompare
<1> DEFINE p == a.path
           behind == \E i \in 1 .. Len(p) - 1 : p[i] = "-" /\ p[i + 1] = "compare"
<1>0. p \in Seq(Segs)
  OBVIOUS
<1>1. ~(a.scheme = "https" /\ Len(p) > 2 /\ p[3] = "compare")
  <2>1. SUFFICES ASSUME a.scheme = "https", Len(p) > 2, p[3] = "compare" PROVE FALSE
    OBVIOUS
  <2> DEFINE refs == Refs(From(p, 4))
             c == Compare(refs)
  <2>2. GithubParse(a) = CompareParse(a)
    BY <2>1 DEF GithubParse
  <2>3. /\ Clean(a) /\ refs.found /\ ForkRef(refs.base) /\ ForkRef(refs.head)
        /\ CompareParse(a) = Target("github", a.host, SubSeq(p, 1, 2), 0, c)
    BY <2>2, Zenon DEF CompareParse
  <2>4. \A i \in DOMAIN p : p[i] # "up"
    BY <2>3, CleanPath
  <2>5. refs = Refs(From(p, 4)) /\ c = Compare(refs) /\ 4 \in Nat \ {0}
    OBVIOUS
  <2>6. CompareParse(a).compare = c
    <3>1. CompareParse(a) = Target("github", a.host, SubSeq(p, 1, 2), 0, c)
      BY <2>3
    <3> HIDE DEF c
    <3> QED BY ONLY <3>1 DEF Target
  <2> HIDE DEF refs, c, p
  <2>7. (RefName(refs.base) \/ ForkRef(refs.base)) /\ (RefName(refs.head) \/ ForkRef(refs.head)) /\ refs.found
    BY <2>3
  <2>8. Compare(refs) # NoCompare
    BY ONLY <1>0, <2>4, <2>5, <2>7, ReadComparison
  <2> QED BY <2>2, <2>5, <2>6, <2>8
<1>2. GithubParse(a) = PrParse(a)
  BY <1>1, Zenon DEF GithubParse
<1>3. \/ a.scheme = "#"
      \/ Len(p) \in {4, 5} /\ p[3] = "pull" /\ Number(p[4])
  <2>1. CASE a.scheme = "#"
    BY <2>1
  <2>2. CASE a.scheme # "#"
    BY <1>2, <2>2, Zenon DEF PrParse
  <2> QED BY <2>1, <2>2
<1>4. ~(a.scheme = "https" /\ GitlabParse(a) = GitlabCompareParse(a) /\ GitlabParse(a) # None)
  <2>1. SUFFICES ASSUME a.scheme = "https", GitlabCompareParse(a) # None PROVE FALSE
    OBVIOUS
  <2> DEFINE k == Routed(p, "compare")
  <2>2. k > 0
    BY <2>1, Zenon DEF GitlabCompareParse
  <2>3. Len(p) \in {4, 5} /\ p[3] = "pull" /\ p[4] = "1"
    BY <1>3, <2>1 DEF Number
  <2>l. Len(p) = 4 \/ Len(p) = 5
    BY <2>3, Zenon
  <2> HIDE DEF p
  <2>4. k \in 2 .. Len(p) - 1 /\ p[k] = "-" /\ p[k + 1] = "compare"
    BY <1>0, <2>2, RoutedInside
  <2> HIDE DEF k
  <2>5. k = 2 \/ k = 3 \/ k = 4
    BY ONLY <2>4, <2>l
  <2>6. 2 + 1 = 3 /\ 3 + 1 = 4
    OBVIOUS
  <2> QED BY ONLY <2>3, <2>4, <2>5, <2>6
<1>5. GitlabParse(a) = MrParse(a) \/ (a.scheme = "https" /\ GitlabParse(a) = GitlabCompareParse(a))
  BY Zenon DEF GitlabParse
<1>6. MrParse(a) = None \/ MrParse(a).compare = NoCompare
  <2>1. MrParse(a) = None \/ \E host, front : MrParse(a) = Target("gitlab", host, front, 1, NoCompare)
    BY Zenon DEF MrParse
  <2>2. \A host, front : Target("gitlab", host, front, 1, NoCompare).compare = NoCompare
    BY DEF Target
  <2> QED BY <2>1, <2>2, Zenon
<1> QED BY <1>4, <1>5, <1>6

\* What a parse of the command line yields is about the address it was given.
Providers == {"github", "gitlab", "entire", "patch"}
IsAbout(r, a) == r # None => r.address = a /\ r.provider \in Providers

LEMMA RequestIsAbout ==
  ASSUME NEW a
  PROVE  /\ \A v \in Providers : IsAbout(Remote(v, a), a) /\ Remote(v, a) # None
                                 /\ Remote(v, a).provider = v /\ Remote(v, a).address = a
         /\ Patch(a) = Remote("patch", a) /\ IsAbout(None, a)
<1>1. ASSUME NEW v \in Providers
      PROVE  Remote(v, a).provider = v /\ Remote(v, a).address = a
  BY DEF Remote
<1>2. None.provider = "none" /\ "none" \notin Providers
  BY DEF None, Providers
<1>3. ASSUME NEW v \in Providers PROVE Remote(v, a) # None
  BY <1>1, <1>2
<1>4. Patch(a) = Remote("patch", a)
  BY DEF Patch, Remote
<1> QED BY <1>1, <1>3, <1>4, Zenon DEF IsAbout

LEMMA DetectedIsAbout ==
  ASSUME NEW a
  PROVE  /\ DetectSource(a) \in {None, Remote("patch", a), Remote("entire", a), Remote("github", a), Remote("gitlab", a)}
         /\ CompareRequest(a) \in {None, Remote("github", a), Remote("gitlab", a)}
         /\ IsAbout(DetectSource(a), a) /\ IsAbout(CompareRequest(a), a)
<1>1. DetectSource(a) \in {None, Remote("patch", a), Remote("entire", a), Remote("github", a), Remote("gitlab", a)}
  BY RequestIsAbout DEF DetectSource
<1>2. CompareRequest(a) \in {None, Remote("github", a), Remote("gitlab", a)}
  BY DEF CompareRequest
<1>3. /\ IsAbout(None, a) /\ IsAbout(Remote("patch", a), a) /\ IsAbout(Remote("entire", a), a)
      /\ IsAbout(Remote("github", a), a) /\ IsAbout(Remote("gitlab", a), a)
  BY RequestIsAbout DEF Providers
<1> QED BY <1>1, <1>2, <1>3, Zenon

Flags == (Ways \ {"paste"}) \cup {"--patch"}

LEMMA ParsedIsAbout ==
  ASSUME NEW a, NEW flag \in Flags
  PROVE  IsAbout(ParseArgs(flag, a), a)
<1>1. ParseArgs(flag, a) \in {None, DetectSource(a), CompareRequest(a), Remote("github", a), Remote("gitlab", a),
                              Remote("entire", a), Remote("patch", a)}
  BY RequestIsAbout DEF ParseArgs, Flags, Ways
<1>2. /\ IsAbout(None, a) /\ IsAbout(Remote("patch", a), a) /\ IsAbout(Remote("entire", a), a)
      /\ IsAbout(Remote("github", a), a) /\ IsAbout(Remote("gitlab", a), a)
  BY RequestIsAbout DEF Providers
<1>3. IsAbout(DetectSource(a), a) /\ IsAbout(CompareRequest(a), a)
  BY DetectedIsAbout
<1> QED BY <1>1, <1>2, <1>3, Zenon

LEMMA LaunchFlagIs ==
  ASSUME NEW r, r.provider \in Providers
  PROVE  /\ LaunchFlag(r) \in Flags
         /\ r.provider = "patch" => LaunchFlag(r) = "--patch"
         /\ r.provider = "entire" => LaunchFlag(r) = "--trail"
         /\ r.provider = "github" => LaunchFlag(r) = IF CompareRequest(r.address) # None THEN "--compare" ELSE "--pr"
         /\ r.provider = "gitlab" => LaunchFlag(r) = IF CompareRequest(r.address) # None THEN "--compare" ELSE "--mr"
<1>1. CASE r.provider = "patch"
  BY <1>1 DEF LaunchFlag, Flags
<1>2. CASE r.provider = "entire"
  BY <1>2 DEF LaunchFlag, Flags, Ways
<1>3. CASE r.provider = "github"
  <2>1. CASE CompareRequest(r.address) # None
    BY <1>3, <2>1 DEF LaunchFlag, Flags, Ways
  <2>2. CASE CompareRequest(r.address) = None
    BY <1>3, <2>2 DEF LaunchFlag, Flags, Ways
  <2> QED BY <2>1, <2>2
<1>4. CASE r.provider = "gitlab"
  <2>1. CASE CompareRequest(r.address) # None
    BY <1>4, <2>1 DEF LaunchFlag, Flags, Ways
  <2>2. CASE CompareRequest(r.address) = None
    BY <1>4, <2>2 DEF LaunchFlag, Flags, Ways
  <2> QED BY <2>1, <2>2
<1> QED BY <1>1, <1>2, <1>3, <1>4 DEF Providers

\* A request that detection stands behind survives the arguments of the
\* process that is started for it (launch_args, parse_with_detect).
LEMMA Relaunched ==
  ASSUME NEW a, a.path \in Seq(Segs), NEW r, r = DetectSource(a), r # None
  PROVE  ParseArgs(LaunchFlag(r), a) = r
<1> DEFINE entire == a.scheme \in {"https", "http"} /\ a.host \in EntireHosts
           comparison(t) == t # None /\ t.compare # NoCompare
<1>1. /\ r \in {Remote("patch", a), Remote("entire", a), Remote("github", a), Remote("gitlab", a)}
      /\ r.address = a /\ r.provider \in Providers
  BY DetectedIsAbout DEF IsAbout
<1>2. /\ Remote("patch", a).provider = "patch" /\ Remote("entire", a).provider = "entire"
      /\ Remote("github", a).provider = "github" /\ Remote("gitlab", a).provider = "gitlab"
      /\ Patch(a) = Remote("patch", a)
  BY RequestIsAbout DEF Providers
<1>3. CASE r = Remote("patch", a)
  <2>1. LaunchFlag(r) = "--patch"
    BY <1>1, <1>2, <1>3, LaunchFlagIs
  <2> QED BY <1>2, <1>3, <2>1 DEF ParseArgs
<1>4. CASE r = Remote("entire", a)
  <2>1. LaunchFlag(r) = "--trail"
    BY <1>1, <1>2, <1>4, LaunchFlagIs
  <2>2. TrailParse(a) # None
    BY <1>2, <1>4 DEF DetectSource
  <2> QED BY <1>4, <2>1, <2>2 DEF ParseArgs
<1>5. CASE r = Remote("github", a)
  <2>1. GithubParse(a) # None
    BY <1>2, <1>5 DEF DetectSource
  <2>2. CASE CompareRequest(a) = None
    <3>1. LaunchFlag(r) = "--pr"
      BY <1>1, <1>2, <1>5, <2>2, LaunchFlagIs
    <3> QED BY <1>5, <3>1 DEF ParseArgs
  <2>3. CASE CompareRequest(a) # None
    <3>1. LaunchFlag(r) = "--compare"
      BY <1>1, <1>2, <1>5, <2>3, LaunchFlagIs
    <3>2. CompareRequest(a) = Remote("github", a)
      <4>1. comparison(GithubParse(a)) \/ ~comparison(GitlabParse(a))
        BY <2>1, PullIsNoCompare
      <4> HIDE DEF comparison
      <4>2. CompareRequest(a) =
              CASE TrailParse(a) # None \/ a.host \in EntireHosts -> None
                [] TrailParse(a) = None /\ a.host \notin EntireHosts /\ comparison(GithubParse(a))
                     -> Remote("github", a)
                [] TrailParse(a) = None /\ a.host \notin EntireHosts
                     /\ ~comparison(GithubParse(a)) /\ comparison(GitlabParse(a)) -> Remote("gitlab", a)
                [] OTHER -> None
        BY Zenon DEF CompareRequest, comparison
      <4> QED BY <2>3, <4>1, <4>2
    <3> QED BY <1>5, <3>1, <3>2 DEF ParseArgs
  <2> QED BY <2>2, <2>3
<1>6. CASE r = Remote("gitlab", a)
  <2>1. GithubParse(a) = None
    BY <1>2, <1>6 DEF DetectSource
  <2>2. CASE CompareRequest(a) = None
    <3>1. LaunchFlag(r) = "--mr"
      BY <1>1, <1>2, <1>6, <2>2, LaunchFlagIs
    <3> QED BY <1>6, <3>1 DEF ParseArgs
  <2>3. CASE CompareRequest(a) # None
    <3>1. LaunchFlag(r) = "--compare"
      BY <1>1, <1>2, <1>6, <2>3, LaunchFlagIs
    <3>2. CompareRequest(a) = Remote("gitlab", a)
      BY <2>1, <2>3 DEF CompareRequest
    <3> QED BY <1>6, <3>1, <3>2 DEF ParseArgs
  <2> QED BY <2>2, <2>3
<1> QED BY <1>1, <1>3, <1>4, <1>5, <1>6

LEMMA AddressesInvInit == AddressesInit => AddressesInv
BY DEF AddressesInit, AddressesInv, None

\* Detection looks at the text and the file system, and neither changes.
LEMMA DetectionIsStable ==
  ASSUME typed' = typed, isFile' = isFile
  PROVE  DetectSource(typed)' = DetectSource(typed)
BY DEF DetectSource

LEMMA AddressesInvStep == AddressesInv /\ [AddressesNext]_addressVars => AddressesInv'
<1> SUFFICES ASSUME AddressesInv, [AddressesNext]_addressVars PROVE AddressesInv'
  OBVIOUS
<1>0. /\ typed \in Texts /\ typed.path \in Seq(Segs)
      /\ isFile => typed.scheme \in {"#", "!"}
      /\ request # None => request.address = typed /\ request.provider \in Providers
      /\ window # None =>
           request # None /\ window.address = typed /\ (DetectSource(typed) = request => window = request)
      /\ step = "start" => window = None
      /\ step \in {"parsed", "asking"} => request # None
      /\ step = "window" => window # None
      /\ step = "shown" => target # None
      /\ target # None => ParseBy(target.provider, ReopenAddress(target)) = target
      /\ step = "reopened" => again = target
  BY TextsAreSegments DEF AddressesInv, Providers
<1>1. ASSUME NEW flag \in Ways \ {"paste"}, Invoke(flag) PROVE AddressesInv'
  <2>1. IsAbout(request', typed)
    BY <1>1, ParsedIsAbout DEF Invoke, Flags
  <2>2. /\ step = "start" /\ step' \in {"refused", "parsed"} /\ (step' = "parsed" => request' # None)
        /\ UNCHANGED <<typed, isFile, login, window, target, again>>
    BY <1>1 DEF Invoke
  <2> QED BY <1>0, <2>1, <2>2 DEF AddressesInv, IsAbout, Providers
<1>2. ASSUME Launch PROVE AddressesInv'
  <2>1. /\ step = "parsed" /\ (window' = ParseArgs(LaunchFlag(request), typed) \/ window' = request)
        /\ step' = IF window' = None THEN "refused" ELSE "window"
        /\ UNCHANGED <<typed, isFile, login, request, target, again>>
    BY <1>0, <1>2 DEF Launch
  <2>2. request # None /\ request.address = typed /\ request.provider \in Providers
    BY <1>0, <2>1
  <2>3. window' # None => window'.address = typed
    <3>1. IsAbout(ParseArgs(LaunchFlag(request), typed), typed)
      BY <2>2, LaunchFlagIs, ParsedIsAbout
    <3> QED BY <2>1, <2>2, <3>1 DEF IsAbout
  <2>4. DetectSource(typed) = request => window' = request
    BY <1>0, <2>1, <2>2, Relaunched
  <2>5. DetectSource(typed)' = DetectSource(typed)
    BY <2>1, DetectionIsStable
  <2> QED BY <1>0, <2>1, <2>2, <2>3, <2>4, <2>5 DEF AddressesInv, Providers
<1>3. ASSUME Paste PROVE AddressesInv'
  <2>1. /\ step = "start" /\ request' = DetectSource(typed) /\ window' \in {None, request'}
        /\ step' \in {"refused", "asking", "window"}
        /\ (step' = "asking" => request' # None)
        /\ (step' = "window" => request' # None /\ window' # None)
        /\ UNCHANGED <<typed, isFile, login, target, again>>
    BY <1>3 DEF Paste
  <2>2. IsAbout(request', typed)
    BY <2>1, DetectedIsAbout
  <2> QED BY <1>0, <2>1, <2>2 DEF AddressesInv, IsAbout, Providers
<1>4. ASSUME PressEnter PROVE AddressesInv'
  BY <1>0, <1>4 DEF PressEnter, AddressesInv, Providers
<1>5. ASSUME LoadTarget PROVE AddressesInv'
  <2>1. /\ step = "window" /\ step' = (IF target' = None THEN "refused" ELSE "shown")
        /\ (target' # None => target' = ParseBy(window.provider, window.address) /\ Exists(target'))
        /\ UNCHANGED <<typed, isFile, login, request, window, again>>
    BY <1>5 DEF LoadTarget
  <2>2. target' # None => ParseBy(target'.provider, ReopenAddress(target')) = target'
    <3>1. window.address.path \in Seq(Segs)
      BY <1>0, <2>1
    <3> QED BY <2>1, <3>1, TargetIsReopened
  <2>3. DetectSource(typed)' = DetectSource(typed)
    BY <2>1, DetectionIsStable
  <2> QED BY <1>0, <2>1, <2>2, <2>3 DEF AddressesInv, Providers
<1>6. ASSUME Reopen PROVE AddressesInv'
  <2>1. /\ step = "shown" /\ step' = "reopened" /\ again' = ParseBy(target.provider, ReopenAddress(target))
        /\ UNCHANGED <<typed, isFile, login, request, window, target>>
    BY <1>6 DEF Reopen
  <2>2. again' = target'
    BY <1>0, <2>1
  <2>3. DetectSource(typed)' = DetectSource(typed)
    BY <2>1, DetectionIsStable
  <2> QED BY <1>0, <2>1, <2>2, <2>3 DEF AddressesInv, Providers
<1>7. ASSUME UNCHANGED addressVars PROVE AddressesInv'
  <2>1. DetectSource(typed)' = DetectSource(typed)
    BY <1>7, DetectionIsStable DEF addressVars
  <2> QED BY <1>0, <1>7, <2>1 DEF AddressesInv, addressVars, Providers
<1> QED BY <1>1, <1>2, <1>3, <1>4, <1>5, <1>6, <1>7 DEF AddressesNext

\* For every set of owners and every depth of project: what the user named is
\* what every later parse arrives at. The window a detached process opens holds
\* the request the first process detected, a reopened review is the one that
\* was shown, and an Entire URL never reaches another provider (detect_source,
\* launch_args, parse_with_detect, reopen_address).
THEOREM NamedSourceIsKept == AddressesSpec => []SameSource
<1>1. AddressesInit => AddressesInv
  BY AddressesInvInit
<1>2. AddressesInv /\ [AddressesNext]_addressVars => AddressesInv'
  BY AddressesInvStep
<1>3. AddressesInv => SameSource
  <2>1. SUFFICES ASSUME AddressesInv PROVE SameSource
    OBVIOUS
  <2>2. window # None /\ DetectSource(typed) = request => window = request
    BY <2>1 DEF AddressesInv
  <2>3. step = "reopened" => again = target
    BY <2>1 DEF AddressesInv
  <2>4. ASSUME window # None, DetectSource(typed) = request, typed.scheme = "https", typed.host \in EntireHosts
        PROVE  window.provider = "entire"
    <3>1. ~isFile /\ window = request /\ request # None
      BY <2>1, <2>4 DEF AddressesInv
    <3>2. request = Remote("entire", typed)
      BY <2>4, <3>1 DEF DetectSource
    <3> QED BY <3>1, <3>2 DEF Remote
  <2> QED BY <2>2, <2>3, <2>4 DEF SameSource
<1> QED BY <1>1, <1>2, <1>3, PTL DEF AddressesSpec
=============================================================================
