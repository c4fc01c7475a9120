----------------------------- MODULE PatchProofs ----------------------------
(* Proofs about PatchParser: what parse_patch accepts can be relied on, for *)
(* a patch of any number of lines and any limits.                           *)
EXTENDS PatchParser, FiniteSetTheorems, TLAPS

-----------------------------------------------------------------------------
(* Hunks.                                                                  *)

\* Two hunks with the same ranges and numbers, whatever their line endings.
SameNumbers(g, h) ==
  /\ g.old = h.old /\ g.new = h.new /\ DOMAIN g.rows = DOMAIN h.rows
  /\ \A i \in DOMAIN h.rows : g.rows[i].old = h.rows[i].old /\ g.rows[i].new = h.rows[i].new

LEMMA SameSides ==
  ASSUME NEW g, NEW h, SameNumbers(g, h), NEW s \in LineSides
  PROVE  /\ g[s] = h[s] /\ OnSide(g, s) = OnSide(h, s) /\ Wanted(g, s) = Wanted(h, s)
         /\ \A i \in DOMAIN h.rows : g.rows[i][s] = h.rows[i][s]
<1>1. s = "old" \/ s = "new"
  BY DEF LineSides
<1>2. g[s] = h[s] /\ \A i \in DOMAIN h.rows : g.rows[i][s] = h.rows[i][s]
  BY <1>1 DEF SameNumbers
<1>3. OnSide(g, s) = OnSide(h, s)
  BY <1>2 DEF SameNumbers, OnSide
<1>4. {i \in DOMAIN g.rows : g.rows[i][s] > 0} = {i \in DOMAIN h.rows : h.rows[i][s] > 0}
  BY <1>2 DEF SameNumbers
<1> QED BY <1>2, <1>3, <1>4 DEF Wanted

\* What is said of a hunk only looks at its ranges and numbers.
LEMMA SameHunks ==
  ASSUME NEW g \in HunkType, NEW h, SameNumbers(g, h)
  PROVE  /\ HunkInv(h) => HunkInv(g)
         /\ Complete(h) => Complete(g)
         /\ \A k : (Behind(k, h) => Behind(k, g)) /\ (Behind(h, k) => Behind(g, k))
<1>1. ASSUME HunkInv(h), NEW s \in LineSides
      PROVE  SideInv(g, s)
  <2>1. SideInv(h, s)
    BY <1>1 DEF HunkInv
  <2>2. OnSide(h, s) \subseteq DOMAIN h.rows
    BY DEF OnSide
  <2> QED BY <2>1, <2>2, SameSides DEF SideInv
<1>2. HunkInv(h) => HunkInv(g)
  BY <1>1 DEF HunkInv
<1>3. Complete(h) => Complete(g)
  BY SameSides DEF Complete
<1>4. \A k : (Behind(k, h) => Behind(k, g)) /\ (Behind(h, k) => Behind(g, k))
  BY SameSides DEF Behind
<1> QED BY <1>2, <1>3, <1>4

\* A mark for a missing newline changes no number.
LEMMA UnendedNumbers ==
  ASSUME NEW h \in HunkType, MayMark(h)
  PROVE  Unended(h) \in HunkType /\ SameNumbers(Unended(h), h)
<1>1. h.rows \in Seq(RowType) /\ Len(h.rows) \in DOMAIN h.rows
  BY DEF MayMark, HunkType
<1> DEFINE last == h.rows[Len(h.rows)]
           marked == [last EXCEPT !.ending = "none"]
<1>2. last \in RowType
  BY <1>1
<1>3. marked \in RowType /\ marked.old = last.old /\ marked.new = last.new
  BY <1>2 DEF RowType
<1>4. Unended(h) = [h EXCEPT !.rows = [h.rows EXCEPT ![Len(h.rows)] = marked]]
  BY <1>1, <1>2 DEF Unended, HunkType
<1> HIDE DEF marked
<1>5. [h.rows EXCEPT ![Len(h.rows)] = marked] \in Seq(RowType)
  BY <1>1, <1>3
<1>6. Unended(h) \in HunkType
  BY <1>4, <1>5 DEF HunkType
<1>7. SameNumbers(Unended(h), h)
  BY <1>1, <1>3, <1>4 DEF SameNumbers, HunkType
<1> QED BY <1>6, <1>7

\* The rows of a hunk on a side are a finite set.
LEMMA SideIsFinite ==
  ASSUME NEW h \in HunkType, NEW s \in LineSides
  PROVE  /\ IsFiniteSet(OnSide(h, s)) /\ Cardinality(OnSide(h, s)) \in Nat
         /\ Wanted(h, s) = h[s][2] - Cardinality(OnSide(h, s))
         /\ h[s] \in Nat \X Nat /\ h[s][1] \in Nat /\ h[s][2] \in Nat
<1>1. h.rows \in Seq(RowType) /\ DOMAIN h.rows = 1 .. Len(h.rows) /\ Len(h.rows) \in Nat
  BY DEF HunkType
<1>2. IsFiniteSet(1 .. Len(h.rows))
  BY <1>1, FS_Interval
<1>3. OnSide(h, s) \subseteq 1 .. Len(h.rows)
  BY <1>1 DEF OnSide
<1>4. IsFiniteSet(OnSide(h, s))
  BY <1>2, <1>3, FS_Subset
<1>5. h[s] \in Nat \X Nat
  BY DEF LineSides, HunkType
<1> QED BY <1>4, <1>5, FS_CardinalityType DEF Wanted, OnSide

\* A side that the row does not have stays as it is.
LEMMA OtherSideStays ==
  ASSUME NEW h \in HunkType, NEW row \in RowType, NEW s \in LineSides, SideInv(h, s), row[s] = 0,
         NEW g, g = [h EXCEPT !.rows = Append(@, row)]
  PROVE  SideInv(g, s) /\ Wanted(g, s) = Wanted(h, s)
<1>1. h.rows \in Seq(RowType) /\ g.rows = Append(h.rows, row) /\ g[s] = h[s]
  BY DEF HunkType, LineSides
<1>2. DOMAIN g.rows = DOMAIN h.rows \cup {Len(h.rows) + 1}
  BY <1>1
<1>3. g.rows[Len(h.rows) + 1] = row /\ \A i \in DOMAIN h.rows : g.rows[i] = h.rows[i]
  BY <1>1
<1>4. OnSide(g, s) = OnSide(h, s) /\ OnSide(h, s) \subseteq DOMAIN h.rows
  BY <1>2, <1>3 DEF OnSide
<1>5. Wanted(g, s) = Wanted(h, s)
  BY <1>1, <1>4 DEF Wanted, OnSide
<1> QED BY <1>1, <1>3, <1>4, <1>5 DEF SideInv

\* A side that the row has gets the next number.
LEMMA OwnSideGrows ==
  ASSUME NEW h \in HunkType, NEW row \in RowType, NEW s \in LineSides, SideInv(h, s),
         Wanted(h, s) # 0, row[s] = h[s][1] + h[s][2] - Wanted(h, s),
         NEW g, g = [h EXCEPT !.rows = Append(@, row)]
  PROVE  SideInv(g, s)
<1> DEFINE n == Len(h.rows) + 1
           start == h[s][1]
           count == h[s][2]
           wanted == Wanted(h, s)
<1>1. h.rows \in Seq(RowType) /\ g.rows = Append(h.rows, row) /\ g[s] = h[s]
  BY DEF HunkType, LineSides
<1>2. DOMAIN g.rows = DOMAIN h.rows \cup {n} /\ n \notin DOMAIN h.rows /\ n \in Nat
      /\ \A i \in DOMAIN h.rows : i \in Nat /\ i < n
  BY <1>1
<1>3. g.rows[n] = row /\ \A i \in DOMAIN h.rows : g.rows[i] = h.rows[i]
  BY <1>1
<1>4. /\ start \in Nat /\ count \in Nat /\ wanted \in Nat /\ wanted =< count /\ wanted > 0
      /\ Cardinality(OnSide(h, s)) \in Nat /\ wanted = count - Cardinality(OnSide(h, s))
  BY SideIsFinite DEF SideInv
<1>5. start > 0
  BY <1>4 DEF SideInv, BadRange
<1>6. row[s] > 0 /\ row[s] \in Nat
  BY <1>4, <1>5
<1>7. OnSide(g, s) = OnSide(h, s) \cup {n} /\ n \notin OnSide(h, s) /\ OnSide(h, s) \subseteq DOMAIN h.rows
  BY <1>2, <1>3, <1>6 DEF OnSide
<1>8. Cardinality(OnSide(g, s)) = Cardinality(OnSide(h, s)) + 1
  BY <1>7, SideIsFinite, FS_AddElement
<1>9. Wanted(g, s) = wanted - 1
  <2>1. Wanted(g, s) = g[s][2] - Cardinality(OnSide(g, s))
    BY DEF Wanted, OnSide
  <2> QED BY <2>1, <1>1, <1>4, <1>8, SMTT(60)
<1>10. \A i \in OnSide(h, s) : /\ g.rows[i][s] = h.rows[i][s] /\ h.rows[i][s] \in Nat
                               /\ start =< h.rows[i][s] /\ h.rows[i][s] < start + count - wanted
                               /\ i < n
  <2>1. \A i \in DOMAIN h.rows : h.rows[i] \in RowType
    BY <1>1
  <2>2. \A i \in DOMAIN h.rows : h.rows[i][s] \in Nat
    BY <2>1 DEF RowType, LineSides
  <2> QED BY <2>2, <1>2, <1>3, <1>7 DEF SideInv
<1>11. \A i, j \in OnSide(h, s) : i < j => h.rows[i][s] < h.rows[j][s]
  BY DEF SideInv
<1>12. ~BadRange(g[s])
  BY <1>1 DEF SideInv
<1> HIDE DEF n, start, count, wanted
<1>13. ASSUME NEW i \in OnSide(g, s)
       PROVE  /\ start =< g.rows[i][s] /\ g.rows[i][s] < start + count - (wanted - 1)
              /\ \A j \in OnSide(g, s) : i < j => g.rows[i][s] < g.rows[j][s]
  <2>1. row[s] = start + count - wanted
    BY DEF start, count, wanted
  <2>4. start \in Nat /\ count \in Nat /\ wanted \in Nat /\ wanted =< count
    BY <1>4
  <2>2. CASE i = n
    <3>1. \A j \in OnSide(g, s) : ~(i < j)
      BY <2>2, <1>2, <1>7, <1>10
    <3>2. g.rows[i][s] = start + count - wanted
      BY <2>1, <2>2, <1>3
    <3>3. start =< g.rows[i][s] /\ g.rows[i][s] < start + count - (wanted - 1)
      BY ONLY <3>2, <2>4
    <3> QED BY <3>1, <3>3
  <2>3. CASE i \in OnSide(h, s)
    <3>1. start =< g.rows[i][s] /\ g.rows[i][s] < start + count - (wanted - 1)
      <4>1. /\ g.rows[i][s] \in Nat /\ start =< g.rows[i][s]
            /\ g.rows[i][s] < start + count - wanted
        BY <2>3, <1>10
      <4> QED BY ONLY <4>1, <2>4
    <3>2. g.rows[i][s] < g.rows[n][s]
      BY <2>1, <2>3, <1>3, <1>10
    <3> QED BY <2>3, <3>1, <3>2, <1>7, <1>10, <1>11
  <2> QED BY <2>2, <2>3, <1>7
<1>14. wanted - 1 \in Nat
  BY <1>4
<1> QED
  BY <1>1, <1>9, <1>12, <1>13, <1>14 DEF SideInv, start, count

\* A row that is not refused keeps its hunk in order.
LEMMA RowKeepsHunk ==
  ASSUME NEW h, HunkInv(h), NEW kind \in RowForms, \A s \in RowSides(kind) : Wanted(h, s) # 0,
         NEW row, row = [kind |-> kind, ending |-> "lf", old |-> NumberOf(h, kind, "old"),
                         new |-> NumberOf(h, kind, "new")],
         NEW g, g = [h EXCEPT !.rows = Append(@, row)]
  PROVE  HunkInv(g) /\ g.old = h.old /\ g.new = h.new
<1>1. h \in HunkType /\ \A s \in LineSides : SideInv(h, s)
  BY DEF HunkInv
<1>2. ASSUME NEW s \in LineSides
      PROVE  NumberOf(h, kind, s) \in Nat /\ row[s] = NumberOf(h, kind, s)
  <2>1. /\ h[s][1] \in Nat /\ h[s][2] \in Nat /\ Wanted(h, s) \in Nat /\ Cardinality(OnSide(h, s)) \in Nat
        /\ Wanted(h, s) = h[s][2] - Cardinality(OnSide(h, s))
    BY <1>1, SideIsFinite DEF SideInv
  <2>2. h[s][1] + h[s][2] - Wanted(h, s) \in Nat
    BY ONLY <2>1
  <2>3. row[s] = NumberOf(h, kind, s)
    BY DEF LineSides
  <2> QED BY <2>2, <2>3 DEF NumberOf
<1>3. row \in RowType
  <2>1. NumberOf(h, kind, "old") \in Nat /\ NumberOf(h, kind, "new") \in Nat
    BY <1>2 DEF LineSides
  <2> QED BY <2>1 DEF RowType
<1>4. ASSUME NEW s \in LineSides
      PROVE  SideInv(g, s)
  <2>1. CASE s \in RowSides(kind)
    <3>1. row[s] = h[s][1] + h[s][2] - Wanted(h, s) /\ Wanted(h, s) # 0 /\ SideInv(h, s)
      BY <1>1, <1>2, <2>1 DEF NumberOf
    <3> QED BY <1>1, <1>3, <3>1, OwnSideGrows
  <2>2. CASE s \notin RowSides(kind)
    <3>1. row[s] = 0 /\ SideInv(h, s)
      BY <1>1, <1>2, <2>2 DEF NumberOf
    <3> QED BY <1>1, <1>3, <3>1, OtherSideStays
  <2> QED BY <2>1, <2>2
<1>5. g \in HunkType /\ g.old = h.old /\ g.new = h.new
  <2>1. h.rows \in Seq(RowType)
    BY <1>1 DEF HunkType
  <2>2. Append(h.rows, row) \in Seq(RowType)
    BY ONLY <2>1, <1>3
  <2>3. g = [h EXCEPT !.rows = Append(h.rows, row)]
    OBVIOUS
  <2> QED BY ONLY <1>1, <2>2, <2>3 DEF HunkType
<1> QED BY <1>4, <1>5 DEF HunkInv

\* A hunk header that is not refused starts a hunk in order.
LEMMA HeaderStartsHunk ==
  ASSUME NEW old \in HunkRanges, NEW new \in HunkRanges, ~BadRange(old), ~BadRange(new),
         NEW h, h = [old |-> old, new |-> new, rows |-> <<>>]
  PROVE  HunkInv(h)
<1>1. old \in Nat \X Nat /\ new \in Nat \X Nat
  BY PatchAssumption
<1>2. h \in HunkType
  BY <1>1 DEF HunkType
<1>3. ASSUME NEW s \in LineSides
      PROVE  SideInv(h, s)
  <2>1. ~BadRange(h[s]) /\ OnSide(h, s) = {}
    BY DEF LineSides, OnSide
  <2>2. Wanted(h, s) = h[s][2] - Cardinality({}) /\ h[s][2] \in Nat
    BY <2>1, <1>2, SideIsFinite
  <2>3. Wanted(h, s) \in Nat
    BY <2>2, FS_EmptySet
  <2> QED BY <2>1, <2>3 DEF SideInv
<1> QED BY <1>2, <1>3 DEF HunkInv

-----------------------------------------------------------------------------
(* Files.                                                                  *)

\* What the type says of the hunks of a file.
LEMMA FileHunks ==
  ASSUME NEW f, FileInv(f)
  PROVE  /\ f \in FileType /\ f.hunks \in Seq(HunkType)
         /\ Len(f.hunks) \in Nat /\ DOMAIN f.hunks = 1 .. Len(f.hunks)
<1>1. f \in FileType
  BY DEF FileInv
<1>2. f.hunks \in Seq(HunkType)
  BY ONLY <1>1 DEF FileType
<1> QED BY <1>1, <1>2

\* A file may be given other hunks.
LEMMA WithHunks ==
  ASSUME NEW f \in FileType, NEW hs \in Seq(HunkType), NEW g, g = [f EXCEPT !.hunks = hs]
  PROVE  g \in FileType /\ g.hunks = hs
BY DEF FileType

\* A hunk behind the last one of a file is behind them all.
LEMMA BehindLast ==
  ASSUME NEW f, FileInv(f), NEW h, HunkInv(h), ~Overlaps(h, f.hunks)
  PROVE  \A k \in DOMAIN f.hunks : Behind(h, f.hunks[k])
<1> SUFFICES ASSUME NEW k \in DOMAIN f.hunks, NEW s \in LineSides
             PROVE  f.hunks[k][s][1] + f.hunks[k][s][2] =< h[s][1]
  BY DEF Behind
<1>1. f.hunks \in Seq(HunkType) /\ DOMAIN f.hunks = 1 .. Len(f.hunks) /\ Len(f.hunks) \in Nat
  BY FileHunks
<1> DEFINE n == Len(f.hunks)
<1>2. n \in DOMAIN f.hunks /\ Last(f.hunks) = f.hunks[n] /\ f.hunks # <<>>
  BY <1>1 DEF Last
<1>3. /\ h[s][1] \in Nat /\ f.hunks[n][s][1] \in Nat /\ f.hunks[n][s][2] \in Nat
      /\ f.hunks[k][s][1] \in Nat /\ f.hunks[k][s][2] \in Nat
  <2>1. h \in HunkType /\ f.hunks[n] \in HunkType /\ f.hunks[k] \in HunkType
    BY <1>1, <1>2 DEF HunkInv
  <2> QED BY <2>1, SideIsFinite
<1>4. f.hunks[n][s][1] + f.hunks[n][s][2] =< h[s][1]
  <2>1. ~(h[s][1] < f.hunks[n][s][1] + f.hunks[n][s][2])
    BY <1>2 DEF Overlaps
  <2> QED BY ONLY <2>1, <1>3
<1>5. CASE k = n
  BY <1>4, <1>5
<1>6. CASE k # n
  <2>1. k < n
    BY <1>1, <1>6
  <2>2. Behind(f.hunks[n], f.hunks[k])
    BY <2>1, <1>2 DEF FileInv
  <2>3. f.hunks[k][s][1] + f.hunks[k][s][2] =< f.hunks[n][s][1]
    BY <2>2 DEF Behind
  <2> DEFINE a == f.hunks[k][s][1]
             b == f.hunks[k][s][2]
             c == f.hunks[n][s][1]
             d == f.hunks[n][s][2]
             e == h[s][1]
  <2>4. a \in Nat /\ b \in Nat /\ c \in Nat /\ d \in Nat /\ e \in Nat /\ a + b =< c /\ c + d =< e
    BY <1>3, <1>4, <2>3
  <2> HIDE DEF a, b, c, d, e
  <2>5. a + b =< e
    BY ONLY <2>4
  <2> QED BY <2>5 DEF a, b, e
<1> QED BY <1>5, <1>6

\* A complete hunk behind the others may be added to a file.
LEMMA AddedHunk ==
  ASSUME NEW f, FileInv(f), NEW h, HunkInv(h), Complete(h),
         \A k \in DOMAIN f.hunks : Behind(h, f.hunks[k])
  PROVE  FileInv([f EXCEPT !.hunks = Append(@, h)])
<1> DEFINE g == [f EXCEPT !.hunks = Append(@, h)]
           n == Len(f.hunks) + 1
<1>1. f \in FileType /\ f.hunks \in Seq(HunkType) /\ h \in HunkType
  BY FileHunks DEF HunkInv
<1>2. g.hunks = Append(f.hunks, h) /\ g \in FileType
  <2>1. Append(f.hunks, h) \in Seq(HunkType)
    BY ONLY <1>1
  <2> QED BY <1>1, <2>1, WithHunks
<1>3. /\ DOMAIN g.hunks = DOMAIN f.hunks \cup {n} /\ g.hunks[n] = h
      /\ \A k \in DOMAIN f.hunks : g.hunks[k] = f.hunks[k] /\ k \in Nat /\ k < n
      /\ n \in Nat
  BY <1>1, <1>2
<1> HIDE DEF g, n
<1>4. \A k \in DOMAIN g.hunks : HunkInv(g.hunks[k]) /\ Complete(g.hunks[k])
  BY <1>3 DEF FileInv
<1>5. \A k, l \in DOMAIN g.hunks : k < l => Behind(g.hunks[l], g.hunks[k])
  <2> SUFFICES ASSUME NEW k \in DOMAIN g.hunks, NEW l \in DOMAIN g.hunks, k < l
               PROVE  Behind(g.hunks[l], g.hunks[k])
    OBVIOUS
  <2>1. k \in DOMAIN f.hunks
    BY <1>3
  <2>2. CASE l = n
    BY <2>1, <2>2, <1>3
  <2>3. CASE l \in DOMAIN f.hunks
    BY <2>1, <2>3, <1>3 DEF FileInv
  <2> QED BY <2>2, <2>3, <1>3
<1>6. FileInv(g)
  BY <1>2, <1>4, <1>5 DEF FileInv
<1> QED BY <1>6 DEF g

\* A mark on its last row keeps a file in order.
LEMMA MarkedFile ==
  ASSUME NEW f, FileInv(f), f.hunks # <<>>, MayMark(Last(f.hunks))
  PROVE  FileInv([f EXCEPT !.hunks[Len(f.hunks)] = Unended(@)])
<1> DEFINE n == Len(f.hunks)
           u == Unended(f.hunks[n])
           g == [f EXCEPT !.hunks[Len(f.hunks)] = Unended(@)]
<1>1. f \in FileType /\ f.hunks \in Seq(HunkType) /\ n \in DOMAIN f.hunks /\ Last(f.hunks) = f.hunks[n]
  BY FileHunks DEF Last
<1>2. u \in HunkType /\ SameNumbers(u, f.hunks[n])
  <2>1. f.hunks[n] \in HunkType
    BY <1>1
  <2> QED BY <2>1, <1>1, UnendedNumbers
<1>3. HunkInv(u) /\ Complete(u)
      /\ \A k : (Behind(k, f.hunks[n]) => Behind(k, u)) /\ (Behind(f.hunks[n], k) => Behind(u, k))
  <2>1. HunkInv(f.hunks[n]) /\ Complete(f.hunks[n])
    BY <1>1 DEF FileInv
  <2> QED BY <2>1, <1>2, SameHunks
<1>4. g = [f EXCEPT !.hunks = [f.hunks EXCEPT ![n] = u]]
  BY <1>1 DEF FileType
<1> HIDE DEF u, g
<1>5. g.hunks = [f.hunks EXCEPT ![n] = u] /\ g.hunks \in Seq(HunkType)
  <2>1. [f.hunks EXCEPT ![n] = u] \in Seq(HunkType)
    BY <1>1, <1>2
  <2> QED BY <1>1, <1>4, <2>1, WithHunks
<1>6. g \in FileType
  BY <1>1, <1>4, <1>5, WithHunks
<1>7. DOMAIN g.hunks = DOMAIN f.hunks /\ g.hunks[n] = u /\ \A k \in DOMAIN f.hunks : k # n => g.hunks[k] = f.hunks[k]
  BY <1>1, <1>5
<1> HIDE DEF n
<1>8. \A k \in DOMAIN g.hunks : HunkInv(g.hunks[k]) /\ Complete(g.hunks[k])
  BY <1>3, <1>7 DEF FileInv
<1>9. \A k, l \in DOMAIN g.hunks : k < l => Behind(g.hunks[l], g.hunks[k])
  <2> SUFFICES ASSUME NEW k \in DOMAIN g.hunks, NEW l \in DOMAIN g.hunks, k < l
               PROVE  Behind(g.hunks[l], g.hunks[k])
    OBVIOUS
  <2>1. Behind(f.hunks[l], f.hunks[k])
    BY <1>7 DEF FileInv
  <2>2. k # l
    BY <1>1, <1>7
  <2> QED BY <2>1, <2>2, <1>3, <1>7
<1>10. FileInv(g)
  BY <1>6, <1>8, <1>9 DEF FileInv
<1> QED BY <1>10 DEF g

\* A file without hunks is in order whatever its header lines say.
LEMMA BareFile ==
  ASSUME NEW f \in FileType, f.hunks = <<>>
  PROVE  FileInv(f)
BY DEF FileInv

\* The end of a file leaves its hunks alone.
LEMMA ClosedFile ==
  ASSUME NEW f, FileInv(f)
  PROVE  FileInv(Closed(f)) /\ Closed(f) \in FileType
<1>1. Closed(f) \in FileType /\ Closed(f).hunks = f.hunks
  BY DEF FileInv, FileType, Closed
<1> QED BY <1>1 DEF FileInv

-----------------------------------------------------------------------------
(* Steps.                                                                  *)

\* At most one file is being read, so that it counts for nothing or for one.
LEMMA CountOfCurrent ==
  ASSUME NEW S, \A f \in S : S = {f}
  PROVE  Cardinality(S) = IF S = {} THEN 0 ELSE 1
<1>1. CASE S = {}
  BY <1>1, FS_EmptySet
<1>2. CASE S # {}
  <2>1. PICK f : S = {f}
    BY <1>2
  <2> QED BY <1>2, <2>1, FS_Singleton
<1> QED BY <1>1, <1>2

\* A step that leaves the files alone only has to keep what is being read.
LEMMA KeepsFiles ==
  ASSUME PatchInv, UNCHANGED <<files, headers, signed>>, total' \in Nat, parse' # "ok",
         (current' = {}) = (current = {}), hunk' # {} => current' # {},
         \A f \in current' : FileInv(f) /\ current' = {f},
         \A h \in hunk' : HunkInv(h) /\ hunk' = {h},
         \A h \in hunk', f \in current' : \A k \in DOMAIN f.hunks : Behind(h, f.hunks[k])
  PROVE  PatchInv'
<1>1. Cardinality(current') = Cardinality(current)
  <2>1. \A f \in current : current = {f}
    BY DEF PatchInv
  <2>2. Cardinality(current) = IF current = {} THEN 0 ELSE 1
    BY <2>1, CountOfCurrent
  <2>3. Cardinality(current') = IF current' = {} THEN 0 ELSE 1
    BY CountOfCurrent
  <2> QED BY <2>2, <2>3
<1> QED BY <1>1 DEF PatchInv

\* A refused line leaves everything alone.
LEMMA FailsKeeps ==
  ASSUME PatchInv, Fails
  PROVE  PatchInv'
BY DEF PatchInv, Fails

\* The file that ends gets its place behind the others, as a change of its own.
LEMMA AllClosedKeeps ==
  ASSUME PatchInv, \A f \in current : Closes(f), files' = AllClosed
  PROVE  /\ files' \in Seq(FileType) /\ \A i \in DOMAIN files' : FileInv(files'[i])
         /\ \A i, j \in DOMAIN files' : i # j => ~SamePaths(files'[i], files'[j])
         /\ Len(files') = Len(files) + Cardinality(current)
<1>1. /\ files \in Seq(FileType) /\ \A i \in DOMAIN files : FileInv(files[i])
      /\ \A i, j \in DOMAIN files : i # j => ~SamePaths(files[i], files[j])
      /\ \A f \in current : FileInv(f) /\ current = {f}
  BY DEF PatchInv
<1>2. Cardinality(current) = IF current = {} THEN 0 ELSE 1
  BY <1>1, CountOfCurrent
<1>3. CASE current = {}
  BY <1>1, <1>2, <1>3 DEF AllClosed
<1>4. CASE current # {}
  <2>1. PICK f \in current : f = CHOOSE g \in current : TRUE
    BY <1>4
  <2> DEFINE c == Closed(f)
             n == Len(files) + 1
  <2>2. FileInv(c) /\ c \in FileType
    BY <1>1, <2>1, ClosedFile
  <2>3. \A i \in DOMAIN files : ~SamePaths(files[i], c)
    BY <2>1 DEF Closes, SamePaths
  <2>4. files' = Append(files, c)
    BY <1>4, <2>1 DEF AllClosed
  <2> HIDE DEF c
  <2>5. files' \in Seq(FileType) /\ Len(files') = n
    BY <1>1, <2>2, <2>4
  <2>6. DOMAIN files' = DOMAIN files \cup {n} /\ files'[n] = c /\ \A i \in DOMAIN files : files'[i] = files[i]
    BY <1>1, <2>4
  <2> HIDE DEF n
  <2>7. \A i \in DOMAIN files' : FileInv(files'[i])
    BY <1>1, <2>2, <2>6
  <2>8. \A i, j \in DOMAIN files' : i # j => ~SamePaths(files'[i], files'[j])
    BY <1>1, <2>3, <2>6 DEF SamePaths
  <2> QED BY <1>2, <1>4, <2>5, <2>7, <2>8 DEF n
<1> QED BY <1>3, <1>4

LEMMA DiffLineKeeps ==
  ASSUME PatchInv, NEW p \in HeaderNames, DiffLine(p)
  PROVE  PatchInv'
<1>1. CASE Fails
  BY <1>1, FailsKeeps
<1>2. CASE ~Fails
  <2>1. /\ (\A f \in current : Closes(f)) /\ files' = AllClosed
        /\ current' = {NewFile(p)} /\ headers' = headers + 1 /\ hunk = {} /\ parse = "reading"
        /\ UNCHANGED <<hunk, total, parse, signed>>
    BY <1>2 DEF DiffLine, NextLine
  <2>2. NewFile(p) \in FileType /\ NewFile(p).hunks = <<>>
    <3>1. p[1] \in PathNames \cup {""} /\ p[2] \in PathNames \cup {""}
      <4>1. p \in PathNames \X PathNames \/ p = <<"", "">>
        BY DEF HeaderNames
      <4>2. CASE p \in PathNames \X PathNames
        BY ONLY <4>2
      <4>3. CASE p = <<"", "">>
        BY ONLY <4>3
      <4> QED BY <4>1, <4>2, <4>3
    <3>2. <<>> \in Seq(HunkType)
      OBVIOUS
    <3> QED BY <3>1, <3>2 DEF NewFile, FileType
  <2>3. FileInv(NewFile(p))
    BY <2>2, BareFile
  <2>4. /\ files' \in Seq(FileType) /\ \A i \in DOMAIN files' : FileInv(files'[i])
        /\ \A i, j \in DOMAIN files' : i # j => ~SamePaths(files'[i], files'[j])
        /\ Len(files') = Len(files) + Cardinality(current)
    BY <2>1, AllClosedKeeps
  <2>5. Cardinality(current') = 1
    BY <2>1, FS_Singleton
  <2>6. ~signed' => headers' = Len(files') + Cardinality(current')
    BY <2>1, <2>4, <2>5 DEF PatchInv
  <2> QED BY <2>1, <2>3, <2>4, <2>6 DEF PatchInv
<1> QED BY <1>1, <1>2

LEMMA EndOfInputKeeps ==
  ASSUME PatchInv, NEW blank \in BOOLEAN, EndOfInput(blank)
  PROVE  PatchInv'
<1>1. CASE Fails
  BY <1>1, FailsKeeps
<1>2. CASE ~Fails
  <2>1. /\ (\A f \in current : Closes(f)) /\ files' = AllClosed
        /\ current' = {} /\ hunk = {} /\ UNCHANGED <<hunk, total, headers, signed>>
    BY <1>2 DEF EndOfInput
  <2>2. /\ files' \in Seq(FileType) /\ \A i \in DOMAIN files' : FileInv(files'[i])
        /\ \A i, j \in DOMAIN files' : i # j => ~SamePaths(files'[i], files'[j])
        /\ Len(files') = Len(files) + Cardinality(current) /\ Len(files') \in Nat
    BY <2>1, AllClosedKeeps
  <2>3. ~signed' => headers' = Len(files') + Cardinality(current')
    BY <2>1, <2>2, FS_EmptySet DEF PatchInv
  <2> QED BY <2>1, <2>2, <2>3 DEF PatchInv
<1> QED BY <1>1, <1>2

\* The file and the hunk that are being read.
LEMMA InCurrent ==
  ASSUME PatchInv, NEW f \in current
  PROVE  FileInv(f) /\ current = {f} /\ \A h \in hunk : \A k \in DOMAIN f.hunks : Behind(h, f.hunks[k])
BY DEF PatchInv

\* A complete hunk joins the file that is being read.
LEMMA HunkJoins ==
  ASSUME PatchInv, NEW h, HunkInv(h), Complete(h), NEW f \in current,
         \A k \in DOMAIN f.hunks : Behind(h, f.hunks[k]),
         current' = {[g EXCEPT !.hunks = Append(@, h)] : g \in current},
         hunk' = {}, UNCHANGED <<files, parse, headers, signed>>, total' \in Nat, parse = "reading"
  PROVE  PatchInv'
<1> DEFINE grown == [f EXCEPT !.hunks = Append(@, h)]
<1>1. FileInv(f) /\ current = {f}
  BY InCurrent
<1>2. FileInv(grown)
  BY <1>1, AddedHunk
<1>3. current' = {grown}
  BY <1>1
<1> HIDE DEF grown
<1>4. (current' = {}) = (current = {})
  BY <1>1, <1>3
<1>5. \A g \in current' : FileInv(g) /\ current' = {g}
  BY <1>2, <1>3
<1>6. parse' # "ok"
  OBVIOUS
<1> QED BY <1>4, <1>5, <1>6, KeepsFiles

\* A hunk that lacks rows is read on.
LEMMA HunkStays ==
  ASSUME PatchInv, NEW h, HunkInv(h), NEW f \in current,
         \A k \in DOMAIN f.hunks : Behind(h, f.hunks[k]),
         hunk' = {h}, UNCHANGED <<files, current, parse, headers, signed>>, total' \in Nat, parse = "reading"
  PROVE  PatchInv'
<1>1. FileInv(f) /\ current' = {f} /\ current = {f}
  BY InCurrent
<1>2. \A g \in current' : FileInv(g) /\ current' = {g}
  BY <1>1
<1>3. \A g \in hunk' : HunkInv(g) /\ hunk' = {g}
  OBVIOUS
<1>4. \A i \in hunk', g \in current' : \A k \in DOMAIN g.hunks : Behind(i, g.hunks[k])
  BY <1>1
<1>5. parse' # "ok" /\ (current' = {}) = (current = {}) /\ (hunk' # {} => current' # {})
  BY <1>1
<1> QED BY <1>2, <1>3, <1>4, <1>5, KeepsFiles

LEMMA HunkLineKeeps ==
  ASSUME PatchInv, NEW old \in HunkRanges, NEW new \in HunkRanges, HunkLine(old, new)
  PROVE  PatchInv'
<1> DEFINE h == [old |-> old, new |-> new, rows |-> <<>>]
<1>1. CASE Fails
  BY <1>1, FailsKeeps
<1>2. CASE ~Fails
  <2>1. PICK f \in current : TRUE
    BY DEF HunkLine
  <2>2. /\ ~BadRange(old) /\ ~BadRange(new) /\ ~Overlaps(h, f.hunks)
        /\ hunk = {} /\ parse = "reading" /\ total' \in Nat
        /\ UNCHANGED <<files, total, parse, headers, signed>>
    BY <1>2, <2>1 DEF HunkLine, NextLine, PatchInv
  <2>3. HunkInv(h)
    BY <2>2, HeaderStartsHunk
  <2>4. \A k \in DOMAIN f.hunks : Behind(h, f.hunks[k])
    <3>1. FileInv(f)
      BY <2>1, InCurrent
    <3> HIDE DEF h
    <3> QED BY <2>2, <2>3, <3>1, BehindLast
  <2>5. CASE Complete(h)
    <3>1. current' = {[g EXCEPT !.hunks = Append(@, h)] : g \in current} /\ hunk' = {}
      BY <1>2, <2>2, <2>5 DEF HunkLine
    <3> HIDE DEF h
    <3> QED BY <2>1, <2>2, <2>3, <2>4, <2>5, <3>1, HunkJoins
  <2>6. CASE ~Complete(h)
    <3>1. current' = current /\ hunk' = {h}
      BY <1>2, <2>6 DEF HunkLine
    <3> HIDE DEF h
    <3> QED BY <2>1, <2>2, <2>3, <2>4, <3>1, HunkStays
  <2> QED BY <2>5, <2>6
<1> QED BY <1>1, <1>2

LEMMA RowLineKeeps ==
  ASSUME PatchInv, NEW kind \in RowForms, RowLine(kind)
  PROVE  PatchInv'
<1> DEFINE h == CHOOSE h \in hunk : TRUE
           row == [kind |-> kind, ending |-> "lf", old |-> NumberOf(h, kind, "old"),
                   new |-> NumberOf(h, kind, "new")]
           grown == [h EXCEPT !.rows = Append(@, row)]
<1>1. CASE Fails
  BY <1>1, FailsKeeps
<1>2. CASE ~Fails
  <2>1. /\ \A s \in RowSides(kind) : Wanted(h, s) # 0
        /\ total' = total + 1 /\ hunk # {} /\ parse = "reading"
        /\ UNCHANGED <<files, parse, headers, signed>>
    BY <1>2 DEF RowLine, NextLine
  <2>2. IF Complete(grown)
          THEN /\ current' = {[f EXCEPT !.hunks = Append(@, grown)] : f \in current}
               /\ hunk' = {}
          ELSE hunk' = {grown} /\ UNCHANGED current
    BY <1>2 DEF RowLine
  <2>3. h \in hunk /\ HunkInv(h) /\ total' \in Nat
    BY <2>1 DEF PatchInv
  <2>4. PICK f \in current : TRUE
    BY <2>1 DEF PatchInv
  <2> HIDE DEF h
  <2>5. HunkInv(grown) /\ grown.old = h.old /\ grown.new = h.new
    BY <2>1, <2>3, RowKeepsHunk
  <2> HIDE DEF grown
  <2>6. \A k \in DOMAIN f.hunks : Behind(grown, f.hunks[k])
    <3>1. \A k \in DOMAIN f.hunks : Behind(h, f.hunks[k])
      BY <2>3, <2>4, InCurrent
    <3>2. \A s \in LineSides : grown[s] = h[s]
      BY <2>5 DEF LineSides
    <3> QED BY <3>1, <3>2 DEF Behind
  <2>7. CASE Complete(grown)
    BY <2>1, <2>2, <2>3, <2>4, <2>5, <2>6, <2>7, HunkJoins
  <2>8. CASE ~Complete(grown)
    BY <2>1, <2>2, <2>3, <2>4, <2>5, <2>6, <2>8, HunkStays
  <2> QED BY <2>7, <2>8
<1> QED BY <1>1, <1>2

LEMMA EofMarkKeeps ==
  ASSUME PatchInv, EofMark
  PROVE  PatchInv'
<1>1. CASE Fails
  BY <1>1, FailsKeeps
<1>2. CASE ~Fails /\ hunk # {}
  <2>1. PICK h \in hunk, f \in current : TRUE
    BY <1>2 DEF PatchInv
  <2>2. MayMark(h) /\ HunkInv(h) /\ hunk = {h} /\ \A k \in DOMAIN f.hunks : Behind(h, f.hunks[k])
    BY <1>2, <2>1 DEF EofMark, PatchInv
  <2> DEFINE u == Unended(h)
  <2>3. hunk' = {u} /\ parse = "reading" /\ UNCHANGED <<files, current, total, parse, headers, signed>> /\ total' \in Nat
    BY <1>2, <2>2 DEF EofMark, NextLine, PatchInv
  <2>4. u \in HunkType /\ SameNumbers(u, h)
    BY <2>2, UnendedNumbers DEF HunkInv
  <2> HIDE DEF u
  <2>5. HunkInv(u) /\ \A k \in DOMAIN f.hunks : Behind(u, f.hunks[k])
    BY <2>2, <2>4, SameHunks
  <2> QED BY <2>1, <2>3, <2>5, HunkStays
<1>3. CASE ~Fails /\ hunk = {}
  <2>1. PICK f \in current : TRUE
    BY DEF EofMark
  <2> DEFINE g == [f EXCEPT !.hunks[Len(f.hunks)] = Unended(@)]
  <2>2. FileInv(f) /\ current = {f}
    BY <2>1, InCurrent
  <2>3. /\ f.hunks # <<>> /\ MayMark(Last(f.hunks)) /\ parse = "reading"
        /\ UNCHANGED <<files, hunk, total, parse, headers, signed>> /\ total' \in Nat
    BY <1>3, <2>1 DEF EofMark, NextLine, PatchInv
  <2>4. current' = {g}
    <3>1. current' = {[e EXCEPT !.hunks[Len(e.hunks)] = Unended(@)] : e \in current}
      BY <1>3 DEF EofMark
    <3> QED BY <2>2, <3>1
  <2>5. FileInv(g)
    BY <2>2, <2>3, MarkedFile
  <2> HIDE DEF g
  <2>6. \A e \in current' : FileInv(e) /\ current' = {e}
    BY <2>4, <2>5
  <2>7. hunk' = {} /\ parse' # "ok" /\ (current' = {}) = (current = {})
    BY <1>3, <2>2, <2>3, <2>4
  <2> QED BY <2>3, <2>6, <2>7, KeepsFiles
<1> QED BY <1>1, <1>2, <1>3

\* A header line that leaves a file without hunks, whatever it says.
LEMMA HeaderKeeps ==
  ASSUME PatchInv, NextLine, hunk = {}, NEW f \in current, NEW g \in FileType, g.hunks = <<>>, current' = {g},
         UNCHANGED <<files, hunk, total, parse, headers, signed>>
  PROVE  PatchInv'
<1>1. FileInv(g)
  BY BareFile
<1>2. \A e \in current' : FileInv(e) /\ current' = {e}
  BY <1>1
<1>3. hunk' = {} /\ parse' # "ok" /\ (current' = {}) = (current = {}) /\ total' \in Nat
  BY DEF NextLine, PatchInv
<1> QED BY <1>2, <1>3, KeepsFiles

\* What a header line finds.
LEMMA HeaderFile ==
  ASSUME PatchInv, NEW f \in current
  PROVE  f \in FileType /\ current = {f}
BY InCurrent, FileHunks

LEMMA MarkersKeep ==
  ASSUME PatchInv, NEW p \in PathNames \cup {""}, OldMarker(p) \/ NewMarker(p)
  PROVE  PatchInv'
<1>1. PICK f \in current : f.hunks = <<>>
  BY DEF OldMarker, NewMarker, HeaderLine
<1>2. f \in FileType /\ current = {f}
  BY <1>1, HeaderFile
<1>3. CASE OldMarker(p)
  <2> DEFINE g == [f EXCEPT !.old = p]
  <2>1. g \in FileType /\ g.hunks = <<>>
    BY <1>1, <1>2 DEF FileType
  <2>2. /\ current' = {g} /\ NextLine /\ hunk = {}
        /\ UNCHANGED <<files, hunk, total, parse, headers, signed>>
    BY <1>2, <1>3 DEF OldMarker, HeaderLine
  <2> HIDE DEF g
  <2> QED BY <1>1, <2>1, <2>2, HeaderKeeps
<1>4. CASE NewMarker(p)
  <2> DEFINE g == [f EXCEPT !.new = p]
  <2>1. g \in FileType /\ g.hunks = <<>>
    BY <1>1, <1>2 DEF FileType
  <2>2. /\ current' = {g} /\ NextLine /\ hunk = {}
        /\ UNCHANGED <<files, hunk, total, parse, headers, signed>>
    BY <1>2, <1>4 DEF NewMarker, HeaderLine
  <2> HIDE DEF g
  <2> QED BY <1>1, <2>1, <2>2, HeaderKeeps
<1> QED BY <1>3, <1>4

LEMMA MovesKeep ==
  ASSUME PatchInv, NEW k \in {"renamed", "copied"}, NEW p \in PathNames, MovedFrom(k, p) \/ MovedTo(k, p)
  PROVE  PatchInv'
<1>1. PICK f \in current : f.hunks = <<>>
  BY DEF MovedFrom, MovedTo, HeaderLine
<1>2. f \in FileType /\ current = {f}
  BY <1>1, HeaderFile
<1>3. CASE MovedFrom(k, p)
  <2> DEFINE g == [f EXCEPT !.old = p, !.kind = k]
  <2>1. g \in FileType /\ g.hunks = <<>>
    BY <1>1, <1>2 DEF FileType
  <2>2. /\ current' = {g} /\ NextLine /\ hunk = {}
        /\ UNCHANGED <<files, hunk, total, parse, headers, signed>>
    BY <1>2, <1>3 DEF MovedFrom, HeaderLine
  <2> HIDE DEF g
  <2> QED BY <1>1, <2>1, <2>2, HeaderKeeps
<1>4. CASE MovedTo(k, p)
  <2> DEFINE g == [f EXCEPT !.new = p, !.kind = k]
  <2>1. g \in FileType /\ g.hunks = <<>>
    BY <1>1, <1>2 DEF FileType
  <2>2. /\ current' = {g} /\ NextLine /\ hunk = {}
        /\ UNCHANGED <<files, hunk, total, parse, headers, signed>>
    BY <1>2, <1>4 DEF MovedTo, HeaderLine
  <2> HIDE DEF g
  <2> QED BY <1>1, <2>1, <2>2, HeaderKeeps
<1> QED BY <1>3, <1>4

LEMMA ModesKeep ==
  ASSUME PatchInv, NewFileMode \/ DeletedFileMode
  PROVE  PatchInv'
<1>1. PICK f \in current : f.hunks = <<>>
  BY DEF NewFileMode, DeletedFileMode, HeaderLine
<1>2. f \in FileType /\ current = {f}
  BY <1>1, HeaderFile
<1>3. CASE NewFileMode
  <2> DEFINE g == [f EXCEPT !.kind = "added", !.old = ""]
  <2>1. g \in FileType /\ g.hunks = <<>>
    BY <1>1, <1>2 DEF FileType
  <2>2. /\ current' = {g} /\ NextLine /\ hunk = {}
        /\ UNCHANGED <<files, hunk, total, parse, headers, signed>>
    BY <1>2, <1>3 DEF NewFileMode, HeaderLine
  <2> HIDE DEF g
  <2> QED BY <1>1, <2>1, <2>2, HeaderKeeps
<1>4. CASE DeletedFileMode
  <2> DEFINE g == [f EXCEPT !.kind = "deleted", !.new = ""]
  <2>1. g \in FileType /\ g.hunks = <<>>
    BY <1>1, <1>2 DEF FileType
  <2>2. /\ current' = {g} /\ NextLine /\ hunk = {}
        /\ UNCHANGED <<files, hunk, total, parse, headers, signed>>
    BY <1>2, <1>4 DEF DeletedFileMode, HeaderLine
  <2> HIDE DEF g
  <2> QED BY <1>1, <2>1, <2>2, HeaderKeeps
<1> QED BY <1>3, <1>4

LEMMA ContentKeeps ==
  ASSUME PatchInv, NEW c \in {"binary", "submodule"}, ContentLine(c)
  PROVE  PatchInv'
<1>1. PICK f \in current : f.hunks = <<>>
  BY DEF ContentLine, HeaderLine
<1>2. f \in FileType /\ current = {f}
  BY <1>1, HeaderFile
<1> DEFINE g == [f EXCEPT !.content = IF @ = "submodule" THEN @ ELSE c]
<1>3. g \in FileType /\ g.hunks = <<>>
  BY <1>1, <1>2 DEF FileType
<1>4. /\ current' = {g} /\ NextLine /\ hunk = {}
      /\ UNCHANGED <<files, hunk, total, parse, headers, signed>>
  BY <1>2 DEF ContentLine, HeaderLine
<1> HIDE DEF g
<1> QED BY <1>1, <1>3, <1>4, HeaderKeeps

\* The lines that read nothing into a file.
LEMMA OtherLinesKeep ==
  ASSUME PatchInv, Unsupported \/ StrayLine \/ Signature \/ Trailer \/ Ignored
  PROVE  PatchInv'
<1>1. CASE Unsupported \/ StrayLine \/ Trailer
  BY <1>1, FailsKeeps DEF Unsupported, StrayLine, Trailer
<1>2. CASE Signature
  BY <1>2 DEF Signature, PatchInv
<1>3. CASE Ignored
  BY <1>3 DEF Ignored, PatchInv
<1> QED BY <1>1, <1>2, <1>3

-----------------------------------------------------------------------------
(* The invariant.                                                          *)

\* An empty reading is in order.
LEMMA PatchInvInit ==
  ASSUME PatchInit
  PROVE  PatchInv
BY FS_EmptySet DEF PatchInit, PatchInv

LEMMA PatchInvStep ==
  ASSUME PatchInv, [PatchNext]_patchVars
  PROVE  PatchInv'
<1>1. CASE \E p \in HeaderNames : DiffLine(p)
  BY <1>1, DiffLineKeeps
<1>2. CASE \E old, new \in HunkRanges : HunkLine(old, new)
  BY <1>2, HunkLineKeeps
<1>3. CASE \E k \in RowForms : RowLine(k)
  BY <1>3, RowLineKeeps
<1>4. CASE EofMark
  BY <1>4, EofMarkKeeps
<1>5. CASE Unsupported \/ StrayLine \/ Signature \/ Trailer \/ Ignored
  BY <1>5, OtherLinesKeep
<1>6. CASE \E p \in PathNames \cup {""} : OldMarker(p) \/ NewMarker(p)
  BY <1>6, MarkersKeep
<1>7. CASE \E k \in {"renamed", "copied"}, p \in PathNames : MovedFrom(k, p) \/ MovedTo(k, p)
  BY <1>7, MovesKeep
<1>8. CASE NewFileMode \/ DeletedFileMode
  BY <1>8, ModesKeep
<1>9. CASE \E c \in {"binary", "submodule"} : ContentLine(c)
  BY <1>9, ContentKeeps
<1>10. CASE \E blank \in BOOLEAN : EndOfInput(blank)
  BY <1>10, EndOfInputKeeps
<1>11. CASE UNCHANGED patchVars
  BY <1>11 DEF patchVars, PatchInv
<1> QED
  BY <1>1, <1>2, <1>3, <1>4, <1>5, <1>6, <1>7, <1>8, <1>9, <1>10, <1>11 DEF PatchNext

\* The numbers of a side grow along a file in order, and fit.
LEMMA GrowsAlong ==
  ASSUME NEW f, FileInv(f), NEW s \in LineSides
  PROVE  Grows(f, s)
<1> SUFFICES ASSUME NEW k \in DOMAIN f.hunks, NEW l \in DOMAIN f.hunks,
                    NEW i \in OnSide(f.hunks[k], s), NEW j \in OnSide(f.hunks[l], s)
             PROVE  /\ f.hunks[k].rows[i][s] =< MaxLine
                    /\ k < l \/ (k = l /\ i < j) => f.hunks[k].rows[i][s] < f.hunks[l].rows[j][s]
  BY DEF Grows
<1> DEFINE a == f.hunks[k][s][1]
           b == f.hunks[k][s][2]
           c == f.hunks[l][s][1]
           x == f.hunks[k].rows[i][s]
           y == f.hunks[l].rows[j][s]
<1>1. f.hunks \in Seq(HunkType) /\ DOMAIN f.hunks = 1 .. Len(f.hunks) /\ Len(f.hunks) \in Nat
  BY FileHunks
<1>2. /\ f.hunks[k] \in HunkType /\ f.hunks[l] \in HunkType
      /\ SideInv(f.hunks[k], s) /\ SideInv(f.hunks[l], s)
      /\ Wanted(f.hunks[k], s) = 0
  BY DEF FileInv, HunkInv, Complete
<1>3. a \in Nat /\ b \in Nat /\ c \in Nat
  BY <1>2, SideIsFinite
<1>4. x \in Nat /\ y \in Nat
  <2>1. \A g \in HunkType : \A m \in DOMAIN g.rows : g.rows[m] \in RowType
    BY DEF HunkType
  <2>2. \A g \in HunkType : \A m \in DOMAIN g.rows : g.rows[m][s] \in Nat
    BY <2>1 DEF RowType, LineSides
  <2> QED BY <1>2, <2>2 DEF OnSide
<1>5. a =< x /\ x < a + b /\ c =< y
  BY <1>2, <1>3 DEF SideInv
<1>6. x =< MaxLine
  <2>1. ~(b > 0 /\ (a = 0 \/ a + b > MaxLine))
    BY <1>2 DEF SideInv, BadRange
  <2> HIDE DEF a, b, c, x, y
  <2> QED BY <1>3, <1>4, <1>5, <2>1, PatchAssumption
<1>7. CASE k < l
  <2>1. a + b =< c
    BY <1>7 DEF FileInv, Behind
  <2> HIDE DEF a, b, c, x, y
  <2>2. x < y
    BY <1>3, <1>4, <1>5, <2>1
  <2> QED BY <1>6, <2>2 DEF x, y
<1>8. CASE k = l /\ i < j
  BY <1>2, <1>6, <1>8 DEF SideInv
<1> QED BY <1>6, <1>7, <1>8

LEMMA PatchInvIsSound ==
  ASSUME PatchInv
  PROVE  AcceptedIsSound
<1> SUFFICES ASSUME parse = "ok"
             PROVE  /\ \A i \in DOMAIN files :
                         /\ \A s \in LineSides : Grows(files[i], s)
                         /\ \A k \in DOMAIN files[i].hunks : Complete(files[i].hunks[k])
                         /\ \A j \in DOMAIN files : i # j => ~SamePaths(files[i], files[j])
                    /\ ~signed => Len(files) = headers
  BY DEF AcceptedIsSound
<1>1. \A i \in DOMAIN files : FileInv(files[i])
  BY DEF PatchInv
<1>2. \A i \in DOMAIN files : \A s \in LineSides : Grows(files[i], s)
  BY <1>1, GrowsAlong
<1>3. \A i \in DOMAIN files : \A k \in DOMAIN files[i].hunks : Complete(files[i].hunks[k])
  BY <1>1 DEF FileInv
<1>4. \A i, j \in DOMAIN files : i # j => ~SamePaths(files[i], files[j])
  BY DEF PatchInv
<1>5. ~signed => Len(files) = headers
  <2>1. files \in Seq(FileType) /\ current = {} /\ (~signed => headers = Len(files) + Cardinality(current))
    BY DEF PatchInv
  <2>2. Cardinality(current) = 0
    BY <2>1, FS_EmptySet
  <2> QED BY ONLY <2>1, <2>2
<1> QED BY <1>2, <1>3, <1>4, <1>5

\* What parse_patch accepts can be relied on, whatever the patch, its ranges
\* and the limits: on each side of a file the line numbers grow from hunk to
\* hunk and row to row and fit a u32, every hunk has the rows its header
\* counts, no two files are the same change, and no file header is lost.
THEOREM AcceptedPatchesAreSound == PatchSpec => []AcceptedIsSound
<1>1. PatchInit => PatchInv
  BY PatchInvInit
<1>2. PatchInv /\ [PatchNext]_patchVars => PatchInv'
  BY PatchInvStep
<1>3. PatchInv => AcceptedIsSound
  BY PatchInvIsSound
<1> QED BY <1>1, <1>2, <1>3, PTL DEF PatchSpec
=============================================================================
