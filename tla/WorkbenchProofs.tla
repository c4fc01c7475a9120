-------------------------- MODULE WorkbenchProofs --------------------------
(* Proofs about Workbench, for every value of its constants. *)
EXTENDS Workbench, TLAPS

-----------------------------------------------------------------------------
(* Typing.                                                                 *)

\* The texts of a draft, a row and a task.
LEMMA TextTypes ==
  ASSUME TypeOK, NEW d \in Drafts
  PROVE  /\ Text(d, mem[d]) \in Texts /\ Text(d, row[d]) \in Texts /\ Text(d, task[d]) \in Texts
         /\ Text(d, load.rows[d]) \in Texts
BY DEF TypeOK, Text, Texts, Draft, Row, SaveTask, LoadTask

\* Moving a task on gives a task.
LEMMA TaskStage ==
  ASSUME TypeOK, NEW d \in Drafts, NEW s \in {"none", "timer", "store", "saved", "failed"}
  PROVE  [task EXCEPT ![d].stage = s] \in [Drafts -> SaveTask]
BY DEF TypeOK, SaveTask

\* Moving a discard on gives a discard.
LEMMA DiscardStage ==
  ASSUME TypeOK, NEW d \in Drafts, NEW s \in {"none", "store", "ok", "err"}
  PROVE  [disc EXCEPT ![d].stage = s] \in [Drafts -> DiscardTask]
BY DEF TypeOK, DiscardTask

\* The save that a dropped task leaves behind is of a text.
LEMMA OrphanTypes ==
  ASSUME TypeOK, NEW d \in Drafts, NEW x \in Orphaned(d)
  PROVE  orphans \cup x \in SUBSET Texts
<1>1. x \in SUBSET Texts
  BY TextTypes DEF Orphaned
<1> QED
  BY <1>1 DEF TypeOK

\* Types are preserved by every step.
LEMMA TypeStep ==
  ASSUME TypeOK, [Next]_vars
  PROVE  TypeOK'
<1> USE DEF saving, publishing, opening, ghosts
<1>0. CASE UNCHANGED vars
  BY <1>0 DEF vars, TypeOK
<1>1. ASSUME NEW d \in Drafts, EditDraft(d), UNCHANGED closed
      PROVE  TypeOK'
  <2>1. typed' \in [Drafts -> 0 .. MaxEdits]
    BY <1>1, BoundsAssumption DEF EditDraft, TypeOK
  <2>2. mem' \in [Drafts -> Draft]
    BY <1>1, BoundsAssumption DEF EditDraft, TypeOK, Draft
  <2>3. task' \in [Drafts -> SaveTask]
    <3>1. mem'[d] \in Draft
      BY <2>2
    <3>2. Timer(mem'[d]) \in SaveTask
      BY <3>1 DEF Timer, Draft, SaveTask
    <3> QED
      BY <1>1, <3>2 DEF EditDraft, TypeOK
  <2>4. orphans' \in SUBSET Texts
    BY <1>1, OrphanTypes DEF EditDraft
  <2>5. prepared' \in Preview
    BY <1>1 DEF EditDraft, NoPreview, Preview
  <2> QED
    BY <1>1, <2>1, <2>2, <2>3, <2>4, <2>5 DEF EditDraft, TypeOK
<1>2. ASSUME NEW d \in Drafts, RetrySave(d), UNCHANGED closed
      PROVE  TypeOK'
  <2>1. task' \in [Drafts -> SaveTask]
    BY <1>2 DEF RetrySave, TypeOK, Timer, Draft, SaveTask
  <2>2. orphans' \in SUBSET Texts
    BY <1>2, OrphanTypes DEF RetrySave
  <2> QED
    BY <1>2, <2>1, <2>2 DEF RetrySave, TypeOK
<1>3. ASSUME NEW d \in Drafts, SaveTimer(d), UNCHANGED closed
      PROVE  TypeOK'
  BY <1>3, TaskStage DEF SaveTimer, TypeOK
<1>4. ASSUME NEW x \in Texts, StoreSave(x)
      PROVE  row' \in [Drafts -> Row]
  BY <1>4 DEF StoreSave, TypeOK, Texts, Row
<1>5. ASSUME NEW d \in Drafts, SaveRuns(d), UNCHANGED closed
      PROVE  TypeOK'
  <2>1. row' \in [Drafts -> Row]
    <3>1. CASE StoreSave(Text(d, task[d]))
      BY <1>4, <3>1, TextTypes
    <3> QED
      BY <1>5, <3>1 DEF SaveRuns, TypeOK
  <2>2. task' \in [Drafts -> SaveTask]
    BY <1>5, TaskStage DEF SaveRuns
  <2> QED
    BY <1>5, <2>1, <2>2 DEF SaveRuns, TypeOK
<1>6. ASSUME NEW x \in orphans, OrphanRuns(x), UNCHANGED closed
      PROVE  TypeOK'
  <2>1. x \in Texts /\ orphans' \in SUBSET Texts
    BY <1>6 DEF OrphanRuns, TypeOK
  <2>2. row' \in [Drafts -> Row]
    <3>1. CASE StoreSave(x)
      BY <1>4, <2>1, <3>1
    <3>2. CASE UNCHANGED row
      BY <3>2 DEF TypeOK
    <3> QED
      BY <1>6, <3>1, <3>2 DEF OrphanRuns
  <2> QED
    BY <1>6, <2>1, <2>2 DEF OrphanRuns, TypeOK
<1>7. ASSUME NEW d \in Drafts, SaveAnswer(d), UNCHANGED closed
      PROVE  TypeOK'
  <2>1. AcknowledgeSave(mem[d], task[d].version) \in Draft
    BY DEF AcknowledgeSave, TypeOK, Draft, SaveTask
  <2>2. mem' \in [Drafts -> Draft]
    BY <1>7, <2>1 DEF SaveAnswer, TypeOK
  <2>3. task' \in [Drafts -> SaveTask]
    BY <1>7 DEF SaveAnswer, TypeOK, NoTask, SaveTask
  <2> QED
    BY <1>7, <2>2, <2>3 DEF SaveAnswer, TypeOK
<1>8. ASSUME NEW d \in Drafts, DiscardSelected(d), UNCHANGED closed
      PROVE  TypeOK'
  <2>1. disc' \in [Drafts -> DiscardTask]
    BY <1>8 DEF DiscardSelected, TypeOK, Draft, DiscardTask
  <2> QED
    BY <1>8, <2>1 DEF DiscardSelected, TypeOK
<1>9. ASSUME NEW d \in Drafts, DiscardRuns(d), UNCHANGED closed
      PROVE  TypeOK'
  <2>1. disc' \in [Drafts -> DiscardTask]
    BY <1>9, DiscardStage DEF DiscardRuns
  <2>2. [row EXCEPT ![d] = NoRow] \in [Drafts -> Row] /\ discarded \cup {d} \in SUBSET Drafts
    BY DEF TypeOK, NoRow, Row
  <2>3. row' \in [Drafts -> Row] /\ discarded' \in SUBSET Drafts
    BY <1>9, <2>2 DEF DiscardRuns, TypeOK
  <2> QED
    BY <1>9, <2>1, <2>3 DEF DiscardRuns, TypeOK
<1>10. ASSUME NEW d \in Drafts, DiscardAnswer(d), UNCHANGED closed
       PROVE  TypeOK'
  <2>1. disc' \in [Drafts -> DiscardTask]
    BY <1>10 DEF DiscardAnswer, TypeOK, NoDiscard, DiscardTask
  <2>2. [mem EXCEPT ![d] = NoDraft] \in [Drafts -> Draft] /\ NoPreview \in Preview
    BY DEF TypeOK, NoDraft, Draft, NoPreview, Preview
  <2>3. mem' \in [Drafts -> Draft] /\ prepared' \in Preview
    BY <1>10, <2>2 DEF DiscardAnswer, TypeOK
  <2> QED
    BY <1>10, <2>1, <2>3 DEF DiscardAnswer, TypeOK
<1>11. CASE PrepareClick /\ UNCHANGED closed
  <2>1. Selected \in SUBSET Texts
    BY TextTypes DEF Selected
  <2>2. preparing' \in PrepareTask
    BY <1>11, <2>1 DEF PrepareClick, PrepareTask
  <2>3. prepared' \in Preview
    BY <1>11 DEF PrepareClick, NoPreview, Preview
  <2> QED
    BY <1>11, <2>2, <2>3 DEF PrepareClick, TypeOK
<1>12. CASE PrepareAnswer /\ UNCHANGED closed
  <2>1. preparing' \in PrepareTask
    BY <1>12 DEF PrepareAnswer, NoPrepare, PrepareTask
  <2>2. [shown |-> TRUE, texts |-> preparing.texts] \in Preview
    BY DEF TypeOK, Preview, PrepareTask
  <2>3. prepared' \in Preview
    BY <1>12, <2>2 DEF PrepareAnswer, TypeOK
  <2> QED
    BY <1>12, <2>1, <2>3 DEF PrepareAnswer, TypeOK
<1>13. CASE PublishClick /\ UNCHANGED closed
  BY <1>13 DEF PublishClick, TypeOK, PublishTask, Preview
<1>14. CASE PublishSends /\ UNCHANGED closed
  BY <1>14 DEF PublishSends, TypeOK, PublishTask
<1>15. \A texts : MarkRows(texts) \in [Drafts -> Row]
  BY DEF MarkRows, TypeOK, Row
<1>16. ASSUME NEW c \in BOOLEAN, PublishEnds(c), UNCHANGED closed
       PROVE  TypeOK'
  <2>1. row' \in [Drafts -> Row]
    BY <1>15, <1>16 DEF PublishEnds, TypeOK
  <2>2. doubt' \in SUBSET Texts
    BY <1>16 DEF PublishEnds, TypeOK, PublishTask
  <2>3. pub' \in PublishTask
    BY <1>16 DEF PublishEnds, TypeOK, PublishTask
  <2> QED
    BY <1>16, <2>1, <2>2, <2>3 DEF PublishEnds, TypeOK
<1>17. CASE ReconcileClick /\ UNCHANGED closed
  BY <1>17 DEF ReconcileClick, TypeOK, PublishTask
<1>18. ASSUME NEW c \in BOOLEAN, ReconcileEnds(c), UNCHANGED closed
       PROVE  TypeOK'
  <2>1. row' \in [Drafts -> Row]
    BY <1>15, <1>18 DEF ReconcileEnds, TypeOK
  <2>2. doubt' \in SUBSET Texts
    BY <1>18 DEF ReconcileEnds, TypeOK, PublishTask
  <2>3. pub' \in PublishTask
    BY <1>18 DEF ReconcileEnds, TypeOK, PublishTask
  <2> QED
    BY <1>18, <2>1, <2>2, <2>3 DEF ReconcileEnds, TypeOK
<1>19. MarkMemory(pub.texts) \in [Drafts -> Draft]
  BY DEF MarkMemory, TypeOK, Draft
<1>20. CASE (PublishAnswer \/ ReconcileAnswer) /\ UNCHANGED closed
  <2>0. NoPublish \in PublishTask /\ NoPreview \in Preview
    BY DEF NoPublish, PublishTask, NoPreview, Preview
  <2>1. mem' \in [Drafts -> Draft]
    BY <1>19, <1>20 DEF PublishAnswer, ReconcileAnswer, TypeOK
  <2>2. pub' \in PublishTask
    BY <1>20, <2>0 DEF PublishAnswer, ReconcileAnswer
  <2>3. prepared' \in Preview
    BY <1>20, <2>0 DEF PublishAnswer, ReconcileAnswer, TypeOK
  <2> QED
    BY <1>20, <2>1, <2>2, <2>3 DEF PublishAnswer, ReconcileAnswer, TypeOK
<1>21. NoLoad \in LoadTask
  BY DEF NoLoad, NoRow, Row, LoadTask
<1>22. ASSUME NEW same \in BOOLEAN, OpenPending(same), UNCHANGED closed
       PROVE  TypeOK'
  <2>1. load' \in LoadTask
    BY <1>21, <1>22 DEF OpenPending, LoadTask
  <2>2. loads' \in 0 .. MaxLoads
    BY <1>22, BoundsAssumption DEF OpenPending, TypeOK
  <2> QED
    BY <1>22, <2>1, <2>2 DEF OpenPending, TypeOK
<1>23. CASE LoadReads /\ UNCHANGED closed
  <2>1. load' \in LoadTask
    BY <1>23 DEF LoadReads, TypeOK, LoadTask
  <2> QED
    BY <1>23, <2>1 DEF LoadReads, TypeOK
<1>24. CASE LoadEndsWithout /\ UNCHANGED closed
  BY <1>21, <1>24 DEF LoadEndsWithout, TypeOK
<1>25. CASE Install /\ UNCHANGED closed
  <2>1. mem' \in [Drafts -> Draft]
    BY <1>25 DEF Install, TypeOK, NoDraft, Draft, Row, LoadTask
  <2>2. active' \in BOOLEAN /\ prepared' \in Preview
    BY <1>25 DEF Install, TypeOK, NoPreview, Preview, LoadTask
  <2> QED
    BY <1>21, <1>25, <2>1, <2>2 DEF Install, TypeOK
<1>26. CASE Close
  BY <1>26 DEF Close, TypeOK
<1> QED
  BY <1>0, <1>1, <1>2, <1>3, <1>5, <1>6, <1>7, <1>8, <1>9, <1>10, <1>11, <1>12, <1>13, <1>14,
     <1>16, <1>17, <1>18, <1>20, <1>22, <1>23, <1>24, <1>25, <1>26 DEF Next, Window, Background

\* Types hold initially.
LEMMA TypeInit == Init => TypeOK
<1>1. NoDraft \in Draft /\ NoRow \in Row
  BY DEF NoDraft, Draft, NoRow, Row
<1>2. NoTask \in SaveTask /\ NoDiscard \in DiscardTask
  BY DEF NoTask, SaveTask, NoDiscard, DiscardTask
<1>3. NoPrepare \in PrepareTask /\ NoPreview \in Preview /\ NoPublish \in PublishTask
  BY DEF NoPrepare, PrepareTask, NoPreview, Preview, NoPublish, PublishTask
<1>4. NoLoad \in LoadTask
  BY <1>1 DEF NoLoad, LoadTask
<1>5. 0 \in 0 .. MaxLoads /\ 0 \in 0 .. MaxEdits
  BY BoundsAssumption
<1>6. Init => active \in BOOLEAN /\ busy \in BOOLEAN /\ closed \in BOOLEAN
  BY DEF Init
<1>7. Init => /\ mem \in [Drafts -> Draft] /\ row \in [Drafts -> Row]
              /\ task \in [Drafts -> SaveTask] /\ disc \in [Drafts -> DiscardTask]
              /\ typed \in [Drafts -> 0 .. MaxEdits]
  BY <1>1, <1>2, <1>5 DEF Init
<1> QED
  BY <1>3, <1>4, <1>5, <1>6, <1>7 DEF Init, TypeOK

\* Workbench is type correct.
THEOREM TypeCorrect == Spec => []TypeOK
BY TypeInit, TypeStep, PTL DEF Spec

-----------------------------------------------------------------------------
(* What a step may write to a row: a later version, the mark of a text that *)
(* is being published, or nothing; only a discard deletes one.              *)

\* The row of draft d keeps its text; it may get the mark.
RowKept(d) ==
  \/ row'[d] = row[d]
  \/ /\ row'[d] = [row[d] EXCEPT !.published = TRUE]
     /\ Text(d, row[d]) \in pub.texts /\ pub.stage \in {"wait", "look"}

\* The row of draft d gets a text that covers the one it had.
RowSaved(d) == ~row[d].published /\ ~row'[d].published /\ Covers(row'[d], row[d])

\* The row of draft d is deleted.
RowDeleted(d) ==
  /\ row'[d] = NoRow /\ ~row[d].published
  /\ disc[d].stage = "store" /\ d \in discarded'

\* Store::save_draft writes a text that covers the stored one.
LEMMA SaveCovers ==
  ASSUME TypeOK, NEW x \in Texts, Saves(x), StoreSave(x), NEW d \in Drafts
  PROVE  RowKept(d) \/ RowSaved(d)
<1>1. x.draft \in Drafts /\ x.version \in Nat /\ x.body \in Nat
  BY DEF Texts
<1>2. CASE d = x.draft
  <2>1. row'[d] = [version |-> x.version, body |-> x.body, published |-> FALSE]
    BY <1>2 DEF StoreSave, TypeOK
  <2>2. row[d].version \in Nat
    BY DEF TypeOK, Row
  <2> QED
    BY <1>1, <1>2, <2>1, <2>2 DEF Saves, RowSaved, Covers
<1>3. CASE d # x.draft
  BY <1>1, <1>3 DEF StoreSave, TypeOK, RowKept
<1> QED
  BY <1>2, <1>3

\* The mark of a confirmation changes nothing else.
LEMMA MarkKeeps ==
  ASSUME TypeOK, row' = MarkRows(pub.texts), pub.stage \in {"wait", "look"}, NEW d \in Drafts
  PROVE  RowKept(d)
BY DEF MarkRows, RowKept

\* Every step treats every row in one of the three ways.
LEMMA RowStep ==
  ASSUME TypeOK, [Next]_vars, NEW d \in Drafts
  PROVE  RowKept(d) \/ RowSaved(d) \/ RowDeleted(d)
<1>1. ASSUME UNCHANGED row PROVE RowKept(d)
  BY <1>1 DEF RowKept
<1>2. ASSUME NEW e \in Drafts, SaveRuns(e)
      PROVE  RowKept(d) \/ RowSaved(d)
  BY <1>1, <1>2, SaveCovers, TextTypes DEF SaveRuns
<1>3. ASSUME NEW x \in orphans, OrphanRuns(x)
      PROVE  RowKept(d) \/ RowSaved(d)
  <2>1. x \in Texts
    BY DEF TypeOK
  <2> QED
    BY <1>1, <1>3, <2>1, SaveCovers DEF OrphanRuns
<1>4. ASSUME NEW e \in Drafts, DiscardRuns(e)
      PROVE  RowKept(d) \/ RowDeleted(d)
  <2>1. CASE UNCHANGED row
    BY <1>1, <2>1
  <2>2. CASE /\ Discards(e, disc[e].version) /\ row' = [row EXCEPT ![e] = NoRow]
             /\ discarded' = discarded \cup {e}
    BY <1>4, <2>2 DEF DiscardRuns, Discards, TypeOK, RowKept, RowDeleted
  <2> QED
    BY <1>4, <2>1, <2>2 DEF DiscardRuns
<1>5. ASSUME NEW c \in BOOLEAN, PublishEnds(c) \/ ReconcileEnds(c)
      PROVE  RowKept(d)
  BY <1>1, <1>5, MarkKeeps DEF PublishEnds, ReconcileEnds
<1>6. CASE \/ \E e \in Drafts : EditDraft(e) \/ RetrySave(e) \/ DiscardSelected(e) \/ SaveTimer(e)
                                \/ SaveAnswer(e) \/ DiscardAnswer(e)
           \/ PrepareClick \/ PrepareAnswer \/ PublishClick \/ PublishSends \/ PublishAnswer
           \/ ReconcileClick \/ ReconcileAnswer
           \/ \E same \in BOOLEAN : OpenPending(same)
           \/ LoadReads \/ LoadEndsWithout \/ Install \/ Close \/ UNCHANGED vars
  BY <1>1, <1>6
     DEF EditDraft, RetrySave, DiscardSelected, SaveTimer, SaveAnswer, DiscardAnswer, PrepareClick,
         PrepareAnswer, PublishClick, PublishSends, PublishAnswer, ReconcileClick, ReconcileAnswer,
         OpenPending, LoadReads, LoadEndsWithout, Install, Close, vars
<1> QED
  BY <1>2, <1>3, <1>4, <1>5, <1>6 DEF Next, Window, Background

\* Store::save_draft never replaces a text by one of an earlier version, and a published
\* row never changes: in whatever order the threads of dropped and repeated saves run.
THEOREM TheStoreNeverGoesBack == Spec => StoreNeverGoesBack
<1>1. TypeOK /\ [Next]_vars => [StoreNeverGoesBackStep]_vars
  <2> SUFFICES ASSUME TypeOK, [Next]_vars, NEW d \in Drafts
               PROVE  /\ row'[d].version < row[d].version =>
                           row'[d].version = 0 /\ disc[d].stage = "store"
                      /\ row[d].published => row'[d] = row[d]
    BY DEF StoreNeverGoesBackStep
  <2>1. row[d] \in Row /\ row'[d] \in Row
    BY TypeStep DEF TypeOK
  <2>2. CASE RowKept(d)
    BY <2>1, <2>2 DEF RowKept, Row
  <2>3. CASE RowSaved(d)
    BY <2>1, <2>3 DEF RowSaved, Covers, Row
  <2>4. CASE RowDeleted(d)
    BY <2>4 DEF RowDeleted, NoRow
  <2> QED
    BY <2>2, <2>3, <2>4, RowStep
<1> QED
  BY <1>1, TypeCorrect, PTL DEF Spec, StoreNeverGoesBack

-----------------------------------------------------------------------------
(* What is marked published was sent.                                      *)

\* Every step keeps the sent texts ahead of the marks.
LEMMA SentStep ==
  ASSUME TypeOK, SentInv, [Next]_vars
  PROVE  SentInv'
<1> DEFINE Pub == pub.stage \notin {"none", "check"} => pub.texts \subseteq sent
           Load == \A d \in Drafts : load.rows[d].published => Text(d, load.rows[d]) \in sent
           Rows == \A d \in Drafts : row[d].published => Text(d, row[d]) \in sent
           Screen == \A d \in Drafts : mem[d].here /\ mem[d].published =>
                       \E x \in sent : x.draft = d /\ x.version = mem[d].version
<1>a. SentInv <=> Pub /\ doubt \subseteq sent /\ Load /\ Rows /\ Screen
  BY DEF SentInv, MarkedWasSent
<1>b. SentInv' <=> Pub' /\ doubt' \subseteq sent' /\ Load' /\ Rows' /\ Screen'
  BY DEF SentInv, MarkedWasSent
<1> USE DEF saving, publishing, opening, ghosts
<1>1. sent \subseteq sent'
  BY DEF Next, Window, Background, EditDraft, RetrySave, DiscardSelected, SaveTimer, SaveRuns,
         SaveAnswer, DiscardRuns, DiscardAnswer, OrphanRuns, PrepareClick, PrepareAnswer,
         PublishClick, PublishSends, PublishAnswer, PublishEnds, ReconcileClick, ReconcileEnds,
         ReconcileAnswer, OpenPending, LoadReads, LoadEndsWithout, Install, Close, vars
<1>2. Rows'
  <2> SUFFICES ASSUME NEW d \in Drafts, row'[d].published PROVE Text(d, row'[d]) \in sent'
    BY DEF Text
  <2>1. row[d] \in Row
    BY DEF TypeOK
  <2>2. RowKept(d)
    BY RowStep DEF RowSaved, RowDeleted, NoRow
  <2>3. Text(d, row'[d]) = Text(d, row[d])
    BY <2>1, <2>2 DEF RowKept, Text, Row
  <2>4. Text(d, row[d]) \in sent
    <3>1. CASE row[d].published
      BY <1>a, <3>1
    <3>2. CASE ~row[d].published
      BY <1>a, <2>2, <3>2 DEF RowKept
    <3> QED
      BY <3>1, <3>2
  <2> QED
    BY <1>1, <2>3, <2>4
<1>3. UNCHANGED load => Load'
  BY <1>1, <1>a DEF Text
<1>4. UNCHANGED pub => Pub'
  BY <1>1, <1>a
<1>5. UNCHANGED mem => Screen'
  BY <1>1, <1>a
<1>6. UNCHANGED doubt => doubt' \subseteq sent'
  BY <1>1, <1>a
<1>7. CASE UNCHANGED <<mem, pub, doubt, load>>
  BY <1>2, <1>3, <1>4, <1>5, <1>6, <1>7, <1>b
<1>8. ASSUME UNCHANGED <<mem, load>>, Pub', doubt' \subseteq sent'
      PROVE  SentInv'
  BY <1>2, <1>3, <1>5, <1>8, <1>b
<1>9. ASSUME UNCHANGED <<pub, doubt, load>>, Screen'
      PROVE  SentInv'
  BY <1>2, <1>3, <1>4, <1>6, <1>9, <1>b
<1>10. ASSUME NEW d \in Drafts, EditDraft(d)
       PROVE  SentInv'
  <2>1. \A e \in Drafts : e # d => mem'[e] = mem[e]
    BY <1>10 DEF EditDraft, TypeOK
  <2>2. ~mem'[d].published
    BY <1>10 DEF EditDraft, TypeOK, Draft
  <2>3. Screen'
    BY <1>1, <1>a, <2>1, <2>2
  <2> QED
    BY <1>9, <1>10, <2>3 DEF EditDraft
<1>11. ASSUME NEW d \in Drafts, SaveAnswer(d)
       PROVE  SentInv'
  <2>1. \A e \in Drafts : e # d => mem'[e] = mem[e]
    BY <1>11 DEF SaveAnswer, TypeOK
  <2>2. /\ mem'[d].here = mem[d].here /\ mem'[d].published = mem[d].published
        /\ mem'[d].version = mem[d].version
    BY <1>11 DEF SaveAnswer, AcknowledgeSave, TypeOK, Draft
  <2>3. Screen'
    BY <1>1, <1>a, <2>1, <2>2
  <2> QED
    BY <1>9, <1>11, <2>3 DEF SaveAnswer
<1>12. ASSUME NEW d \in Drafts, DiscardAnswer(d)
       PROVE  SentInv'
  <2>1. \A e \in Drafts : e # d => mem'[e] = mem[e]
    BY <1>12 DEF DiscardAnswer, TypeOK
  <2>2. mem'[d] = mem[d] \/ ~mem'[d].here
    BY <1>12 DEF DiscardAnswer, TypeOK, NoDraft
  <2>3. Screen'
    BY <1>1, <1>a, <2>1, <2>2
  <2> QED
    BY <1>9, <1>12, <2>3 DEF DiscardAnswer
<1>13. CASE PublishClick
  <2>1. pub'.stage = "check"
    BY <1>13 DEF PublishClick
  <2> QED
    BY <1>6, <1>8, <1>13, <2>1 DEF PublishClick
<1>14. CASE PublishSends
  <2>1. pub'.texts = pub.texts
    BY <1>14 DEF PublishSends, TypeOK, PublishTask
  <2> QED
    BY <1>6, <1>8, <1>14, <2>1 DEF PublishSends
<1>15. ASSUME NEW c \in BOOLEAN, PublishEnds(c)
       PROVE  SentInv'
  <2>1. pub'.texts = {} \/ (pub'.texts = pub.texts /\ pub.stage = "wait")
    BY <1>15 DEF PublishEnds, TypeOK, PublishTask
  <2>2. doubt' = {} \/ doubt' = doubt \/ (doubt' = pub.texts /\ pub.stage = "wait")
    BY <1>15 DEF PublishEnds
  <2>3. Pub' /\ doubt' \subseteq sent'
    BY <1>1, <1>a, <2>1, <2>2
  <2> QED
    BY <1>8, <1>15, <2>3 DEF PublishEnds
<1>16. CASE ReconcileClick
  <2>1. pub'.texts = doubt
    BY <1>16 DEF ReconcileClick
  <2> QED
    BY <1>1, <1>6, <1>8, <1>16, <1>a, <2>1 DEF ReconcileClick
<1>17. ASSUME NEW c \in BOOLEAN, ReconcileEnds(c)
       PROVE  SentInv'
  <2>1. pub'.texts = {} \/ (pub'.texts = pub.texts /\ pub.stage = "look")
    BY <1>17 DEF ReconcileEnds, TypeOK, PublishTask
  <2>2. doubt' = {} \/ doubt' = doubt
    BY <1>17 DEF ReconcileEnds
  <2>3. Pub' /\ doubt' \subseteq sent'
    BY <1>1, <1>a, <2>1, <2>2
  <2> QED
    BY <1>8, <1>17, <2>3 DEF ReconcileEnds
<1>18. CASE PublishAnswer \/ ReconcileAnswer
  <2>1. pub'.stage = "none" /\ UNCHANGED <<doubt, load>>
    BY <1>18 DEF PublishAnswer, ReconcileAnswer, NoPublish
  <2>2. pub.texts \subseteq sent
    BY <1>18, <1>a DEF PublishAnswer, ReconcileAnswer
  <2>3. mem' = mem \/ mem' = MarkMemory(pub.texts)
    BY <1>18 DEF PublishAnswer, ReconcileAnswer
  <2>4. CASE mem' = MarkMemory(pub.texts)
    <3> SUFFICES ASSUME NEW d \in Drafts, mem'[d].here, mem'[d].published
                 PROVE  \E x \in sent' : x.draft = d /\ x.version = mem'[d].version
      BY <1>2, <1>3, <1>6, <1>b, <2>1
    <3>1. mem'[d] = mem[d] \/ \E x \in pub.texts : x.draft = d /\ x.version = mem[d].version
      BY <2>4 DEF MarkMemory
    <3>2. mem'[d].version = mem[d].version
      BY <2>4 DEF MarkMemory, TypeOK, Draft
    <3>3. CASE mem'[d] = mem[d]
      BY <1>1, <1>a, <3>3
    <3>4. CASE \E x \in pub.texts : x.draft = d /\ x.version = mem[d].version
      BY <1>1, <2>2, <3>2, <3>4
    <3> QED
      BY <3>1, <3>3, <3>4
  <2> QED
    BY <1>2, <1>3, <1>5, <1>6, <1>b, <2>1, <2>3, <2>4
<1>19. ASSUME UNCHANGED <<mem, pub, doubt>>, Load'
       PROVE  SentInv'
  BY <1>2, <1>4, <1>5, <1>6, <1>19, <1>b
<1>20. \A d \in Drafts : ~NoLoad.rows[d].published
  BY DEF NoLoad, NoRow
<1>21. ASSUME NEW same \in BOOLEAN, OpenPending(same)
       PROVE  SentInv'
  <2>1. load'.rows = NoLoad.rows
    BY <1>21 DEF OpenPending, NoLoad
  <2> QED
    BY <1>19, <1>20, <1>21, <2>1 DEF OpenPending
<1>22. CASE LoadReads
  <2>1. load'.rows = load.rows \/ load'.rows = row
    BY <1>22 DEF LoadReads, TypeOK, LoadTask
  <2>2. Load'
    BY <1>1, <1>a, <2>1 DEF Text
  <2> QED
    BY <1>19, <1>22, <2>2 DEF LoadReads
<1>23. CASE LoadEndsWithout
  BY <1>19, <1>20, <1>23 DEF LoadEndsWithout
<1>24. CASE Install
  <2>1. load'.rows = NoLoad.rows /\ UNCHANGED <<pub, doubt>>
    BY <1>24 DEF Install
  <2>2. ASSUME NEW d \in Drafts, mem'[d].here, mem'[d].published
        PROVE  \E x \in sent' : x.draft = d /\ x.version = mem'[d].version
    <3>1. /\ mem'[d].version = load.rows[d].version /\ load.rows[d].published
      BY <1>24, <2>2 DEF Install, NoDraft
    <3>2. Text(d, load.rows[d]) \in sent
      BY <1>a, <3>1
    <3> QED
      BY <1>1, <3>1, <3>2 DEF Text
  <2> QED
    BY <1>2, <1>4, <1>6, <1>20, <1>b, <2>1, <2>2
<1>25. CASE \/ \E d \in Drafts : RetrySave(d) \/ DiscardSelected(d) \/ SaveTimer(d) \/ SaveRuns(d)
                                 \/ DiscardRuns(d)
            \/ \E x \in orphans : OrphanRuns(x)
            \/ PrepareClick \/ PrepareAnswer \/ Close \/ UNCHANGED vars
  BY <1>7, <1>25 DEF RetrySave, DiscardSelected, SaveTimer, SaveRuns, DiscardRuns, OrphanRuns,
                     PrepareClick, PrepareAnswer, Close, vars
<1> QED
  BY <1>10, <1>11, <1>12, <1>13, <1>14, <1>15, <1>16, <1>17, <1>18, <1>21, <1>22, <1>23, <1>24,
     <1>25 DEF Next, Window, Background

\* The mark stands only on a text that was in a request: a row gets it for the very text,
\* the window for that version of the draft, also when an edit, a discard, another source
\* or a reconciliation came in between.
THEOREM MarkedTextsWereSent == Spec => []MarkedWasSent
<1>1. Init => SentInv
  BY DEF Init, SentInv, MarkedWasSent, NoPublish, NoLoad, NoRow, NoDraft
<1>2. SentInv => MarkedWasSent
  BY DEF SentInv
<1> QED
  BY <1>1, <1>2, SentStep, TypeCorrect, PTL DEF Spec

-----------------------------------------------------------------------------
(* What the window shows as saved is in the store.                         *)

\* Every step keeps an unsaved draft's task at the text on screen.
LEMMA ScreenStep ==
  ASSUME TypeOK, ScreenInv, [Next]_vars
  PROVE  ScreenInv'
<1> DEFINE Screen(d) == /\ ~active => ~mem[d].here
                        /\ mem[d].saved =< mem[d].version
                        /\ mem[d].here /\ ~IsSaved(d) /\ task[d].stage # "none"
                             => Text(d, task[d]) = Text(d, mem[d])
<1>a. ScreenInv <=> \A d \in Drafts : Screen(d)
  BY DEF ScreenInv
<1>b. ScreenInv' <=> \A d \in Drafts : Screen(d)'
  BY DEF ScreenInv
<1> USE DEF saving, publishing, opening, ghosts
<1>1. \A d \in Drafts : mem[d] \in Draft /\ task[d] \in SaveTask
  BY DEF TypeOK
<1>2. ASSUME NEW d \in Drafts, active' = active, mem'[d] = mem[d],
             task'[d] = task[d] \/ task'[d].stage = "none"
                \/ (task[d].stage # "none" /\ Text(d, task'[d]) = Text(d, task[d]))
      PROVE  Screen(d)'
  BY <1>2, <1>a DEF IsSaved, Text
<1>3. CASE UNCHANGED <<active, mem, task>>
  BY <1>2, <1>3, <1>b
<1>4. ASSUME NEW d \in Drafts, EditDraft(d)
      PROVE  ScreenInv'
  <2>1. /\ active /\ active' = active
        /\ \A e \in Drafts : e # d => mem'[e] = mem[e] /\ task'[e] = task[e]
    BY <1>4 DEF EditDraft, TypeOK
  <2>2. /\ mem'[d].version = mem[d].version + 1 /\ mem'[d].saved = mem[d].saved
        /\ task'[d] = Timer(mem'[d])
    BY <1>4 DEF EditDraft, TypeOK, Draft
  <2>3. mem'[d].saved =< mem'[d].version
    BY <1>1, <1>a, <2>2 DEF Draft
  <2>4. Screen(d)'
    BY <2>1, <2>2, <2>3 DEF Timer, Text
  <2> QED
    BY <1>2, <1>b, <2>1, <2>4
<1>5. ASSUME NEW d \in Drafts, RetrySave(d)
      PROVE  ScreenInv'
  <2>1. /\ UNCHANGED <<active, mem>> /\ task'[d] = Timer(mem[d])
        /\ \A e \in Drafts : e # d => task'[e] = task[e]
    BY <1>5 DEF RetrySave, TypeOK
  <2>2. Text(d, task[d])' = Text(d, mem[d])'
    BY <2>1 DEF Timer, Text
  <2>3. (~active => ~mem[d].here) /\ mem[d].saved =< mem[d].version
    BY <1>a
  <2>4. Screen(d)'
    BY <2>1, <2>2, <2>3
  <2> QED
    BY <1>2, <1>b, <2>1, <2>4
<1>6. ASSUME NEW d \in Drafts, SaveTimer(d) \/ SaveRuns(d)
      PROVE  ScreenInv'
  <2>1. /\ UNCHANGED <<active, mem>> /\ task[d].stage # "none"
        /\ \A e \in Drafts : e # d => task'[e] = task[e]
    BY <1>6 DEF SaveTimer, SaveRuns, TypeOK
  <2>2. task'[d].version = task[d].version /\ task'[d].body = task[d].body
    BY <1>6 DEF SaveTimer, SaveRuns, TypeOK, SaveTask
  <2> QED
    BY <1>2, <1>b, <2>1, <2>2 DEF Text
<1>7. ASSUME NEW d \in Drafts, SaveAnswer(d)
      PROVE  ScreenInv'
  <2>1. /\ active' = active /\ task'[d].stage = "none"
        /\ \A e \in Drafts : e # d => mem'[e] = mem[e] /\ task'[e] = task[e]
    BY <1>7 DEF SaveAnswer, TypeOK, NoTask
  <2>2. mem'[d] = mem[d] \/ mem'[d] = AcknowledgeSave(mem[d], task[d].version)
    BY <1>7 DEF SaveAnswer, TypeOK
  <2>3. mem'[d].here = mem[d].here /\ mem'[d].saved =< mem'[d].version
    BY <1>1, <1>a, <2>2 DEF AcknowledgeSave, Draft, SaveTask
  <2>4. Screen(d)'
    BY <1>a, <2>1, <2>3
  <2> QED
    BY <1>2, <1>b, <2>1, <2>4
<1>8. ASSUME NEW d \in Drafts, DiscardAnswer(d)
      PROVE  ScreenInv'
  <2>1. /\ UNCHANGED <<active, task>>
        /\ \A e \in Drafts : e # d => mem'[e] = mem[e]
    BY <1>8 DEF DiscardAnswer, TypeOK
  <2>2. mem'[d] = mem[d] \/ mem'[d] = NoDraft
    BY <1>8 DEF DiscardAnswer, TypeOK
  <2>3. CASE mem'[d] = NoDraft
    <3>1. Screen(d)'
      BY <2>3 DEF NoDraft
    <3> QED
      BY <1>2, <1>b, <2>1, <3>1
  <2> QED
    BY <1>2, <1>b, <2>1, <2>2, <2>3
<1>9. CASE PublishAnswer \/ ReconcileAnswer
  <2>1. UNCHANGED <<active, task>> /\ (mem' = mem \/ mem' = MarkMemory(pub.texts))
    BY <1>9 DEF PublishAnswer, ReconcileAnswer
  <2>2. \A d \in Drafts : /\ mem'[d].here = mem[d].here /\ mem'[d].saved = mem[d].saved
                          /\ mem'[d].version = mem[d].version /\ mem'[d].body = mem[d].body
    BY <1>1, <2>1 DEF MarkMemory, Draft
  <2> QED
    BY <1>a, <1>b, <2>1, <2>2 DEF IsSaved, Text
<1>10. CASE Install
  <2>1. \A d \in Drafts : /\ mem'[d].saved = mem'[d].version /\ mem'[d].version \in Nat
                          /\ ~active' => ~mem'[d].here
    BY <1>10 DEF Install, NoDraft, TypeOK, LoadTask, Row
  <2> QED
    BY <1>b, <2>1 DEF IsSaved
<1>11. CASE \/ \E d \in Drafts : DiscardSelected(d) \/ DiscardRuns(d)
            \/ \E x \in orphans : OrphanRuns(x)
            \/ PrepareClick \/ PrepareAnswer \/ PublishClick \/ PublishSends
            \/ \E c \in BOOLEAN : PublishEnds(c) \/ ReconcileEnds(c)
            \/ ReconcileClick
            \/ \E same \in BOOLEAN : OpenPending(same)
            \/ LoadReads \/ LoadEndsWithout \/ Close \/ UNCHANGED vars
  BY <1>3, <1>11 DEF DiscardSelected, DiscardRuns, OrphanRuns, PrepareClick, PrepareAnswer,
                     PublishClick, PublishSends, PublishEnds, ReconcileEnds, ReconcileClick,
                     OpenPending, LoadReads, LoadEndsWithout, Close, vars
<1> QED
  BY <1>4, <1>5, <1>6, <1>7, <1>8, <1>9, <1>10, <1>11 DEF Next, Window, Background

\* Once covered, a text stays covered, unless its draft is discarded.
LEMMA CoveredStays ==
  ASSUME TypeOK, [Next]_vars, NEW d \in Drafts, d \notin discarded',
         NEW x, x.version \in Nat, Covers(row[d], x)
  PROVE  Covers(row'[d], x)
<1>1. row[d] \in Row /\ row'[d] \in Row
  BY TypeStep DEF TypeOK
<1>2. CASE RowKept(d)
  BY <1>1, <1>2 DEF RowKept, Row, Covers
<1>3. CASE RowSaved(d)
  BY <1>1, <1>3 DEF RowSaved, Row, Covers
<1> QED
  BY <1>2, <1>3, RowStep DEF RowDeleted

\* Every step keeps the saved texts covered.
LEMMA DurableStep ==
  ASSUME TypeOK, ScreenInv, DurableInv, [Next]_vars
  PROVE  DurableInv'
<1> DEFINE Shown(d) == mem[d].here /\ IsSaved(d) => Covers(row[d], mem[d])
           Answer(d) == task[d].stage = "saved" => Covers(row[d], task[d])
           Read(d) == load.stage = "answer" /\ load.same => Covers(row[d], load.rows[d])
<1> USE DEF saving, publishing, opening, ghosts
<1> SUFFICES ASSUME NEW d \in Drafts, d \notin discarded'
             PROVE  Shown(d)' /\ Answer(d)' /\ Read(d)'
  BY DEF DurableInv
<1>1. /\ mem[d] \in Draft /\ row[d] \in Row /\ task[d] \in SaveTask
      /\ load \in LoadTask /\ load.rows[d] \in Row
  BY DEF TypeOK, LoadTask
<1>2. /\ mem[d].version \in Nat /\ task[d].version \in Nat /\ load.rows[d].version \in Nat
      /\ mem[d].saved \in Nat /\ row[d].version \in Nat
  BY <1>1 DEF Draft, Row, SaveTask
<1>3. d \notin discarded
  BY DEF Next, Window, Background, EditDraft, RetrySave, DiscardSelected, SaveTimer, SaveRuns,
         SaveAnswer, DiscardRuns, DiscardAnswer, OrphanRuns, PrepareClick, PrepareAnswer,
         PublishClick, PublishSends, PublishAnswer, PublishEnds, ReconcileClick, ReconcileEnds,
         ReconcileAnswer, OpenPending, LoadReads, LoadEndsWithout, Install, Close, vars
<1>4. Shown(d) /\ Answer(d) /\ Read(d)
  BY <1>3 DEF DurableInv
<1>5. mem'[d] = mem[d] => Shown(d)'
  BY <1>2, <1>4, CoveredStays DEF IsSaved, Covers
<1>6. task'[d] = task[d] \/ task'[d].stage # "saved" => Answer(d)'
  BY <1>2, <1>4, CoveredStays DEF Covers
<1>7. load' = load \/ load'.stage # "answer" => Read(d)'
  BY <1>2, <1>4, CoveredStays DEF Covers
<1>8. ASSUME NEW e \in Drafts, EditDraft(e)
      PROVE  Shown(d)' /\ Answer(d)' /\ Read(d)'
  <2>1. load' = load /\ (task'[d] = task[d] \/ task'[d].stage # "saved")
    BY <1>8 DEF EditDraft, Timer, TypeOK
  <2>2. CASE e # d
    <3>1. mem'[d] = mem[d]
      BY <1>8, <2>2 DEF EditDraft, TypeOK
    <3> QED
      BY <1>5, <1>6, <1>7, <2>1, <3>1
  <2>3. CASE e = d
    <3>1. mem'[d].version = mem[d].version + 1 /\ mem'[d].saved = mem[d].saved
      BY <1>8, <2>3 DEF EditDraft, TypeOK, Draft
    <3>2. mem'[d].version # mem'[d].saved
      BY <1>2, <3>1 DEF ScreenInv
    <3> QED
      BY <1>6, <1>7, <2>1, <3>2 DEF IsSaved
  <2> QED
    BY <2>2, <2>3
<1>9. ASSUME NEW e \in Drafts, RetrySave(e) \/ SaveTimer(e)
      PROVE  Shown(d)' /\ Answer(d)' /\ Read(d)'
  <2>1. task'[d] = task[d] \/ task'[d].stage # "saved"
    <3>1. CASE RetrySave(e)
      BY <3>1 DEF RetrySave, Timer, TypeOK
    <3>2. CASE SaveTimer(e)
      BY <3>2 DEF SaveTimer, TypeOK, SaveTask
    <3> QED
      BY <1>9, <3>1, <3>2
  <2> QED
    BY <1>5, <1>6, <1>7, <1>9, <2>1 DEF RetrySave, SaveTimer
<1>10. ASSUME NEW e \in Drafts, SaveRuns(e)
       PROVE  Shown(d)' /\ Answer(d)' /\ Read(d)'
  <2>1. UNCHANGED <<mem, load>>
    BY <1>10 DEF SaveRuns
  <2>2. CASE task'[d] = task[d] \/ task'[d].stage # "saved"
    BY <1>5, <1>6, <1>7, <2>1, <2>2
  <2>3. CASE task'[d] # task[d] /\ task'[d].stage = "saved"
    <3>1. e = d
      BY <1>10, <2>3 DEF SaveRuns, TypeOK
    <3>2. StoreSave(Text(d, task[d]))
      BY <1>1, <1>10, <2>3, <3>1 DEF SaveRuns, TypeOK, SaveTask
    <3>3. row'[d].version = task[d].version /\ row'[d].body = task[d].body
      BY <3>2 DEF StoreSave, Text, TypeOK
    <3>4. task'[d].version = task[d].version /\ task'[d].body = task[d].body
      BY <1>10, <3>1 DEF SaveRuns, TypeOK, SaveTask
    <3>5. Answer(d)'
      BY <3>3, <3>4 DEF Covers
    <3> QED
      BY <1>5, <1>7, <2>1, <3>5
  <2> QED
    BY <2>2, <2>3
<1>11. ASSUME NEW e \in Drafts, SaveAnswer(e)
       PROVE  Shown(d)' /\ Answer(d)' /\ Read(d)'
  <2>1. load' = load /\ (task'[d] = task[d] \/ task'[d].stage # "saved")
    BY <1>11 DEF SaveAnswer, NoTask, TypeOK
  <2>2. CASE mem'[d] = mem[d]
    BY <1>5, <1>6, <1>7, <2>1, <2>2
  <2>3. CASE mem'[d] # mem[d]
    <3>1. /\ e = d /\ task[d].stage = "saved" /\ mem[d].here
          /\ mem'[d] = AcknowledgeSave(mem[d], task[d].version)
      BY <1>11, <2>3 DEF SaveAnswer, TypeOK
    <3>2. /\ task[d].version =< mem[d].version /\ task[d].version > mem[d].saved
          /\ mem'[d].version = mem[d].version /\ mem'[d].body = mem[d].body
          /\ mem'[d].saved = task[d].version
      BY <1>1, <2>3, <3>1 DEF AcknowledgeSave, Draft
    <3>3. ~IsSaved(d)
      BY <1>2, <3>2 DEF IsSaved
    <3>4. Text(d, task[d]) = Text(d, mem[d])
      BY <3>1, <3>3 DEF ScreenInv
    <3>5. Covers(row[d], mem[d])
      BY <1>4, <3>1, <3>4 DEF Covers, Text
    <3>6. Covers(row'[d], mem[d])
      BY <1>2, <3>5, CoveredStays
    <3>7. Shown(d)'
      BY <3>2, <3>6 DEF Covers
    <3> QED
      BY <1>6, <1>7, <2>1, <3>7
  <2> QED
    BY <2>2, <2>3
<1>12. ASSUME NEW e \in Drafts, DiscardAnswer(e)
       PROVE  Shown(d)' /\ Answer(d)' /\ Read(d)'
  <2>1. mem'[d] = mem[d] \/ ~mem'[d].here
    BY <1>12 DEF DiscardAnswer, TypeOK, NoDraft
  <2>2. UNCHANGED <<task, load>>
    BY <1>12 DEF DiscardAnswer
  <2> QED
    BY <1>5, <1>6, <1>7, <2>1, <2>2
<1>13. CASE PublishAnswer \/ ReconcileAnswer
  <2>1. UNCHANGED <<task, load>> /\ (mem' = mem \/ mem' = MarkMemory(pub.texts))
    BY <1>13 DEF PublishAnswer, ReconcileAnswer
  <2>2. /\ mem'[d].here = mem[d].here /\ mem'[d].saved = mem[d].saved
        /\ mem'[d].version = mem[d].version /\ mem'[d].body = mem[d].body
    BY <1>1, <2>1 DEF MarkMemory, Draft
  <2>3. mem[d].here /\ IsSaved(d) => Covers(row'[d], mem[d])
    BY <1>2, <1>4, CoveredStays
  <2>4. Shown(d)'
    BY <2>2, <2>3 DEF IsSaved, Covers
  <2> QED
    BY <1>6, <1>7, <2>1, <2>4
<1>14. CASE LoadReads
  <2>1. UNCHANGED <<mem, task, row>>
    BY <1>14 DEF LoadReads
  <2>2. load'.same => load'.rows = row
    BY <1>1, <1>14 DEF LoadReads, LoadTask
  <2>3. Read(d)'
    BY <2>1, <2>2 DEF Covers
  <2> QED
    BY <1>5, <1>6, <2>1, <2>3
<1>15. CASE Install
  <2>1. load'.stage # "answer" /\ task' = task
    BY <1>15 DEF Install, NoLoad
  <2>2. mem'[d].here => /\ load.same /\ mem'[d].version = load.rows[d].version
                        /\ mem'[d].body = load.rows[d].body
    BY <1>15 DEF Install, NoDraft
  <2>3. load.same => Covers(row'[d], load.rows[d])
    BY <1>2, <1>4, <1>15, CoveredStays DEF Install
  <2>4. Shown(d)'
    BY <2>2, <2>3 DEF Covers
  <2> QED
    BY <1>6, <1>7, <2>1, <2>4
<1>16. CASE LoadEndsWithout \/ \E same \in BOOLEAN : OpenPending(same)
  <2>1. LoadEndsWithout => load'.stage # "answer"
    BY DEF LoadEndsWithout, NoLoad
  <2>2. (\E same \in BOOLEAN : OpenPending(same)) => load'.stage # "answer"
    BY DEF OpenPending, NoLoad
  <2> QED
    BY <1>5, <1>6, <1>7, <1>16, <2>1, <2>2 DEF LoadEndsWithout, OpenPending
<1>17. CASE \/ \E e \in Drafts : DiscardSelected(e) \/ DiscardRuns(e)
            \/ \E x \in orphans : OrphanRuns(x)
            \/ PrepareClick \/ PrepareAnswer \/ PublishClick \/ PublishSends
            \/ \E c \in BOOLEAN : PublishEnds(c) \/ ReconcileEnds(c)
            \/ ReconcileClick \/ Close \/ UNCHANGED vars
  <2>1. UNCHANGED <<mem, task, load>>
    BY <1>17 DEF DiscardSelected, DiscardRuns, OrphanRuns, PrepareClick, PrepareAnswer,
                 PublishClick, PublishSends, PublishEnds, ReconcileEnds, ReconcileClick,
                 Close, vars
  <2> QED
    BY <1>5, <1>6, <1>7, <2>1
<1> QED
  BY <1>8, <1>9, <1>10, <1>11, <1>12, <1>13, <1>14, <1>15, <1>16, <1>17
     DEF Next, Window, Background

\* The saved texts are covered in every reachable state.
LEMMA DurableInvariant == Spec => [](ScreenInv /\ DurableInv)
<1>1. Init => ScreenInv /\ DurableInv
  BY DEF Init, ScreenInv, DurableInv, NoDraft, NoTask, NoLoad, NoRow, Covers
<1>2. TypeOK /\ ScreenInv /\ DurableInv /\ [Next]_vars => (ScreenInv /\ DurableInv)'
  BY ScreenStep, DurableStep
<1> QED
  BY <1>1, <1>2, TypeCorrect, PTL DEF Spec

\* What the window shows as saved is in the store as it is shown, or followed by a later
\* version, although answers of dropped tasks are lost, orphaned saves still run, and a
\* load may put rows on screen that were read before.
THEOREM AcknowledgedIsDurable == Spec => []AckIsDurable
<1>1. DurableInv => AckIsDurable
  BY DEF DurableInv, AckIsDurable
<1> QED
  BY <1>1, DurableInvariant, PTL

\* The window closes only over texts that the store has.
THEOREM ClosingLosesNoText == Spec => []CloseKeepsShownText
<1>1. Init => CloseKeepsShownText
  BY DEF Init, CloseKeepsShownText
<1>2. TypeOK /\ ScreenInv /\ DurableInv /\ CloseKeepsShownText /\ [Next]_vars
        => CloseKeepsShownText'
  <2> SUFFICES ASSUME TypeOK, ScreenInv, DurableInv, CloseKeepsShownText, [Next]_vars
               PROVE  CloseKeepsShownText'
    OBVIOUS
  <2>1. CASE UNCHANGED vars
    BY <2>1 DEF vars, CloseKeepsShownText, Covers
  <2>2. CASE ~closed /\ UNCHANGED closed
    BY <2>2 DEF CloseKeepsShownText
  <2>3. CASE Close
    <3>1. UNCHANGED <<mem, row, discarded>> /\ ~Unsaved
      BY <2>3 DEF Close, Outstanding, ghosts
    <3>2. \A d \in Drafts : mem[d].here => IsSaved(d)
      BY <3>1 DEF Unsaved, ScreenInv
    <3> QED
      BY <3>1, <3>2 DEF DurableInv, CloseKeepsShownText, Covers
  <2> QED
    BY <2>1, <2>2, <2>3 DEF Next
<1> QED
  BY <1>1, <1>2, TypeCorrect, DurableInvariant, PTL DEF Spec
=============================================================================
