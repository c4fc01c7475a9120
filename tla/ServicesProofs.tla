--------------------------- MODULE ServicesProofs ---------------------------
(***************************************************************************)
(* The threads behind the services facade.                                 *)
(*                                                                         *)
(* Runner: for any limit and any amount of output, an answer "ok" hands    *)
(* over all that the tool and its helpers wrote, and a run that gives up   *)
(* leaves neither the tool nor a helper of its group behind.               *)
(*                                                                         *)
(* Fanout: for any number of files, threads and files per request, merged  *)
(* answers are one for each file that was asked about.                     *)
(*                                                                         *)
(* ReadGate: for any number of threads and places, no more reads are under *)
(* way than there are places.                                              *)
(*                                                                         *)
(* GitlabSend: for any number of comments and of changes to the merge      *)
(* request, the requests of GitlabWriter::send implement Delivery.         *)
(*                                                                         *)
(* LocalGit: for any set of files, any number of writes and of rounds, a   *)
(* worktree snapshot that is accepted is the tree of one instant.          *)
(***************************************************************************)
EXTENDS Runner, Fanout, ReadGate, GitlabSend, LocalGit, FiniteSetTheorems, TLAPS

\* Spawn, the loop and the threads, split the way the proofs below do.
LEMMA RunnerCases ==
  ASSUME RunnerNext
  PROVE  \/ \E p \in Pipes : ToolWrites(p)
         \/ \E p \in Pipes : DrainReads(p)
         \/ \E p \in Pipes : DrainEnds(p)
         \/ \E w \in {"group", "session"} : ToolForks(w)
         \/ \E s \in {"success", "failure"} : ToolExits(s)
         \/ HelperExits
         \/ \E h \in {"whole", "broken"} : InputEnds(h)
         \/ Cancel \/ DeadlinePasses
         \/ Spawn \/ Check \/ Poll \/ PollStatus \/ Conclude
  BY DEF RunnerNext, Loop

\* Every step of a run, its threads and its tool keeps the types.
LEMMA RunnerTypeStep ==
  ASSUME RunnerTypeOK, [RunnerNext]_runnerVars
  PROVE  RunnerTypeOK'
<1> USE RunnerAssumption DEF RunnerTypeOK, Pipes, Channels
<1>1. ASSUME NEW p \in Pipes, ToolWrites(p) PROVE RunnerTypeOK'
  <2>1. written' \in [Pipes -> Nat]
    BY <1>1 DEF ToolWrites
  <2> QED BY <1>1, <2>1 DEF ToolWrites
<1>2. ASSUME NEW p \in Pipes, DrainReads(p) PROVE RunnerTypeOK'
  <2>1. drained' \in [Pipes -> Nat]
    BY <1>2 DEF DrainReads
  <2>2. channel' \in [Channels -> {"empty", "whole", "limit", "broken"}]
    BY <1>2 DEF DrainReads
  <2>3. overflow' \in BOOLEAN
    BY <1>2 DEF DrainReads
  <2> QED BY <1>2, <2>1, <2>2, <2>3 DEF DrainReads
<1>3. ASSUME NEW p \in Pipes, DrainEnds(p) PROVE RunnerTypeOK'
  BY <1>3 DEF DrainEnds
<1>4. ASSUME NEW w \in {"group", "session"}, ToolForks(w) PROVE RunnerTypeOK'
  BY <1>4 DEF ToolForks
<1>5. ASSUME NEW s \in {"success", "failure"}, ToolExits(s) PROVE RunnerTypeOK'
  BY <1>5 DEF ToolExits
<1>6. CASE HelperExits
  BY <1>6 DEF HelperExits
<1>7. ASSUME NEW h \in {"whole", "broken"}, InputEnds(h) PROVE RunnerTypeOK'
  BY <1>7 DEF InputEnds
<1>8. CASE Cancel
  BY <1>8 DEF Cancel
<1>9. CASE DeadlinePasses
  BY <1>9 DEF DeadlinePasses
<1>10. CASE Spawn
  BY <1>10 DEF Spawn, Return
<1>11. CASE Check
  BY <1>11, ZenonT(60) DEF Check, Return, Terminate
<1>12. CASE Poll
  BY <1>12 DEF Poll
<1>13. CASE PollStatus
  BY <1>13, ZenonT(60) DEF PollStatus
<1>14. CASE Conclude
  BY <1>14, ZenonT(60) DEF Conclude, Return, Dropped, Terminate
<1>15. CASE UNCHANGED runnerVars
  BY <1>15 DEF runnerVars
<1> QED
  BY <1>1, <1>2, <1>3, <1>4, <1>5, <1>6, <1>7, <1>8, <1>9, <1>10, <1>11, <1>12, <1>13, <1>14,
     <1>15, RunnerCases

\* At the start nothing was written, read or polled.
LEMMA RunnerStart ==
  ASSUME RunnerInit
  PROVE  RunnerTypeOK /\ RunnerInv
<1> USE RunnerAssumption DEF RunnerInit, Pipes, Channels
<1>1. RunnerTypeOK
  BY DEF RunnerTypeOK
<1>2. PipesInv /\ LoopInv
  BY DEF PipesInv, LoopInv
<1>3. OutputWhole
  BY DEF OutputWhole
<1> QED BY <1>1, <1>2, <1>3 DEF RunnerInv

\* A drain thread that met the end of its pipe stays right: Writers is false for good
\* once it is false, since only a running tool starts a helper and the tool is
\* started before any thread.
LEMMA PipesStep ==
  ASSUME RunnerTypeOK, RunnerInv, [RunnerNext]_runnerVars
  PROVE  PipesInv'
<1> USE RunnerAssumption DEF RunnerTypeOK, Pipes, Channels, RunnerInv
<1>1. ASSUME UNCHANGED <<channel, written, drained>>, Writers' => Writers
      PROVE  PipesInv'
  BY <1>1 DEF PipesInv
<1>2. ASSUME NEW p \in Pipes, ToolWrites(p) PROVE PipesInv'
  <2>1. Writers' <=> Writers
    BY <1>2 DEF ToolWrites, Writers
  <2> QED BY <1>2, <2>1 DEF ToolWrites, PipesInv
<1>3. ASSUME NEW p \in Pipes, DrainReads(p) PROVE PipesInv'
  <2>1. Writers' <=> Writers
    BY <1>3 DEF DrainReads, Writers
  <2> QED BY <1>3, <2>1 DEF DrainReads, PipesInv
<1>4. ASSUME NEW p \in Pipes, DrainEnds(p) PROVE PipesInv'
  <2>1. Writers' <=> Writers
    BY <1>4 DEF DrainEnds, Writers
  <2> QED BY <1>4, <2>1 DEF DrainEnds, PipesInv
<1>5. ASSUME NEW w \in {"group", "session"}, ToolForks(w) PROVE PipesInv'
  BY <1>1, <1>5 DEF ToolForks, Writers
<1>6. ASSUME NEW s \in {"success", "failure"}, ToolExits(s) PROVE PipesInv'
  BY <1>1, <1>6 DEF ToolExits, Writers
<1>7. CASE HelperExits
  BY <1>1, <1>7 DEF HelperExits, Writers
<1>8. ASSUME NEW h \in {"whole", "broken"}, InputEnds(h) PROVE PipesInv'
  <2>1. Writers' <=> Writers
    BY <1>8 DEF InputEnds, Writers
  <2> QED BY <1>8, <2>1 DEF InputEnds, PipesInv
<1>9. CASE Cancel \/ DeadlinePasses \/ Poll \/ PollStatus
  BY <1>1, <1>9 DEF Cancel, DeadlinePasses, Poll, PollStatus, Writers
<1>10. CASE Spawn
  <2>1. /\ UNCHANGED <<channel, written, drained>>
        /\ \A p \in Pipes : channel[p] = "empty"
    BY <1>10 DEF Spawn, LoopInv
  <2> QED BY <2>1 DEF PipesInv
<1>11. CASE Check
  BY <1>1, <1>11 DEF Check, Terminate, Writers
<1>12. CASE Conclude
  BY <1>1, <1>12 DEF Conclude, Dropped, Terminate, Writers
<1>13. CASE UNCHANGED runnerVars
  BY <1>1, <1>13 DEF runnerVars, Writers
<1> QED
  BY <1>2, <1>3, <1>4, <1>5, <1>6, <1>7, <1>8, <1>9, <1>10, <1>11, <1>12, <1>13, RunnerCases

\* A channel is sent to once and a tool ends once, so what the loop took stays so.
LEMMA LoopStep ==
  ASSUME RunnerTypeOK, RunnerInv, [RunnerNext]_runnerVars
  PROVE  LoopInv'
<1> USE DEF RunnerTypeOK, Pipes, Channels, RunnerInv, LoopInv
<1>1. ASSUME NEW p \in Pipes, ToolWrites(p) \/ DrainReads(p) \/ DrainEnds(p) PROVE LoopInv'
  BY <1>1 DEF ToolWrites, DrainReads, DrainEnds
<1>2. ASSUME NEW w \in {"group", "session"}, ToolForks(w) PROVE LoopInv'
  BY <1>2 DEF ToolForks
<1>3. ASSUME NEW s \in {"success", "failure"}, ToolExits(s) PROVE LoopInv'
  BY <1>3 DEF ToolExits
<1>4. CASE HelperExits \/ Cancel \/ DeadlinePasses
  BY <1>4 DEF HelperExits, Cancel, DeadlinePasses
<1>5. ASSUME NEW h \in {"whole", "broken"}, InputEnds(h) PROVE LoopInv'
  BY <1>5 DEF InputEnds
<1>6. CASE Spawn
  BY <1>6 DEF Spawn, Return
<1>7. CASE Check
  BY <1>7 DEF Check, Return, Terminate
<1>8. CASE Poll
  BY <1>8 DEF Poll
<1>9. CASE PollStatus
  BY <1>9 DEF PollStatus
<1>10. CASE Conclude
  BY <1>10 DEF Conclude, Return, Dropped, Terminate
<1>11. CASE UNCHANGED runnerVars
  BY <1>11 DEF runnerVars
<1> QED
  BY <1>1, <1>2, <1>3, <1>4, <1>5, <1>6, <1>7, <1>8, <1>9, <1>10, <1>11, RunnerCases

\* What a returned run promises stays so after it, and every return makes it so.
LEMMA OutputStep ==
  ASSUME RunnerTypeOK, RunnerInv, [RunnerNext]_runnerVars
  PROVE  OutputWhole'
<1> USE RunnerAssumption DEF RunnerTypeOK, Pipes, Channels, RunnerInv
<1>1. CASE Spawn
  BY <1>1 DEF Spawn, Return, OutputWhole, LoopInv
<1>2. CASE Check
  BY <1>2 DEF Check, Return, Terminate, OutputWhole
<1>3. CASE Conclude
  <2>1. CASE \E c \in DOMAIN polled : polled[c] = "none"
    BY <1>3, <2>1 DEF Conclude, OutputWhole
  <2>2. CASE \A c \in DOMAIN polled : polled[c] # "none"
    <3>1. /\ child # "running" /\ child' = child /\ helper' = helper /\ reaped'
          /\ UNCHANGED <<written, drained, channel>>
          /\ answer' \in {"output", "input", "ok"}
      BY <1>3, <2>2 DEF Conclude, Return, Dropped, LoopInv
    <3>2. ASSUME answer' = "ok"
          PROVE  /\ \A p \in Pipes : channel[p] = "whole"
                 /\ child = "success" => channel["stdin"] = "whole"
      <4>1. /\ \A c \in Channels : channel[c] # "empty" /\ polled[c] = channel[c]
            /\ polled["status"] = child
        BY <2>2 DEF LoopInv
      <4>2. /\ ~ \E p \in Pipes : polled[p] = "limit"
            /\ ~ (polled["status"] = "success" /\ polled["stdin"] = "broken")
        BY <1>3, <2>2, <3>2 DEF Conclude, Return
      <4>3. \A p \in Pipes : channel[p] = "whole"
        BY <4>1, <4>2 DEF PipesInv
      <4>4. child = "success" => channel["stdin"] = "whole"
        BY <4>1, <4>2 DEF LoopInv
      <4> QED BY <4>3, <4>4
    <3>3. Writers' <=> Writers
      BY <3>1 DEF Writers
    <3>4. ASSUME answer' = "ok"
          PROVE  ~Writers' /\ \A p \in Pipes : drained'[p] = written'[p] /\ written'[p] =< OutputLimit
      BY <3>1, <3>2, <3>3, <3>4 DEF PipesInv
    <3> QED BY <3>1, <3>2, <3>4 DEF OutputWhole
  <2> QED BY <2>1, <2>2
<1>4. CASE Poll \/ PollStatus
  BY <1>4 DEF Poll, PollStatus, OutputWhole
<1>5. ASSUME UNCHANGED <<rpc, answer, reaped, written, drained>>,
             child # "running" => child' = child,
             child = "none" <=> child' = "none",
             child # "running" /\ helper # "group" => helper' # "group",
             Writers' => Writers,
             channel["stdin"] = "whole" => channel'["stdin"] = "whole"
      PROVE  OutputWhole'
  BY <1>5 DEF OutputWhole
<1>6. ASSUME NEW p \in Pipes, ToolWrites(p) PROVE OutputWhole'
  BY <1>6 DEF ToolWrites, OutputWhole, Writers
<1>7. ASSUME NEW p \in Pipes, DrainReads(p) PROVE OutputWhole'
  <2>1. Writers' <=> Writers
    BY <1>7 DEF DrainReads, Writers
  <2>2. rpc = "done" /\ answer = "ok" /\ child # "none" => FALSE
    BY <1>7 DEF DrainReads, OutputWhole
  <2> QED BY <1>7, <2>2 DEF DrainReads, OutputWhole
<1>8. ASSUME NEW p \in Pipes, DrainEnds(p) PROVE OutputWhole'
  BY <1>5, <1>8 DEF DrainEnds, Writers
<1>9. ASSUME NEW w \in {"group", "session"}, ToolForks(w) PROVE OutputWhole'
  BY <1>5, <1>9 DEF ToolForks, Writers
<1>10. ASSUME NEW s \in {"success", "failure"}, ToolExits(s) PROVE OutputWhole'
  BY <1>5, <1>10 DEF ToolExits, Writers
<1>11. CASE HelperExits
  BY <1>5, <1>11 DEF HelperExits, Writers
<1>12. ASSUME NEW h \in {"whole", "broken"}, InputEnds(h) PROVE OutputWhole'
  BY <1>5, <1>12 DEF InputEnds, Writers
<1>13. CASE Cancel \/ DeadlinePasses
  BY <1>5, <1>13 DEF Cancel, DeadlinePasses, Writers
<1>14. CASE UNCHANGED runnerVars
  BY <1>5, <1>14 DEF runnerVars, Writers
<1> QED
  BY <1>1, <1>2, <1>3, <1>4, <1>6, <1>7, <1>8, <1>9, <1>10, <1>11, <1>12, <1>13, <1>14, RunnerCases

\* Whatever the tool, its helpers, a cancellation and the deadline do between the
\* polls of Runner::run: "ok" is the whole output, within the limit, with nobody left
\* who could write more, and a run that gave up leaves no tool and no helper of its
\* group.
THEOREM TheOutputIsWhole == RunnerSpec => []OutputWhole
<1>1. RunnerTypeOK /\ RunnerInv /\ [RunnerNext]_runnerVars => RunnerTypeOK' /\ RunnerInv'
  BY RunnerTypeStep, PipesStep, LoopStep, OutputStep DEF RunnerInv
<1>2. RunnerInv => OutputWhole
  BY DEF RunnerInv
<1> QED
  BY <1>1, <1>2, RunnerStart, PTL DEF RunnerSpec

-----------------------------------------------------------------------------
(* releases::bounded.                                                      *)

\* chunks(batch) cuts the files into as many chunks as there are items, and every
\* file is in exactly one of them.
LEMMA ChunkOf ==
  ASSUME FanoutTypeOK, NEW s \in 1 .. spans
  PROVE  \E i \in 0 .. Items - 1 : \A j \in Nat : s \in Chunk(j) <=> j = i
<1> DEFINE i == (s - 1) \div batch
<1>1. spans \in Nat /\ batch \in Nat /\ batch > 0 /\ s \in Nat /\ 1 =< s /\ s =< spans
  BY DEF FanoutTypeOK
<1>2. i \in Nat /\ batch * i =< s - 1 /\ s - 1 < batch * i + batch
  BY <1>1
<1>3. Items \in Nat /\ spans + batch - 1 < batch * Items + batch
  BY <1>1 DEF Items
<1> HIDE DEF i
<1>4. i < Items
  <2>1. batch * i < batch * Items
    BY <1>1, <1>2, <1>3
  <2>2. Items =< i => batch * Items =< batch * i
    BY <1>1, <1>2, <1>3
  <2> QED BY <1>1, <1>2, <1>3, <2>1, <2>2
<1>5. ASSUME NEW j \in Nat
      PROVE  s \in Chunk(j) <=> (j * batch + 1 =< s /\ s =< j * batch + batch)
  <2>1. (j + 1) * batch = j * batch + batch /\ j * batch \in Nat
    BY <1>1
  <2> QED BY <1>1, <2>1 DEF Chunk
<1>6. i * batch = batch * i
  BY <1>1, <1>2
<1>7. s \in Chunk(i)
  BY <1>1, <1>2, <1>5, <1>6
<1>8. ASSUME NEW j \in Nat, s \in Chunk(j)
      PROVE  j = i
  <2>1. /\ j * batch + 1 =< s /\ s =< j * batch + batch
        /\ i * batch + 1 =< s /\ s =< i * batch + batch
    BY <1>2, <1>5, <1>7, <1>8
  <2>2. j < i => j * batch + batch =< i * batch
    <3>1. j < i => (j + 1) * batch =< i * batch
      BY <1>1, <1>2
    <3> QED BY <1>1, <3>1
  <2>3. i < j => i * batch + batch =< j * batch
    <3>1. i < j => (i + 1) * batch =< j * batch
      BY <1>1, <1>2
    <3> QED BY <1>1, <1>2, <3>1
  <2>4. i * batch \in Nat /\ j * batch \in Nat
    BY <1>1, <1>2
  <2> QED BY <1>1, <1>2, <2>1, <2>2, <2>3, <2>4
<1>9. i \in 0 .. Items - 1
  BY <1>2, <1>3, <1>4
<1> QED BY <1>2, <1>7, <1>8, <1>9

\* As many different indices as there are items are all of them, so a merge that
\* counts them has one answer for every file.
LEMMA OneAnswerEach ==
  ASSUME FanoutTypeOK, FanoutInv, Cardinality({r.at : r \in Results}) = Items,
         NEW s \in 1 .. spans
  PROVE  Cardinality(AnswerFor(s)) = 1
<1> DEFINE Answered == {r.at : r \in Results}
<1>1. Items \in Nat
  BY DEF Items, FanoutTypeOK
<1>2. \A r \in Results : \E v \in Workers : r \in own[v]
  BY DEF Results
<1>3. \A r \in Results : r.at \in Nat /\ r.at < Items
  BY <1>2 DEF FanoutInv, FanoutTypeOK
<1>4. Answered \subseteq 0 .. Items - 1
  BY <1>1, <1>3
<1>5. IsFiniteSet(0 .. Items - 1) /\ Cardinality(0 .. Items - 1) = Items
  <2>1. 0 \in Int /\ Items - 1 \in Int
    BY <1>1
  <2>2. /\ IsFiniteSet(0 .. Items - 1)
        /\ Cardinality(0 .. Items - 1) = IF 0 > Items - 1 THEN 0 ELSE Items - 1 - 0 + 1
    BY <2>1, FS_Interval
  <2> QED BY <1>1, <2>2
<1>6. Answered = 0 .. Items - 1
  BY <1>4, <1>5, FS_Subset
<1>7. PICK i \in 0 .. Items - 1 : \A j \in Nat : s \in Chunk(j) <=> j = i
  BY ChunkOf
<1>8. PICK r \in Results : r.at = i
  BY <1>6
<1>9. ASSUME NEW q \in Results, q.at = i
      PROVE  q = r
  <2>1. PICK v \in Workers : q \in own[v]
    BY <1>2
  <2>2. PICK w \in Workers : r \in own[w]
    BY <1>2
  <2>3. v = w
    BY <1>8, <1>9, <2>1, <2>2 DEF FanoutInv, FanoutWhole, ItemsApart
  <2> QED BY <1>8, <1>9, <2>1, <2>2, <2>3 DEF FanoutInv
<1>10. AnswerFor(s) = {r}
  BY <1>3, <1>7, <1>8, <1>9 DEF AnswerFor
<1> QED BY <1>10, FS_Singleton, Zenon

\* Every step of the threads and the merge keeps the types.
LEMMA FanoutTypeStep ==
  ASSUME FanoutTypeOK, [FanoutNext]_fanoutVars
  PROVE  FanoutTypeOK'
<1> USE DEF FanoutTypeOK
<1>1. Items \in Nat
  BY DEF Items
<1>2. ASSUME NEW w \in Workers, TakeItem(w) PROVE FanoutTypeOK'
  BY <1>2 DEF TakeItem
<1>3. ASSUME NEW w \in Workers, WorkerPanics(w) PROVE FanoutTypeOK'
  BY <1>3 DEF WorkerPanics
<1>4. ASSUME NEW w \in Workers, StopOthers(w) PROVE FanoutTypeOK'
  BY <1>1, <1>4 DEF StopOthers
<1>5. ASSUME NEW w \in Workers, NEW ok \in BOOLEAN, ItemDone(w, ok) PROVE FanoutTypeOK'
  <2>1. [at |-> holds[w], ok |-> ok] \in [at : Nat, ok : BOOLEAN]
    OBVIOUS
  <2>2. own' \in [Workers -> SUBSET [at : Nat, ok : BOOLEAN]]
    BY <1>5, <2>1 DEF ItemDone
  <2>3. worker' \in [Workers -> {"idle", "busy", "failed", "returned"}]
    BY <1>5 DEF ItemDone
  <2> QED BY <1>5, <2>2, <2>3 DEF ItemDone
<1>6. CASE Merge
  BY <1>6 DEF Merge
<1>7. CASE UNCHANGED fanoutVars
  BY <1>7 DEF fanoutVars
<1> QED
  BY <1>2, <1>3, <1>4, <1>5, <1>6, <1>7 DEF FanoutNext

\* Every step keeps the items apart and the counter past them.
LEMMA FanoutStep ==
  ASSUME FanoutTypeOK, FanoutInv, [FanoutNext]_fanoutVars
  PROVE  FanoutInv'
<1> USE DEF FanoutTypeOK
<1> DEFINE Taken ==
             \A w \in Workers :
               worker[w] \in {"busy", "failed"} => holds[w] < nextItem /\ holds[w] < Items
           Past == \A v \in Workers : \A r \in own[v] : r.at < nextItem /\ r.at < Items
           Fresh ==
             \A v, w \in Workers : worker[w] = "busy" => \A r \in own[v] : r.at # holds[w]
           Once == \A v \in Workers : \A r, s \in own[v] : r.at = s.at => r = s
           Joined == merged # "running" => \A w \in Workers : worker[w] = "returned"
           Apart ==
             \A v, w \in Workers : v # w =>
               /\ worker[v] \in {"busy", "failed"} /\ worker[w] \in {"busy", "failed"}
                    => holds[v] # holds[w]
               /\ \A r \in own[v], s \in own[w] : r.at # s.at
           Whole ==
             merged = "ok" =>
               /\ \A s \in 1 .. spans : Cardinality(AnswerFor(s)) = 1
               /\ strict => \A r \in Results : r.ok
<1>1. Items \in Nat
  BY DEF Items
<1>2. Apart /\ Whole /\ Taken /\ Past /\ Fresh /\ Once /\ Joined
  <2>1. Apart
    BY DEF FanoutInv, FanoutWhole, ItemsApart
  <2> QED BY <2>1 DEF FanoutInv, FanoutWhole
<1>3. ASSUME Apart', Whole', Taken', Past', Fresh', Once', Joined'
      PROVE  FanoutInv'
  <2>1. ItemsApart'
    BY <1>3 DEF ItemsApart
  <2> QED BY <1>3, <2>1 DEF FanoutInv, FanoutWhole
<1>4. ASSUME NEW w \in Workers, TakeItem(w) PROVE FanoutInv'
  <2>1. /\ merged = "running" /\ merged' = merged /\ own' = own
        /\ holds'[w] = nextItem /\ nextItem' = nextItem + 1
        /\ worker'[w] = IF nextItem < Items THEN "busy" ELSE "returned"
        /\ \A v \in Workers : v # w => holds'[v] = holds[v] /\ worker'[v] = worker[v]
        /\ Items' = Items
    BY <1>4 DEF TakeItem, Items
  <2> HIDE DEF FanoutTypeOK
  <2>2. /\ nextItem \in Nat
        /\ \A v \in Workers : holds[v] \in Nat /\ \A r \in own[v] : r.at \in Nat
    BY DEF FanoutTypeOK
  <2>3. Apart'
    BY <1>2, <2>1, <2>2
  <2>4. Taken' /\ Past'
    BY <1>1, <1>2, <2>1, <2>2
  <2>5. Fresh'
    BY <1>2, <2>1, <2>2
  <2> QED BY <1>2, <1>3, <2>1, <2>3, <2>4, <2>5
<1>5. ASSUME NEW w \in Workers, WorkerPanics(w) PROVE FanoutInv'
  <2>1. /\ UNCHANGED <<merged, holds, nextItem, Items, spans, batch, strict>>
        /\ worker[w] = "busy" /\ worker'[w] = "returned" /\ own'[w] = {}
        /\ \A v \in Workers : v # w => own'[v] = own[v] /\ worker'[v] = worker[v]
    BY <1>5 DEF WorkerPanics, Items
  <2> HIDE DEF FanoutTypeOK
  <2>2. merged = "running"
    BY <1>2, <2>1 DEF FanoutTypeOK
  <2>3. Apart' /\ Taken' /\ Past' /\ Fresh' /\ Once'
    BY <1>2, <2>1
  <2> QED BY <1>3, <2>1, <2>2, <2>3
<1>6. ASSUME NEW w \in Workers, StopOthers(w) PROVE FanoutInv'
  <2>1. /\ UNCHANGED <<merged, holds, own, Items, spans, batch, strict>>
        /\ worker[w] = "failed" /\ worker'[w] = "returned" /\ nextItem' = Items
        /\ \A v \in Workers : v # w => worker'[v] = worker[v]
    BY <1>6 DEF StopOthers, Items
  <2> HIDE DEF FanoutTypeOK
  <2>2. merged = "running"
    BY <1>2, <2>1 DEF FanoutTypeOK
  <2>3. Apart' /\ Taken' /\ Past' /\ Fresh' /\ Once'
    BY <1>2, <2>1
  <2> QED BY <1>3, <2>1, <2>2, <2>3
<1>7. ASSUME NEW w \in Workers, NEW ok \in BOOLEAN, ItemDone(w, ok) PROVE FanoutInv'
  <2> DEFINE q == [at |-> holds[w], ok |-> ok]
  <2>1. /\ UNCHANGED <<merged, holds, nextItem, Items, spans, batch, strict>>
        /\ worker[w] = "busy" /\ worker'[w] \in {"idle", "failed"}
        /\ own'[w] = own[w] \cup {q} /\ q.at = holds[w]
        /\ \A v \in Workers : v # w => own'[v] = own[v] /\ worker'[v] = worker[v]
    BY <1>7 DEF ItemDone, Items
  <2> HIDE DEF FanoutTypeOK, q
  <2>2. merged = "running"
    BY <1>2, <2>1 DEF FanoutTypeOK
  <2>3. Apart'
    BY <1>2, <2>1
  <2>4. Taken' /\ Past'
    BY <1>2, <2>1
  <2>5. Fresh'
    BY <1>2, <2>1
  <2>6. Once'
    BY <1>2, <2>1
  <2> QED BY <1>3, <2>1, <2>2, <2>3, <2>4, <2>5, <2>6
<1>8. CASE Merge
  <2>1. /\ UNCHANGED <<spans, batch, strict, nextItem, worker, holds, own, Items, Results>>
        /\ \A w \in Workers : worker[w] = "returned"
    BY <1>8 DEF Merge, Items, Results
  <2>2. ASSUME merged' = "ok"
        PROVE  /\ Cardinality({r.at : r \in Results}) = Items
               /\ strict => \A r \in Results : r.ok
    BY <1>8, <2>2 DEF Merge
  <2>3. \A s \in 1 .. spans : AnswerFor(s)' = AnswerFor(s)
    BY <2>1 DEF AnswerFor, Chunk
  <2>4. Whole'
    BY <2>1, <2>2, <2>3, OneAnswerEach
  <2> HIDE DEF FanoutTypeOK
  <2>5. Apart' /\ Taken' /\ Past' /\ Fresh' /\ Once' /\ Joined'
    BY <1>2, <2>1
  <2> QED BY <1>3, <2>4, <2>5
<1>9. CASE UNCHANGED fanoutVars
  <2>1. UNCHANGED <<spans, batch, strict, nextItem, worker, holds, own, merged, Items, Results>>
    BY <1>9 DEF fanoutVars, Items, Results
  <2>2. \A s \in 1 .. spans : AnswerFor(s)' = AnswerFor(s)
    BY <2>1 DEF AnswerFor, Chunk
  <2> HIDE DEF FanoutTypeOK
  <2>3. Apart' /\ Whole' /\ Taken' /\ Past' /\ Fresh' /\ Once' /\ Joined'
    BY <1>2, <2>1, <2>2
  <2> QED BY <1>3, <2>3
<1> QED
  BY <1>4, <1>5, <1>6, <1>7, <1>8, <1>9 DEF FanoutNext

\* However many files, threads and files per request, and whoever panics or stops the
\* others: a merged answer has one entry for every file, and none that failed where a
\* failure is an error.
THEOREM FanoutAnswersLineUp == FanoutSpec => []FanoutWhole
<1>1. ASSUME FanoutInit PROVE FanoutTypeOK /\ FanoutInv
  <2>1. FanoutTypeOK
    BY <1>1, FanoutAssumption DEF FanoutInit, FanoutTypeOK
  <2>2. ItemsApart
    BY <1>1 DEF FanoutInit, ItemsApart
  <2> QED BY <1>1, <2>1, <2>2 DEF FanoutInit, FanoutInv, FanoutWhole
<1>2. FanoutInv => FanoutWhole
  BY DEF FanoutInv
<1> QED
  BY <1>1, <1>2, FanoutTypeStep, FanoutStep, PTL DEF FanoutSpec

-----------------------------------------------------------------------------
(* ReadGate.                                                               *)

LEMMA ReadersFinite ==
  /\ \A spot : IsFiniteSet(At(spot)) /\ Cardinality(At(spot)) \in Nat
  /\ Limit \in Nat
<1>1. \A spot : At(spot) \subseteq Readers
  BY DEF At
<1>2. IsFiniteSet(Readers) /\ Limit \in Nat
  BY ReadGateAssumption DEF ReadGateAssumption
<1>3. \A spot : IsFiniteSet(At(spot))
  BY <1>1, <1>2, FS_Subset
<1> QED
  BY <1>2, <1>3, FS_CardinalityType

\* A step that starts and ends no read.
LEMMA GateFrame ==
  ASSUME GateInv, UNCHANGED count, reader' \in [Readers -> Places],
         \A r \in Readers : reader'[r] = "reading" <=> reader[r] = "reading"
  PROVE  GateInv'
<1>1. At("reading")' = At("reading")
  BY DEF At
<1> QED
  BY <1>1 DEF GateInv

\* Drop of Permit gives back the place of the read that ends.
LEMMA DropStep ==
  ASSUME GateInv, NEW r \in Readers, reader[r] = "reading", NEW spot \in {"done", "failed"},
         DropPermit(r, spot)
  PROVE  GateInv'
<1>1. reader' \in [Readers -> Places]
  BY DEF DropPermit, GateInv, Places
<1>2. At("reading")' = At("reading") \ {r}
  BY DEF DropPermit, GateInv, At
<1>3. r \in At("reading")
  BY DEF At
<1>4. Cardinality(At("reading") \ {r}) = Cardinality(At("reading")) - 1
  BY <1>3, ReadersFinite, FS_RemoveElement
<1>5. /\ count' = count - 1 /\ count \in Nat /\ count =< Limit /\ Limit \in Nat
      /\ count = Cardinality(At("reading"))
  BY ReadersFinite DEF DropPermit, GateInv
<1>6. Cardinality(At("reading")) # 0
  BY <1>3, ReadersFinite, FS_EmptySet
<1>7. count' \in Nat /\ count' =< Limit
  BY ONLY <1>5, <1>6
<1>8. count' = Cardinality(At("reading")')
  BY <1>2, <1>4, <1>5
<1> QED
  BY <1>1, <1>7, <1>8 DEF GateInv

LEMMA GateInitially == GateInit => GateInv
<1> SUFFICES ASSUME GateInit PROVE GateInv
  OBVIOUS
<1>1. At("reading") = {}
  BY DEF GateInit, At
<1>2. Cardinality(At("reading")) = 0
  BY <1>1, FS_EmptySet
<1> QED
  BY <1>2, ReadersFinite DEF GateInit, GateInv, Places

LEMMA ReadGateStep == GateInv /\ [GateNext]_gateVars => GateInv'
<1> SUFFICES ASSUME GateInv, [GateNext]_gateVars PROVE GateInv'
  OBVIOUS
<1>0. reader \in [Readers -> Places]
  BY DEF GateInv
<1>1. CASE UNCHANGED gateVars
  BY <1>0, <1>1, GateFrame DEF gateVars
<1>2. ASSUME NEW r \in Readers, Enter(r) \/ WaitEnds(r) \/ CancelRead(r)
      PROVE  GateInv'
  <2>1. UNCHANGED count /\ reader' \in [Readers -> Places]
    BY <1>0, <1>2 DEF Enter, WaitEnds, CancelRead, Places
  <2>2. \A q \in Readers : reader'[q] = "reading" <=> reader[q] = "reading"
    BY <1>0, <1>2 DEF Enter, WaitEnds, CancelRead
  <2> QED
    BY <2>1, <2>2, GateFrame
<1>3. ASSUME NEW r \in Readers, Admit(r)
      PROVE  GateInv'
  <2>1. CASE count >= Limit
    <3>1. UNCHANGED count /\ reader' = [reader EXCEPT ![r] = IF r \in withdrawn THEN "refused" ELSE "asleep"]
      BY <1>3, <2>1, ReadersFinite DEF Admit, GateInv
    <3>2. reader' \in [Readers -> Places]
      BY <1>0, <3>1 DEF Places
    <3>3. \A q \in Readers : reader'[q] = "reading" <=> reader[q] = "reading"
      BY <1>0, <1>3, <3>1 DEF Admit
    <3> QED
      BY <3>1, <3>2, <3>3, GateFrame
  <2>2. CASE ~(count >= Limit)
    <3>1. /\ count < Limit /\ count' = count + 1 /\ reader' = [reader EXCEPT ![r] = "reading"]
          /\ reader[r] = "checking"
      BY <1>3, <2>2 DEF Admit
    <3>2. reader' \in [Readers -> Places]
      BY <1>0, <3>1 DEF Places
    <3>3. At("reading")' = At("reading") \cup {r} /\ r \notin At("reading")
      BY <1>0, <3>1 DEF At
    <3>4. Cardinality(At("reading") \cup {r}) = Cardinality(At("reading")) + 1
      BY <3>3, ReadersFinite, FS_AddElement
    <3>5. count \in Nat /\ Limit \in Nat /\ count = Cardinality(At("reading"))
      BY ReadersFinite DEF GateInv
    <3>6. count' \in Nat /\ count' =< Limit
      BY ONLY <3>1, <3>5
    <3>7. count' = Cardinality(At("reading")')
      BY <3>1, <3>3, <3>4, <3>5
    <3> QED
      BY <3>2, <3>6, <3>7 DEF GateInv
  <2> QED
    BY <2>1, <2>2
<1>4. ASSUME NEW r \in Readers, ReadEnds(r) \/ ReadFails(r)
      PROVE  GateInv'
  BY <1>4, DropStep DEF ReadEnds, ReadFails
<1> QED
  BY <1>1, <1>2, <1>3, <1>4 DEF GateNext

\* At most Limit reads are under way at any time, although waiters time out, are
\* woken for nothing, give up and fail: permit and Drop of Permit keep the
\* counter equal to the reads.
THEOREM ReadsAreLimited == GateSpec => []GateInv /\ [](Cardinality(At("reading")) =< Limit)
<1>1. GateInit => GateInv
  BY GateInitially
<1>2. GateInv /\ [GateNext]_gateVars => GateInv'
  BY ReadGateStep
<1>3. GateInv => Cardinality(At("reading")) =< Limit
  BY DEF GateInv
<1> QED
  BY <1>1, <1>2, <1>3, PTL DEF GateSpec

-----------------------------------------------------------------------------
(* GitlabSend.                                                             *)

LEMMA PartsAreNumbers ==
  ASSUME NEW v \in Verdicts
  PROVE  /\ PartsOf(v) \subseteq 0 .. N + 2
         /\ Summary \in PartsOf(v)
         /\ \A q \in PartsOf(v) : q =< Summary
BY GitlabSendAssumption DEF PartsOf, Comments, Changes, Approval, Summary

\* The review has a first part.
LEMMA FirstIsLeast ==
  ASSUME NEW v \in Verdicts
  PROVE  First(v) \in PartsOf(v) /\ \A r \in PartsOf(v) : First(v) =< r
<1>1. \E q \in PartsOf(v) : \A r \in PartsOf(v) : q =< r
  <2>1. CASE v = "request_changes"
    <3>1. Changes \in PartsOf(v)
      BY <2>1 DEF PartsOf
    <3> QED
      BY <3>1, PartsAreNumbers DEF Changes
  <2>2. CASE v # "request_changes" /\ N > 0
    <3>1. 1 \in PartsOf(v)
      BY <2>2, GitlabSendAssumption DEF PartsOf, Comments
    <3>2. \A r \in PartsOf(v) : 1 =< r
      BY <2>2, GitlabSendAssumption DEF PartsOf, Comments, Changes, Approval, Summary
    <3> QED
      BY <3>1, <3>2
  <2>3. CASE v = "approve" /\ N = 0
    <3>1. Approval \in PartsOf(v)
      BY <2>3 DEF PartsOf
    <3>2. \A r \in PartsOf(v) : Approval =< r
      BY <2>3, GitlabSendAssumption DEF PartsOf, Comments, Changes, Approval, Summary
    <3> QED
      BY <3>1, <3>2
  <2>4. CASE v = "comment" /\ N = 0
    <3>1. \A r \in PartsOf(v) : Summary =< r
      BY <2>4, GitlabSendAssumption DEF PartsOf, Comments, Changes, Approval, Summary
    <3> QED
      BY <3>1, PartsAreNumbers
  <2> QED
    BY <2>1, <2>2, <2>3, <2>4, GitlabSendAssumption DEF Verdicts
<1> QED
  BY <1>1 DEF First

\* Every part but the summary has a next one, with none between them.
LEMMA AfterIsNext ==
  ASSUME NEW v \in Verdicts, NEW p \in PartsOf(v), p # Summary
  PROVE  /\ After(v, p) \in PartsOf(v)
         /\ {q \in PartsOf(v) : q < After(v, p)} = {q \in PartsOf(v) : q =< p}
<1>1. \E q \in PartsOf(v) : q > p /\ \A r \in PartsOf(v) : r > p => q =< r
  <2>1. CASE p < N
    <3>1. p + 1 \in PartsOf(v)
      BY <2>1, PartsAreNumbers, GitlabSendAssumption DEF PartsOf, Comments
    <3>2. \A r \in PartsOf(v) : r > p => p + 1 =< r
      BY PartsAreNumbers, GitlabSendAssumption
    <3> QED
      BY <3>1, <3>2, PartsAreNumbers, GitlabSendAssumption
  <2>2. CASE p = N /\ v = "approve"
    <3>1. Approval \in PartsOf(v)
      BY <2>2 DEF PartsOf
    <3>2. \A r \in PartsOf(v) : r > p => Approval =< r
      BY <2>2, PartsAreNumbers, GitlabSendAssumption DEF Approval
    <3> QED
      BY <2>2, <3>1, <3>2, GitlabSendAssumption DEF Approval
  <2>3. CASE p = N + 1 \/ (p = N /\ v # "approve")
    <3>1. \A r \in PartsOf(v) : r > p => Summary =< r
      BY <2>3, GitlabSendAssumption DEF PartsOf, Comments, Changes, Approval, Summary
    <3>2. Summary > p
      BY <2>3, GitlabSendAssumption DEF Summary
    <3> QED
      BY <3>1, <3>2, PartsAreNumbers
  <2>4. p < N \/ p = N \/ p = N + 1
    BY PartsAreNumbers, GitlabSendAssumption DEF Summary
  <2> QED
    BY <2>1, <2>2, <2>3, <2>4
<1>2. /\ After(v, p) \in PartsOf(v) /\ After(v, p) > p
      /\ \A r \in PartsOf(v) : r > p => After(v, p) =< r
  BY <1>1 DEF After
<1>3. \A q \in PartsOf(v) : q < After(v, p) <=> q =< p
  BY <1>2, PartsAreNumbers, GitlabSendAssumption
<1> QED
  BY <1>2, <1>3

LEMMA NothingBeforeFirst ==
  ASSUME NEW v \in Verdicts
  PROVE  {q \in PartsOf(v) : q < First(v)} = {}
BY FirstIsLeast, PartsAreNumbers, GitlabSendAssumption

LEMMA AllUpToSummary ==
  ASSUME NEW v \in Verdicts
  PROVE  {q \in PartsOf(v) : q =< Summary} = PartsOf(v)
BY PartsAreNumbers

LEMMA SendInitially == SendInit => SendInv
<1> SUFFICES ASSUME SendInit PROVE SendInv
  OBVIOUS
<1>1. verdict \in Verdicts /\ First(verdict) \in PartsOf(verdict)
  BY FirstIsLeast DEF SendInit
<1>2. SendTypeOK
  <2>1. PartsOK
    BY <1>1 DEF SendInit, PartsOK
  <2>2. pushes \in 0 .. MaxPushes
    BY GitlabSendAssumption DEF SendInit
  <2> QED
    BY <2>1, <2>2 DEF SendInit, SendTypeOK
<1>3. SendOrder
  BY <1>1, NothingBeforeFirst DEF SendInit, SendOrder
<1> QED
  BY <1>2, <1>3 DEF SendInv

\* Giving up before anything was sent, and after it.
LEMMA FailKeeps ==
  ASSUME SendInv, Fail, step # "over",
         UNCHANGED <<verdict, mrSame, pushes, part, sent, notes, applied>>,
         onWire' \subseteq onWire
  PROVE  SendInv'
<1>1. PartsOK'
  BY DEF SendInv, SendTypeOK, PartsOK
<1>2. SendTypeOK'
  BY <1>1 DEF Fail, SendInv, SendTypeOK
<1>3. SendOrder'
  BY DEF Fail, SendInv, SendTypeOK, SendOrder
<1> QED
  BY <1>2, <1>3 DEF SendInv

LEMMA UnverifiedKeeps == SendInv /\ Unverified => SendInv'
<1> SUFFICES ASSUME SendInv, Unverified PROVE SendInv'
  OBVIOUS
<1>1. ~sent
  BY NothingBeforeFirst DEF Unverified, SendInv, SendTypeOK, PartsOK, SendOrder
<1>2. SendTypeOK'
  BY DEF Unverified, SendInv, SendTypeOK, PartsOK
<1>3. SendOrder'
  BY <1>1 DEF Unverified, SendInv, SendOrder
<1> QED
  BY <1>2, <1>3 DEF SendInv

LEMMA RecheckKeeps == SendInv /\ Recheck => SendInv'
<1> SUFFICES ASSUME SendInv, Recheck PROVE SendInv'
  OBVIOUS
<1>1. CASE Fail
  BY <1>1, FailKeeps DEF Recheck
<1>2. CASE step' = "send" /\ UNCHANGED outcome
  <2>1. SendTypeOK'
    BY <1>2 DEF Recheck, SendInv, SendTypeOK, PartsOK
  <2>2. SendOrder'
    BY <1>2 DEF Recheck, SendInv, SendOrder
  <2> QED
    BY <2>1, <2>2 DEF SendInv
<1> QED
  BY <1>1, <1>2 DEF Recheck

LEMMA RequestKeeps == SendInv /\ Request => SendInv'
<1> SUFFICES ASSUME SendInv, Request PROVE SendInv'
  OBVIOUS
<1>1. part \notin applied
  BY PartsAreNumbers DEF Request, SendInv, SendTypeOK, PartsOK, SendOrder
<1>2. PartsOK'
  BY DEF Request, SendInv, SendTypeOK, PartsOK
<1>3. SendTypeOK'
  BY <1>2 DEF Request, SendInv, SendTypeOK
<1>4. SendOrder'
  BY <1>1 DEF Request, SendInv, SendOrder
<1> QED
  BY <1>3, <1>4 DEF SendInv

\* The part that was under way is applied: the parts up to it are there.
LEMMA ServiceAppliesKeeps == SendInv /\ ServiceApplies => SendInv'
<1> SUFFICES ASSUME SendInv, ServiceApplies PROVE SendInv'
  OBVIOUS
<1>1. onWire = {part} /\ part \notin applied
  BY DEF ServiceApplies, SendInv, SendOrder
<1>2. /\ onWire' = {} /\ notes' = notes \cup {part} /\ applied' = applied \cup {part}
      /\ UNCHANGED <<verdict, mrSame, pushes, part, step, sent, outcome>>
  BY <1>1 DEF ServiceApplies
<1>3. verdict \in Verdicts /\ part \in PartsOf(verdict)
  BY DEF SendInv, SendTypeOK, PartsOK
<1>4. applied = {q \in PartsOf(verdict) : q < part}
  BY <1>1, <1>3, PartsAreNumbers DEF SendInv, SendOrder
<1>5. applied' = {q \in PartsOf(verdict) : q =< part}
  BY <1>2, <1>3, <1>4, PartsAreNumbers
<1>6. SendTypeOK'
  <2>1. PartsOK'
    BY <1>2, <1>3 DEF SendInv, SendTypeOK, PartsOK
  <2> QED
    BY <1>2, <2>1 DEF SendInv, SendTypeOK
<1>7. sent /\ step \notin {"check", "send"}
  BY <1>1 DEF SendInv, SendOrder
<1>8. SendOrder'
  BY <1>1, <1>2, <1>3, <1>5, <1>7 DEF SendInv, SendOrder
<1> QED
  BY <1>6, <1>8 DEF SendInv

\* A confirmed part is applied, so the next one starts where it ended.
LEMMA ConfirmedKeeps == SendInv /\ Confirmed => SendInv'
<1> SUFFICES ASSUME SendInv, Confirmed PROVE SendInv'
  OBVIOUS
<1>1. verdict \in Verdicts /\ part \in PartsOf(verdict) /\ part \in applied
  BY DEF Confirmed, SendInv, SendTypeOK, PartsOK
<1>2. applied = {q \in PartsOf(verdict) : q =< part} /\ onWire = {} /\ sent
  BY <1>1, PartsAreNumbers DEF Confirmed, SendInv, SendOrder
<1>3. CASE part = Summary
  <2>1. applied = PartsOf(verdict)
    BY <1>1, <1>2, <1>3, AllUpToSummary
  <2>2. /\ step' = "over" /\ outcome' \in {"accepted", "unknown"}
        /\ UNCHANGED <<verdict, mrSame, pushes, part, sent, onWire, notes, applied>>
    BY <1>3 DEF Confirmed
  <2>3. SendTypeOK'
    BY <2>2 DEF SendInv, SendTypeOK, PartsOK
  <2>4. SendOrder'
    BY <1>2, <2>1, <2>2 DEF SendInv, SendOrder
  <2> QED
    BY <2>3, <2>4 DEF SendInv
<1>4. CASE part # Summary
  <2>1. /\ step' = "check" /\ part' = After(verdict, part)
        /\ UNCHANGED <<verdict, mrSame, pushes, sent, onWire, notes, applied, outcome>>
    BY <1>4 DEF Confirmed
  <2>2. /\ part' \in PartsOf(verdict)
        /\ applied = {q \in PartsOf(verdict) : q < part'}
    BY <1>1, <1>2, <1>4, <2>1, AfterIsNext
  <2>3. SendTypeOK'
    <3>1. PartsOK'
      BY <2>1, <2>2 DEF SendInv, SendTypeOK, PartsOK
    <3> QED
      BY <2>1, <3>1 DEF SendInv, SendTypeOK
  <2>4. SendOrder'
    BY <1>1, <1>2, <2>1, <2>2 DEF Confirmed, SendInv, SendOrder
  <2> QED
    BY <2>3, <2>4 DEF SendInv
<1> QED
  BY <1>3, <1>4

\* What reading back finds complete was applied.
LEMMA FoundIsWhole ==
  ASSUME SendInv, ReadBack
  PROVE  applied = PartsOf(verdict)
<1>1. PartsOf(verdict) \subseteq notes
  BY DEF ReadBack, PartsOf
<1> QED
  BY <1>1 DEF SendInv, SendTypeOK, PartsOK

LEMMA ReadBackKeeps == SendInv /\ ReadBack => SendInv'
<1> SUFFICES ASSUME SendInv, ReadBack PROVE SendInv'
  OBVIOUS
<1>1. SendTypeOK'
  BY DEF ReadBack, SendInv, SendTypeOK, PartsOK
<1>2. SendOrder'
  BY FoundIsWhole DEF ReadBack, SendInv, SendOrder
<1> QED
  BY <1>1, <1>2 DEF SendInv

LEMMA PushKeeps == SendInv /\ Push => SendInv'
<1> SUFFICES ASSUME SendInv, Push PROVE SendInv'
  OBVIOUS
<1>1. pushes' \in 0 .. MaxPushes
  BY GitlabSendAssumption DEF Push, SendInv, SendTypeOK
<1>2. mrSame' \in BOOLEAN
  BY DEF Push
<1>3. SendTypeOK'
  BY <1>1, <1>2 DEF Push, SendInv, SendTypeOK, PartsOK
<1>4. SendOrder'
  BY DEF Push, SendInv, SendOrder
<1> QED
  BY <1>3, <1>4 DEF SendInv

LEMMA WithdrawKeeps == SendInv /\ Withdraw => SendInv'
<1> SUFFICES ASSUME SendInv, Withdraw PROVE SendInv'
  OBVIOUS
<1>1. PartsOK'
  BY DEF Withdraw, SendInv, SendTypeOK, PartsOK
<1>2. SendTypeOK'
  BY <1>1 DEF Withdraw, SendInv, SendTypeOK
<1>3. SendOrder'
  BY DEF Withdraw, SendInv, SendOrder
<1> QED
  BY <1>2, <1>3 DEF SendInv

-----------------------------------------------------------------------------
\* The inductive invariant: the order of the parts, with the types.
THEOREM SendInvariant == SendSpec => []SendInv
<1>1. SendInv /\ [SendNext]_sendVars => SendInv'
  <2> SUFFICES ASSUME SendInv, [SendNext]_sendVars PROVE SendInv'
    OBVIOUS
  <2>1. CASE UNCHANGED sendVars
    BY <2>1 DEF sendVars, SendInv, SendTypeOK, PartsOK, SendOrder
  <2>2. CASE RefusedByService \/ NoAnswer
    BY <2>2, FailKeeps DEF RefusedByService, NoAnswer
  <2> QED
    BY <2>1, <2>2, UnverifiedKeeps, RecheckKeeps, RequestKeeps, ServiceAppliesKeeps,
       ConfirmedKeeps, ReadBackKeeps, PushKeeps, WithdrawKeeps DEF SendNext
<1> QED
  BY <1>1, SendInitially, PTL DEF SendSpec

\* A marked summary that GitLab shows stands for the whole review: the summary
\* is the last request of GitlabWriter::send.
THEOREM SummaryComesLast == SendSpec => []SummaryIsLast
<1>1. SendInv => SummaryIsLast
  <2> SUFFICES ASSUME SendInv, Summary \in applied PROVE applied = PartsOf(verdict)
    BY DEF SummaryIsLast
  <2>1. verdict \in Verdicts /\ part \in PartsOf(verdict)
    BY DEF SendInv, SendTypeOK, PartsOK
  <2>2. part = Summary /\ applied = {q \in PartsOf(verdict) : q =< part}
    BY <2>1, PartsAreNumbers, GitlabSendAssumption DEF SendInv, SendOrder, Summary
  <2> QED
    BY <2>1, <2>2, AllUpToSummary
<1> QED
  BY <1>1, SendInvariant, PTL

-----------------------------------------------------------------------------
(* The refinement.                                                         *)

LEMMA DeliveryInitially == SendInit => Abstract!DeliveryInit
BY DEF SendInit, Abstract!DeliveryInit

\* The sender stops: what it tells is what the parts show.
LEMMA FailTells ==
  ASSUME SendInv, Fail, step # "over", UNCHANGED <<verdict, applied>>
  PROVE  Abstract!Tell
BY DEF Fail, SendInv, SendOrder, Abstract!Tell

LEMMA DeliveryStep ==
  ASSUME SendInv, SendInv', [SendNext]_sendVars
  PROVE  [Abstract!DeliveryNext]_(Abstract!deliveryVars)
<1>1. CASE UNCHANGED sendVars
  BY <1>1 DEF sendVars, Abstract!deliveryVars
<1>2. CASE Unverified
  <2>1. applied = {}
    BY <1>2 DEF Unverified, SendInv, SendOrder
  <2> QED
    BY <1>2, <2>1 DEF Unverified, SendInv, SendOrder, Abstract!DeliveryNext, Abstract!Tell
<1>3. CASE Recheck
  <2>1. CASE Fail
    BY <1>3, <2>1, FailTells DEF Recheck, Abstract!DeliveryNext
  <2>2. CASE UNCHANGED outcome
    BY <1>3, <2>2 DEF Recheck, Abstract!deliveryVars
  <2> QED
    BY <1>3, <2>1, <2>2 DEF Recheck
<1>4. CASE Request
  BY <1>4 DEF Request, Abstract!deliveryVars
<1>5. CASE RefusedByService \/ NoAnswer
  BY <1>5, FailTells DEF RefusedByService, NoAnswer, Abstract!DeliveryNext
<1>6. CASE ServiceApplies
  <2>1. onWire = {part} /\ part \notin applied /\ part \in PartsOf(verdict)
    BY <1>6 DEF ServiceApplies, SendInv, SendTypeOK, PartsOK, SendOrder
  <2>2. outcome \in {"nothing", "unknown"}
    BY <2>1 DEF SendInv, SendTypeOK, SendOrder
  <2>3. /\ applied' \in SUBSET PartsOf(verdict) /\ applied \subseteq applied'
        /\ UNCHANGED <<verdict, outcome>>
    BY <1>6, <2>1 DEF ServiceApplies, SendInv, SendTypeOK, PartsOK
  <2> QED
    BY <2>2, <2>3 DEF Abstract!DeliveryNext, Abstract!Land
<1>7. CASE Confirmed
  <2>1. CASE UNCHANGED outcome
    BY <1>7, <2>1 DEF Confirmed, Abstract!deliveryVars
  <2>2. CASE outcome' \in {"accepted", "unknown"}
    <3>1. outcome = "nothing" /\ UNCHANGED <<verdict, applied>>
      BY <1>7 DEF Confirmed, SendInv, SendOrder
    <3>2. outcome' = "accepted" => applied = PartsOf(verdict)
      BY <3>1 DEF SendInv, SendOrder
    <3> QED
      BY <2>2, <3>1, <3>2 DEF Abstract!DeliveryNext, Abstract!Tell
  <2> QED
    BY <1>7, <2>1, <2>2 DEF Confirmed
<1>8. CASE ReadBack
  BY <1>8, FoundIsWhole DEF ReadBack, Abstract!DeliveryNext, Abstract!Find
<1>9. CASE Push \/ Withdraw
  BY <1>9 DEF Push, Withdraw, Abstract!deliveryVars
<1> QED
  BY <1>1, <1>2, <1>3, <1>4, <1>5, <1>6, <1>7, <1>8, <1>9 DEF SendNext

\* GitlabWriter::send implements Delivery: accepted means that all of the
\* review landed, rejected that none of it did or will, and an unknown review
\* is found only when it is whole.
THEOREM SendImplementsDelivery == SendSpec => SendDelivers
<1>1. SendInv /\ SendInv' /\ [SendNext]_sendVars
        => [Abstract!DeliveryNext]_(Abstract!deliveryVars)
  BY DeliveryStep
<1> QED
  BY <1>1, DeliveryInitially, SendInvariant, PTL
     DEF SendSpec, SendDelivers, Abstract!DeliverySpec

-----------------------------------------------------------------------------
(* LocalGit.                                                               *)

LEMMA UnreadIsNumber == Unread \in Nat /\ Unread > MaxEdits
BY LocalGitAssumption DEF Unread

LEMMA LocalInitially == LocalInit => LocalInv
<1> SUFFICES ASSUME LocalInit PROVE LocalInv
  OBVIOUS
<1>1. LocalTypeOK
  <2>1. ContentsOK
    BY UnreadIsNumber, LocalGitAssumption DEF LocalInit, ContentsOK, Blank
  <2>2. round \in 1 .. MaxRounds
    BY LocalGitAssumption DEF LocalInit
  <2> QED
    BY <2>1, <2>2 DEF LocalInit, LocalTypeOK
<1>2. PassOrder
  BY DEF LocalInit, PassOrder, Blank
<1> QED
  BY <1>1, <1>2, LocalGitAssumption DEF LocalInit, LocalInv

\* A file that is read is read as the tree has it.
LEMMA CaptureFileKeeps ==
  ASSUME LocalInv, NEW p \in Paths, CaptureFile(p)
  PROVE  LocalInv'
<1>1. CASE pass = "first" /\ first[p] = Unread
  <2>1. first' = [first EXCEPT ![p] = tree[p]] /\ UNCHANGED second
    BY <1>1 DEF CaptureFile
  <2>2. LocalTypeOK'
    <3>0. tree[p] \in 0 .. Unread
      BY UnreadIsNumber, LocalGitAssumption DEF LocalInv, LocalTypeOK, ContentsOK
    <3>1. ContentsOK'
      BY <2>1, <3>0 DEF CaptureFile, LocalInv, LocalTypeOK, ContentsOK
    <3> QED
      BY <3>1 DEF CaptureFile, LocalInv, LocalTypeOK
  <2>3. PassOrder'
    BY <1>1, <2>1, UnreadIsNumber DEF CaptureFile, LocalInv, LocalTypeOK, ContentsOK, PassOrder
  <2> QED
    BY <1>1, <2>1, <2>2, <2>3 DEF CaptureFile, LocalInv, Blank
<1>2. CASE pass = "second" /\ second[p] = Unread
  <2>1. second' = [second EXCEPT ![p] = tree[p]] /\ UNCHANGED first
    BY <1>2 DEF CaptureFile
  <2>2. LocalTypeOK'
    <3>0. tree[p] \in 0 .. Unread
      BY UnreadIsNumber, LocalGitAssumption DEF LocalInv, LocalTypeOK, ContentsOK
    <3>1. ContentsOK'
      BY <2>1, <3>0 DEF CaptureFile, LocalInv, LocalTypeOK, ContentsOK
    <3> QED
      BY <3>1 DEF CaptureFile, LocalInv, LocalTypeOK
  <2>3. PassOrder'
    BY <1>2, <2>1, UnreadIsNumber DEF CaptureFile, LocalInv, LocalTypeOK, ContentsOK, PassOrder
  <2> QED
    BY <1>2, <2>1, <2>2, <2>3 DEF CaptureFile, LocalInv
<1> QED
  BY <1>1, <1>2 DEF CaptureFile

\* A write gives a file a number nobody has seen, or is a return.
LEMMA WriteFileKeeps ==
  ASSUME LocalInv, NEW p \in Paths, WriteFile(p)
  PROVE  LocalInv'
<1>1. ContentsOK' /\ \A q \in Paths : tree'[q] =< edits'
  <2>1. CASE tree' = [tree EXCEPT ![p] = edits + 1]
    BY <2>1, LocalGitAssumption DEF WriteFile, LocalInv, LocalTypeOK, ContentsOK
  <2>2. CASE \E v \in 0 .. tree[p] - 1 : tree' = [tree EXCEPT ![p] = v] /\ returned' = TRUE
    BY <2>2, LocalGitAssumption DEF WriteFile, LocalInv, LocalTypeOK, ContentsOK
  <2> QED
    BY <2>1, <2>2 DEF WriteFile
<1>2. PassOrder'
  <2>1. CASE returned'
    BY <2>1 DEF PassOrder
  <2>2. CASE ~returned'
    <3>1. ~returned /\ tree' = [tree EXCEPT ![p] = edits + 1]
      BY <2>2 DEF WriteFile, LocalInv, LocalTypeOK
    <3>2. \A q \in Paths : tree[q] =< tree'[q]
      BY <3>1, LocalGitAssumption DEF WriteFile, LocalInv, LocalTypeOK, ContentsOK
    <3> QED
      BY <3>1, <3>2, <1>1, UnreadIsNumber DEF WriteFile, LocalInv, LocalTypeOK, ContentsOK, PassOrder
  <2> QED
    BY <2>1, <2>2
<1>3. LocalTypeOK'
  <2>1. returned' \in BOOLEAN
    BY DEF WriteFile, LocalInv, LocalTypeOK
  <2> QED
    BY <1>1, <2>1 DEF WriteFile, LocalInv, LocalTypeOK
<1> QED
  BY <1>1, <1>2, <1>3 DEF WriteFile, LocalInv

LEMMA CaptureFailsKeeps == LocalInv /\ CaptureFails => LocalInv'
<1> SUFFICES ASSUME LocalInv, CaptureFails PROVE LocalInv'
  OBVIOUS
<1>1. LocalTypeOK' /\ PassOrder'
  BY DEF CaptureFails, LocalInv, LocalTypeOK, ContentsOK, PassOrder
<1> QED
  BY <1>1 DEF CaptureFails, LocalInv

LEMMA FirstPassEndsKeeps == LocalInv /\ FirstPassEnds => LocalInv'
<1> SUFFICES ASSUME LocalInv, FirstPassEnds PROVE LocalInv'
  OBVIOUS
<1>1. LocalTypeOK'
  BY DEF FirstPassEnds, LocalInv, LocalTypeOK, ContentsOK
<1>2. \A p \in Paths : second[p] = Unread
  BY DEF FirstPassEnds, LocalInv, Blank
<1>3. PassOrder'
  BY <1>2, UnreadIsNumber DEF FirstPassEnds, LocalInv, LocalTypeOK, ContentsOK, PassOrder
<1> QED
  BY <1>1, <1>3 DEF FirstPassEnds, LocalInv

LEMMA SecondPassEndsKeeps == LocalInv /\ SecondPassEnds => LocalInv'
<1> SUFFICES ASSUME LocalInv, SecondPassEnds PROVE LocalInv'
  OBVIOUS
<1>1. CASE first = second \/ round = MaxRounds
  <2>1. UNCHANGED <<returned, round, first, second>> /\ pass' = "ended"
    BY <1>1, LocalGitAssumption DEF SecondPassEnds, LocalInv, LocalTypeOK
  <2>2. LocalTypeOK'
    BY <2>1 DEF SecondPassEnds, LocalInv, LocalTypeOK, ContentsOK
  <2>3. PassOrder'
    BY <1>1, <2>1 DEF SecondPassEnds, LocalInv, LocalTypeOK, ContentsOK, PassOrder
  <2> QED
    BY <2>1, <2>2, <2>3 DEF SecondPassEnds, LocalInv
<1>2. CASE first # second /\ round < MaxRounds
  <2>1. /\ round' = round + 1 /\ pass' = "first" /\ returned' = FALSE
        /\ first' = Blank /\ second' = Blank /\ UNCHANGED captured
    BY <1>2, LocalGitAssumption DEF SecondPassEnds, LocalInv, LocalTypeOK
  <2>2. ContentsOK' /\ round' \in 1 .. MaxRounds
    BY <1>2, <2>1, UnreadIsNumber, LocalGitAssumption
       DEF SecondPassEnds, LocalInv, LocalTypeOK, ContentsOK, Blank
  <2>3. LocalTypeOK'
    BY <2>1, <2>2 DEF LocalInv, LocalTypeOK
  <2>4. PassOrder'
    BY <2>1 DEF PassOrder, Blank
  <2>5. captured # "snapshot"
    BY DEF SecondPassEnds, LocalInv
  <2> QED
    BY <2>1, <2>3, <2>4, <2>5 DEF SecondPassEnds, LocalInv
<1> QED
  BY <1>1, <1>2 DEF SecondPassEnds

\* The inductive invariant: what the passes may have seen, with the types.
THEOREM LocalInvariant == LocalSpec => []LocalInv
<1>1. LocalInv /\ [LocalNext]_localVars => LocalInv'
  <2> SUFFICES ASSUME LocalInv, [LocalNext]_localVars PROVE LocalInv'
    OBVIOUS
  <2>1. CASE UNCHANGED localVars
    BY <2>1 DEF localVars, LocalInv, LocalTypeOK, ContentsOK, PassOrder
  <2> QED
    BY <2>1, CaptureFileKeeps, WriteFileKeeps, CaptureFailsKeeps, FirstPassEndsKeeps,
       SecondPassEndsKeeps DEF LocalNext
<1> QED
  BY <1>1, LocalInitially, PTL DEF LocalSpec

\* An accepted worktree snapshot is the tree of the instant between the two
\* passes of LocalGit::snapshot, or a file had an earlier content back.
THEOREM AcceptedIsOneInstant == LocalSpec => []OneInstant
<1>1. LocalInv => OneInstant
  <2> SUFFICES ASSUME LocalInv, captured = "snapshot", ~returned PROVE first = between
    BY DEF OneInstant
  <2>1. \A p \in Paths : first[p] = between[p]
    BY UnreadIsNumber DEF LocalInv, LocalTypeOK, ContentsOK, PassOrder
  <2> QED
    BY <2>1 DEF LocalInv, LocalTypeOK, ContentsOK
<1> QED
  BY <1>1, LocalInvariant, PTL
=============================================================================
