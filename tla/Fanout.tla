------------------------------- MODULE Fanout -------------------------------
(* Doing many reads with a few threads (releases::bounded) and putting     *)
(* the answers back in order: the commit pages and step compares of a      *)
(* release list, and the blame of many files, asked for in batches         *)
(* (GithubReader::blame) or one by one (GitlabReader::blame).              *)
EXTENDS Naturals, Sequences, FiniteSets

CONSTANTS Workers,       \* the threads, at most WIDTH
          Batches,       \* the sizes of a request: BLAME_BATCH, or 1
          MaxSpans       \* bound on the files of one blame read

ASSUME FanoutAssumption ==
  IsFiniteSet(Workers) /\ Workers # {} /\ Batches \subseteq Nat \ {0} /\ MaxSpans \in Nat

VARIABLES
  spans,      \* number of files asked for
  batch,      \* files per request
  strict,     \* a failed request is an error (pages) or no answer (blame)
  nextItem,   \* the shared counter
  worker,     \* worker -> what it does
  holds,      \* worker -> index of its item
  own,        \* worker -> results it collected, index and whether ok
  merged      \* "running", "ok" or "error"

fanoutVars == <<spans, batch, strict, nextItem, worker, holds, own, merged>>

\* spans.chunks(BLAME_BATCH): the number of chunks, and the files of one.
Items == (spans + batch - 1) \div batch
Chunk(i) == i * batch + 1 .. IF (i + 1) * batch < spans THEN (i + 1) * batch ELSE spans

FanoutInit ==
  /\ spans \in 0 .. MaxSpans /\ batch \in Batches /\ strict \in BOOLEAN
  /\ nextItem = 0 /\ merged = "running"
  /\ worker = [w \in Workers |-> "idle"] /\ holds = [w \in Workers |-> 0]
  /\ own = [w \in Workers |-> {}]

\* next.fetch_add(1): an item, or the end.
TakeItem(w) ==
  /\ merged = "running" /\ worker[w] = "idle"
  /\ holds' = [holds EXCEPT ![w] = nextItem]
  /\ nextItem' = nextItem + 1
  /\ worker' = [worker EXCEPT ![w] = IF nextItem < Items THEN "busy" ELSE "returned"]
  /\ UNCHANGED <<spans, batch, strict, own, merged>>

\* f(item): blame turns a failed request into no answer for its files.
ItemDone(w, ok) ==
  /\ worker[w] = "busy"
  /\ own' = [own EXCEPT ![w] = @ \cup {[at |-> holds[w], ok |-> ok]}]
  /\ worker' = [worker EXCEPT ![w] = IF ok \/ ~strict THEN "idle" ELSE "failed"]
  /\ UNCHANGED <<spans, batch, strict, nextItem, holds, merged>>

\* A worker that panics loses what it collected.
WorkerPanics(w) ==
  /\ worker[w] = "busy"
  /\ own' = [own EXCEPT ![w] = {}]
  /\ worker' = [worker EXCEPT ![w] = "returned"]
  /\ UNCHANGED <<spans, batch, strict, nextItem, holds, merged>>

\* next.store(items.len()): the others take nothing more.
StopOthers(w) ==
  /\ worker[w] = "failed"
  /\ nextItem' = Items
  /\ worker' = [worker EXCEPT ![w] = "returned"]
  /\ UNCHANGED <<spans, batch, strict, holds, own, merged>>

Results == UNION {own[w] : w \in Workers}

\* Mutant: results that are there and ok are taken for all of them.
MergeWithoutCount ==
  /\ merged = "running" /\ \A w \in Workers : worker[w] = "returned"
  /\ merged' = IF strict /\ \E r \in Results : ~r.ok THEN "error" ELSE "ok"
  /\ UNCHANGED <<spans, batch, strict, nextItem, worker, holds, own>>

\* The joined lists, sorted by index: an error of a read, or a missing result.
Merge ==
  /\ merged = "running" /\ \A w \in Workers : worker[w] = "returned"
  /\ merged' = IF \/ strict /\ \E r \in Results : ~r.ok
                  \/ Cardinality({r.at : r \in Results}) # Items
               THEN "error" ELSE "ok"
  /\ UNCHANGED <<spans, batch, strict, nextItem, worker, holds, own>>

FanoutNext ==
  \/ \E w \in Workers : TakeItem(w) \/ WorkerPanics(w) \/ StopOthers(w)
  \/ \E w \in Workers, ok \in BOOLEAN : ItemDone(w, ok)
  \/ Merge

FanoutSpec == FanoutInit /\ [][FanoutNext]_fanoutVars

-----------------------------------------------------------------------------
\* Every variable has its type.
FanoutTypeOK ==
  /\ spans \in Nat /\ batch \in Nat \ {0} /\ strict \in BOOLEAN /\ nextItem \in Nat
  /\ worker \in [Workers -> {"idle", "busy", "failed", "returned"}]
  /\ holds \in [Workers -> Nat]
  /\ own \in [Workers -> SUBSET [at : Nat, ok : BOOLEAN]]
  /\ merged \in {"running", "ok", "error"}

\* The flattened answers: one of each chunk, in order of the chunks.
AnswerFor(s) == {r \in Results : s \in Chunk(r.at)}

\* No item is read by two workers, although one of them may stop the others at
\* any point.
ItemsApart ==
  \A v, w \in Workers : v # w =>
    /\ worker[v] \in {"busy", "failed"} /\ worker[w] \in {"busy", "failed"} => holds[v] # holds[w]
    /\ {r.at : r \in own[v]} \cap {r.at : r \in own[w]} = {}

\* Merged answers line up with what was asked: every file has exactly one
\* answer, its own, no item is read by two workers although one of them may
\* stop the others at any point, and no panic passes as a shorter answer.
FanoutWhole ==
  /\ ItemsApart
  /\ merged = "ok" =>
       /\ \A s \in 1 .. spans : Cardinality(AnswerFor(s)) = 1
       /\ strict => \A r \in Results : r.ok

\* The inductive form of FanoutWhole: the counter is past every item that was taken,
\* although StopOthers may set it back to the end, so an item that is being read
\* has no result yet and no item has two.
FanoutInv ==
  /\ FanoutWhole
  /\ \A w \in Workers :
       worker[w] \in {"busy", "failed"} => holds[w] < nextItem /\ holds[w] < Items
  /\ \A v \in Workers : \A r \in own[v] : r.at < nextItem /\ r.at < Items
  /\ \A v, w \in Workers : worker[w] = "busy" => \A r \in own[v] : r.at # holds[w]
  /\ \A v \in Workers : \A r, s \in own[v] : r.at = s.at => r = s
  /\ merged # "running" => \A w \in Workers : worker[w] = "returned"
=============================================================================
