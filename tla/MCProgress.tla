----------------------------- MODULE MCProgress -----------------------------
(* That what was begun ends: the processes that hand a request over, the    *)
(* window that works on drafts, and the store that is opened again after a  *)
(* crash.  A run begins with one of the three as its topic, whose steps are *)
(* taken, and the others rest.                                              *)
EXTENDS Handoff

CONSTANTS Drafts, MaxEdits, MaxLoads   \* of Workbench

CONSTANTS Ops, Prs, Accounts, Heads, Notes, NoOp, MaxVersion, MaxReviews, MaxCrashes   \* of Outbox

VARIABLES
  topic,      \* the part that runs
  active, mem, row, task, orphans, disc, busy, preparing, prepared, pub, sent, doubt, load, loads, typed,
  discarded, closed,   \* of Workbench
  drafts, outbox, publish, rec, proc, account, live, posted, nextId, wire, sends, deleted, crashes   \* of Outbox

draftVars ==
  <<active, mem, row, task, orphans, disc, busy, preparing, prepared, pub, sent, doubt, load, loads, typed,
    discarded, closed>>

outboxVars ==
  <<drafts, outbox, publish, rec, proc, account, live, posted, nextId, wire, sends, deleted, crashes>>

W == INSTANCE Workbench

\* Reviews of a verdict and a summary only: no draft row has a part in what is
\* asked of the outbox here.
O == INSTANCE Outbox WITH
       Drafts <- {}, Marked <- TRUE, pub <- publish, discarded <- deleted

\* Every invocation has ended, and nothing was started.
HandoffRest ==
  /\ pc = [p \in Procs |-> IF p \in Clis THEN "handed_off" ELSE "off"]
  /\ round = [p \in Procs |-> "first"] /\ lock = None /\ launchLock = None /\ sock = None
  /\ listening = {} /\ conn = [p \in Procs |-> NoConn] /\ req = [w \in Windows |-> None]
  /\ token = [p \in Procs |-> None] /\ took = {} /\ shown = {} /\ launched = {} /\ mishap = FALSE

\* An account, where the outbox is not the topic.
OutboxRest == account = CHOOSE a \in Accounts : TRUE

ProgressInit ==
  /\ topic \in {"handoff", "drafts", "outbox"}
  /\ IF topic = "handoff" THEN Init ELSE HandoffRest
  /\ W!Init
  /\ O!Init
  /\ topic # "outbox" => OutboxRest

ProgressNext ==
  /\ UNCHANGED topic
  /\ \/ topic = "handoff" /\ Next /\ UNCHANGED <<draftVars, outboxVars>>
     \/ topic = "drafts" /\ W!Next /\ UNCHANGED <<vars, outboxVars>>
     \/ topic = "outbox" /\ O!Next /\ UNCHANGED <<vars, draftVars>>

ProgressSpec ==
  /\ ProgressInit
  /\ [][ProgressNext]_<<topic, vars, draftVars, outboxVars>>
  /\ Fairness /\ W!Fairness /\ O!Fairness

\* Workbench: every busy phase of the window ends, whichever of preview,
\* publication and discard set the flag and however they answered.
BusyEnds == W!BusyEnds

\* Outbox: opening the store again ends, with none of several operations left
\* InFlight, unless the process dies again in the middle of the recovery.
ReopenResolves == O!ReopenResolves
=============================================================================
