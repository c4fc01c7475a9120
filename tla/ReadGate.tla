------------------------------ MODULE ReadGate ------------------------------
(* The read gate of Services: at most Limit loads, release listings, blame *)
(* reads and source reads at a time. permit waits on a condition variable  *)
(* with a timeout; the Permit it returns gives its place back when it is   *)
(* dropped, on every path out of a read, and wakes one waiter.             *)
(*                                                                         *)
(* Nothing says that a read ends: a command line may hang for as long as   *)
(* its own deadline, so the gate is checked without fairness of the reads. *)
EXTENDS Naturals, FiniteSets

CONSTANTS Readers,   \* threads that read
          Limit      \* 4 in the code

ASSUME ReadGateAssumption ==
  IsFiniteSet(Readers) /\ Limit \in Nat \ {0}

VARIABLES
  count,      \* reads.0, under its mutex
  reader,     \* thread -> where it is
  withdrawn   \* threads whose Cancellation is set

gateVars == <<count, reader, withdrawn>>

Places == {"idle", "checking", "asleep", "reading", "done", "failed", "refused"}
At(place) == {r \in Readers : reader[r] = place}

GateInit ==
  /\ count = 0
  /\ reader = [r \in Readers |-> "idle"]
  /\ withdrawn = {}

\* permit, up to taking the mutex.
Enter(r) ==
  /\ reader[r] = "idle"
  /\ reader' = [reader EXCEPT ![r] = "checking"]
  /\ UNCHANGED <<count, withdrawn>>

\* The loop of permit: with a place free it is taken, even by a cancelled
\* read; with none, a cancelled read gives up and another one sleeps.
Admit(r) ==
  /\ reader[r] = "checking"
  /\ \/ /\ count < Limit
        /\ count' = count + 1
        /\ reader' = [reader EXCEPT ![r] = "reading"]
     \/ /\ count >= Limit
        /\ reader' = [reader EXCEPT ![r] = IF r \in withdrawn THEN "refused" ELSE "asleep"]
        /\ UNCHANGED count
  /\ UNCHANGED withdrawn

\* wait_timeout ends by itself after 50 ms.
WaitEnds(r) ==
  /\ reader[r] = "asleep"
  /\ reader' = [reader EXCEPT ![r] = "checking"]
  /\ UNCHANGED <<count, withdrawn>>

\* Drop of Permit, as r leaves for "place": notify_one.
DropPermit(r, place) ==
  /\ count' = count - 1
  /\ \/ /\ At("asleep") = {}
        /\ reader' = [reader EXCEPT ![r] = place]
     \/ \E w \in At("asleep") : reader' = [reader EXCEPT ![r] = place, ![w] = "checking"]

\* The read is over and its answer goes to the window.
ReadEnds(r) ==
  /\ reader[r] = "reading" /\ r \notin withdrawn
  /\ DropPermit(r, "done")
  /\ UNCHANGED withdrawn

\* Mutant: a read that fails keeps its place.
ReadFailsKeepingPermit(r) ==
  /\ reader[r] = "reading"
  /\ reader' = [reader EXCEPT ![r] = "failed"]
  /\ UNCHANGED <<count, withdrawn>>

\* The read fails, or finds that it was cancelled.
ReadFails(r) ==
  /\ reader[r] = "reading"
  /\ DropPermit(r, "failed")
  /\ UNCHANGED withdrawn

\* Cancellation::cancel by the window; it wakes nobody.
CancelRead(r) ==
  /\ reader[r] \in {"checking", "asleep", "reading"} /\ r \notin withdrawn
  /\ withdrawn' = withdrawn \cup {r}
  /\ UNCHANGED <<count, reader>>

GateNext ==
  \E r \in Readers : \/ Enter(r) \/ Admit(r) \/ WaitEnds(r)
                     \/ ReadEnds(r) \/ ReadFails(r) \/ CancelRead(r)

\* A thread with the mutex to take or a timeout to come goes on.
GateFairness == \A r \in Readers : WF_gateVars(Admit(r)) /\ WF_gateVars(WaitEnds(r))

\* No read waits for ever when it was cancelled, nor while fewer than Limit
\* reads are under way, although the other reads may fail or never end and a
\* wake-up may go to a waiter that has given up.
NoneWaitsForNothing ==
  \A r \in Readers :
    []<>(reader[r] \in {"checking", "asleep"}
            => r \notin withdrawn /\ Cardinality(At("reading")) >= Limit)

GateSpec == GateInit /\ [][GateNext]_gateVars

\* The counter under the mutex is the number of reads under way, so that it
\* bounds them.
GateInv ==
  /\ reader \in [Readers -> Places]
  /\ count \in Nat /\ count =< Limit
  /\ count = Cardinality(At("reading"))
=============================================================================
