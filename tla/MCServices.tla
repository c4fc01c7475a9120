----------------------------- MODULE MCServices -----------------------------
(* The parts behind the services facade, one at a time: a run begins with  *)
(* one of them as its topic, whose steps are taken, and the others rest.   *)
EXTENDS Runner, ReadGate, GitlabSend, LocalGit, Fanout, Extensions

VARIABLE topic   \* the part that runs

vars == <<topic, runnerVars, gateVars, sendVars, localVars, fanoutVars, extensionVars>>

Topics == {"runner", "gate", "send", "local", "fanout", "extensions"}

\* A part at rest is in a state of its own from which nothing is owed.
RunnerRests ==
  /\ rpc = "done" /\ answer = "refused" /\ child = "none" /\ reaped = FALSE /\ helper = "none"
  /\ written = [p \in Pipes |-> 0] /\ drained = [p \in Pipes |-> 0]
  /\ channel = [c \in Channels |-> "empty"]
  /\ polled = [c \in Channels \cup {"status"} |-> "none"]
  /\ overflow = FALSE /\ cancelled = FALSE /\ late = TRUE

\* The first extension loads or the second does; one that does not load
\* differs from the others in nothing else.
ExtensionsStart ==
  /\ ExtensionsInit
  /\ manifests[1].id = "x" /\ (manifests[1].loads \/ manifests[2].loads)
  /\ ~manifests[2].loads => manifests[2].id = "y" /\ manifests[2].does = "finds"

ExtensionsRest ==
  /\ manifests = [f \in 1 .. Folders |-> [id |-> "x", loads |-> FALSE, does |-> "finds"]]
  /\ shown = 0 /\ jobs = [r \in 1 .. MaxReviews |-> NoJob]
  /\ annotations = {} /\ told = {} /\ running = 0 /\ ticker = "parked"

Init ==
  /\ topic \in Topics
  /\ IF topic = "runner" THEN RunnerInit ELSE RunnerRests
  /\ GateInit /\ LocalInit
  /\ SendInit /\ (topic # "send" => verdict = "comment" /\ mrSame)
  /\ IF topic = "extensions" THEN ExtensionsStart ELSE ExtensionsRest
  /\ FanoutInit /\ (topic # "fanout" => spans = 0 /\ batch = 1 /\ strict)

Next ==
  /\ UNCHANGED topic
  /\ \/ topic = "runner" /\ RunnerNext
        /\ UNCHANGED <<gateVars, sendVars, localVars, fanoutVars, extensionVars>>
     \/ topic = "gate" /\ GateNext
        /\ UNCHANGED <<runnerVars, sendVars, localVars, fanoutVars, extensionVars>>
     \/ topic = "send" /\ SendNext
        /\ UNCHANGED <<runnerVars, gateVars, localVars, fanoutVars, extensionVars>>
     \/ topic = "local" /\ LocalNext
        /\ UNCHANGED <<runnerVars, gateVars, sendVars, fanoutVars, extensionVars>>
     \/ topic = "fanout" /\ FanoutNext
        /\ UNCHANGED <<runnerVars, gateVars, sendVars, localVars, extensionVars>>
     \/ topic = "extensions" /\ ExtensionsNext
        /\ UNCHANGED <<runnerVars, gateVars, sendVars, localVars, fanoutVars>>

Spec == Init /\ [][Next]_vars /\ RunnerFairness /\ GateFairness /\ ExtensionsFairness

\* A command that was started and an annotation job that was begun come to an
\* end, whatever the tool, its helpers and the extension's component do: the
\* loops that wait for them have deadlines of their own (Runner::run, Calls).
WorkEnds == RunEnds /\ JobEnds
=============================================================================
