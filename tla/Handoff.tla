------------------------------ MODULE Handoff ------------------------------
(***************************************************************************)
(* Later invocations of diffz give their request to the window running on  *)
(* the same state directory, or start one (adapters/src/handoff.rs and its *)
(* use in app/src/main.rs).                                                *)
(*                                                                         *)
(* An invocation runs handoff::deliver: it sends, and when no window is    *)
(* running it takes the launch lock, sends again and launches.  A window   *)
(* process runs handoff::open_or_hand_off, then Listener::bind and serve.  *)
(* Three things on disk are shared: the writer lock, which says whether a  *)
(* window is running and which Store::open and the probe store::in_use     *)
(* both take; the launch lock; and the path of the socket, which any       *)
(* process may unlink.                                                     *)
(***************************************************************************)
EXTENDS Naturals, FiniteSets

CONSTANTS
  Clis,      \* invocations, each with one request
  Windows,   \* window processes that can be started
  None       \* no process

ASSUME ProcessesAssumption == Clis \cap Windows = {} /\ None \notin Clis \cup Windows

VARIABLES
  pc,          \* where each process is
  round,       \* which send it is in: an invocation's first or second, a window's
  lock,        \* who holds writer.lock
  launchLock,  \* who holds launch.lock
  sock,        \* whose socket the path handoff.sock leads to
  listening,   \* windows whose socket is open
  conn,        \* the connection of each sender and how far its request got
  req,         \* whose request a window process was started with
  token,       \* whose activation token a process still owns
  took,        \* <<request, window>>: the window opened it or came forward
  shown,       \* <<token, window>>: the window received the token
  launched,    \* windows that deliver started
  mishap       \* a window ended, or deliver stopped waiting for the one it launched

vars == <<pc, round, lock, launchLock, sock, listening, conn, req, token, took, shown,
          launched, mishap>>

Procs == Clis \cup Windows

Connection == [to : Windows \cup {None}, token : Procs \cup {None},
               stage : {"none", "queued", "read", "taken", "turned", "accepted", "refused",
                        "closed"}]

NoConn == [to |-> None, token |-> None, stage |-> "none"]

Ended == {"handed_off", "launched", "failed", "gone"}

\* A connect succeeds: the path leads to an open socket.
Live == sock \in listening

Goto(p, label) == pc' = [pc EXCEPT ![p] = label]

\* A process ends; the kernel takes its launch lock back.
Finish(p, label) ==
  /\ Goto(p, label)
  /\ launchLock' = IF launchLock = p THEN None ELSE launchLock

files == <<lock, sock, listening>>
windows == <<req, launched>>
seen == <<took, shown>>

-----------------------------------------------------------------------------
(* handoff::send_within: connect, else probe the writer lock, else remove  *)
(* the socket that was left behind.                                        *)

\* mutant: the token survives an attempt
SendKeepingToken(p) ==
  /\ pc[p] = "connect" /\ Live
  /\ conn' = [conn EXCEPT ![p] = [to |-> sock, token |-> token[p], stage |-> "queued"]]
  /\ Goto(p, "ack")
  /\ UNCHANGED <<round, launchLock, token, mishap, files, windows, seen>>

\* Connected: the token is consumed before the first byte is written.
Send(p) ==
  /\ pc[p] = "connect" /\ Live
  /\ conn' = [conn EXCEPT ![p] = [to |-> sock, token |-> token[p], stage |-> "queued"]]
  /\ token' = [token EXCEPT ![p] = None]
  /\ Goto(p, "ack")
  /\ UNCHANGED <<round, launchLock, mishap, files, windows, seen>>

ConnectFails(p) ==
  /\ pc[p] = "connect" /\ ~Live
  /\ Goto(p, "probe")
  /\ UNCHANGED <<round, launchLock, conn, token, mishap, files, windows, seen>>

\* store::in_use takes the lock for an instant when it is free.
ProbeTakes(p) ==
  /\ pc[p] \in {"probe", "settle"} /\ lock = None
  /\ lock' = p
  /\ Goto(p, IF pc[p] = "probe" THEN "unprobe" ELSE "unsettle")
  /\ UNCHANGED <<round, launchLock, sock, listening, conn, token, mishap, windows, seen>>

\* In use and the deadline has not passed: 50 ms later, again.
ProbeBusy(p) ==
  /\ pc[p] = "probe" /\ lock # None
  /\ Goto(p, "connect")
  /\ UNCHANGED <<round, launchLock, conn, token, mishap, files, windows, seen>>

\* mutant: settle has no deadline
GiveUpConnecting(p) ==
  /\ pc[p] = "probe" /\ lock # None
  /\ Finish(p, "failed")
  /\ UNCHANGED <<round, conn, token, mishap, files, windows, seen>>

\* In use and the deadline has passed.
GiveUp(p) ==
  /\ pc[p] \in {"probe", "settle"} /\ lock # None
  /\ Finish(p, "failed")
  /\ UNCHANGED <<round, conn, token, mishap, files, windows, seen>>

\* mutant: the first send decides
OnwardAtOnce(p) == IF p \in Clis THEN "launch" ELSE "reopen"

\* What a sender does when no window is running.
Onward(p) ==
  CASE round[p] = "first" -> "launch_lock"
    [] round[p] = "second" -> "launch"
    [] round[p] = "window" -> "reopen"

ProbeReleases(p) ==
  /\ pc[p] \in {"unprobe", "unsettle"}
  /\ lock' = None
  /\ Goto(p, IF pc[p] = "unprobe" THEN "remove" ELSE Onward(p))
  /\ UNCHANGED <<round, launchLock, sock, listening, conn, token, mishap, windows, seen>>

\* remove_file on the path, whatever is there by now.
RemoveSocket(p) ==
  /\ pc[p] = "remove"
  /\ sock' = None
  /\ Goto(p, Onward(p))
  /\ UNCHANGED <<round, lock, launchLock, listening, conn, token, mishap, windows, seen>>

\* exchange ends with an answer; a window process that handed over is done.
Answered(p) ==
  /\ pc[p] = "ack" /\ conn[p].stage \in {"accepted", "refused"}
  /\ Finish(p, IF conn[p].stage = "refused" THEN "failed"
               ELSE IF p \in Clis THEN "handed_off" ELSE "gone")
  /\ UNCHANGED <<round, conn, token, mishap, files, windows, seen>>

\* The connection was closed, or nothing came within ten seconds.  settle waits
\* for the lock to be free; open_or_hand_off reports its first error.
Unanswered(p) ==
  /\ pc[p] = "ack" /\ conn[p].stage \in {"queued", "read", "taken", "turned", "closed"}
  /\ IF p \in Clis THEN Goto(p, "settle") /\ UNCHANGED launchLock ELSE Finish(p, "failed")
  /\ UNCHANGED <<round, conn, token, mishap, files, windows, seen>>

-----------------------------------------------------------------------------
(* handoff::deliver: the launch lock, the second send and the launch.      *)

TakeLaunchLock(c) ==
  /\ pc[c] = "launch_lock" /\ launchLock = None
  /\ launchLock' = c
  /\ round' = [round EXCEPT ![c] = "second"]
  /\ Goto(c, "connect")
  /\ UNCHANGED <<conn, token, mishap, files, windows, seen>>

\* The new process gets the request, and the token unless it was consumed.
Launch(c, w) ==
  /\ pc[c] = "launch" /\ pc[w] = "off"
  /\ pc' = [pc EXCEPT ![c] = "await", ![w] = "open"]
  /\ req' = [req EXCEPT ![w] = c]
  /\ token' = [token EXCEPT ![w] = token[c], ![c] = None]
  /\ launched' = launched \cup {w}
  /\ UNCHANGED <<round, launchLock, conn, mishap, files, seen>>

LaunchFails(c) ==
  /\ pc[c] = "launch"
  /\ Finish(c, "failed")
  /\ UNCHANGED <<round, conn, token, mishap, files, windows, seen>>

\* A connect succeeds: a window is taking requests.
AwaitDone(c) ==
  /\ pc[c] = "await" /\ Live
  /\ Finish(c, "launched")
  /\ UNCHANGED <<round, conn, token, mishap, files, windows, seen>>

AwaitTimeout(c) ==
  /\ pc[c] = "await" /\ ~Live
  /\ Finish(c, "failed")
  /\ mishap' = TRUE
  /\ UNCHANGED <<round, conn, token, files, windows, seen>>

-----------------------------------------------------------------------------
(* A window process.                                                       *)

\* The reader starts a window with --foreground or from the Dock.
Start(w) ==
  /\ pc[w] = "off"
  /\ Goto(w, "open")
  /\ req' = [req EXCEPT ![w] = w]
  /\ token' = [token EXCEPT ![w] = w]
  /\ UNCHANGED <<round, launchLock, conn, launched, mishap, files, seen>>

\* mutant: the store opens without the lock
OpenStoreAnyway(w) ==
  /\ pc[w] \in {"open", "reopen"}
  /\ lock' = w
  /\ Goto(w, "bind")
  /\ UNCHANGED <<round, launchLock, sock, listening, conn, token, mishap, windows, seen>>

\* Store::open takes the writer lock, which must be free at that instant.
OpenStore(w) ==
  /\ pc[w] \in {"open", "reopen"} /\ lock = None
  /\ lock' = w
  /\ Goto(w, "bind")
  /\ UNCHANGED <<round, launchLock, sock, listening, conn, token, mishap, windows, seen>>

\* The lock is held, or the database cannot be opened.  open_or_hand_off sends the
\* request once; the second failure is final.
OpenStoreFails(w) ==
  /\ pc[w] \in {"open", "reopen"}
  /\ Goto(w, IF pc[w] = "open" THEN "connect" ELSE "failed")
  /\ UNCHANGED <<round, launchLock, conn, token, mishap, files, windows, seen>>

\* Listener::bind removes what is at the path, then binds.
Unlink(w) ==
  /\ pc[w] = "bind"
  /\ sock' = None
  /\ Goto(w, "bind2")
  /\ UNCHANGED <<round, lock, launchLock, listening, conn, token, mishap, windows, seen>>

\* The window opens the request it was started with.
Serve(w) ==
  /\ Goto(w, "serving")
  /\ took' = took \cup {<<req[w], w>>}
  /\ shown' = IF token[w] = None THEN shown ELSE shown \cup {<<token[w], w>>}
  /\ token' = [token EXCEPT ![w] = None]
  /\ UNCHANGED <<round, lock, launchLock, conn, mishap, windows>>

Bind(w) ==
  /\ pc[w] = "bind2"
  /\ sock' = w
  /\ listening' = listening \cup {w}
  /\ Serve(w)

\* "later invocations cannot hand requests to this window"
BindFails(w) ==
  /\ pc[w] = "bind2"
  /\ UNCHANGED <<sock, listening>>
  /\ Serve(w)

\* Listener::accept reads a request; one that asks for a write permission the window
\* was started without is turned down there.
Accept(w, p) ==
  /\ pc[w] = "serving"
  /\ conn[p].to = w /\ conn[p].stage = "queued"
  /\ \E stage \in {"read", "turned"} : conn' = [conn EXCEPT ![p].stage = stage]
  /\ UNCHANGED <<pc, round, launchLock, token, mishap, files, windows, seen>>

\* Workbench::take_handoff takes it, or turns it down while a comment is being
\* written; the token is used up either way.
TakeHandoff(w, p) ==
  /\ pc[w] = "serving"
  /\ conn[p].to = w /\ conn[p].stage = "read"
  /\ \/ /\ conn' = [conn EXCEPT ![p].stage = "taken"]
        /\ took' = took \cup {<<IF p \in Clis THEN p ELSE req[p], w>>}
     \/ /\ conn' = [conn EXCEPT ![p].stage = "turned"]
        /\ UNCHANGED took
  /\ shown' = IF conn[p].token = None THEN shown ELSE shown \cup {<<conn[p].token, w>>}
  /\ UNCHANGED <<pc, round, launchLock, token, mishap, files, windows>>

\* mutant: acknowledged when it is read
ReplyEarly(w, p) ==
  /\ pc[w] = "serving"
  /\ conn[p].to = w /\ conn[p].stage \in {"queued", "read", "taken", "turned"}
  /\ conn' = [conn EXCEPT ![p].stage = IF @ = "turned" THEN "refused" ELSE "accepted"]
  /\ UNCHANGED <<pc, round, launchLock, token, mishap, files, windows, seen>>

\* Incoming::reply.
Reply(w, p) ==
  /\ pc[w] = "serving"
  /\ conn[p].to = w /\ conn[p].stage \in {"taken", "turned"}
  /\ conn' = [conn EXCEPT ![p].stage = IF @ = "taken" THEN "accepted" ELSE "refused"]
  /\ UNCHANGED <<pc, round, launchLock, token, mishap, files, windows, seen>>

\* The window is closed or crashes: the kernel closes its socket and its lock.  The
\* path stays, unless the accept thread got to drop the Listener.
Exit(w) ==
  /\ pc[w] \in {"bind", "bind2", "serving"}
  /\ Goto(w, "gone")
  /\ lock' = None
  /\ listening' = listening \ {w}
  /\ sock' \in IF w \in listening THEN {sock, None} ELSE {sock}
  /\ conn' = [p \in Procs |->
       IF conn[p].to = w /\ conn[p].stage \in {"queued", "read", "taken", "turned"}
         THEN [conn[p] EXCEPT !.stage = "closed"] ELSE conn[p]]
  /\ mishap' = TRUE
  /\ UNCHANGED <<round, launchLock, token, windows, seen>>

-----------------------------------------------------------------------------
Init ==
  /\ pc = [p \in Procs |-> IF p \in Clis THEN "connect" ELSE "off"]
  /\ round = [p \in Procs |-> IF p \in Clis THEN "first" ELSE "window"]
  /\ lock = None
  /\ launchLock = None
  /\ sock \in {None} \cup Windows     \* a socket may be left from an earlier crash
  /\ listening = {}
  /\ conn = [p \in Procs |-> NoConn]
  /\ req = [w \in Windows |-> None]
  /\ token = [p \in Procs |-> IF p \in Clis THEN p ELSE None]
  /\ took = {}
  /\ shown = {}
  /\ launched = {}
  /\ mishap = FALSE

Sender(p) ==
  \/ Send(p) \/ ConnectFails(p) \/ ProbeTakes(p) \/ ProbeBusy(p) \/ GiveUp(p)
  \/ ProbeReleases(p) \/ RemoveSocket(p) \/ Answered(p) \/ Unanswered(p)

Invocation(c) ==
  \/ TakeLaunchLock(c) \/ LaunchFails(c) \/ AwaitDone(c) \/ AwaitTimeout(c)
  \/ \E w \in Windows : Launch(c, w)

Window(w) == OpenStore(w) \/ OpenStoreFails(w) \/ Unlink(w) \/ Bind(w) \/ BindFails(w)

Serving(w) ==
  \E p \in Procs : Accept(w, p) \/ TakeHandoff(w, p) \/ Reply(w, p)

Next ==
  \/ \E p \in Procs : Sender(p)
  \/ \E c \in Clis : Invocation(c)
  \/ \E w \in Windows : Window(w) \/ Serving(w) \/ Start(w) \/ Exit(w)

Spec == Init /\ [][Next]_vars

\* Processes keep running; a deadline that is looked at again and again passes.
Fairness ==
  /\ \A p \in Procs : WF_vars(Sender(p)) /\ SF_vars(GiveUp(p))
  /\ \A c \in Clis : WF_vars(Invocation(c))
  /\ \A w \in Windows : WF_vars(Window(w))

FairSpec == Spec /\ Fairness

-----------------------------------------------------------------------------
(* Properties.                                                             *)

\* Every variable has its type.
TypeOK ==
  /\ pc \in [Procs -> {"off", "connect", "probe", "settle", "unprobe", "unsettle", "remove",
                       "ack", "launch_lock", "launch", "await", "open", "reopen", "bind",
                       "bind2", "serving"} \cup Ended]
  /\ round \in [Procs -> {"first", "second", "window"}]
  /\ lock \in Procs \cup {None}
  /\ launchLock \in Clis \cup {None}
  /\ sock \in Windows \cup {None}
  /\ listening \in SUBSET Windows
  /\ conn \in [Procs -> Connection]
  /\ req \in [Windows -> Procs \cup {None}]
  /\ token \in [Procs -> Procs \cup {None}]
  /\ took \in SUBSET ((Procs \cup {None}) \X Windows)
  /\ shown \in SUBSET (Procs \X Windows)
  /\ launched \in SUBSET Windows
  /\ mishap \in BOOLEAN

\* Two windows never work on one state directory, and a probe never keeps a lock
\* that a window believes it has.
OneWindow ==
  \A w \in Windows : pc[w] \in {"bind", "bind2", "serving"} => lock = w

\* "Invocations that find none running take turns on a launch lock, so only one
\* starts a window": as long as no window ended and nobody stopped waiting for
\* one, deliver has launched at most one.
OneLaunch == ~mishap => Cardinality(launched) =< 1

\* An activation token reaches at most one window, over lost answers, the second
\* send, the launch and a launched window that hands its request over.
TokenOnce == \A x, y \in shown : x[1] = y[1] => x = y

\* "handed_off" is reported only for a request that a window took.
HandedOffWasTaken ==
  \A c \in Clis : pc[c] = "handed_off" => \E w \in Windows : <<c, w>> \in took

\* The inductive form of OneWindow: a probe holds the lock while it has it.
LockInv ==
  /\ OneWindow
  /\ \A p \in Procs : pc[p] \in {"unprobe", "unsettle"} => lock = p

\* A token is on its way in the connection of a sender.
Sent(p) == conn[p].stage \in {"queued", "read"}

\* The inductive form of TokenOnce: a token has one place.  One process owns it, or
\* one connection carries it, or one window has received it; that of a window
\* process that was not started has none.
TokenPlaces ==
  /\ \A p, q \in Procs : token[p] # None /\ token[p] = token[q] => p = q
  /\ \A p, q \in Procs : Sent(q) /\ token[p] # None => token[p] # conn[q].token
  /\ \A p, q \in Procs :
       Sent(p) /\ Sent(q) /\ conn[p].token # None /\ conn[p].token = conn[q].token => p = q
  /\ \A x \in shown, p \in Procs : x[1] # token[p] /\ (Sent(p) => x[1] # conn[p].token)
  /\ \A w \in Windows : pc[w] = "off" =>
       /\ \A p \in Procs : token[p] # w /\ (Sent(p) => conn[p].token # w)
       /\ \A x \in shown : x[1] # w

TokenInv == TokenOnce /\ TokenPlaces

\* The inductive form of HandedOffWasTaken: an answer that says yes follows the taking.
TakenInv ==
  /\ HandedOffWasTaken
  /\ \A c \in Clis : conn[c].stage \in {"taken", "accepted"} => \E w \in Windows : <<c, w>> \in took

\* The inductive form of OneLaunch.  An invocation in its second send has the launch
\* lock until it ends; as long as nothing went wrong, a launch is followed by the
\* wait and the wait by a window that serves, so an invocation that has found the
\* writer lock free in its second send knows that nothing was launched.
LaunchInv ==
  /\ OneLaunch
  /\ \A w \in listening : pc[w] = "serving"
  /\ \A c \in Clis :
       /\ pc[c] \in {"launch", "await"} => round[c] = "second"
       /\ round[c] = "second" /\ pc[c] \notin Ended => launchLock = c
  /\ ~mishap /\ launched # {} =>
       (\E c \in Clis : pc[c] = "await") \/ (\E w \in Windows : pc[w] = "serving")
  /\ ~mishap => \A c \in Clis :
       round[c] = "second" /\ pc[c] \in {"unprobe", "unsettle", "remove", "launch"} => launched = {}

\* Every invocation ends, whoever holds the locks.
DeliverEnds == \A c \in Clis : <>(pc[c] \in Ended)
=============================================================================
