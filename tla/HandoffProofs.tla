--------------------------- MODULE HandoffProofs ---------------------------
(***************************************************************************)
(* For any number of invocations and window processes: the handoff is well *)
(* typed, two windows never work on one state directory, an activation     *)
(* token reaches at most one window, "handed_off" is never reported for a  *)
(* request no window took, and the invocations that find no window start   *)
(* at most one between them.                                               *)
(***************************************************************************)
EXTENDS Handoff, FiniteSetTheorems, TLAPS

\* The step relation of one process, split the way the proofs below do.
LEMMA NextCases ==
  ASSUME Next
  PROVE  \/ \E p \in Procs : Sender(p)
         \/ \E c \in Clis : Invocation(c)
         \/ \E w \in Windows : Window(w)
         \/ \E w \in Windows : Serving(w)
         \/ \E w \in Windows : Start(w)
         \/ \E w \in Windows : Exit(w)
  BY DEF Next

-----------------------------------------------------------------------------
(* Type correctness.                                                       *)

\* What a sender does when no window is running is a label of its own kind.
LEMMA OnwardType ==
  ASSUME TypeOK, NEW p \in Procs
  PROVE  Onward(p) \in {"launch_lock", "launch", "reopen"}
  BY DEF TypeOK, Onward

\* The steps of send_within and exchange keep the types.
LEMMA SenderTypes ==
  ASSUME TypeOK, NEW p \in Procs, Sender(p)
  PROVE  TypeOK'
<1> USE ProcessesAssumption DEF TypeOK, Procs, Goto, Finish, Ended, files, windows, seen
<1>1. CASE Send(p)
  <2>1. sock \in Windows
    BY <1>1 DEF Send, Live
  <2>2. conn' \in [Procs -> Connection]
    BY <1>1, <2>1 DEF Send, Connection
  <2> QED BY <1>1, <2>2 DEF Send
<1>2. CASE ConnectFails(p)
  BY <1>2 DEF ConnectFails
<1>3. CASE ProbeTakes(p)
  BY <1>3 DEF ProbeTakes
<1>4. CASE ProbeBusy(p)
  BY <1>4 DEF ProbeBusy
<1>5. CASE GiveUp(p)
  BY <1>5 DEF GiveUp
<1>6. CASE ProbeReleases(p)
  BY <1>6, OnwardType DEF ProbeReleases
<1>7. CASE RemoveSocket(p)
  BY <1>7, OnwardType DEF RemoveSocket
<1>8. CASE Answered(p)
  BY <1>8 DEF Answered
<1>9. CASE Unanswered(p)
  BY <1>9 DEF Unanswered
<1> QED
  BY <1>1, <1>2, <1>3, <1>4, <1>5, <1>6, <1>7, <1>8, <1>9 DEF Sender

\* The steps of deliver keep the types.
LEMMA InvocationTypes ==
  ASSUME TypeOK, NEW c \in Clis, Invocation(c)
  PROVE  TypeOK'
<1> USE ProcessesAssumption DEF TypeOK, Procs, Goto, Finish, Ended, files, windows, seen
<1>1. CASE TakeLaunchLock(c)
  BY <1>1 DEF TakeLaunchLock
<1>2. CASE LaunchFails(c)
  BY <1>2 DEF LaunchFails
<1>3. CASE AwaitDone(c)
  BY <1>3 DEF AwaitDone
<1>4. CASE AwaitTimeout(c)
  BY <1>4 DEF AwaitTimeout
<1>5. CASE \E w \in Windows : Launch(c, w)
  BY <1>5 DEF Launch
<1> QED
  BY <1>1, <1>2, <1>3, <1>4, <1>5 DEF Invocation

\* A starting window process keeps the types.
LEMMA WindowTypes ==
  ASSUME TypeOK, NEW w \in Windows, Window(w) \/ Start(w)
  PROVE  TypeOK'
<1> USE ProcessesAssumption DEF TypeOK, Procs, Goto, Finish, Ended, files, windows, seen
<1>1. CASE OpenStore(w)
  BY <1>1 DEF OpenStore
<1>2. CASE OpenStoreFails(w)
  BY <1>2 DEF OpenStoreFails
<1>3. CASE Unlink(w)
  BY <1>3 DEF Unlink
<1>4. CASE Serve(w) /\ sock' \in Windows \cup {None} /\ listening' \in SUBSET Windows /\ pc[w] = "bind2"
  <2>1. took' \in SUBSET ((Procs \cup {None}) \X Windows)
    BY <1>4 DEF Serve
  <2>2. shown' \in SUBSET (Procs \X Windows)
    BY <1>4 DEF Serve
  <2> QED BY <1>4, <2>1, <2>2 DEF Serve
<1>5. CASE Start(w)
  BY <1>5 DEF Start
<1> QED
  BY <1>1, <1>2, <1>3, <1>4, <1>5 DEF Window, Bind, BindFails

\* A window that serves or ends keeps the types.
LEMMA ServingTypes ==
  ASSUME TypeOK, NEW w \in Windows, Serving(w) \/ Exit(w)
  PROVE  TypeOK'
<1> USE ProcessesAssumption DEF TypeOK, Procs, Goto, Finish, Ended, files, windows, seen
<1>1. ASSUME NEW p \in Procs, NEW stage \in {"read", "taken", "turned", "accepted", "refused"},
             conn' = [conn EXCEPT ![p].stage = stage]
      PROVE  conn' \in [Procs -> Connection]
  BY <1>1 DEF Connection
<1>2. ASSUME NEW p \in Procs, Accept(w, p)
      PROVE  TypeOK'
  <2>1. conn' \in [Procs -> Connection]
    BY <1>1, <1>2 DEF Accept
  <2> QED BY <1>2, <2>1 DEF Accept
<1>3. ASSUME NEW p \in Procs, TakeHandoff(w, p)
      PROVE  TypeOK'
  <2>1. conn' \in [Procs -> Connection]
    BY <1>1, <1>3 DEF TakeHandoff
  <2>2. took' \in SUBSET ((Procs \cup {None}) \X Windows)
    BY <1>3 DEF TakeHandoff
  <2>3. shown' \in SUBSET (Procs \X Windows)
    BY <1>3 DEF TakeHandoff, Connection
  <2> QED BY <1>3, <2>1, <2>2, <2>3 DEF TakeHandoff
<1>4. ASSUME NEW p \in Procs, Reply(w, p)
      PROVE  TypeOK'
  <2>1. conn' \in [Procs -> Connection]
    BY <1>4 DEF Reply, Connection
  <2> QED BY <1>4, <2>1 DEF Reply
<1>5. CASE Exit(w)
  <2>1. conn' \in [Procs -> Connection]
    BY <1>5 DEF Exit, Connection
  <2>2. sock' \in Windows \cup {None}
    BY <1>5 DEF Exit
  <2> QED BY <1>5, <2>1, <2>2 DEF Exit
<1> QED
  BY <1>2, <1>3, <1>4, <1>5 DEF Serving

\* Every step keeps the types.
LEMMA TypeStep ==
  ASSUME TypeOK, [Next]_vars
  PROVE  TypeOK'
<1>1. CASE Next
  BY <1>1, NextCases, SenderTypes, InvocationTypes, WindowTypes, ServingTypes
<1>2. CASE UNCHANGED vars
  BY <1>2 DEF TypeOK, vars
<1> QED BY <1>1, <1>2

\* Every reachable state is well typed, for any sets of processes.
THEOREM TypeCorrect == Spec => []TypeOK
<1>1. ASSUME Init PROVE TypeOK
  <2>1. conn \in [Procs -> Connection]
    BY <1>1 DEF Init, NoConn, Connection
  <2>2. /\ pc \in [Procs -> {"connect", "off"}]
        /\ round \in [Procs -> {"first", "window"}]
        /\ token \in [Procs -> Procs \cup {None}]
    BY <1>1 DEF Init, Procs
  <2>3. req \in [Windows -> Procs \cup {None}]
    BY <1>1 DEF Init
  <2> QED
    BY <1>1, <2>1, <2>2, <2>3 DEF Init, TypeOK, Ended
<1> QED
  BY <1>1, TypeStep, PTL DEF Spec

-----------------------------------------------------------------------------
(* Two windows never work on one state directory.  Everyone who takes the  *)
(* writer lock found it free, and everyone who lets go of it was its       *)
(* holder; the second half is what LockInv adds for the probes.            *)

\* Every step leaves the writer lock with the window that works, or the one that probes.
LEMMA LockStep ==
  ASSUME TypeOK, LockInv, [Next]_vars
  PROVE  LockInv'
<1> USE ProcessesAssumption DEF LockInv, OneWindow, TypeOK, Procs, Goto, Finish, files
<1>1. ASSUME NEW p \in Procs, Sender(p)
      PROVE  LockInv'
  <2>1. Onward(p) \in {"launch_lock", "launch", "reopen"}
    BY OnwardType
  <2>2. CASE Send(p)
    BY <2>2 DEF Send
  <2>3. CASE ConnectFails(p)
    BY <2>3 DEF ConnectFails
  <2>4. CASE ProbeTakes(p)
    BY <2>4 DEF ProbeTakes
  <2>5. CASE ProbeBusy(p) \/ GiveUp(p)
    BY <2>5 DEF ProbeBusy, GiveUp
  <2>6. CASE ProbeReleases(p)
    BY <2>1, <2>6 DEF ProbeReleases
  <2>7. CASE RemoveSocket(p)
    BY <2>1, <2>7 DEF RemoveSocket
  <2>8. CASE Answered(p) \/ Unanswered(p)
    BY <2>8 DEF Answered, Unanswered
  <2> QED
    BY <1>1, <2>2, <2>3, <2>4, <2>5, <2>6, <2>7, <2>8 DEF Sender
<1>2. ASSUME NEW c \in Clis, Invocation(c)
      PROVE  LockInv'
  <2>1. CASE \E w \in Windows : Launch(c, w)
    BY <2>1 DEF Launch
  <2>2. CASE TakeLaunchLock(c) \/ LaunchFails(c) \/ AwaitDone(c) \/ AwaitTimeout(c)
    BY <2>2 DEF TakeLaunchLock, LaunchFails, AwaitDone, AwaitTimeout
  <2> QED
    BY <1>2, <2>1, <2>2 DEF Invocation
<1>3. ASSUME NEW w \in Windows, Window(w)
      PROVE  LockInv'
  <2>1. CASE OpenStore(w)
    BY <2>1 DEF OpenStore
  <2>2. CASE OpenStoreFails(w)
    BY <2>2 DEF OpenStoreFails
  <2>3. CASE Unlink(w)
    BY <2>3 DEF Unlink
  <2>4. CASE Bind(w) \/ BindFails(w)
    BY <2>4 DEF Bind, BindFails, Serve
  <2> QED
    BY <1>3, <2>1, <2>2, <2>3, <2>4 DEF Window
<1>4. ASSUME NEW w \in Windows, Serving(w)
      PROVE  LockInv'
  BY <1>4 DEF Serving, Accept, TakeHandoff, Reply
<1>5. ASSUME NEW w \in Windows, Start(w)
      PROVE  LockInv'
  BY <1>5 DEF Start
<1>6. ASSUME NEW w \in Windows, Exit(w)
      PROVE  LockInv'
  BY <1>6 DEF Exit
<1>7. CASE UNCHANGED vars
  BY <1>7 DEF vars
<1> QED
  BY <1>1, <1>2, <1>3, <1>4, <1>5, <1>6, <1>7, NextCases

\* Store::open, the probe of store::in_use and the end of a process keep the writer
\* lock with the one window that works on the state directory.
THEOREM OneWindowAtATime == Spec => []OneWindow
<1>1. Init => LockInv
  BY ProcessesAssumption DEF Init, LockInv, OneWindow, Procs
<1>2. LockInv => OneWindow
  BY DEF LockInv
<1> QED
  BY <1>1, <1>2, LockStep, TypeCorrect, PTL DEF Spec

-----------------------------------------------------------------------------
(* "handed_off" follows the taking of the request: take_handoff comes      *)
(* before the reply, and the reply before the sender's status.             *)

\* Every step keeps a positive answer behind the taking of its request.
LEMMA TakenStep ==
  ASSUME TypeOK, TakenInv, [Next]_vars
  PROVE  TakenInv'
<1> USE ProcessesAssumption
    DEF TakenInv, HandedOffWasTaken, TypeOK, Procs, Goto, Finish, seen
<1>1. ASSUME NEW p \in Procs, Sender(p)
      PROVE  TakenInv'
  <2>1. Onward(p) \in {"launch_lock", "launch", "reopen"}
    BY OnwardType
  <2>2. CASE Send(p)
    BY <2>2 DEF Send
  <2>3. CASE ConnectFails(p) \/ ProbeTakes(p) \/ ProbeBusy(p) \/ GiveUp(p)
    BY <2>3 DEF ConnectFails, ProbeTakes, ProbeBusy, GiveUp
  <2>4. CASE ProbeReleases(p) \/ RemoveSocket(p)
    BY <2>1, <2>4 DEF ProbeReleases, RemoveSocket
  <2>5. CASE Answered(p)
    BY <2>5 DEF Answered
  <2>6. CASE Unanswered(p)
    BY <2>6 DEF Unanswered
  <2> QED
    BY <1>1, <2>2, <2>3, <2>4, <2>5, <2>6 DEF Sender
<1>2. ASSUME NEW c \in Clis, Invocation(c)
      PROVE  TakenInv'
  <2>1. CASE \E w \in Windows : Launch(c, w)
    BY <2>1 DEF Launch
  <2>2. CASE TakeLaunchLock(c) \/ LaunchFails(c) \/ AwaitDone(c) \/ AwaitTimeout(c)
    BY <2>2 DEF TakeLaunchLock, LaunchFails, AwaitDone, AwaitTimeout
  <2> QED
    BY <1>2, <2>1, <2>2 DEF Invocation
<1>3. ASSUME NEW w \in Windows, Window(w) \/ Start(w)
      PROVE  TakenInv'
  BY <1>3 DEF Window, Start, OpenStore, OpenStoreFails, Unlink, Bind, BindFails, Serve
<1>4. ASSUME NEW w \in Windows, NEW p \in Procs, Accept(w, p)
      PROVE  TakenInv'
  <2>1. ASSUME NEW c \in Clis, conn'[c].stage \in {"taken", "accepted"}
        PROVE  conn[c].stage \in {"taken", "accepted"}
    BY <1>4, <2>1 DEF Accept, Connection
  <2>2. took' = took /\ \A c \in Clis : pc'[c] = "handed_off" => pc[c] = "handed_off"
    BY <1>4 DEF Accept
  <2> QED BY <2>1, <2>2
<1>5. ASSUME NEW w \in Windows, NEW p \in Procs, TakeHandoff(w, p)
      PROVE  TakenInv'
  <2>1. took \subseteq took'
    BY <1>5 DEF TakeHandoff
  <2>2. ASSUME NEW c \in Clis, conn'[c].stage \in {"taken", "accepted"}
        PROVE  \E v \in Windows : <<c, v>> \in took'
    <3>1. CASE c = p
      BY <1>5, <2>2, <3>1 DEF TakeHandoff, Connection
    <3>2. CASE c # p
      BY <1>5, <2>1, <2>2, <3>2 DEF TakeHandoff
    <3> QED BY <3>1, <3>2
  <2> QED BY <1>5, <2>1, <2>2 DEF TakeHandoff
<1>6. ASSUME NEW w \in Windows, NEW p \in Procs, Reply(w, p)
      PROVE  TakenInv'
  <2>1. ASSUME NEW c \in Clis, conn'[c].stage \in {"taken", "accepted"}
        PROVE  conn[c].stage \in {"taken", "accepted"}
    BY <1>6, <2>1 DEF Reply, Connection
  <2>2. took' = took /\ \A c \in Clis : pc'[c] = "handed_off" => pc[c] = "handed_off"
    BY <1>6 DEF Reply
  <2> QED BY <2>1, <2>2
<1>7. ASSUME NEW w \in Windows, Exit(w)
      PROVE  TakenInv'
  <2>1. ASSUME NEW c \in Clis, conn'[c].stage \in {"taken", "accepted"}
        PROVE  conn[c].stage \in {"taken", "accepted"}
    BY <1>7, <2>1 DEF Exit
  <2>2. took' = took /\ \A c \in Clis : pc'[c] = "handed_off" => pc[c] = "handed_off"
    BY <1>7 DEF Exit
  <2> QED BY <2>1, <2>2
<1>8. CASE UNCHANGED vars
  BY <1>8 DEF vars
<1> QED
  BY <1>1, <1>2, <1>3, <1>4, <1>5, <1>6, <1>7, <1>8, NextCases DEF Serving

\* deliver reports HandedOff only for a request some window took.
THEOREM HandedOffIsTaken == Spec => []HandedOffWasTaken
<1>1. Init => TakenInv
  BY ProcessesAssumption DEF Init, TakenInv, HandedOffWasTaken, Procs, NoConn
<1>2. TakenInv => HandedOffWasTaken
  BY DEF TakenInv
<1> QED
  BY <1>1, <1>2, TakenStep, TypeCorrect, PTL DEF Spec

-----------------------------------------------------------------------------
(* An activation token has one place.  Most steps leave the places alone   *)
(* or give one up (TokenFrame); five steps move a token.                   *)

\* A step that moves no token keeps it in one place.
LEMMA TokenFrame ==
  ASSUME TypeOK, TokenInv,
         token' = token, shown' = shown,
         \A p \in Procs : Sent(p)' => Sent(p) /\ conn'[p].token = conn[p].token,
         \A w \in Windows : pc'[w] = "off" => pc[w] = "off"
  PROVE  TokenInv'
<1>1. TokenOnce'
  BY DEF TokenInv, TokenOnce
<1>2. TokenPlaces'
  BY DEF TokenInv, TokenPlaces
<1> QED BY <1>1, <1>2 DEF TokenInv

\* From the sender to its connection.
LEMMA TokenSend ==
  ASSUME TypeOK, TokenInv, NEW p \in Procs, Send(p)
  PROVE  TokenInv'
<1> USE DEF TokenInv, TokenOnce, TokenPlaces
<1>1. /\ shown' = shown
      /\ token' = [token EXCEPT ![p] = None]
      /\ \A w \in Windows : pc'[w] = "off" => pc[w] = "off"
  BY DEF Send, Goto, TypeOK, seen
<1>2. /\ conn'[p].token = token[p]
      /\ \A q \in Procs : q # p => conn'[q] = conn[q]
  BY DEF Send, TypeOK
<1>3. \A q \in Procs : q # p => (Sent(q)' <=> Sent(q))
  BY <1>2 DEF Sent
<1>4. \A q \in Procs : token'[q] # None => q # p /\ token'[q] = token[q]
  BY <1>1 DEF TypeOK
<1>5. \A x \in shown : x[1] # None
  BY ProcessesAssumption DEF TypeOK, Procs
<1>6. \A w \in Windows : w # None
  BY ProcessesAssumption
<1>7. \A x \in shown, q \in Procs : x[1] # token'[q]
  BY <1>1, <1>4, <1>5 DEF TypeOK
<1>8. \A x \in shown, q \in Procs : Sent(q)' => x[1] # conn'[q].token
  BY <1>2, <1>3
<1>9. ASSUME NEW w \in Windows, pc'[w] = "off"
      PROVE  /\ \A q \in Procs : token'[q] # w /\ (Sent(q)' => conn'[q].token # w)
             /\ \A x \in shown' : x[1] # w
  BY <1>1, <1>2, <1>3, <1>4, <1>6, <1>9
<1>10. \A q, r \in Procs : token'[q] # None /\ token'[q] = token'[r] => q = r
  BY <1>4
<1>11. \A q, r \in Procs : Sent(r)' /\ token'[q] # None => token'[q] # conn'[r].token
  BY <1>2, <1>3, <1>4
<1>12. \A q, r \in Procs :
         Sent(q)' /\ Sent(r)' /\ conn'[q].token # None /\ conn'[q].token = conn'[r].token => q = r
  BY <1>2, <1>3
<1> QED
  BY <1>1, <1>7, <1>8, <1>9, <1>10, <1>11, <1>12

\* From the invocation to the process it launches.
LEMMA TokenLaunch ==
  ASSUME TypeOK, TokenInv, NEW c \in Clis, NEW w \in Windows, Launch(c, w)
  PROVE  TokenInv'
<1> USE DEF TokenInv, TokenOnce, TokenPlaces
<1>1. /\ shown' = shown /\ conn' = conn
      /\ \A v \in Windows : pc'[v] = "off" => pc[v] = "off" /\ v # w
  BY ProcessesAssumption DEF Launch, Procs, TypeOK, seen
<1>2. c \in Procs /\ w \in Procs /\ c # w
  BY ProcessesAssumption DEF Procs
<1>3. \A q \in Procs : Sent(q)' <=> Sent(q)
  BY <1>1 DEF Sent
<1>4. /\ token'[w] = token[c] /\ token'[c] = None
      /\ \A q \in Procs : q # c /\ q # w => token'[q] = token[q]
  BY <1>2 DEF Launch, TypeOK
<1>5. \A x \in shown : x[1] # None
  BY ProcessesAssumption DEF TypeOK, Procs
<1>6. \A v \in Windows : v # None
  BY ProcessesAssumption
<1>7. \A x \in shown, q \in Procs : x[1] # token'[q]
  BY <1>2, <1>4, <1>5
<1>8. \A q, r \in Procs : token'[q] # None /\ token'[q] = token'[r] => q = r
  BY <1>2, <1>4
<1>9. \A q, r \in Procs : Sent(r)' /\ token'[q] # None => token'[q] # conn'[r].token
  BY <1>1, <1>2, <1>3, <1>4
<1>10. ASSUME NEW v \in Windows, pc'[v] = "off"
       PROVE  \A q \in Procs : token'[q] # v /\ (Sent(q)' => conn'[q].token # v)
  BY <1>1, <1>2, <1>3, <1>4, <1>6, <1>10
<1> QED
  BY <1>1, <1>3, <1>7, <1>8, <1>9, <1>10

\* A window process the reader starts brings a token of its own.
LEMMA TokenStart ==
  ASSUME TypeOK, TokenInv, NEW w \in Windows, Start(w)
  PROVE  TokenInv'
<1> USE DEF TokenInv, TokenOnce, TokenPlaces
<1>1. /\ shown' = shown /\ conn' = conn /\ pc[w] = "off"
      /\ \A v \in Windows : pc'[v] = "off" => pc[v] = "off" /\ v # w
  BY ProcessesAssumption DEF Start, Goto, Procs, TypeOK, seen
<1>2. /\ w \in Procs /\ token'[w] = w
      /\ \A q \in Procs : q # w => token'[q] = token[q]
  BY DEF Start, Procs, TypeOK
<1>3. \A q \in Procs : Sent(q)' <=> Sent(q)
  BY <1>1 DEF Sent
<1>4. \A x \in shown, q \in Procs : x[1] # token'[q]
  BY <1>1, <1>2
<1>5. \A q, r \in Procs : token'[q] # None /\ token'[q] = token'[r] => q = r
  BY <1>1, <1>2
<1>6. \A q, r \in Procs : Sent(r)' /\ token'[q] # None => token'[q] # conn'[r].token
  BY <1>1, <1>2, <1>3
<1>7. ASSUME NEW v \in Windows, pc'[v] = "off"
      PROVE  \A q \in Procs : token'[q] # v /\ (Sent(q)' => conn'[q].token # v)
  BY <1>1, <1>2, <1>3, <1>7
<1> QED
  BY <1>1, <1>3, <1>4, <1>5, <1>6, <1>7

\* From the process to its own window.
LEMMA TokenServe ==
  ASSUME TypeOK, TokenInv, NEW w \in Windows, Serve(w), pc[w] = "bind2"
  PROVE  TokenInv'
<1> USE DEF TokenInv, TokenOnce, TokenPlaces
<1>1. /\ conn' = conn /\ w \in Procs
      /\ \A v \in Windows : pc'[v] = "off" => pc[v] = "off"
      /\ token' = [token EXCEPT ![w] = None]
      /\ \A x \in shown' : x \in shown \/ (x = <<token[w], w>> /\ token[w] # None)
  BY DEF Serve, Goto, Procs, TypeOK
<1>2. \A q \in Procs : Sent(q)' <=> Sent(q)
  BY <1>1 DEF Sent
<1>3. \A q \in Procs : token'[q] # None => q # w /\ token'[q] = token[q]
  BY <1>1 DEF TypeOK
<1>4. \A x \in shown' : x[1] # None
  BY <1>1, ProcessesAssumption DEF TypeOK, Procs
<1>5. \A x, y \in shown' : x[1] = y[1] => x = y
  BY <1>1
<1>6. \A x \in shown', q \in Procs : x[1] # token'[q]
  BY <1>1, <1>3, <1>4
<1>7. \A x \in shown', q \in Procs : Sent(q)' => x[1] # conn'[q].token
  BY <1>1, <1>2
<1>8. \A q, r \in Procs : token'[q] # None /\ token'[q] = token'[r] => q = r
  BY <1>3
<1>9. \A q, r \in Procs : Sent(r)' /\ token'[q] # None => token'[q] # conn'[r].token
  BY <1>1, <1>2, <1>3
<1>10. \A v \in Windows : v # None
  BY ProcessesAssumption
<1>11. ASSUME NEW v \in Windows, pc'[v] = "off"
       PROVE  /\ \A q \in Procs : token'[q] # v /\ (Sent(q)' => conn'[q].token # v)
              /\ \A x \in shown' : x[1] # v
  BY <1>1, <1>2, <1>3, <1>10, <1>11
<1> QED
  BY <1>1, <1>2, <1>5, <1>6, <1>7, <1>8, <1>9, <1>11

\* From the connection to the window that reads it.
LEMMA TokenTake ==
  ASSUME TypeOK, TokenInv, NEW w \in Windows, NEW p \in Procs, TakeHandoff(w, p)
  PROVE  TokenInv'
<1> USE DEF TokenInv, TokenOnce, TokenPlaces
<1>1. /\ token' = token /\ pc' = pc
      /\ \A x \in shown' : x \in shown \/ (x = <<conn[p].token, w>> /\ conn[p].token # None)
  BY DEF TakeHandoff
<1>2. \A q \in Procs : Sent(q)' => Sent(q) /\ conn'[q].token = conn[q].token /\ q # p
  BY DEF TakeHandoff, Sent, TypeOK, Connection
<1>3. Sent(p)
  BY DEF TakeHandoff, Sent
<1>4. \A x, y \in shown' : x[1] = y[1] => x = y
  BY <1>1, <1>3
<1>5. \A x \in shown', q \in Procs : x[1] # token'[q]
  BY <1>1, <1>3
<1>6. \A x \in shown', q \in Procs : Sent(q)' => x[1] # conn'[q].token
  BY <1>1, <1>2, <1>3
<1>7. ASSUME NEW v \in Windows, pc'[v] = "off"
      PROVE  /\ \A q \in Procs : token'[q] # v /\ (Sent(q)' => conn'[q].token # v)
             /\ \A x \in shown' : x[1] # v
  BY <1>1, <1>2, <1>3, <1>7
<1> QED
  BY <1>1, <1>2, <1>4, <1>5, <1>6, <1>7

\* Every step keeps each token in one place.
LEMMA TokenStep ==
  ASSUME TypeOK, TokenInv, [Next]_vars
  PROVE  TokenInv'
<1> USE DEF Procs, Goto, Finish, seen
<1>1. ASSUME NEW p \in Procs, Sender(p)
      PROVE  TokenInv'
  <2>1. CASE Send(p)
    BY <2>1, TokenSend
  <2>2. CASE ~Send(p)
    <3>1. token' = token /\ shown' = shown /\ conn' = conn
      BY <1>1, <2>2 DEF Sender, ConnectFails, ProbeTakes, ProbeBusy, GiveUp, ProbeReleases,
                        RemoveSocket, Answered, Unanswered
    <3>2. \A w \in Windows : pc'[w] = "off" => pc[w] = "off"
      BY <1>1, <2>2, OnwardType
         DEF Sender, ConnectFails, ProbeTakes, ProbeBusy, GiveUp, ProbeReleases,
             RemoveSocket, Answered, Unanswered, TypeOK
    <3>3. \A q \in Procs : Sent(q)' => Sent(q) /\ conn'[q].token = conn[q].token
      BY <3>1 DEF Sent
    <3> QED BY <3>1, <3>2, <3>3, TokenFrame
  <2> QED BY <2>1, <2>2
<1>2. ASSUME NEW c \in Clis, Invocation(c)
      PROVE  TokenInv'
  <2>1. CASE \E w \in Windows : Launch(c, w)
    BY <2>1, TokenLaunch
  <2>2. CASE TakeLaunchLock(c) \/ LaunchFails(c) \/ AwaitDone(c) \/ AwaitTimeout(c)
    <3>1. token' = token /\ shown' = shown /\ conn' = conn
      BY <2>2 DEF TakeLaunchLock, LaunchFails, AwaitDone, AwaitTimeout
    <3>2. \A w \in Windows : pc'[w] = "off" => pc[w] = "off"
      BY <2>2 DEF TakeLaunchLock, LaunchFails, AwaitDone, AwaitTimeout, TypeOK
    <3>3. \A q \in Procs : Sent(q)' => Sent(q) /\ conn'[q].token = conn[q].token
      BY <3>1 DEF Sent
    <3> QED BY <3>1, <3>2, <3>3, TokenFrame
  <2> QED
    BY <1>2, <2>1, <2>2 DEF Invocation
<1>3. ASSUME NEW w \in Windows, Window(w)
      PROVE  TokenInv'
  <2>1. CASE Bind(w) \/ BindFails(w)
    BY <2>1, TokenServe DEF Bind, BindFails
  <2>2. CASE OpenStore(w) \/ OpenStoreFails(w) \/ Unlink(w)
    <3>1. token' = token /\ shown' = shown /\ conn' = conn
      BY <2>2 DEF OpenStore, OpenStoreFails, Unlink
    <3>2. \A v \in Windows : pc'[v] = "off" => pc[v] = "off"
      BY <2>2 DEF OpenStore, OpenStoreFails, Unlink, TypeOK
    <3>3. \A q \in Procs : Sent(q)' => Sent(q) /\ conn'[q].token = conn[q].token
      BY <3>1 DEF Sent
    <3> QED BY <3>1, <3>2, <3>3, TokenFrame
  <2> QED
    BY <1>3, <2>1, <2>2 DEF Window
<1>4. ASSUME NEW w \in Windows, NEW p \in Procs, Accept(w, p) \/ Reply(w, p)
      PROVE  TokenInv'
  <2>1. token' = token /\ shown' = shown /\ pc' = pc
    BY <1>4 DEF Accept, Reply
  <2>2. \A q \in Procs : Sent(q)' => Sent(q) /\ conn'[q].token = conn[q].token
    BY <1>4 DEF Accept, Reply, Sent, TypeOK, Connection
  <2> QED BY <2>1, <2>2, TokenFrame
<1>5. ASSUME NEW w \in Windows, Exit(w)
      PROVE  TokenInv'
  <2>1. token' = token /\ shown' = shown
    BY <1>5 DEF Exit
  <2>2. \A q \in Procs : Sent(q)' => Sent(q) /\ conn'[q].token = conn[q].token
    BY <1>5 DEF Exit, Sent, TypeOK, Connection
  <2>3. \A v \in Windows : pc'[v] = "off" => pc[v] = "off"
    BY <1>5 DEF Exit, TypeOK
  <2> QED BY <2>1, <2>2, <2>3, TokenFrame
<1>6. CASE UNCHANGED vars
  BY <1>6, TokenFrame DEF vars, Sent
<1> QED
  BY <1>1, <1>2, <1>3, <1>4, <1>5, <1>6, NextCases, TokenTake, TokenStart DEF Serving

\* Whatever answers are lost and whoever launches, sends twice or hands over, an
\* activation token is received by at most one window.
THEOREM TokenAtMostOnce == Spec => []TokenOnce
<1>1. Init => TokenInv
  BY ProcessesAssumption DEF Init, TokenInv, TokenOnce, TokenPlaces, Procs, NoConn, Sent
<1>2. TokenInv => TokenOnce
  BY DEF TokenInv
<1> QED
  BY <1>1, <1>2, TokenStep, TypeCorrect, PTL DEF Spec

-----------------------------------------------------------------------------
(* deliver launches at most one window.  The launch lock keeps the second  *)
(* sends apart, and the writer lock, which the probe of a second send      *)
(* found free, says that no window serves (LockInv); so whoever comes to   *)
(* the launch does it while nothing was launched.                          *)

\* A step that starts no window, ends no wait and moves no invocation forward keeps
\* what is known of the launches.
LEMMA LaunchFrame ==
  ASSUME TypeOK, LaunchInv,
         launched' = launched, mishap' = mishap, round' = round, launchLock' = launchLock,
         listening' \subseteq listening,
         \A c \in Clis :
           /\ pc'[c] \in {"unprobe", "unsettle", "remove", "launch"} =>
                pc[c] \in {"unprobe", "unsettle", "remove", "launch"}
           /\ pc'[c] = "launch" => round[c] = "second"
           /\ pc'[c] = "await" <=> pc[c] = "await"
           /\ pc'[c] \notin Ended => pc[c] \notin Ended,
         \A w \in Windows : pc[w] = "serving" => pc'[w] = "serving"
  PROVE  LaunchInv'
<1> USE DEF LaunchInv, TypeOK
<1>1. OneLaunch'
  BY DEF OneLaunch
<1>2. \A w \in listening' : pc'[w] = "serving"
  OBVIOUS
<1>3. \A c \in Clis :
        /\ pc'[c] \in {"launch", "await"} => round'[c] = "second"
        /\ round'[c] = "second" /\ pc'[c] \notin Ended => launchLock' = c
  OBVIOUS
<1>4. ~mishap' /\ launched' # {} =>
        (\E c \in Clis : pc'[c] = "await") \/ (\E w \in Windows : pc'[w] = "serving")
  OBVIOUS
<1>5. ~mishap' => \A c \in Clis :
        round'[c] = "second" /\ pc'[c] \in {"unprobe", "unsettle", "remove", "launch"}
          => launched' = {}
  OBVIOUS
<1> QED BY <1>1, <1>2, <1>3, <1>4, <1>5

\* A process that is not waiting ends, and gives the launch lock back.
LEMMA LaunchFinish ==
  ASSUME TypeOK, LaunchInv, NEW p \in Procs, NEW label \in Ended,
         Finish(p, label), pc[p] \notin {"await", "serving"},
         UNCHANGED <<round, launched, mishap, listening>>
  PROVE  LaunchInv'
<1> USE ProcessesAssumption DEF LaunchInv, TypeOK, Finish, Goto, Ended, Procs
<1>1. OneLaunch'
  BY DEF OneLaunch
<1>2. \A w \in listening' : pc'[w] = "serving"
  OBVIOUS
<1>3. \A c \in Clis :
        /\ pc'[c] \in {"launch", "await"} => round'[c] = "second"
        /\ round'[c] = "second" /\ pc'[c] \notin Ended => launchLock' = c
  OBVIOUS
<1>4. ~mishap' /\ launched' # {} =>
        (\E c \in Clis : pc'[c] = "await") \/ (\E w \in Windows : pc'[w] = "serving")
  OBVIOUS
<1>5. ~mishap' => \A c \in Clis :
        round'[c] = "second" /\ pc'[c] \in {"unprobe", "unsettle", "remove", "launch"}
          => launched' = {}
  OBVIOUS
<1> QED BY <1>1, <1>2, <1>3, <1>4, <1>5

\* The second send that finds the writer lock free: no window serves and, because
\* this invocation has the launch lock, none is waited for.
LEMMA LaunchProbe ==
  ASSUME TypeOK, LockInv, LaunchInv, NEW p \in Procs, ProbeTakes(p)
  PROVE  LaunchInv'
<1> USE ProcessesAssumption DEF LaunchInv, TypeOK, ProbeTakes, Goto, Procs, windows
<1>1. OneLaunch'
  BY DEF OneLaunch
<1>2. \A w \in listening' : pc'[w] = "serving"
  OBVIOUS
<1>3. \A c \in Clis :
        /\ pc'[c] \in {"launch", "await"} => round'[c] = "second"
        /\ round'[c] = "second" /\ pc'[c] \notin Ended => launchLock' = c
  BY DEF Ended
<1>4. ~mishap' /\ launched' # {} =>
        (\E c \in Clis : pc'[c] = "await") \/ (\E w \in Windows : pc'[w] = "serving")
  OBVIOUS
<1>5. \A w \in Windows : pc[w] # "serving"
  BY DEF LockInv, OneWindow
<1>6. ASSUME p \in Clis, round[p] = "second", ~mishap
      PROVE  launched = {}
  <2>1. \A c \in Clis : pc[c] = "await" => c = p
    BY <1>6 DEF Ended
  <2> QED BY <1>5, <1>6, <2>1
<1>7. ~mishap' => \A c \in Clis :
        round'[c] = "second" /\ pc'[c] \in {"unprobe", "unsettle", "remove", "launch"}
          => launched' = {}
  BY <1>6
<1> QED BY <1>1, <1>2, <1>3, <1>4, <1>7

\* The launch itself is the first one.
LEMMA LaunchFirst ==
  ASSUME TypeOK, LaunchInv, NEW c \in Clis, NEW w \in Windows, Launch(c, w)
  PROVE  LaunchInv'
<1> USE ProcessesAssumption DEF LaunchInv, TypeOK, Launch, Procs, files
<1>1. /\ pc[c] = "launch" /\ pc[w] = "off" /\ c # w
      /\ pc'[c] = "await" /\ pc'[w] = "open"
      /\ \A p \in Procs : p # c /\ p # w => pc'[p] = pc[p]
      /\ UNCHANGED <<round, launchLock, mishap, listening>>
  OBVIOUS
<1>2. ~mishap => launched' = {w}
  BY <1>1
<1>3. OneLaunch'
  <2>1. Cardinality({w}) =< 1
    <3>1. Cardinality({w}) = 1
      BY FS_Singleton, Zenon
    <3> QED BY <3>1
  <2>2. ~mishap' => launched' = {w}
    BY <1>1, <1>2
  <2> HIDE DEF LaunchInv, TypeOK, Launch
  <2>3. ~mishap' => Cardinality(launched') =< 1
    BY <2>1, <2>2
  <2> QED BY <2>3 DEF OneLaunch
<1>4. \A v \in listening' : pc'[v] = "serving"
  BY <1>1
<1>5. \A d \in Clis :
        /\ pc'[d] \in {"launch", "await"} => round'[d] = "second"
        /\ round'[d] = "second" /\ pc'[d] \notin Ended => launchLock' = d
  BY <1>1 DEF Ended
<1>6. \A d \in Clis : round[d] = "second" /\ pc[d] \in {"unprobe", "unsettle", "remove", "launch"}
        => d = c
  BY <1>1 DEF Ended
<1>7. ~mishap' => \A d \in Clis :
        round'[d] = "second" /\ pc'[d] \in {"unprobe", "unsettle", "remove", "launch"}
          => launched' = {}
  BY <1>1, <1>6
<1> QED BY <1>1, <1>3, <1>4, <1>5, <1>7

\* The wait ends because a window serves, or with a mishap.
LEMMA LaunchAwaited ==
  ASSUME TypeOK, LaunchInv, NEW c \in Clis, AwaitDone(c) \/ AwaitTimeout(c)
  PROVE  LaunchInv'
<1> USE ProcessesAssumption DEF LaunchInv, TypeOK, AwaitDone, AwaitTimeout, Finish, Goto, Procs,
        files, windows
<1>1. UNCHANGED <<round, launched, listening>> /\ (~mishap' => ~mishap)
  OBVIOUS
<1>2. OneLaunch'
  BY <1>1 DEF OneLaunch
<1>3. \A v \in listening' : pc'[v] = "serving"
  BY <1>1
<1>4. \A d \in Clis :
        /\ pc'[d] \in {"launch", "await"} => round'[d] = "second"
        /\ round'[d] = "second" /\ pc'[d] \notin Ended => launchLock' = d
  BY <1>1 DEF Ended
<1>5. ~mishap' => \E w \in Windows : pc'[w] = "serving"
  BY <1>1 DEF Live
<1>6. ~mishap' => \A d \in Clis :
        round'[d] = "second" /\ pc'[d] \in {"unprobe", "unsettle", "remove", "launch"}
          => launched' = {}
  BY <1>1
<1> QED BY <1>2, <1>3, <1>4, <1>5, <1>6

\* Every step keeps what is known of the launches.
LEMMA LaunchStep ==
  ASSUME TypeOK, LockInv, LaunchInv, [Next]_vars
  PROVE  LaunchInv'
<1> USE ProcessesAssumption DEF TypeOK, Procs, Goto, files, windows
<1>1. ASSUME NEW p \in Procs, Sender(p)
      PROVE  LaunchInv'
  <2>1. ASSUME pc[p] \in {"connect", "probe", "ack"}, NEW label \in {"ack", "probe", "connect", "settle"},
               pc' = [pc EXCEPT ![p] = label],
               UNCHANGED <<launched, mishap, round, launchLock, listening>>
        PROVE  LaunchInv'
    <3>1. pc'[p] = label /\ \A q \in Procs : q # p => pc'[q] = pc[q]
      BY <2>1
    <3> HIDE DEF TypeOK
    <3> QED BY <2>1, <3>1, LaunchFrame DEF Ended, LaunchInv
  <2>7. CASE Send(p)
    BY <2>7, <2>1 DEF Send
  <2>8. CASE ConnectFails(p)
    BY <2>8, <2>1 DEF ConnectFails
  <2>9. CASE ProbeBusy(p)
    BY <2>9, <2>1 DEF ProbeBusy
  <2>2. CASE ProbeTakes(p)
    BY <2>2, LaunchProbe
  <2>3. CASE GiveUp(p)
    <3>1. Finish(p, "failed") /\ pc[p] \in {"probe", "settle"}
          /\ UNCHANGED <<round, launched, mishap, listening>>
      BY <2>3 DEF GiveUp
    <3> QED BY <3>1, LaunchFinish DEF Ended
  <2>4. CASE ProbeReleases(p) \/ RemoveSocket(p)
    <3>1. /\ UNCHANGED <<launched, mishap, round, launchLock, listening>>
          /\ pc[p] \in {"unprobe", "unsettle", "remove"}
          /\ pc'[p] \in {"remove", Onward(p)}
          /\ \A q \in Procs : q # p => pc'[q] = pc[q]
      BY <2>4 DEF ProbeReleases, RemoveSocket
    <3>2. Onward(p) \in {"launch_lock", "launch", "reopen"}
          /\ (Onward(p) = "launch" => round[p] = "second")
      BY DEF Onward
    <3> QED BY <3>1, <3>2, LaunchFrame DEF Ended, LaunchInv
  <2>5. CASE Answered(p)
    <3>1. PICK label \in Ended : Finish(p, label)
      BY <2>5 DEF Answered, Ended
    <3> QED BY <2>5, <3>1, LaunchFinish DEF Answered
  <2>6. CASE Unanswered(p)
    <3>1. CASE p \in Clis
      BY <2>6, <3>1, <2>1 DEF Unanswered
    <3>2. CASE p \notin Clis
      BY <2>6, <3>2, LaunchFinish DEF Unanswered, Ended
    <3> QED BY <3>1, <3>2
  <2> QED
    BY <1>1, <2>7, <2>8, <2>9, <2>2, <2>3, <2>4, <2>5, <2>6 DEF Sender
<1>2. ASSUME NEW c \in Clis, Invocation(c)
      PROVE  LaunchInv'
  <2>1. CASE TakeLaunchLock(c)
    <3> USE DEF LaunchInv, TakeLaunchLock
    <3>1. /\ UNCHANGED <<launched, mishap, listening>>
          /\ pc[c] = "launch_lock" /\ launchLock = None
          /\ pc'[c] = "connect" /\ launchLock' = c /\ round'[c] = "second"
          /\ \A p \in Procs : p # c => pc'[p] = pc[p] /\ round'[p] = round[p]
      BY <2>1
    <3>2. OneLaunch'
      BY <3>1 DEF OneLaunch
    <3>3. \A d \in Clis :
            /\ pc'[d] \in {"launch", "await"} => round'[d] = "second"
            /\ round'[d] = "second" /\ pc'[d] \notin Ended => launchLock' = d
      BY <3>1
    <3>4. ~mishap' /\ launched' # {} =>
            (\E d \in Clis : pc'[d] = "await") \/ (\E w \in Windows : pc'[w] = "serving")
      BY <3>1
    <3>5. ~mishap' => \A d \in Clis :
            round'[d] = "second" /\ pc'[d] \in {"unprobe", "unsettle", "remove", "launch"}
              => launched' = {}
      BY <3>1
    <3> QED BY <3>1, <3>2, <3>3, <3>4, <3>5
  <2>2. CASE LaunchFails(c)
    BY <2>2, LaunchFinish DEF LaunchFails, Ended
  <2>3. CASE AwaitDone(c) \/ AwaitTimeout(c)
    BY <2>3, LaunchAwaited
  <2> QED
    BY <1>2, <2>1, <2>2, <2>3, LaunchFirst DEF Invocation
<1>3. ASSUME NEW w \in Windows, Window(w) \/ Start(w)
      PROVE  LaunchInv'
  <2>1. CASE OpenStore(w) \/ OpenStoreFails(w) \/ Unlink(w) \/ BindFails(w) \/ Start(w)
    BY <2>1, LaunchFrame
       DEF OpenStore, OpenStoreFails, Unlink, BindFails, Serve, Start, Ended, LaunchInv
  <2>2. CASE Bind(w)
    <3> USE DEF LaunchInv
    <3>1. /\ UNCHANGED <<launched, mishap, round, launchLock>>
          /\ pc'[w] = "serving" /\ listening' = listening \cup {w}
          /\ \A p \in Procs : p # w => pc'[p] = pc[p]
      BY <2>2 DEF Bind, Serve
    <3>2. OneLaunch'
      BY <3>1 DEF OneLaunch
    <3> QED BY <3>1, <3>2
  <2> QED
    BY <1>3, <2>1, <2>2 DEF Window
<1>4. ASSUME NEW w \in Windows, Serving(w)
      PROVE  LaunchInv'
  <2>1. UNCHANGED <<pc, round, launchLock, launched, mishap, listening>>
    BY <1>4 DEF Serving, Accept, TakeHandoff, Reply
  <2> QED BY <2>1, LaunchFrame DEF LaunchInv
<1>5. ASSUME NEW w \in Windows, Exit(w)
      PROVE  LaunchInv'
  <2> USE DEF LaunchInv
  <2>1. /\ mishap' = TRUE /\ UNCHANGED <<launched, round, launchLock>>
        /\ pc'[w] = "gone" /\ listening' = listening \ {w}
        /\ \A p \in Procs : p # w => pc'[p] = pc[p]
    BY <1>5 DEF Exit
  <2>2. OneLaunch'
    BY <2>1 DEF OneLaunch
  <2> QED BY <2>1, <2>2
<1>6. CASE UNCHANGED vars
  BY <1>6, LaunchFrame DEF vars, LaunchInv
<1> QED
  BY <1>1, <1>2, <1>3, <1>4, <1>5, <1>6, NextCases

\* As long as no window ended and nobody stopped waiting for one, the invocations
\* that found none running started at most one between them, however many they are.
THEOREM AtMostOneLaunch == Spec => []OneLaunch
<1>1. Init => LaunchInv
  BY ProcessesAssumption, FS_EmptySet DEF Init, LaunchInv, OneLaunch, Procs, Ended
<1>2. Init => LockInv
  BY ProcessesAssumption DEF Init, LockInv, OneWindow, Procs
<1>3. LaunchInv => OneLaunch
  BY DEF LaunchInv
<1> QED
  BY <1>1, <1>2, <1>3, LaunchStep, LockStep, TypeCorrect, PTL DEF Spec
=============================================================================
