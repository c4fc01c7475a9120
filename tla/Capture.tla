------------------------------ MODULE Capture ------------------------------
(* Reading a change from a service as one snapshot.                        *)
(*                                                                         *)
(* GithubReader, GitlabReader and EntireReader answer `open` with many     *)
(* requests while the change, its repository and the signed-in account may *)
(* move. A request names commits (it is pinned) or reads what the service  *)
(* has now. A capture is a sequence of stages, each a set of requests made *)
(* by scoped threads and joined together; what it ends with is decided     *)
(* from two readings of the change, of its identity and of the account.    *)
EXTENDS Naturals, Sequences, FiniteSets

CONSTANTS Commits,       \* commits the base and the head may be
          Accounts,      \* logins of the service's command line
          MaxMoves,      \* bound on changes made on the service during a capture
          MaxLost,       \* bound on requests lost in an attempt
          MaxAttempts    \* the `for _ in 0..3` of GitHub and Entire

ASSUME CaptureAssumption ==
  /\ IsFiniteSet(Commits) /\ Commits # {}
  /\ IsFiniteSet(Accounts) /\ Accounts # {}
  /\ MaxMoves \in Nat /\ MaxLost \in Nat /\ MaxAttempts \in Nat \ {0}

VARIABLES
  kind,      \* which reader captures
  now,       \* the change on the service
  login,     \* the account of the command line
  moves,     \* changes made so far
  attempt,   \* round of the loop
  got,       \* request -> what its answer shows, and the login it was made with
  lost,      \* requests that failed
  left,      \* versions the change had and lost again during this attempt
  back,      \* those of them it has had again since
  leftLogin, \* logins the reader switched away from
  backLogin, \* those of them that were switched back to
  result     \* "running", "ok" or "error"

captureVars == <<kind, now, login, moves, attempt, got, lost, left, back, leftLogin, backLogin, result>>

\* What metadata shows of a change: its two tips and the repository it is in.
Version == [base : Commits, head : Commits, repo : {"here", "elsewhere"}]

Kinds == {"github", "gitlab", "entire", "githubCompare", "gitlabCompare"}

-----------------------------------------------------------------------------
(* The requests of each reader.                                            *)

\* GithubReader::snapshot: the account beside the first metadata, then the
\* threads of one attempt (a file list takes several pages), then both again.
GithubStages ==
  << {"account", "before"},
     {"compare", "files1", "files2", "raw", "threads", "overview"},
     {"after", "still"} >>

\* GitlabReader::snapshot asks one thing after the other.
GitlabStages ==
  << {"before"}, {"account"}, {"raw"}, {"files1"}, {"threads"},
     {"overview"}, {"after"}, {"still"} >>

\* EntireReader::snapshot: login and directory once, then each attempt.
EntireStages ==
  << {"account"}, {"place"}, {"before"}, {"files1"}, {"raw"}, {"overview"},
     {"after"}, {"placeAgain"}, {"still"} >>

\* GithubReader::compare resolves both refs in one answer and pins the diff.
GithubCompareStages == << {"place", "before"}, {"raw"} >>

\* GitlabReader::compare resolves each ref by itself, then pins.
GitlabCompareStages == << {"place", "from", "before"}, {"raw", "compare"} >>

Stages ==
  [github |-> GithubStages, gitlab |-> GitlabStages, entire |-> EntireStages,
   githubCompare |-> GithubCompareStages, gitlabCompare |-> GitlabCompareStages]

Requests == UNION {UNION {Stages[k][i] : i \in DOMAIN Stages[k]} : k \in Kinds}

\* Requests whose endpoint names the commits that were read before.
Pinned ==
  [github |-> {"compare"}, gitlab |-> {}, entire |-> {"files1", "raw", "overview"},
   githubCompare |-> {"raw"}, gitlabCompare |-> {"raw", "compare"}]

\* Requests whose failure leaves a notice: checks, conversation, approvals,
\* pipelines and sessions.
Optional == {"overview"}

\* What a new attempt keeps of the one before.
Kept ==
  [github |-> {"account"}, gitlab |-> {}, entire |-> {"account", "place"},
   githubCompare |-> {}, gitlabCompare |-> {}]

\* What an answered request showed.
Seen(r) == got[r].seen

\* The commits later requests are pinned to.
Pins ==
  [base |-> IF kind = "gitlabCompare" THEN Seen("from").base ELSE Seen("before").base,
   head |-> Seen("before").head]

Tips(v) == [base |-> v.base, head |-> v.head]

\* The answer to request r.
Answer(r) ==
  CASE r \in {"account", "still"} -> login
    [] r \in Pinned[kind]         -> Pins
    [] OTHER                      -> now

Settled == DOMAIN got \cup lost

\* The first i stages have been joined: every request of theirs is answered or lost.
Joined(i) == \A j \in 1 .. i : Stages[kind][j] \subseteq Settled

\* A lost second account only counts for GitHub once the metadata agrees.
LateChecked == [k \in Kinds |-> IF k = "github" THEN {"still"} ELSE {}]

\* A failed thread is noticed when its stage is joined.
Failed ==
  \E i \in DOMAIN Stages[kind] :
    /\ Joined(i)
    /\ (lost \cap Stages[kind][i]) \ (Optional \cup LateChecked[kind]) # {}

Done == Joined(Len(Stages[kind]))

-----------------------------------------------------------------------------
(* What a capture ends with.                                               *)

\* GitHub: base, head and repository of the second metadata.
GithubMoved == Seen("before") # Seen("after")

\* GitHub: the second account, read beside it.
GithubRefuses == "still" \in lost \/ Seen("still") # Seen("account")

\* GitLab: the whole target, account included, must be the same.
GitlabRefuses == Seen("before") # Seen("after") \/ Seen("still") # Seen("account")

\* Entire: the pins of the second metadata.
EntireMoved == "after" \in DOMAIN got /\ Tips(Seen("before")) # Tips(Seen("after"))

\* Entire: repository, selected Change and acting account read again.
EntireRefuses ==
  Seen("place").repo # Seen("placeAgain").repo \/ Seen("still") # Seen("account")

\* A compare of a repository that moved is refused; nothing else is read twice.
CompareRefuses == kind = "githubCompare" /\ Seen("place").repo = "elsewhere"

\* Leaving the body of the loop: the change moved, take another round.
Moved ==
  \/ kind = "github" /\ Done /\ GithubMoved
  \/ kind = "entire" /\ EntireMoved

Refused ==
  CASE kind = "github" -> GithubRefuses
    [] kind = "gitlab" -> GitlabRefuses
    [] kind = "entire" -> EntireRefuses
    [] OTHER           -> CompareRefuses

-----------------------------------------------------------------------------
CaptureInit ==
  /\ kind \in Kinds
  /\ now \in {v \in Version : v.base # v.head /\ v.repo = "here"}
  /\ login \in Accounts
  /\ moves = 0 /\ attempt = 1
  /\ got = <<>> /\ lost = {}
  /\ left = {} /\ back = {} /\ leftLogin = {} /\ backLogin = {}
  /\ result = "running"

\* A request that can be made now: in its stage, pages in order.
Due(r) ==
  /\ result = "running" /\ ~Failed /\ ~Moved
  /\ \E i \in DOMAIN Stages[kind] : Joined(i - 1) /\ r \in Stages[kind][i] \ Settled
  /\ r = "files2" => "files1" \in Settled

\* A request answered.
Read(r) ==
  /\ Due(r)
  /\ got' = [x \in DOMAIN got \cup {r} |-> IF x = r THEN [seen |-> Answer(r), as |-> login] ELSE got[x]]
  /\ UNCHANGED <<kind, now, login, moves, attempt, lost, left, back, leftLogin, backLogin, result>>

\* A request that fails: an error of the transport, a status, a deadline, a
\* cancelled load, a limit of pages or bytes.
Lose(r) ==
  /\ Due(r)
  /\ Cardinality(lost) < MaxLost
  /\ lost' = lost \cup {r}
  /\ UNCHANGED <<kind, now, login, moves, attempt, got, left, back, leftLogin, backLogin, result>>

\* The `?` of a joined request.
Abort ==
  /\ result = "running" /\ Failed
  /\ result' = "error"
  /\ UNCHANGED <<kind, now, login, moves, attempt, got, lost, left, back, leftLogin, backLogin>>

\* GitLab compares the raw diff with the file list and refuses what is cut or
\* disagrees, which two versions may.
RefuseDiff ==
  /\ result = "running" /\ kind = "gitlab" /\ ~Failed
  /\ Joined(4) /\ "threads" \notin Settled
  /\ result' = "error"
  /\ UNCHANGED <<kind, now, login, moves, attempt, got, lost, left, back, leftLogin, backLogin>>

\* `continue`: another round, or the error after the last.
Retry ==
  /\ result = "running" /\ ~Failed /\ Moved
  /\ IF attempt < MaxAttempts
       THEN /\ attempt' = attempt + 1
            /\ got' = [x \in DOMAIN got \cap Kept[kind] |-> got[x]]
            /\ lost' = {} /\ left' = {} /\ back' = {}
            /\ UNCHANGED result
       ELSE /\ result' = "error"
            /\ UNCHANGED <<attempt, got, lost, left, back>>
  /\ UNCHANGED <<kind, now, login, moves, leftLogin, backLogin>>

\* Mutant: a second reading that differs is not refused.
FinishUnrefused ==
  /\ result = "running" /\ ~Failed /\ ~Moved /\ Done
  /\ result' = "ok"
  /\ UNCHANGED <<kind, now, login, moves, attempt, got, lost, left, back, leftLogin, backLogin>>

\* The snapshot, or the refusal of one whose identity changed.
Finish ==
  /\ result = "running" /\ ~Failed /\ ~Moved /\ Done
  /\ result' = IF Refused THEN "error" ELSE "ok"
  /\ UNCHANGED <<kind, now, login, moves, attempt, got, lost, left, back, leftLogin, backLogin>>

\* Somebody pushes, rebases, retargets, or renames the repository.
RemoteMoves ==
  /\ result = "running" /\ moves < MaxMoves
  /\ \E f \in DOMAIN now : \E v \in Version :
       /\ v # now /\ \A g \in DOMAIN now \ {f} : v[g] = now[g]
       /\ now' = v
  /\ left' = left \cup {now} /\ back' = back \cup ({now'} \cap left)
  /\ moves' = moves + 1
  /\ UNCHANGED <<kind, login, attempt, got, lost, leftLogin, backLogin, result>>

\* The reader signs in with another account in a terminal.
AccountSwitches ==
  /\ result = "running" /\ moves < MaxMoves
  /\ login' \in Accounts \ {login}
  /\ leftLogin' = leftLogin \cup {login} /\ backLogin' = backLogin \cup ({login'} \cap leftLogin)
  /\ moves' = moves + 1
  /\ UNCHANGED <<kind, now, attempt, got, lost, left, back, result>>

CaptureNext ==
  \/ \E r \in Requests : Read(r) \/ Lose(r)
  \/ Abort \/ RefuseDiff \/ Retry \/ Finish
  \/ RemoteMoves \/ AccountSwitches

CaptureSpec == CaptureInit /\ [][CaptureNext]_captureVars

-----------------------------------------------------------------------------
\* Requests a snapshot takes its files and lines from.
Content == {"compare", "files1", "files2", "raw"}

\* A returned snapshot shows one version of its change: the patch and the file
\* list are of the very commits it names, and they were read with the account
\* it names, although pushes, rebases, renames and sign-ins come between the
\* requests of any reader. Where the service cannot be asked for a commit, a
\* change that went away and came back within one attempt is not seen, and
\* no reader sees an account that was switched and switched back.
SnapshotCoherent ==
  result = "ok" =>
    \A r \in Content \cap DOMAIN got :
      /\ \/ Tips(Seen(r)) = Pins
         \/ r \notin Pinned[kind] /\ Seen("before") \in back
      /\ "account" \in DOMAIN got =>
           got[r].as = Seen("account") \/ Seen("account") \in backLogin

\* The requests of a stage come after all those of the stages before it.
StageInv ==
  /\ \A r \in Settled : \E i \in DOMAIN Stages[kind] : r \in Stages[kind][i]
  /\ \A i \in DOMAIN Stages[kind] : Stages[kind][i] \cap Settled # {} => Joined(i - 1)

\* What the first readings still say: the change and the login are as they were
\* read, or have gone away since, and one that is there again has come back.
ReadingInv ==
  /\ now \in left => now \in back
  /\ login \in leftLogin => login \in backLogin
  /\ "before" \in DOMAIN got => now = Seen("before") \/ Seen("before") \in left
  /\ "account" \in DOMAIN got => login = Seen("account") \/ Seen("account") \in leftLogin

\* What the content says: it is of the pins, or the change had gone away when it was
\* read, and then a second reading that finds the change finds one that came back;
\* the same for the login it was read with.
ContentInv ==
  \A r \in Content \cap DOMAIN got :
    /\ "before" \in DOMAIN got
    /\ kind = "gitlabCompare" => "from" \in DOMAIN got
    /\ kind \in {"github", "gitlab", "entire"} => "account" \in DOMAIN got
    /\ r \in Pinned[kind] => Seen(r) = Pins
    /\ r \notin Pinned[kind] =>
         \/ Seen(r) = Seen("before")
         \/ /\ Seen("before") \in left
            /\ "after" \in DOMAIN got /\ Seen("after") = Seen("before") => Seen("before") \in back
    /\ "account" \in DOMAIN got =>
         \/ got[r].as = Seen("account")
         \/ /\ Seen("account") \in leftLogin
            /\ "still" \in DOMAIN got /\ Seen("still") = Seen("account")
                 => Seen("account") \in backLogin

\* The inductive form of SnapshotCoherent.
CaptureInv == kind \in Kinds /\ SnapshotCoherent /\ StageInv /\ ReadingInv /\ ContentInv
=============================================================================
