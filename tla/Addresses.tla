----------------------------- MODULE Addresses ------------------------------
(* What the user names, from the command line or the clipboard to the      *)
(* window: the three providers' parsers, detection, the arguments a        *)
(* detached window is started with and their second parse, the target that *)
(* is loaded, and the address a refresh or a recent review reopens.        *)
(*                                                                         *)
(* A path is a sequence of segments; the dots of a comparison stand in it  *)
(* as a segment of their own, and ref names are sequences of segments.     *)
EXTENDS Naturals, Sequences, FiniteSets, SequencesExt

CONSTANTS
  Owners,     \* segments a project path is made of
  MaxDepth    \* bound on the segments of a project path

ASSUME AddressesAssumption == MaxDepth \in Nat \ {0}

VARIABLES
  typed,      \* the text that was typed or pasted
  isFile,     \* a file of that name exists
  login,      \* hosts with a stored login of the provider's tool
  request,    \* what the first process made of it
  window,     \* what the window was asked to open
  target,     \* what the provider loaded
  again,      \* what the reopened address loads
  step        \* "start", "parsed", "asking", "window", "shown", "reopened" or "refused"

addressVars == <<typed, isFile, login, request, window, target, again, step>>

Dots == {"..", "..."}
Hosts == {"github.com", "gitlab.com", "entire.com", "self.hosted"}
EntireHosts == {"entire.com"}
Queries ==
  {"none", "toggle", "straight", "crooked", "project", "refs", "refs straight", "other"}
Ways == {"positional", "--pr", "--mr", "--trail", "--compare", "paste"}

None == [provider |-> "none"]

-----------------------------------------------------------------------------
(* Segments.                                                               *)

\* decode_path: a percent-encoded slash is one segment of the URL and two of
\* the ref; encode_path writes the slash back as it is.
DecodePath(s) ==
  LET decoded[n \in 0 .. Len(s)] ==
        IF n = 0 THEN <<>>
        ELSE decoded[n - 1] \o IF s[n] = "r%2Fx" THEN <<"r", "x">> ELSE <<s[n]>>
  IN  decoded[Len(s)]

\* identifier of github.rs, and the project segments of gitlab.rs.
Identifier(s) == s \notin Dots \cup {"up", "r%2Fx", "o:x", ""}

\* All digits, and above zero.
Number(s) == s = "1"

\* ref_name.
RefName(r) ==
  /\ r # <<>>
  /\ r[1] # "-"
  /\ \A i \in DOMAIN r : r[i] \notin Dots \cup {"o:x"}

\* The first position of a segment, 0 for none.
First(s, seg) ==
  IF \E i \in DOMAIN s : s[i] = seg
    THEN CHOOSE i \in DOMAIN s : s[i] = seg /\ \A j \in 1 .. i - 1 : s[j] # seg
    ELSE 0

From(s, i) == SubSeq(s, i, Len(s))

\* The two refs of BASE...HEAD, or of BASE..HEAD which compares directly.
Refs(range) ==
  LET r == DecodePath(range)
      dots == IF First(r, "...") > 0 THEN "..." ELSE ".."
      at == First(r, dots)
  IN  [found |-> at > 0, direct |-> dots = "..",
       base |-> SubSeq(r, 1, at - 1), head |-> From(r, at + 1)]

\* A compare of GitHub may name a fork before a ref.
ForkRef(r) ==
  r # <<>> /\ RefName(IF r[1] = "o:x" THEN <<"x">> \o Tail(r) ELSE r)

Compare(refs) == [base |-> refs.base, head |-> refs.head, direct |-> refs.direct]
NoCompare == [base |-> <<>>, head |-> <<>>, direct |-> FALSE]

Target(provider, host, project, number, compare) ==
  [provider |-> provider, host |-> host, project |-> project, number |-> number, compare |-> compare]

\* A clean URL: HTTPS, no relative segment, no credentials, no port.
Clean(a) == a.scheme = "https" /\ First(a.path, "up") = 0 /\ ~a.port

-----------------------------------------------------------------------------
(* The parsers of the providers.                                           *)

\* PrAddress::parse and PrAddress::checked.
PrParse(a) ==
  LET p == a.path
      short == a.scheme = "#" /\ Len(p) = 3
      url == /\ Clean(a) /\ a.query = "none"
             /\ Len(p) \in {4, 5} /\ p[3] = "pull"
             /\ (Len(p) = 5 => p[5] \in {"files", "commits"})
  IN  IF (short \/ url) /\ Identifier(p[1]) /\ Identifier(p[2]) /\ Number(p[IF short THEN 3 ELSE 4])
        THEN Target("github", IF short THEN "github.com" ELSE a.host, SubSeq(p, 1, 2), 1, NoCompare)
        ELSE None

\* CompareAddress::parse.
CompareParse(a) ==
  LET p == a.path
      refs == Refs(From(p, 4))
  IN  IF /\ Clean(a) /\ a.query \in {"none", "toggle"}
         /\ Len(p) > 3 /\ Identifier(p[1]) /\ Identifier(p[2])
         /\ refs.found /\ ForkRef(refs.base) /\ ForkRef(refs.head)
        THEN Target("github", a.host, SubSeq(p, 1, 2), 0, Compare(refs))
        ELSE None

\* GithubTarget::parse.
GithubParse(a) ==
  IF a.scheme = "https" /\ Len(a.path) > 2 /\ a.path[3] = "compare"
    THEN CompareParse(a)
    ELSE PrParse(a)

\* The position of "-/route" behind a project, 0 for none.
Routed(p, route) ==
  LET at == {i \in 2 .. Len(p) - 1 : p[i] = "-" /\ p[i + 1] = route}
  IN  IF at = {} THEN 0 ELSE CHOOSE i \in at : \A j \in at : i =< j

Project(p) == Len(p) > 1 /\ \A i \in DOMAIN p : Identifier(p[i])

\* MrAddress::parse.
MrParse(a) ==
  LET p == a.path
      short == a.scheme = "!" /\ p # <<>>
      at == IF short THEN Len(p) ELSE Routed(p, "merge_requests")
      url == /\ Clean(a) /\ a.query = "none"
             /\ at > 0
             /\ \/ Len(p) = at + 2
                \/ Len(p) = at + 3 /\ p[at + 3] \in {"diffs", "commits", "pipelines"}
      project == SubSeq(p, 1, at - 1)
  IN  IF (short \/ url) /\ Project(project) /\ Number(p[IF short THEN at ELSE at + 2])
        THEN Target("gitlab", IF short THEN "gitlab.com" ELSE a.host, project, 1, NoCompare)
        ELSE None

\* GitlabCompare::parse: refs in the path, where straight must agree with the
\* dots, or in the query. A compare from another project is refused on load.
GitlabCompareParse(a) ==
  LET p == a.path
      at == Routed(p, "compare")
      tail == From(p, at + 2)
      inPath == Refs(tail)
      refs == IF tail # <<>> THEN inPath
              ELSE [found |-> a.query \in {"refs", "refs straight"}, direct |-> a.query = "refs straight",
                    base |-> <<"x">>, head |-> <<"y">>]
      agrees == CASE a.query = "straight" -> refs.direct
                  [] a.query = "crooked"  -> ~refs.direct
                  [] OTHER                -> a.query \in {"none", "project"}
  IN  IF /\ Clean(a) /\ at > 0
         /\ refs.found /\ (tail # <<>> => agrees)
         /\ RefName(refs.base) /\ RefName(refs.head)
         /\ Project(SubSeq(p, 1, at - 1))
        THEN Target("gitlab", a.host, SubSeq(p, 1, at - 1), 0, Compare(refs))
        ELSE None

\* GitlabTarget::parse.
GitlabParse(a) ==
  IF a.scheme = "https" /\ \E i \in 1 .. Len(a.path) - 1 : a.path[i] = "-" /\ a.path[i + 1] = "compare"
    THEN GitlabCompareParse(a)
    ELSE MrParse(a)

\* TrailAddress::parse and strict_https_url: a Trail of a project, a Change of
\* it, or a repository's own Change. The target's number is the Trail's, its
\* project ends in the repository and the Change where one is named.
TrailParse(a) ==
  LET p == a.path
      known == /\ Clean(a) /\ a.query = "none" /\ a.host \in EntireHosts
               /\ \A i \in DOMAIN p : p[i] # "r%2Fx"
               /\ Len(p) > 4 /\ p[1] \in {"et", "gh"} /\ Identifier(p[2]) /\ p[2] # "-"
               /\ p[4] = "trails" /\ Number(p[5])
      trail == p[3] = "-" /\ Len(p) = 5
      change == /\ p[3] = "-" /\ Len(p) = 8
                /\ p[6] = "changes" /\ Identifier(p[7]) /\ p[7] # "-" /\ Number(p[8])
      own == /\ p[3] # "-" /\ Identifier(p[3]) /\ Len(p) \in {5, 6}
             /\ (Len(p) = 6 => Identifier(p[6]) /\ p[6] # "-")
  IN  CASE ~known -> None
        [] known /\ trail  -> Target("entire", "entire.com", SubSeq(p, 1, 3), 1, NoCompare)
        [] known /\ change -> Target("entire", "entire.com", SubSeq(p, 1, 3) \o <<p[7]>>, 1, NoCompare)
        [] known /\ own    -> Target("entire", "entire.com", SubSeq(p, 1, 3), 1, NoCompare)
        [] OTHER -> None

ParseBy(provider, a) ==
  CASE provider = "github" -> GithubParse(a)
    [] provider = "gitlab" -> GitlabParse(a)
    [] provider = "entire" -> TrailParse(a)
    [] OTHER -> None

Remote(provider, a) == [provider |-> provider, address |-> a]
Patch(a) == [provider |-> "patch", address |-> a]

-----------------------------------------------------------------------------
(* Detection and the command line.                                         *)

\* detect_source and detect of main.rs: a file that exists first; an Entire
\* URL is Entire's or nobody's; then GitHub before GitLab.
DetectSource(a) ==
  LET entire == a.scheme \in {"https", "http"} /\ a.host \in EntireHosts
  IN  CASE isFile -> Patch(a)
        [] ~isFile /\ entire -> IF TrailParse(a) # None THEN Remote("entire", a) ELSE None
        [] ~isFile /\ ~entire /\ GithubParse(a) # None -> Remote("github", a)
        [] ~isFile /\ ~entire /\ GithubParse(a) = None /\ GitlabParse(a) # None -> Remote("gitlab", a)
        [] OTHER -> None

\* compare_request.
CompareRequest(a) ==
  LET comparison(t) == t # None /\ t.compare # NoCompare
  IN  CASE TrailParse(a) # None \/ a.host \in EntireHosts -> None
        [] TrailParse(a) = None /\ a.host \notin EntireHosts /\ comparison(GithubParse(a))
             -> Remote("github", a)
        [] TrailParse(a) = None /\ a.host \notin EntireHosts
             /\ ~comparison(GithubParse(a)) /\ comparison(GitlabParse(a)) -> Remote("gitlab", a)
        [] OTHER -> None

\* parse_with_detect for one source: --pr and --mr keep the address unread.
ParseArgs(flag, a) ==
  CASE flag = "positional" -> DetectSource(a)
    [] flag = "--pr"       -> Remote("github", a)
    [] flag = "--mr"       -> Remote("gitlab", a)
    [] flag = "--trail"    -> IF TrailParse(a) # None THEN Remote("entire", a) ELSE None
    [] flag = "--compare"  -> CompareRequest(a)
    [] flag = "--patch"    -> Patch(a)

\* Mutant: a compare is passed on like a pull request.
LaunchFlagByKind(r) ==
  CASE r.provider = "patch"  -> "--patch"
    [] r.provider = "entire" -> "--trail"
    [] OTHER                 -> "--pr"

\* launch_args: the flag that starts a window on the request.
LaunchFlag(r) ==
  CASE r.provider = "patch"  -> "--patch"
    [] r.provider = "entire" -> "--trail"
    [] r.provider \notin {"patch", "entire"} /\ CompareRequest(r.address) # None -> "--compare"
    [] r.provider = "github" /\ CompareRequest(r.address) = None -> "--pr"
    [] r.provider = "gitlab" /\ CompareRequest(r.address) = None -> "--mr"

\* public_host and unconfirmed_host: the host a pasted address may name
\* without asking is the provider's own, or one the tool has a login for.
Confirmed(r) ==
  LET t == ParseBy(r.provider, r.address)
  IN  \/ t = None
      \/ r.provider = "github" /\ t.host \in {"github.com"} \cup login
      \/ r.provider = "gitlab" /\ t.host \in {"gitlab.com"} \cup login
      \/ r.provider = "entire"

-----------------------------------------------------------------------------
(* Reopening.                                                              *)

Url(host, path) ==
  [scheme |-> "https", host |-> host, path |-> path, port |-> FALSE, query |-> "none"]

\* reopen_address of the three rules (change_url, canonical_url for Entire).
ReopenAddress(t) ==
  LET range == t.compare.base \o <<IF t.compare.direct THEN ".." ELSE "...">> \o t.compare.head
      compared == t.compare # NoCompare
  IN  CASE t.provider = "github" /\ compared  -> Url(t.host, t.project \o <<"compare">> \o range)
        [] t.provider = "github" /\ ~compared -> Url(t.host, t.project \o <<"pull", "1">>)
        [] t.provider = "gitlab" /\ compared  -> Url(t.host, t.project \o <<"-", "compare">> \o range)
        [] t.provider = "gitlab" /\ ~compared -> Url(t.host, t.project \o <<"-", "merge_requests", "1">>)
        [] t.provider = "entire" /\ Len(t.project) = 4
             -> Url(t.host, SubSeq(t.project, 1, 3) \o <<"trails", "1", "changes", t.project[4], "1">>)
        [] t.provider = "entire" /\ Len(t.project) = 3 -> Url(t.host, t.project \o <<"trails", "1">>)

-----------------------------------------------------------------------------
(* Inputs.                                                                 *)
Ranges ==
  {<<"x", "...", "y">>, <<"x", "..", "y">>, <<"o:x", "...", "y">>, <<"r%2Fx", "..", "y">>,
   <<"-", "...", "y">>, <<"x">>, <<"x", "...", "y", "..", "x">>, <<>>}

Routes ==
  {<<"pull", "1">>, <<"pull", "1", "files">>, <<"pull", "1", "x">>, <<"pull", "0">>, <<"1">>,
   <<"-", "merge_requests", "1">>, <<"-", "merge_requests", "1", "diffs">>,
   <<"-", "merge_requests", "1", "x">>, <<"-", "merge_requests", "0">>,
   <<"trails", "1">>, <<"trails", "1", "x">>, <<"-", "trails", "1">>, <<"-", "trails", "0">>,
   <<"-", "trails", "1", "changes", "x", "1">>, <<"-", "trails", "1", "up">>}
    \cup {<<"compare">> \o r : r \in Ranges} \cup {<<"-", "compare">> \o r : r \in Ranges}

Projects == UNION {[1 .. n -> Owners] : n \in 1 .. MaxDepth}

Paths(projects, routes) == UNION {{p \o r : r \in routes} : p \in projects}

\* A text: the odd ports, queries and schemes come with the plain project.
Texts ==
  [scheme : {"https"}, host : Hosts, path : Paths(Projects, Routes), port : {FALSE}, query : {"none"}]
    \cup [scheme : {"https", "http"}, host : {"self.hosted", "entire.com"},
          path : Paths({<<"a">>, <<"a", "a">>} \cap Projects, Routes), port : BOOLEAN, query : Queries]
    \cup [scheme : {"#", "!"}, host : {"none"}, path : Paths(Projects, {<<"0">>, <<"1">>}),
          port : {FALSE}, query : {"none"}]

AddressesInit ==
  /\ typed \in Texts
  /\ isFile \in BOOLEAN /\ (isFile => typed.scheme \in {"#", "!"})
  /\ login \in SUBSET {"self.hosted"}
  /\ request = None /\ window = None /\ target = None /\ again = None
  /\ step = "start"

-----------------------------------------------------------------------------
(* Actions.                                                                *)

\* run of main.rs with a source: parse, then detach or hand off.
Invoke(flag) ==
  LET r == ParseArgs(flag, typed)
  IN  /\ step = "start"
      /\ request' = r
      /\ step' = IF r = None THEN "refused" ELSE "parsed"
      /\ UNCHANGED <<typed, isFile, login, window, target, again>>

\* launch, and the parse of the process it starts; a running window is handed
\* the request itself (hand_off, take_handoff).
Launch ==
  /\ step = "parsed"
  /\ \/ window' = ParseArgs(LaunchFlag(request), request.address)
     \/ window' = request
  /\ step' = IF window' = None THEN "refused" ELSE "window"
  /\ UNCHANGED <<typed, isFile, login, request, target, again>>

\* Command::PasteOpen: clipboard text on a host without a login waits.
Paste ==
  LET r == DetectSource(typed)
      asks == r.provider = "patch" \/ ~Confirmed(r)
  IN  /\ step = "start"
      /\ request' = r
      /\ window' = IF r = None \/ asks THEN None ELSE r
      /\ step' = CASE r = None -> "refused" [] r # None /\ asks -> "asking" [] OTHER -> "window"
      /\ UNCHANGED <<typed, isFile, login, target, again>>

\* Enter in the Open panel that prefill_open filled; its mode is the one of
\* the detected source (detect_source_mode, mode_after_detection).
PressEnter ==
  /\ step = "asking"
  /\ window' = request
  /\ step' = "window"
  /\ UNCHANGED <<typed, isFile, login, request, target, again>>

\* No owner or project of a hosting service is called "-".
Exists(t) == t.provider = "entire" \/ \A i \in DOMAIN t.project : t.project[i] # "-"

\* Services::load by the request's provider: a patch is read as a file, and
\* a compare from another project is refused.
LoadTarget ==
  LET t == ParseBy(window.provider, window.address)
      crossProject == window.provider = "gitlab" /\ window.address.query = "project"
  IN  /\ step = "window"
      /\ target' = IF t # None /\ Exists(t) /\ ~crossProject THEN t ELSE None
      /\ step' = IF target' = None THEN "refused" ELSE "shown"
      /\ UNCHANGED <<typed, isFile, login, request, window, again>>

\* Refresh, or a recent review opened again: reopen_address, parsed once more.
Reopen ==
  /\ step = "shown"
  /\ again' = ParseBy(target.provider, ReopenAddress(target))
  /\ step' = "reopened"
  /\ UNCHANGED <<typed, isFile, login, request, window, target>>

AddressesNext ==
  \/ \E flag \in Ways \ {"paste"} : Invoke(flag)
  \/ Launch \/ Paste \/ PressEnter \/ LoadTarget \/ Reopen

AddressesSpec == AddressesInit /\ [][AddressesNext]_addressVars

-----------------------------------------------------------------------------
(* Properties.                                                             *)

\* The source the user named is the one every later parse arrives at
\* (launch_args with parse_with_detect, reopen_address with the parsers): a
\* request that a provider's own parser stands behind reaches the window
\* unchanged through the arguments of a detached process, a reopened review
\* is the one that was shown, and nothing detected on an Entire host is ever
\* loaded by another provider.
SameSource ==
  /\ (window # None /\ DetectSource(typed) = request) => window = request
  /\ step = "reopened" => again = target
  /\ (window # None /\ DetectSource(typed) = request /\ typed.scheme = "https" /\ typed.host \in EntireHosts)
       => window.provider = "entire"

\* The invariant behind SameSource: every stage still holds the address that
\* was typed, what the user named has stayed the same, and what is shown would
\* be loaded again from its own address.
AddressesInv ==
  /\ typed \in Texts
  /\ isFile => typed.scheme \in {"#", "!"}
  /\ request # None => request.address = typed /\ request.provider \in {"github", "gitlab", "entire", "patch"}
  /\ window # None =>
       request # None /\ window.address = typed /\ (DetectSource(typed) = request => window = request)
  /\ step = "start" => window = None
  /\ step \in {"parsed", "asking"} => request # None
  /\ step = "window" => window # None
  /\ step = "shown" => target # None
  /\ target # None => ParseBy(target.provider, ReopenAddress(target)) = target
  /\ step = "reopened" => again = target
=============================================================================
