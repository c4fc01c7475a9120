------------------------------ MODULE StateDir ------------------------------
(* Which directory a process keeps its state in (default_state_dir): the   *)
(* directory had two earlier names, and a process that starts moves it to  *)
(* the present one with a rename that others can get in between.           *)
EXTENDS Naturals

CONSTANTS Processes,   \* invocations without --state-dir
          Spurious     \* a rename may also fail for a reason of the file system's own

VARIABLES
  exists,    \* the directories that are there
  work,      \* the one with the user's drafts and saved reviews, "none" if none
  spc,       \* "out", "mid?", "mid!", "new?", "new!", "open", "running" or "refused", by process
  inner,     \* what the inner migrated_state_dir returned, by process
  dir,       \* the directory it uses, by process
  missed,    \* processes that opened a store without the user's work in it
  bundle     \* the state-dir file of the app bundle: "none", "absolute" or "unusable"

Names == {"diffz", "diffr", "review-workbench"}
Bundled == "bundled"

\* Only one of the names was in use before; a bundle keeps its own.
StateDirInit ==
  /\ work \in Names \cup {"none"}
  /\ exists = {work} \cap Names
  /\ spc = [p \in Processes |-> "out"]
  /\ inner = [p \in Processes |-> "none"] /\ dir = [p \in Processes |-> "none"]
  /\ missed = {}
  /\ bundle \in {"none", "absolute", "unusable"}

\* default_state_dir asks the bundle first (bundled_state_dir), where a file
\* that holds no absolute path is an error.
Start(p) ==
  /\ spc[p] = "out"
  /\ spc' = [spc EXCEPT ![p] = CASE bundle = "none"     -> "mid?"
                                 [] bundle = "absolute" -> "open"
                                 [] bundle = "unusable" -> "refused"]
  /\ dir' = [dir EXCEPT ![p] = IF bundle = "absolute" THEN Bundled ELSE @]
  /\ UNCHANGED <<exists, work, inner, missed, bundle>>

\* migrated_state_dir(new, old): nothing to do when the new name is taken or
\* the old one is not there.
Nothing(new, old) == new \in exists \/ old \notin exists

\* The inner call looks: review-workbench to diffr.
LookInner(p) ==
  /\ spc[p] = "mid?"
  /\ IF Nothing("diffr", "review-workbench")
       THEN inner' = [inner EXCEPT ![p] = "diffr"] /\ spc' = [spc EXCEPT ![p] = "new?"]
       ELSE UNCHANGED inner /\ spc' = [spc EXCEPT ![p] = "mid!"]
  /\ UNCHANGED <<exists, work, dir, missed, bundle>>

\* The outer call looks: what the inner one returned to diffz.
LookOuter(p) ==
  /\ spc[p] = "new?"
  /\ IF Nothing("diffz", inner[p])
       THEN dir' = [dir EXCEPT ![p] = "diffz"] /\ spc' = [spc EXCEPT ![p] = "open"]
       ELSE UNCHANGED dir /\ spc' = [spc EXCEPT ![p] = "new!"]
  /\ UNCHANGED <<exists, work, inner, missed, bundle>>

\* std::fs::rename: it fails when the old name is gone or the new one is in
\* use by now.
CanRename(old, new) == old \in exists /\ new \notin exists

Renamed(old, new) ==
  /\ CanRename(old, new)
  /\ exists' = (exists \ {old}) \cup {new}
  /\ work' = IF work = old THEN new ELSE work

RenameFails(old, new) == (Spurious \/ ~CanRename(old, new)) /\ UNCHANGED <<exists, work>>

\* The rename of the inner call, and the location it falls back to.
RenameInner(p) ==
  /\ spc[p] = "mid!"
  /\ \/ Renamed("review-workbench", "diffr") /\ inner' = [inner EXCEPT ![p] = "diffr"]
     \/ RenameFails("review-workbench", "diffr") /\ inner' = [inner EXCEPT ![p] = "review-workbench"]
  /\ spc' = [spc EXCEPT ![p] = "new?"]
  /\ UNCHANGED <<dir, missed, bundle>>

\* The rename of the outer call, and the location it falls back to.
RenameOuter(p) ==
  /\ spc[p] = "new!"
  /\ \/ Renamed(inner[p], "diffz") /\ dir' = [dir EXCEPT ![p] = "diffz"]
     \/ RenameFails(inner[p], "diffz") /\ dir' = [dir EXCEPT ![p] = inner[p]]
  /\ spc' = [spc EXCEPT ![p] = "open"]
  /\ UNCHANGED <<inner, missed, bundle>>

\* Store::open makes the directory (private_dir) and keeps its work there; the
\* writer lock lets one process in, the others hand their request to it.
OpenStore(p) ==
  /\ spc[p] = "open"
  /\ exists' = exists \cup ({dir[p]} \cap Names)
  /\ work' = IF work = "none" /\ dir[p] \in Names THEN dir[p] ELSE work
  /\ missed' = IF dir[p] \in Names /\ work \notin {"none", dir[p]} THEN missed \cup {p} ELSE missed
  /\ spc' = [spc EXCEPT ![p] = "running"]
  /\ UNCHANGED <<inner, dir, bundle>>

StateDirNext ==
  \E p \in Processes :
    \/ Start(p) \/ LookInner(p) \/ LookOuter(p) \/ RenameInner(p) \/ RenameOuter(p) \/ OpenStore(p)

-----------------------------------------------------------------------------
(* Properties.                                                             *)

\* A process that runs on the default location opened the store with the
\* user's drafts and saved reviews in it, whichever renames failed: "If that
\* fails, retain the old location so existing drafts and saved reviews remain
\* available" (migrated_state_dir).
WorkIsFound == missed = {}
=============================================================================
