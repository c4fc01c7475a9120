------------------------------ MODULE MCReading ------------------------------
(* What a window reads and keeps, one part at a time: a run begins with one *)
(* of them as its topic, whose steps are taken, and the others rest.        *)
EXTENDS Capture, Sources, Retention, Coverage, Evidence, Trails

VARIABLE topic   \* the part that runs

vars == <<topic, captureVars, sourceVars, retentionVars, coverageVars, evidenceVars, trailVars>>

Topics == {"capture", "sources", "store", "coverage", "evidence", "trails"}

\* Commits and accounts are interchangeable: one representative of the start.
FirstCommit == CHOOSE c \in Commits : TRUE

FirstAccount == CHOOSE a \in Accounts : TRUE

\* How the directory may write the two repositories when nothing else varies.
PlainDirectory == spelled["et"] = "qualified" /\ spelled["gh"] = "stated" /\ unlisted = {}

\* The directory, the login and the events vary one at a time, not together.
TrailsStart ==
  /\ TrailsInit
  /\ asked.forge = "et" /\ asked.number = 1 /\ asked.trail = 1
  /\ (ready # Forges \/ ~session.production) => PlainDirectory
  /\ trailEvents \in {0, MaxTrailEvents}
  /\ trailEvents < MaxTrailEvents => PlainDirectory /\ ready = Forges /\ session.production

TrailsRest ==
  /\ home = [c \in Changes |-> [forge |-> "et", number |-> 1]]
  /\ trail = [c \in Changes |-> 0] /\ unlisted = {}
  /\ spelled = [f \in Forges |-> "absent"] /\ place = [f \in Forges |-> 1] /\ ready = {}
  /\ session = [account |-> 1, production |-> FALSE]
  /\ trailEvents = MaxTrailEvents
  /\ asked = CHOOSE a \in TrailAddresses : TRUE
  /\ tpc = "login" /\ selected = NoPins /\ repo = 0 /\ pins = NoPins /\ tries = 0
  /\ captured = NoCapture /\ context = 0 /\ opened = {}

CoverageRest ==
  /\ reader = "github" /\ form = <<>>
  /\ listing = NoListing /\ raw = NoRaw /\ warnings = {} /\ report = "start"

EvidenceRest ==
  /\ about = "gate" /\ head = 1 /\ outcome = [h \in Heads |-> "none"] /\ running = 0 /\ runs = 0
  /\ gate = NoGate /\ pin = 0 /\ input = "no input" /\ displayed = {}

Init ==
  /\ topic \in Topics
  /\ CaptureInit /\ now.base = FirstCommit /\ login = FirstAccount
  /\ (topic # "capture" => kind = "github")
  /\ SourcesInit /\ RetentionInit
  /\ IF topic = "coverage" THEN CoverageInit ELSE CoverageRest
  /\ IF topic = "evidence" THEN EvidenceInit ELSE EvidenceRest
  /\ IF topic = "trails" THEN TrailsStart ELSE TrailsRest

Next ==
  /\ UNCHANGED topic
  /\ \/ topic = "capture" /\ CaptureNext
        /\ UNCHANGED <<sourceVars, retentionVars, coverageVars, evidenceVars, trailVars>>
     \/ topic = "sources" /\ SourcesNext
        /\ UNCHANGED <<captureVars, retentionVars, coverageVars, evidenceVars, trailVars>>
     \/ topic = "store" /\ RetentionNext
        /\ UNCHANGED <<captureVars, sourceVars, coverageVars, evidenceVars, trailVars>>
     \/ topic = "coverage" /\ CoverageNext
        /\ UNCHANGED <<captureVars, sourceVars, retentionVars, evidenceVars, trailVars>>
     \/ topic = "evidence" /\ EvidenceNext
        /\ UNCHANGED <<captureVars, sourceVars, retentionVars, coverageVars, trailVars>>
     \/ topic = "trails" /\ TrailsNext
        /\ UNCHANGED <<captureVars, sourceVars, retentionVars, coverageVars, evidenceVars>>

Spec == Init /\ [][Next]_vars
=============================================================================
