----------------------------- MODULE Retention -----------------------------
(* What the store keeps between starts: Store::open recovers the outbox    *)
(* and prunes the snapshot table to the newest Keep, with their drafts,    *)
(* views and hidden marks; the recents list shows the newest that are not  *)
(* hidden. One process at a time has the store (writer.lock); it may stop  *)
(* between any two transactions.                                           *)
EXTENDS Naturals, FiniteSets

CONSTANTS Snapshots,   \* snapshot identities
          Operations,  \* outbox identities
          Keep,        \* KEEP_RECENT, 50 in the code
          Shown,       \* length of the recents list, 30 in the code
          MaxClock     \* the clock reads 0 .. MaxClock, in seconds

ASSUME RetentionAssumption ==
  /\ IsFiniteSet(Snapshots) /\ IsFiniteSet(Operations)
  /\ Keep \in Nat /\ Shown \in Nat /\ MaxClock \in Nat

None == "none"

VARIABLES
  up,        \* a process has the store open
  clock,     \* unixepoch(); somebody may set it back
  rows,      \* the snapshot table: snapshot -> [at, rowid]
  drafts,    \* snapshot -> none, saved (unpublished) or published
  views,     \* snapshots that have a saved view
  hidden,    \* hidden_recents
  ops,       \* operation -> [snapshot, state, carries]
  showing    \* snapshots put by a load whose show_recent is still to come

retentionVars == <<up, clock, rows, drafts, views, hidden, ops, showing>>

States == {"prepared", "in_flight", "unknown", "confirmed", "rejected"}
Unresolved == {"prepared", "in_flight", "unknown"}
NoOp == [snapshot |-> None, state |-> None, carries |-> FALSE]

Stored == DOMAIN rows

RetentionInit ==
  /\ up = FALSE /\ clock = 0 /\ rows = [s \in {} |-> [at |-> 0, rowid |-> 0]]
  /\ drafts = [s \in Snapshots |-> None]
  /\ views = {} /\ hidden = {} /\ showing = {}
  /\ ops = [o \in Operations |-> NoOp]

\* UPDATE snapshots SET updated_at=unixepoch(); the rowid stays.
Touched(s) == [t \in Stored |-> IF t = s THEN [rows[t] EXCEPT !.at = clock] ELSE rows[t]]

\* ORDER BY updated_at DESC, rowid DESC LIMIT n: the n rows of ids that no more
\* than n - 1 others come before.
Before(t, s) == rows[t].at > rows[s].at \/ (rows[t].at = rows[s].at /\ rows[t].rowid > rows[s].rowid)
Newest(ids, n) == {s \in ids : Cardinality({t \in ids : Before(t, s)}) < n}

\* Only the order of the rowids matters: the rows that stay are counted anew.
Renumbered(kept) ==
  [s \in kept |-> [rows[s] EXCEPT !.rowid = Cardinality({t \in kept : rows[t].rowid =< @})]]

\* Store::recent.
Recents == Newest(Stored \ hidden, Shown)

-----------------------------------------------------------------------------
\* Store::put_snapshot: a new row, or the old one with new data and time.
PutSnapshot(s) ==
  /\ up
  /\ rows' = IF s \in Stored THEN Touched(s)
             ELSE [t \in Stored \cup {s} |->
                     IF t = s THEN [at |-> clock, rowid |-> Cardinality(Stored) + 1] ELSE rows[t]]
  /\ showing' = showing \cup {s}
  /\ UNCHANGED <<up, clock, drafts, views, hidden, ops>>

\* Store::show_recent, the second transaction of a load, or the first of
\* Store::opened for a recent that is resumed.
ShowRecent(s) ==
  /\ up /\ s \in showing \cup Recents
  /\ rows' = Touched(s)
  /\ hidden' = hidden \ {s}
  /\ showing' = showing \ {s}
  /\ UNCHANGED <<up, clock, drafts, views, ops>>

\* Store::hide_recent of one snapshot or of all.
HideRecent(which) ==
  /\ up
  /\ hidden' = hidden \cup (which \cap Stored)
  /\ UNCHANGED <<up, clock, rows, drafts, views, ops, showing>>

\* Store::save_draft: refused for a snapshot that is not stored and for a
\* published draft.
SaveDraft(s) ==
  /\ up /\ s \in Stored /\ drafts[s] # "published"
  /\ drafts' = [drafts EXCEPT ![s] = "saved"]
  /\ UNCHANGED <<up, clock, rows, views, hidden, ops, showing>>

\* Store::discard_draft: published = 0 only.
DiscardDraft(s) ==
  /\ up /\ drafts[s] = "saved"
  /\ drafts' = [drafts EXCEPT ![s] = None]
  /\ UNCHANGED <<up, clock, rows, views, hidden, ops, showing>>

\* Store::save_view: the foreign key asks for the snapshot.
SaveView(s) ==
  /\ up /\ s \in Stored
  /\ views' = views \cup {s}
  /\ UNCHANGED <<up, clock, rows, drafts, hidden, ops, showing>>

\* Services::prepare: a review of a stored snapshot, with its draft or with a
\* summary only.
Prepare(o, s) ==
  /\ up /\ s \in Stored /\ ops[o] = NoOp
  /\ ops' = [ops EXCEPT ![o] = [snapshot |-> s, state |-> "prepared", carries |-> drafts[s] = "saved"]]
  /\ UNCHANGED <<up, clock, rows, drafts, views, hidden, showing>>

\* Store::transition as the outbox calls it (Outbox has the calls); confirmed
\* marks the draft it carried.
Transition(o) ==
  /\ up
  /\ \E to \in States :
       /\ <<ops[o].state, to>> \in
            {<<"prepared", "in_flight">>, <<"prepared", "rejected">>, <<"in_flight", "confirmed">>,
             <<"in_flight", "rejected">>, <<"in_flight", "unknown">>, <<"unknown", "confirmed">>}
       /\ ops' = [ops EXCEPT ![o].state = to]
       /\ drafts' = IF to = "confirmed" /\ ops[o].carries /\ drafts[ops[o].snapshot] = "saved"
                      THEN [drafts EXCEPT ![ops[o].snapshot] = "published"] ELSE drafts
  /\ UNCHANGED <<up, clock, rows, views, hidden, showing>>

-----------------------------------------------------------------------------
\* Mutant: prune asks for drafts only.
DoomedDespiteOutbox(out) ==
  {s \in Stored : s \notin Newest(Stored, Keep) /\ drafts[s] # "saved"}

\* temp.doomed of prune: not among the newest, no unpublished draft, no
\* unresolved operation.
Doomed(out) ==
  {s \in Stored : /\ s \notin Newest(Stored, Keep)
                  /\ drafts[s] # "saved"
                  /\ ~\E o \in Operations : out[o].snapshot = s /\ out[o].state \in Unresolved}

\* Store::open: recover_inflight, then prune.
OpenStore ==
  /\ ~up
  /\ up' = TRUE
  /\ ops' = [o \in Operations |-> IF ops[o].state = "in_flight" THEN [ops[o] EXCEPT !.state = "unknown"] ELSE ops[o]]
  /\ LET doomed == Doomed(ops')
     IN /\ rows' = Renumbered(Stored \ doomed)
        /\ drafts' = [s \in Snapshots |-> IF s \in doomed THEN None ELSE drafts[s]]
        /\ views' = views \ doomed
        /\ hidden' = hidden \ doomed
  /\ UNCHANGED <<clock, showing>>

\* The process ends, between any two transactions.
Stop ==
  /\ up
  /\ up' = FALSE /\ showing' = {}
  /\ UNCHANGED <<clock, rows, drafts, views, hidden, ops>>

\* Time passes, or somebody sets the clock.
ClockMoves ==
  /\ \E t \in (0 .. MaxClock) \ {clock} : clock' = t
  /\ UNCHANGED <<up, rows, drafts, views, hidden, ops, showing>>

RetentionNext ==
  \/ \E s \in Snapshots : \/ PutSnapshot(s) \/ ShowRecent(s) \/ HideRecent({s})
                          \/ SaveDraft(s) \/ DiscardDraft(s) \/ SaveView(s)
                          \/ \E o \in Operations : Prepare(o, s)
  \/ HideRecent(Snapshots)
  \/ \E o \in Operations : Transition(o)
  \/ OpenStore \/ Stop \/ ClockMoves

RetentionSpec == RetentionInit /\ [][RetentionNext]_retentionVars

-----------------------------------------------------------------------------
\* Whatever is opened afterwards, however the clock is set and however often
\* the program starts, work that is not finished stays: no start removes a
\* draft that was not published, such a draft can be shown again, and an
\* operation that may have been sent still has the review it was prepared from.
WorkIsKept ==
  [][/\ \A s \in Snapshots : ~up /\ drafts[s] = "saved" => drafts'[s] = "saved"
     /\ \A s \in Snapshots : drafts'[s] # None => s \in Stored'
     /\ \A o \in Operations : ops'[o].state \in Unresolved => ops'[o].snapshot \in Stored'
    ]_retentionVars

\* The inductive invariant of WorkIsKept: a draft and an operation that is not
\* resolved have their snapshot.
RetentionInv ==
  /\ Stored \subseteq Snapshots
  /\ drafts \in [Snapshots -> {None, "saved", "published"}]
  /\ ops \in [Operations -> [snapshot : Snapshots \cup {None}, state : States \cup {None}, carries : BOOLEAN]]
  /\ \A s \in Snapshots : drafts[s] # None => s \in Stored
  /\ \A o \in Operations : ops[o].state \in Unresolved => ops[o].snapshot \in Stored
=============================================================================
