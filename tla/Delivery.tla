------------------------------ MODULE Delivery ------------------------------
(* What sending a review promises, whatever requests it takes: a review is *)
(* a set of parts that land on the service one by one or together, and the *)
(* sender is told how it went. This is what Outbox::publish relies on when *)
(* it lets the reader send a rejected review again, keeps an unknown one   *)
(* from being sent, and settles a review that was found afterwards.        *)
EXTENDS Naturals

VARIABLES review,    \* the parts of the review
          landed,    \* those that were applied by the service
          told       \* "nothing", "accepted", "rejected", "unknown", "found"

deliveryVars == <<review, landed, told>>

DeliveryInit == landed = {} /\ told = "nothing"

\* Parts are applied while the sender waits, or late, after it gave up.
Land ==
  /\ told \in {"nothing", "unknown"}
  /\ landed' \in SUBSET review /\ landed \subseteq landed'
  /\ UNCHANGED <<review, told>>

\* The sender learns the outcome: accepted is a promise about all parts,
\* rejected one about none, now and later.
Tell ==
  /\ told = "nothing"
  /\ \/ told' = "accepted" /\ landed = review
     \/ told' = "rejected" /\ landed = {}
     \/ told' = "unknown"
  /\ UNCHANGED <<review, landed>>

\* Reading an unknown review back settles it only when it is all there.
Find ==
  /\ told = "unknown" /\ landed = review
  /\ told' = "found"
  /\ UNCHANGED <<review, landed>>

DeliveryNext == Land \/ Tell \/ Find

DeliverySpec == DeliveryInit /\ [][DeliveryNext]_deliveryVars
=============================================================================
