---------------------------- MODULE Availability ----------------------------
(***************************************************************************)
(* What the integration promises about the availability of its entities,   *)
(* without paho, the broker, the event loop or the watchdog: entities are  *)
(* hidden when the integration has been told so, or when the data they     *)
(* show is Stale ticks old, and for no other reason; what it has been told *)
(* is never forgotten; and no exposure to old data lasts longer than       *)
(* Stale + Period ticks.                                                   *)
(***************************************************************************)
EXTENDS Integers

CONSTANTS
  Stale,    \* data older than this may be hidden
  Period    \* how much longer it may take

VARIABLES
  shown,    \* the entities are available
  exposure, \* how long they have been shown since data was last served
  told      \* word of an outage has come and has not been acted on

vars == <<shown, exposure, told>>

Init == ~shown /\ exposure = 0 /\ ~told

\* New data is shown.
Serve ==
  /\ shown' = TRUE /\ exposure' = 0
  /\ UNCHANGED told

\* The entities come back with the data they have.
Restore ==
  /\ ~shown
  /\ shown' = TRUE /\ exposure' \in 0 .. Stale
  /\ UNCHANGED told

\* The sidecar says that it is offline, or the connection is lost.
Tell == told' = TRUE /\ UNCHANGED <<shown, exposure>>

\* What was told is acted on; more of it may be waiting.
HideAsTold ==
  /\ told /\ told' \in BOOLEAN
  /\ shown' = FALSE /\ exposure' = 0

\* The data has become too old.
HideStale ==
  /\ shown /\ exposure >= Stale
  /\ shown' = FALSE /\ exposure' = 0
  /\ UNCHANGED told

Age ==
  /\ shown /\ exposure < Stale + Period
  /\ exposure' = exposure + 1
  /\ UNCHANGED <<shown, told>>

Next == Serve \/ Restore \/ Tell \/ HideAsTold \/ HideStale \/ Age

Spec == Init /\ [][Next]_vars
=============================================================================
