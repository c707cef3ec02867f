---------------------------- MODULE Coordinator ----------------------------
(***************************************************************************)
(* The availability of the integration's entities (class                   *)
(* PylontechCoordinator of custom_components/pylontech_mqtt/coordinator.py): *)
(* the MQTT callbacks that run in paho's thread, the callbacks they queue  *)
(* on Home Assistant's event loop, the staleness watchdog that runs there  *)
(* on a timer, and the refresh that a capacity change requests.            *)
(*                                                                         *)
(* External: the broker (two retained topics, messages in order), the      *)
(* sidecar at its other end, paho's reconnecting, and the refresh of Home  *)
(* Assistant's DataUpdateCoordinator.                                      *)
(***************************************************************************)
EXTENDS Integers, Sequences

CONSTANTS
  Payloads,       \* the kinds of state payload a publisher sends
  Stale,          \* _STALE_TIMEOUT_SECONDS, in ticks
  Period,         \* _WATCHDOG_INTERVAL_SECONDS, in ticks
  MaxInflight,    \* bound on the messages on their way to the client
  MaxQueue,       \* bound on the callbacks queued on the event loop
  MaxDisconnects, \* bound on the times the client loses the broker
  MaxRefreshes,   \* bound on the refreshes requested
  Prompt          \* the environment: no time passes with work to be done

\* A payload that passes the validation is "valid", or "raises" when one of the
\* listeners it is shown to raises; "invalid" fails the validation;
\* "undecodable" is not JSON.
ASSUME ConfigAssumption ==
  /\ Payloads \subseteq {"valid", "raises", "invalid", "undecodable"}
  /\ Stale \in Nat \ {0} /\ Period \in Nat \ {0}
  /\ MaxInflight \in Nat /\ MaxQueue \in Nat
  /\ MaxDisconnects \in Nat /\ MaxRefreshes \in Nat
  /\ Prompt \in BOOLEAN

VARIABLES
  link,        \* the client: "down", or how far it has subscribed
  inflight,    \* messages the broker has sent to it
  retained,    \* what the broker retains on either topic
  speaking,    \* the sidecar's poll loop runs
  paho,        \* paho's thread: "idle", or an "online" found "fresh"
  queue,       \* the callbacks on the event loop
  available,   \* last_update_success
  hasData,     \* data is not None
  age,         \* ticks since _last_message_monotonic, up to Stale + 1
  timer,       \* ticks to the watchdog's next run
  disconnects, refreshes,
  last,        \* history: the last message published
  by,          \* history: what made the entities available last
  verdict,     \* history: judged stale, and nothing usable published since
  unserved     \* history: ticks without a payload processed to its end; those
               \* beyond Stale count only while the entities are available

broker == <<inflight, retained, speaking, last>>
budget == <<disconnects, refreshes>>
loop   == <<available, hasData, age, timer, by, unserved>>
vars   == <<link, broker, paho, queue, loop, budget, verdict>>

Avail     == {"online", "offline"}
Callbacks == Payloads \cup {"mark_available", "mark_unavailable"}

TypeOK ==
  /\ link \in {"down", "connected", "state", "both"}
  /\ inflight \in Seq(Payloads \cup Avail) /\ Len(inflight) <= MaxInflight
  /\ retained \in [state : Payloads \cup {"none"}, avail : Avail \cup {"none"}]
  /\ paho \in {"idle", "fresh"}
  /\ queue \in Seq(Callbacks) /\ Len(queue) <= MaxQueue
  /\ speaking \in BOOLEAN /\ available \in BOOLEAN
  /\ hasData \in BOOLEAN /\ verdict \in BOOLEAN
  /\ age \in 0 .. Stale + 1
  /\ timer \in 0 .. Period
  /\ disconnects \in 0 .. MaxDisconnects /\ refreshes \in 0 .. MaxRefreshes
  /\ last \in Payloads \cup Avail \cup {"none"}
  /\ by \in {"none", "online", "payload", "refresh"}
  /\ unserved \in 0 .. Stale + Period + 1

\* Nothing is on its way, queued or half done.
Settled ==
  /\ inflight = <<>> /\ queue = <<>> /\ paho = "idle"
  /\ link \in {"down", "both"}

Lesser(a, b) == IF a < b THEN a ELSE b

-----------------------------------------------------------------------------

\* After setup(): nothing received, the staleness clock and the timer started;
\* the broker may retain anything an earlier sidecar left.
Init ==
  /\ link = "down" /\ inflight = <<>> /\ paho = "idle" /\ queue = <<>>
  /\ retained \in [state : Payloads \cup {"none"}, avail : Avail \cup {"none"}]
  /\ speaking \in BOOLEAN
  /\ available = FALSE /\ hasData = FALSE
  /\ age = 0 /\ timer = Period
  /\ disconnects = 0 /\ refreshes = 0
  /\ last = "none" /\ by = "none" /\ verdict = FALSE /\ unserved = 0

-----------------------------------------------------------------------------
(* The sidecar and the broker.                                             *)

\* What the client, as far as it has subscribed, is sent of ms.
Forwarded(ms) ==
  IF link = "both" THEN ms
  ELSE IF link = "state" /\ ms[1] \in Payloads THEN <<ms[1]>>
  ELSE <<>>

\* The broker receives ms, a payload or a word on availability or both in this
\* order: it retains them and sends them on.
Publish(ms) ==
  /\ Len(inflight) <= MaxInflight - 2
  /\ inflight' = inflight \o Forwarded(ms)
  /\ last' = ms[Len(ms)]
  /\ retained' = [state |-> IF ms[1] \in Payloads THEN ms[1] ELSE retained.state,
                  avail |-> IF last' \in Avail THEN last' ELSE retained.avail]
  /\ verdict' = (verdict /\ ms[1] \notin {"valid", "raises"})
  /\ UNCHANGED <<link, paho, queue, loop, budget>>

\* A poll cycle publishes a state and "online"; either may be refused.
PollCycle ==
  /\ speaking /\ UNCHANGED speaking
  /\ \/ Publish(<<"online">>)
     \/ \E p \in Payloads : Publish(<<p>>) \/ Publish(<<p, "online">>)

\* A failed cycle, a shutdown, or the will of a session that ended.
SayOffline == Publish(<<"offline">>) /\ speaking' \in BOOLEAN

\* The poll loop hangs with its session up, or goes on.
HangOrResume ==
  /\ speaking' = ~speaking
  /\ UNCHANGED <<link, inflight, retained, last, paho, queue, loop, budget,
                 verdict>>

-----------------------------------------------------------------------------
(* paho's thread.                                                          *)

\* hass.loop.call_soon_threadsafe
CallSoon(callback) ==
  /\ Len(queue) < MaxQueue
  /\ queue' = Append(queue, callback)

\* _on_connect, and the broker's answer to the two subscriptions in turn.
_on_connect ==
  /\ paho = "idle" /\ link = "down"
  /\ link' = "connected"
  /\ UNCHANGED <<broker, paho, queue, loop, budget, verdict>>

Replay(m) == IF m = "none" THEN <<>> ELSE <<m>>

\* Fault variant: the availability topic is answered before the state topic.
SubscribeAvailabilityFirst ==
  /\ paho = "idle" /\ link = "connected"
  /\ Len(inflight) < MaxInflight
  /\ link' = "both"
  /\ inflight' = inflight \o Replay(retained.avail) \o Replay(retained.state)
  /\ UNCHANGED <<retained, speaking, last, paho, queue, loop, budget, verdict>>

\* Fault variant: subscribed once, not each time the session is new.
SubscribeOnce ==
  /\ Len(inflight) < MaxInflight
  /\ disconnects = 0
  /\ \/ /\ link = "connected" /\ link' = "state"
        /\ inflight' = inflight \o Replay(retained.state)
     \/ /\ link = "state" /\ link' = "both"
        /\ inflight' = inflight \o Replay(retained.avail)
  /\ UNCHANGED <<retained, speaking, last, paho, queue, loop, budget, verdict>>

Subscribe ==
  /\ Len(inflight) < MaxInflight
  /\ \/ /\ link = "connected" /\ link' = "state"
        /\ inflight' = inflight \o Replay(retained.state)
     \/ /\ link = "state" /\ link' = "both"
        /\ inflight' = inflight \o Replay(retained.avail)
  /\ UNCHANGED <<retained, speaking, last, paho, queue, loop, budget, verdict>>

\* Fault variant: the entities are marked at once, ahead of what is queued.
DisconnectAtOnce ==
  /\ paho = "idle" /\ link # "down" /\ disconnects < MaxDisconnects
  /\ disconnects' = disconnects + 1
  /\ link' = "down" /\ inflight' = <<>>
  /\ available' = FALSE /\ unserved' = Lesser(unserved, Stale)
  /\ UNCHANGED <<retained, speaking, last, paho, queue, hasData, age, timer, by,
                 refreshes, verdict>>

\* _on_disconnect: what was on its way is lost.
_on_disconnect ==
  /\ paho = "idle" /\ link # "down" /\ disconnects < MaxDisconnects
  /\ disconnects' = disconnects + 1
  /\ link' = "down" /\ inflight' = <<>>
  /\ CallSoon("mark_unavailable")
  /\ UNCHANGED <<retained, speaking, last, paho, loop, refreshes, verdict>>

\* _on_message, up to the check of an "online" against the staleness clock.
_on_message ==
  /\ paho = "idle" /\ link # "down" /\ inflight # <<>>
  /\ inflight' = Tail(inflight)
  /\ LET m == Head(inflight)
     IN  \/ /\ m = "online" /\ age <= Stale
            /\ paho' = "fresh" /\ UNCHANGED queue
         \/ /\ m = "online" /\ age > Stale
            /\ UNCHANGED <<paho, queue>>
         \/ /\ m = "offline"
            /\ CallSoon("mark_unavailable") /\ UNCHANGED paho
         \/ /\ m = "undecodable"
            /\ UNCHANGED <<paho, queue>>
         \/ /\ m \in Payloads \ {"undecodable"}
            /\ CallSoon(m) /\ UNCHANGED paho
  /\ UNCHANGED <<link, retained, speaking, last, loop, budget, verdict>>

\* The rest of _on_message, after the check.
_on_message_fresh ==
  /\ paho = "fresh" /\ paho' = "idle"
  /\ CallSoon("mark_available")
  /\ UNCHANGED <<link, broker, loop, budget, verdict>>

-----------------------------------------------------------------------------
(* The event loop.                                                         *)

\* The entities become unavailable.
Unavailable ==
  /\ available' = FALSE
  /\ unserved' = Lesser(unserved, Stale)
  /\ UNCHANGED by

Available(cause) == available' = TRUE /\ by' = cause

Running(callback) ==
  /\ queue # <<>> /\ Head(queue) = callback
  /\ queue' = Tail(queue)
  /\ UNCHANGED <<link, broker, paho, budget, verdict>>

\* Fault variant: an "online" counts as a sign of fresh data.
MarkAvailableAndFresh ==
  /\ Running("mark_available")
  /\ Available("online")
  /\ age' = 0
  /\ UNCHANGED <<hasData, timer, unserved>>

_mark_available ==
  /\ Running("mark_available")
  /\ Available("online")
  /\ UNCHANGED <<hasData, age, timer, unserved>>

_mark_unavailable ==
  /\ Running("mark_unavailable")
  /\ Unavailable
  /\ UNCHANGED <<hasData, age, timer>>

\* Fault variant: the staleness clock is set one interval ahead.
ProcessWithGrace ==
  \E p \in Payloads \ {"undecodable"} :
    /\ Running(p)
    /\ IF p = "valid"
         THEN /\ Available("payload") /\ hasData' = TRUE
              /\ age' = -Period /\ unserved' = 0
         ELSE UNCHANGED <<available, by, hasData, age, unserved>>
    /\ UNCHANGED timer

\* A payload that fails the validation is dropped; async_set_updated_data makes
\* the entities available before it calls the listeners; the clock is set last.
_process_payload ==
  /\ \/ /\ Running("invalid")
        /\ UNCHANGED <<available, by, hasData, age, unserved>>
     \/ /\ Running("raises")
        /\ Available("payload") /\ hasData' = TRUE
        /\ UNCHANGED <<age, unserved>>
     \/ /\ Running("valid")
        /\ Available("payload") /\ hasData' = TRUE
        /\ age' = 0 /\ unserved' = 0
  /\ UNCHANGED timer

\* Fault variant: the watchdog trusts a session that is up.
CheckStalenessOffline ==
  /\ timer = 0
  /\ timer' = Period
  /\ IF available /\ age > Stale /\ link = "down"
       THEN Unavailable /\ verdict' = TRUE
       ELSE UNCHANGED <<available, by, unserved, verdict>>
  /\ UNCHANGED <<link, broker, paho, queue, hasData, age, budget>>

\* Fault variant: data as old as the timeout is stale already.
CheckStalenessEarly ==
  /\ timer = 0
  /\ Prompt => Settled
  /\ timer' = Period
  /\ IF available /\ age >= Stale
       THEN Unavailable /\ verdict' = TRUE
       ELSE UNCHANGED <<available, by, unserved, verdict>>
  /\ UNCHANGED <<link, broker, paho, queue, hasData, age, budget>>

\* The watchdog's timer.
_check_staleness ==
  /\ timer = 0
  /\ Prompt => Settled
  /\ timer' = Period
  /\ IF available /\ age > Stale
       THEN Unavailable /\ verdict' = TRUE
       ELSE UNCHANGED <<available, by, unserved, verdict>>
  /\ UNCHANGED <<link, broker, paho, queue, hasData, age, budget>>

\* A capacity entity requests a refresh: _async_update_data returns the data it
\* has, and its caller (external) takes that for a successful update.
_async_update_data ==
  /\ hasData /\ refreshes < MaxRefreshes
  /\ refreshes' = refreshes + 1
  /\ Available("refresh")
  /\ UNCHANGED <<link, broker, paho, queue, hasData, age, timer, unserved,
                 disconnects, verdict>>

-----------------------------------------------------------------------------

\* The event loop does not let a timer wait for a whole tick.
Tick ==
  /\ timer > 0
  /\ Prompt => Settled
  /\ timer' = timer - 1
  /\ age' = Lesser(age + 1, Stale + 1)
  /\ unserved' = Lesser(unserved + 1,
                        IF available THEN Stale + Period + 1 ELSE Stale)
  /\ UNCHANGED <<link, broker, paho, queue, available, hasData, by, budget,
                 verdict>>

PahoThread == Subscribe \/ _on_message \/ _on_message_fresh
EventLoop  == _mark_available \/ _mark_unavailable \/ _process_payload

Next ==
  \/ PollCycle \/ SayOffline \/ HangOrResume
  \/ _on_connect \/ _on_disconnect \/ PahoThread
  \/ EventLoop \/ _check_staleness \/ _async_update_data
  \/ Tick

Spec == Init /\ [][Next]_vars

-----------------------------------------------------------------------------
(* Properties.                                                             *)

\* However the callbacks interleave, the entities are never available, without a
\* break, for longer than the staleness timeout and one watchdog interval since
\* a state payload was last processed to its end.  "online" messages, replays,
\* payloads the validation drops or whose listeners raise, and refreshes do not
\* extend it.
StaleExposureBounded == available => unserved <= Stale + Period

\* Told of an outage: a callback that hides the entities waits on the event loop.
Told == \E i \in DOMAIN queue : queue[i] = "mark_unavailable"

\* The integration keeps the promise of Availability: the entities are hidden
\* because of an "offline", of a lost connection or of data at least Stale old,
\* and never otherwise; no such word is lost in the queue; and the exposure to
\* old data is bounded, whatever the callbacks' order.
Promise == INSTANCE Availability
             WITH shown    <- available,
                  exposure <- IF available THEN unserved ELSE 0,
                  told     <- Told

KeepsPromise == Promise!Spec

\* Once the callback of a lost connection has run, the entities are unavailable
\* whatever was queued before it; only a refresh can show them again.
LossIsSeen ==
  (link = "down" /\ "mark_unavailable" \notin {queue[i] : i \in DOMAIN queue})
    => ~available \/ by = "refresh"

\* When the last word of the sidecar is "offline" and everything has been
\* delivered, live or replayed after a reconnection, the entities are
\* unavailable; only a refresh can show them again.
OfflineIsFinal ==
  (Settled /\ link = "both" /\ last = "offline")
    => ~available \/ by = "refresh"

\* The comment in _on_message: only a fresh, successfully validated state
\* payload clears a staleness-driven unavailable.
OnlyFreshDataClearsStale == [][verdict /\ ~available => ~available']_vars

-----------------------------------------------------------------------------
(* The inductive invariants behind the safety properties and the refinement. *)

\* The clock the watchdog reads is never behind the time without a payload; once
\* that time is beyond Stale the watchdog's next run ends the exposure.
Exposure ==
  /\ unserved <= Stale => unserved <= age
  /\ unserved > Stale =>
       available /\ age > Stale /\ unserved + timer <= Stale + Period

\* The callback of a lost connection is the last one in the queue.
LossQueued ==
  link = "down" =>
    /\ paho = "idle"
    /\ queue # <<>> => queue[Len(queue)] = "mark_unavailable"
    /\ queue = <<>> => ~available \/ by = "refresh"

\* The watchdog's clock and the time without a payload run together.
Clocks ==
  /\ age <= Stale => unserved = age
  /\ age > Stale => unserved >= Stale

\* An "offline" said last is the last message on its way, else the last callback
\* in the queue, else done; a client yet to subscribe will be replayed it.
OfflineLast ==
  last = "offline" =>
    /\ retained.avail = "offline"
    /\ link = "both" =>
         /\ inflight # <<>> => inflight[Len(inflight)] = "offline"
         /\ inflight = <<>> =>
              /\ paho = "idle"
              /\ queue # <<>> => queue[Len(queue)] = "mark_unavailable"
              /\ queue = <<>> => ~available \/ by = "refresh"

IInv == TypeOK /\ Exposure /\ LossQueued
=============================================================================
