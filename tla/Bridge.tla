------------------------------- MODULE Bridge -------------------------------
(***************************************************************************)
(* The whole path from the battery console to the entities, in time: the   *)
(* sidecar's poll loop (main() in src/src/main.py) with the lengths of its *)
(* cycle and of its sleeps, its session with the broker and the will of a  *)
(* session that breaks, composed with the integration's coordinator        *)
(* (module Coordinator) at the other end of the same broker.               *)
(*                                                                         *)
(* The steps inside a poll cycle are in module PollLoop; here a cycle has  *)
(* an outcome and a length.  The state and the "online" of one cycle are   *)
(* published by two calls: the session may break or return between them.   *)
(***************************************************************************)
EXTENDS Coordinator

CONSTANTS
  Interval,    \* POLL_INTERVAL, in ticks
  MaxCycle,    \* the longest a poll cycle takes, when it does not hang
  Reconnect,   \* the longest of the sleep after an OSError
  Misses,      \* consecutive polls without a usable payload to be tolerated
  MaxSessions  \* bound on the broken sessions the broker has not expired

ASSUME BridgeAssumption ==
  /\ "valid" \in Payloads
  /\ Interval \in Nat \ {0} /\ MaxCycle \in Nat /\ Reconnect \in Nat
  /\ Misses \in Nat /\ MaxSessions \in Nat

\* The longest POLL_INTERVAL that main() accepts, and the cycles it warns about.
_MAX_POLL_INTERVAL == Stale \div 2
TooSlow(cycle) == cycle + Interval > _MAX_POLL_INTERVAL

VARIABLES
  phase,    \* where the main thread is
  spent,    \* ticks spent there
  wire,     \* paho's session with the broker: "up" or "down"
  sessions, \* broken sessions whose will the broker has yet to publish
  console,  \* the battery console answers as it should: "good" or "bad"
  missed    \* history: polls missed since data was last served, Misses + 1
            \* when more than a poll was: a session, the console, the thread

sidecar == <<phase, spent, wire, sessions, console>>
allVars == <<vars, sidecar, missed>>

Phases == {"connect", "cycle", "announce", "sleep", "reconnect", "hung"}

BridgeTypeOK ==
  /\ TypeOK
  /\ phase \in Phases
  /\ spent \in 0 .. Interval + MaxCycle + Reconnect + 1
  /\ wire \in {"up", "down"}
  /\ sessions \in 0 .. MaxSessions
  /\ console \in {"good", "bad"}
  /\ missed \in 0 .. Misses + 1

\* The integration starts with the sidecar anywhere.
BridgeInit ==
  /\ Init
  /\ phase \in {"connect", "cycle", "sleep", "hung"} /\ spent = 0
  /\ speaking = (phase # "hung")
  /\ wire = IF phase = "connect" THEN "down" ELSE "up"
  /\ sessions = 0
  /\ console \in {"good", "bad"}
  /\ missed = Misses + 1

-----------------------------------------------------------------------------
(* The main thread.                                                        *)

\* client.publish(): refused, without an exception, when there is no session.
Send(m) ==
  IF wire = "up"
    THEN Publish(<<m>>) /\ UNCHANGED speaking
    ELSE UNCHANGED vars

Enter(p) == phase' = p /\ spent' = 0

\* A failed or hung poll, a broken session, a will: more than a missed poll.
Trouble == missed' = Misses + 1

\* client.connect(), and the first cycle.
Connect ==
  /\ phase = "connect" /\ Enter("cycle")
  /\ wire' = "up"
  /\ UNCHANGED <<vars, sessions, console, missed>>

\* A good cycle ends with its reading published; a console that answers badly
\* may make any payload of it.
PublishState ==
  /\ phase = "cycle" /\ Enter("announce")
  /\ \E p \in IF console = "good" THEN {"valid"} ELSE Payloads :
       /\ Send(p)
       /\ missed' = IF p = "valid" THEN missed ELSE Lesser(missed + 1, Misses + 1)
  /\ UNCHANGED <<wire, sessions, console>>

\* The second publish of the same cycle, whatever became of the first.
PublishOnline ==
  /\ phase = "announce" /\ Enter("sleep")
  /\ Send("online")
  /\ UNCHANGED <<wire, sessions, console, missed>>

\* The except clauses: "offline", then the reconnect delay or the poll delay.
CycleFails ==
  /\ phase = "cycle" /\ console = "bad"
  /\ Enter("reconnect") \/ Enter("sleep")
  /\ Send("offline")
  /\ Trouble
  /\ UNCHANGED <<wire, sessions, console>>

Wake ==
  /\ \/ phase = "sleep" /\ spent = Interval
     \/ phase = "reconnect"
  /\ Enter("cycle")
  /\ UNCHANGED <<vars, wire, sessions, console, missed>>

MainThread == Connect \/ PublishState \/ PublishOnline \/ CycleFails \/ Wake

\* The main thread blocks, paho's thread keeps the session up; or it goes on.
Hang ==
  /\ phase = "cycle" /\ Enter("hung")
  /\ HangOrResume /\ Trouble
  /\ UNCHANGED <<wire, sessions, console>>

Resume ==
  /\ phase = "hung" /\ spent > MaxCycle /\ Enter("cycle")
  /\ HangOrResume
  /\ UNCHANGED <<wire, sessions, console, missed>>

\* The process dies and is started again: its session breaks.
Crash ==
  /\ phase # "connect" /\ Enter("connect")
  /\ IF wire = "up"
       THEN sessions < MaxSessions /\ sessions' = sessions + 1
       ELSE UNCHANGED sessions
  /\ wire' = "down"
  /\ IF phase = "hung" THEN HangOrResume ELSE UNCHANGED vars
  /\ Trouble
  /\ UNCHANGED console

-----------------------------------------------------------------------------
(* The sidecar's session and the console.                                  *)

WireBreaks ==
  /\ wire = "up" /\ wire' = "down"
  /\ sessions < MaxSessions /\ sessions' = sessions + 1
  /\ Trouble
  /\ UNCHANGED <<vars, phase, spent, console>>

WireReturns ==
  /\ wire = "down" /\ wire' = "up" /\ phase # "connect"
  /\ UNCHANGED <<vars, phase, spent, sessions, console, missed>>

WillFires ==
  /\ sessions > 0 /\ sessions' = sessions - 1
  /\ Publish(<<"offline">>) /\ UNCHANGED speaking
  /\ Trouble
  /\ UNCHANGED <<phase, spent, wire, console>>

ConsoleChanges ==
  /\ console' = IF console = "good" THEN "bad" ELSE "good"
  /\ UNCHANGED <<vars, phase, spent, wire, sessions, missed>>

-----------------------------------------------------------------------------
(* The integration, as module Coordinator has it.                          *)

\* Polls are being made, delivered and received.
Sound == wire = "up" /\ phase \notin {"connect", "hung"} /\ link = "both"

ServePayload ==
  /\ _process_payload
  /\ missed' = IF Head(queue) = "valid" /\ Sound THEN 0 ELSE missed
  /\ UNCHANGED sidecar

LoseBroker ==
  /\ _on_disconnect /\ Trouble
  /\ UNCHANGED sidecar

Receive   == PahoThread /\ UNCHANGED <<sidecar, missed>>
OnConnect == _on_connect /\ UNCHANGED <<sidecar, missed>>
MarkIt    == (_mark_available \/ _mark_unavailable) /\ UNCHANGED <<sidecar, missed>>
Watchdog  == _check_staleness /\ UNCHANGED <<sidecar, missed>>
Refresh   == _async_update_data /\ UNCHANGED <<sidecar, missed>>

-----------------------------------------------------------------------------

\* How long the main thread stays in a phase at most; a publish takes no time,
\* and a cycle that hangs is longer than any other.
Limit == CASE phase = "cycle" -> MaxCycle
           [] phase = "sleep" -> Interval
           [] phase = "reconnect" -> Reconnect
           [] phase = "hung" -> MaxCycle + 1
           [] OTHER -> 0

Clock ==
  /\ Tick
  /\ \/ spent < Limit /\ spent' = spent + 1
     \/ phase \in {"connect", "hung"} /\ spent = Limit /\ UNCHANGED spent
  /\ UNCHANGED <<phase, wire, sessions, console, missed>>

BridgeNext ==
  \/ MainThread \/ Hang \/ Resume \/ Crash
  \/ WireBreaks \/ WireReturns \/ WillFires \/ ConsoleChanges
  \/ ServePayload \/ LoseBroker \/ Receive \/ OnConnect \/ MarkIt
  \/ Watchdog \/ Refresh
  \/ Clock

BridgeSpec == BridgeInit /\ [][BridgeNext]_allVars

\* Every thread that can run does, a broken session ends, and time passes.
FairBridge ==
  /\ BridgeSpec
  /\ WF_allVars(MainThread) /\ WF_allVars(WillFires)
  /\ WF_allVars(OnConnect) /\ WF_allVars(Receive)
  /\ WF_allVars(ServePayload \/ MarkIt) /\ WF_allVars(Watchdog)
  /\ WF_allVars(Clock)

-----------------------------------------------------------------------------
(* Properties.                                                             *)

\* The watchdog's timeout leaves room for Misses missed polls.
Margin ==
  /\ (Misses + 1) * (Interval + MaxCycle) <= Stale
  /\ Reconnect <= Interval

\* With such a margin the watchdog hides the entities only after more than
\* Misses polls in a row brought nothing usable, or after real trouble: a cycle
\* that failed or hung, a session that broke at either end.  A sound setup does
\* not flap (the comment on _MAX_POLL_INTERVAL, _warn_if_cycle_too_slow).
NoFalseAlarm ==
  [][Watchdog /\ available /\ ~available' => missed > Misses]_allVars

\* When the console answers, the main thread runs and both ends stay connected
\* from some point on, the entities become available and stay so: the wills of
\* earlier sessions and what was still queued are overcome.
Converges ==
  <>[](console = "good" /\ wire = "up" /\ phase \notin {"connect", "hung"}
         /\ link # "down")
    => <>[]available

\* When no state reaches the broker any more, because the thread hangs, the
\* console is dead, the process is gone or the session is while the thread goes
\* on publishing into nothing, the entities become and stay unavailable: also
\* when "online" is retained and replayed, or goes on being sent.  The
\* integration itself loses the broker finitely often (MaxDisconnects): it takes
\* the retained state it is then sent for a fresh one.  The first hypothesis is
\* that sessions do not break and return without end within one tick.
SilenceIsShown ==
  []<><<Clock>>_allVars /\ <>[][~(PublishState /\ wire = "up")]_allVars
    => <>[]~available

-----------------------------------------------------------------------------
(* The inductive invariants behind the refinement of Coordinator and behind *)
(* NoFalseAlarm.                                                            *)

\* The sidecar of Coordinator speaks unless the main thread hangs; no phase
\* lasts longer than its limit.
InStep ==
  /\ speaking = (phase # "hung")
  /\ phase \in Phases
  /\ spent \in Nat /\ spent <= Limit
  /\ missed \in 0 .. Misses + 1

\* A usable payload is on its way to the entities.
Carried ==
  \/ \E i \in DOMAIN inflight : inflight[i] = "valid"
  \/ \E i \in DOMAIN queue : queue[i] = "valid"

\* How long the next state may keep one waiting.
Wait == CASE phase = "cycle" -> MaxCycle - spent
          [] phase = "sleep" -> Interval - spent + MaxCycle
          [] phase = "reconnect" -> Reconnect - spent + MaxCycle
          [] OTHER -> Interval + MaxCycle

\* While polls are missed only by the console's payloads, either a usable one is
\* on its way or the next is due before the data is too old.
OnTime ==
  missed <= Misses =>
    /\ Sound
    /\ Carried \/ age + Wait <= (missed + 1) * (Interval + MaxCycle)
=============================================================================
