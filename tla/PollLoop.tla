------------------------------ MODULE PollLoop ------------------------------
(***************************************************************************)
(* The sidecar's main() (src/src/main.py): the poll cycle with its two     *)
(* error handlers, the fallback discovery, the per-battery loops that      *)
(* swallow errors, the publication of a reading, and the shutdown by       *)
(* SIGTERM, which main() turns into a KeyboardInterrupt raised at whatever *)
(* statement the main thread is executing.                                 *)
(*                                                                         *)
(* Around it, as external parts: the BMS console (which answers, fails or  *)
(* returns unusable text), paho's connection to the broker, and the        *)
(* broker's retained availability with the last will of each session.      *)
(*                                                                         *)
(* Data is kept as its provenance: whether it was read in this poll cycle, *)
(* or over the connection that is open now.                                *)
(***************************************************************************)
EXTENDS Integers, FiniteSets

CONSTANTS
  MaxBatteries,  \* MAX_BATTERIES
  Level,         \* MONITORING_LEVEL
  AutoSync,      \* AUTO_SYNC_TIME
  MaxSignals,    \* bound on the SIGTERMs received
  MaxSessions    \* bound on the broken sessions the broker has not expired

ASSUME ConfigAssumption ==
  /\ MaxBatteries \in Nat \ {0}
  /\ Level \in {"low", "medium", "high"}
  /\ AutoSync \in BOOLEAN
  /\ MaxSignals \in Nat
  /\ MaxSessions \in Nat

VARIABLES
  pc,            \* the statement the main thread is at
  handler,       \* which except clause is running: "oserror" or "error"
  todo,          \* the batteries a per-battery loop still has to visit
  info_fetched,  \* info_fetched
  info_live,     \* history: device info was read over the connection open now
  batteries,     \* system.batteries, by sys_id
  found,         \* _fetch_batteries_indexed: the batteries seen so far
  reading,       \* system's batteries, voltage .. power: of which cycle
  pwr_parsed,    \* pwr_parsed
  sample,        \* energy._last_time and _last_power are set
  gap,           \* history: a cycle failed since the energy sample was taken
  flushed,       \* energy.flush() ran
  bms,           \* the console: "good", "flaky" or "dead"
  link,          \* paho's connection: "up", "dead" (not yet noticed), "down",
                 \* or "closed" for good
  sessions,      \* broken sessions whose will the broker has yet to publish
  avail,         \* the retained availability message
  failing,       \* history: the latest cycle failed, its handler has run
  signals,       \* SIGTERMs received
  exit           \* "no", "aborted" before connecting, "clean" or "uncaught"

loop    == <<pc, handler, todo>>
system  == <<info_fetched, info_live, batteries, found, reading, pwr_parsed>>
tracker == <<sample, gap, flushed>>
broker  == <<sessions, avail>>
stop    == <<signals, exit>>
vars    == <<loop, system, tracker, bms, link, broker, failing, stop>>

Ids == 1 .. MaxBatteries

\* Statements inside the try block of the poll cycle.
TryBody == {"info", "sync", "pwr", "pwr_again", "parse", "probe", "enrich",
            "stat", "time", "bat", "update", "pub_state", "pub_online"}

\* The sleeps with a try block of their own.
GuardedSleeps == {"reconnect_sleep", "poll_sleep"}

\* Statements no except KeyboardInterrupt clause covers.
Unguarded == {"setup", "cycle_start", "h_offline", "h_close", "h_invalidate"}

Cleanup == {"stop_offline", "stop_mqtt", "stop_bms", "stop_flush"}

PCs == {"connect", "exited"}
         \cup TryBody \cup GuardedSleeps \cup Unguarded \cup Cleanup

TypeOK ==
  /\ pc \in PCs
  /\ handler \in {"none", "oserror", "error"}
  /\ todo \subseteq Ids /\ batteries \subseteq Ids /\ found \subseteq Ids
  /\ {info_fetched, info_live, pwr_parsed, sample, gap, flushed, failing}
       \subseteq BOOLEAN
  /\ reading \in {"none", "old", "new"}
  /\ bms \in {"good", "flaky", "dead"}
  /\ link \in {"up", "dead", "down", "closed"}
  /\ sessions \in 0 .. MaxSessions + 1
  /\ avail \in {"none", "online", "offline"}
  /\ signals \in 0 .. MaxSignals
  /\ exit \in {"no", "aborted", "clean", "uncaught"}

-----------------------------------------------------------------------------
(* The console, seen through send_command and the parser that reads its    *)
(* reply: usable text, text without what the caller needs, an OSError      *)
(* (which TimeoutError, ConnectionError and SerialException are), or any   *)
(* other exception.                                                        *)

Outcomes ==
  CASE bms = "good"  -> {"usable"}
    [] bms = "flaky" -> {"usable", "unusable", "oserror", "error"}
    [] bms = "dead"  -> {"oserror"}

Replies == Outcomes \cap {"usable", "unusable"}

Errors == Outcomes \ Replies

-----------------------------------------------------------------------------
(* publish() with QoS 0: delivered on a live connection, lost without an   *)
(* error on one whose death is not noticed yet, refused with               *)
(* MQTT_ERR_NO_CONN (logged, not raised) when there is none.               *)

Announce(status) ==
  avail' = IF link = "up" THEN status ELSE avail

-----------------------------------------------------------------------------

Init ==
  /\ pc = "connect" /\ handler = "none"
  /\ todo = {} /\ batteries = {} /\ found = {}
  /\ info_fetched = FALSE /\ info_live = FALSE
  /\ reading = "none" /\ pwr_parsed = FALSE
  /\ sample = FALSE /\ gap = FALSE /\ flushed = FALSE
  /\ bms = "good"
  /\ link = "down"
  /\ sessions = 0
  /\ avail \in {"none", "offline"}
  /\ failing = FALSE
  /\ signals = 0
  /\ exit = "no"

\* client.connect() raises: logged, slept over, tried again.
ConnectFails ==
  /\ pc = "connect"
  /\ UNCHANGED vars

ConnectSucceeds ==
  /\ pc = "connect"
  /\ pc' = "setup"
  /\ link' = "up"
  /\ UNCHANGED <<handler, todo, system, tracker, bms, broker, failing, stop>>

\* loop_start(), BmsConnection(), EnergyTracker().
Setup ==
  /\ pc = "setup"
  /\ pc' = "cycle_start"
  /\ UNCHANGED <<handler, todo, system, tracker, bms, link, broker, failing,
                 stop>>

\* The top of the loop: what the previous cycle read is now of an old cycle.
CycleStart ==
  /\ pc = "cycle_start"
  /\ pc' = IF info_fetched THEN "pwr" ELSE "info"
  /\ reading' = IF reading = "new" THEN "old" ELSE reading
  /\ UNCHANGED <<handler, todo, info_fetched, info_live, batteries, found,
                 pwr_parsed, tracker, bms, link, broker, failing, stop>>

\* A statement of the try block raises: control goes to the except clause.
Raise(error) ==
  /\ pc' = "h_offline"
  /\ handler' = error
  /\ todo' = {}
  /\ gap' = TRUE

RaiseFromCommand ==
  /\ pc \in {"info", "sync", "pwr", "pwr_again", "probe", "stat", "time"}
  /\ \E error \in Errors : Raise(error)
  /\ UNCHANGED <<system, sample, flushed, bms, link, broker, failing, stop>>

\* A parser trips over a malformed reply.
RaiseFromParser ==
  /\ pc \in {"parse", "update"}
  /\ bms = "flaky"
  /\ Raise("error")
  /\ UNCHANGED <<system, sample, flushed, bms, link, broker, failing, stop>>

\* CMD_INFO; info_fetched is set whatever the reply holds.
FetchInfo ==
  /\ pc = "info"
  /\ Replies # {}
  /\ info_fetched' = TRUE
  /\ info_live' = TRUE
  /\ pc' = IF AutoSync THEN "sync" ELSE "pwr"
  /\ UNCHANGED <<handler, todo, batteries, found, reading, pwr_parsed, tracker,
                 bms, link, broker, failing, stop>>

SyncTime ==
  /\ pc = "sync"
  /\ Replies # {}
  /\ pc' = "pwr"
  /\ UNCHANGED <<handler, todo, system, tracker, bms, link, broker, failing,
                 stop>>

\* _pwr_parser with the header found: the batteries and their aggregates are
\* replaced, by none when no row is valid.
ParsePwr(ids) ==
  /\ pwr_parsed' = TRUE
  /\ batteries' = ids
  /\ reading' = "new"

\* A sound console lists at least one battery.
PwrTables == IF bms = "good" THEN (SUBSET Ids) \ {{}} ELSE SUBSET Ids

\* The first CMD_PWR; without a header it is sent once more after a second.
FetchPwr ==
  /\ pc = "pwr"
  /\ \/ /\ "usable" \in Replies
        /\ \E ids \in PwrTables : ParsePwr(ids)
        /\ pc' = "parse"
     \/ /\ "unusable" \in Replies
        /\ pc' = "pwr_again"
        /\ UNCHANGED <<batteries, reading, pwr_parsed>>
  /\ UNCHANGED <<handler, todo, info_fetched, info_live, found, tracker, bms,
                 link, broker, failing, stop>>

FetchPwrAgain ==
  /\ pc = "pwr_again"
  /\ \/ /\ "usable" \in Replies
        /\ \E ids \in PwrTables : ParsePwr(ids)
     \/ /\ "unusable" \in Replies
        /\ pwr_parsed' = FALSE
        /\ UNCHANGED <<batteries, reading>>
  /\ pc' = "parse"
  /\ UNCHANGED <<handler, todo, info_fetched, info_live, found, tracker, bms,
                 link, broker, failing, stop>>

\* Fault variant: leftovers of the previous poll are good enough.
FallbackWithoutBatteries == batteries = {}

NeedsFallback == batteries = {} \/ ~pwr_parsed

\* Which way the batteries are completed.
ChooseDetail ==
  /\ pc = "parse"
  /\ IF NeedsFallback
       THEN pc' = "probe" /\ todo' = Ids /\ found' = {}
       ELSE /\ pc' = IF Level = "low" THEN "stat" ELSE "enrich"
            /\ todo' = IF Level = "low" THEN {} ELSE batteries
            /\ UNCHANGED found
  /\ UNCHANGED <<handler, info_fetched, info_live, batteries, reading,
                 pwr_parsed, tracker, bms, link, broker, failing, stop>>

-----------------------------------------------------------------------------
(* _fetch_batteries_indexed.                                               *)

\* One slot: a battery, an absent slot or an unusable block, or "not found",
\* which ends the probing.  (The slots are probed in ascending order; nothing
\* here depends on it.)
ProbeSlot(id) ==
  /\ pc = "probe"
  /\ \/ /\ "usable" \in Replies
        /\ found' = found \cup {id}
        /\ todo' = todo \ {id}
     \/ /\ Replies # {}
        /\ todo' \in {{}, todo \ {id}}
        /\ UNCHANGED found
  /\ UNCHANGED <<pc, handler, info_fetched, info_live, batteries, reading,
                 pwr_parsed, tracker, bms, link, broker, failing, stop>>

\* The end of the probing: the batteries and aggregates are replaced, and an
\* empty result is an OSError.
EndProbe ==
  /\ pc = "probe" /\ todo = {}
  /\ batteries' = found
  /\ reading' = "new"
  /\ IF found = {}
       THEN Raise("oserror")
       ELSE pc' = "stat" /\ UNCHANGED <<handler, todo, gap>>
  /\ UNCHANGED <<info_fetched, info_live, found, pwr_parsed, sample, flushed,
                 bms, link, broker, failing, stop>>

-----------------------------------------------------------------------------
(* The loops that swallow errors: _enrich_batteries_indexed and, at level  *)
(* high, the cell data.                                                    *)

VisitBattery(id) ==
  /\ pc \in {"enrich", "bat"}
  /\ todo' = todo \ {id}
  /\ UNCHANGED <<pc, handler, system, tracker, bms, link, broker, failing,
                 stop>>

EndVisits ==
  /\ pc \in {"enrich", "bat"} /\ todo = {}
  /\ pc' = IF pc = "enrich" THEN "stat" ELSE "update"
  /\ UNCHANGED <<handler, todo, system, tracker, bms, link, broker, failing,
                 stop>>

FetchStat ==
  /\ pc = "stat"
  /\ Replies # {}
  /\ pc' = "time"
  /\ UNCHANGED <<handler, todo, system, tracker, bms, link, broker, failing,
                 stop>>

FetchTime ==
  /\ pc = "time"
  /\ Replies # {}
  /\ IF Level = "high"
       THEN pc' = "bat" /\ todo' = batteries
       ELSE pc' = "update" /\ UNCHANGED todo
  /\ UNCHANGED <<handler, system, tracker, bms, link, broker, failing, stop>>

-----------------------------------------------------------------------------
(* The end of a good cycle.                                                *)

UpdateEnergy ==
  /\ pc = "update"
  /\ sample' = TRUE
  /\ gap' = FALSE
  /\ pc' = "pub_state"
  /\ UNCHANGED <<handler, todo, system, flushed, bms, link, broker, failing,
                 stop>>

PublishState ==
  /\ pc = "pub_state"
  /\ pc' = "pub_online"
  /\ UNCHANGED <<handler, todo, system, tracker, bms, link, broker, failing,
                 stop>>

\* Fault variant: "online" is announced on the first cycle only.
PublishOnlineOnce ==
  /\ pc = "pub_online"
  /\ IF avail = "none" THEN Announce("online") ELSE UNCHANGED avail
  /\ failing' = FALSE
  /\ pc' = "poll_sleep"
  /\ UNCHANGED <<handler, todo, system, tracker, bms, link, sessions, stop>>

\* A refused publish is only logged.
PublishOnline ==
  /\ pc = "pub_online"
  /\ Announce("online")
  /\ failing' = FALSE
  /\ pc' = "poll_sleep"
  /\ UNCHANGED <<handler, todo, system, tracker, bms, link, sessions, stop>>

PollSleep ==
  /\ pc = "poll_sleep"
  /\ pc' = "cycle_start"
  /\ UNCHANGED <<handler, todo, system, tracker, bms, link, broker, failing,
                 stop>>

-----------------------------------------------------------------------------
(* except (SerialException, OSError) and except Exception: the same four   *)
(* statements, then the reconnect delay or the ordinary poll delay.        *)

\* Fault variant: the handler says nothing, trusting the last will.
HandlerSilent ==
  /\ pc = "h_offline"
  /\ pc' = "h_close"
  /\ UNCHANGED <<handler, todo, system, tracker, bms, link, broker, failing,
                 stop>>

HandlerOffline ==
  /\ pc = "h_offline"
  /\ Announce("offline")
  /\ pc' = "h_close"
  /\ UNCHANGED <<handler, todo, system, tracker, bms, link, sessions, failing,
                 stop>>

HandlerClose ==
  /\ pc = "h_close"
  /\ info_live' = FALSE
  /\ pc' = "h_invalidate"
  /\ UNCHANGED <<handler, todo, info_fetched, batteries, found, reading,
                 pwr_parsed, tracker, bms, link, broker, failing, stop>>

\* The end of the except clause.
LeaveHandler ==
  /\ failing' = TRUE
  /\ handler' = "none"
  /\ pc' = IF handler = "oserror" THEN "reconnect_sleep" ELSE "poll_sleep"

\* Fault variant: only the OSError handler drops the energy sample.
InvalidateAfterOSError ==
  /\ pc = "h_invalidate"
  /\ sample' = IF handler = "oserror" THEN FALSE ELSE sample
  /\ info_fetched' = FALSE
  /\ LeaveHandler
  /\ UNCHANGED <<todo, info_live, batteries, found, reading, pwr_parsed, gap,
                 flushed, bms, link, broker, stop>>

\* energy.invalidate_last_time(); info_fetched = False
HandlerInvalidate ==
  /\ pc = "h_invalidate"
  /\ sample' = FALSE
  /\ info_fetched' = FALSE
  /\ LeaveHandler
  /\ UNCHANGED <<todo, info_live, batteries, found, reading, pwr_parsed, gap,
                 flushed, bms, link, broker, stop>>

ReconnectSleep ==
  /\ pc = "reconnect_sleep"
  /\ pc' = "cycle_start"
  /\ UNCHANGED <<handler, todo, system, tracker, bms, link, broker, failing,
                 stop>>

-----------------------------------------------------------------------------
(* _clean_shutdown.                                                        *)

\* Fault variant: a shutdown that leaves the announcement to the last will.
StopWithoutOffline ==
  /\ pc = "stop_offline"
  /\ pc' = "stop_mqtt"
  /\ UNCHANGED <<handler, todo, system, tracker, bms, link, broker, failing,
                 stop>>

\* publish and wait_for_publish(timeout=5), whose exceptions are dropped.
StopOffline ==
  /\ pc = "stop_offline"
  /\ Announce("offline")
  /\ pc' = "stop_mqtt"
  /\ UNCHANGED <<handler, todo, system, tracker, bms, link, sessions, failing,
                 stop>>

\* loop_stop() and disconnect(): over a live connection the broker sees the
\* DISCONNECT and discards the will.
StopMqtt ==
  /\ pc = "stop_mqtt"
  /\ link' = "closed"
  /\ pc' = "stop_bms"
  /\ UNCHANGED <<handler, todo, system, tracker, bms, broker, failing, stop>>

StopBms ==
  /\ pc = "stop_bms"
  /\ info_live' = FALSE
  /\ pc' = "stop_flush"
  /\ UNCHANGED <<handler, todo, info_fetched, batteries, found, reading,
                 pwr_parsed, tracker, bms, link, broker, failing, stop>>

\* energy.flush(), then sys.exit(0), or the exception that cut the publish.
StopFlush ==
  /\ pc = "stop_flush"
  /\ flushed' = TRUE
  /\ exit' = IF exit = "no" THEN "clean" ELSE exit
  /\ pc' = "exited"
  /\ UNCHANGED <<handler, todo, system, sample, gap, bms, link, broker,
                 failing, signals>>

\* The process dies with a traceback: its connection breaks, and the broker
\* publishes the will of the session.
Die ==
  /\ exit' = "uncaught"
  /\ pc' = "exited"
  /\ link' = "closed"
  /\ sessions' = IF link = "up" THEN sessions + 1 ELSE sessions

\* Fault variant: the per-battery loop swallows the KeyboardInterrupt as well.
SignalOutsideBatteryLoops ==
  (TryBody \ {"bat", "enrich"}) \cup GuardedSleeps

\* Where the KeyboardInterrupt reaches _clean_shutdown.
CleanlyInterrupted == TryBody \cup GuardedSleeps

\* SIGTERM.
Signal ==
  /\ signals < MaxSignals /\ pc # "exited"
  /\ signals' = signals + 1
  /\ todo' = {}
  /\ CASE pc = "connect" ->             \* _abort_before_connected
            /\ exit' = "aborted" /\ pc' = "exited" /\ link' = "closed"
            /\ UNCHANGED sessions
       [] pc \in CleanlyInterrupted ->
            /\ pc' = "stop_offline"
            /\ UNCHANGED <<exit, link, sessions>>
       [] pc = "stop_offline" ->        \* the finally clause still runs
            /\ exit' = "uncaught" /\ pc' = "stop_mqtt"
            /\ UNCHANGED <<link, sessions>>
       [] pc \in Unguarded \cup (Cleanup \ {"stop_offline"}) -> Die
       [] OTHER -> UNCHANGED <<pc, exit, link, sessions>>
  /\ UNCHANGED <<handler, system, tracker, bms, avail, failing>>

-----------------------------------------------------------------------------
(* The environment.                                                        *)

BmsChanges ==
  /\ bms' \in {"good", "flaky", "dead"} \ {bms}
  /\ UNCHANGED <<loop, system, tracker, link, broker, failing, stop>>

\* The connection breaks, at once or without paho noticing it; the broker will
\* publish the will of the session.
LinkBreaks ==
  /\ link = "up"
  /\ sessions < MaxSessions
  /\ link' \in {"dead", "down"}
  /\ sessions' = sessions + 1
  /\ UNCHANGED <<loop, system, tracker, bms, avail, failing, stop>>

\* The keepalive expires in paho.
LinkNoticed ==
  /\ link = "dead"
  /\ link' = "down"
  /\ UNCHANGED <<loop, system, tracker, bms, broker, failing, stop>>

\* paho reconnects with an empty client id: a new session, whose beginning does
\* not end the old one.
LinkReturns ==
  /\ link = "down" /\ pc # "connect"
  /\ link' = "up"
  /\ UNCHANGED <<loop, system, tracker, bms, broker, failing, stop>>

WillFires ==
  /\ sessions > 0
  /\ sessions' = sessions - 1
  /\ avail' = "offline"
  /\ UNCHANGED <<loop, system, tracker, bms, link, failing, stop>>

-----------------------------------------------------------------------------

Cycle ==
  \/ CycleStart \/ FetchInfo \/ SyncTime \/ FetchPwr \/ FetchPwrAgain
  \/ ChooseDetail \/ EndProbe \/ EndVisits
  \/ \E id \in todo : ProbeSlot(id) \/ VisitBattery(id)
  \/ FetchStat \/ FetchTime \/ UpdateEnergy \/ PublishState \/ PublishOnline
  \/ RaiseFromCommand \/ RaiseFromParser
  \/ HandlerOffline \/ HandlerClose \/ HandlerInvalidate
  \/ ReconnectSleep \/ PollSleep

Shutdown == StopOffline \/ StopMqtt \/ StopBms \/ StopFlush

MainThread == ConnectSucceeds \/ Setup \/ Cycle \/ Shutdown

Environment ==
  \/ ConnectFails \/ Signal \/ BmsChanges
  \/ LinkBreaks \/ LinkNoticed \/ LinkReturns \/ WillFires

Next == MainThread \/ Environment

Spec == Init /\ [][Next]_vars

\* The main thread keeps running, paho keeps reconnecting to a reachable broker,
\* and the broker expires every broken session.
FairSpec ==
  /\ Spec
  /\ WF_vars(MainThread)
  /\ WF_vars(LinkNoticed) /\ WF_vars(LinkReturns) /\ WF_vars(WillFires)

-----------------------------------------------------------------------------
(* Properties.                                                             *)

\* A published reading is of this poll cycle, whichever of the aggregate table
\* and the fallback produced it, and of at least one battery; the device info
\* in it was asked for over the connection that delivered the reading.
PublishedReadingIsCurrent ==
  pc \in {"pub_state", "pub_online"} =>
    reading = "new" /\ batteries # {} /\ info_live

\* update() never integrates over a failed cycle: when it runs after one, no
\* sample from before the failure is left (invalidate_last_time).
NoEnergyAcrossFailure == pc = "update" /\ gap => ~sample

\* Once the handler of a failed cycle has run, and until a cycle succeeds, the
\* retained availability is not "online", unless the connection broke and the
\* broker still owes the will of that session.
NeverOnlineWhileFailing == failing /\ sessions = 0 => avail # "online"

\* A process that ends, cleanly or not, on its first signal leaves a retained
\* availability that is not "online" once the broker has expired its sessions:
\* either the explicit "offline" or the last will gets there, never neither.
\* (A second signal that cuts the publish of _clean_shutdown is followed by the
\* disconnect() of its finally clause, which makes the broker drop the will.)
NotOnlineAfterExit ==
  pc = "exited" /\ signals <= 1 /\ sessions = 0 => avail # "online"

\* The docstring of _clean_shutdown: a clean shutdown happens regardless of
\* which statement of the poll loop the signal lands on; so once a cycle has
\* taken an energy sample, the process does not end without energy.flush().
SignalAlwaysCleansUp == pc = "exited" /\ sample => flushed

\* A console that answers from some point on, with a connection that stays up,
\* is eventually announced "online" for good, although the will of an earlier
\* session may still overwrite the announcement.
HealthyConverges ==
  <>[](bms = "good" /\ link = "up" /\ signals = 0) => <>[](avail = "online")

\* A console that stays silent is eventually announced "offline" for good, but
\* for the second signal that NotOnlineAfterExit excludes.
SilenceIsSeen ==
  <>[](bms = "dead" /\ signals <= 1) => <>[](avail # "online")

\* A signal ends the process, whatever loop it interrupts.
SignalEndsProcess == (signals > 0) ~> (pc = "exited")

-----------------------------------------------------------------------------
(* The inductive invariant behind the safety properties.                   *)

\* Statements only reached once the device info of this connection and, for the
\* second set, the batteries of this cycle are there.
AfterInfo == TryBody \ {"info"}
AfterBatteries == TryBody \ {"info", "sync", "pwr", "pwr_again", "parse", "probe"}

InHandler == {"h_offline", "h_close", "h_invalidate"}

Provenance ==
  /\ pc \in AfterInfo => info_live
  /\ pc = "parse" /\ pwr_parsed => reading = "new"
  /\ pc \in AfterBatteries => reading = "new" /\ batteries # {}
  /\ info_fetched /\ pc \in {"cycle_start"} \cup GuardedSleeps => info_live
  /\ pc \in {"connect", "setup"} => ~info_fetched

GapDropsSample ==
  gap => ~sample \/ pc \in InHandler \cup Cleanup \cup {"exited"}

\* A connection that is not up leaves "offline" behind once its will is out.
BrokenLinkIsSeen ==
  /\ pc = "connect" => link = "down" /\ sessions = 0
  /\ pc # "exited" => sessions <= MaxSessions
  /\ link \in {"dead", "down"} /\ sessions = 0 => avail # "online"

FailureAnnounced ==
  /\ pc \in {"h_close", "h_invalidate"} /\ sessions = 0 => avail # "online"
  /\ NeverOnlineWhileFailing

StopAnnounced ==
  /\ pc \in Cleanup => signals >= 1
  /\ pc \in Cleanup \ {"stop_offline"} /\ signals <= 1 /\ sessions = 0 =>
       avail # "online"
  /\ link = "closed" => pc \in {"stop_bms", "stop_flush", "exited"}
  /\ NotOnlineAfterExit

IInv ==
  /\ TypeOK
  /\ Provenance
  /\ GapDropsSample
  /\ BrokenLinkIsSeen
  /\ FailureAnnounced
  /\ StopAnnounced
=============================================================================
