----------------------------- MODULE Lifecycle -----------------------------
(***************************************************************************)
(* The life of a config entry (async_setup_entry and async_unload_entry of *)
(* custom_components/pylontech_mqtt/__init__.py) with the coordinator each *)
(* setup makes: setup() and shutdown() of coordinator.py, paho's thread,   *)
(* the watchdog's timer, the listeners of the platforms, and the callbacks *)
(* on the event loop, which outlive the thread that queued them.           *)
(*                                                                         *)
(* A coordinator is named by the number of the setup that made it.         *)
(*                                                                         *)
(* External: Home Assistant, which sets an entry up, forwards it to the    *)
(* platforms, unloads it and reloads it; and paho's loop_stop() and        *)
(* disconnect().                                                           *)
(***************************************************************************)
EXTENDS Integers, Sequences

CONSTANTS
  MaxSetups,  \* bound on the setups in one run of Home Assistant
  MaxQueue    \* bound on the callbacks waiting on the event loop

ASSUME LifecycleAssumption == MaxSetups \in Nat /\ MaxQueue \in Nat

Setups == 1 .. MaxSetups

\* PLATFORMS
Platforms == {"sensor", "number"}

VARIABLES
  entry,     \* the entry's state, or the await its setup or unload is at
  setups,    \* how many setups have begun: the latest coordinator's name
  slot,      \* hass.data[DOMAIN][entry_id], 0 when there is none
  unload_ok, \* async_unload_platforms' answer
  executor,  \* the step of shutdown() the executor is at
  client,    \* of each coordinator: paho's client and its thread
  timers,    \* the coordinators whose watchdog timer is registered
  platforms, \* the loaded platforms, each with its coordinator
  listeners, \* the listeners that platforms have registered with a coordinator
  queue,     \* the event loop: <<coordinator, callback>>
  raised     \* history: the coordinators a raising await left behind

core == <<setups, slot, unload_ok>>
own  == <<client, timers, platforms, listeners>>
vars == <<entry, core, executor, own, queue, raised>>

States    == {"not_loaded", "forwarding", "loaded", "unloading", "stopping",
              "setup_error", "failed_unload"}
Steps     == {"idle", "unsub", "loop_stop", "disconnect", "return"}
Clients   == {"none", "connecting", "connected", "stopped_connected", "stopped"}
Callbacks == {"payload", "mark", "unsub_watchdog", "shutdown_done"}

Running(g) == client[g] \in {"connecting", "connected"}

TypeOK ==
  /\ entry \in States
  /\ setups \in 0 .. MaxSetups /\ slot \in 0 .. setups
  /\ unload_ok \in BOOLEAN
  /\ executor \in Steps
  /\ client \in [Setups -> Clients]
  /\ timers \subseteq 1 .. setups /\ raised \subseteq 1 .. setups
  /\ platforms \subseteq (1 .. setups) \X Platforms
  /\ listeners \subseteq (1 .. setups) \X Platforms
  /\ queue \in Seq(Setups \X Callbacks) /\ Len(queue) <= MaxQueue

Init ==
  /\ entry = "not_loaded"
  /\ setups = 0 /\ slot = 0 /\ unload_ok = FALSE
  /\ executor = "idle"
  /\ client = [g \in Setups |-> "none"]
  /\ timers = {} /\ platforms = {} /\ listeners = {} /\ raised = {}
  /\ queue = <<>>

\* hass.loop.call_soon_threadsafe
CallSoon(g, callback) ==
  /\ Len(queue) < MaxQueue
  /\ queue' = Append(queue, <<g, callback>>)

-----------------------------------------------------------------------------
(* Setting the entry up.                                                   *)

\* async_setup_entry up to the forwarding: an entry without MQTT settings is
\* refused before anything is made; coordinator.setup() starts the client's
\* thread and the timer.
SetupEntry ==
  /\ entry \in {"not_loaded", "setup_error"}
  /\ \/ entry' = "setup_error" /\ UNCHANGED <<core, client, timers>>
     \/ /\ setups < MaxSetups
        /\ entry' = "forwarding"
        /\ setups' = setups + 1 /\ slot' = setups + 1
        /\ client' = [client EXCEPT ![setups + 1] = "connecting"]
        /\ timers' = timers \cup {setups + 1}
        /\ UNCHANGED unload_ok
  /\ UNCHANGED <<executor, platforms, listeners, queue, raised>>

\* The platforms' async_setup_entry register their listeners; an exception (a
\* platform that cannot be imported, a cancelled setup) is the entry's failure,
\* after which nothing shuts the coordinator down.
ForwardSetups ==
  /\ entry = "forwarding"
  /\ \/ /\ entry' = "loaded"
        /\ platforms' = platforms \cup ({slot} \X Platforms)
        /\ listeners' = listeners \cup ({slot} \X Platforms)
        /\ UNCHANGED raised
     \/ /\ entry' = "setup_error"
        /\ raised' = raised \cup {slot}
        /\ UNCHANGED <<platforms, listeners>>
  /\ UNCHANGED <<core, executor, client, timers, queue>>

-----------------------------------------------------------------------------
(* Unloading it.                                                           *)

UnloadEntry ==
  /\ entry = "loaded"
  /\ entry' = "unloading"
  /\ UNCHANGED <<core, executor, own, queue, raised>>

\* Home Assistant unloads some of the platforms; it answers whether it was all.
Unloaded(ps) ==
  /\ platforms' = platforms \ ({slot} \X ps)
  /\ unload_ok' = (ps = Platforms)

\* Fault variant: a platform that does not unload keeps its coordinator.
KeepUnlessUnloaded ==
  /\ entry = "unloading"
  /\ \E ps \in SUBSET Platforms : Unloaded(ps)
  /\ slot' = 0
  /\ IF unload_ok' THEN entry' = "stopping" /\ executor' = "unsub"
                   ELSE entry' = "failed_unload" /\ UNCHANGED executor
  /\ UNCHANGED <<setups, client, timers, listeners, queue, raised>>

\* Fault variant: shutdown() is not awaited.
UnloadWithoutAwait ==
  /\ entry = "unloading"
  /\ \E ps \in SUBSET Platforms : Unloaded(ps)
  /\ slot' = 0 /\ executor' = "unsub"
  /\ entry' = IF unload_ok' THEN "not_loaded" ELSE "failed_unload"
  /\ listeners' = IF unload_ok' THEN listeners \ ({slot} \X Platforms)
                  ELSE listeners
  /\ UNCHANGED <<setups, client, timers, queue, raised>>

\* async_unload_platforms answers, and the coordinator is handed to shutdown()
\* in the executor whatever the answer; or it raises.
UnloadPlatforms ==
  /\ entry = "unloading"
  /\ \E ps \in SUBSET Platforms : Unloaded(ps)
  /\ \/ /\ slot' = 0
        /\ entry' = "stopping" /\ executor' = "unsub"
        /\ UNCHANGED raised
     \/ /\ entry' = "failed_unload"
        /\ raised' = raised \cup {slot}
        /\ UNCHANGED <<slot, executor>>
  /\ UNCHANGED <<setups, client, timers, listeners, queue>>

\* Fault variant: shutdown() leaves the timer alone.
ShutdownWithoutUnsub ==
  /\ executor = "unsub" /\ executor' = "loop_stop"
  /\ UNCHANGED <<entry, core, own, queue, raised>>

\* shutdown(): the timer can only be cancelled by the event loop.
ShutdownUnsub ==
  /\ executor = "unsub" /\ executor' = "loop_stop"
  /\ CallSoon(setups, "unsub_watchdog")
  /\ UNCHANGED <<entry, core, own, raised>>

\* loop_stop() joins paho's thread.
ShutdownLoopStop ==
  /\ executor = "loop_stop" /\ executor' = "disconnect"
  /\ client' = [client EXCEPT ![setups] =
                  IF @ = "connected" THEN "stopped_connected" ELSE "stopped"]
  /\ UNCHANGED <<entry, core, timers, platforms, listeners, queue, raised>>

\* disconnect() on a connected client runs _on_disconnect here.
ShutdownDisconnect ==
  /\ executor = "disconnect" /\ executor' = "return"
  /\ IF client[setups] = "stopped_connected"
       THEN CallSoon(setups, "mark")
       ELSE UNCHANGED queue
  /\ client' = [client EXCEPT ![setups] = "stopped"]
  /\ UNCHANGED <<entry, core, timers, platforms, listeners, raised>>

\* The executor hands its result to the event loop.
ShutdownReturns ==
  /\ executor = "return" /\ executor' = "idle"
  /\ CallSoon(setups, "shutdown_done")
  /\ UNCHANGED <<entry, core, own, raised>>

Shutdown ==
  ShutdownUnsub \/ ShutdownLoopStop \/ ShutdownDisconnect \/ ShutdownReturns

-----------------------------------------------------------------------------
(* paho's threads.                                                         *)

Connect(g) ==
  /\ client[g] = "connecting"
  /\ client' = [client EXCEPT ![g] = "connected"]
  /\ UNCHANGED <<entry, core, executor, timers, platforms, listeners, queue, raised>>

_on_disconnect(g) ==
  /\ client[g] = "connected"
  /\ client' = [client EXCEPT ![g] = "connecting"]
  /\ CallSoon(g, "mark")
  /\ UNCHANGED <<entry, core, executor, timers, platforms, listeners, raised>>

_on_message(g) ==
  /\ client[g] = "connected"
  /\ \E callback \in {"payload", "mark"} : CallSoon(g, callback)
  /\ UNCHANGED <<entry, core, executor, own, raised>>

PahoThread(g) == Connect(g) \/ _on_disconnect(g) \/ _on_message(g)

-----------------------------------------------------------------------------
(* The event loop.                                                         *)

Run(callback) ==
  /\ queue # <<>> /\ Head(queue)[2] = callback
  /\ queue' = Tail(queue)

\* A payload, or a change of availability, is shown to the listeners there are.
RunData ==
  /\ Run("payload") \/ Run("mark")
  /\ UNCHANGED <<entry, core, executor, own, raised>>

CancelTimer ==
  /\ Run("unsub_watchdog")
  /\ timers' = timers \ {Head(queue)[1]}
  /\ UNCHANGED <<entry, core, executor, client, platforms, listeners, raised>>

\* Fault variant: the listeners are not given to async_on_unload.
EndUnloadStillListening ==
  /\ Run("shutdown_done")
  /\ entry' = IF unload_ok THEN "not_loaded" ELSE "failed_unload"
  /\ UNCHANGED <<core, executor, own, raised>>

\* async_unload_entry returns; what async_on_unload was given runs only when the
\* platforms were unloaded.
EndUnload ==
  /\ Run("shutdown_done")
  /\ entry' = IF unload_ok THEN "not_loaded" ELSE "failed_unload"
  /\ listeners' = IF unload_ok THEN listeners \ ({setups} \X Platforms)
                  ELSE listeners
  /\ UNCHANGED <<core, executor, client, timers, platforms, raised>>

EventLoop == RunData \/ CancelTimer \/ EndUnload

-----------------------------------------------------------------------------

\* Home Assistant restarts: nothing survives but the entry.
Restart ==
  /\ entry' = "not_loaded"
  /\ setups' = 0 /\ slot' = 0 /\ unload_ok' = FALSE
  /\ executor' = "idle"
  /\ client' = [g \in Setups |-> "none"]
  /\ timers' = {} /\ platforms' = {} /\ listeners' = {} /\ raised' = {}
  /\ queue' = <<>>

Next ==
  \/ SetupEntry \/ ForwardSetups \/ UnloadEntry \/ UnloadPlatforms
  \/ Shutdown
  \/ \E g \in Setups : PahoThread(g)
  \/ EventLoop
  \/ Restart

Spec == Init /\ [][Next]_vars

-----------------------------------------------------------------------------
(* Properties.                                                             *)

\* async_unload_entry's comment: the client thread is never leaked, even when
\* the platforms unload only in part.  A running thread, and a registered timer,
\* belong to the coordinator in hass.data or to the one that is being shut down;
\* the exceptions are the coordinators that a raising await left behind.
NoThreadLeaks ==
  \A g \in Setups \ raised :
    /\ Running(g) => slot = g \/ (g = setups /\ executor \in {"unsub", "loop_stop"})
    /\ g \in timers => slot = g \/ (g = setups /\ entry = "stopping")

\* Once an unload has succeeded nothing of its coordinator is active: no thread,
\* no timer, no listener, so that what its thread had queued finds nobody.
QuietOnceUnloaded ==
  entry = "not_loaded" =>
    \A g \in Setups \ raised :
      /\ ~Running(g) /\ g \notin timers
      /\ \A p \in Platforms : <<g, p>> \notin listeners

\* A payload that a listener sees after its platform was unloaded offers its
\* new entities to nobody.  That can happen while the entry is being unloaded,
\* since the listeners go last, but never when the unload is over.
NoLateOffers ==
  [][\A l \in listeners \ platforms :
       (Run("payload") /\ Head(queue)[1] = l[1] /\ l[1] \notin raised) =>
         entry = "stopping"]_vars

-----------------------------------------------------------------------------
(* The inductive invariant behind them.                                    *)

\* The states between a setup and the end of an unload.
Active == {"forwarding", "loaded", "unloading", "stopping"}

\* Of the coordinators no exception left behind, only the latest can be alive,
\* and only while its entry is active.
OneAlive ==
  /\ entry \in Active => setups > 0 /\ setups \notin raised
  /\ entry \in Active \ {"stopping"} => slot = setups
  /\ executor # "idle" => entry = "stopping"
  /\ \A g \in Setups \ raised :
       Running(g) \/ g \in timers => entry \in Active /\ g = setups
  /\ entry = "stopping" /\ Running(setups) => executor \in {"unsub", "loop_stop"}

\* Only the latest one's platforms are listened for, and they are all loaded
\* until the unload begins.
Listening ==
  /\ \A l \in listeners : l[1] \in raised \/
       (l[1] = setups /\ entry \in {"loaded", "unloading", "stopping", "failed_unload"})
  /\ entry \in {"loaded", "unloading"} => {setups} \X Platforms \subseteq platforms

\* What shutdown() queued is in its order: the timer is cancelled before the end
\* of the shutdown is known, and no payload comes after it.
Cancelling(i) == queue[i] = <<setups, "unsub_watchdog">>
Ending(i)     == queue[i][2] = "shutdown_done"

QueueOrder ==
  /\ executor \notin {"idle", "unsub"} /\ setups \in timers =>
       \E i \in DOMAIN queue : Cancelling(i)
  /\ \A j \in DOMAIN queue : Ending(j) =>
       /\ entry = "stopping" /\ executor = "idle"
       /\ setups \in timers => \E i \in 1 .. j - 1 : Cancelling(i)
       /\ \A i \in DOMAIN queue :
            Ending(i) \/ queue[i] = <<setups, "payload">> => i <= j
  /\ entry = "failed_unload" /\ setups \notin raised =>
       \A i \in DOMAIN queue : queue[i] # <<setups, "payload">>

IInv == TypeOK /\ OneAlive /\ Listening /\ QueueOrder
=============================================================================
