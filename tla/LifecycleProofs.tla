-------------------------- MODULE LifecycleProofs --------------------------
(***************************************************************************)
(* Proofs about Lifecycle, for any number of setups and any length of the  *)
(* event loop's queue: no client thread and no timer is leaked, an unload  *)
(* leaves nothing active behind, and no entity is offered after it.        *)
(***************************************************************************)
EXTENDS Lifecycle, TLAPS

Items == Setups \X Callbacks

\* The queue after call_soon_threadsafe.
LEMMA Appended ==
  ASSUME queue \in Seq(Items), NEW c \in Items, queue' = Append(queue, c)
  PROVE  /\ queue' \in Seq(Items)
         /\ Len(queue) \in Nat /\ Len(queue') = Len(queue) + 1
         /\ DOMAIN queue = 1 .. Len(queue)
         /\ DOMAIN queue' = 1 .. Len(queue) + 1
         /\ \A i \in DOMAIN queue : queue'[i] = queue[i]
         /\ queue'[Len(queue) + 1] = c
OBVIOUS

\* The queue after its first callback has run.
LEMMA Popped ==
  ASSUME queue \in Seq(Items), queue # <<>>, queue' = Tail(queue)
  PROVE  /\ queue' \in Seq(Items)
         /\ Len(queue) \in Nat \ {0} /\ Len(queue') = Len(queue) - 1
         /\ DOMAIN queue = 1 .. Len(queue)
         /\ DOMAIN queue' = 1 .. Len(queue) - 1
         /\ \A i \in DOMAIN queue' : queue'[i] = queue[i + 1]
         /\ Head(queue) = queue[1] /\ queue[1] \in Items
OBVIOUS

\* A callback at the end of the queue disturbs nothing unless it is a payload of
\* a coordinator whose shutdown is over.
LEMMA AppendKeepsOrder ==
  ASSUME TypeOK, QueueOrder, NEW c \in Items, queue' = Append(queue, c),
         UNCHANGED <<entry, setups, timers, raised>>,
         executor' = executor \/ executor' \in {"loop_stop", "disconnect", "return"},
         executor' # executor => executor # "idle",
         executor = "unsub" /\ executor' # "unsub" =>
           c = <<setups, "unsub_watchdog">>,
         c[2] # "shutdown_done",
         c = <<setups, "payload">> =>
           /\ ~(entry = "failed_unload" /\ setups \notin raised)
           /\ ~(entry = "stopping" /\ executor = "idle")
  PROVE  QueueOrder'
<1>1. /\ Len(queue) \in Nat
      /\ DOMAIN queue = 1 .. Len(queue)
      /\ DOMAIN queue' = 1 .. Len(queue) + 1
      /\ \A i \in DOMAIN queue : queue'[i] = queue[i]
      /\ queue'[Len(queue) + 1] = c
  BY Appended DEF TypeOK, Items
<1>2. executor' \notin {"idle", "unsub"} /\ setups' \in timers' =>
        \E i \in DOMAIN queue' : Cancelling(i)'
  <2> SUFFICES ASSUME executor' \notin {"idle", "unsub"}, setups \in timers
               PROVE  \E i \in DOMAIN queue' : Cancelling(i)'
    OBVIOUS
  <2>1. CASE executor = "unsub"
    <3>1. PICK i : i = Len(queue) + 1
      OBVIOUS
    <3>2. i \in DOMAIN queue' /\ queue'[i] = <<setups, "unsub_watchdog">>
      BY <1>1, <2>1, <3>1
    <3> QED
      BY <3>2 DEF Cancelling
  <2>2. CASE executor # "unsub"
    <3>1. executor # "idle"
      OBVIOUS
    <3>2. PICK i \in DOMAIN queue : Cancelling(i)
      BY <2>2, <3>1 DEF QueueOrder
    <3>3. i \in DOMAIN queue' /\ Cancelling(i)'
      BY <1>1, <3>2 DEF Cancelling
    <3> QED
      BY <3>3
  <2> QED
    BY <2>1, <2>2
<1>3. ASSUME NEW j \in DOMAIN queue', Ending(j)'
      PROVE  /\ entry' = "stopping" /\ executor' = "idle"
             /\ setups' \in timers' => \E i \in 1 .. j - 1 : Cancelling(i)'
             /\ \A i \in DOMAIN queue' :
                  Ending(i)' \/ queue'[i] = <<setups', "payload">> => i <= j
  <2>1. j \in DOMAIN queue /\ Ending(j)
    BY <1>1, <1>3 DEF Ending
  <2>2. entry = "stopping" /\ executor = "idle" /\ executor' = executor
    BY <2>1 DEF QueueOrder
  <2>3. ASSUME setups' \in timers' PROVE \E i \in 1 .. j - 1 : Cancelling(i)'
    <3>1. PICK i \in 1 .. j - 1 : Cancelling(i)
      BY <2>1, <2>3 DEF QueueOrder
    <3>2. i \in DOMAIN queue
      BY <1>1, <2>1
    <3>3. Cancelling(i)'
      BY <1>1, <3>1, <3>2 DEF Cancelling
    <3> QED
      BY <3>3
  <2>4. ASSUME NEW i \in DOMAIN queue', Ending(i)' \/ queue'[i] = <<setups', "payload">>
        PROVE  i <= j
    <3>1. CASE i = Len(queue) + 1
      <4>1. queue'[i] = c
        BY <1>1, <3>1
      <4> QED
        BY <2>2, <2>4, <4>1 DEF Ending
    <3>2. CASE i # Len(queue) + 1
      <4>1. i \in DOMAIN queue
        BY <1>1, <3>2
      <4>2. Ending(i) \/ queue[i] = <<setups, "payload">>
        BY <1>1, <2>4, <4>1 DEF Ending
      <4> QED
        BY <2>1, <4>1, <4>2 DEF QueueOrder
    <3> QED
      BY <3>1, <3>2
  <2> QED
    BY <2>2, <2>3, <2>4
<1>4. ASSUME entry' = "failed_unload", setups' \notin raised',
             NEW i \in DOMAIN queue'
      PROVE  queue'[i] # <<setups', "payload">>
  <2>1. CASE i = Len(queue) + 1
    BY <1>1, <1>4, <2>1
  <2>2. CASE i # Len(queue) + 1
    <3>1. i \in DOMAIN queue
      BY <1>1, <2>2
    <3> QED
      BY <1>1, <1>4, <3>1 DEF QueueOrder
  <2> QED
    BY <2>1, <2>2
<1> QED
  BY <1>2, <1>3, <1>4 DEF QueueOrder

\* The first callback leaves the order of the others; when it cancels the timer
\* nobody needs it any more.
LEMMA PopKeepsOrder ==
  ASSUME TypeOK, QueueOrder, queue # <<>>, queue' = Tail(queue),
         UNCHANGED <<entry, executor, setups, raised>>,
         setups \in timers' =>
           setups \in timers /\ Head(queue) # <<setups, "unsub_watchdog">>
  PROVE  QueueOrder'
<1>1. /\ Len(queue) \in Nat \ {0}
      /\ DOMAIN queue = 1 .. Len(queue)
      /\ DOMAIN queue' = 1 .. Len(queue) - 1
      /\ \A i \in DOMAIN queue' : queue'[i] = queue[i + 1]
      /\ Head(queue) = queue[1]
  BY Popped DEF TypeOK, Items
<1>2. ASSUME NEW i \in DOMAIN queue, Cancelling(i), setups \in timers'
      PROVE  i - 1 \in DOMAIN queue' /\ Cancelling(i - 1)'
  <2>1. i # 1
    BY <1>1, <1>2 DEF Cancelling
  <2> QED
    BY <1>1, <1>2, <2>1 DEF Cancelling
<1>3. executor' \notin {"idle", "unsub"} /\ setups' \in timers' =>
        \E i \in DOMAIN queue' : Cancelling(i)'
  BY <1>2 DEF QueueOrder
<1>4. ASSUME NEW j \in DOMAIN queue', Ending(j)'
      PROVE  /\ entry' = "stopping" /\ executor' = "idle"
             /\ setups' \in timers' => \E i \in 1 .. j - 1 : Cancelling(i)'
             /\ \A i \in DOMAIN queue' :
                  Ending(i)' \/ queue'[i] = <<setups', "payload">> => i <= j
  <2>1. j + 1 \in DOMAIN queue /\ Ending(j + 1)
    BY <1>1, <1>4 DEF Ending
  <2>2. ASSUME setups' \in timers' PROVE \E i \in 1 .. j - 1 : Cancelling(i)'
    <3>1. PICK i \in 1 .. (j + 1) - 1 : Cancelling(i)
      BY <2>1, <2>2 DEF QueueOrder
    <3>2. i \in DOMAIN queue
      BY <1>1, <2>1, <3>1
    <3>3. i - 1 \in DOMAIN queue' /\ Cancelling(i - 1)'
      BY <1>2, <2>2, <3>1, <3>2
    <3>4. i - 1 \in 1 .. j - 1
      BY <1>1, <3>1, <3>3
    <3> QED
      BY <3>3, <3>4
  <2>3. ASSUME NEW i \in DOMAIN queue', Ending(i)' \/ queue'[i] = <<setups', "payload">>
        PROVE  i <= j
    <3>1. i + 1 \in DOMAIN queue /\ (Ending(i + 1) \/ queue[i + 1] = <<setups, "payload">>)
      BY <1>1, <2>3 DEF Ending
    <3>2. i + 1 <= j + 1
      BY <2>1, <3>1 DEF QueueOrder
    <3> QED
      BY <1>1, <3>2
  <2> QED
    BY <2>1, <2>2, <2>3 DEF QueueOrder
<1>5. entry' = "failed_unload" /\ setups' \notin raised' =>
        \A i \in DOMAIN queue' : queue'[i] # <<setups', "payload">>
  BY <1>1 DEF QueueOrder
<1> QED
  BY <1>3, <1>4, <1>5 DEF QueueOrder

-----------------------------------------------------------------------------
(* Each action keeps the inductive invariant.                              *)

LEMMA InitIInv ==
  ASSUME Init
  PROVE  IInv
<1> USE LifecycleAssumption
<1>1. TypeOK
  <2>1. client \in [Setups -> Clients]
    BY DEF Init, Clients
  <2>2. queue \in Seq(Setups \X Callbacks) /\ Len(queue) = 0
    BY DEF Init
  <2>3. unload_ok \in BOOLEAN
    BY DEF Init
  <2>4. setups \in 0 .. MaxSetups /\ slot \in 0 .. setups
    BY DEF Init
  <2> QED
    BY <2>1, <2>2, <2>3, <2>4 DEF Init, TypeOK, States, Steps
<1>2. OneAlive /\ Listening
  BY DEF Init, OneAlive, Listening, Active, Running
<1>3. QueueOrder
  <2>1. DOMAIN queue = {}
    BY DEF Init
  <2> QED
    BY <2>1 DEF Init, QueueOrder
<1> QED
  BY <1>1, <1>2, <1>3 DEF IInv

LEMMA SetupEntryStep ==
  ASSUME IInv, SetupEntry
  PROVE  IInv'
<1> USE LifecycleAssumption DEF IInv
<1>1. CASE entry' = "setup_error" /\ UNCHANGED <<core, client, timers>>
  <2>1. TypeOK'
    BY <1>1 DEF SetupEntry, TypeOK, States, core
  <2>2. OneAlive'
    BY <1>1 DEF SetupEntry, OneAlive, Active, Running, core
  <2>3. Listening'
    BY <1>1 DEF SetupEntry, Listening, core
  <2>4. QueueOrder'
    BY <1>1 DEF SetupEntry, QueueOrder, Cancelling, Ending, OneAlive, core
  <2> QED
    BY <2>1, <2>2, <2>3, <2>4
<1>2. CASE /\ setups < MaxSetups
           /\ entry' = "forwarding"
           /\ setups' = setups + 1 /\ slot' = setups + 1
           /\ client' = [client EXCEPT ![setups + 1] = "connecting"]
           /\ timers' = timers \cup {setups + 1}
           /\ UNCHANGED unload_ok
  <2>1. TypeOK'
    BY <1>2 DEF SetupEntry, TypeOK, States, Clients, Setups, Platforms
  <2>2. OneAlive'
    BY <1>2 DEF SetupEntry, OneAlive, Active, Running, TypeOK, Setups
  <2>3. Listening'
    BY <1>2 DEF SetupEntry, Listening
  <2>4. /\ entry' \notin {"stopping", "failed_unload"} /\ executor' = "idle"
        /\ \A j \in DOMAIN queue' : ~Ending(j)'
    BY <1>2 DEF SetupEntry, QueueOrder, Ending, OneAlive
  <2>5. QueueOrder'
    BY <2>4 DEF QueueOrder
  <2> QED
    BY <2>1, <2>2, <2>3, <2>5
<1> QED
  BY <1>1, <1>2 DEF SetupEntry

LEMMA ForwardSetupsStep ==
  ASSUME IInv, ForwardSetups
  PROVE  IInv'
<1> USE LifecycleAssumption DEF IInv
<1>1. slot = setups /\ setups \in Setups /\ setups \in 1 .. setups /\ executor = "idle"
  BY DEF ForwardSetups, OneAlive, Active, TypeOK, Setups
<1>2. TypeOK'
  BY <1>1 DEF ForwardSetups, TypeOK, States, core
<1>3. OneAlive'
  BY <1>1 DEF ForwardSetups, OneAlive, Active, Running, core
<1>4. Listening'
  BY <1>1 DEF ForwardSetups, Listening, core
<1>5. /\ entry' \notin {"stopping", "failed_unload"} /\ executor' = "idle"
      /\ \A j \in DOMAIN queue' : ~Ending(j)'
  BY <1>1 DEF ForwardSetups, QueueOrder, Ending
<1>6. QueueOrder'
  BY <1>5 DEF QueueOrder
<1> QED
  BY <1>2, <1>3, <1>4, <1>6

LEMMA UnloadEntryStep ==
  ASSUME IInv, UnloadEntry
  PROVE  IInv'
<1> USE LifecycleAssumption DEF IInv
<1>1. TypeOK'
  BY DEF UnloadEntry, TypeOK, States, core, own
<1>2. OneAlive'
  BY DEF UnloadEntry, OneAlive, Active, Running, core, own
<1>3. Listening'
  BY DEF UnloadEntry, Listening, core, own
<1>4. /\ entry' \notin {"stopping", "failed_unload"} /\ executor' = "idle"
      /\ \A j \in DOMAIN queue' : ~Ending(j)'
  BY DEF UnloadEntry, QueueOrder, Ending, OneAlive
<1>5. QueueOrder'
  BY <1>4 DEF QueueOrder
<1> QED
  BY <1>1, <1>2, <1>3, <1>5

LEMMA UnloadPlatformsStep ==
  ASSUME IInv, UnloadPlatforms
  PROVE  IInv'
<1> USE LifecycleAssumption DEF IInv
<1>1. slot = setups /\ setups \in Setups /\ setups \in 1 .. setups /\ executor = "idle"
      /\ \A j \in DOMAIN queue : ~Ending(j)
  BY DEF UnloadPlatforms, OneAlive, Active, TypeOK, Setups, QueueOrder
<1>2. TypeOK'
  <2>1. PICK ps : Unloaded(ps)
    BY DEF UnloadPlatforms
  <2>2. unload_ok' \in BOOLEAN
    BY <2>1 DEF Unloaded
  <2>3. platforms' \subseteq (1 .. setups) \X Platforms
    BY <2>1 DEF Unloaded, TypeOK
  <2>4. entry' \in States /\ executor' \in Steps
    BY <1>1 DEF UnloadPlatforms, States, Steps
  <2>5. UNCHANGED <<setups, client, timers, listeners, queue>>
    BY DEF UnloadPlatforms
  <2>6. (slot' = 0 \/ slot' = slot) /\ (raised' = raised \/ raised' = raised \cup {setups})
    BY <1>1 DEF UnloadPlatforms
  <2>7. /\ setups' \in 0 .. MaxSetups /\ slot' \in 0 .. setups'
        /\ raised' \subseteq 1 .. setups'
    <3> HIDE DEF IInv
    <3>1. setups \in 0 .. MaxSetups /\ slot \in 0 .. setups /\ raised \subseteq 1 .. setups
      BY DEF IInv, TypeOK
    <3>2. setups' = setups
      BY <2>5
    <3>3. raised' \subseteq 1 .. setups'
      BY <1>1, <2>6, <3>1, <3>2
    <3>4. slot' \in 0 .. setups'
      BY <1>1, <2>6, <3>1, <3>2
    <3> QED
      BY <3>1, <3>2, <3>3, <3>4
  <2>8. /\ client' \in [Setups -> Clients] /\ timers' \subseteq 1 .. setups'
        /\ listeners' \subseteq (1 .. setups') \X Platforms
        /\ queue' \in Seq(Setups \X Callbacks) /\ Len(queue') <= MaxQueue
    BY <2>5 DEF TypeOK
  <2> QED
    BY <2>2, <2>3, <2>4, <2>5, <2>7, <2>8 DEF TypeOK
<1>3. OneAlive'
  BY <1>1 DEF UnloadPlatforms, OneAlive, Active, Running
<1>4. Listening'
  BY <1>1 DEF UnloadPlatforms, Listening
<1>5. /\ executor' \in {"idle", "unsub"} /\ \A j \in DOMAIN queue' : ~Ending(j)'
      /\ entry' = "failed_unload" => setups' \in raised'
  BY <1>1 DEF UnloadPlatforms, Ending
<1>6. QueueOrder'
  BY <1>5 DEF QueueOrder
<1> QED
  BY <1>2, <1>3, <1>4, <1>6

LEMMA ShutdownUnsubStep ==
  ASSUME IInv, ShutdownUnsub
  PROVE  IInv'
<1> USE LifecycleAssumption DEF IInv
<1>1. <<setups, "unsub_watchdog">> \in Items
  BY DEF ShutdownUnsub, OneAlive, Active, TypeOK, Setups, Items, Callbacks
<1>2. queue' = Append(queue, <<setups, "unsub_watchdog">>)
  BY DEF ShutdownUnsub, CallSoon
<1>3. TypeOK'
  BY <1>1, <1>2, Appended DEF ShutdownUnsub, CallSoon, TypeOK, Items, Steps, core, own
<1>4. OneAlive' /\ Listening'
  BY DEF ShutdownUnsub, OneAlive, Listening, Active, Running, core, own
<1>5. QueueOrder'
  BY <1>1, <1>2, AppendKeepsOrder DEF ShutdownUnsub, core, own
<1> QED
  BY <1>3, <1>4, <1>5

LEMMA ShutdownLoopStopStep ==
  ASSUME IInv, ShutdownLoopStop
  PROVE  IInv'
<1> USE LifecycleAssumption DEF IInv
<1>1. TypeOK'
  BY DEF ShutdownLoopStop, TypeOK, Steps, Clients, core
<1>2. setups \in Setups /\ entry = "stopping"
  BY DEF ShutdownLoopStop, OneAlive, Active, TypeOK, Setups
<1>3. OneAlive'
  BY <1>2 DEF ShutdownLoopStop, OneAlive, Active, Running, TypeOK, Clients, core
<1>4. Listening'
  BY DEF ShutdownLoopStop, Listening, core
<1>5. QueueOrder'
  BY <1>2 DEF ShutdownLoopStop, QueueOrder, Cancelling, Ending, core
<1> QED
  BY <1>1, <1>3, <1>4, <1>5

LEMMA ShutdownDisconnectStep ==
  ASSUME IInv, ShutdownDisconnect
  PROVE  IInv'
<1> USE LifecycleAssumption DEF IInv
<1>1. setups \in Setups /\ entry = "stopping"
  BY DEF ShutdownDisconnect, OneAlive, Active, TypeOK, Setups
<1>2. <<setups, "mark">> \in Items
  BY <1>1 DEF Items, Callbacks
<1>3. OneAlive'
  BY <1>1 DEF ShutdownDisconnect, OneAlive, Active, Running, TypeOK, Clients, core
<1>4. Listening'
  BY DEF ShutdownDisconnect, Listening, core
<1>5. CASE queue' = Append(queue, <<setups, "mark">>) /\ Len(queue) < MaxQueue
  <2>1. TypeOK'
    BY <1>2, <1>5, Appended DEF ShutdownDisconnect, TypeOK, Items, Steps, Clients, core
  <2>2. QueueOrder'
    BY <1>1, <1>2, <1>5, AppendKeepsOrder DEF ShutdownDisconnect, core
  <2> QED
    BY <1>3, <1>4, <2>1, <2>2
<1>6. CASE queue' = queue
  <2>1. TypeOK'
    BY <1>6 DEF ShutdownDisconnect, TypeOK, Steps, Clients, core
  <2>2. QueueOrder'
    BY <1>1, <1>6 DEF ShutdownDisconnect, QueueOrder, Cancelling, Ending, core
  <2> QED
    BY <1>3, <1>4, <2>1, <2>2
<1> QED
  BY <1>5, <1>6 DEF ShutdownDisconnect, CallSoon

LEMMA ShutdownReturnsStep ==
  ASSUME IInv, ShutdownReturns
  PROVE  IInv'
<1> USE LifecycleAssumption DEF IInv
<1>1. setups \in Setups /\ entry = "stopping"
  BY DEF ShutdownReturns, OneAlive, Active, TypeOK, Setups
<1>2. <<setups, "shutdown_done">> \in Items
  BY <1>1 DEF Items, Callbacks
<1>3. queue' = Append(queue, <<setups, "shutdown_done">>)
  BY DEF ShutdownReturns, CallSoon
<1>4. /\ Len(queue) \in Nat
      /\ DOMAIN queue = 1 .. Len(queue)
      /\ DOMAIN queue' = 1 .. Len(queue) + 1
      /\ \A i \in DOMAIN queue : queue'[i] = queue[i]
  BY <1>2, <1>3, Appended DEF TypeOK, Items
<1>5. TypeOK'
  BY <1>2, <1>3, Appended DEF ShutdownReturns, CallSoon, TypeOK, Items, Steps, core, own
<1>6. OneAlive' /\ Listening'
  BY DEF ShutdownReturns, OneAlive, Listening, Active, Running, core, own
<1>7. QueueOrder'
  <2>1. entry' = "stopping" /\ executor' = "idle" /\ setups' = setups /\ timers' = timers
    BY <1>1 DEF ShutdownReturns, core, own
  <2>2. ASSUME NEW j \in DOMAIN queue', Ending(j)'
        PROVE  j = Len(queue) + 1
    BY <1>4, <2>2 DEF Ending, QueueOrder, ShutdownReturns
  <2>3. ASSUME NEW j \in DOMAIN queue', Ending(j)', setups' \in timers'
        PROVE  \E i \in 1 .. j - 1 : Cancelling(i)'
    <3>1. PICK i \in DOMAIN queue : Cancelling(i)
      BY <2>1, <2>3 DEF QueueOrder, ShutdownReturns
    <3>2. Cancelling(i)' /\ i \in 1 .. j - 1
      BY <1>4, <2>1, <2>2, <2>3, <3>1 DEF Cancelling
    <3> QED
      BY <3>2
  <2>4. ASSUME NEW j \in DOMAIN queue', Ending(j)', NEW i \in DOMAIN queue'
        PROVE  i <= j
    BY <1>4, <2>2, <2>4
  <2> QED
    BY <2>1, <2>3, <2>4 DEF QueueOrder
<1> QED
  BY <1>5, <1>6, <1>7

LEMMA ConnectStep ==
  ASSUME IInv, NEW g \in Setups, Connect(g)
  PROVE  IInv'
<1> USE LifecycleAssumption DEF IInv
<1>1. TypeOK'
  BY DEF Connect, TypeOK, Clients, core
<1>2. \A h \in Setups : Running(h)' <=> Running(h)
  BY DEF Connect, Running, TypeOK
<1>3. OneAlive'
  BY <1>2 DEF Connect, OneAlive, Active, TypeOK, Setups, core
<1>4. Listening' /\ QueueOrder'
  BY DEF Connect, Listening, QueueOrder, Cancelling, Ending, core
<1> QED
  BY <1>1, <1>3, <1>4

LEMMA DisconnectStep ==
  ASSUME IInv, NEW g \in Setups, _on_disconnect(g)
  PROVE  IInv'
<1> USE LifecycleAssumption DEF IInv
<1>1. <<g, "mark">> \in Items
  BY DEF Items, Callbacks
<1>2. queue' = Append(queue, <<g, "mark">>) /\ Len(queue) < MaxQueue
  BY DEF _on_disconnect, CallSoon
<1>3. TypeOK'
  BY <1>1, <1>2, Appended DEF _on_disconnect, TypeOK, Items, Clients, core
<1>4. \A h \in Setups : Running(h)' <=> Running(h)
  BY DEF _on_disconnect, Running, TypeOK
<1>5. OneAlive'
  BY <1>4 DEF _on_disconnect, OneAlive, Active, TypeOK, Setups, core
<1>6. Listening'
  BY DEF _on_disconnect, Listening, core
<1>7. QueueOrder'
  BY <1>1, <1>2, AppendKeepsOrder DEF _on_disconnect, core
<1> QED
  BY <1>3, <1>5, <1>6, <1>7

LEMMA MessageStep ==
  ASSUME IInv, NEW g \in Setups, _on_message(g)
  PROVE  IInv'
<1> USE LifecycleAssumption DEF IInv
<1>1. PICK callback \in {"payload", "mark"} :
        queue' = Append(queue, <<g, callback>>) /\ Len(queue) < MaxQueue
  BY DEF _on_message, CallSoon
<1>2. <<g, callback>> \in Items
  BY DEF Items, Callbacks
<1>3. TypeOK'
  BY <1>1, <1>2, Appended DEF _on_message, TypeOK, Items, core, own
<1>4. OneAlive' /\ Listening'
  BY DEF _on_message, OneAlive, Listening, Active, Running, core, own
<1>5. Running(g)
  BY DEF _on_message, Running
<1>6. ASSUME g = setups
      PROVE  /\ ~(entry = "failed_unload" /\ setups \notin raised)
             /\ ~(entry = "stopping" /\ executor = "idle")
  BY <1>5, <1>6 DEF OneAlive, Active
<1>7. QueueOrder'
  BY <1>1, <1>2, <1>6, AppendKeepsOrder DEF _on_message, core, own
<1> QED
  BY <1>3, <1>4, <1>7

LEMMA RunDataStep ==
  ASSUME IInv, RunData
  PROVE  IInv'
<1> USE LifecycleAssumption DEF IInv
<1>1. queue # <<>> /\ queue' = Tail(queue) /\ Head(queue)[2] # "unsub_watchdog"
  BY DEF RunData, Run
<1>2. TypeOK'
  BY <1>1, Popped DEF RunData, TypeOK, Items, core, own
<1>3. OneAlive' /\ Listening'
  BY DEF RunData, OneAlive, Listening, Active, Running, core, own
<1>4. QueueOrder'
  BY <1>1, PopKeepsOrder DEF RunData, core, own
<1> QED
  BY <1>2, <1>3, <1>4

LEMMA CancelTimerStep ==
  ASSUME IInv, CancelTimer
  PROVE  IInv'
<1> USE LifecycleAssumption DEF IInv
<1>1. queue # <<>> /\ queue' = Tail(queue)
  BY DEF CancelTimer, Run
<1>2. TypeOK'
  <2>1. timers' \subseteq timers
    BY DEF CancelTimer
  <2>2. queue' \in Seq(Setups \X Callbacks) /\ Len(queue') <= MaxQueue
    BY <1>1, Popped DEF TypeOK, Items
  <2>3. UNCHANGED <<entry, core, executor, client, platforms, listeners, raised>>
    BY DEF CancelTimer
  <2> QED
    BY <2>1, <2>2, <2>3 DEF TypeOK, core
<1>3. OneAlive' /\ Listening'
  BY DEF CancelTimer, OneAlive, Listening, Active, Running, core
<1>4. QueueOrder'
  BY <1>1, PopKeepsOrder DEF CancelTimer, core
<1> QED
  BY <1>2, <1>3, <1>4

\* The end of a shutdown finds its timer cancelled, its thread stopped, and no
\* payload of its coordinator behind it in the queue.
LEMMA EndUnloadStep ==
  ASSUME IInv, EndUnload
  PROVE  IInv'
<1> USE LifecycleAssumption DEF IInv
<1>1. queue # <<>> /\ queue' = Tail(queue)
  BY DEF EndUnload, Run
<1>2. /\ Len(queue) \in Nat \ {0}
      /\ DOMAIN queue = 1 .. Len(queue)
      /\ DOMAIN queue' = 1 .. Len(queue) - 1
      /\ \A i \in DOMAIN queue' : queue'[i] = queue[i + 1]
      /\ Head(queue) = queue[1]
  BY <1>1, Popped DEF TypeOK, Items
<1>3. 1 \in DOMAIN queue /\ Ending(1)
  BY <1>2 DEF EndUnload, Run, Ending
<1>4. /\ entry = "stopping" /\ executor = "idle" /\ setups \notin timers
      /\ \A i \in DOMAIN queue : Ending(i) \/ queue[i] = <<setups, "payload">> => i <= 1
  BY <1>3 DEF QueueOrder
<1>5. entry' \in {"not_loaded", "failed_unload"}
  BY DEF EndUnload
<1>6. TypeOK'
  <2>1. listeners' \subseteq listeners
    BY DEF EndUnload
  <2> QED
    BY <1>1, <1>5, <2>1, Popped DEF EndUnload, TypeOK, States, Items, core
<1>7. OneAlive'
  BY <1>4, <1>5 DEF EndUnload, OneAlive, Active, Running, core
<1>8. Listening'
  BY <1>4 DEF EndUnload, Listening, TypeOK, core
<1>9. QueueOrder'
  <2>1. ASSUME NEW i \in DOMAIN queue'
        PROVE  ~Ending(i)' /\ queue'[i] # <<setups', "payload">>
    <3>1. i + 1 \in DOMAIN queue /\ queue'[i] = queue[i + 1] /\ ~(i + 1 <= 1)
      BY <1>2
    <3> QED
      BY <1>4, <3>1 DEF EndUnload, Ending, core
  <2>2. executor' = "idle"
    BY <1>4 DEF EndUnload
  <2> QED
    BY <2>1, <2>2 DEF QueueOrder
<1> QED
  BY <1>6, <1>7, <1>8, <1>9

LEMMA RestartStep ==
  ASSUME Restart
  PROVE  IInv'
<1> USE LifecycleAssumption
<1>1. TypeOK'
  <2>1. client' \in [Setups -> Clients]
    BY DEF Restart, Clients
  <2>2. queue' \in Seq(Setups \X Callbacks) /\ Len(queue') = 0
    BY DEF Restart
  <2>3. unload_ok' \in BOOLEAN
    BY DEF Restart
  <2>4. setups' \in 0 .. MaxSetups /\ slot' \in 0 .. setups'
    BY DEF Restart
  <2> QED
    BY <2>1, <2>2, <2>3, <2>4 DEF Restart, TypeOK, States, Steps
<1>2. OneAlive' /\ Listening'
  BY DEF Restart, OneAlive, Listening, Active, Running
<1>3. QueueOrder'
  <2>1. DOMAIN queue' = {}
    BY DEF Restart
  <2> QED
    BY <2>1 DEF Restart, QueueOrder
<1> QED
  BY <1>1, <1>2, <1>3 DEF IInv

LEMMA StepKeepsIInv ==
  ASSUME IInv, [Next]_vars
  PROVE  IInv'
<1>1. CASE UNCHANGED vars
  <2> USE <1>1 DEF vars, core, own
  <2>1. TypeOK'
    BY DEF IInv, TypeOK
  <2>2. OneAlive' /\ Listening'
    BY DEF IInv, OneAlive, Listening, Active, Running
  <2>3. QueueOrder'
    BY DEF IInv, QueueOrder, Cancelling, Ending
  <2> QED
    BY <2>1, <2>2, <2>3 DEF IInv
<1>2. CASE Next
  BY <1>2, SetupEntryStep, ForwardSetupsStep, UnloadEntryStep, UnloadPlatformsStep,
     ShutdownUnsubStep, ShutdownLoopStopStep, ShutdownDisconnectStep,
     ShutdownReturnsStep, ConnectStep, DisconnectStep, MessageStep, RunDataStep,
     CancelTimerStep, EndUnloadStep, RestartStep
  DEF Next, Shutdown, PahoThread, EventLoop
<1> QED
  BY <1>1, <1>2

\* IInv is an invariant.
LEMMA Invariance == Spec => []IInv
<1>1. Init => IInv
  BY InitIInv
<1>2. IInv /\ [Next]_vars => IInv'
  BY StepKeepsIInv
<1> QED
  BY <1>1, <1>2, PTL DEF Spec

-----------------------------------------------------------------------------
(* The theorems.                                                           *)

\* However setups, unloads, failures, lost connections and restarts follow each
\* other, every variable keeps its type.
THEOREM TypeCorrect == Spec => []TypeOK
<1>1. IInv => TypeOK
  BY DEF IInv
<1> QED
  BY <1>1, Invariance, PTL

\* No thread of paho's and no timer outlives the coordinator in hass.data but to
\* be shut down, whatever async_unload_platforms answers; what an exception left
\* behind is excepted.
THEOREM ThreadsAreShutDown == Spec => []NoThreadLeaks
<1>1. IInv => NoThreadLeaks
  BY DEF IInv, OneAlive, Active, NoThreadLeaks
<1> QED
  BY <1>1, Invariance, PTL

\* After a successful unload nothing of the coordinator is active.
THEOREM UnloadIsQuiet == Spec => []QuietOnceUnloaded
<1>1. ASSUME IInv, entry = "not_loaded", NEW g \in Setups \ raised
      PROVE  /\ ~Running(g) /\ g \notin timers
             /\ \A p \in Platforms : <<g, p>> \notin listeners
  BY <1>1 DEF IInv, OneAlive, Listening, Active
<1>2. IInv => QuietOnceUnloaded
  BY <1>1 DEF QuietOnceUnloaded
<1> QED
  BY <1>2, Invariance, PTL

\* A payload run by the event loop finds a listener without its platform only
\* while the entry is being unloaded.
THEOREM LateOffersAreInTheUnload == Spec => NoLateOffers
<1>1. ASSUME IInv, NEW l \in listeners \ platforms,
             Run("payload"), Head(queue)[1] = l[1], l[1] \notin raised
      PROVE  entry = "stopping"
  <2>1. l[1] = setups /\ entry \in {"loaded", "unloading", "stopping", "failed_unload"}
    BY <1>1 DEF IInv, Listening
  <2>2. entry \notin {"loaded", "unloading"}
    BY <1>1, <2>1 DEF IInv, TypeOK, Listening
  <2>3. entry # "failed_unload"
    <3>1. queue # <<>> /\ Head(queue) = queue[1] /\ queue[1] \in Items /\ 1 \in DOMAIN queue
      BY <1>1, Popped DEF IInv, TypeOK, Run, Items
    <3>2. queue[1] = <<setups, "payload">>
      BY <1>1, <2>1, <3>1 DEF Run, Items
    <3> QED
      BY <1>1, <2>1, <3>1, <3>2 DEF IInv, QueueOrder
  <2> QED
    BY <2>1, <2>2, <2>3
<1>2. IInv => [\A l \in listeners \ platforms :
                 (Run("payload") /\ Head(queue)[1] = l[1] /\ l[1] \notin raised) =>
                   entry = "stopping"]_vars
  BY <1>1
<1> QED
  BY <1>2, Invariance, PTL DEF NoLateOffers
=============================================================================
