---------------------------- MODULE BridgeProofs ----------------------------
(***************************************************************************)
(* Proofs about Coordinator and about Bridge, which extends it.            *)
(*                                                                         *)
(* Coordinator, for every staleness timeout, every watchdog interval and   *)
(* every length of the queues: the type invariant, the bound on the time   *)
(* the entities are shown without data, the order in which a lost          *)
(* connection and an announced "offline" reach the event loop, and the     *)
(* refinement of Availability.                                             *)
(*                                                                         *)
(* Bridge, for all lengths of cycles, sleeps and timeouts: the timed       *)
(* sidecar and its session implement the environment that Coordinator      *)
(* assumes, so that what is proved of Coordinator holds of the whole path; *)
(* and a watchdog with the margin gives no false alarm.                    *)
(***************************************************************************)
EXTENDS Bridge, TLAPS

-----------------------------------------------------------------------------
(***************************************************************************)
(* Coordinator.                                                            *)
(***************************************************************************)

\* Nothing has been processed, and the timer was just started.
LEMMA InitInv == Init => IInv
<1> SUFFICES ASSUME Init PROVE IInv
  OBVIOUS
<1> USE ConfigAssumption
<1>1. TypeOK
  <2>1. inflight = <<>> /\ queue = <<>> /\ age = 0 /\ unserved = 0
    BY DEF Init
  <2>2. inflight \in Seq(Payloads \cup Avail) /\ Len(inflight) = 0
    BY <2>1
  <2>3. queue \in Seq(Callbacks) /\ Len(queue) = 0
    BY <2>1
  <2>4. /\ age \in 0 .. Stale + 1 /\ timer \in 0 .. Period
        /\ unserved \in 0 .. Stale + Period + 1
        /\ disconnects \in 0 .. MaxDisconnects /\ refreshes \in 0 .. MaxRefreshes
    BY DEF Init
  <2>5. /\ speaking \in BOOLEAN /\ available \in BOOLEAN
        /\ hasData \in BOOLEAN /\ verdict \in BOOLEAN
    BY DEF Init
  <2>6. /\ link \in {"down", "connected", "state", "both"}
        /\ paho \in {"idle", "fresh"}
        /\ by \in {"none", "online", "payload", "refresh"}
        /\ last \in Payloads \cup Avail \cup {"none"}
        /\ retained \in [state : Payloads \cup {"none"}, avail : Avail \cup {"none"}]
    BY DEF Init
  <2> QED
    BY <2>2, <2>3, <2>4, <2>5, <2>6 DEF TypeOK
<1>2. Exposure
  BY DEF Init, Exposure
<1>3. LossQueued
  BY DEF Init, LossQueued
<1> QED
  BY <1>1, <1>2, <1>3 DEF IInv

\* The messages a client may be sent.
Messages == Payloads \cup Avail

\* A queue gives up its first callback and keeps its last one.
LEMMA TailKeepsLast ==
  ASSUME NEW S, NEW q \in Seq(S), q # <<>>
  PROVE  /\ Tail(q) \in Seq(S)
         /\ Len(Tail(q)) = Len(q) - 1
         /\ Tail(q) = <<>> => Head(q) = q[Len(q)]
         /\ Tail(q) # <<>> => Tail(q)[Len(Tail(q))] = q[Len(q)]
<1>1. Len(q) \in Nat \ {0}
  OBVIOUS
<1>2. Tail(q) \in Seq(S) /\ Len(Tail(q)) = Len(q) - 1
  BY <1>1
<1>3. Tail(q) = <<>> => Head(q) = q[Len(q)]
  <2>1. ASSUME Tail(q) = <<>> PROVE Len(q) - 1 = 0
    <3>1. Len(Tail(q)) = Len(<<>>)
      BY <2>1, Zenon
    <3> QED
      BY <1>2, <3>1
  <2>2. Len(q) - 1 = 0 => Len(q) = 1
    BY <1>1
  <2>3. Head(q) = q[1]
    OBVIOUS
  <2> QED
    BY <2>1, <2>2, <2>3, Zenon
<1>4. Tail(q) # <<>> => Tail(q)[Len(Tail(q))] = q[Len(q)]
  <2> SUFFICES ASSUME Tail(q) # <<>> PROVE Tail(q)[Len(Tail(q))] = q[Len(q)]
    OBVIOUS
  <2>1. Len(Tail(q)) \in 1 .. Len(q) - 1
    BY <1>1, <1>2
  <2> QED
    BY <1>1, <1>2, <2>1
<1> QED
  BY <1>2, <1>3, <1>4

\* Two sequences in a row hold what they held, and are as long as both.
LEMMA ConcatType ==
  ASSUME NEW S, NEW s \in Seq(S), NEW t \in Seq(S)
  PROVE  s \o t \in Seq(S) /\ Len(s \o t) = Len(s) + Len(t)
OBVIOUS

\* A publication of one or two messages keeps the broker's types.
LEMMA PublishType ==
  ASSUME TypeOK, NEW ms \in Seq(Messages), Len(ms) \in 1 .. 2, Publish(ms)
  PROVE  /\ inflight' \in Seq(Messages) /\ Len(inflight') <= MaxInflight
         /\ last' \in Messages
         /\ retained' \in [state : Payloads \cup {"none"},
                           avail : Avail \cup {"none"}]
<1> USE ConfigAssumption
<1>1. ms[1] \in Messages /\ ms[Len(ms)] \in Messages
  OBVIOUS
<1>2. Forwarded(ms) \in Seq(Messages) /\ Len(Forwarded(ms)) \in 0 .. 2
  <2>1. CASE link = "both"
    BY <2>1 DEF Forwarded
  <2>2. CASE link # "both" /\ link = "state" /\ ms[1] \in Payloads
    <3>1. Forwarded(ms) = <<ms[1]>>
      BY <2>2 DEF Forwarded
    <3> QED
      BY <1>1, <3>1
  <2>3. CASE link # "both" /\ ~(link = "state" /\ ms[1] \in Payloads)
    BY <2>3 DEF Forwarded
  <2> QED
    BY <2>1, <2>2, <2>3
<1>3. inflight \in Seq(Messages) /\ Len(inflight) \in Nat
  BY DEF TypeOK, Messages
<1>4. inflight' \in Seq(Messages) /\ Len(inflight') <= MaxInflight
  <2>1. inflight' = inflight \o Forwarded(ms) /\ Len(inflight) <= MaxInflight - 2
    BY DEF Publish
  <2>2. /\ inflight' \in Seq(Messages)
        /\ Len(inflight') = Len(inflight) + Len(Forwarded(ms))
    BY <1>2, <1>3, <2>1, ConcatType
  <2> QED
    BY <1>2, <1>3, <2>1, <2>2
<1>5. last' \in Messages
  BY <1>1 DEF Publish
<1>6. retained' \in [state : Payloads \cup {"none"}, avail : Avail \cup {"none"}]
  BY DEF Publish, TypeOK
<1> QED
  BY <1>4, <1>5, <1>6

\* A cycle reaches the client only as far as it has subscribed.
LEMMA PollCycleInv == IInv /\ PollCycle => IInv'
<1> SUFFICES ASSUME IInv, PollCycle PROVE IInv'
  OBVIOUS
<1> USE ConfigAssumption
<1>1. TypeOK'
  <2>1. link' \in {"down", "connected", "state", "both"} /\ paho' \in {"idle", "fresh"}
    BY DEF IInv, TypeOK, loop, broker, budget, PollCycle, Publish, Forwarded
  <2>2. inflight' \in Seq(Payloads \cup Avail) /\ Len(inflight') <= MaxInflight
    <3>1. ASSUME NEW ms \in Seq(Messages), Len(ms) \in 1 .. 2, Publish(ms)
          PROVE  inflight' \in Seq(Payloads \cup Avail) /\ Len(inflight') <= MaxInflight
      BY <3>1, PublishType DEF IInv, TypeOK, Messages, Publish, loop
    <3>2. <<"online">> \in Seq(Messages) /\ Len(<<"online">>) \in 1 .. 2
      BY DEF Messages, Avail
    <3>3. \A p \in Payloads : /\ <<p>> \in Seq(Messages) /\ Len(<<p>>) \in 1 .. 2
                              /\ <<p, "online">> \in Seq(Messages)
                              /\ Len(<<p, "online">>) \in 1 .. 2
      BY DEF Messages, Avail
    <3> QED
      BY <3>1, <3>2, <3>3 DEF PollCycle
  <2>3. /\ retained' \in [state : Payloads \cup {"none"}, avail : Avail \cup {"none"}]
        /\ last' \in Payloads \cup Avail \cup {"none"}
        /\ by' \in {"none", "online", "payload", "refresh"}
    <3>1. ASSUME NEW ms \in Seq(Messages), Len(ms) \in 1 .. 2, Publish(ms)
          PROVE  /\ retained' \in [state : Payloads \cup {"none"}, avail : Avail \cup {"none"}]
                 /\ last' \in Payloads \cup Avail \cup {"none"}
                 /\ by' \in {"none", "online", "payload", "refresh"}
      BY <3>1, PublishType DEF IInv, TypeOK, Messages, Publish, loop
    <3>2. <<"online">> \in Seq(Messages) /\ Len(<<"online">>) \in 1 .. 2
      BY DEF Messages, Avail
    <3>3. \A p \in Payloads : /\ <<p>> \in Seq(Messages) /\ Len(<<p>>) \in 1 .. 2
                              /\ <<p, "online">> \in Seq(Messages)
                              /\ Len(<<p, "online">>) \in 1 .. 2
      BY DEF Messages, Avail
    <3> QED
      BY <3>1, <3>2, <3>3 DEF PollCycle
  <2>4. queue' \in Seq(Callbacks) /\ Len(queue') <= MaxQueue
    BY DEF IInv, TypeOK, Callbacks, loop, broker, budget, PollCycle, Publish, Forwarded
  <2>5. /\ speaking' \in BOOLEAN /\ available' \in BOOLEAN
        /\ hasData' \in BOOLEAN /\ verdict' \in BOOLEAN
    BY DEF IInv, TypeOK, loop, broker, budget, PollCycle, Publish, Forwarded
  <2>6. /\ age' \in 0 .. Stale + 1 /\ timer' \in 0 .. Period
        /\ disconnects' \in 0 .. MaxDisconnects
        /\ refreshes' \in 0 .. MaxRefreshes
        /\ unserved' \in 0 .. Stale + Period + 1
    BY DEF IInv, TypeOK, loop, broker, budget, PollCycle, Publish, Forwarded
  <2> QED
    BY <2>1, <2>2, <2>3, <2>4, <2>5, <2>6 DEF TypeOK
<1>2. Exposure'
  <2>1. UNCHANGED <<available, age, timer, unserved>>
    BY DEF loop, PollCycle, Publish
  <2> QED
    BY <2>1 DEF IInv, Exposure
<1>3. LossQueued'
  BY DEF IInv, LossQueued, loop, PollCycle, Publish
<1> QED
  BY <1>1, <1>2, <1>3 DEF IInv

\* "offline" reaches the client only as far as it has subscribed.
LEMMA SayOfflineInv == IInv /\ SayOffline => IInv'
<1> SUFFICES ASSUME IInv, SayOffline PROVE IInv'
  OBVIOUS
<1> USE ConfigAssumption
<1>1. TypeOK'
  <2>1. link' \in {"down", "connected", "state", "both"} /\ paho' \in {"idle", "fresh"}
    BY DEF IInv, TypeOK, loop, broker, budget, SayOffline, Publish, Forwarded
  <2>2. inflight' \in Seq(Payloads \cup Avail) /\ Len(inflight') <= MaxInflight
    <3>1. <<"offline">> \in Seq(Messages) /\ Len(<<"offline">>) \in 1 .. 2
      BY DEF Messages, Avail
    <3> QED
      BY <3>1, PublishType DEF IInv, SayOffline, Publish, Messages, TypeOK, loop
  <2>3. /\ retained' \in [state : Payloads \cup {"none"}, avail : Avail \cup {"none"}]
        /\ last' \in Payloads \cup Avail \cup {"none"}
        /\ by' \in {"none", "online", "payload", "refresh"}
    <3>1. <<"offline">> \in Seq(Messages) /\ Len(<<"offline">>) \in 1 .. 2
      BY DEF Messages, Avail
    <3> QED
      BY <3>1, PublishType DEF IInv, SayOffline, Publish, Messages, TypeOK, loop
  <2>4. queue' \in Seq(Callbacks) /\ Len(queue') <= MaxQueue
    BY DEF IInv, TypeOK, Callbacks, loop, broker, budget, SayOffline, Publish, Forwarded
  <2>5. /\ speaking' \in BOOLEAN /\ available' \in BOOLEAN
        /\ hasData' \in BOOLEAN /\ verdict' \in BOOLEAN
    BY DEF IInv, TypeOK, loop, broker, budget, SayOffline, Publish, Forwarded
  <2>6. /\ age' \in 0 .. Stale + 1 /\ timer' \in 0 .. Period
        /\ disconnects' \in 0 .. MaxDisconnects
        /\ refreshes' \in 0 .. MaxRefreshes
        /\ unserved' \in 0 .. Stale + Period + 1
    BY DEF IInv, TypeOK, loop, broker, budget, SayOffline, Publish, Forwarded
  <2> QED
    BY <2>1, <2>2, <2>3, <2>4, <2>5, <2>6 DEF TypeOK
<1>2. Exposure'
  <2>1. UNCHANGED <<available, age, timer, unserved>>
    BY DEF loop, SayOffline, Publish
  <2> QED
    BY <2>1 DEF IInv, Exposure
<1>3. LossQueued'
  BY DEF IInv, LossQueued, loop, SayOffline, Publish
<1> QED
  BY <1>1, <1>2, <1>3 DEF IInv

\* The sidecar's silence changes nothing here.
LEMMA HangOrResumeInv == IInv /\ HangOrResume => IInv'
<1> SUFFICES ASSUME IInv, HangOrResume PROVE IInv'
  OBVIOUS
<1> USE ConfigAssumption
<1>1. TypeOK'
  <2>1. link' \in {"down", "connected", "state", "both"} /\ paho' \in {"idle", "fresh"}
    BY DEF IInv, TypeOK, loop, broker, budget, HangOrResume
  <2>2. inflight' \in Seq(Payloads \cup Avail) /\ Len(inflight') <= MaxInflight
    BY DEF IInv, TypeOK, Avail, loop, broker, budget, HangOrResume
  <2>3. /\ retained' \in [state : Payloads \cup {"none"}, avail : Avail \cup {"none"}]
        /\ last' \in Payloads \cup Avail \cup {"none"}
        /\ by' \in {"none", "online", "payload", "refresh"}
    BY DEF IInv, TypeOK, Avail, loop, broker, budget, HangOrResume
  <2>4. queue' \in Seq(Callbacks) /\ Len(queue') <= MaxQueue
    BY DEF IInv, TypeOK, Callbacks, loop, broker, budget, HangOrResume
  <2>5. /\ speaking' \in BOOLEAN /\ available' \in BOOLEAN
        /\ hasData' \in BOOLEAN /\ verdict' \in BOOLEAN
    BY DEF IInv, TypeOK, loop, broker, budget, HangOrResume
  <2>6. /\ age' \in 0 .. Stale + 1 /\ timer' \in 0 .. Period
        /\ disconnects' \in 0 .. MaxDisconnects
        /\ refreshes' \in 0 .. MaxRefreshes
        /\ unserved' \in 0 .. Stale + Period + 1
    BY DEF IInv, TypeOK, loop, broker, budget, HangOrResume
  <2> QED
    BY <2>1, <2>2, <2>3, <2>4, <2>5, <2>6 DEF TypeOK
<1>2. Exposure'
  BY DEF IInv, TypeOK, Exposure, loop, broker, budget, HangOrResume
<1>3. LossQueued'
  BY DEF IInv, TypeOK, LossQueued, Avail, Callbacks, loop, broker, budget, HangOrResume
<1> QED
  BY <1>1, <1>2, <1>3 DEF IInv

\* A new session: the callbacks of the old one are no longer the last.
LEMMA OnConnectInv == IInv /\ _on_connect => IInv'
<1> SUFFICES ASSUME IInv, _on_connect PROVE IInv'
  OBVIOUS
<1> USE ConfigAssumption
<1>1. TypeOK'
  <2>1. link' \in {"down", "connected", "state", "both"} /\ paho' \in {"idle", "fresh"}
    BY DEF IInv, TypeOK, loop, broker, budget, _on_connect
  <2>2. inflight' \in Seq(Payloads \cup Avail) /\ Len(inflight') <= MaxInflight
    BY DEF IInv, TypeOK, Avail, loop, broker, budget, _on_connect
  <2>3. /\ retained' \in [state : Payloads \cup {"none"}, avail : Avail \cup {"none"}]
        /\ last' \in Payloads \cup Avail \cup {"none"}
        /\ by' \in {"none", "online", "payload", "refresh"}
    BY DEF IInv, TypeOK, Avail, loop, broker, budget, _on_connect
  <2>4. queue' \in Seq(Callbacks) /\ Len(queue') <= MaxQueue
    BY DEF IInv, TypeOK, Callbacks, loop, broker, budget, _on_connect
  <2>5. /\ speaking' \in BOOLEAN /\ available' \in BOOLEAN
        /\ hasData' \in BOOLEAN /\ verdict' \in BOOLEAN
    BY DEF IInv, TypeOK, loop, broker, budget, _on_connect
  <2>6. /\ age' \in 0 .. Stale + 1 /\ timer' \in 0 .. Period
        /\ disconnects' \in 0 .. MaxDisconnects
        /\ refreshes' \in 0 .. MaxRefreshes
        /\ unserved' \in 0 .. Stale + Period + 1
    BY DEF IInv, TypeOK, loop, broker, budget, _on_connect
  <2> QED
    BY <2>1, <2>2, <2>3, <2>4, <2>5, <2>6 DEF TypeOK
<1>2. Exposure'
  BY DEF IInv, TypeOK, Exposure, loop, broker, budget, _on_connect
<1>3. LossQueued'
  BY DEF IInv, TypeOK, LossQueued, Avail, Callbacks, loop, broker, budget, _on_connect
<1> QED
  BY <1>1, <1>2, <1>3 DEF IInv

\* A lost session queues its callback behind all the others.
LEMMA OnDisconnectInv == IInv /\ _on_disconnect => IInv'
<1> SUFFICES ASSUME IInv, _on_disconnect PROVE IInv'
  OBVIOUS
<1> USE ConfigAssumption
<1>1. TypeOK'
  <2>1. link' \in {"down", "connected", "state", "both"} /\ paho' \in {"idle", "fresh"}
    BY DEF IInv, TypeOK, loop, broker, budget, _on_disconnect, CallSoon
  <2>2. inflight' \in Seq(Payloads \cup Avail) /\ Len(inflight') <= MaxInflight
    BY DEF IInv, TypeOK, Avail, loop, broker, budget, _on_disconnect, CallSoon
  <2>3. /\ retained' \in [state : Payloads \cup {"none"}, avail : Avail \cup {"none"}]
        /\ last' \in Payloads \cup Avail \cup {"none"}
        /\ by' \in {"none", "online", "payload", "refresh"}
    BY DEF IInv, TypeOK, Avail, loop, broker, budget, _on_disconnect, CallSoon
  <2>4. queue' \in Seq(Callbacks) /\ Len(queue') <= MaxQueue
    BY DEF IInv, TypeOK, Callbacks, loop, broker, budget, _on_disconnect, CallSoon
  <2>5. /\ speaking' \in BOOLEAN /\ available' \in BOOLEAN
        /\ hasData' \in BOOLEAN /\ verdict' \in BOOLEAN
    BY DEF IInv, TypeOK, loop, broker, budget, _on_disconnect, CallSoon
  <2>6. /\ age' \in 0 .. Stale + 1 /\ timer' \in 0 .. Period
        /\ disconnects' \in 0 .. MaxDisconnects
        /\ refreshes' \in 0 .. MaxRefreshes
        /\ unserved' \in 0 .. Stale + Period + 1
    BY DEF IInv, TypeOK, loop, broker, budget, _on_disconnect, CallSoon
  <2> QED
    BY <2>1, <2>2, <2>3, <2>4, <2>5, <2>6 DEF TypeOK
<1>2. Exposure'
  BY DEF IInv, TypeOK, Exposure, loop, broker, budget, _on_disconnect, CallSoon
<1>3. LossQueued'
  BY DEF IInv, TypeOK, LossQueued, Avail, Callbacks, loop, broker, budget, _on_disconnect, CallSoon
<1> QED
  BY <1>1, <1>2, <1>3 DEF IInv

\* The replayed messages fit in what is on its way.
LEMMA SubscribeInv == IInv /\ Subscribe => IInv'
<1> SUFFICES ASSUME IInv, Subscribe PROVE IInv'
  OBVIOUS
<1> USE ConfigAssumption
<1>1. TypeOK'
  <2>1. link' \in {"down", "connected", "state", "both"} /\ paho' \in {"idle", "fresh"}
    BY DEF IInv, TypeOK, loop, broker, budget, Subscribe, Replay
  <2>2. inflight' \in Seq(Payloads \cup Avail) /\ Len(inflight') <= MaxInflight
    <3>1. \A m \in Messages \cup {"none"} :
            Replay(m) \in Seq(Messages) /\ Len(Replay(m)) \in 0 .. 1
      <4> SUFFICES ASSUME NEW m \in Messages \cup {"none"}
                   PROVE  Replay(m) \in Seq(Messages) /\ Len(Replay(m)) \in 0 .. 1
        OBVIOUS
      <4>1. CASE m = "none"
        BY <4>1 DEF Replay
      <4>2. CASE m # "none"
        <5>1. m \in Messages /\ Replay(m) = <<m>>
          BY <4>2 DEF Replay
        <5> QED
          BY <5>1
      <4> QED
        BY <4>1, <4>2
    <3>2. PICK m \in Messages \cup {"none"} : inflight' = inflight \o Replay(m)
      BY DEF IInv, TypeOK, Subscribe, Messages
    <3>3. Replay(m) \in Seq(Messages) /\ Len(Replay(m)) \in 0 .. 1
      BY <3>1
    <3>4. inflight \in Seq(Messages) /\ Len(inflight) \in Nat /\ Len(inflight) < MaxInflight
      BY DEF IInv, TypeOK, Subscribe, Messages
    <3>5. inflight' \in Seq(Messages) /\ Len(inflight') = Len(inflight) + Len(Replay(m))
      BY <3>2, <3>3, <3>4, ConcatType
    <3>6. \A a \in Nat, b \in 0 .. 1 : a < MaxInflight => a + b <= MaxInflight
      OBVIOUS
    <3>7. Len(inflight') <= MaxInflight
      BY <3>3, <3>4, <3>5, <3>6, Zenon
    <3> QED
      BY <3>5, <3>7 DEF Messages
  <2>3. /\ retained' \in [state : Payloads \cup {"none"}, avail : Avail \cup {"none"}]
        /\ last' \in Payloads \cup Avail \cup {"none"}
        /\ by' \in {"none", "online", "payload", "refresh"}
    BY DEF IInv, TypeOK, Avail, loop, broker, budget, Subscribe, Replay
  <2>4. queue' \in Seq(Callbacks) /\ Len(queue') <= MaxQueue
    BY DEF IInv, TypeOK, Callbacks, loop, broker, budget, Subscribe, Replay
  <2>5. /\ speaking' \in BOOLEAN /\ available' \in BOOLEAN
        /\ hasData' \in BOOLEAN /\ verdict' \in BOOLEAN
    BY DEF IInv, TypeOK, loop, broker, budget, Subscribe, Replay
  <2>6. /\ age' \in 0 .. Stale + 1 /\ timer' \in 0 .. Period
        /\ disconnects' \in 0 .. MaxDisconnects
        /\ refreshes' \in 0 .. MaxRefreshes
        /\ unserved' \in 0 .. Stale + Period + 1
    BY DEF IInv, TypeOK, loop, broker, budget, Subscribe, Replay
  <2> QED
    BY <2>1, <2>2, <2>3, <2>4, <2>5, <2>6 DEF TypeOK
<1>2. Exposure'
  BY DEF IInv, TypeOK, Exposure, loop, broker, budget, Subscribe, Replay
<1>3. LossQueued'
  BY DEF IInv, TypeOK, LossQueued, Avail, Callbacks, loop, broker, budget, Subscribe, Replay
<1> QED
  BY <1>1, <1>2, <1>3 DEF IInv

\* A message is dropped, decided upon or queued.
LEMMA OnMessageInv == IInv /\ _on_message => IInv'
<1> SUFFICES ASSUME IInv, _on_message PROVE IInv'
  OBVIOUS
<1> USE ConfigAssumption
<1>1. TypeOK'
  <2>1. link' \in {"down", "connected", "state", "both"} /\ paho' \in {"idle", "fresh"}
    BY DEF IInv, TypeOK, loop, broker, budget, _on_message, CallSoon
  <2>2. inflight' \in Seq(Payloads \cup Avail) /\ Len(inflight') <= MaxInflight
    BY DEF IInv, TypeOK, Avail, loop, broker, budget, _on_message, CallSoon
  <2>3. /\ retained' \in [state : Payloads \cup {"none"}, avail : Avail \cup {"none"}]
        /\ last' \in Payloads \cup Avail \cup {"none"}
        /\ by' \in {"none", "online", "payload", "refresh"}
    BY DEF IInv, TypeOK, Avail, loop, broker, budget, _on_message, CallSoon
  <2>4. queue' \in Seq(Callbacks) /\ Len(queue') <= MaxQueue
    <3>1. \A c \in Callbacks : Append(queue, c) \in Seq(Callbacks)
            /\ Len(Append(queue, c)) = Len(queue) + 1
      BY DEF IInv, TypeOK
    <3>2. queue' = queue \/ \E c \in Callbacks : Len(queue) < MaxQueue /\ queue' = Append(queue, c)
      BY DEF _on_message, CallSoon, Callbacks
    <3> QED
      BY <3>1, <3>2 DEF IInv, TypeOK
  <2>5. /\ speaking' \in BOOLEAN /\ available' \in BOOLEAN
        /\ hasData' \in BOOLEAN /\ verdict' \in BOOLEAN
    BY DEF IInv, TypeOK, loop, broker, budget, _on_message, CallSoon
  <2>6. /\ age' \in 0 .. Stale + 1 /\ timer' \in 0 .. Period
        /\ disconnects' \in 0 .. MaxDisconnects
        /\ refreshes' \in 0 .. MaxRefreshes
        /\ unserved' \in 0 .. Stale + Period + 1
    BY DEF IInv, TypeOK, loop, broker, budget, _on_message, CallSoon
  <2> QED
    BY <2>1, <2>2, <2>3, <2>4, <2>5, <2>6 DEF TypeOK
<1>2. Exposure'
  BY DEF IInv, TypeOK, Exposure, loop, broker, budget, _on_message, CallSoon
<1>3. LossQueued'
  BY DEF IInv, TypeOK, LossQueued, Avail, Callbacks, loop, broker, budget, _on_message, CallSoon
<1> QED
  BY <1>1, <1>2, <1>3 DEF IInv

\* The decision is queued, with the session still up.
LEMMA OnMessageFreshInv == IInv /\ _on_message_fresh => IInv'
<1> SUFFICES ASSUME IInv, _on_message_fresh PROVE IInv'
  OBVIOUS
<1> USE ConfigAssumption
<1>1. TypeOK'
  <2>1. link' \in {"down", "connected", "state", "both"} /\ paho' \in {"idle", "fresh"}
    BY DEF IInv, TypeOK, loop, broker, budget, _on_message_fresh, CallSoon
  <2>2. inflight' \in Seq(Payloads \cup Avail) /\ Len(inflight') <= MaxInflight
    BY DEF IInv, TypeOK, Avail, loop, broker, budget, _on_message_fresh, CallSoon
  <2>3. /\ retained' \in [state : Payloads \cup {"none"}, avail : Avail \cup {"none"}]
        /\ last' \in Payloads \cup Avail \cup {"none"}
        /\ by' \in {"none", "online", "payload", "refresh"}
    BY DEF IInv, TypeOK, Avail, loop, broker, budget, _on_message_fresh, CallSoon
  <2>4. queue' \in Seq(Callbacks) /\ Len(queue') <= MaxQueue
    BY DEF IInv, TypeOK, Callbacks, loop, broker, budget, _on_message_fresh, CallSoon
  <2>5. /\ speaking' \in BOOLEAN /\ available' \in BOOLEAN
        /\ hasData' \in BOOLEAN /\ verdict' \in BOOLEAN
    BY DEF IInv, TypeOK, loop, broker, budget, _on_message_fresh, CallSoon
  <2>6. /\ age' \in 0 .. Stale + 1 /\ timer' \in 0 .. Period
        /\ disconnects' \in 0 .. MaxDisconnects
        /\ refreshes' \in 0 .. MaxRefreshes
        /\ unserved' \in 0 .. Stale + Period + 1
    BY DEF IInv, TypeOK, loop, broker, budget, _on_message_fresh, CallSoon
  <2> QED
    BY <2>1, <2>2, <2>3, <2>4, <2>5, <2>6 DEF TypeOK
<1>2. Exposure'
  BY DEF IInv, TypeOK, Exposure, loop, broker, budget, _on_message_fresh, CallSoon
<1>3. LossQueued'
  BY DEF IInv, TypeOK, LossQueued, Avail, Callbacks, loop, broker, budget, _on_message_fresh, CallSoon
<1> QED
  BY <1>1, <1>2, <1>3 DEF IInv

\* An "online" restores the entities without serving them.
LEMMA MarkAvailableInv == IInv /\ _mark_available => IInv'
<1> SUFFICES ASSUME IInv, _mark_available PROVE IInv'
  OBVIOUS
<1> USE ConfigAssumption
<1>1. TypeOK'
  <2>1. link' \in {"down", "connected", "state", "both"} /\ paho' \in {"idle", "fresh"}
    BY DEF IInv, TypeOK, loop, broker, budget, _mark_available, Running, Available
  <2>2. inflight' \in Seq(Payloads \cup Avail) /\ Len(inflight') <= MaxInflight
    BY DEF IInv, TypeOK, Avail, loop, broker, budget, _mark_available, Running, Available
  <2>3. /\ retained' \in [state : Payloads \cup {"none"}, avail : Avail \cup {"none"}]
        /\ last' \in Payloads \cup Avail \cup {"none"}
        /\ by' \in {"none", "online", "payload", "refresh"}
    BY DEF IInv, TypeOK, Avail, loop, broker, budget, _mark_available, Running, Available
  <2>4. queue' \in Seq(Callbacks) /\ Len(queue') <= MaxQueue
    <3>1. queue # <<>> /\ queue' = Tail(queue)
      BY DEF _mark_available, Running, Available
    <3>2. queue \in Seq(Callbacks) /\ Len(queue) <= MaxQueue
      BY DEF IInv, TypeOK
    <3> QED
      BY <3>1, <3>2, TailKeepsLast
  <2>5. /\ speaking' \in BOOLEAN /\ available' \in BOOLEAN
        /\ hasData' \in BOOLEAN /\ verdict' \in BOOLEAN
    BY DEF IInv, TypeOK, loop, broker, budget, _mark_available, Running, Available
  <2>6. /\ age' \in 0 .. Stale + 1 /\ timer' \in 0 .. Period
        /\ disconnects' \in 0 .. MaxDisconnects
        /\ refreshes' \in 0 .. MaxRefreshes
        /\ unserved' \in 0 .. Stale + Period + 1
    BY DEF IInv, TypeOK, loop, broker, budget, _mark_available, Running, Available
  <2> QED
    BY <2>1, <2>2, <2>3, <2>4, <2>5, <2>6 DEF TypeOK
<1>2. Exposure'
  BY DEF IInv, TypeOK, Exposure, loop, broker, budget, _mark_available, Running, Available
<1>3. LossQueued'
  <2>1. queue # <<>> /\ queue' = Tail(queue) /\ Head(queue) # "mark_unavailable"
    BY DEF _mark_available, Running, Available
  <2>2. queue \in Seq(Callbacks)
    BY DEF IInv, TypeOK
  <2>3. link = "down" => paho = "idle" /\ queue[Len(queue)] = "mark_unavailable"
    BY <2>1 DEF IInv, LossQueued
  <2>4. link' = link /\ paho' = paho
    BY DEF _mark_available, Running, Available
  <2> QED
    BY <2>1, <2>2, <2>3, <2>4, TailKeepsLast DEF LossQueued
<1> QED
  BY <1>1, <1>2, <1>3 DEF IInv

\* Nothing is left in the queue behind a lost session's callback.
LEMMA MarkUnavailableInv == IInv /\ _mark_unavailable => IInv'
<1> SUFFICES ASSUME IInv, _mark_unavailable PROVE IInv'
  OBVIOUS
<1> USE ConfigAssumption
<1>1. TypeOK'
  <2>1. link' \in {"down", "connected", "state", "both"} /\ paho' \in {"idle", "fresh"}
    BY DEF IInv, TypeOK, loop, broker, budget, _mark_unavailable, Running, Unavailable, Lesser
  <2>2. inflight' \in Seq(Payloads \cup Avail) /\ Len(inflight') <= MaxInflight
    BY DEF IInv, TypeOK, Avail, loop, broker, budget, _mark_unavailable, Running, Unavailable, Lesser
  <2>3. /\ retained' \in [state : Payloads \cup {"none"}, avail : Avail \cup {"none"}]
        /\ last' \in Payloads \cup Avail \cup {"none"}
        /\ by' \in {"none", "online", "payload", "refresh"}
    BY DEF IInv, TypeOK, Avail, loop, broker, budget, _mark_unavailable, Running, Unavailable, Lesser
  <2>4. queue' \in Seq(Callbacks) /\ Len(queue') <= MaxQueue
    <3>1. queue # <<>> /\ queue' = Tail(queue)
      BY DEF _mark_unavailable, Running, Unavailable, Lesser
    <3>2. queue \in Seq(Callbacks) /\ Len(queue) <= MaxQueue
      BY DEF IInv, TypeOK
    <3> QED
      BY <3>1, <3>2, TailKeepsLast
  <2>5. /\ speaking' \in BOOLEAN /\ available' \in BOOLEAN
        /\ hasData' \in BOOLEAN /\ verdict' \in BOOLEAN
    BY DEF IInv, TypeOK, loop, broker, budget, _mark_unavailable, Running, Unavailable, Lesser
  <2>6. /\ age' \in 0 .. Stale + 1 /\ timer' \in 0 .. Period
        /\ disconnects' \in 0 .. MaxDisconnects
        /\ refreshes' \in 0 .. MaxRefreshes
        /\ unserved' \in 0 .. Stale + Period + 1
    BY DEF IInv, TypeOK, loop, broker, budget, _mark_unavailable, Running, Unavailable, Lesser
  <2> QED
    BY <2>1, <2>2, <2>3, <2>4, <2>5, <2>6 DEF TypeOK
<1>2. Exposure'
  BY DEF IInv, TypeOK, Exposure, loop, broker, budget, _mark_unavailable, Running, Unavailable, Lesser
<1>3. LossQueued'
  BY DEF IInv, TypeOK, LossQueued, Avail, Callbacks, loop, broker, budget, _mark_unavailable, Running, Unavailable, Lesser
<1> QED
  BY <1>1, <1>2, <1>3 DEF IInv

\* A payload processed to its end restarts both clocks.
LEMMA ProcessPayloadInv == IInv /\ _process_payload => IInv'
<1> SUFFICES ASSUME IInv, _process_payload PROVE IInv'
  OBVIOUS
<1> USE ConfigAssumption
<1>1. TypeOK'
  <2>1. link' \in {"down", "connected", "state", "both"} /\ paho' \in {"idle", "fresh"}
    BY DEF IInv, TypeOK, loop, broker, budget, _process_payload, Running, Available
  <2>2. inflight' \in Seq(Payloads \cup Avail) /\ Len(inflight') <= MaxInflight
    BY DEF IInv, TypeOK, Avail, loop, broker, budget, _process_payload, Running, Available
  <2>3. /\ retained' \in [state : Payloads \cup {"none"}, avail : Avail \cup {"none"}]
        /\ last' \in Payloads \cup Avail \cup {"none"}
        /\ by' \in {"none", "online", "payload", "refresh"}
    BY DEF IInv, TypeOK, Avail, loop, broker, budget, _process_payload, Running, Available
  <2>4. queue' \in Seq(Callbacks) /\ Len(queue') <= MaxQueue
    <3>1. queue # <<>> /\ queue' = Tail(queue)
      BY DEF _process_payload, Running, Available
    <3>2. queue \in Seq(Callbacks) /\ Len(queue) <= MaxQueue
      BY DEF IInv, TypeOK
    <3> QED
      BY <3>1, <3>2, TailKeepsLast
  <2>5. /\ speaking' \in BOOLEAN /\ available' \in BOOLEAN
        /\ hasData' \in BOOLEAN /\ verdict' \in BOOLEAN
    BY DEF IInv, TypeOK, loop, broker, budget, _process_payload, Running, Available
  <2>6. /\ age' \in 0 .. Stale + 1 /\ timer' \in 0 .. Period
        /\ disconnects' \in 0 .. MaxDisconnects
        /\ refreshes' \in 0 .. MaxRefreshes
        /\ unserved' \in 0 .. Stale + Period + 1
    BY DEF IInv, TypeOK, loop, broker, budget, _process_payload, Running, Available
  <2> QED
    BY <2>1, <2>2, <2>3, <2>4, <2>5, <2>6 DEF TypeOK
<1>2. Exposure'
  BY DEF IInv, TypeOK, Exposure, loop, broker, budget, _process_payload, Running, Available
<1>3. LossQueued'
  <2>1. queue # <<>> /\ queue' = Tail(queue) /\ Head(queue) # "mark_unavailable"
    BY DEF _process_payload, Running, Available
  <2>2. queue \in Seq(Callbacks)
    BY DEF IInv, TypeOK
  <2>3. link = "down" => paho = "idle" /\ queue[Len(queue)] = "mark_unavailable"
    BY <2>1 DEF IInv, LossQueued
  <2>4. link' = link /\ paho' = paho
    BY DEF _process_payload, Running, Available
  <2> QED
    BY <2>1, <2>2, <2>3, <2>4, TailKeepsLast DEF LossQueued
<1> QED
  BY <1>1, <1>2, <1>3 DEF IInv

\* The watchdog ends every exposure it finds.
LEMMA CheckStalenessInv == IInv /\ _check_staleness => IInv'
<1> SUFFICES ASSUME IInv, _check_staleness PROVE IInv'
  OBVIOUS
<1> USE ConfigAssumption
<1>1. TypeOK'
  <2>1. link' \in {"down", "connected", "state", "both"} /\ paho' \in {"idle", "fresh"}
    BY DEF IInv, TypeOK, loop, broker, budget, _check_staleness, Unavailable, Lesser, Settled
  <2>2. inflight' \in Seq(Payloads \cup Avail) /\ Len(inflight') <= MaxInflight
    BY DEF IInv, TypeOK, Avail, loop, broker, budget, _check_staleness, Unavailable, Lesser, Settled
  <2>3. /\ retained' \in [state : Payloads \cup {"none"}, avail : Avail \cup {"none"}]
        /\ last' \in Payloads \cup Avail \cup {"none"}
        /\ by' \in {"none", "online", "payload", "refresh"}
    BY DEF IInv, TypeOK, Avail, loop, broker, budget, _check_staleness, Unavailable, Lesser, Settled
  <2>4. queue' \in Seq(Callbacks) /\ Len(queue') <= MaxQueue
    BY DEF IInv, TypeOK, Callbacks, loop, broker, budget, _check_staleness, Unavailable, Lesser, Settled
  <2>5. /\ speaking' \in BOOLEAN /\ available' \in BOOLEAN
        /\ hasData' \in BOOLEAN /\ verdict' \in BOOLEAN
    BY DEF IInv, TypeOK, loop, broker, budget, _check_staleness, Unavailable, Lesser, Settled
  <2>6. /\ age' \in 0 .. Stale + 1 /\ timer' \in 0 .. Period
        /\ disconnects' \in 0 .. MaxDisconnects
        /\ refreshes' \in 0 .. MaxRefreshes
        /\ unserved' \in 0 .. Stale + Period + 1
    BY DEF IInv, TypeOK, loop, broker, budget, _check_staleness, Unavailable, Lesser, Settled
  <2> QED
    BY <2>1, <2>2, <2>3, <2>4, <2>5, <2>6 DEF TypeOK
<1>2. Exposure'
  BY DEF IInv, TypeOK, Exposure, loop, broker, budget, _check_staleness, Unavailable, Lesser, Settled
<1>3. LossQueued'
  BY DEF IInv, TypeOK, LossQueued, Avail, Callbacks, loop, broker, budget, _check_staleness, Unavailable, Lesser, Settled
<1> QED
  BY <1>1, <1>2, <1>3 DEF IInv

\* A refresh restores the entities without serving them.
LEMMA AsyncUpdateDataInv == IInv /\ _async_update_data => IInv'
<1> SUFFICES ASSUME IInv, _async_update_data PROVE IInv'
  OBVIOUS
<1> USE ConfigAssumption
<1>1. TypeOK'
  <2>1. link' \in {"down", "connected", "state", "both"} /\ paho' \in {"idle", "fresh"}
    BY DEF IInv, TypeOK, loop, broker, budget, _async_update_data, Available
  <2>2. inflight' \in Seq(Payloads \cup Avail) /\ Len(inflight') <= MaxInflight
    BY DEF IInv, TypeOK, Avail, loop, broker, budget, _async_update_data, Available
  <2>3. /\ retained' \in [state : Payloads \cup {"none"}, avail : Avail \cup {"none"}]
        /\ last' \in Payloads \cup Avail \cup {"none"}
        /\ by' \in {"none", "online", "payload", "refresh"}
    BY DEF IInv, TypeOK, Avail, loop, broker, budget, _async_update_data, Available
  <2>4. queue' \in Seq(Callbacks) /\ Len(queue') <= MaxQueue
    BY DEF IInv, TypeOK, Callbacks, loop, broker, budget, _async_update_data, Available
  <2>5. /\ speaking' \in BOOLEAN /\ available' \in BOOLEAN
        /\ hasData' \in BOOLEAN /\ verdict' \in BOOLEAN
    BY DEF IInv, TypeOK, loop, broker, budget, _async_update_data, Available
  <2>6. /\ age' \in 0 .. Stale + 1 /\ timer' \in 0 .. Period
        /\ disconnects' \in 0 .. MaxDisconnects
        /\ refreshes' \in 0 .. MaxRefreshes
        /\ unserved' \in 0 .. Stale + Period + 1
    BY DEF IInv, TypeOK, loop, broker, budget, _async_update_data, Available
  <2> QED
    BY <2>1, <2>2, <2>3, <2>4, <2>5, <2>6 DEF TypeOK
<1>2. Exposure'
  BY DEF IInv, TypeOK, Exposure, loop, broker, budget, _async_update_data, Available
<1>3. LossQueued'
  BY DEF IInv, TypeOK, LossQueued, Avail, Callbacks, loop, broker, budget, _async_update_data, Available
<1> QED
  BY <1>1, <1>2, <1>3 DEF IInv

\* The exposure grows by what the watchdog's timer loses.
LEMMA TickInv == IInv /\ Tick => IInv'
<1> SUFFICES ASSUME IInv, Tick PROVE IInv'
  OBVIOUS
<1> USE ConfigAssumption
<1>1. TypeOK'
  <2>1. link' \in {"down", "connected", "state", "both"} /\ paho' \in {"idle", "fresh"}
    BY DEF IInv, TypeOK, loop, broker, budget, Tick, Lesser, Settled
  <2>2. inflight' \in Seq(Payloads \cup Avail) /\ Len(inflight') <= MaxInflight
    BY DEF IInv, TypeOK, Avail, loop, broker, budget, Tick, Lesser, Settled
  <2>3. /\ retained' \in [state : Payloads \cup {"none"}, avail : Avail \cup {"none"}]
        /\ last' \in Payloads \cup Avail \cup {"none"}
        /\ by' \in {"none", "online", "payload", "refresh"}
    BY DEF IInv, TypeOK, Avail, loop, broker, budget, Tick, Lesser, Settled
  <2>4. queue' \in Seq(Callbacks) /\ Len(queue') <= MaxQueue
    BY DEF IInv, TypeOK, Callbacks, loop, broker, budget, Tick, Lesser, Settled
  <2>5. /\ speaking' \in BOOLEAN /\ available' \in BOOLEAN
        /\ hasData' \in BOOLEAN /\ verdict' \in BOOLEAN
    BY DEF IInv, TypeOK, loop, broker, budget, Tick, Lesser, Settled
  <2>6. /\ age' \in 0 .. Stale + 1 /\ timer' \in 0 .. Period
        /\ disconnects' \in 0 .. MaxDisconnects
        /\ refreshes' \in 0 .. MaxRefreshes
        /\ unserved' \in 0 .. Stale + Period + 1
    BY DEF IInv, TypeOK, loop, broker, budget, Tick, Lesser, Settled
  <2> QED
    BY <2>1, <2>2, <2>3, <2>4, <2>5, <2>6 DEF TypeOK
<1>2. Exposure'
  BY DEF IInv, TypeOK, Exposure, loop, broker, budget, Tick, Lesser, Settled
<1>3. LossQueued'
  BY DEF IInv, TypeOK, LossQueued, Avail, Callbacks, loop, broker, budget, Tick, Lesser, Settled
<1> QED
  BY <1>1, <1>2, <1>3 DEF IInv

\* Every step, and every stutter, keeps the inductive invariant.
LEMMA NextInv == IInv /\ [Next]_vars => IInv'
<1> SUFFICES ASSUME IInv, [Next]_vars PROVE IInv'
  OBVIOUS
<1>1. CASE PollCycle
  BY <1>1, PollCycleInv
<1>2. CASE SayOffline
  BY <1>2, SayOfflineInv
<1>3. CASE HangOrResume
  BY <1>3, HangOrResumeInv
<1>4. CASE _on_connect
  BY <1>4, OnConnectInv
<1>5. CASE _on_disconnect
  BY <1>5, OnDisconnectInv
<1>6. CASE Subscribe
  BY <1>6, SubscribeInv
<1>7. CASE _on_message
  BY <1>7, OnMessageInv
<1>8. CASE _on_message_fresh
  BY <1>8, OnMessageFreshInv
<1>9. CASE _mark_available
  BY <1>9, MarkAvailableInv
<1>10. CASE _mark_unavailable
  BY <1>10, MarkUnavailableInv
<1>11. CASE _process_payload
  BY <1>11, ProcessPayloadInv
<1>12. CASE _check_staleness
  BY <1>12, CheckStalenessInv
<1>13. CASE _async_update_data
  BY <1>13, AsyncUpdateDataInv
<1>14. CASE Tick
  BY <1>14, TickInv
<1>15. CASE UNCHANGED vars
  BY <1>15 DEF IInv, TypeOK, Exposure, LossQueued, vars, loop, broker, budget
<1> QED
  BY <1>1, <1>2, <1>3, <1>4, <1>5, <1>6, <1>7, <1>8, <1>9, <1>10, <1>11, <1>12, <1>13, <1>14, <1>15 DEF Next, PahoThread, EventLoop

\* The inductive invariant holds throughout: types, the two clocks and the timer
\* that bound the exposure, and the order of the queue after a disconnection.
THEOREM InductiveInvariant == Spec => []IInv
<1> QED
  BY InitInv, NextInv, PTL DEF Spec

\* Every variable keeps its type: in particular the counters and the queues stay
\* in their bounds, whatever paho's thread and the event loop do.
THEOREM TypeCorrect == Spec => []TypeOK
<1>1. IInv => TypeOK
  BY DEF IInv
<1> QED
  BY <1>1, InductiveInvariant, PTL

\* _check_staleness: the entities are never available without a break for more
\* than the timeout and one interval without a payload processed to its end.
THEOREM ExposureIsBounded == Spec => []StaleExposureBounded
<1>1. IInv => StaleExposureBounded
  BY ConfigAssumption DEF IInv, TypeOK, Exposure, StaleExposureBounded
<1> QED
  BY <1>1, InductiveInvariant, PTL

\* _on_disconnect: after its callback the entities are unavailable, whatever was
\* queued before, unless a refresh has shown them again.
THEOREM DisconnectionIsSeen == Spec => []LossIsSeen
<1>1. IInv => LossIsSeen
  BY DEF IInv, TypeOK, LossQueued, LossIsSeen
<1> QED
  BY <1>1, InductiveInvariant, PTL

-----------------------------------------------------------------------------
(* An announced "offline" is final.                                        *)

\* A message or callback put behind the others is the last.
LEMMA AppendIsLast ==
  ASSUME NEW S, NEW q \in Seq(S), NEW c \in S
  PROVE  /\ Append(q, c) # <<>> /\ Append(q, c)[Len(Append(q, c))] = c
         /\ q \o <<c>> = Append(q, c)
OBVIOUS

\* What the broker is given last is what it sends last.
LEMMA PublishLast ==
  ASSUME TypeOK, OfflineLast, NEW m \in Messages, Publish(<<m>>)
  PROVE  OfflineLast'
<1>1. last' = m /\ UNCHANGED <<link, paho, queue, loop>>
      /\ inflight' = inflight \o Forwarded(<<m>>)
  BY DEF Publish
<1> SUFFICES ASSUME m = "offline" PROVE OfflineLast'
  BY <1>1 DEF OfflineLast
<1>2. retained'.avail = "offline"
  BY DEF Publish, Avail
<1>3. CASE link = "both"
  <2>1. inflight' = inflight \o <<m>>
    BY <1>1, <1>3 DEF Forwarded
  <2>2. inflight \in Seq(Messages)
    BY DEF TypeOK, Messages
  <2>3. inflight' # <<>> /\ inflight'[Len(inflight')] = m
    BY <2>1, <2>2, AppendIsLast
  <2> QED
    BY <1>2, <2>3 DEF OfflineLast
<1> QED
  BY <1>1, <1>2, <1>3 DEF OfflineLast

\* The replay of the second subscription ends with the retained "offline".
LEMMA SubscribeLast ==
  ASSUME TypeOK, OfflineLast, Subscribe
  PROVE  OfflineLast'
<1>1. UNCHANGED <<retained, last, paho, queue, loop>>
  BY DEF Subscribe
<1> SUFFICES ASSUME last = "offline", link' = "both" PROVE OfflineLast'
  BY <1>1 DEF OfflineLast, loop
<1>2. retained.avail = "offline" /\ inflight' = inflight \o <<"offline">>
  BY DEF Subscribe, Replay, OfflineLast
<1>3. inflight \in Seq(Messages) /\ "offline" \in Messages
  BY DEF TypeOK, Messages, Avail
<1>4. inflight' # <<>> /\ inflight'[Len(inflight')] = "offline"
  BY <1>2, <1>3, AppendIsLast
<1> QED
  BY <1>1, <1>2, <1>4 DEF OfflineLast

\* paho's thread takes what was on its way in order.
LEMMA MessageLast ==
  ASSUME TypeOK, OfflineLast, _on_message
  PROVE  OfflineLast'
<1>1. /\ UNCHANGED <<link, retained, last, loop>>
      /\ inflight # <<>> /\ inflight' = Tail(inflight)
  BY DEF _on_message
<1> SUFFICES ASSUME last = "offline", link = "both" PROVE OfflineLast'
  BY <1>1 DEF OfflineLast
<1>2. inflight \in Seq(Messages)
  BY DEF TypeOK, Messages
<1>3. inflight[Len(inflight)] = "offline" /\ retained.avail = "offline"
  BY <1>1 DEF OfflineLast
<1>4. CASE inflight' # <<>>
  BY <1>1, <1>2, <1>3, <1>4, TailKeepsLast DEF OfflineLast
<1>5. CASE inflight' = <<>>
  <2>1. Head(inflight) = "offline"
    BY <1>1, <1>2, <1>3, <1>5, TailKeepsLast
  <2>2. paho' = "idle" /\ queue' = Append(queue, "mark_unavailable")
    BY <2>1, ConfigAssumption DEF _on_message, CallSoon
  <2>3. queue \in Seq(Callbacks) /\ "mark_unavailable" \in Callbacks
    BY DEF TypeOK, Callbacks
  <2>4. queue' # <<>> /\ queue'[Len(queue')] = "mark_unavailable"
    BY <2>2, <2>3, AppendIsLast
  <2> QED
    BY <1>1, <1>3, <1>5, <2>2, <2>4 DEF OfflineLast
<1> QED
  BY <1>4, <1>5

\* A callback that runs was the last one only if it hides the entities.
LEMMA CallbackLast ==
  ASSUME TypeOK, OfflineLast, NEW c, Running(c),
         c = "mark_unavailable" => available' = FALSE
  PROVE  OfflineLast'
<1>1. /\ UNCHANGED <<link, inflight, retained, last, paho>>
      /\ queue # <<>> /\ Head(queue) = c /\ queue' = Tail(queue)
  BY DEF Running, broker
<1>2. queue \in Seq(Callbacks)
  BY DEF TypeOK
<1> SUFFICES ASSUME last = "offline", link = "both", inflight = <<>> PROVE OfflineLast'
  BY <1>1 DEF OfflineLast
<1>3. paho = "idle" /\ queue[Len(queue)] = "mark_unavailable" /\ retained.avail = "offline"
  BY <1>1 DEF OfflineLast
<1>4. CASE queue' = <<>>
  <2>1. available' = FALSE
    BY <1>1, <1>2, <1>3, <1>4, TailKeepsLast
  <2> QED
    BY <1>1, <1>3, <1>4, <2>1 DEF OfflineLast
<1>5. CASE queue' # <<>>
  BY <1>1, <1>2, <1>3, <1>5, TailKeepsLast DEF OfflineLast
<1> QED
  BY <1>4, <1>5

\* Every step keeps an "offline" said last in its place.
LEMMA OfflineLastStep ==
  ASSUME IInv, OfflineLast, [Next]_vars
  PROVE  OfflineLast'
<1>1. TypeOK
  BY DEF IInv
<1>2. CASE PollCycle
  <2>1. ASSUME NEW ms, Publish(ms), ms[Len(ms)] # "offline"
        PROVE  OfflineLast'
    BY <2>1 DEF Publish, OfflineLast
  <2>2. \A p \in Payloads : p # "offline"
    BY ConfigAssumption
  <2> QED
    BY <1>2, <2>1, <2>2 DEF PollCycle
<1>3. CASE SayOffline
  BY <1>1, <1>3, PublishLast DEF SayOffline, Messages, Avail
<1>4. CASE HangOrResume \/ _on_connect \/ UNCHANGED vars
  BY <1>4 DEF HangOrResume, _on_connect, OfflineLast, vars, loop, broker
<1>5. CASE _on_disconnect
  BY <1>5 DEF _on_disconnect, OfflineLast
<1>6. CASE Subscribe
  BY <1>1, <1>6, SubscribeLast
<1>7. CASE _on_message
  BY <1>1, <1>7, MessageLast
<1>8. CASE _on_message_fresh
  BY <1>8 DEF _on_message_fresh, OfflineLast, broker
<1>9. CASE EventLoop
  <2>1. CASE _mark_available
    BY <1>1, <2>1, CallbackLast DEF _mark_available
  <2>2. CASE _mark_unavailable
    BY <1>1, <2>2, CallbackLast DEF _mark_unavailable, Unavailable
  <2>3. CASE _process_payload
    BY <1>1, <2>3, CallbackLast DEF _process_payload
  <2> QED
    BY <1>9, <2>1, <2>2, <2>3 DEF EventLoop
<1>10. CASE _check_staleness \/ _async_update_data \/ Tick
  BY <1>10 DEF _check_staleness, _async_update_data, Tick, Unavailable, Available,
               OfflineLast, broker
<1> QED
  BY <1>2, <1>3, <1>4, <1>5, <1>6, <1>7, <1>8, <1>9, <1>10 DEF Next, PahoThread

\* _on_message, _on_connect: when the sidecar's last word is "offline" and all is
\* delivered, live or replayed, the entities are unavailable, unless refreshed.
THEOREM AnnouncedOfflineIsFinal == Spec => []OfflineIsFinal
<1>1. Init => OfflineLast
  BY DEF Init, OfflineLast
<1>2. IInv /\ OfflineLast /\ [Next]_vars => OfflineLast'
  BY OfflineLastStep
<1>3. OfflineLast => OfflineIsFinal
  BY DEF OfflineLast, OfflineIsFinal, Settled
<1> QED
  BY <1>1, <1>2, <1>3, InductiveInvariant, PTL DEF Spec

-----------------------------------------------------------------------------
(* The refinement of Availability.                                         *)

\* Every step keeps the watchdog's clock and the time without a payload together.
LEMMA ClocksStep == IInv /\ Clocks /\ [Next]_vars => Clocks'
<1> SUFFICES ASSUME IInv, Clocks, [Next]_vars PROVE Clocks'
  OBVIOUS
<1> USE ConfigAssumption
<1>1. age \in 0 .. Stale + 1 /\ unserved \in 0 .. Stale + Period + 1
  BY DEF IInv, TypeOK
<1>2. CASE Tick
  BY <1>1, <1>2 DEF Clocks, Tick, Lesser, IInv, Exposure
<1>3. CASE _mark_unavailable \/ _check_staleness
  BY <1>1, <1>3 DEF Clocks, _mark_unavailable, _check_staleness, Unavailable, Lesser
<1>4. CASE _process_payload
  BY <1>1, <1>4 DEF Clocks, _process_payload
<1>5. CASE UNCHANGED <<age, unserved>>
  BY <1>5 DEF Clocks
<1>6. PollCycle \/ SayOffline \/ HangOrResume => UNCHANGED <<age, unserved>>
  BY DEF PollCycle, SayOffline, HangOrResume, Publish, loop
<1>7. _on_connect \/ _on_disconnect \/ PahoThread => UNCHANGED <<age, unserved>>
  BY DEF _on_connect, _on_disconnect, PahoThread, Subscribe, _on_message, _on_message_fresh, loop
<1>8. _mark_available \/ _async_update_data \/ UNCHANGED vars
        => UNCHANGED <<age, unserved>>
  BY DEF _mark_available, _async_update_data, vars, loop
<1> QED
  BY <1>2, <1>3, <1>4, <1>5, <1>6, <1>7, <1>8 DEF Next, EventLoop

\* A queue that gains a callback keeps the others, and one that gives up its
\* first callback keeps the rest.
LEMMA ToldAppend ==
  ASSUME NEW c, queue \in Seq(Callbacks), c \in Callbacks, queue' = Append(queue, c)
  PROVE  Told' <=> Told \/ c = "mark_unavailable"
<1>1. /\ DOMAIN queue = 1 .. Len(queue) /\ Len(queue) \in Nat
      /\ DOMAIN queue' = 1 .. Len(queue) + 1
      /\ \A i \in 1 .. Len(queue) : queue'[i] = queue[i]
      /\ queue'[Len(queue) + 1] = c
  OBVIOUS
<1> QED
  BY <1>1 DEF Told

LEMMA ToldTail ==
  ASSUME queue \in Seq(Callbacks), queue # <<>>, queue' = Tail(queue)
  PROVE  Told <=> Told' \/ Head(queue) = "mark_unavailable"
<1>1. /\ DOMAIN queue = 1 .. Len(queue) /\ Len(queue) \in Nat \ {0}
      /\ DOMAIN queue' = 1 .. Len(queue) - 1
      /\ \A i \in 1 .. Len(queue) - 1 : queue'[i] = queue[i + 1]
      /\ Head(queue) = queue[1]
  OBVIOUS
<1>2. Told' => Told
  BY <1>1 DEF Told
<1>3. Head(queue) = "mark_unavailable" => Told
  BY <1>1 DEF Told
<1>4. Told /\ Head(queue) # "mark_unavailable" => Told'
  <2> SUFFICES ASSUME NEW i \in DOMAIN queue, queue[i] = "mark_unavailable",
                      Head(queue) # "mark_unavailable"
               PROVE  Told'
    BY DEF Told
  <2>1. i - 1 \in DOMAIN queue' /\ queue'[i - 1] = "mark_unavailable"
    BY <1>1
  <2> QED
    BY <2>1 DEF Told
<1> QED
  BY <1>2, <1>3, <1>4

\* What the entities show, as Availability sees it.
LEMMA ShownExposure ==
  ASSUME IInv, Clocks
  PROVE  /\ available \in BOOLEAN /\ age \in 0 .. Stale + 1
         /\ unserved \in 0 .. Stale + Period + 1
         /\ ~available => unserved <= Stale
         /\ age > Stale => unserved >= Stale
         /\ queue \in Seq(Callbacks)
  BY ConfigAssumption DEF IInv, TypeOK, Exposure, Clocks

\* Each step of the coordinator is one of Availability, or changes nothing there.
LEMMA PromiseStep ==
  ASSUME IInv, Clocks, [Next]_vars
  PROVE  [Promise!Next]_(Promise!vars)
<1> DEFINE exposure == IF available THEN unserved ELSE 0
<1> USE ConfigAssumption
<1>0. /\ available \in BOOLEAN /\ age \in 0 .. Stale + 1
      /\ unserved \in 0 .. Stale + Period + 1
      /\ ~available => unserved <= Stale
      /\ age > Stale => unserved >= Stale
      /\ queue \in Seq(Callbacks) /\ Told \in BOOLEAN
  BY ShownExposure DEF Told
<1>1. ASSUME UNCHANGED <<available, unserved, queue>>
      PROVE  UNCHANGED Promise!vars
  BY <1>1 DEF Promise!vars, Told
<1>2. ASSUME NEW c \in Callbacks, queue' = Append(queue, c),
             UNCHANGED <<available, unserved>>
      PROVE  Promise!Tell \/ UNCHANGED Promise!vars
  <2>1. Told' <=> Told \/ c = "mark_unavailable"
    BY <1>0, <1>2, ToldAppend
  <2>2. Told' = TRUE \/ Told' = Told
    BY <2>1 DEF Told
  <2> QED
    BY <1>2, <2>2 DEF Promise!Tell, Promise!vars
<1>3. ASSUME NEW c, Running(c), c # "mark_unavailable"
      PROVE  Told' = Told
  BY <1>0, <1>3, ToldTail DEF Running, Told
<1>4. ASSUME available' = TRUE, unserved' = unserved, Told' = Told
       PROVE  Promise!Restore \/ UNCHANGED Promise!vars
  <2>1. CASE available
    <3>1. available' = available
      BY <1>0, <1>4, <2>1
    <3> QED
      BY <1>4, <3>1 DEF Promise!vars
  <2>2. CASE ~available
    <3>1. exposure' = unserved /\ unserved \in 0 .. Stale
      BY <1>0, <1>4, <2>2
    <3> QED
      BY <1>4, <2>2, <3>1 DEF Promise!Restore
  <2> QED
    BY <2>1, <2>2
<1>5. CASE PollCycle \/ SayOffline \/ HangOrResume \/ _on_connect \/ Subscribe
  BY <1>1, <1>5 DEF PollCycle, SayOffline, HangOrResume, Publish, _on_connect, Subscribe, loop, budget
<1>6. CASE _on_disconnect
  BY <1>2, <1>6 DEF _on_disconnect, CallSoon, loop, Callbacks, Promise!Next
<1>7. CASE _on_message_fresh
  BY <1>2, <1>7 DEF _on_message_fresh, CallSoon, loop, Callbacks, Promise!Next
<1>8. CASE _on_message
  <2>1. UNCHANGED <<available, unserved>>
    BY <1>8 DEF _on_message, loop
  <2>2. \/ UNCHANGED queue
        \/ \E c \in Callbacks : queue' = Append(queue, c)
    BY <1>8 DEF _on_message, CallSoon, Callbacks
  <2> QED
    BY <1>1, <1>2, <2>1, <2>2 DEF Promise!Next
<1>9. CASE _mark_available
  <2>1. Told' = Told /\ available' = TRUE /\ unserved' = unserved
    BY <1>3, <1>9 DEF _mark_available, Available
  <2> QED
    BY <1>4, <2>1 DEF Promise!Next
<1>10. CASE _async_update_data
  <2>1. available' = TRUE /\ UNCHANGED <<queue, unserved>>
    BY <1>10 DEF _async_update_data, Available
  <2>2. Told' = Told
    BY <2>1 DEF Told
  <2> QED
    BY <1>4, <2>1, <2>2 DEF Promise!Next
<1>11. CASE _process_payload
  <2>1. Told' = Told
    BY <1>3, <1>11 DEF _process_payload
  <2>2. CASE UNCHANGED <<available, unserved>>
    BY <2>1, <2>2 DEF Promise!vars
  <2>3. CASE available' = TRUE /\ unserved' = unserved
    BY <1>4, <2>1, <2>3 DEF Promise!Next
  <2>4. CASE available' = TRUE /\ unserved' = 0
    BY <1>0, <2>1, <2>4 DEF Promise!Next, Promise!Serve
  <2> QED
    BY <1>11, <2>2, <2>3, <2>4 DEF _process_payload, Available
<1>12. CASE _mark_unavailable
  <2>1. Told
    BY <1>0, <1>12, ToldTail DEF _mark_unavailable, Running
  <2>2. available' = FALSE /\ Told' \in BOOLEAN
    BY <1>12 DEF _mark_unavailable, Unavailable, Told
  <2> QED
    BY <2>1, <2>2 DEF Promise!Next, Promise!HideAsTold
<1>13. CASE _check_staleness
  <2>1. Told' = Told
    BY <1>13 DEF _check_staleness, Told
  <2>2. CASE available /\ age > Stale
    <3>1. available' = FALSE
      BY <1>13, <2>2 DEF _check_staleness, Unavailable
    <3> QED
      BY <1>0, <2>1, <2>2, <3>1 DEF Promise!Next, Promise!HideStale
  <2>3. CASE ~(available /\ age > Stale)
    BY <1>13, <2>1, <2>3 DEF _check_staleness, Promise!vars
  <2> QED
    BY <2>2, <2>3
<1>14. CASE Tick
  <2>1. Told' = Told /\ available' = available
    BY <1>14 DEF Tick, Told
  <2>2. CASE available
    <3>1. unserved < Stale + Period
      BY <1>0, <1>14, <2>2 DEF Tick, IInv, TypeOK, Exposure, Clocks
    <3>2. unserved' = unserved + 1
      BY <1>0, <1>14, <2>2, <3>1 DEF Tick, Lesser
    <3> QED
      BY <1>0, <2>1, <2>2, <3>1, <3>2 DEF Promise!Next, Promise!Age
  <2>3. CASE ~available
    BY <2>1, <2>3 DEF Promise!vars
  <2> QED
    BY <2>2, <2>3
<1>15. CASE UNCHANGED vars
  BY <1>1, <1>15 DEF vars, loop
<1> QED
  BY <1>5, <1>6, <1>7, <1>8, <1>9, <1>10, <1>11, <1>12, <1>13, <1>14, <1>15
  DEF Next, PahoThread, EventLoop

\* The coordinator implements Availability: whatever the order of the callbacks,
\* its entities are hidden when it was told of an outage or when their data is
\* at least Stale old, for no other reason, and in bounded time.
THEOREM ImplementsAvailability == Spec => KeepsPromise
<1>1. Init => Promise!Init /\ Clocks
  BY ConfigAssumption DEF Init, Promise!Init, Clocks, Told
<1>2. IInv /\ Clocks /\ [Next]_vars => Clocks'
  BY ClocksStep
<1>3. IInv /\ Clocks /\ [Next]_vars => [Promise!Next]_(Promise!vars)
  BY PromiseStep
<1> QED
  BY <1>1, <1>2, <1>3, InductiveInvariant, PTL DEF Spec, KeepsPromise, Promise!Spec

-----------------------------------------------------------------------------
(***************************************************************************)
(* Bridge.                                                                 *)
(***************************************************************************)

\* The phases and their clock follow each other as InStep says.
LEMMA InitInStep == BridgeInit => InStep
<1> SUFFICES ASSUME BridgeInit PROVE InStep
  OBVIOUS
<1>1. Limit \in Nat
  BY BridgeAssumption DEF BridgeInit, Limit
<1> QED
  BY <1>1, BridgeAssumption DEF BridgeInit, InStep, Phases

LEMMA ClockInStep == InStep /\ Clock => InStep'
<1> SUFFICES ASSUME InStep, Clock PROVE InStep'
  OBVIOUS
<1>1. phase' = phase /\ speaking' = speaking /\ missed' = missed
  BY DEF Clock, Tick, broker
<1>2. Limit' = Limit
  BY <1>1 DEF Limit
<1>3. Limit \in Nat
  BY BridgeAssumption DEF InStep, Limit, Phases
<1>4. spent' \in Nat /\ spent' <= Limit
  BY <1>3 DEF Clock, InStep
<1> QED
  BY <1>1, <1>2, <1>4 DEF InStep

LEMMA MissedOnce ==
  ASSUME InStep
  PROVE  Lesser(missed + 1, Misses + 1) \in 0 .. Misses + 1
BY BridgeAssumption DEF InStep, Lesser

LEMMA StepInStep == InStep /\ [BridgeNext]_allVars => InStep'
<1> SUFFICES ASSUME InStep, [BridgeNext]_allVars PROVE InStep'
  OBVIOUS
<1> USE BridgeAssumption
<1>1. ASSUME NEW p \in Phases, Enter(p), speaking' = (p # "hung"),
             missed' \in 0 .. Misses + 1
      PROVE  InStep'
  <2>1. Limit' \in Nat
    BY <1>1 DEF Enter, Limit
  <2> QED
    BY <1>1, <2>1 DEF Enter, InStep
<1>2. ASSUME UNCHANGED <<speaking, phase, spent>>, missed' \in 0 .. Misses + 1
      PROVE  InStep'
  BY <1>2 DEF InStep, Limit
<1>3. Misses + 1 \in 0 .. Misses + 1 /\ 0 \in 0 .. Misses + 1 /\ missed \in 0 .. Misses + 1
  BY DEF InStep
<1>4. ASSUME NEW m, Send(m) PROVE speaking' = speaking
  BY <1>4 DEF Send, vars, broker
<1>5. CASE MainThread
  <2>1. CASE Connect
    BY <1>1, <1>3, <2>1 DEF Connect, InStep, vars, broker, Phases
  <2>2. CASE PublishState
    BY <1>1, <1>3, <1>4, <2>2, MissedOnce DEF PublishState, InStep, Phases
  <2>3. CASE PublishOnline
    BY <1>1, <1>3, <1>4, <2>3 DEF PublishOnline, InStep, Phases
  <2>4. CASE CycleFails
    BY <1>1, <1>3, <1>4, <2>4 DEF CycleFails, Trouble, InStep, Phases
  <2>5. CASE Wake
    BY <1>1, <1>3, <2>5 DEF Wake, InStep, vars, broker, Phases
  <2> QED
    BY <1>5, <2>1, <2>2, <2>3, <2>4, <2>5 DEF MainThread
<1>6. CASE Hang
  BY <1>1, <1>3, <1>6 DEF Hang, HangOrResume, Trouble, InStep, Phases
<1>7. CASE Resume
  BY <1>1, <1>3, <1>7 DEF Resume, HangOrResume, InStep, Phases
<1>8. CASE Crash
  BY <1>1, <1>3, <1>8 DEF Crash, HangOrResume, Trouble, InStep, Phases, vars, broker
<1>9. CASE WireBreaks \/ WireReturns \/ ConsoleChanges
  BY <1>2, <1>3, <1>9 DEF WireBreaks, WireReturns, ConsoleChanges, Trouble, vars, broker
<1>10. CASE WillFires
  BY <1>2, <1>3, <1>10 DEF WillFires, Trouble
<1>11. CASE ServePayload \/ LoseBroker
  BY <1>2, <1>3, <1>11 DEF ServePayload, LoseBroker, _process_payload, Running,
     _on_disconnect, Trouble, sidecar, broker
<1>12. CASE Receive \/ OnConnect
  BY <1>2, <1>3, <1>12 DEF Receive, OnConnect, PahoThread, Subscribe, _on_message,
     _on_message_fresh, _on_connect, sidecar, broker
<1>13. CASE MarkIt \/ Watchdog \/ Refresh
  BY <1>2, <1>3, <1>13 DEF MarkIt, Watchdog, Refresh, _mark_available,
     _mark_unavailable, _check_staleness, _async_update_data, Running, sidecar, broker
<1>14. CASE Clock
  BY <1>14, ClockInStep
<1>15. CASE UNCHANGED allVars
  BY <1>2, <1>3, <1>15 DEF allVars, vars, broker, sidecar
<1> QED
  BY <1>5, <1>6, <1>7, <1>8, <1>9, <1>10, <1>11, <1>12, <1>13, <1>14, <1>15
  DEF BridgeNext

LEMMA AlwaysInStep == BridgeSpec => []InStep
BY InitInStep, StepInStep, PTL DEF BridgeSpec

-----------------------------------------------------------------------------
(* The refinement of Coordinator.                                          *)

\* Each step of the bridge is a step of the coordinator or of the environment
\* it assumes, or leaves both alone.
LEMMA StepImplements == InStep /\ [BridgeNext]_allVars => [Next]_vars
<1> SUFFICES ASSUME InStep, [BridgeNext]_allVars PROVE [Next]_vars
  OBVIOUS
<1>1. CASE Connect \/ Wake \/ WireBreaks \/ WireReturns \/ ConsoleChanges
  BY <1>1 DEF Connect, Wake, WireBreaks, WireReturns, ConsoleChanges
<1>2. CASE PublishState
  <2>1. PICK p \in Payloads : Send(p)
    BY <1>2, BridgeAssumption DEF PublishState
  <2>2. speaking
    BY <1>2 DEF PublishState, InStep
  <2> QED
    BY <2>1, <2>2 DEF Send, Next, PollCycle
<1>3. CASE PublishOnline
  <2>1. speaking
    BY <1>3 DEF PublishOnline, InStep
  <2> QED
    BY <1>3, <2>1 DEF PublishOnline, Send, Next, PollCycle
<1>4. CASE CycleFails
  BY <1>4 DEF CycleFails, Send, Next, SayOffline, InStep
<1>5. CASE Hang \/ Resume \/ Crash
  BY <1>5 DEF Hang, Resume, Crash, Next
<1>6. CASE WillFires
  BY <1>6 DEF WillFires, Next, SayOffline, InStep
<1>7. CASE ServePayload \/ LoseBroker \/ Receive \/ OnConnect \/ MarkIt
  BY <1>7 DEF ServePayload, LoseBroker, Receive, OnConnect, MarkIt, Next, EventLoop
<1>8. CASE Watchdog \/ Refresh \/ Clock
  BY <1>8 DEF Watchdog, Refresh, Clock, Next
<1>9. CASE UNCHANGED allVars
  BY <1>9 DEF allVars
<1> QED
  BY <1>1, <1>2, <1>3, <1>4, <1>5, <1>6, <1>7, <1>8, <1>9 DEF BridgeNext, MainThread

\* The timed sidecar, its session with the broker and the wills of its earlier
\* sessions do only what Coordinator's environment may do.
THEOREM ImplementsCoordinator == BridgeSpec => Spec
<1>1. BridgeInit => Init
  BY DEF BridgeInit
<1> QED
  BY <1>1, StepImplements, AlwaysInStep, PTL DEF BridgeSpec, Spec

\* The whole path keeps the promise of Availability.
THEOREM BridgeKeepsPromise == BridgeSpec => KeepsPromise
BY ImplementsCoordinator, ImplementsAvailability, PTL

\* TypeOK of Coordinator carries over.
LEMMA AlwaysTyped == BridgeSpec => []TypeOK
BY ImplementsCoordinator, TypeCorrect, PTL

\* The session with the broker and the console, which no other part changes.
WireTyped ==
  /\ wire \in {"up", "down"}
  /\ sessions \in 0 .. MaxSessions
  /\ console \in {"good", "bad"}

LEMMA StepWireTyped == WireTyped /\ [BridgeNext]_allVars => WireTyped'
<1> SUFFICES ASSUME WireTyped, [BridgeNext]_allVars PROVE WireTyped'
  OBVIOUS
<1> USE BridgeAssumption DEF WireTyped
<1>1. CASE MainThread \/ Hang \/ Resume
  BY <1>1 DEF MainThread, Connect, PublishState, PublishOnline, CycleFails, Wake,
     Hang, Resume
<1>2. CASE Crash \/ WireBreaks \/ WireReturns \/ WillFires \/ ConsoleChanges
  BY <1>2 DEF Crash, WireBreaks, WireReturns, WillFires, ConsoleChanges
<1>3. CASE ServePayload \/ LoseBroker \/ Receive \/ OnConnect \/ MarkIt
  BY <1>3 DEF ServePayload, LoseBroker, Receive, OnConnect, MarkIt, sidecar
<1>4. CASE Watchdog \/ Refresh \/ Clock \/ UNCHANGED allVars
  BY <1>4 DEF Watchdog, Refresh, Clock, sidecar, allVars
<1> QED
  BY <1>1, <1>2, <1>3, <1>4 DEF BridgeNext

\* Every variable of the whole path keeps its type; no phase of the main thread
\* outlasts its clock.
THEOREM BridgeTypeCorrect == BridgeSpec => []BridgeTypeOK
<1>1. BridgeInit => WireTyped
  BY BridgeAssumption DEF BridgeInit, WireTyped
<1>2. TypeOK /\ InStep /\ WireTyped => BridgeTypeOK
  <2> SUFFICES ASSUME TypeOK, InStep, WireTyped PROVE BridgeTypeOK
    OBVIOUS
  <2>1. Limit \in 0 .. Interval + MaxCycle + Reconnect + 1
    BY BridgeAssumption DEF Limit
  <2>2. spent \in 0 .. Interval + MaxCycle + Reconnect + 1
    BY <2>1, BridgeAssumption DEF InStep
  <2> QED
    BY <2>2 DEF BridgeTypeOK, InStep, WireTyped
<1> QED
  BY <1>1, <1>2, StepWireTyped, AlwaysInStep, AlwaysTyped, PTL DEF BridgeSpec

-----------------------------------------------------------------------------
(* No false alarm.                                                         *)

\* A usable payload stays on its way while the queues grow.
LEMMA CarriedWhenSent ==
  ASSUME TypeOK, Carried, NEW m \in Payloads \cup Avail,
         inflight' = inflight \o <<m>> \/ inflight' = inflight, queue' = queue
  PROVE  Carried'
<1>1. CASE \E i \in DOMAIN queue : queue[i] = "valid"
  BY <1>1 DEF Carried
<1>2. ASSUME NEW i \in DOMAIN inflight, inflight[i] = "valid"
      PROVE  i \in DOMAIN inflight' /\ inflight'[i] = "valid"
  <2>1. inflight \in Seq(Payloads \cup Avail) /\ <<m>> \in Seq(Payloads \cup Avail)
    BY DEF TypeOK
  <2>2. CASE inflight' = inflight \o <<m>>
    <3>1. Len(inflight') = Len(inflight) + Len(<<m>>)
      BY <2>1, <2>2
    <3> QED
      BY <1>2, <2>1, <2>2, <3>1
  <2> QED
    BY <1>2, <2>2
<1> QED
  BY <1>1, <1>2 DEF Carried

LEMMA CarriedWhenQueued ==
  ASSUME TypeOK, \E i \in DOMAIN queue : queue[i] = "valid",
         NEW c \in Callbacks, queue' = Append(queue, c)
  PROVE  Carried'
<1>1. PICK i \in DOMAIN queue : queue[i] = "valid"
  OBVIOUS
<1>2. i \in DOMAIN queue' /\ queue'[i] = "valid"
  BY <1>1 DEF TypeOK
<1> QED
  BY <1>2 DEF Carried

\* Received by paho's thread, it is put on the event loop's queue.
LEMMA CarriedWhenReceived ==
  ASSUME TypeOK, Carried, _on_message
  PROVE  Carried'
<1> USE BridgeAssumption
<1>1. /\ inflight # <<>> /\ inflight' = Tail(inflight)
      /\ inflight \in Seq(Payloads \cup Avail)
  BY DEF _on_message, TypeOK
<1>2. queue' = queue \/ \E c \in Callbacks : queue' = Append(queue, c)
  BY DEF _on_message, CallSoon, Callbacks
<1>3. CASE \E i \in DOMAIN queue : queue[i] = "valid"
  BY <1>2, <1>3, CarriedWhenQueued DEF Carried
<1>4. ASSUME NEW i \in DOMAIN inflight, inflight[i] = "valid" PROVE Carried'
  <2>1. CASE i = 1
    <3>1. queue' = Append(queue, "valid")
      BY <1>1, <1>4, <2>1 DEF _on_message, CallSoon
    <3>2. PICK j : j = Len(queue) + 1
      OBVIOUS
    <3>3. j \in DOMAIN queue' /\ queue'[j] = "valid"
      BY <3>1, <3>2 DEF TypeOK
    <3> QED
      BY <3>3 DEF Carried
  <2>2. CASE i # 1
    <3>1. i - 1 \in DOMAIN inflight' /\ inflight'[i - 1] = "valid"
      BY <1>1, <1>4, <2>2
    <3> QED
      BY <3>1 DEF Carried
  <2> QED
    BY <2>1, <2>2
<1> QED
  BY <1>3, <1>4 DEF Carried

\* It leaves the queue only to be served.
LEMMA CarriedUntilServed ==
  ASSUME TypeOK, Carried, NEW c, c # "valid", Running(c)
  PROVE  Carried'
<1>1. /\ queue # <<>> /\ Head(queue) # "valid" /\ queue' = Tail(queue)
      /\ queue \in Seq(Callbacks) /\ inflight' = inflight
  BY DEF Running, TypeOK, broker
<1>2. ASSUME NEW i \in DOMAIN queue, queue[i] = "valid" PROVE Carried'
  <2>1. i # 1
    BY <1>1, <1>2
  <2>2. i - 1 \in DOMAIN queue' /\ queue'[i - 1] = "valid"
    BY <1>1, <1>2, <2>1
  <2> QED
    BY <2>2 DEF Carried
<1> QED
  BY <1>1, <1>2 DEF Carried

\* No wait is longer than a sleep and a cycle.
LEMMA WaitBounds ==
  ASSUME InStep, Margin
  PROVE  Wait \in Nat /\ Wait <= Interval + MaxCycle
BY BridgeAssumption DEF InStep, Margin, Wait, Limit, Phases

\* Each missed poll buys as long as a sleep and a cycle.
LEMMA PerPoll ==
  ASSUME NEW n \in Nat, NEW k \in Nat
  PROVE  /\ (n + 1) * k \in Nat
         /\ (n + 1 + 1) * k = (n + 1) * k + k
OBVIOUS

LEMMA PerPollGrows ==
  ASSUME NEW m \in Nat, NEW n \in Nat, m <= n, NEW k \in Nat
  PROVE  (m + 1) * k <= (n + 1) * k
OBVIOUS

\* The next state is due in time for as many polls as were missed.
Due == age + Wait <= (missed + 1) * (Interval + MaxCycle)

\* A step that neither misses a poll nor disturbs a carried payload, the data's
\* age, or the wait.
LEMMA Undisturbed ==
  ASSUME InStep, OnTime, missed' = missed, missed' <= Misses, Sound => Sound',
         Carried => Carried', age' = age, Wait' <= Wait, Wait \in Nat, Wait' \in Nat,
         age \in Nat
  PROVE  OnTime'
<1>1. Sound' /\ (Carried \/ Due)
  BY DEF OnTime, Due
<1>2. PICK k \in Nat : k = (missed + 1) * (Interval + MaxCycle)
  BY BridgeAssumption DEF InStep
<1>3. Due => age' + Wait' <= k
  BY <1>2 DEF Due
<1>4. k = (missed' + 1) * (Interval + MaxCycle)
  BY <1>2
<1> QED
  BY <1>1, <1>3, <1>4 DEF OnTime

LEMMA PublishOnTime ==
  ASSUME TypeOK, InStep, InStep', OnTime, Margin, PublishState, missed' <= Misses
  PROVE  OnTime'
<1> USE BridgeAssumption
<1>1. PICK p \in Payloads :
        /\ Send(p)
        /\ missed' = IF p = "valid" THEN missed ELSE Lesser(missed + 1, Misses + 1)
  BY DEF PublishState
<1>2. missed <= Misses /\ missed \in Nat
  BY <1>1 DEF InStep, Lesser
<1>3. Sound /\ (Carried \/ Due)
  BY <1>2 DEF OnTime, Due
<1>4. inflight' = inflight \o <<p>> /\ UNCHANGED <<link, queue, age>>
  <2>1. Publish(<<p>>) /\ link = "both"
    BY <1>1, <1>3 DEF Sound, Send
  <2>2. Forwarded(<<p>>) = <<p>>
    BY <2>1 DEF Forwarded
  <2> QED
    BY <2>1, <2>2 DEF Publish, loop
<1>5. Sound'
  BY <1>3, <1>4 DEF Sound, PublishState, Enter
<1>6. CASE p = "valid"
  <2>1. PICK i : i = Len(inflight) + 1
    OBVIOUS
  <2>2. i \in DOMAIN inflight' /\ inflight'[i] = "valid"
    <3>1. inflight \in Seq(Payloads \cup Avail) /\ <<p>> \in Seq(Payloads \cup Avail)
      BY DEF TypeOK
    <3>2. Len(inflight') = Len(inflight) + 1
      BY <1>4, <3>1
    <3> QED
      BY <1>4, <1>6, <2>1, <3>1, <3>2
  <2> QED
    BY <1>5, <2>2 DEF OnTime, Carried
<1>7. CASE p # "valid"
  <2>1. missed' = missed + 1
    BY <1>1, <1>2, <1>7 DEF Lesser
  <2>2. CASE Carried
    BY <1>4, <1>5, <2>2, CarriedWhenSent DEF OnTime
  <2>3. CASE Due
    <3>1. Wait' = Interval + MaxCycle
      BY DEF PublishState, Enter, Wait
    <3>2. PICK k \in Nat : k = (missed + 1) * (Interval + MaxCycle)
      BY <1>2, PerPoll
    <3>3. (missed' + 1) * (Interval + MaxCycle) = k + (Interval + MaxCycle)
      BY <1>2, <2>1, <3>2, PerPoll
    <3>4. Wait \in Nat /\ age \in Nat /\ age' = age
      BY <1>4, WaitBounds DEF TypeOK
    <3>5. age' + Wait' <= (missed' + 1) * (Interval + MaxCycle)
      BY <2>3, <3>1, <3>2, <3>3, <3>4 DEF Due
    <3> QED
      BY <1>5, <3>5 DEF OnTime
  <2> QED
    BY <1>3, <2>2, <2>3
<1> QED
  BY <1>6, <1>7

LEMMA ServeOnTime ==
  ASSUME TypeOK, InStep, InStep', OnTime, Margin, ServePayload, missed' <= Misses
  PROVE  OnTime'
<1> USE BridgeAssumption
<1>1. UNCHANGED <<link, wire, phase, spent>>
  BY DEF ServePayload, _process_payload, Running, sidecar
<1>2. Sound' = Sound /\ Wait' = Wait
  BY <1>1 DEF Sound, Wait
<1>3. Wait \in Nat /\ Wait <= Interval + MaxCycle /\ age \in Nat
  BY WaitBounds DEF TypeOK
<1>4. CASE Head(queue) = "valid" /\ Sound
  <2>1. missed' = 0 /\ age' = 0
    BY <1>4 DEF ServePayload, _process_payload, Running
  <2>2. age' + Wait' <= (missed' + 1) * (Interval + MaxCycle)
    BY <1>2, <1>3, <2>1
  <2> QED
    BY <1>2, <1>4, <2>2 DEF OnTime
<1>5. CASE ~(Head(queue) = "valid" /\ Sound)
  <2>1. missed' = missed
    BY <1>5 DEF ServePayload
  <2>2. Head(queue) # "valid"
    BY <1>5, <2>1 DEF OnTime
  <2>3. PICK c : c # "valid" /\ Running(c) /\ age' = age
    BY <2>2 DEF ServePayload, _process_payload, Running
  <2>4. Carried => Carried'
    BY <2>3, CarriedUntilServed
  <2> QED
    BY <1>2, <1>3, <2>1, <2>3, <2>4, Undisturbed
<1> QED
  BY <1>4, <1>5

\* With Prompt no time passes while a payload is on its way.
LEMMA ClockOnTime ==
  ASSUME TypeOK, InStep, InStep', OnTime, Margin, Prompt, Clock, missed' <= Misses
  PROVE  OnTime'
<1> USE BridgeAssumption
<1>1. /\ UNCHANGED <<link, wire, phase, missed>>
      /\ inflight = <<>> /\ queue = <<>>
      /\ age' = Lesser(age + 1, Stale + 1)
  BY DEF Clock, Tick, Settled
<1>2. Sound /\ Sound' /\ Due
  BY <1>1 DEF OnTime, Carried, Due, Sound
<1>3. spent < Limit /\ spent' = spent + 1 /\ phase \in {"cycle", "sleep", "reconnect"}
  BY <1>2 DEF Clock, Sound, Limit, InStep, Phases
<1>4. Wait' = Wait - 1 /\ Wait \in Nat
  <2>1. spent \in Nat /\ Wait \in Nat
    BY WaitBounds DEF InStep
  <2>2. CASE phase = "cycle"
    BY <1>1, <1>3, <2>1, <2>2 DEF Wait
  <2>3. CASE phase = "sleep"
    BY <1>1, <1>3, <2>1, <2>3 DEF Wait
  <2>4. CASE phase = "reconnect"
    BY <1>1, <1>3, <2>1, <2>4 DEF Wait
  <2> QED
    BY <1>3, <2>2, <2>3, <2>4
<1>5. age \in Nat /\ age' <= age + 1 /\ age' \in Nat
  BY <1>1, ConfigAssumption DEF TypeOK, Lesser
<1>6. PICK k \in Nat : k = (missed + 1) * (Interval + MaxCycle)
  BY PerPoll DEF InStep
<1>7. age + Wait <= k
  BY <1>2, <1>6 DEF Due
<1>8. age' + Wait' <= k
  BY <1>4, <1>5, <1>6, <1>7
<1> QED
  BY <1>1, <1>2, <1>6, <1>8 DEF OnTime

\* The other steps of the main thread: its wait grows no longer.
LEMMA AnnounceOnTime ==
  ASSUME TypeOK, InStep, InStep', OnTime, Margin, PublishOnline, missed' <= Misses
  PROVE  OnTime'
<1> USE BridgeAssumption
<1>1. Send("online") /\ missed' = missed /\ wire' = wire
  BY DEF PublishOnline
<1>2. UNCHANGED <<link, queue, age>>
  BY <1>1 DEF Send, Publish, vars, loop, broker
<1>3. inflight' = inflight \o <<"online">> \/ inflight' = inflight
  <2>1. Forwarded(<<"online">>) \in {<<"online">>, <<>>}
    BY DEF Forwarded
  <2>2. inflight \o <<>> = inflight
    BY DEF TypeOK
  <2> QED
    BY <1>1, <2>1, <2>2 DEF Send, Publish, vars, broker
<1>4. Carried => Carried'
  BY <1>2, <1>3, CarriedWhenSent DEF Avail
<1>5. Wait = Interval + MaxCycle /\ Wait' = Interval + MaxCycle
  BY DEF PublishOnline, Enter, Wait
<1>6. Sound => Sound'
  BY <1>1, <1>2 DEF Sound, PublishOnline, Enter
<1>7. age \in Nat /\ Interval + MaxCycle \in Nat
  BY DEF TypeOK
<1> QED
  BY <1>1, <1>2, <1>4, <1>5, <1>6, <1>7, Undisturbed

LEMMA WakeOnTime ==
  ASSUME TypeOK, InStep, InStep', OnTime, Margin, Wake, missed' <= Misses
  PROVE  OnTime'
<1> USE BridgeAssumption
<1>1. UNCHANGED <<link, inflight, queue, age, wire, missed>>
  BY DEF Wake, vars, broker, loop
<1>2. Wait' = MaxCycle /\ Wait \in Nat /\ age \in Nat
  BY WaitBounds DEF Wake, Enter, Wait, TypeOK
<1>3. Wait' <= Wait
  BY <1>2 DEF Wake, Wait, InStep, Limit
<1>4. Sound => Sound'
  BY <1>1 DEF Sound, Wake, Enter
<1>5. Carried => Carried'
  BY <1>1 DEF Carried
<1> QED
  BY <1>1, <1>2, <1>3, <1>4, <1>5, Undisturbed

\* A step of the integration that serves nothing.
LEMMA IntegrationOnTime ==
  ASSUME TypeOK, InStep, InStep', OnTime, Margin, missed' <= Misses,
         Receive \/ MarkIt \/ Watchdog \/ Refresh
  PROVE  OnTime'
<1> USE BridgeAssumption
<1>1. UNCHANGED <<wire, phase, spent, missed, age>>
  BY DEF Receive, MarkIt, Watchdog, Refresh, PahoThread, Subscribe, _on_message,
     _on_message_fresh, _mark_available, _mark_unavailable, _check_staleness,
     _async_update_data, Unavailable, loop, sidecar
<1>2. Wait' = Wait /\ Wait \in Nat /\ age \in Nat
  BY <1>1, WaitBounds DEF Wait, TypeOK
<1>3. missed <= Misses => Sound
  BY DEF OnTime
<1>4. ASSUME Sound PROVE link' = link /\ ~Subscribe
  BY <1>4 DEF Sound, Receive, MarkIt, Watchdog, Refresh, PahoThread, Subscribe,
     _on_message, _on_message_fresh, _mark_available, _mark_unavailable,
     _check_staleness, _async_update_data, Running
<1>5. Sound => Sound'
  BY <1>1, <1>4 DEF Sound
<1>6. ASSUME Sound, Carried PROVE Carried'
  <2>1. CASE _on_message
    BY <1>6, <2>1, CarriedWhenReceived
  <2>2. CASE _on_message_fresh
    <3>1. queue' = Append(queue, "mark_available") /\ inflight' = inflight
      BY <2>2 DEF _on_message_fresh, CallSoon, broker
    <3>2. CASE \E i \in DOMAIN queue : queue[i] = "valid"
      BY <3>1, <3>2, CarriedWhenQueued DEF Callbacks
    <3> QED
      BY <1>6, <3>1, <3>2 DEF Carried
  <2>3. CASE MarkIt
    BY <1>6, <2>3, CarriedUntilServed DEF MarkIt, _mark_available, _mark_unavailable
  <2>4. CASE Watchdog \/ Refresh
    <3>1. queue' = queue /\ inflight' = inflight
      BY <2>4 DEF Watchdog, Refresh, _check_staleness, _async_update_data, broker
    <3> QED
      BY <1>6, <3>1 DEF Carried
  <2> QED
    BY <1>4, <1>6, <2>1, <2>2, <2>3, <2>4 DEF Receive, PahoThread
<1> QED
  <2>1. Sound
    BY <1>1, <1>3
  <2> QED
    BY <1>1, <1>2, <1>5, <1>6, <2>1, Undisturbed

LEMMA StepOnTime ==
  ASSUME TypeOK, InStep, InStep', OnTime, Margin, Prompt, [BridgeNext]_allVars
  PROVE  OnTime'
<1> USE BridgeAssumption
<1> SUFFICES ASSUME missed' <= Misses PROVE OnTime'
  BY DEF OnTime
<1>1. CASE PublishState
  BY <1>1, PublishOnTime
<1>2. CASE PublishOnline
  BY <1>2, AnnounceOnTime
<1>3. CASE Wake
  BY <1>3, WakeOnTime
<1>4. CASE ServePayload
  BY <1>4, ServeOnTime
<1>5. CASE Receive \/ MarkIt \/ Watchdog \/ Refresh
  BY <1>5, IntegrationOnTime
<1>6. CASE Clock
  BY <1>6, ClockOnTime
<1>7. CASE CycleFails \/ Hang \/ Crash \/ WireBreaks \/ WillFires \/ LoseBroker
  BY <1>7 DEF CycleFails, Hang, Crash, WireBreaks, WillFires, LoseBroker, Trouble
<1>8. CASE Connect \/ Resume \/ WireReturns \/ OnConnect
  <2>1. missed' = missed
    BY <1>8 DEF Connect, Resume, WireReturns, OnConnect
  <2>2. ~Sound
    BY <1>8 DEF Connect, Resume, WireReturns, OnConnect, _on_connect, Sound
  <2> QED
    BY <2>1, <2>2 DEF OnTime
<1>9. CASE ConsoleChanges \/ UNCHANGED allVars
  <2>1. UNCHANGED <<vars, phase, spent, wire, missed>>
    BY <1>9 DEF ConsoleChanges, allVars, sidecar
  <2> QED
    BY <2>1 DEF OnTime, Sound, Carried, Wait, vars, broker, loop
<1> QED
  BY <1>1, <1>2, <1>3, <1>4, <1>5, <1>6, <1>7, <1>8, <1>9 DEF BridgeNext, MainThread

\* With a timeout that leaves room for Misses missed polls, and deliveries that
\* take no time worth counting, the watchdog never hides the entities of a sound
\* setup before more than Misses polls in a row have brought nothing usable.
THEOREM SoundSetupsDoNotFlap ==
  ASSUME Margin, Prompt
  PROVE  BridgeSpec => NoFalseAlarm
<1>1. BridgeInit => OnTime
  BY BridgeAssumption DEF BridgeInit, OnTime
<1>2. TypeOK /\ InStep /\ InStep' /\ OnTime /\ [BridgeNext]_allVars => OnTime'
  BY StepOnTime
<1>3. ASSUME TypeOK, InStep, OnTime, Watchdog, available, ~available'
      PROVE  missed > Misses
  <2> USE BridgeAssumption
  <2>1. age > Stale /\ ~Carried
    <3>1. _check_staleness /\ Settled
      BY <1>3 DEF Watchdog, _check_staleness
    <3>2. age > Stale
      BY <1>3, <3>1 DEF _check_staleness
    <3> QED
      BY <3>1, <3>2 DEF Settled, Carried
  <2>2. SUFFICES ASSUME missed <= Misses PROVE FALSE
    BY <1>3 DEF InStep
  <2>3. age + Wait <= (missed + 1) * (Interval + MaxCycle)
    BY <1>3, <2>1, <2>2 DEF OnTime
  <2>4. missed \in Nat /\ Interval + MaxCycle \in Nat
    BY <1>3 DEF InStep
  <2>5. PICK k, n \in Nat : /\ k = (missed + 1) * (Interval + MaxCycle)
                            /\ n = (Misses + 1) * (Interval + MaxCycle)
    BY <2>4, PerPoll
  <2>6. k <= n
    BY <2>2, <2>4, <2>5, PerPollGrows
  <2>7. age + Wait <= k /\ n <= Stale
    BY <2>3, <2>5 DEF Margin
  <2>8. Wait \in Nat /\ age \in Nat /\ Stale \in Nat
    BY <1>3, WaitBounds, ConfigAssumption DEF TypeOK
  <2> QED
    BY <2>1, <2>6, <2>7, <2>8
<1>4. TypeOK /\ InStep /\ OnTime =>
        [Watchdog /\ available /\ ~available' => missed > Misses]_allVars
  BY <1>3
<1> QED
  BY <1>1, <1>2, <1>4, AlwaysInStep, AlwaysTyped, PTL DEF BridgeSpec, NoFalseAlarm

\* The comment on _MAX_POLL_INTERVAL promises room for one missed poll: it is
\* there whenever no cycle is so slow that _warn_if_cycle_too_slow warns.
THEOREM UnwarnedSetupsSurviveAMiss ==
  ASSUME Misses = 1, ~TooSlow(MaxCycle), Reconnect <= Interval, Prompt
  PROVE  BridgeSpec => NoFalseAlarm
<1>1. MaxCycle + Interval <= _MAX_POLL_INTERVAL /\ _MAX_POLL_INTERVAL \in Nat
  BY BridgeAssumption, ConfigAssumption DEF TooSlow, _MAX_POLL_INTERVAL
<1>2. 2 * _MAX_POLL_INTERVAL <= Stale
  BY ConfigAssumption DEF _MAX_POLL_INTERVAL
<1>3. Margin
  BY <1>1, <1>2, BridgeAssumption, ConfigAssumption DEF Margin
<1> QED
  BY <1>3, SoundSetupsDoNotFlap
=============================================================================
