-------------------------- MODULE PollLoopProofs --------------------------
(***************************************************************************)
(* Proofs about PollLoop, for every number of batteries, monitoring level, *)
(* number of signals and number of broken sessions.                        *)
(***************************************************************************)
EXTENDS PollLoop, TLAPS

\* Before the first connection nothing is fetched, sampled or announced.
LEMMA InitInv == Init => IInv
<1> SUFFICES ASSUME Init PROVE IInv
  OBVIOUS
<1> USE ConfigAssumption DEF Init
<1>1. TypeOK
  <2>1. {info_fetched, info_live, pwr_parsed, sample, gap, flushed, failing}
          \subseteq BOOLEAN
    OBVIOUS
  <2>2. sessions \in 0 .. MaxSessions + 1 /\ signals \in 0 .. MaxSignals
    OBVIOUS
  <2> QED
    BY <2>1, <2>2 DEF TypeOK, PCs
<1>2. Provenance /\ GapDropsSample
  BY DEF Provenance, AfterInfo, AfterBatteries, TryBody, GuardedSleeps,
     GapDropsSample
<1>3. BrokenLinkIsSeen /\ FailureAnnounced
  BY DEF BrokenLinkIsSeen, FailureAnnounced, NeverOnlineWhileFailing
<1>4. StopAnnounced
  BY DEF StopAnnounced, NotOnlineAfterExit, Cleanup
<1> QED
  BY <1>1, <1>2, <1>3, <1>4 DEF IInv

\* The aggregate table lists some of the batteries.
LEMMA PwrTablesType == PwrTables \subseteq SUBSET Ids
  BY DEF PwrTables

-----------------------------------------------------------------------------
(* Each conjunct of the invariant is kept by every step.                   *)

\* Type correctness.
LEMMA TypeOKStep == IInv /\ [Next]_vars => TypeOK'
<1> SUFFICES ASSUME IInv, [Next]_vars PROVE TypeOK'
  OBVIOUS
<1> USE ConfigAssumption
<1>1. CASE \/ CycleStart \/ FetchInfo \/ SyncTime
          \/ FetchPwr \/ FetchPwrAgain \/ ChooseDetail
  <2>1. CASE CycleStart
    BY <2>1 DEF IInv, CycleStart, loop, system, tracker, broker, stop,
       TypeOK, PCs, TryBody, GuardedSleeps, Unguarded, Cleanup,
       BrokenLinkIsSeen
  <2>2. CASE FetchInfo
    BY <2>2 DEF IInv, FetchInfo, loop, system, tracker, broker, stop,
       TypeOK, PCs, TryBody, GuardedSleeps, Unguarded, Cleanup,
       BrokenLinkIsSeen
  <2>3. CASE SyncTime
    BY <2>3 DEF IInv, SyncTime, loop, system, tracker, broker, stop, TypeOK,
       PCs, TryBody, GuardedSleeps, Unguarded, Cleanup, BrokenLinkIsSeen
  <2>4. CASE FetchPwr
    <3>1. batteries' \subseteq Ids /\ pc' \in PCs
      BY <2>4, PwrTablesType DEF IInv, FetchPwr, ParsePwr, TypeOK, PCs, TryBody
    <3>2. {info_fetched, info_live, pwr_parsed, sample, gap, flushed, failing}'
            \subseteq BOOLEAN
      BY <2>4 DEF IInv, FetchPwr, ParsePwr, TypeOK, tracker
    <3> QED
      BY <2>4, <3>1, <3>2 DEF IInv, FetchPwr, ParsePwr, TypeOK, broker, stop
  <2>5. CASE FetchPwrAgain
    <3>1. batteries' \subseteq Ids /\ pc' \in PCs
      BY <2>5, PwrTablesType DEF IInv, FetchPwrAgain, ParsePwr, TypeOK, PCs, TryBody
    <3>2. {info_fetched, info_live, pwr_parsed, sample, gap, flushed, failing}'
            \subseteq BOOLEAN
      BY <2>5 DEF IInv, FetchPwrAgain, ParsePwr, TypeOK, tracker
    <3> QED
      BY <2>5, <3>1, <3>2 DEF IInv, FetchPwrAgain, ParsePwr, TypeOK, broker, stop
  <2>6. CASE ChooseDetail
    BY <2>6 DEF IInv, ChooseDetail, loop, system, tracker, broker, stop,
       TypeOK, PCs, TryBody, GuardedSleeps, Unguarded, Cleanup,
       BrokenLinkIsSeen, NeedsFallback
  <2> QED
    BY <1>1, <2>1, <2>2, <2>3, <2>4, <2>5, <2>6
<1>2. CASE EndProbe \/ EndVisits \/ FetchStat \/ FetchTime
  <2>1. CASE EndProbe
    BY <2>1 DEF IInv, EndProbe, loop, system, tracker, broker, stop, TypeOK,
       PCs, TryBody, GuardedSleeps, Unguarded, Cleanup, BrokenLinkIsSeen,
       Raise
  <2>2. CASE EndVisits
    BY <2>2 DEF IInv, EndVisits, loop, system, tracker, broker, stop,
       TypeOK, PCs, TryBody, GuardedSleeps, Unguarded, Cleanup,
       BrokenLinkIsSeen
  <2>3. CASE FetchStat
    BY <2>3 DEF IInv, FetchStat, loop, system, tracker, broker, stop,
       TypeOK, PCs, TryBody, GuardedSleeps, Unguarded, Cleanup,
       BrokenLinkIsSeen
  <2>4. CASE FetchTime
    BY <2>4 DEF IInv, FetchTime, loop, system, tracker, broker, stop,
       TypeOK, PCs, TryBody, GuardedSleeps, Unguarded, Cleanup,
       BrokenLinkIsSeen
  <2> QED
    BY <1>2, <2>1, <2>2, <2>3, <2>4
<1>3. CASE UpdateEnergy \/ PublishState \/ PublishOnline \/ PollSleep
  <2>1. CASE UpdateEnergy
    BY <2>1 DEF IInv, UpdateEnergy, loop, system, tracker, broker, stop,
       TypeOK, PCs, TryBody, GuardedSleeps, Unguarded, Cleanup,
       BrokenLinkIsSeen
  <2>2. CASE PublishState
    BY <2>2 DEF IInv, PublishState, loop, system, tracker, broker, stop,
       TypeOK, PCs, TryBody, GuardedSleeps, Unguarded, Cleanup,
       BrokenLinkIsSeen
  <2>3. CASE PublishOnline
    BY <2>3 DEF IInv, PublishOnline, loop, system, tracker, broker, stop,
       TypeOK, PCs, TryBody, GuardedSleeps, Unguarded, Cleanup,
       BrokenLinkIsSeen, Announce
  <2>4. CASE PollSleep
    BY <2>4 DEF IInv, PollSleep, loop, system, tracker, broker, stop,
       TypeOK, PCs, TryBody, GuardedSleeps, Unguarded, Cleanup,
       BrokenLinkIsSeen
  <2> QED
    BY <1>3, <2>1, <2>2, <2>3, <2>4
<1>4. CASE \/ RaiseFromCommand \/ RaiseFromParser \/ HandlerOffline
          \/ HandlerClose \/ HandlerInvalidate \/ ReconnectSleep
  <2>1. CASE RaiseFromCommand
    BY <2>1 DEF IInv, RaiseFromCommand, loop, system, tracker, broker, stop,
       TypeOK, PCs, TryBody, GuardedSleeps, Unguarded, Cleanup,
       BrokenLinkIsSeen, Raise, Errors, Outcomes, Replies
  <2>2. CASE RaiseFromParser
    BY <2>2 DEF IInv, RaiseFromParser, loop, system, tracker, broker, stop,
       TypeOK, PCs, TryBody, GuardedSleeps, Unguarded, Cleanup,
       BrokenLinkIsSeen, Raise
  <2>3. CASE HandlerOffline
    BY <2>3 DEF IInv, HandlerOffline, loop, system, tracker, broker, stop,
       TypeOK, PCs, TryBody, GuardedSleeps, Unguarded, Cleanup,
       BrokenLinkIsSeen, Announce
  <2>4. CASE HandlerClose
    BY <2>4 DEF IInv, HandlerClose, loop, system, tracker, broker, stop,
       TypeOK, PCs, TryBody, GuardedSleeps, Unguarded, Cleanup,
       BrokenLinkIsSeen
  <2>5. CASE HandlerInvalidate
    BY <2>5 DEF IInv, HandlerInvalidate, loop, system, tracker, broker,
       stop, TypeOK, PCs, TryBody, GuardedSleeps, Unguarded, Cleanup,
       BrokenLinkIsSeen, LeaveHandler
  <2>6. CASE ReconnectSleep
    BY <2>6 DEF IInv, ReconnectSleep, loop, system, tracker, broker, stop,
       TypeOK, PCs, TryBody, GuardedSleeps, Unguarded, Cleanup,
       BrokenLinkIsSeen
  <2> QED
    BY <1>4, <2>1, <2>2, <2>3, <2>4, <2>5, <2>6
<1>5. CASE \/ ConnectSucceeds \/ Setup \/ StopOffline
          \/ StopMqtt \/ StopBms \/ StopFlush
          \/ Signal
  <2>1. CASE ConnectSucceeds
    BY <2>1 DEF IInv, ConnectSucceeds, loop, system, tracker, broker, stop,
       TypeOK, PCs, TryBody, GuardedSleeps, Unguarded, Cleanup,
       BrokenLinkIsSeen
  <2>2. CASE Setup
    BY <2>2 DEF IInv, Setup, loop, system, tracker, broker, stop, TypeOK,
       PCs, TryBody, GuardedSleeps, Unguarded, Cleanup, BrokenLinkIsSeen
  <2>3. CASE StopOffline
    BY <2>3 DEF IInv, StopOffline, loop, system, tracker, broker, stop,
       TypeOK, PCs, TryBody, GuardedSleeps, Unguarded, Cleanup,
       BrokenLinkIsSeen, Announce
  <2>4. CASE StopMqtt
    BY <2>4 DEF IInv, StopMqtt, loop, system, tracker, broker, stop, TypeOK,
       PCs, TryBody, GuardedSleeps, Unguarded, Cleanup, BrokenLinkIsSeen
  <2>5. CASE StopBms
    BY <2>5 DEF IInv, StopBms, loop, system, tracker, broker, stop, TypeOK,
       PCs, TryBody, GuardedSleeps, Unguarded, Cleanup, BrokenLinkIsSeen
  <2>6. CASE StopFlush
    BY <2>6 DEF IInv, StopFlush, loop, system, tracker, broker, stop,
       TypeOK, PCs, TryBody, GuardedSleeps, Unguarded, Cleanup,
       BrokenLinkIsSeen
  <2>7. CASE Signal
    BY <2>7 DEF IInv, Signal, loop, system, tracker, broker, stop, TypeOK,
       PCs, TryBody, GuardedSleeps, Unguarded, Cleanup, BrokenLinkIsSeen,
       Die, CleanlyInterrupted
  <2> QED
    BY <1>5, <2>1, <2>2, <2>3, <2>4, <2>5, <2>6, <2>7
<1>6. CASE BmsChanges \/ LinkBreaks \/ LinkNoticed \/ LinkReturns \/ WillFires
  <2>1. CASE BmsChanges
    BY <2>1 DEF IInv, BmsChanges, loop, system, tracker, broker, stop,
       TypeOK, PCs, TryBody, GuardedSleeps, Unguarded, Cleanup,
       BrokenLinkIsSeen
  <2>2. CASE LinkBreaks
    BY <2>2 DEF IInv, LinkBreaks, loop, system, tracker, broker, stop,
       TypeOK, PCs, TryBody, GuardedSleeps, Unguarded, Cleanup,
       BrokenLinkIsSeen
  <2>3. CASE LinkNoticed
    BY <2>3 DEF IInv, LinkNoticed, loop, system, tracker, broker, stop,
       TypeOK, PCs, TryBody, GuardedSleeps, Unguarded, Cleanup,
       BrokenLinkIsSeen
  <2>4. CASE LinkReturns
    BY <2>4 DEF IInv, LinkReturns, loop, system, tracker, broker, stop,
       TypeOK, PCs, TryBody, GuardedSleeps, Unguarded, Cleanup,
       BrokenLinkIsSeen
  <2>5. CASE WillFires
    BY <2>5 DEF IInv, WillFires, loop, system, tracker, broker, stop,
       TypeOK, PCs, TryBody, GuardedSleeps, Unguarded, Cleanup,
       BrokenLinkIsSeen
  <2> QED
    BY <1>6, <2>1, <2>2, <2>3, <2>4, <2>5
<1>7. CASE \E id \in todo : ProbeSlot(id) \/ VisitBattery(id)
  BY <1>7 DEF IInv, ProbeSlot, VisitBattery, loop, system, tracker, broker,
     stop, TypeOK, PCs, TryBody, GuardedSleeps, Unguarded, Cleanup,
     BrokenLinkIsSeen
<1>8. CASE ConnectFails \/ UNCHANGED vars
  BY <1>8 DEF IInv, ConnectFails, vars, loop, system, tracker, broker, stop,
     TypeOK
<1> QED
  BY <1>1, <1>2, <1>3, <1>4, <1>5, <1>6, <1>7, <1>8 DEF Next, MainThread,
     Cycle, Shutdown, Environment

\* What each statement knows of the origin of the data.
LEMMA ProvenanceStep == IInv /\ [Next]_vars => Provenance'
<1> SUFFICES ASSUME IInv, [Next]_vars PROVE Provenance'
  OBVIOUS
<1> USE ConfigAssumption
<1>1. CASE \/ CycleStart \/ FetchInfo \/ SyncTime
          \/ FetchPwr \/ FetchPwrAgain \/ ChooseDetail
  BY <1>1 DEF IInv, CycleStart, FetchInfo, SyncTime, FetchPwr, FetchPwrAgain,
     ChooseDetail, loop, system, Provenance, TypeOK, AfterInfo,
     AfterBatteries, TryBody, GuardedSleeps, Unguarded, Cleanup, ParsePwr,
     PwrTables, Replies, NeedsFallback
<1>2. CASE EndProbe \/ EndVisits \/ FetchStat \/ FetchTime
  BY <1>2 DEF IInv, EndProbe, EndVisits, FetchStat, FetchTime, loop, system,
     Provenance, TypeOK, AfterInfo, AfterBatteries, TryBody, GuardedSleeps,
     Unguarded, Cleanup, Raise
<1>3. CASE UpdateEnergy \/ PublishState \/ PublishOnline \/ PollSleep
  BY <1>3 DEF IInv, UpdateEnergy, PublishState, PublishOnline, PollSleep,
     loop, system, Provenance, TypeOK, AfterInfo, AfterBatteries, TryBody,
     GuardedSleeps, Unguarded, Cleanup, Announce
<1>4. CASE \/ RaiseFromCommand \/ RaiseFromParser \/ HandlerOffline
          \/ HandlerClose \/ HandlerInvalidate \/ ReconnectSleep
  BY <1>4 DEF IInv, RaiseFromCommand, RaiseFromParser, HandlerOffline,
     HandlerClose, HandlerInvalidate, ReconnectSleep, loop, system,
     Provenance, TypeOK, AfterInfo, AfterBatteries, TryBody, GuardedSleeps,
     Unguarded, Cleanup, Raise, Errors, Outcomes, Replies, Announce,
     LeaveHandler
<1>5. CASE \/ ConnectSucceeds \/ Setup \/ StopOffline
          \/ StopMqtt \/ StopBms \/ StopFlush
          \/ Signal
  BY <1>5 DEF IInv, ConnectSucceeds, Setup, StopOffline, StopMqtt, StopBms,
     StopFlush, Signal, loop, system, Provenance, TypeOK, AfterInfo,
     AfterBatteries, TryBody, GuardedSleeps, Unguarded, Cleanup, Announce,
     Die, CleanlyInterrupted
<1>6. CASE BmsChanges \/ LinkBreaks \/ LinkNoticed \/ LinkReturns \/ WillFires
  BY <1>6 DEF IInv, BmsChanges, LinkBreaks, LinkNoticed, LinkReturns,
     WillFires, loop, system, Provenance, TypeOK, AfterInfo, AfterBatteries,
     TryBody, GuardedSleeps, Unguarded, Cleanup
<1>7. CASE \E id \in todo : ProbeSlot(id) \/ VisitBattery(id)
  BY <1>7 DEF IInv, ProbeSlot, VisitBattery, loop, system, Provenance, TypeOK,
     AfterInfo, AfterBatteries, TryBody, GuardedSleeps, Unguarded, Cleanup
<1>8. CASE ConnectFails \/ UNCHANGED vars
  BY <1>8 DEF IInv, ConnectFails, vars, loop, system, tracker, broker, stop,
     Provenance
<1> QED
  BY <1>1, <1>2, <1>3, <1>4, <1>5, <1>6, <1>7, <1>8 DEF Next, MainThread,
     Cycle, Shutdown, Environment

\* The energy sample does not outlive a failed cycle.
LEMMA GapDropsSampleStep == IInv /\ [Next]_vars => GapDropsSample'
<1> SUFFICES ASSUME IInv, [Next]_vars PROVE GapDropsSample'
  OBVIOUS
<1> USE ConfigAssumption
<1>1. CASE \/ CycleStart \/ FetchInfo \/ SyncTime
          \/ FetchPwr \/ FetchPwrAgain \/ ChooseDetail
  <2>1. CASE CycleStart
    BY <2>1 DEF IInv, CycleStart, loop, tracker, GapDropsSample, TypeOK,
       InHandler, TryBody, GuardedSleeps, Unguarded, Cleanup
  <2>2. CASE FetchInfo
    BY <2>2 DEF IInv, FetchInfo, loop, tracker, GapDropsSample, TypeOK,
       InHandler, TryBody, GuardedSleeps, Unguarded, Cleanup
  <2>3. CASE SyncTime
    BY <2>3 DEF IInv, SyncTime, loop, tracker, GapDropsSample, TypeOK,
       InHandler, TryBody, GuardedSleeps, Unguarded, Cleanup
  <2>4. CASE FetchPwr
    BY <2>4 DEF IInv, FetchPwr, loop, tracker, GapDropsSample, TypeOK,
       InHandler, TryBody, GuardedSleeps, Unguarded, Cleanup, ParsePwr,
       PwrTables, Replies
  <2>5. CASE FetchPwrAgain
    BY <2>5 DEF IInv, FetchPwrAgain, loop, tracker, GapDropsSample, TypeOK,
       InHandler, TryBody, GuardedSleeps, Unguarded, Cleanup, ParsePwr,
       PwrTables, Replies
  <2>6. CASE ChooseDetail
    BY <2>6 DEF IInv, ChooseDetail, loop, tracker, GapDropsSample, TypeOK,
       InHandler, TryBody, GuardedSleeps, Unguarded, Cleanup, NeedsFallback
  <2> QED
    BY <1>1, <2>1, <2>2, <2>3, <2>4, <2>5, <2>6
<1>2. CASE EndProbe \/ EndVisits \/ FetchStat \/ FetchTime
  <2>1. CASE EndProbe
    BY <2>1 DEF IInv, EndProbe, loop, tracker, GapDropsSample, TypeOK,
       InHandler, TryBody, GuardedSleeps, Unguarded, Cleanup, Raise
  <2>2. CASE EndVisits
    BY <2>2 DEF IInv, EndVisits, loop, tracker, GapDropsSample, TypeOK,
       InHandler, TryBody, GuardedSleeps, Unguarded, Cleanup
  <2>3. CASE FetchStat
    BY <2>3 DEF IInv, FetchStat, loop, tracker, GapDropsSample, TypeOK,
       InHandler, TryBody, GuardedSleeps, Unguarded, Cleanup
  <2>4. CASE FetchTime
    BY <2>4 DEF IInv, FetchTime, loop, tracker, GapDropsSample, TypeOK,
       InHandler, TryBody, GuardedSleeps, Unguarded, Cleanup
  <2> QED
    BY <1>2, <2>1, <2>2, <2>3, <2>4
<1>3. CASE UpdateEnergy \/ PublishState \/ PublishOnline \/ PollSleep
  <2>1. CASE UpdateEnergy
    BY <2>1 DEF IInv, UpdateEnergy, loop, tracker, GapDropsSample, TypeOK,
       InHandler, TryBody, GuardedSleeps, Unguarded, Cleanup
  <2>2. CASE PublishState
    BY <2>2 DEF IInv, PublishState, loop, tracker, GapDropsSample, TypeOK,
       InHandler, TryBody, GuardedSleeps, Unguarded, Cleanup
  <2>3. CASE PublishOnline
    BY <2>3 DEF IInv, PublishOnline, loop, tracker, GapDropsSample, TypeOK,
       InHandler, TryBody, GuardedSleeps, Unguarded, Cleanup, Announce
  <2>4. CASE PollSleep
    BY <2>4 DEF IInv, PollSleep, loop, tracker, GapDropsSample, TypeOK,
       InHandler, TryBody, GuardedSleeps, Unguarded, Cleanup
  <2> QED
    BY <1>3, <2>1, <2>2, <2>3, <2>4
<1>4. CASE \/ RaiseFromCommand \/ RaiseFromParser \/ HandlerOffline
          \/ HandlerClose \/ HandlerInvalidate \/ ReconnectSleep
  <2>1. CASE RaiseFromCommand
    BY <2>1 DEF IInv, RaiseFromCommand, loop, tracker, GapDropsSample,
       TypeOK, InHandler, TryBody, GuardedSleeps, Unguarded, Cleanup, Raise,
       Errors, Outcomes, Replies
  <2>2. CASE RaiseFromParser
    BY <2>2 DEF IInv, RaiseFromParser, loop, tracker, GapDropsSample,
       TypeOK, InHandler, TryBody, GuardedSleeps, Unguarded, Cleanup, Raise
  <2>3. CASE HandlerOffline
    BY <2>3 DEF IInv, HandlerOffline, loop, tracker, GapDropsSample, TypeOK,
       InHandler, TryBody, GuardedSleeps, Unguarded, Cleanup, Announce
  <2>4. CASE HandlerClose
    BY <2>4 DEF IInv, HandlerClose, loop, tracker, GapDropsSample, TypeOK,
       InHandler, TryBody, GuardedSleeps, Unguarded, Cleanup
  <2>5. CASE HandlerInvalidate
    BY <2>5 DEF IInv, HandlerInvalidate, loop, tracker, GapDropsSample,
       TypeOK, InHandler, TryBody, GuardedSleeps, Unguarded, Cleanup,
       LeaveHandler
  <2>6. CASE ReconnectSleep
    BY <2>6 DEF IInv, ReconnectSleep, loop, tracker, GapDropsSample, TypeOK,
       InHandler, TryBody, GuardedSleeps, Unguarded, Cleanup
  <2> QED
    BY <1>4, <2>1, <2>2, <2>3, <2>4, <2>5, <2>6
<1>5. CASE \/ ConnectSucceeds \/ Setup \/ StopOffline
          \/ StopMqtt \/ StopBms \/ StopFlush
          \/ Signal
  <2>1. CASE ConnectSucceeds
    BY <2>1 DEF IInv, ConnectSucceeds, loop, tracker, GapDropsSample,
       TypeOK, InHandler, TryBody, GuardedSleeps, Unguarded, Cleanup
  <2>2. CASE Setup
    BY <2>2 DEF IInv, Setup, loop, tracker, GapDropsSample, TypeOK,
       InHandler, TryBody, GuardedSleeps, Unguarded, Cleanup
  <2>3. CASE StopOffline
    BY <2>3 DEF IInv, StopOffline, loop, tracker, GapDropsSample, TypeOK,
       InHandler, TryBody, GuardedSleeps, Unguarded, Cleanup, Announce
  <2>4. CASE StopMqtt
    BY <2>4 DEF IInv, StopMqtt, loop, tracker, GapDropsSample, TypeOK,
       InHandler, TryBody, GuardedSleeps, Unguarded, Cleanup
  <2>5. CASE StopBms
    BY <2>5 DEF IInv, StopBms, loop, tracker, GapDropsSample, TypeOK,
       InHandler, TryBody, GuardedSleeps, Unguarded, Cleanup
  <2>6. CASE StopFlush
    BY <2>6 DEF IInv, StopFlush, loop, tracker, GapDropsSample, TypeOK,
       InHandler, TryBody, GuardedSleeps, Unguarded, Cleanup
  <2>7. CASE Signal
    BY <2>7 DEF IInv, Signal, loop, tracker, GapDropsSample, TypeOK,
       InHandler, TryBody, GuardedSleeps, Unguarded, Cleanup, Die,
       CleanlyInterrupted
  <2> QED
    BY <1>5, <2>1, <2>2, <2>3, <2>4, <2>5, <2>6, <2>7
<1>6. CASE BmsChanges \/ LinkBreaks \/ LinkNoticed \/ LinkReturns \/ WillFires
  <2>1. CASE BmsChanges
    BY <2>1 DEF IInv, BmsChanges, loop, tracker, GapDropsSample, TypeOK,
       InHandler, TryBody, GuardedSleeps, Unguarded, Cleanup
  <2>2. CASE LinkBreaks
    BY <2>2 DEF IInv, LinkBreaks, loop, tracker, GapDropsSample, TypeOK,
       InHandler, TryBody, GuardedSleeps, Unguarded, Cleanup
  <2>3. CASE LinkNoticed
    BY <2>3 DEF IInv, LinkNoticed, loop, tracker, GapDropsSample, TypeOK,
       InHandler, TryBody, GuardedSleeps, Unguarded, Cleanup
  <2>4. CASE LinkReturns
    BY <2>4 DEF IInv, LinkReturns, loop, tracker, GapDropsSample, TypeOK,
       InHandler, TryBody, GuardedSleeps, Unguarded, Cleanup
  <2>5. CASE WillFires
    BY <2>5 DEF IInv, WillFires, loop, tracker, GapDropsSample, TypeOK,
       InHandler, TryBody, GuardedSleeps, Unguarded, Cleanup
  <2> QED
    BY <1>6, <2>1, <2>2, <2>3, <2>4, <2>5
<1>7. CASE \E id \in todo : ProbeSlot(id) \/ VisitBattery(id)
  BY <1>7 DEF IInv, ProbeSlot, VisitBattery, loop, tracker, GapDropsSample,
     TypeOK, InHandler, TryBody, GuardedSleeps, Unguarded, Cleanup
<1>8. CASE ConnectFails \/ UNCHANGED vars
  BY <1>8 DEF IInv, ConnectFails, vars, loop, system, tracker, broker, stop,
     GapDropsSample
<1> QED
  BY <1>1, <1>2, <1>3, <1>4, <1>5, <1>6, <1>7, <1>8 DEF Next, MainThread,
     Cycle, Shutdown, Environment

\* What the broker is owed by connections that broke.
LEMMA BrokenLinkIsSeenStep == IInv /\ [Next]_vars => BrokenLinkIsSeen'
<1> SUFFICES ASSUME IInv, [Next]_vars PROVE BrokenLinkIsSeen'
  OBVIOUS
<1> USE ConfigAssumption
<1>1. CASE \/ CycleStart \/ FetchInfo \/ SyncTime
          \/ FetchPwr \/ FetchPwrAgain \/ ChooseDetail
  BY <1>1 DEF IInv, CycleStart, FetchInfo, SyncTime, FetchPwr, FetchPwrAgain,
     ChooseDetail, loop, broker, BrokenLinkIsSeen, TypeOK, StopAnnounced,
     Unguarded, Cleanup, ParsePwr, PwrTables, Replies, NeedsFallback
<1>2. CASE EndProbe \/ EndVisits \/ FetchStat \/ FetchTime
  BY <1>2 DEF IInv, EndProbe, EndVisits, FetchStat, FetchTime, loop, broker,
     BrokenLinkIsSeen, TypeOK, StopAnnounced, Unguarded, Cleanup, Raise
<1>3. CASE UpdateEnergy \/ PublishState \/ PublishOnline \/ PollSleep
  BY <1>3 DEF IInv, UpdateEnergy, PublishState, PublishOnline, PollSleep,
     loop, broker, BrokenLinkIsSeen, TypeOK, StopAnnounced, Unguarded,
     Cleanup, Announce
<1>4. CASE \/ RaiseFromCommand \/ RaiseFromParser \/ HandlerOffline
          \/ HandlerClose \/ HandlerInvalidate \/ ReconnectSleep
  BY <1>4 DEF IInv, RaiseFromCommand, RaiseFromParser, HandlerOffline,
     HandlerClose, HandlerInvalidate, ReconnectSleep, loop, broker,
     BrokenLinkIsSeen, TypeOK, StopAnnounced, Unguarded, Cleanup, Raise,
     Errors, Outcomes, Replies, Announce, LeaveHandler
<1>5. CASE \/ ConnectSucceeds \/ Setup \/ StopOffline
          \/ StopMqtt \/ StopBms \/ StopFlush
          \/ Signal
  BY <1>5 DEF IInv, ConnectSucceeds, Setup, StopOffline, StopMqtt, StopBms,
     StopFlush, Signal, loop, broker, BrokenLinkIsSeen, TypeOK, StopAnnounced,
     Unguarded, Cleanup, Announce, Die, CleanlyInterrupted
<1>6. CASE BmsChanges \/ LinkBreaks \/ LinkNoticed \/ LinkReturns \/ WillFires
  BY <1>6 DEF IInv, BmsChanges, LinkBreaks, LinkNoticed, LinkReturns,
     WillFires, loop, broker, BrokenLinkIsSeen, TypeOK, StopAnnounced,
     Unguarded, Cleanup
<1>7. CASE \E id \in todo : ProbeSlot(id) \/ VisitBattery(id)
  BY <1>7 DEF IInv, ProbeSlot, VisitBattery, loop, broker, BrokenLinkIsSeen,
     TypeOK, StopAnnounced, Unguarded, Cleanup
<1>8. CASE ConnectFails \/ UNCHANGED vars
  BY <1>8 DEF IInv, ConnectFails, vars, loop, system, tracker, broker, stop,
     BrokenLinkIsSeen
<1> QED
  BY <1>1, <1>2, <1>3, <1>4, <1>5, <1>6, <1>7, <1>8 DEF Next, MainThread,
     Cycle, Shutdown, Environment

\* The announcement made by the except clauses.
LEMMA FailureAnnouncedStep == IInv /\ [Next]_vars => FailureAnnounced'
<1> SUFFICES ASSUME IInv, [Next]_vars PROVE FailureAnnounced'
  OBVIOUS
<1> USE ConfigAssumption
<1>1. CASE \/ CycleStart \/ FetchInfo \/ SyncTime
          \/ FetchPwr \/ FetchPwrAgain \/ ChooseDetail
  BY <1>1 DEF IInv, CycleStart, FetchInfo, SyncTime, FetchPwr, FetchPwrAgain,
     ChooseDetail, loop, broker, FailureAnnounced, TypeOK, BrokenLinkIsSeen,
     NeverOnlineWhileFailing, StopAnnounced, Unguarded, Cleanup, ParsePwr,
     PwrTables, Replies, NeedsFallback
<1>2. CASE EndProbe \/ EndVisits \/ FetchStat \/ FetchTime
  BY <1>2 DEF IInv, EndProbe, EndVisits, FetchStat, FetchTime, loop, broker,
     FailureAnnounced, TypeOK, BrokenLinkIsSeen, NeverOnlineWhileFailing,
     StopAnnounced, Unguarded, Cleanup, Raise
<1>3. CASE UpdateEnergy \/ PublishState \/ PublishOnline \/ PollSleep
  BY <1>3 DEF IInv, UpdateEnergy, PublishState, PublishOnline, PollSleep,
     loop, broker, FailureAnnounced, TypeOK, BrokenLinkIsSeen,
     NeverOnlineWhileFailing, StopAnnounced, Unguarded, Cleanup, Announce
<1>4. CASE \/ RaiseFromCommand \/ RaiseFromParser \/ HandlerOffline
          \/ HandlerClose \/ HandlerInvalidate \/ ReconnectSleep
  BY <1>4 DEF IInv, RaiseFromCommand, RaiseFromParser, HandlerOffline,
     HandlerClose, HandlerInvalidate, ReconnectSleep, loop, broker,
     FailureAnnounced, TypeOK, BrokenLinkIsSeen, NeverOnlineWhileFailing,
     StopAnnounced, Unguarded, Cleanup, Raise, Errors, Outcomes, Replies,
     Announce, LeaveHandler
<1>5. CASE \/ ConnectSucceeds \/ Setup \/ StopOffline
          \/ StopMqtt \/ StopBms \/ StopFlush
          \/ Signal
  BY <1>5 DEF IInv, ConnectSucceeds, Setup, StopOffline, StopMqtt, StopBms,
     StopFlush, Signal, loop, broker, FailureAnnounced, TypeOK,
     BrokenLinkIsSeen, NeverOnlineWhileFailing, StopAnnounced, Unguarded,
     Cleanup, Announce, Die, CleanlyInterrupted
<1>6. CASE BmsChanges \/ LinkBreaks \/ LinkNoticed \/ LinkReturns \/ WillFires
  BY <1>6 DEF IInv, BmsChanges, LinkBreaks, LinkNoticed, LinkReturns,
     WillFires, loop, broker, FailureAnnounced, TypeOK, BrokenLinkIsSeen,
     NeverOnlineWhileFailing, StopAnnounced, Unguarded, Cleanup
<1>7. CASE \E id \in todo : ProbeSlot(id) \/ VisitBattery(id)
  BY <1>7 DEF IInv, ProbeSlot, VisitBattery, loop, broker, FailureAnnounced,
     TypeOK, BrokenLinkIsSeen, NeverOnlineWhileFailing, StopAnnounced,
     Unguarded, Cleanup
<1>8. CASE ConnectFails \/ UNCHANGED vars
  BY <1>8 DEF IInv, ConnectFails, vars, loop, system, tracker, broker, stop,
     FailureAnnounced, NeverOnlineWhileFailing
<1> QED
  BY <1>1, <1>2, <1>3, <1>4, <1>5, <1>6, <1>7, <1>8 DEF Next, MainThread,
     Cycle, Shutdown, Environment

\* The announcement made by the end of the process.
LEMMA StopAnnouncedStep == IInv /\ [Next]_vars => StopAnnounced'
<1> SUFFICES ASSUME IInv, [Next]_vars PROVE StopAnnounced'
  OBVIOUS
<1> USE ConfigAssumption
<1>1. CASE \/ CycleStart \/ FetchInfo \/ SyncTime
          \/ FetchPwr \/ FetchPwrAgain \/ ChooseDetail
  BY <1>1 DEF IInv, CycleStart, FetchInfo, SyncTime, FetchPwr, FetchPwrAgain,
     ChooseDetail, loop, broker, stop, StopAnnounced, TypeOK,
     BrokenLinkIsSeen, NotOnlineAfterExit, TryBody, GuardedSleeps, Unguarded,
     Cleanup, ParsePwr, PwrTables, Replies, NeedsFallback
<1>2. CASE EndProbe \/ EndVisits \/ FetchStat \/ FetchTime
  BY <1>2 DEF IInv, EndProbe, EndVisits, FetchStat, FetchTime, loop, broker,
     stop, StopAnnounced, TypeOK, BrokenLinkIsSeen, NotOnlineAfterExit,
     TryBody, GuardedSleeps, Unguarded, Cleanup, Raise
<1>3. CASE UpdateEnergy \/ PublishState \/ PublishOnline \/ PollSleep
  BY <1>3 DEF IInv, UpdateEnergy, PublishState, PublishOnline, PollSleep,
     loop, broker, stop, StopAnnounced, TypeOK, BrokenLinkIsSeen,
     NotOnlineAfterExit, TryBody, GuardedSleeps, Unguarded, Cleanup, Announce
<1>4. CASE \/ RaiseFromCommand \/ RaiseFromParser \/ HandlerOffline
          \/ HandlerClose \/ HandlerInvalidate \/ ReconnectSleep
  BY <1>4 DEF IInv, RaiseFromCommand, RaiseFromParser, HandlerOffline,
     HandlerClose, HandlerInvalidate, ReconnectSleep, loop, broker, stop,
     StopAnnounced, TypeOK, BrokenLinkIsSeen, NotOnlineAfterExit, TryBody,
     GuardedSleeps, Unguarded, Cleanup, Raise, Errors, Outcomes, Replies,
     Announce, LeaveHandler
<1>5. CASE \/ ConnectSucceeds \/ Setup \/ StopOffline
          \/ StopMqtt \/ StopBms \/ StopFlush
          \/ Signal
  BY <1>5 DEF IInv, ConnectSucceeds, Setup, StopOffline, StopMqtt, StopBms,
     StopFlush, Signal, loop, broker, stop, StopAnnounced, TypeOK,
     BrokenLinkIsSeen, NotOnlineAfterExit, TryBody, GuardedSleeps, Unguarded,
     Cleanup, Announce, Die, CleanlyInterrupted
<1>6. CASE BmsChanges \/ LinkBreaks \/ LinkNoticed \/ LinkReturns \/ WillFires
  BY <1>6 DEF IInv, BmsChanges, LinkBreaks, LinkNoticed, LinkReturns,
     WillFires, loop, broker, stop, StopAnnounced, TypeOK, BrokenLinkIsSeen,
     NotOnlineAfterExit, TryBody, GuardedSleeps, Unguarded, Cleanup
<1>7. CASE \E id \in todo : ProbeSlot(id) \/ VisitBattery(id)
  BY <1>7 DEF IInv, ProbeSlot, VisitBattery, loop, broker, stop,
     StopAnnounced, TypeOK, BrokenLinkIsSeen, NotOnlineAfterExit, TryBody,
     GuardedSleeps, Unguarded, Cleanup
<1>8. CASE ConnectFails \/ UNCHANGED vars
  BY <1>8 DEF IInv, ConnectFails, vars, loop, system, tracker, broker, stop,
     StopAnnounced, NotOnlineAfterExit
<1> QED
  BY <1>1, <1>2, <1>3, <1>4, <1>5, <1>6, <1>7, <1>8 DEF Next, MainThread,
     Cycle, Shutdown, Environment

\* Every statement of main(), signal and change of the links keeps the invariant.
LEMMA NextInv == IInv /\ [Next]_vars => IInv'
  BY TypeOKStep, ProvenanceStep, GapDropsSampleStep, BrokenLinkIsSeenStep,
     FailureAnnouncedStep, StopAnnouncedStep DEF IInv

-----------------------------------------------------------------------------
(* The theorems.                                                           *)

\* Throughout the poll loop, its handlers and its shutdown: the types, where the
\* reading and the device info come from, the dropped energy sample, and what the
\* broker retains after a broken connection, a failed cycle and an exit.
THEOREM InductiveInvariant == Spec => []IInv
<1> QED
  BY InitInv, NextInv, PTL DEF Spec

\* Every variable of the loop keeps its type.
THEOREM TypeCorrect == Spec => []TypeOK
<1>1. IInv => TypeOK
  BY DEF IInv
<1> QED
  BY <1>1, InductiveInvariant, PTL

\* What is published was read in this cycle, over the connection that is open
\* (the poll cycle of main, _fetch_batteries_indexed).
THEOREM ReadingIsCurrent == Spec => []PublishedReadingIsCurrent
<1>1. IInv => PublishedReadingIsCurrent
  BY DEF IInv, Provenance, AfterInfo, AfterBatteries, TryBody,
     PublishedReadingIsCurrent
<1> QED
  BY <1>1, InductiveInvariant, PTL

\* No energy is integrated over a failed cycle, whichever except clause handled
\* it (the two except clauses, invalidate_last_time).
THEOREM EnergySkipsFailures == Spec => []NoEnergyAcrossFailure
<1>1. IInv => NoEnergyAcrossFailure
  BY DEF IInv, GapDropsSample, InHandler, Cleanup, NoEnergyAcrossFailure
<1> QED
  BY <1>1, InductiveInvariant, PTL

\* A failing sidecar is not announced as online, whatever became of the
\* connection its "offline" was published on (the two except clauses).
THEOREM FailureIsAnnounced == Spec => []NeverOnlineWhileFailing
<1>1. IInv => NeverOnlineWhileFailing
  BY DEF IInv, FailureAnnounced
<1> QED
  BY <1>1, InductiveInvariant, PTL

\* A process ended by one signal is not left announced as online
\* (_clean_shutdown, will_set).
THEOREM ExitIsAnnounced == Spec => []NotOnlineAfterExit
<1>1. IInv => NotOnlineAfterExit
  BY DEF IInv, StopAnnounced
<1> QED
  BY <1>1, InductiveInvariant, PTL
=============================================================================
