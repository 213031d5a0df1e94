------------------------ MODULE SensorNotifierProofs ------------------------
(***************************************************************************)
(* The safety properties of SensorNotifier, for any set of callers.        *)
(*                                                                         *)
(* InactiveIsQuiet and NeverTerminated speak of the moments when           *)
(* mThreadMutex is free, or of a thread object at one line of the code, so *)
(* neither is inductive.  IInv adds what holds inside the mutex at each    *)
(* line (StageInv), who may hold it (LockInv), that the std::thread object *)
(* is joinable exactly when there is a polling thread (ThreadInv), and     *)
(* that whoever destroys the object is alone with it (DestroyInv).         *)
(***************************************************************************)
EXTENDS SensorNotifier, TLAPS

LockInv == \A c \in Callers : pc[c] \in Locked <=> mThreadMutex = c

ThreadInv == poller = "none" <=> mPollingThread = "empty"

StageInv ==
    /\ mThreadMutex = Nobody => (mActive <=> mPollingThread = "joinable")
    /\ \A c \in Callers :
        /\ pc[c] = "spawn" => mActive /\ mPollingThread = "empty"
        /\ pc[c] = "join" => ~mActive /\ mPollingThread = "joinable"
        /\ pc[c] = "disable" => ~mActive /\ mPollingThread = "empty"
        /\ pc[c] = "free" => ~mActive /\ mPollingThread = "empty"

QueueInv ==
    /\ mQueue => mSensorHandle = "found"
    /\ mActive \/ mPollingThread = "joinable" => mQueue
    /\ \A c \in Callers : pc[c] = "disable" => mQueue

DestroyInv ==
    \A c, d \in Callers : Destroying(c) /\ c # d => pc[d] = "idle"

AbsentInv ==
    object = "absent" =>
        /\ \A c \in Callers : pc[c] = "idle"
        /\ poller = "none"
        /\ ~serviceEnabled

ServiceInv ==
    /\ poller \in {"starting", "testing", "polling", "leaving"} /\ sensorEnabled
         => serviceEnabled
    /\ poller = "none" /\ (\A c \in Callers : pc[c] # "disable") /\ serviceEnabled
         => lastDisable # "OK"

IInv ==
    /\ TypeOK
    /\ fate # "terminated"
    /\ LockInv
    /\ ThreadInv
    /\ StageInv
    /\ QueueInv
    /\ DestroyInv
    /\ AbsentInv
    /\ ServiceInv

-----------------------------------------------------------------------------
\* The values the caller's program counter ranges over, spelt out once.
USE DEF PollerState, Fate, Reply, Result, CallerState, Locked, Return, pollVars, ownVars

\* The type invariant holds initially and is preserved by every step, those
\* of the other components' threads included.
LEMMA TypeStep == TypeOK /\ [Next]_vars => TypeOK'
<1> SUFFICES ASSUME TypeOK, [Next]_vars PROVE TypeOK'
  OBVIOUS
<1> USE NobodyAssumption DEF TypeOK, PollTypeOK
<1>1. CASE Construct
  BY <1>1 DEF Construct, InitializeSensorQueue
<1>6. CASE ConstructAborts
  BY <1>6 DEF ConstructAborts
<1>2. ASSUME NEW c \in Callers, CallerStep(c) PROVE TypeOK'
  <2>1. CASE Call(c, "activate") \/ Call(c, "deactivate")
    BY <2>1 DEF Call
  <2>2. CASE BeginDestroy(c)
    BY <2>2 DEF BeginDestroy
  <2>3. CASE ActivateRefused(c)
    BY <2>3 DEF ActivateRefused
  <2>4. CASE ActivateAccepted(c)
    BY <2>4 DEF ActivateAccepted
  <2>5. CASE Spawn(c)
    <3>1. CASE mPollingThread = "joinable"
      BY <2>5, <3>1 DEF Spawn
    <3>2. CASE mPollingThread # "joinable"
      BY <2>5, <3>2 DEF Spawn, StartPolling
    <3> QED
      BY <3>1, <3>2
  <2>6. CASE SpawnFails(c)
    BY <2>6 DEF SpawnFails
  <2>7. CASE DeactivateInactive(c)
    BY <2>7 DEF DeactivateInactive, ReturnFrom
  <2>8. CASE DeactivateBegin(c)
    BY <2>8 DEF DeactivateBegin
  <2>9. CASE Join(c)
    BY <2>9 DEF Join, JoinPolling
  <2>10. CASE DisableAndUnlock(c)
    <3>1. serviceEnabled' \in BOOLEAN /\ lastDisable' \in Reply
      BY <2>10 DEF DisableAndUnlock
    <3>2. pc' \in [Callers -> CallerState] /\ ret' \in [Callers -> Return]
      BY <2>10 DEF DisableAndUnlock, ReturnFrom
    <3> QED
      BY <2>10, <3>1, <3>2 DEF DisableAndUnlock
  <2>11. CASE Free(c)
    BY <2>11 DEF Free
  <2> QED
    BY <1>2, <2>1, <2>2, <2>3, <2>4, <2>5, <2>6, <2>7, <2>8, <2>9, <2>10, <2>11
    DEF CallerStep, InsideLock
<1>3. CASE Polling
  <2>1. CASE PollSetup
    BY <1>3, <2>1 DEF Polling, PollAt, PollSetup
  <2>2. CASE PollTest
    BY <1>3, <2>2 DEF Polling, PollAt, PollTest
  <2>3. CASE PollRound
    BY <1>3, <2>3 DEF Polling, PollAt, PollRound
  <2>4. CASE PollEnable
    BY <1>3, <2>4 DEF Polling, PollAt, PollEnable
  <2>5. CASE PollDisable
    BY <1>3, <2>5 DEF Polling, PollAt, PollDisable
  <2>6. CASE PollLeave
    BY <1>3, <2>6 DEF Polling, PollAt, PollLeave
  <2>7. CASE PollAbort
    BY <1>3, <2>7 DEF Polling, PollAt, PollAbort
  <2> QED
    BY <1>3, <2>1, <2>2, <2>3, <2>4, <2>5, <2>6, <2>7 DEF Polling, PollStep
<1>4. CASE Restart
  BY <1>4 DEF Restart, InitRestarts
<1>5. CASE UNCHANGED vars
  BY <1>5 DEF vars
<1> QED
  BY <1>1, <1>2, <1>3, <1>4, <1>5, <1>6 DEF Next

\* A state in which no caller is in the object and nothing has started, as
\* at boot and after init has restarted the service, satisfies IInv.
LEMMA InitIInv == Init => IInv
BY NobodyAssumption DEF Init, PollInit, IInv, TypeOK, PollTypeOK, LockInv, ThreadInv,
   StageInv, QueueInv, DestroyInv, AbsentInv, ServiceInv, Destroying

\* Every step keeps the invariant.
LEMMA IInvStep == IInv /\ [Next]_vars => IInv'
<1> SUFFICES ASSUME IInv, [Next]_vars PROVE IInv'
  OBVIOUS
<1>t. TypeOK'
  BY TypeStep DEF IInv
<1> USE NobodyAssumption
<1> DEFINE Rest == fate # "terminated" /\ LockInv /\ ThreadInv /\ StageInv
                     /\ QueueInv /\ DestroyInv /\ AbsentInv /\ ServiceInv
<1> SUFFICES Rest'
  BY <1>t DEF IInv
<1> USE DEF IInv, TypeOK, PollTypeOK, LockInv, ThreadInv, StageInv, QueueInv, DestroyInv, AbsentInv, ServiceInv
<1>1. CASE Construct
  BY <1>1 DEF Construct, InitializeSensorQueue, Destroying
<1>6. CASE ConstructAborts
  BY <1>6 DEF ConstructAborts, Destroying
<1>2. ASSUME NEW c \in Callers, CallerStep(c) PROVE Rest'
  <2>1. CASE Call(c, "activate") \/ Call(c, "deactivate")
    BY <2>1 DEF Call, Destroying
  <2>2. CASE BeginDestroy(c)
    BY <2>2 DEF BeginDestroy, Destroying
  <2>3. CASE ActivateRefused(c)
    BY <2>3 DEF ActivateRefused, Destroying
  <2>4. CASE ActivateAccepted(c)
    BY <2>4 DEF ActivateAccepted, Destroying
  <2>5. CASE Spawn(c)
    BY <2>5 DEF Spawn, StartPolling, Destroying
  <2>6. CASE SpawnFails(c)
    BY <2>6 DEF SpawnFails, Destroying
  <2>7. CASE DeactivateInactive(c)
    BY <2>7 DEF DeactivateInactive, ReturnFrom, Destroying
  <2>8. CASE DeactivateBegin(c)
    BY <2>8 DEF DeactivateBegin, Destroying
  <2>9. CASE Join(c)
    BY <2>9 DEF Join, JoinPolling, Destroying
  <2>10. CASE DisableAndUnlock(c)
    BY <2>10 DEF DisableAndUnlock, ReturnFrom, Destroying
  <2>11. CASE Free(c)
    BY <2>11 DEF Free, Destroying
  <2> QED
    BY <1>2, <2>1, <2>2, <2>3, <2>4, <2>5, <2>6, <2>7, <2>8, <2>9, <2>10, <2>11
    DEF CallerStep, InsideLock
<1>3. CASE Polling
  <2>1. CASE PollSetup
    BY <1>3, <2>1 DEF Polling, PollAt, PollSetup, Destroying
  <2>2. CASE PollTest
    BY <1>3, <2>2 DEF Polling, PollAt, PollTest, Destroying
  <2>3. CASE PollRound
    BY <1>3, <2>3 DEF Polling, PollAt, PollRound, Destroying
  <2>4. CASE PollEnable
    BY <1>3, <2>4 DEF Polling, PollAt, PollEnable, Destroying
  <2>5. CASE PollDisable
    BY <1>3, <2>5 DEF Polling, PollAt, PollDisable, Destroying
  <2>6. CASE PollLeave
    BY <1>3, <2>6 DEF Polling, PollAt, PollLeave, Destroying
  <2>7. CASE PollAbort
    BY <1>3, <2>7 DEF Polling, PollAt, PollAbort, Destroying
  <2> QED
    BY <1>3, <2>1, <2>2, <2>3, <2>4, <2>5, <2>6, <2>7 DEF Polling, PollStep
<1>4. CASE Restart
  BY <1>4 DEF Restart, InitRestarts, Destroying
<1>5. CASE UNCHANGED vars
  BY <1>5 DEF vars, Destroying
<1> QED
  BY <1>1, <1>2, <1>3, <1>4, <1>5, <1>6 DEF Next

-----------------------------------------------------------------------------
(* Theorems *)

\* IInv holds in every reachable state.
THEOREM Invariance == Spec => []IInv
BY InitIInv, IInvStep, PTL DEF Spec

\* Every variable keeps its type, whoever calls activate() and deactivate().
THEOREM TypeCorrect == Spec => []TypeOK
<1>1. IInv => TypeOK
  BY DEF IInv
<1> QED
  BY <1>1, Invariance, PTL

\* No sequence of activate(), deactivate() and destruction by any number of
\* threads assigns over or destroys a joinable mPollingThread.
THEOREM NeverTerminatedHolds == Spec => []NeverTerminated
<1>1. IInv => NeverTerminated
  BY DEF IInv, NeverTerminated
<1> QED
  BY <1>1, Invariance, PTL

\* Once deactivate() has given mThreadMutex back, the polling thread has been
\* joined and the sensor is off unless the service refused to switch it off.
THEOREM InactiveIsQuietHolds == Spec => []InactiveIsQuiet
<1>1. IInv => InactiveIsQuiet
  <2> SUFFICES ASSUME IInv, mThreadMutex = Nobody, ~mActive
               PROVE poller = "none" /\ (serviceEnabled => lastDisable # "OK")
    BY DEF InactiveIsQuiet
  <2>1. mPollingThread = "empty"
    BY DEF IInv, TypeOK, StageInv
  <2>2. poller = "none"
    BY <2>1 DEF IInv, ThreadInv
  <2>3. \A c \in Callers : pc[c] # "disable"
    BY NobodyAssumption DEF IInv, LockInv
  <2> QED
    BY <2>2, <2>3 DEF IInv, ServiceInv
<1> QED
  BY <1>1, Invariance, PTL

\* pollingFunction()'s local sensorEnabled is never TRUE while the service
\* has the sensor off.
THEOREM BeliefIsTrueHolds == Spec => []BeliefIsTrue
<1>1. IInv => BeliefIsTrue
  BY DEF IInv, ServiceInv, BeliefIsTrue
<1> QED
  BY <1>1, Invariance, PTL

\* A destroyed notifier leaves no thread and no enabled sensor behind.
THEOREM GoneIsQuietHolds == Spec => []GoneIsQuiet
<1>1. IInv => GoneIsQuiet
  BY DEF IInv, AbsentInv, GoneIsQuiet
<1> QED
  BY <1>1, Invariance, PTL

-----------------------------------------------------------------------------
(* SensorNotifier implements the safety part of NotifierContract. *)

MapsTo == Contract!ContractNext \/ UNCHANGED <<Phase, serviceEnabled>>

\* Every step is a step of the contract, or none.
LEMMA ContractStep == IInv /\ IInv' /\ [Next]_vars => MapsTo
<1> SUFFICES ASSUME IInv, IInv', [Next]_vars PROVE MapsTo
  OBVIOUS
<1> USE NobodyAssumption DEF MapsTo, Phase, IInv, TypeOK, PollTypeOK
<1> USE DEF Contract!ContractNext, Contract!Start, Contract!Switch,
            Contract!BeginStop, Contract!Stop, Contract!Release
<1>1. CASE Construct
  BY <1>1 DEF Construct
<1>6. CASE ConstructAborts
  BY <1>6 DEF ConstructAborts
<1>2. ASSUME NEW c \in Callers, CallerStep(c) PROVE MapsTo
  <2>1. CASE Call(c, "activate") \/ Call(c, "deactivate")
    BY <2>1 DEF Call
  <2>2. CASE BeginDestroy(c)
    BY <2>2 DEF BeginDestroy
  <2>3. CASE ActivateRefused(c)
    BY <2>3 DEF ActivateRefused
  <2>4. CASE ActivateAccepted(c)
    BY <2>4 DEF ActivateAccepted, StageInv
  <2>5. CASE Spawn(c)
    BY <2>5 DEF Spawn, StartPolling, StageInv, LockInv
  <2>6. CASE SpawnFails(c)
    BY <2>6 DEF SpawnFails
  <2>7. CASE DeactivateInactive(c)
    BY <2>7 DEF DeactivateInactive, ReturnFrom
  <2>8. CASE DeactivateBegin(c)
    BY <2>8 DEF DeactivateBegin, StageInv, LockInv
  <2>9. CASE Join(c)
    BY <2>9 DEF Join, JoinPolling, StageInv, LockInv
  <2>10. CASE DisableAndUnlock(c)
    BY <2>10 DEF DisableAndUnlock, ReturnFrom, StageInv, LockInv
  <2>11. CASE Free(c)
    BY <2>11 DEF Free, StageInv, DestroyInv, Destroying
  <2> QED
    BY <1>2, <2>1, <2>2, <2>3, <2>4, <2>5, <2>6, <2>7, <2>8, <2>9, <2>10, <2>11
    DEF CallerStep, InsideLock
<1>3. CASE Polling
  BY <1>3 DEF Polling, PollStep, PollAt, PollSetup, PollTest, PollRound,
              PollEnable, PollDisable, PollLeave, PollAbort, ThreadInv, ServiceInv
<1>4. CASE Restart
  BY <1>4 DEF Restart, InitRestarts
<1>5. CASE UNCHANGED vars
  BY <1>5 DEF vars
<1> QED
  BY <1>1, <1>2, <1>3, <1>4, <1>5, <1>6 DEF Next

\* Seen from its owner, the notifier only starts, switches its sensor while
\* it is on or stopping, stops, and releases: every step of the code is a
\* step of NotifierContract or leaves its two variables alone.
THEOREM Refinement ==
  Spec => Contract!ContractInit /\ [][Contract!ContractNext]_(Contract!contractVars)
<1>1. Init => Contract!ContractInit
  BY DEF Init, PollInit, Phase, Contract!ContractInit
<1>2. IInv /\ IInv' /\ [Next]_vars => [Contract!ContractNext]_(Contract!contractVars)
  BY ContractStep DEF MapsTo, Contract!contractVars
<1> QED
  BY <1>1, <1>2, Invariance, PTL DEF Spec
=============================================================================
