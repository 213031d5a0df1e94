------------------------- MODULE HealthMonitorProofs -------------------------
(***************************************************************************)
(* The safety properties of HealthMonitor, for any set of components, any  *)
(* timeout and any maxRestarts, a negative one included.                   *)
(*                                                                         *)
(* EveryFailureTried looks only at the moments when the list is empty; it  *)
(* is the end of FailurePending, which says where a failure is in between. *)
(* When a restart returns, its component comes off the list: ListInv says  *)
(* that the restart has been counted and the failure is no longer untried, *)
(* LockInv that no heartbeat has given the count back meanwhile.           *)
(***************************************************************************)
EXTENDS HealthMonitor, TLAPS

Listed(c) == \E i \in 1 .. Len(unhealthy) : unhealthy[i] = c

LockInv == mMutex = Monitor <=> monitor \in Holding

ListInv ==
    /\ monitor \in {"triggering", "restarting"} => unhealthy # <<>>
    /\ monitor \in {"idle", "testing", "sleeping", "locking", "stopped"} => unhealthy = <<>>
    /\ monitor = "restarting" => /\ restartCount[Head(unhealthy)] > 0
                                 /\ Head(unhealthy) \notin untried

FailurePending ==
    \A c \in untried : isAlive[c] \/ ~CanRestart(c) \/ Listed(c)

IInv ==
    /\ HealthTypeOK
    /\ LockInv
    /\ ListInv
    /\ RestartBudget
    /\ FailurePending

-----------------------------------------------------------------------------
\* Taking the head off a list of components leaves a list, with all the others.
LEMMA TailKeepsOthers ==
  ASSUME NEW s \in Seq(Components), s # <<>>
  PROVE /\ Head(s) \in Components
        /\ Tail(s) \in Seq(Components)
        /\ \A i \in 1 .. Len(s) : s[i] # Head(s) =>
               \E j \in 1 .. Len(Tail(s)) : Tail(s)[j] = s[i]
<1>1. ASSUME NEW i \in 1 .. Len(s), s[i] # Head(s)
      PROVE i - 1 \in 1 .. Len(Tail(s)) /\ Tail(s)[i - 1] = s[i]
  BY <1>1
<1> QED
  BY <1>1

\* Putting a component at the end of a list keeps the others on it.
LEMMA AppendKeeps ==
  ASSUME NEW s \in Seq(Components), NEW c \in Components
  PROVE /\ Append(s, c) \in Seq(Components)
        /\ Append(s, c) # <<>>
        /\ \E j \in 1 .. Len(Append(s, c)) : Append(s, c)[j] = c
        /\ \A i \in 1 .. Len(s) : \E j \in 1 .. Len(Append(s, c)) : Append(s, c)[j] = s[i]
<1>1. Append(s, c) \in Seq(Components) /\ Len(Append(s, c)) = Len(s) + 1
  OBVIOUS
<1>2. Append(s, c)[Len(s) + 1] = c
  OBVIOUS
<1>3. \A i \in 1 .. Len(s) : i \in 1 .. Len(Append(s, c)) /\ Append(s, c)[i] = s[i]
  OBVIOUS
<1> QED
  BY <1>1, <1>2, <1>3

\* A component other than the head stays listed when the head is dropped.
LEMMA HeadDropped ==
  ASSUME unhealthy \in Seq(Components), unhealthy # <<>>, unhealthy' = Tail(unhealthy),
         NEW d \in Components, d # Head(unhealthy), Listed(d)
  PROVE Listed(d)'
<1>1. PICK i \in 1 .. Len(unhealthy) : unhealthy[i] = d
  BY DEF Listed
<1>2. \E j \in 1 .. Len(Tail(unhealthy)) : Tail(unhealthy)[j] = d
  BY <1>1, TailKeepsOthers
<1> QED
  BY <1>2 DEF Listed

\* An appended component is listed, and so is everybody that was.
LEMMA OneAppended ==
  ASSUME unhealthy \in Seq(Components), NEW c \in Components,
         unhealthy' = Append(unhealthy, c), NEW d \in Components, d = c \/ Listed(d)
  PROVE Listed(d)'
<1>1. \E j \in 1 .. Len(Append(unhealthy, c)) : Append(unhealthy, c)[j] = d
  BY AppendKeeps DEF Listed
<1> QED
  BY <1>1 DEF Listed

USE DEF MonitorState, Holding, componentVars, loopVars, healthVars

\* Every step keeps the types; that a head is taken only of a list with one
\* needs ListInv.
LEMMA TypeStep == HealthTypeOK /\ ListInv /\ [HealthNext]_healthVars => HealthTypeOK'
<1> SUFFICES ASSUME HealthTypeOK, ListInv, [HealthNext]_healthVars PROVE HealthTypeOK'
  OBVIOUS
<1> USE HealthAssumption DEF HealthTypeOK
<1>1. CASE StartMonitoring
  BY <1>1 DEF StartMonitoring
<1>2. CASE mMonitoring /\ StopMonitoring
  BY <1>2 DEF StopMonitoring
<1>3. ASSUME NEW t \in Users, NEW c \in Components, UpdateHeartbeat(t, c) PROVE HealthTypeOK'
  BY <1>3 DEF UpdateHeartbeat
<1>4. ASSUME NEW t \in Users, ReadHealth(t) \/ UnlockHeartbeat(t) PROVE HealthTypeOK'
  BY <1>4 DEF ReadHealth, UnlockHeartbeat
<1>5. CASE TestMonitoring
  BY <1>5 DEF TestMonitoring
<1>6. CASE Wake
  BY <1>6 DEF Wake
<1>7. CASE LockForScan
  BY <1>7 DEF LockForScan
<1>8. ASSUME NEW c \in Components, Scan(c) PROVE HealthTypeOK'
  <2>1. unhealthy' \in Seq(Components)
    BY <1>8, AppendKeeps DEF Scan
  <2>2. isAlive' \in [Components -> BOOLEAN]
    BY <1>8 DEF Scan
  <2>3. overdue' \subseteq Components /\ monitor' \in MonitorState
    BY <1>8 DEF Scan
  <2> QED
    BY <1>8, <2>1, <2>2, <2>3 DEF Scan
<1>9. CASE EndScan
  BY <1>9 DEF EndScan
<1>10. CASE Consider
  <2>1. unhealthy' \in Seq(Components)
    BY <1>10, TailKeepsOthers DEF Consider
  <2> QED
    BY <1>10, <2>1 DEF Consider
<1>11. CASE TriggerRecovery
  <2> DEFINE c == Head(unhealthy)
  <2>1. CASE CanRestart(c)
    <3>1. restartCount' \in [Components -> Nat]
      BY <1>11, <2>1 DEF TriggerRecovery
    <3> QED
      BY <1>11, <2>1, <3>1 DEF TriggerRecovery
  <2>2. CASE ~CanRestart(c)
    <3>1. unhealthy' \in Seq(Components)
      BY <1>11, <2>2, TailKeepsOthers DEF TriggerRecovery, ListInv
    <3> QED
      BY <1>11, <2>2, <3>1 DEF TriggerRecovery
  <2> QED
    BY <2>1, <2>2
<1>12. CASE EndPass
  BY <1>12 DEF EndPass
<1>13. CASE ReportReturns
  BY <1>13 DEF ReportReturns
<1>14. ASSUME NEW success \in BOOLEAN, RestartReturns(success) PROVE HealthTypeOK'
  <2>1. unhealthy' \in Seq(Components)
    BY <1>14, TailKeepsOthers DEF RestartReturns, ListInv
  <2>2. isAlive' \in [Components -> BOOLEAN]
    BY <1>14 DEF RestartReturns
  <2>3. silence' \in [Components -> 0 .. Timeout + 1]
    <3>1. 0 \in 0 .. Timeout + 1
      OBVIOUS
    <3> QED
      BY <1>14, <3>1 DEF RestartReturns
  <2> QED
    BY <1>14, <2>1, <2>2, <2>3 DEF RestartReturns
<1>15. CASE TimePasses
  BY <1>15 DEF TimePasses
<1>16. CASE UNCHANGED healthVars
  BY <1>16
<1> QED
  BY <1>1, <1>2, <1>3, <1>4, <1>5, <1>6, <1>7, <1>8, <1>9, <1>10, <1>11, <1>12, <1>13, <1>14, <1>15, <1>16
  DEF HealthNext, LoopStep, Callbacks

\* The first state has no list and a free mutex.
LEMMA InitIInv == HealthInit => IInv
<1> SUFFICES ASSUME HealthInit PROVE IInv
  OBVIOUS
<1> USE HealthAssumption DEF HealthInit
<1>1. HealthTypeOK
  <2>1. unhealthy \in Seq(Components)
    OBVIOUS
  <2>2. isAlive \in [Components -> BOOLEAN] /\ restartCount \in [Components -> Nat]
    OBVIOUS
  <2>3. silence \in [Components -> 0 .. Timeout + 1]
    OBVIOUS
  <2> QED
    BY <2>1, <2>2, <2>3 DEF HealthTypeOK
<1>2. LockInv /\ ListInv
  BY DEF LockInv, ListInv
<1>3. RestartBudget /\ FailurePending
  BY DEF RestartBudget, FailurePending
<1> QED
  BY <1>1, <1>2, <1>3 DEF IInv

\* Every step keeps the invariant; the types come from TypeStep.
LEMMA IInvStep == IInv /\ [HealthNext]_healthVars => IInv'
<1> SUFFICES ASSUME IInv, [HealthNext]_healthVars PROVE IInv'
  OBVIOUS
<1>t. HealthTypeOK /\ HealthTypeOK'
  BY TypeStep DEF IInv
<1> DEFINE Rest == LockInv /\ ListInv /\ RestartBudget /\ FailurePending
<1> SUFFICES Rest'
  BY <1>t DEF IInv
<1>h. unhealthy # <<>> => Head(unhealthy) \in Components
  BY <1>t, TailKeepsOthers DEF HealthTypeOK
<1>u. unhealthy' = unhealthy => \A d \in Components : Listed(d)' <=> Listed(d)
  BY DEF Listed
<1> USE HealthAssumption, <1>t, <1>h, <1>u
    DEF IInv, HealthTypeOK, LockInv, ListInv, RestartBudget, FailurePending, CanRestart
<1>1. CASE StartMonitoring
  BY <1>1 DEF StartMonitoring
<1>2. CASE mMonitoring /\ StopMonitoring
  BY <1>2 DEF StopMonitoring
<1>3. ASSUME NEW t \in Users, NEW c \in Components, UpdateHeartbeat(t, c) PROVE Rest'
  BY <1>3 DEF UpdateHeartbeat
<1>4. ASSUME NEW t \in Users, ReadHealth(t) \/ UnlockHeartbeat(t) PROVE Rest'
  BY <1>4 DEF ReadHealth, UnlockHeartbeat
<1>5. CASE TestMonitoring
  BY <1>5 DEF TestMonitoring
<1>6. CASE Wake
  BY <1>6 DEF Wake
<1>7. CASE LockForScan
  BY <1>7 DEF LockForScan
<1>8. ASSUME NEW c \in Components, Scan(c) PROVE Rest'
  <2>1. LockInv' /\ ListInv' /\ RestartBudget'
    BY <1>8, AppendKeeps DEF Scan
  <2>2. ASSUME NEW d \in untried', ~isAlive'[d]
        PROVE ~CanRestart(d)' \/ Listed(d)'
    <3>1. CASE isAlive[c]
      <4>1. unhealthy' = Append(unhealthy, c)
        BY <1>8, <3>1 DEF Scan
      <4>2. CASE d = c
        BY <4>1, <4>2, OneAppended
      <4>3. CASE d # c
        <5>1. ~CanRestart(d) \/ Listed(d)
          BY <1>8, <2>2, <4>3 DEF Scan
        <5>2. Listed(d) => Listed(d)'
          BY <4>1, OneAppended
        <5> QED
          BY <1>8, <5>1, <5>2 DEF Scan
      <4> QED
        BY <4>2, <4>3
    <3>2. CASE ~isAlive[c]
      BY <1>8, <2>2, <3>2 DEF Scan
    <3> QED
      BY <3>1, <3>2
  <2> QED
    BY <2>1, <2>2
<1>9. CASE EndScan
  BY <1>9 DEF EndScan
<1>10. CASE Consider
  <2> DEFINE c == Head(unhealthy)
  <2>1. CASE CanRestart(c)
    BY <1>10, <2>1 DEF Consider
  <2>2. CASE ~CanRestart(c)
    <3>1. LockInv' /\ ListInv' /\ RestartBudget'
      BY <1>10, <2>2 DEF Consider
    <3>2. /\ unhealthy # <<>> /\ unhealthy' = Tail(unhealthy)
          /\ UNCHANGED componentVars /\ untried' = untried
      BY <1>10, <2>2 DEF Consider
    <3>3. FailurePending'
      BY <2>2, <3>2, HeadDropped
    <3> QED
      BY <3>1, <3>3
  <2> QED
    BY <2>1, <2>2
<1>11. CASE TriggerRecovery
  <2> DEFINE c == Head(unhealthy)
  <2>0. unhealthy # <<>> /\ c \in Components
    BY <1>11 DEF TriggerRecovery
  <2>1. CASE CanRestart(c)
    <3>1. restartCount' = [restartCount EXCEPT ![c] = @ + 1] /\ unhealthy' = unhealthy
      BY <1>11, <2>1 DEF TriggerRecovery
    <3>2. restartCount'[c] > 0 /\ restartCount'[c] <= MaxRestarts
      <4>1. restartCount[c] \in Nat /\ restartCount[c] < MaxRestarts
        BY <2>0, <2>1 DEF CanRestart
      <4>2. restartCount'[c] = restartCount[c] + 1
        BY <2>0, <3>1
      <4> HIDE DEF IInv, HealthTypeOK, LockInv, ListInv, RestartBudget, FailurePending, CanRestart, c
      <4> QED
        BY <4>1, <4>2
    <3>3. \A d \in Components : d # c => restartCount'[d] = restartCount[d]
      BY <3>1
    <3>4. LockInv' /\ ListInv'
      BY <1>11, <2>0, <2>1, <3>1, <3>2 DEF TriggerRecovery
    <3>5. RestartBudget'
      BY <3>2, <3>3
    <3>6. FailurePending'
      BY <1>11, <2>1, <3>1, <3>2, <3>3 DEF TriggerRecovery
    <3> QED
      BY <3>4, <3>5, <3>6
  <2>2. CASE ~CanRestart(c)
    <3>1. LockInv' /\ ListInv' /\ RestartBudget'
      BY <1>11, <2>2 DEF TriggerRecovery
    <3>2. unhealthy' = Tail(unhealthy) /\ UNCHANGED componentVars /\ untried' = untried
      BY <1>11, <2>2 DEF TriggerRecovery
    <3>3. FailurePending'
      BY <2>0, <2>2, <3>2, HeadDropped
    <3> QED
      BY <3>1, <3>3
  <2> QED
    BY <2>1, <2>2
<1>12. CASE EndPass
  BY <1>12 DEF EndPass
<1>13. CASE ReportReturns
  BY <1>13 DEF ReportReturns
<1>14. ASSUME NEW success \in BOOLEAN, RestartReturns(success) PROVE Rest'
  <2> DEFINE c == Head(unhealthy)
  <2>1. unhealthy # <<>> /\ c \notin untried
    BY <1>14 DEF RestartReturns
  <2>2. LockInv' /\ ListInv' /\ RestartBudget'
    BY <1>14 DEF RestartReturns
  <2>3. \A d \in Components : ~isAlive'[d] => ~isAlive[d]
    BY <1>14 DEF RestartReturns
  <2>4. unhealthy' = Tail(unhealthy) /\ restartCount' = restartCount /\ untried' = untried
    BY <1>14 DEF RestartReturns
  <2>5. FailurePending'
    BY <2>1, <2>3, <2>4, HeadDropped
  <2> QED
    BY <2>2, <2>5
<1>15. CASE TimePasses
  BY <1>15 DEF TimePasses
<1>16. CASE UNCHANGED healthVars
  BY <1>16
<1> QED
  BY <1>1, <1>2, <1>3, <1>4, <1>5, <1>6, <1>7, <1>8, <1>9, <1>10, <1>11, <1>12, <1>13, <1>14, <1>15, <1>16
  DEF HealthNext, LoopStep, Callbacks

\* At rest the list is empty, so no failure is pending.
LEMMA TriedAtRest == IInv => EveryFailureTried
<1> SUFFICES ASSUME IInv, monitor \in {"testing", "sleeping", "stopped"},
                    NEW c \in untried
             PROVE isAlive[c] \/ ~CanRestart(c)
  BY DEF EveryFailureTried
<1>1. unhealthy = <<>>
  BY DEF IInv, ListInv
<1>2. ~Listed(c)
  BY <1>1 DEF Listed
<1> QED
  BY <1>2 DEF IInv, FailurePending

-----------------------------------------------------------------------------
(* Theorems *)

\* IInv holds in every reachable state.
THEOREM Invariance == HealthSpec => []IInv
BY InitIInv, IInvStep, PTL DEF HealthSpec

\* Every variable keeps its type.
THEOREM TypeCorrect == HealthSpec => []HealthTypeOK
<1>1. IInv => HealthTypeOK
  BY DEF IInv
<1> QED
  BY <1>1, Invariance, PTL

\* No component is restarted more than maxRestarts times without a heartbeat
\* in between that finds it dead.
THEOREM RestartBudgetHolds == HealthSpec => []RestartBudget
<1>1. IInv => RestartBudget
  BY DEF IInv
<1> QED
  BY <1>1, Invariance, PTL

\* When the loop has come round, every component it has found dead, for the
\* first time or again, is alive, has been restarted since, or has no restart
\* left.
THEOREM EveryFailureTriedHolds == HealthSpec => []EveryFailureTried
BY TriedAtRest, Invariance, PTL
=============================================================================
