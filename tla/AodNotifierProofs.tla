--------------------------- MODULE AodNotifierProofs ---------------------------
(***************************************************************************)
(* The AodNotifier for any limits, any width of int and any faults.        *)
(*                                                                         *)
(* StopsForCause compares two rounds of poll(), so the invariant remembers *)
(* of the last one that an error count above zero means that it went wrong *)
(* (CountInv); that the count has room for another error while the thread  *)
(* is in the loop is what its type rests on (RoomInv).                     *)
(***************************************************************************)
EXTENDS AodNotifier, TLAPS

CountInv == consecutiveErrors > 0 => lastPoll \in {"FAILED", "EINTR", "POLLERR"}

RoomInv == InLoop => consecutiveErrors < MaxErrors

IInv ==
    /\ TypeOK
    /\ CountInv
    /\ RoomInv

-----------------------------------------------------------------------------
(* The invariant *)

USE DEF sharedVars, loopVars, driverVars, sensorVars, At, Goto, InBody, Power, Outcome

\* The flags apart, which the provers treat differently from the rest.
Flags ==
    /\ mActive \in BOOLEAN /\ sensorEnabled \in BOOLEAN /\ serviceEnabled \in BOOLEAN
    /\ stale \in BOOLEAN /\ registered \in BOOLEAN /\ pending \in BOOLEAN

Others ==
    /\ faults \subseteq Faults
    /\ fate \in {"running", "aborted"}
    /\ pc \in InBody \cup {"none", "starting", "testing", "leaving", "exited"}
    /\ consecutiveErrors \in 0 .. MaxErrors
    /\ consecutiveEmptyReads \in 0 .. (MaxEmptyReads - 1)
    /\ value \in Power
    /\ lastPoll \in Outcome
    /\ events \in Seq(Power) /\ Len(events) <= MaxQueued
    /\ display \in Power
    /\ reported \in Power \cup {"nothing"}
    /\ brightness \in {"normal", "doze"}
    /\ CountInv /\ RoomInv

\* Nothing is queued or registered when the thread starts for the first time.
LEMMA InitIInv == Init => IInv
<1> SUFFICES ASSUME Init PROVE IInv
  OBVIOUS
<1>1. events \in Seq(Power) /\ Len(events) <= MaxQueued
  BY AodAssumption DEF Init
<1>2. Flags
  BY DEF Init, Flags
<1>3. Others
  BY <1>1, AodAssumption DEF Init, Others, CountInv, RoomInv, InLoop
<1> QED
  BY <1>2, <1>3 DEF IInv, TypeOK, Flags, Others

\* A step of the thread keeps the invariant.
LEMMA ThreadKeeps == IInv /\ ThreadStep => IInv'
<1> SUFFICES ASSUME IInv, ThreadStep PROVE IInv'
  OBVIOUS
<1>t. Flags /\ Others
  BY DEF IInv, TypeOK, Flags, Others
<1> SUFFICES Flags' /\ Others'
  BY DEF IInv, TypeOK, Flags, Others
<1> USE AodAssumption, <1>t DEF Flags, Others, CountInv, RoomInv, InLoop
<1>1. CASE OpenFails
  BY <1>1 DEF OpenFails
<1>2. CASE Open
  <2>1. Flags'
    BY <1>2 DEF Open
  <2>2. Others'
    BY <1>2 DEF Open
  <2> QED
    BY <2>1, <2>2
<1>3. CASE Test
  BY <1>3 DEF Test
<1>4. CASE Poll
  <2>1. PICK outcome \in PollOutcomes :
          /\ lastPoll' = outcome
          /\ consecutiveErrors' = ErrorsAfter(outcome)
          /\ pc' = IF TooMany(outcome, ErrorsAfter(outcome)) THEN "leaving"
                   ELSE IF outcome = "POLLIN" THEN "reading" ELSE "testing"
    BY <1>4 DEF Poll
  <2>2. outcome \in Outcome
    BY DEF PollOutcomes
  <2>3. consecutiveErrors \in Nat /\ consecutiveErrors < MaxErrors
    BY <1>4 DEF Poll
  <2>4. /\ consecutiveErrors' \in 0 .. MaxErrors
        /\ consecutiveErrors' > 0 => outcome \in {"FAILED", "EINTR", "POLLERR"}
        /\ consecutiveErrors' < MaxErrors \/ pc' = "leaving"
    BY <2>1, <2>2, <2>3 DEF ErrorsAfter, TooMany
  <2> QED
    BY <1>4, <2>1, <2>2, <2>4 DEF Poll
<1>5. CASE ReadEvent
  <2>1. events # <<>> /\ value' = Head(events) /\ events' = Tail(events)
    BY <1>5 DEF ReadEvent
  <2>2. value' \in Power /\ events' \in Seq(Power) /\ Len(events') <= MaxQueued
    BY <2>1
  <2> QED
    BY <1>5, <2>2 DEF ReadEvent
<1>6. CASE ReadBare
  BY <1>6 DEF ReadBare
<1>7. CASE ReadOther
  BY <1>7 DEF ReadOther
<1>8. CASE ReadNothing
  <2>1. events' = events \/ (events # <<>> /\ events' = Tail(events))
    BY <1>8 DEF ReadNothing
  <2>2. events' \in Seq(Power) /\ Len(events') <= MaxQueued
    BY <2>1
  <2>3. consecutiveEmptyReads' \in 0 .. (MaxEmptyReads - 1)
    BY <1>8 DEF ReadNothing
  <2> QED
    BY <1>8, <2>2, <2>3 DEF ReadNothing
<1>9. CASE Reopen
  <2>1. Flags'
    BY <1>9 DEF Reopen, Closed
  <2>2. Others'
    BY <1>9 DEF Reopen, Closed
  <2> QED
    BY <2>1, <2>2
<1>10. CASE Enable
  <2>1. Flags'
    BY <1>10 DEF Enable, SwitchSensor
  <2>2. Others'
    BY <1>10 DEF Enable, SwitchSensor
  <2> QED
    BY <2>1, <2>2
<1>11. CASE Disable
  <2>1. Flags'
    BY <1>11 DEF Disable, SwitchSensor
  <2>2. Others'
    BY <1>11 DEF Disable, SwitchSensor
  <2> QED
    BY <2>1, <2>2
<1>12. CASE Keep
  BY <1>12 DEF Keep
<1>13. CASE DozeToNormal
  BY <1>13 DEF DozeToNormal
<1>14. CASE Leave
  <2>1. Flags'
    BY <1>14 DEF Leave, Closed
  <2>2. \/ UNCHANGED <<pc, driverVars>> /\ fate' = "aborted"
        \/ pc' = "exited" /\ events' = <<>> /\ reported' = "nothing" /\ UNCHANGED <<display, fate>>
    BY <1>14 DEF Leave, Closed
  <2>3. UNCHANGED <<faults, loopVars, brightness>>
    BY <1>14 DEF Leave
  <2>4. Others'
    <3>1. CASE UNCHANGED <<pc, driverVars>> /\ fate' = "aborted"
      BY <2>3, <3>1
    <3>2. CASE pc' = "exited" /\ events' = <<>> /\ reported' = "nothing" /\ UNCHANGED <<display, fate>>
      BY <2>3, <3>2
    <3> QED
      BY <2>2, <3>1, <3>2
  <2> QED
    BY <2>1, <2>4
<1> QED
  BY <1>1, <1>2, <1>3, <1>4, <1>5, <1>6, <1>7, <1>8, <1>9, <1>10, <1>11, <1>12, <1>13, <1>14
  DEF ThreadStep

\* So does every other step.
LEMMA IInvStep == IInv /\ [Next]_vars => IInv'
<1> SUFFICES ASSUME IInv, [Next]_vars, ~ThreadStep PROVE IInv'
  BY ThreadKeeps
<1>t. Flags /\ Others
  BY DEF IInv, TypeOK, Flags, Others
<1> SUFFICES Flags' /\ Others'
  BY DEF IInv, TypeOK, Flags, Others
<1> USE AodAssumption, <1>t DEF Flags, Others, CountInv, RoomInv, InLoop
<1>1. CASE DisplayChanges
  <2>1. display' \in Power /\ (events' = events \/ events' = Append(events, display')) /\ Len(events) < MaxQueued
    BY <1>1 DEF DisplayChanges
  <2>2. events' \in Seq(Power) /\ Len(events') <= MaxQueued
    BY <2>1
  <2> QED
    BY <1>1, <2>1, <2>2 DEF DisplayChanges
<1>2. CASE SensorEvent \/ OnEvent
  <2>1. Flags'
    BY <1>2 DEF SensorEvent, OnEvent
  <2>2. UNCHANGED <<faults, fate, pc, loopVars, driverVars>> /\ brightness' \in {"doze", brightness}
    BY <1>2 DEF SensorEvent, OnEvent
  <2>3. Others'
    BY <2>2
  <2> QED
    BY <2>1, <2>3
<1>3. CASE Activate \/ Stop \/ Join
  <2>1. Flags'
    BY <1>3 DEF Activate, Stop, Join
  <2>2. UNCHANGED <<faults, fate, loopVars, driverVars, sensorVars>>
    BY <1>3 DEF Activate, Stop, Join
  <2>3. pc' \in {pc, "starting", "none"}
    BY <1>3 DEF Activate, Stop, Join
  <2>4. Others'
    BY <2>2, <2>3
  <2> QED
    BY <2>1, <2>4
<1>4. CASE Restart
  <2>1. Flags'
    BY <1>4 DEF Restart, Closed
  <2>2. Others'
    BY <1>4 DEF Restart, Closed
  <2> QED
    BY <2>1, <2>2
<1>5. CASE UNCHANGED vars
  BY <1>5 DEF vars
<1> QED
  BY <1>1, <1>2, <1>3, <1>4, <1>5 DEF Next

-----------------------------------------------------------------------------
(* Theorems *)

\* IInv holds in every reachable state.
THEOREM Invariance == Spec => []IInv
BY InitIInv, IInvStep, PTL DEF Spec

\* Every variable keeps its type; in particular the error counts stay within
\* their limits.
THEOREM TypeCorrect == Spec => []TypeOK
<1>1. IInv => TypeOK
  BY DEF IInv
<1> QED
  BY <1>1, Invariance, PTL

\* For any limit above one the thread gives up by itself only when poll() fails
\* again after a round that went wrong, or when its file cannot be reopened.
THEOREM StopsForCauseHolds == Spec => StopsForCause
<1>1. IInv /\ [Next]_vars =>
        [ (MaxErrors > 1 /\ pc \in InBody /\ pc' = "leaving") =>
            \/ pc = "reading" /\ stale'
            \/ lastPoll' = "FAILED" /\ lastPoll \in {"FAILED", "EINTR", "POLLERR"} ]_vars
  <2> SUFFICES ASSUME IInv, Next, MaxErrors > 1, pc \in InBody, pc' = "leaving"
               PROVE \/ pc = "reading" /\ stale'
                     \/ lastPoll' = "FAILED" /\ lastPoll \in {"FAILED", "EINTR", "POLLERR"}
    OBVIOUS
  <2>1. CASE Poll
    <3>1. PICK outcome \in PollOutcomes :
            /\ lastPoll' = outcome
            /\ TooMany(outcome, ErrorsAfter(outcome))
      BY <2>1 DEF Poll
    <3>2. outcome = "FAILED" /\ consecutiveErrors + 1 >= MaxErrors
      BY <3>1, AodAssumption DEF TooMany, ErrorsAfter
    <3>3. consecutiveErrors > 0
      BY <3>2, AodAssumption DEF IInv, TypeOK
    <3> QED
      BY <3>1, <3>2, <3>3 DEF IInv, CountInv
  <2>2. CASE Reopen
    BY <2>2 DEF Reopen
  <2>3. CASE ThreadStep /\ ~Poll /\ ~Reopen
    BY <2>3 DEF ThreadStep, OpenFails, Open, Test, ReadEvent, ReadBare, ReadOther, ReadNothing,
                Enable, Disable, Keep, DozeToNormal, Leave, SwitchSensor
  <2>4. CASE ~ThreadStep
    BY <2>4 DEF Next, DisplayChanges, SensorEvent, OnEvent, Activate, Stop, Join, Restart
  <2> QED
    BY <2>1, <2>2, <2>3, <2>4
<1> QED
  BY <1>1, Invariance, PTL DEF Spec, StopsForCause

-----------------------------------------------------------------------------
(* The refinement *)

\* Every step is a step of PollingThread, or none.
LEMMA PollingStep == IInv /\ [Next]_vars => [PT!PollNext]_PT!pollVars
<1> SUFFICES ASSUME IInv, [Next]_vars PROVE [PT!PollNext]_PT!pollVars
  OBVIOUS
<1> USE DEF PT!PollNext, PT!pollVars, PT!PollStep, PT!PollAt, Phase
<1>0. /\ mActive \in BOOLEAN /\ sensorEnabled \in BOOLEAN /\ serviceEnabled \in BOOLEAN
      /\ fate \in {"running", "aborted"}
  BY DEF IInv, TypeOK
<1>1. CASE OpenFails \/ Open
  BY <1>1 DEF OpenFails, Open, PT!PollSetup
<1>2. CASE Test
  BY <1>2 DEF Test, PT!PollTest
<1>3. CASE Poll
  BY <1>3 DEF Poll, PT!PollRound
<1>4. CASE ReadEvent \/ ReadBare
  BY <1>4 DEF ReadEvent, ReadBare
<1>5. CASE ReadOther \/ ReadNothing \/ Reopen
  BY <1>5 DEF ReadOther, ReadNothing, Reopen, PT!PollRound
<1>6. CASE Enable
  BY <1>0, <1>6 DEF Enable, SwitchSensor, PT!PollAbort, PT!PollEnable, PT!PollRound
<1>7. CASE Disable
  BY <1>0, <1>7 DEF Disable, SwitchSensor, PT!PollAbort, PT!PollDisable, PT!PollRound
<1>8. CASE Keep
  BY <1>8 DEF Keep, PT!PollRound
<1>9. CASE DozeToNormal
  BY <1>9 DEF DozeToNormal
<1>10. CASE Leave
  BY <1>0, <1>10 DEF Leave, PT!PollLeave, PT!PollAbort
<1>11. CASE DisplayChanges \/ SensorEvent \/ OnEvent
  BY <1>11 DEF DisplayChanges, SensorEvent, OnEvent
<1>12. CASE Activate
  BY <1>12 DEF Activate, PT!OwnerActivates, PT!StartPolling
<1>13. CASE Stop
  BY <1>13 DEF Stop, PT!OwnerStops
<1>14. CASE Join
  BY <1>14 DEF Join, PT!OwnerJoins, PT!JoinPolling
<1>15. CASE Restart
  BY <1>15 DEF Restart, PT!InitRestarts
<1>16. CASE UNCHANGED vars
  BY <1>16 DEF vars
<1> QED
  BY <1>1, <1>2, <1>3, <1>4, <1>5, <1>6, <1>7, <1>8, <1>9, <1>10, <1>11, <1>12, <1>13, <1>14, <1>15, <1>16
  DEF Next, ThreadStep

\* The safety part of ImplementsPolling: the loop switches the sensor only in
\* step with its own sensorEnabled and only before it has left, and is
\* PollingThread to its owner, whatever the driver and the service answer.
THEOREM ImplementsPollingSafely == Spec => PT!PollInit /\ [][PT!PollNext]_PT!pollVars
<1>1. Init => PT!PollInit
  BY DEF Init, PT!PollInit, Phase
<1> QED
  BY <1>1, PollingStep, Invariance, PTL DEF Spec
=============================================================================
