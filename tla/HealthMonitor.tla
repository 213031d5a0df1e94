---------------------------- MODULE HealthMonitor ----------------------------
(***************************************************************************)
(* HealthMonitor (sensors/HealthMonitor.cpp): components report that they  *)
(* live with updateHeartbeat(); monitoringLoop() looks for components that *)
(* have been silent for longer than their timeout, tells the health        *)
(* callback, and asks the recovery callback to restart them, at most       *)
(* maxRestarts times.  Both callbacks run while the monitor's thread holds *)
(* mMutex, which is not recursive.                                         *)
(*                                                                         *)
(* Time is counted in ticks since each component's lastHeartbeat; all that *)
(* the code asks is whether the count exceeds the timeout, so counting     *)
(* stops one past it.  Here the callbacks are the environment's; Service   *)
(* puts main.cpp's callbacks in their place.                               *)
(***************************************************************************)
EXTENDS Integers, Sequences

CONSTANTS
    Components,    \* registered components
    Timeout,       \* ComponentHealth::timeout, in ticks
    MaxRestarts,   \* ComponentHealth::maxRestarts; the configuration may say < 0
    Users,         \* threads that call updateHeartbeat() and the getters
    Monitor,       \* the thread of monitoringLoop()
    Nobody         \* owner of a free mutex

ASSUME HealthAssumption ==
    /\ Timeout \in Nat
    /\ MaxRestarts \in Int
    /\ Monitor \notin Users
    /\ Nobody \notin Users \cup {Monitor}

VARIABLES
    mMutex,        \* owner of HealthMonitor::mMutex
    mMonitoring,
    isAlive, restartCount, silence,   \* mComponents[c], silence is now - lastHeartbeat
    monitor,       \* where monitoringLoop() is
    overdue,       \* components that are past their timeout at the loop's `now`
    unhealthy,     \* newlyUnhealthyComponents, in the order they were found
    untried        \* history: components found dead and not restarted since

componentVars == <<isAlive, restartCount, silence>>
loopVars == <<monitor, overdue, unhealthy, untried>>
healthVars == <<mMutex, mMonitoring, componentVars, loopVars>>

\* "locking" and "triggering" wait for mMutex; "reporting" and "restarting"
\* are inside the health and the recovery callback.
MonitorState == {"idle", "testing", "sleeping", "locking", "scanning", "reporting",
                 "recovering", "triggering", "restarting", "stopped"}
Holding == {"scanning", "reporting", "restarting"}

HealthTypeOK ==
    /\ mMutex \in Users \cup {Monitor, Nobody}
    /\ mMonitoring \in BOOLEAN
    /\ isAlive \in [Components -> BOOLEAN]
    /\ restartCount \in [Components -> Nat]
    /\ silence \in [Components -> 0 .. Timeout + 1]
    /\ monitor \in MonitorState
    /\ overdue \subseteq Components
    /\ unhealthy \in Seq(Components)
    /\ untried \subseteq Components

\* Every component has been registered; the monitor has not been started.
HealthInit ==
    /\ mMutex = Nobody
    /\ mMonitoring = FALSE
    /\ isAlive = [c \in Components |-> TRUE]
    /\ restartCount = [c \in Components |-> 0]
    /\ silence = [c \in Components |-> 0]
    /\ monitor = "idle"
    /\ overdue = {}
    /\ unhealthy = <<>>
    /\ untried = {}

-----------------------------------------------------------------------------
(* Called by the other threads *)

StartMonitoring ==
    /\ ~mMonitoring
    /\ monitor = "idle"
    /\ mMonitoring' = TRUE
    /\ monitor' = "testing"
    /\ UNCHANGED <<mMutex, componentVars, overdue, unhealthy, untried>>

\* Clears the flag; its caller then waits for monitor = "stopped".
StopMonitoring ==
    /\ mMonitoring' = FALSE
    /\ UNCHANGED <<mMutex, componentVars, loopVars>>

\* Mutant: a heartbeat after a failure gives back one restart.
UpdateHeartbeatRefunds(t, c) ==
    /\ mMutex = Nobody
    /\ mMutex' = t
    /\ silence' = [silence EXCEPT ![c] = 0]
    /\ overdue' = overdue \ {c}
    /\ isAlive' = [isAlive EXCEPT ![c] = TRUE]
    /\ restartCount' = [restartCount EXCEPT ![c] = IF isAlive[c] THEN @ ELSE @ - 1]
    /\ UNCHANGED <<mMonitoring, monitor, unhealthy, untried>>

\* A heartbeat is never older than the loop's `now`, so its component is not
\* overdue for this pass; it is not taken off the list already made.
UpdateHeartbeat(t, c) ==
    /\ mMutex = Nobody
    /\ mMutex' = t
    /\ silence' = [silence EXCEPT ![c] = 0]
    /\ overdue' = overdue \ {c}
    /\ isAlive' = [isAlive EXCEPT ![c] = TRUE]
    /\ restartCount' = [restartCount EXCEPT ![c] = IF isAlive[c] THEN @ ELSE 0]
    /\ UNCHANGED <<mMonitoring, monitor, unhealthy, untried>>

\* getUnhealthyComponents(), getComponentHealth() and getRestartCount() only read.
ReadHealth(t) ==
    /\ mMutex = Nobody
    /\ mMutex' = t
    /\ UNCHANGED <<mMonitoring, componentVars, loopVars>>

\* The end of either call.
UnlockHeartbeat(t) ==
    /\ mMutex = t
    /\ mMutex' = Nobody
    /\ UNCHANGED <<mMonitoring, componentVars, loopVars>>

-----------------------------------------------------------------------------
(* monitoringLoop() *)

TestMonitoring ==
    /\ monitor = "testing"
    /\ monitor' = IF mMonitoring THEN "sleeping" ELSE "stopped"
    /\ UNCHANGED <<mMutex, mMonitoring, componentVars, overdue, unhealthy, untried>>

\* sleep_for() returns and `now` is read, before mMutex is taken.
Wake ==
    /\ monitor = "sleeping"
    /\ overdue' = {c \in Components : silence[c] > Timeout}
    /\ monitor' = "locking"
    /\ UNCHANGED <<mMutex, mMonitoring, componentVars, unhealthy, untried>>

LockForScan ==
    /\ monitor = "locking"
    /\ mMutex = Nobody
    /\ mMutex' = Monitor
    /\ monitor' = "scanning"
    /\ UNCHANGED <<mMonitoring, componentVars, overdue, unhealthy, untried>>

\* The map is unordered: the components come in any order.
Scan(c) ==
    /\ monitor = "scanning"
    /\ c \in overdue
    /\ overdue' = overdue \ {c}
    /\ isAlive' = [isAlive EXCEPT ![c] = FALSE]
    /\ IF isAlive[c]
       THEN /\ unhealthy' = Append(unhealthy, c)
            /\ untried' = untried \cup {c}
            /\ monitor' = "reporting"
       ELSE UNCHANGED <<unhealthy, untried, monitor>>
    /\ UNCHANGED <<mMutex, mMonitoring, restartCount, silence>>

\* The health callback returns.
ReportReturns ==
    /\ monitor = "reporting"
    /\ monitor' = "scanning"
    /\ UNCHANGED <<mMutex, mMonitoring, componentVars, overdue, unhealthy, untried>>

EndScan ==
    /\ monitor = "scanning"
    /\ overdue = {}
    /\ mMutex' = Nobody
    /\ monitor' = "recovering"
    /\ UNCHANGED <<mMonitoring, componentVars, overdue, unhealthy, untried>>

\* Mutant: one restart too many.
CanRestartOnceMore(c) == restartCount[c] <= MaxRestarts

CanRestart(c) == restartCount[c] < MaxRestarts

\* canRestartComponent() reads mComponents without mMutex.
Consider ==
    /\ monitor = "recovering"
    /\ unhealthy # <<>>
    /\ IF CanRestart(Head(unhealthy))
       THEN monitor' = "triggering" /\ UNCHANGED unhealthy
       ELSE unhealthy' = Tail(unhealthy) /\ UNCHANGED monitor
    /\ UNCHANGED <<mMutex, mMonitoring, componentVars, overdue, untried>>

\* triggerRecovery() asks again, now with the mutex, and calls back.
TriggerRecovery ==
    /\ monitor = "triggering"
    /\ mMutex = Nobody
    /\ LET c == Head(unhealthy) IN
       IF CanRestart(c)
       THEN /\ restartCount' = [restartCount EXCEPT ![c] = @ + 1]
            /\ untried' = untried \ {c}
            /\ mMutex' = Monitor
            /\ monitor' = "restarting"
            /\ UNCHANGED unhealthy
       ELSE /\ unhealthy' = Tail(unhealthy)
            /\ monitor' = "recovering"
            /\ UNCHANGED <<restartCount, untried, mMutex>>
    /\ UNCHANGED <<mMonitoring, isAlive, silence, overdue>>

\* Mutant: the list is cleared instead of its head being dropped.
RestartReturnsClears(success) ==
    /\ monitor = "restarting"
    /\ LET c == Head(unhealthy) IN
       IF success
       THEN /\ isAlive' = [isAlive EXCEPT ![c] = TRUE]
            /\ silence' = [silence EXCEPT ![c] = 0]
       ELSE UNCHANGED <<isAlive, silence>>
    /\ unhealthy' = <<>>
    /\ mMutex' = Nobody
    /\ monitor' = "recovering"
    /\ UNCHANGED <<mMonitoring, restartCount, overdue, untried>>

\* Mutant: a restart that succeeds gives the whole budget back.
RestartReturnsRefunds(success) ==
    /\ monitor = "restarting"
    /\ LET c == Head(unhealthy) IN
       IF success
       THEN /\ isAlive' = [isAlive EXCEPT ![c] = TRUE]
            /\ silence' = [silence EXCEPT ![c] = 0]
            /\ restartCount' = [restartCount EXCEPT ![c] = 0]
       ELSE UNCHANGED componentVars
    /\ unhealthy' = Tail(unhealthy)
    /\ mMutex' = Nobody
    /\ monitor' = "recovering"
    /\ UNCHANGED <<mMonitoring, overdue, untried>>

\* The recovery callback returns; a failure leaves the component as it is.
RestartReturns(success) ==
    /\ monitor = "restarting"
    /\ LET c == Head(unhealthy) IN
       IF success
       THEN /\ isAlive' = [isAlive EXCEPT ![c] = TRUE]
            /\ silence' = [silence EXCEPT ![c] = 0]
       ELSE UNCHANGED <<isAlive, silence>>
    /\ unhealthy' = Tail(unhealthy)
    /\ mMutex' = Nobody
    /\ monitor' = "recovering"
    /\ UNCHANGED <<mMonitoring, restartCount, overdue, untried>>

EndPass ==
    /\ monitor = "recovering"
    /\ unhealthy = <<>>
    /\ monitor' = "testing"
    /\ UNCHANGED <<mMutex, mMonitoring, componentVars, overdue, unhealthy, untried>>

TimePasses ==
    /\ silence' = [c \in Components |-> IF silence[c] > Timeout THEN silence[c]
                                                                ELSE silence[c] + 1]
    /\ UNCHANGED <<mMutex, mMonitoring, isAlive, restartCount, loopVars>>

\* The loop's own steps; the callbacks' returns are not among them.
LoopStep ==
    \/ TestMonitoring
    \/ Wake
    \/ LockForScan
    \/ \E c \in Components : Scan(c)
    \/ EndScan
    \/ Consider
    \/ TriggerRecovery
    \/ EndPass

Callbacks == ReportReturns \/ \E success \in BOOLEAN : RestartReturns(success)

HealthNext ==
    \/ StartMonitoring
    \/ mMonitoring /\ StopMonitoring
    \/ \E t \in Users, c \in Components : UpdateHeartbeat(t, c)
    \/ \E t \in Users : ReadHealth(t) \/ UnlockHeartbeat(t)
    \/ LoopStep
    \/ Callbacks
    \/ TimePasses

\* A user holds mMutex for an instant, once a second: the monitor gets it in
\* between (strong fairness).  The callbacks return.
HealthSpec ==
    /\ HealthInit /\ [][HealthNext]_healthVars
    /\ WF_healthVars(TimePasses)
    /\ WF_healthVars(Callbacks)
    /\ SF_healthVars(LoopStep)
    /\ \A t \in Users : WF_healthVars(UnlockHeartbeat(t))

-----------------------------------------------------------------------------
(* Properties *)

\* A component is restarted at most maxRestarts times before a heartbeat shows
\* it alive again, although the test that starts a recovery is made without
\* the mutex and long before the count goes up.
RestartBudget ==
    \A c \in Components : restartCount[c] > 0 => restartCount[c] <= MaxRestarts

\* No failure is lost, though the list of failures is made under the mutex and
\* worked off after it: once the loop has come round, a component that is
\* still dead has been restarted since it was last found to have died, or has
\* no restart left.  That holds of its first failure and of every later one.
EveryFailureTried ==
    monitor \in {"testing", "sleeping", "stopped"} =>
        \A c \in untried : isAlive[c] \/ ~CanRestart(c)

\* A component that never sends another heartbeat ends up unhealthy for good,
\* however often its recovery "succeeds"; monitoring may be stopped first.
SilentGivenUp ==
    \A c \in Components :
        (<>[][\A t \in Users : ~UpdateHeartbeat(t, c)]_healthVars)
            => <>[](~isAlive[c] \/ ~mMonitoring)
=============================================================================
