---------------------------- MODULE PollingThread ----------------------------
(***************************************************************************)
(* The contract of SensorNotifier::pollingFunction(), the pure virtual     *)
(* function that SensorNotifier::activate() runs on a thread of its own    *)
(* and that AodNotifier and NonUiNotifier implement.  Both implementations *)
(* open device files, loop while mActive, switch a sensor on and off       *)
(* through the event queue, remember in the local sensorEnabled what they  *)
(* asked for, and switch the sensor off once more after the loop.          *)
(*                                                                         *)
(* SensorNotifier extends this module and owns the rest of the object;     *)
(* AodNotifier is shown to implement it.                                   *)
(***************************************************************************)
VARIABLES
    mActive,         \* SensorNotifier::mActive, written only by (de)activate()
    poller,          \* where the polling thread is
    sensorEnabled,   \* the local variable of pollingFunction()
    serviceEnabled,  \* the sensor service delivers this queue's sensor
    fate             \* "running", "aborted" (abort()) or "terminated" (std::terminate())

pollVars == <<mActive, poller, sensorEnabled, serviceEnabled, fate>>

\* "none": no thread; "starting": opening devices; "testing": the condition
\* of the while loop; "polling": its body; "leaving": after the loop;
\* "exited": the function has returned and the thread can be joined.
PollerState == {"none", "starting", "testing", "polling", "leaving", "exited"}
Fate == {"running", "aborted", "terminated"}

PollTypeOK ==
    /\ mActive \in BOOLEAN
    /\ poller \in PollerState
    /\ sensorEnabled \in BOOLEAN
    /\ serviceEnabled \in BOOLEAN
    /\ fate \in Fate

PollAt(l) == fate = "running" /\ poller = l

-----------------------------------------------------------------------------
\* Opening the device files; the function returns at once when it cannot.
PollSetup ==
    /\ PollAt("starting")
    /\ poller' \in {"testing", "exited"}
    /\ UNCHANGED <<mActive, sensorEnabled, serviceEnabled, fate>>

PollTest ==
    /\ PollAt("testing")
    /\ poller' = IF mActive THEN "polling" ELSE "leaving"
    /\ UNCHANGED <<mActive, sensorEnabled, serviceEnabled, fate>>

\* A round that changes nothing at the service: time-out, EINTR, nothing to
\* do, a call the service refused; or the break after too many errors.
PollRound ==
    /\ PollAt("polling")
    /\ poller' \in {"testing", "leaving"}
    /\ UNCHANGED <<mActive, sensorEnabled, serviceEnabled, fate>>

PollEnable ==
    /\ PollAt("polling") /\ ~sensorEnabled
    /\ sensorEnabled' = TRUE
    /\ serviceEnabled' = TRUE
    /\ poller' = "testing"
    /\ UNCHANGED <<mActive, fate>>

PollDisable ==
    /\ PollAt("polling") /\ sensorEnabled
    /\ sensorEnabled' = FALSE
    /\ serviceEnabled' = FALSE
    /\ poller' = "testing"
    /\ UNCHANGED <<mActive, fate>>

\* The cleanup after the loop; the service may refuse, which is only logged.
PollLeave ==
    /\ PollAt("leaving")
    /\ serviceEnabled' \in IF sensorEnabled THEN {FALSE, serviceEnabled}
                                            ELSE {serviceEnabled}
    /\ poller' = "exited"
    /\ UNCHANGED <<mActive, sensorEnabled, fate>>

\* enableSensor() and disableSensor() return Return<Result>, which the loop
\* converts to Result unchecked: libhidlbase aborts the process when the
\* transaction itself failed.
PollAbort ==
    /\ PollAt("polling") \/ (PollAt("leaving") /\ sensorEnabled)
    /\ fate' = "aborted"
    /\ UNCHANGED <<mActive, poller, sensorEnabled, serviceEnabled>>

PollStep ==
    \/ PollSetup
    \/ PollTest
    \/ PollRound
    \/ PollEnable
    \/ PollDisable
    \/ PollLeave
    \/ PollAbort

-----------------------------------------------------------------------------
(* What the owner of the thread may do, as far as this contract sees it.   *)

\* std::thread(&SensorNotifier::pollingFunction, this) in activate()
StartPolling ==
    /\ poller = "none"
    /\ poller' = "starting"
    /\ sensorEnabled' = FALSE

\* mPollingThread.join() in deactivate()
JoinPolling ==
    /\ poller = "exited"
    /\ poller' = "none"

OwnerActivates ==
    /\ fate = "running"
    /\ ~mActive
    /\ mActive' = TRUE
    /\ StartPolling
    /\ UNCHANGED <<serviceEnabled, fate>>

OwnerStops ==
    /\ fate = "running"
    /\ mActive
    /\ mActive' = FALSE
    /\ UNCHANGED <<poller, sensorEnabled, serviceEnabled, fate>>

OwnerJoins ==
    /\ fate = "running"
    /\ ~mActive
    /\ JoinPolling
    /\ serviceEnabled' \in {FALSE, serviceEnabled}
    /\ UNCHANGED <<mActive, sensorEnabled, fate>>

PollInit ==
    /\ mActive = FALSE
    /\ poller = "none"
    /\ sensorEnabled = FALSE
    /\ serviceEnabled = FALSE
    /\ fate = "running"

\* init restarts a service of class main that has died; the kernel drops the
\* dead process's event queue and with it the sensor it had enabled.
InitRestarts ==
    /\ fate # "running"
    /\ mActive' = FALSE
    /\ poller' = "none"
    /\ sensorEnabled' = FALSE
    /\ serviceEnabled' = FALSE
    /\ fate' = "running"

PollNext ==
    \/ PollStep
    \/ OwnerActivates
    \/ OwnerStops
    \/ OwnerJoins
    \/ InitRestarts

\* The scheduler runs the polling thread and poll() has a finite time-out.
PollSpec == PollInit /\ [][PollNext]_pollVars /\ WF_pollVars(PollStep)
=============================================================================
