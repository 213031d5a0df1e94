---------------------------- MODULE NonUiNotifier ----------------------------
(***************************************************************************)
(* NonUiNotifier::pollingFunction() (sensors/NonUiNotifier.cpp): it polls  *)
(* the gesture files of the touch driver and has the sensor on while a     *)
(* gesture is enabled.  NonUiSensorCallback hands every event of the       *)
(* sensor to the touch driver.                                             *)
(*                                                                         *)
(* The thread as its owner sees it is PollingThread's; `step` is where it  *)
(* is inside the body of the loop, while poller = "polling".               *)
(***************************************************************************)
EXTENDS PollingThread, Integers, Sequences, SequencesExt

CONSTANTS
    Files,        \* number of gesture files
    MaxErrors,    \* config.maxConsecutiveErrors
    Faults        \* what may go wrong at all

\* "files": reads fail and descriptors are closed behind the thread's back;
\* "err": a change is reported with POLLERR as well.  main() does not get as far
\* as the notifiers if max_consecutive_errors is not positive (main.cpp:215).
ASSUME NonUiAssumption ==
    /\ Files \in Nat \ {0}
    /\ MaxErrors \in Nat \ {0}
    /\ Faults \subseteq {"poll", "service", "files", "err"}

VARIABLES
    faults,                  \* what may go wrong in this behaviour
    step,
    pollfds,                 \* the files that are polled, in the vector's order
    revents,                 \* what poll() reported of them
    ebadf,                   \* errno = EBADF
    enabled,                 \* a file that changed this round reads as on
    consecutivePollErrors,
    consecutiveErrors,
    on,                      \* the gestures that are enabled
    changed,                 \* polled files that changed since they were read
    closed,                  \* polled files whose descriptor was closed elsewhere
    touchMode                \* TOUCH_MODE_NONUI_MODE

roundVars == <<revents, enabled>>
errorVars == <<ebadf, consecutivePollErrors, consecutiveErrors>>
fileVars == <<on, changed, closed>>
vars == <<pollVars, faults, step, pollfds, roundVars, errorVars, fileVars, touchMode>>

Paths == 1 .. Files
Reports == {"nothing", "PRI", "ERR", "NVAL"}
MAX_CONSECUTIVE_POLL_ERRORS == 3
Polled == ToSet(pollfds)

NonUiTypeOK ==
    /\ PollTypeOK
    /\ faults \subseteq Faults
    /\ step \in {"scan", "poll", "read", "act"}
    /\ pollfds \in Seq(Paths)
    /\ revents \in [Paths -> Reports]
    /\ ebadf \in BOOLEAN /\ enabled \in BOOLEAN
    /\ consecutivePollErrors \in 0 .. MAX_CONSECUTIVE_POLL_ERRORS
    /\ consecutiveErrors \in 0 .. MaxErrors
    /\ on \subseteq Paths
    /\ changed \subseteq Polled /\ closed \subseteq Polled
    /\ touchMode \in {0, 1}

-----------------------------------------------------------------------------
(* Erasing from the vector *)

\* Mutant: without the sort the indices are erased in ascending order.
EraseAllAscending(s, bad) ==
    LET Upto[k \in 0 .. Len(s)] ==
            IF k = 0 THEN s
            ELSE IF k \in bad /\ k <= Len(Upto[k - 1]) THEN RemoveAt(Upto[k - 1], k)
            ELSE Upto[k - 1]
    IN  Upto[Len(s)]

\* The indices in `bad` are erased one after the other, the highest first.
EraseAll(s, bad) ==
    LET From[k \in 1 .. Len(s) + 1] ==
            IF k = Len(s) + 1 THEN s
            ELSE IF k \in bad /\ k <= Len(From[k + 1]) THEN RemoveAt(From[k + 1], k)
            ELSE From[k + 1]
    IN  From[1]

\* The files in `gone` are not in the vector; the rest keep their order.
Without(s, gone) == EraseAll(s, {i \in DOMAIN s : s[i] \in gone})

-----------------------------------------------------------------------------
(* Before the loop *)

\* Files that cannot be opened or read are passed over.  The byte that is read
\* as a test takes note of the file's state: only later changes are reported.
Setup ==
    /\ PollSetup
    /\ \E opened \in SUBSET Paths :
          /\ pollfds' = Without([i \in Paths |-> i], Paths \ opened)
          /\ poller' = IF opened = {} THEN "exited" ELSE "testing"
    /\ UNCHANGED <<faults, step, roundVars, errorVars, fileVars, touchMode>>

-----------------------------------------------------------------------------
(* The loop *)

Test ==
    /\ PollTest
    /\ step' = "scan"
    /\ UNCHANGED <<faults, pollfds, roundVars, errorVars, fileVars, touchMode>>

\* In the body, and on to the next step, the next round, or out of the loop.
\* Variables that are out of scope have their first values, to save states.
In(s) == PollAt("polling") /\ step = s
Go(s) == step' = s /\ UNCHANGED pollVars
Over(l) ==
    /\ poller' = l /\ step' = "scan"
    /\ UNCHANGED <<mActive, sensorEnabled, serviceEnabled, fate>>
Quiet == [f \in Paths |-> "nothing"]

\* fcntl(fd, F_GETFD) of every descriptor; a failure sets errno.
Scan ==
    /\ In("scan")
    /\ pollfds' = Without(pollfds, closed)
    /\ changed' = changed \ closed
    /\ closed' = {}
    /\ ebadf' = (ebadf \/ closed # {})
    /\ IF pollfds' = <<>> THEN Over("leaving") ELSE Go("poll")
    /\ UNCHANGED <<faults, roundVars, consecutivePollErrors, consecutiveErrors, on,
                   touchMode>>

\* poll() fails, which sets errno.
PollInterrupted ==
    /\ In("poll")
    /\ "poll" \in faults
    /\ ebadf' = FALSE
    /\ Over("testing")
    /\ UNCHANGED <<faults, pollfds, roundVars, consecutivePollErrors, consecutiveErrors,
                   fileVars, touchMode>>

\* Mutant: > instead of >=.
OneTooMany(errors) == errors > MAX_CONSECUTIVE_POLL_ERRORS

TooMany(errors) == errors >= MAX_CONSECUTIVE_POLL_ERRORS

PollFails ==
    /\ In("poll")
    /\ "poll" \in faults
    /\ ebadf' = FALSE
    /\ consecutivePollErrors' = consecutivePollErrors + 1
    /\ Over(IF TooMany(consecutivePollErrors') THEN "leaving" ELSE "testing")
    /\ UNCHANGED <<faults, pollfds, roundVars, consecutiveErrors, fileVars, touchMode>>

\* What poll() may report: everything that has changed, and closed descriptors.
Revents ==
    {r \in [Paths -> Reports] : \A f \in Paths :
        r[f] \in IF f \in closed THEN {"NVAL"}
                 ELSE IF f \notin changed THEN {"nothing"}
                 ELSE IF "err" \in faults THEN {"PRI", "ERR"} ELSE {"PRI"}}

\* Mutant: consecutiveErrors is not cleared after poll().
PollUncleared ==
    /\ In("poll")
    /\ revents' \in Revents
    /\ consecutivePollErrors' = 0
    /\ IF changed \cup closed = {} THEN Over("testing") ELSE Go("read")
    /\ UNCHANGED <<faults, pollfds, enabled, ebadf, consecutiveErrors, fileVars, touchMode>>

\* poll() succeeds; with nothing to report it has timed out.
Poll ==
    /\ In("poll")
    /\ revents' \in Revents
    /\ consecutivePollErrors' = 0
    /\ consecutiveErrors' = 0
    /\ IF changed \cup closed = {} THEN Over("testing") ELSE Go("read")
    /\ UNCHANGED <<faults, pollfds, enabled, ebadf, fileVars, touchMode>>

\* The files that changed are read in order.  A file is dropped if it reported
\* an error, or if errno is EBADF after its readBool(), whether that call set
\* it (a bad descriptor) or an earlier one did; a read that fails for another
\* reason sets errno to something else, and counts as off.
Read ==
    /\ In("read")
    /\ \E unreadable \in IF "files" \in faults THEN SUBSET Polled ELSE {{}} :
       LET Reads(i) == revents[pollfds[i]] = "PRI"
           \* errno is EBADF once the files up to index i have been read: it was
           \* set, before the first or by one of them, and no later one changed it
           Ebadf(i) == \E j \in 0 .. i :
               /\ IF j = 0 THEN ebadf ELSE Reads(j) /\ pollfds[j] \in closed
               /\ \A l \in j + 1 .. i : Reads(l) => pollfds[l] \notin unreadable
           Failing == {i \in DOMAIN pollfds :
                          revents[pollfds[i]] = "ERR" \/ (Reads(i) /\ Ebadf(i))}
           Sound == {pollfds[i] : i \in {j \in DOMAIN pollfds \ Failing : Reads(j)}}
           left == EraseAll(pollfds, Failing)
       IN  /\ ebadf' = Ebadf(Len(pollfds))
           /\ enabled' = ((Sound \ unreadable) \cap on # {})
           /\ pollfds' = left
           /\ changed' = (changed \ {f \in Polled : revents[f] = "PRI"}) \cap ToSet(left)
           /\ closed' = closed \cap ToSet(left)
           /\ consecutiveErrors' = consecutiveErrors + (IF Failing = {} THEN 0 ELSE 1)
           /\ IF left = <<>> \/ (Failing # {} /\ consecutiveErrors' >= MaxErrors) THEN Over("leaving")
              ELSE IF Failing # {} THEN Over("testing") ELSE Go("act")
    /\ revents' = Quiet
    /\ UNCHANGED <<faults, consecutivePollErrors, on, touchMode>>

\* Mutant: the service's answer is not looked at.
SwitchUnchecked(Agreed) ==
    \/ Agreed /\ consecutiveErrors' = 0
    \/ /\ "service" \in faults
       /\ sensorEnabled' = enabled /\ poller' = "testing"
       /\ consecutiveErrors' = 0
       /\ UNCHANGED <<mActive, serviceEnabled, fate>>
    \/ "service" \in faults /\ PollAbort /\ UNCHANGED consecutiveErrors

\* enableSensor() or disableSensor(): the service agrees, refuses, or the
\* transaction is lost.
Switch(Agreed) ==
    \/ Agreed /\ consecutiveErrors' = 0
    \/ /\ "service" \in faults
       /\ consecutiveErrors' = 1
       /\ Over(IF 1 >= MaxErrors THEN "leaving" ELSE "testing")
    \/ "service" \in faults /\ PollAbort /\ UNCHANGED consecutiveErrors

\* Mutant: the sensor is not disabled.
ActNeverDisables ==
    /\ In("act")
    /\ \/ enabled /\ ~sensorEnabled /\ Switch(PollEnable)
       \/ (sensorEnabled \/ ~enabled) /\ Over("testing") /\ consecutiveErrors' = 0
    /\ enabled' = FALSE /\ step' = "scan"
    /\ UNCHANGED <<faults, pollfds, revents, ebadf, consecutivePollErrors, fileVars, touchMode>>

Act ==
    /\ In("act")
    /\ \/ enabled /\ ~sensorEnabled /\ Switch(PollEnable)
       \/ ~enabled /\ sensorEnabled /\ Switch(PollDisable)
       \/ enabled = sensorEnabled /\ Over("testing") /\ consecutiveErrors' = 0
    /\ enabled' = FALSE /\ step' = "scan"
    /\ UNCHANGED <<faults, pollfds, revents, ebadf, consecutivePollErrors, fileVars, touchMode>>

\* The local variables and the open files go with the function.
Gone ==
    /\ step' = "scan"
    /\ pollfds' = <<>> /\ changed' = {} /\ closed' = {}
    /\ revents' = Quiet /\ enabled' = FALSE
    /\ ebadf' = FALSE /\ consecutivePollErrors' = 0 /\ consecutiveErrors' = 0

\* After the loop.
Leave ==
    /\ \/ PollLeave /\ ("service" \in faults \/ serviceEnabled' = (serviceEnabled /\ ~sensorEnabled))
       \/ "service" \in faults /\ PollAt("leaving") /\ PollAbort
    /\ Gone
    /\ UNCHANGED <<faults, on, touchMode>>

ThreadStep ==
    \/ Setup \/ Test \/ Scan
    \/ PollInterrupted \/ PollFails \/ Poll
    \/ Read \/ Act \/ Leave

-----------------------------------------------------------------------------
(* The driver, the sensor service and the owner of the thread *)

insideVars == <<faults, step, pollfds, roundVars, errorVars>>

\* Somebody enables or disables a gesture, perhaps twice before it is read.
GestureChanges(f) ==
    /\ fate = "running"
    /\ on' = (on \ {f}) \cup ({f} \ on)
    /\ changed' = changed \cup ({f} \cap Polled)
    /\ UNCHANGED <<pollVars, insideVars, closed, touchMode>>

\* A descriptor is closed behind the thread's back.
CloseBehind(f) ==
    /\ fate = "running"
    /\ "files" \in faults
    /\ f \in Polled \ closed
    /\ closed' = closed \cup {f}
    /\ UNCHANGED <<pollVars, insideVars, on, changed, touchMode>>

\* NonUiSensorCallback::onEvent() for an event with scalar v; without a file of
\* its own, or when the ioctl fails, it does nothing.
OnEvent(v) ==
    /\ fate = "running"
    /\ serviceEnabled
    /\ touchMode' = v
    /\ UNCHANGED <<pollVars, insideVars, fileVars>>

Owner ==
    /\ \/ OwnerActivates
       \/ OwnerStops
       \/ OwnerJoins /\ ("service" \in faults \/ ~serviceEnabled')
    /\ UNCHANGED <<insideVars, fileVars, touchMode>>

Restart ==
    /\ InitRestarts
    /\ Gone
    /\ UNCHANGED <<faults, on, touchMode>>

Init ==
    /\ PollInit
    /\ faults \in {{}, Faults}
    /\ step = "scan"
    /\ pollfds = <<>>
    /\ revents = Quiet /\ enabled = FALSE
    /\ ebadf = FALSE /\ consecutivePollErrors = 0 /\ consecutiveErrors = 0
    /\ on \in SUBSET Paths
    /\ changed = {} /\ closed = {}
    /\ touchMode = 0

Next ==
    \/ ThreadStep
    \/ \E f \in Paths : GestureChanges(f)
    \/ \E f \in Paths : CloseBehind(f)
    \/ \E v \in {0, 1} : OnEvent(v)
    \/ Owner
    \/ Restart

\* The scheduler runs the thread, and poll() has a finite time-out.
Spec == Init /\ [][Next]_vars /\ WF_vars(ThreadStep)

-----------------------------------------------------------------------------
(* Properties *)

\* The loop keeps the promises SensorNotifier relies on: it changes the sensor
\* in step with its own sensorEnabled, comes back to the test of mActive
\* whatever the files and the service answer, and ends.
ImplementsPolling == PollSpec

\* Dropping files from the vector by their indices (NonUiNotifier.cpp:202)
\* drops the right ones: a file that reported an error goes, and one that did
\* not stays, as long as no descriptor is or was bad.
RightFilesDropped ==
    [][ (In("read") /\ step' # "read") =>
        \A f \in Polled :
            /\ revents[f] = "ERR" => f \notin ToSet(pollfds')
            /\ (revents[f] # "ERR" /\ ~ebadf /\ closed = {}) => f \in ToSet(pollfds') ]_vars

\* Whatever the service refuses and the files report, the loop gives up only
\* for want of files or after three failures of poll() in a row: with a limit
\* of two or more the error counts of lines 219 and 253 never reach it.
StopsForCause ==
    [][ (MaxErrors > 1 /\ poller = "polling" /\ poller' = "leaving") =>
            pollfds' = <<>> \/ consecutivePollErrors' = MAX_CONSECUTIVE_POLL_ERRORS ]_vars

\* With files and a service that do what they are asked, a gesture that is
\* enabled while its file is polled switches the sensor on, however its change
\* interleaves with the round that reads it; and once the last gesture has
\* been disabled the sensor goes off.
FollowsChanges ==
    faults = {} =>
        /\ \A f \in Paths :
              (f \in on \cap changed) ~> (f \notin on \/ serviceEnabled \/ ~mActive)
        /\ (on \cap Polled = {} /\ changed # {}) ~>
              (on \cap Polled # {} \/ ~serviceEnabled)

\* The loop monitors several gestures and has the sensor on for any of them
\* (NonUiNotifier.cpp:117, :198): it does not disable it while one of them is
\* enabled and has not changed.
EnabledGestureCounts ==
    [][ (poller = "polling" /\ serviceEnabled /\ ~serviceEnabled' /\ faults = {})
            => (on \cap Polled) \ changed = {} ]_vars
=============================================================================
