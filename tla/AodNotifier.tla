----------------------------- MODULE AodNotifier -----------------------------
(***************************************************************************)
(* AodNotifier::pollingFunction() (sensors/AodNotifier.cpp) with what it   *)
(* talks to: the display feature driver, which reports power states        *)
(* through a file, the sensor service, and AodSensorCallback, which sets   *)
(* the doze brightness for every event of the AOD sensor.                  *)
(*                                                                         *)
(* The owner of the thread behaves as PollingThread lets it, and the whole *)
(* is shown to implement PollingThread.                                    *)
(***************************************************************************)
EXTENDS SensorNotifierUtils, Sequences

CONSTANTS
    MaxErrors,       \* config.maxConsecutiveErrors
    MaxEmptyReads,   \* config.maxConsecutiveEmptyReads
    MaxQueued,       \* bound: unread events of the driver
    Faults           \* what may go wrong at all: "poll", "device", "service"

ASSUME AodAssumption ==
    /\ MaxErrors \in Nat \ {0}
    /\ MaxEmptyReads \in Nat \ {0}
    /\ MaxQueued \in Nat \ {0}
    /\ Faults \subseteq {"poll", "device", "service"}

VARIABLES
    faults,                 \* what may go wrong in this behaviour
    mActive, sensorEnabled, serviceEnabled, fate,   \* as in PollingThread
    pc,                     \* where the polling thread is
    consecutiveErrors,
    consecutiveEmptyReads,
    value,                  \* the power state being handled
    lastPoll,               \* how the last poll() of the thread came out
    stale,                  \* dispEventPoll.fd is the number of a closed file
    registered,             \* the open file is registered for power events
    events,                 \* power events the driver holds for the open file
    display,                \* power state of the panel
    reported,               \* the last power state queued for the open file
    pending,                \* a sensor event is on its way to the callback
    brightness              \* the last doze brightness request

sharedVars == <<mActive, sensorEnabled, serviceEnabled, fate>>
loopVars == <<consecutiveErrors, consecutiveEmptyReads, value, lastPoll, stale>>
driverVars == <<registered, events, display, reported>>
sensorVars == <<pending, brightness>>
vars == <<faults, sharedVars, pc, loopVars, driverVars, sensorVars>>

\* LP1 and LP2 are handled alike; OFF stands for the default case.
Power == {"LP", "ON", "OFF"}
Outcome == {"EINTR", "FAILED", "TIMEOUT", "POLLERR", "POLLNVAL", "POLLIN"}

\* "reading", "acting" and "normal" are inside the loop's body, after poll(),
\* after parseDispEvent(), and before DOZE_TO_NORMAL is requested.
InBody == {"polling", "reading", "acting", "normal"}

TypeOK ==
    /\ faults \subseteq Faults
    /\ mActive \in BOOLEAN /\ sensorEnabled \in BOOLEAN /\ serviceEnabled \in BOOLEAN
    /\ stale \in BOOLEAN /\ registered \in BOOLEAN /\ pending \in BOOLEAN
    /\ fate \in {"running", "aborted"}
    /\ pc \in InBody \cup {"none", "starting", "testing", "leaving", "exited"}
    /\ consecutiveErrors \in 0 .. MaxErrors
    /\ consecutiveEmptyReads \in 0 .. (MaxEmptyReads - 1)
    /\ value \in Power
    /\ lastPoll \in Outcome
    /\ events \in Seq(Power) /\ Len(events) <= MaxQueued
    /\ display \in Power
    /\ reported \in Power \cup {"nothing"}
    /\ brightness \in {"normal", "doze"}

At(l) == fate = "running" /\ pc = l
Goto(l) == pc' = l

\* Replies of enableSensor() and disableSensor(); LOST aborts the process.
Reply == IF "service" \in faults THEN {"OK", "ERROR", "LOST"} ELSE {"OK"}

-----------------------------------------------------------------------------
(* Before the loop *)

\* unique_fd closes the file when the function returns.
Closed ==
    /\ registered' = FALSE
    /\ events' = <<>>
    /\ reported' = "nothing"
    /\ UNCHANGED display

OpenFails ==
    /\ At("starting")
    /\ "device" \in faults
    /\ Goto("exited")
    /\ UNCHANGED <<faults, sharedVars, loopVars, driverVars, sensorVars>>

\* The loop runs even if the registration failed.
Open ==
    /\ At("starting")
    /\ registered' \in IF "device" \in faults THEN BOOLEAN ELSE {TRUE}
    /\ stale' = FALSE
    /\ consecutiveErrors' = 0
    /\ consecutiveEmptyReads' = 0
    /\ Goto("testing")
    /\ UNCHANGED <<faults, sharedVars, value, lastPoll, events, display, reported, sensorVars>>

-----------------------------------------------------------------------------
(* The loop *)

Test ==
    /\ At("testing")
    /\ Goto(IF mActive THEN "polling" ELSE "leaving")
    /\ UNCHANGED <<faults, sharedVars, loopVars, driverVars, sensorVars>>

\* The descriptor in dispEventPoll is set before the loop only.
PollOutcomes ==
    UNION { IF stale THEN {"POLLNVAL"}
            ELSE IF events # <<>> THEN {"POLLIN"} ELSE {"TIMEOUT"},
            IF "poll" \in faults THEN {"EINTR", "FAILED"} ELSE {},
            IF "device" \in faults /\ ~stale THEN {"POLLERR", "POLLIN"} ELSE {} }

\* Mutant: a failed poll() does not count.
FailuresUncounted(outcome) ==
    CASE outcome \in {"EINTR", "FAILED"} -> consecutiveErrors
      [] outcome = "POLLERR" -> 1
      [] OTHER -> 0

\* Mutant: a poll() that comes back does not clear the count.
ErrorsUncleared(outcome) ==
    CASE outcome \in {"FAILED", "POLLERR"} -> consecutiveErrors + 1
      [] OTHER -> consecutiveErrors

\* What becomes of consecutiveErrors: line 141 clears it after every poll()
\* that did not fail, and so also before a POLLERR is counted.
ErrorsAfter(outcome) ==
    CASE outcome = "EINTR"   -> consecutiveErrors
      [] outcome = "FAILED"  -> consecutiveErrors + 1
      [] outcome = "POLLERR" -> 1
      [] OTHER               -> 0

\* Mutant: > instead of >=.
OneTooMany(outcome, errors) ==
    outcome \in {"FAILED", "POLLERR"} /\ errors > MaxErrors

TooMany(outcome, errors) ==
    outcome \in {"FAILED", "POLLERR"} /\ errors >= MaxErrors

Poll ==
    /\ At("polling")
    /\ \E outcome \in PollOutcomes :
          /\ lastPoll' = outcome
          /\ consecutiveErrors' = ErrorsAfter(outcome)
          /\ Goto(IF TooMany(outcome, ErrorsAfter(outcome)) THEN "leaving"
                  ELSE IF outcome = "POLLIN" THEN "reading" ELSE "testing")
    /\ UNCHANGED <<faults, sharedVars, consecutiveEmptyReads, value, stale,
                   driverVars, sensorVars>>

\* The driver hands over something of which parseDispEvent() makes `outcome`.
Faulty(outcome) ==
    /\ "device" \in faults
    /\ \E length \in 0 .. UintSpan - 1, short \in BOOLEAN :
          parseDispEvent(length, short) = outcome

\* A power event as the driver queued it.
ReadEvent ==
    /\ At("reading")
    /\ events # <<>>
    /\ value' = Head(events)
    /\ events' = Tail(events)
    /\ consecutiveEmptyReads' = 0
    /\ Goto("acting")
    /\ UNCHANGED <<faults, sharedVars, consecutiveErrors, lastPoll, stale,
                   registered, display, reported, sensorVars>>

\* A power event without data: response->data[0] lies outside the block.
ReadBare ==
    /\ At("reading")
    /\ Faulty("bare")
    /\ value' \in Power
    /\ consecutiveEmptyReads' = 0
    /\ Goto("acting")
    /\ UNCHANGED <<faults, sharedVars, consecutiveErrors, lastPoll, stale, driverVars, sensorVars>>

\* An event of another type.
ReadOther ==
    /\ At("reading")
    /\ Faulty("whole")
    /\ consecutiveEmptyReads' = 0
    /\ Goto("testing")
    /\ UNCHANGED <<faults, sharedVars, consecutiveErrors, value, lastPoll, stale,
                   driverVars, sensorVars>>

\* parseDispEvent() returns nullptr, for want of a header or, the header
\* read, of the data; the limit is not reached.
ReadNothing ==
    /\ At("reading")
    /\ Faulty("nothing")
    /\ consecutiveEmptyReads + 1 < MaxEmptyReads
    /\ consecutiveEmptyReads' = consecutiveEmptyReads + 1
    /\ \/ UNCHANGED events
       \/ events # <<>> /\ events' = Tail(events)
    /\ Goto("testing")
    /\ UNCHANGED <<faults, sharedVars, consecutiveErrors, value, lastPoll, stale,
                   registered, display, reported, sensorVars>>

\* The limit is reached: disp_fd_.reset(open(...)).  open() runs while the
\* old file is still open, so the new number differs from the one in
\* dispEventPoll; the new file is not registered for events.
Reopen ==
    /\ At("reading")
    /\ Faulty("nothing")
    /\ consecutiveEmptyReads + 1 >= MaxEmptyReads
    /\ consecutiveEmptyReads' = 0
    /\ stale' = TRUE
    /\ Closed
    /\ pc' \in {"testing", "leaving"}     \* reopened, or not
    /\ UNCHANGED <<faults, sharedVars, consecutiveErrors, value, lastPoll, sensorVars>>

-----------------------------------------------------------------------------
(* The switch on the power state *)

\* Mutant: the service's answer is not looked at.
SwitchUnchecked(on, next) ==
    \E reply \in Reply :
        IF reply = "LOST"
        THEN fate' = "aborted" /\ UNCHANGED <<pc, sensorEnabled, serviceEnabled>>
        ELSE /\ sensorEnabled' = on
             /\ serviceEnabled' = IF reply = "OK" THEN on ELSE serviceEnabled
             /\ Goto(next)
             /\ UNCHANGED fate

\* enableSensor() or disableSensor(), and sensorEnabled when the service
\* agrees.
SwitchSensor(on, next) ==
    \E reply \in Reply :
        IF reply = "LOST"
        THEN fate' = "aborted" /\ UNCHANGED <<pc, sensorEnabled, serviceEnabled>>
        ELSE /\ sensorEnabled' = IF reply = "OK" THEN on ELSE sensorEnabled
             /\ serviceEnabled' = IF reply = "OK" THEN on ELSE serviceEnabled
             /\ Goto(next)
             /\ UNCHANGED fate

Enable ==
    /\ At("acting")
    /\ value = "LP" /\ ~sensorEnabled
    /\ SwitchSensor(TRUE, "testing")
    /\ UNCHANGED <<faults, mActive, loopVars, driverVars, sensorVars>>

\* Mutant: the default case leaves the sensor on.
DisableForOn ==
    /\ At("acting")
    /\ value # "LP" /\ sensorEnabled
    /\ IF value = "ON" THEN SwitchSensor(FALSE, "normal")
       ELSE Goto("testing") /\ UNCHANGED <<sensorEnabled, serviceEnabled, fate>>
    /\ UNCHANGED <<faults, mActive, loopVars, driverVars, sensorVars>>

\* The cases ON and default.
Disable ==
    /\ At("acting")
    /\ value # "LP" /\ sensorEnabled
    /\ SwitchSensor(FALSE, IF value = "ON" THEN "normal" ELSE "testing")
    /\ UNCHANGED <<faults, mActive, loopVars, driverVars, sensorVars>>

\* Mutant: the brightness is given back only with the sensor.
KeepAll ==
    /\ At("acting")
    /\ sensorEnabled = (value = "LP")
    /\ Goto("testing")
    /\ UNCHANGED <<faults, sharedVars, loopVars, driverVars, sensorVars>>

\* Nothing to switch.
Keep ==
    /\ At("acting")
    /\ sensorEnabled = (value = "LP")
    /\ Goto(IF value = "ON" THEN "normal" ELSE "testing")
    /\ UNCHANGED <<faults, sharedVars, loopVars, driverVars, sensorVars>>

\* requestDozeBrightness(disp_fd_.get(), DOZE_TO_NORMAL); a failure is logged.
DozeToNormal ==
    /\ At("normal")
    /\ brightness' \in {"normal"} \cup (IF "device" \in faults THEN {brightness} ELSE {})
    /\ Goto("testing")
    /\ UNCHANGED <<faults, sharedVars, loopVars, driverVars, pending>>

\* After the loop.
Leave ==
    /\ At("leaving")
    /\ \E reply \in Reply :
          IF sensorEnabled /\ reply = "LOST"
          THEN fate' = "aborted" /\ UNCHANGED <<pc, serviceEnabled, driverVars>>
          ELSE /\ serviceEnabled' = (serviceEnabled /\ ~(sensorEnabled /\ reply = "OK"))
               /\ Goto("exited")
               /\ Closed
               /\ UNCHANGED fate
    /\ UNCHANGED <<faults, mActive, sensorEnabled, loopVars, sensorVars>>

ThreadStep ==
    \/ OpenFails \/ Open
    \/ Test \/ Poll
    \/ ReadEvent \/ ReadBare \/ ReadOther \/ ReadNothing \/ Reopen
    \/ Enable \/ Disable \/ Keep \/ DozeToNormal
    \/ Leave

-----------------------------------------------------------------------------
(* The driver, the sensor service and the owner of the thread *)

\* The panel changes its power state.
DisplayChanges ==
    /\ fate = "running"
    /\ Len(events) < MaxQueued
    /\ display' \in Power \ {display}
    /\ IF registered THEN /\ events' = Append(events, display')
                          /\ reported' = display'
                     ELSE UNCHANGED <<events, reported>>
    /\ UNCHANGED <<faults, sharedVars, pc, loopVars, registered, sensorVars>>

\* onEvent() is one-way: the service does not wait for it.
SensorEvent ==
    /\ fate = "running"
    /\ serviceEnabled /\ ~pending
    /\ pending' = TRUE
    /\ UNCHANGED <<faults, sharedVars, pc, loopVars, driverVars, brightness>>

\* AodSensorCallback::onEvent(), on a binder thread; without a file of its
\* own, or when the ioctl fails, it does nothing.
OnEvent ==
    /\ fate = "running"
    /\ pending
    /\ pending' = FALSE
    /\ brightness' \in {"doze"} \cup (IF "device" \in faults THEN {brightness} ELSE {})
    /\ UNCHANGED <<faults, sharedVars, pc, loopVars, driverVars>>

Activate ==
    /\ fate = "running" /\ ~mActive /\ pc = "none"
    /\ mActive' = TRUE
    /\ sensorEnabled' = FALSE
    /\ Goto("starting")
    /\ UNCHANGED <<faults, serviceEnabled, fate, loopVars, driverVars, sensorVars>>

Stop ==
    /\ fate = "running" /\ mActive
    /\ mActive' = FALSE
    /\ UNCHANGED <<faults, sensorEnabled, serviceEnabled, fate, pc, loopVars,
                   driverVars, sensorVars>>

\* deactivate() joins the thread and switches the sensor off.
Join ==
    /\ fate = "running" /\ ~mActive /\ pc = "exited"
    /\ Goto("none")
    /\ serviceEnabled' \in {FALSE} \cup (IF "service" \in faults THEN {serviceEnabled} ELSE {})
    /\ UNCHANGED <<faults, mActive, sensorEnabled, fate, loopVars, driverVars, sensorVars>>

Restart ==
    /\ fate = "aborted"
    /\ fate' = "running"
    /\ mActive' = FALSE /\ sensorEnabled' = FALSE /\ serviceEnabled' = FALSE
    /\ Goto("none")
    /\ Closed
    /\ pending' = FALSE
    /\ UNCHANGED <<faults, loopVars, brightness>>

Init ==
    /\ faults \in SUBSET Faults
    /\ mActive = FALSE /\ sensorEnabled = FALSE /\ serviceEnabled = FALSE
    /\ fate = "running"
    /\ pc = "none"
    /\ consecutiveErrors = 0 /\ consecutiveEmptyReads = 0
    /\ value = "ON" /\ lastPoll = "TIMEOUT" /\ stale = FALSE
    /\ registered = FALSE /\ events = <<>>
    /\ display \in Power
    /\ reported = "nothing"
    /\ pending = FALSE /\ brightness = "normal"

Next ==
    \/ ThreadStep
    \/ DisplayChanges
    \/ SensorEvent \/ OnEvent
    \/ Activate \/ Stop \/ Join
    \/ Restart

\* The scheduler runs the thread, and poll() has a finite time-out.
Spec == Init /\ [][Next]_vars /\ WF_vars(ThreadStep)

-----------------------------------------------------------------------------
(* The refinement *)

\* Once the sensor is switched, or need not be, only the brightness is left
\* of a round: PollingThread sees the round as over.
Phase ==
    IF pc = "normal" THEN "testing"
    ELSE IF pc \in InBody THEN "polling"
    ELSE pc

PT == INSTANCE PollingThread WITH poller <- Phase

\* The loop keeps the promises SensorNotifier relies on: it changes the
\* sensor only through its own sensorEnabled, never touches it again once it
\* has left, comes back to the test of mActive after every round whatever
\* the driver and the service answer, and ends.
ImplementsPolling == PT!PollSpec

-----------------------------------------------------------------------------
(* Properties *)

InLoop == pc \in InBody \cup {"testing"}

\* Whatever length the driver claims in the header that is read, the narrowing
\* to int (SensorNotifierUtils.cpp:67) never makes an accepted event shorter
\* than its header says.  An event that claims no data at all is accepted too.
NeverShort ==
    pc = "reading" =>
        \A length \in 0 .. UintSpan - 1 :
            Accepts(length) => HeaderSize + dataLength(length) = length

\* A poll() that keeps failing ends the thread (AodNotifier.cpp:133): it
\* cannot go round for ever on failures alone.
FailedPollStops == <>[](lastPoll = "FAILED") => []<>~InLoop

\* With a driver and a service that do what they are asked, the sensor
\* follows the display: it is on after the last report of a low-power state
\* and off after the last report of any other, however the reports interleave
\* with the loop, unless the notifier is stopped.
FollowsDisplay ==
    faults = {} =>
        /\ (reported = "LP") ~> (reported # "LP" \/ serviceEnabled \/ ~mActive)
        /\ (reported \in {"ON", "OFF"}) ~>
              (reported \notin {"ON", "OFF"} \/ ~serviceEnabled)

\* A display that turns on has its brightness given back, whether or not the
\* sensor was on by then: after the report a doze brightness does not stay
\* throughout.  (A sensor event that arrives still later sets one again.)
BrightnessRestored ==
    faults = {} =>
        (reported = "ON" /\ events # <<>>) ~>
            (reported # "ON" \/ brightness = "normal" \/ ~mActive)

\* The thread gives up by itself only when poll() fails again after a round
\* that went wrong, or when the file cannot be reopened.  POLLERR alone never
\* ends it, for all that the log says "Too many poll errors, stopping
\* AodNotifier" (AodNotifier.cpp:151): with a limit of two or more its count,
\* cleared at line 141, does not get there.
StopsForCause ==
    [][ (MaxErrors > 1 /\ pc \in InBody /\ pc' = "leaving") =>
            \/ pc = "reading" /\ stale'
            \/ lastPoll' = "FAILED" /\ lastPoll \in {"FAILED", "EINTR", "POLLERR"} ]_vars

\* The display file is reopened on a "possible device issue", and only a
\* failure to do so ends the loop: the notifier hears the display through the
\* new file, so a display that goes in and out of low power has the sensor on
\* again.
ReopenHeals ==
    ([]<>(display = "LP") /\ []<>(display = "ON"))
        => ((stale /\ InLoop) ~> (~InLoop \/ ~mActive \/ serviceEnabled))
=============================================================================
