--------------------------- MODULE SensorNotifier ---------------------------
(***************************************************************************)
(* One SensorNotifier object (sensors/SensorNotifier.cpp) and every thread *)
(* that calls it: the main thread, the health monitor's thread and the     *)
(* SIGUSR1 handler call activate() and deactivate(); a recovery destroys   *)
(* the object and constructs its successor.  mThreadMutex serialises       *)
(* activate() and deactivate(); the polling thread never takes it.         *)
(*                                                                         *)
(* Statistics and the log are left out: nothing but the log reads them.    *)
(***************************************************************************)
EXTENDS PollingThread

CONSTANTS
    Callers,   \* threads that call the object
    Nobody     \* owner of a free mutex

ASSUME NobodyAssumption == Nobody \notin Callers

VARIABLES
    object,          \* "absent" (not constructed, or deleted) or "live"
    mQueue,          \* sp<IEventQueue>: TRUE when it is not nullptr
    mSensorHandle,   \* "none" is -1
    mPollingThread,  \* std::thread: "empty" or "joinable"
    mThreadMutex,    \* owner of the mutex
    pc,              \* where each caller is
    ret,             \* what a caller in deactivate() does after it
    lastDisable      \* disableResult of the last deactivate() that got that far

ownVars == <<object, mQueue, mSensorHandle, mPollingThread, mThreadMutex,
             pc, ret, lastDisable>>
vars == <<pollVars, ownVars>>

Reply == {"OK", "ERROR", "LOST"}    \* LOST: the transaction failed
Result == {"OK", "ERROR"}

\* "idle": not in the object.  "activate", "deactivate": waiting for
\* mThreadMutex.  "spawn", "join", "disable": inside it.  "free": the end of
\* the destructor, after the last deactivate().
CallerState == {"idle", "activate", "spawn", "deactivate", "join", "disable", "free"}
Locked == {"spawn", "join", "disable"}

\* After deactivate(): back to the caller, into the base class destructor,
\* or on to the members' destructors.
Return == {"idle", "base", "free"}

TypeOK ==
    /\ PollTypeOK
    /\ object \in {"absent", "live"}
    /\ mQueue \in BOOLEAN
    /\ mSensorHandle \in {"none", "found"}
    /\ mPollingThread \in {"empty", "joinable"}
    /\ mThreadMutex \in Callers \cup {Nobody}
    /\ pc \in [Callers -> CallerState]
    /\ ret \in [Callers -> Return]
    /\ lastDisable \in Reply

Destroying(c) == pc[c] = "free" \/ (pc[c] # "idle" /\ ret[c] # "idle")

-----------------------------------------------------------------------------
\* SensorNotifier::initializeSensorQueue(), called by the derived class's
\* constructor, which ignores its result: the service answers getSensorList(),
\* lists the sensor or not, and answers createEventQueue().
InitializeSensorQueue ==
    \E list, create \in Result, listed \in BOOLEAN :
        LET haveSensor == list = "OK" /\ listed IN
        /\ mSensorHandle' = IF haveSensor THEN "found" ELSE "none"
        /\ mQueue' = (haveSensor /\ create = "OK")

\* make_unique<...>(gSensorManager): nobody else sees the object yet.
Construct ==
    /\ fate = "running"
    /\ object = "absent"
    /\ object' = "live"
    /\ InitializeSensorQueue
    /\ lastDisable' = "OK"
    /\ UNCHANGED <<pollVars, mPollingThread, mThreadMutex, pc, ret>>

\* One of the two calls of initializeSensorQueue() is lost.  Its Return<void>
\* is dropped without a test, and its destructor aborts the process.
ConstructAborts ==
    /\ fate = "running"
    /\ object = "absent"
    /\ fate' = "aborted"
    /\ UNCHANGED <<mActive, poller, sensorEnabled, serviceEnabled, ownVars>>

\* A caller enters activate() or deactivate().  No call starts once the
\* object's owner has begun to delete it; main.cpp has to see to that.
Call(c, f) ==
    /\ fate = "running"
    /\ object = "live"
    /\ pc[c] = "idle"
    /\ \A d \in Callers : ~Destroying(d)
    /\ pc' = [pc EXCEPT ![c] = f]
    /\ ret' = [ret EXCEPT ![c] = "idle"]
    /\ UNCHANGED <<pollVars, object, mQueue, mSensorHandle,
                   mPollingThread, mThreadMutex, lastDisable>>

\* Mutant: the destructors free the members without deactivate().
BeginDestroyAtOnce(c) ==
    /\ fate = "running"
    /\ object = "live"
    /\ \A d \in Callers : pc[d] = "idle"
    /\ pc' = [pc EXCEPT ![c] = "free"]
    /\ UNCHANGED <<pollVars, object, mQueue, mSensorHandle,
                   mPollingThread, mThreadMutex, ret, lastDisable>>

\* ~AodNotifier() and ~NonUiNotifier() call deactivate() before the base
\* class destructor calls it again.
BeginDestroy(c) ==
    /\ fate = "running"
    /\ object = "live"
    /\ \A d \in Callers : pc[d] = "idle"
    /\ pc' = [pc EXCEPT ![c] = "deactivate"]
    /\ ret' = [ret EXCEPT ![c] = "base"]
    /\ UNCHANGED <<pollVars, object, mQueue, mSensorHandle,
                   mPollingThread, mThreadMutex, lastDisable>>

-----------------------------------------------------------------------------
(* activate() *)

\* Both early returns, with the mutex taken and given back.
ActivateRefused(c) ==
    /\ fate = "running"
    /\ pc[c] = "activate"
    /\ mThreadMutex = Nobody
    /\ mActive \/ ~mQueue
    /\ pc' = [pc EXCEPT ![c] = "idle"]
    /\ UNCHANGED <<pollVars, object, mQueue, mSensorHandle,
                   mPollingThread, mThreadMutex, ret, lastDisable>>

ActivateAccepted(c) ==
    /\ fate = "running"
    /\ pc[c] = "activate"
    /\ mThreadMutex = Nobody
    /\ ~mActive /\ mQueue
    /\ mThreadMutex' = c
    /\ mActive' = TRUE
    /\ pc' = [pc EXCEPT ![c] = "spawn"]
    /\ UNCHANGED <<poller, sensorEnabled, serviceEnabled, fate, object, mQueue,
                   mSensorHandle, mPollingThread, ret, lastDisable>>

\* mPollingThread = std::thread(...): assigning over a joinable thread is
\* std::terminate().
Spawn(c) ==
    /\ fate = "running"
    /\ pc[c] = "spawn"
    /\ IF mPollingThread = "joinable"
       THEN /\ fate' = "terminated"
            /\ UNCHANGED <<poller, sensorEnabled, mPollingThread, mThreadMutex, pc>>
       ELSE /\ StartPolling
            /\ mPollingThread' = "joinable"
            /\ mThreadMutex' = Nobody
            /\ pc' = [pc EXCEPT ![c] = "idle"]
            /\ UNCHANGED fate
    /\ UNCHANGED <<mActive, serviceEnabled, object, mQueue, mSensorHandle,
                   ret, lastDisable>>

\* The constructor of std::thread throws when no thread can be created, and
\* nothing catches it; the code's check of joinable() is never reached.
SpawnFails(c) ==
    /\ fate = "running"
    /\ pc[c] = "spawn"
    /\ fate' = "aborted"
    /\ UNCHANGED <<mActive, poller, sensorEnabled, serviceEnabled, ownVars>>

-----------------------------------------------------------------------------
(* deactivate() *)

\* What the caller does once deactivate() has returned.
ReturnFrom(c) ==
    /\ pc' = [pc EXCEPT ![c] = CASE ret[c] = "idle" -> "idle"
                                 [] ret[c] = "base" -> "deactivate"
                                 [] ret[c] = "free" -> "free"]
    /\ ret' = [ret EXCEPT ![c] = IF @ = "base" THEN "free" ELSE "idle"]

DeactivateInactive(c) ==
    /\ fate = "running"
    /\ pc[c] = "deactivate"
    /\ mThreadMutex = Nobody
    /\ ~mActive
    /\ ReturnFrom(c)
    /\ UNCHANGED <<pollVars, object, mQueue, mSensorHandle,
                   mPollingThread, mThreadMutex, lastDisable>>

\* Mutant: the scope of the lock ends before the join.
DeactivateUnlocked(c) ==
    /\ fate = "running"
    /\ pc[c] = "deactivate"
    /\ mThreadMutex = Nobody
    /\ mActive
    /\ mActive' = FALSE
    /\ pc' = [pc EXCEPT ![c] = "join"]
    /\ UNCHANGED <<poller, sensorEnabled, serviceEnabled, fate, object, mQueue,
                   mSensorHandle, mPollingThread, mThreadMutex, ret, lastDisable>>

\* Mutant: mActive is cleared only after the join, that is never.
DeactivateLate(c) ==
    /\ fate = "running"
    /\ pc[c] = "deactivate"
    /\ mThreadMutex = Nobody
    /\ mActive
    /\ mThreadMutex' = c
    /\ pc' = [pc EXCEPT ![c] = "join"]
    /\ UNCHANGED <<pollVars, object, mQueue, mSensorHandle,
                   mPollingThread, ret, lastDisable>>

\* Mutant: disableSensor() is called before the polling thread has stopped.
DeactivateDisables(c) ==
    /\ fate = "running"
    /\ pc[c] = "deactivate"
    /\ mThreadMutex = Nobody
    /\ mActive
    /\ mThreadMutex' = c
    /\ mActive' = FALSE
    /\ serviceEnabled' = FALSE
    /\ pc' = [pc EXCEPT ![c] = "join"]
    /\ UNCHANGED <<poller, sensorEnabled, fate, object, mQueue,
                   mSensorHandle, mPollingThread, ret, lastDisable>>

DeactivateBegin(c) ==
    /\ fate = "running"
    /\ pc[c] = "deactivate"
    /\ mThreadMutex = Nobody
    /\ mActive
    /\ mThreadMutex' = c
    /\ mActive' = FALSE
    /\ pc' = [pc EXCEPT ![c] = "join"]
    /\ UNCHANGED <<poller, sensorEnabled, serviceEnabled, fate, object, mQueue,
                   mSensorHandle, mPollingThread, ret, lastDisable>>

\* Mutant: mPollingThread.detach() instead of join().
JoinDetaches(c) ==
    /\ fate = "running"
    /\ pc[c] = "join"
    /\ mPollingThread' = "empty"
    /\ pc' = [pc EXCEPT ![c] = "disable"]
    /\ UNCHANGED <<pollVars, object, mQueue, mSensorHandle,
                   mThreadMutex, ret, lastDisable>>

\* Mutant: the thread is not joined at all.
JoinForgotten(c) ==
    /\ fate = "running"
    /\ pc[c] = "join"
    /\ pc' = [pc EXCEPT ![c] = "disable"]
    /\ UNCHANGED <<pollVars, object, mQueue, mSensorHandle,
                   mPollingThread, mThreadMutex, ret, lastDisable>>

\* Mutant: the handle of the thread is moved out of the object.
JoinMoved(c) ==
    /\ fate = "running"
    /\ pc[c] = "join"
    /\ JoinPolling
    /\ mPollingThread' = "moved"
    /\ pc' = [pc EXCEPT ![c] = "disable"]
    /\ UNCHANGED <<mActive, sensorEnabled, serviceEnabled, fate, object, mQueue,
                   mSensorHandle, mThreadMutex, ret, lastDisable>>

\* if (mPollingThread.joinable()) mPollingThread.join();
Join(c) ==
    /\ fate = "running"
    /\ pc[c] = "join"
    /\ IF mPollingThread = "joinable"
       THEN JoinPolling /\ mPollingThread' = "empty"
       ELSE UNCHANGED <<poller, mPollingThread>>
    /\ pc' = [pc EXCEPT ![c] = "disable"]
    /\ UNCHANGED <<mActive, sensorEnabled, serviceEnabled, fate, object, mQueue,
                   mSensorHandle, mThreadMutex, ret, lastDisable>>

\* disableSensor() once more, whatever the polling thread did; a refusal or a
\* lost transaction is logged and leaves the service as it is.
DisableAndUnlock(c) ==
    /\ fate = "running"
    /\ pc[c] = "disable"
    /\ IF mQueue /\ mSensorHandle # "none"
       THEN \E r \in Reply :
              /\ lastDisable' = r
              /\ serviceEnabled' = (serviceEnabled /\ r # "OK")
       ELSE UNCHANGED <<lastDisable, serviceEnabled>>
    /\ mThreadMutex' = Nobody
    /\ ReturnFrom(c)
    /\ UNCHANGED <<mActive, poller, sensorEnabled, fate, object, mQueue,
                   mSensorHandle, mPollingThread>>

\* The rest of ~SensorNotifier(): mQueue = nullptr frees the event queue at
\* the service, and ~thread() of a joinable thread is std::terminate().
Free(c) ==
    /\ fate = "running"
    /\ pc[c] = "free"
    /\ object' = "absent"
    /\ mQueue' = FALSE
    /\ serviceEnabled' = FALSE
    /\ mSensorHandle' = "none"
    /\ fate' = IF mPollingThread = "joinable" THEN "terminated" ELSE fate
    /\ pc' = [pc EXCEPT ![c] = "idle"]
    /\ UNCHANGED <<mActive, poller, sensorEnabled, mPollingThread,
                   mThreadMutex, ret, lastDisable>>

-----------------------------------------------------------------------------
\* The process died and init starts it again.
Restart ==
    /\ InitRestarts
    /\ object' = "absent"
    /\ mQueue' = FALSE
    /\ mSensorHandle' = "none"
    /\ mPollingThread' = "empty"
    /\ mThreadMutex' = Nobody
    /\ pc' = [c \in Callers |-> "idle"]
    /\ ret' = [c \in Callers |-> "idle"]
    /\ lastDisable' = "OK"

Init ==
    /\ PollInit
    /\ object = "absent"
    /\ mQueue = FALSE
    /\ mSensorHandle = "none"
    /\ mPollingThread = "empty"
    /\ mThreadMutex = Nobody
    /\ pc = [c \in Callers |-> "idle"]
    /\ ret = [c \in Callers |-> "idle"]
    /\ lastDisable = "OK"

\* The polling thread uses mQueue and the object's members through `this`.
Polling == PollStep /\ UNCHANGED ownVars

InsideLock(c) == Spawn(c) \/ SpawnFails(c) \/ Join(c) \/ DisableAndUnlock(c)

CallerStep(c) ==
    \/ Call(c, "activate")
    \/ Call(c, "deactivate")
    \/ BeginDestroy(c)
    \/ ActivateRefused(c)
    \/ ActivateAccepted(c)
    \/ DeactivateInactive(c)
    \/ DeactivateBegin(c)
    \/ InsideLock(c)
    \/ Free(c)

Next ==
    \/ Construct
    \/ ConstructAborts
    \/ \E c \in Callers : CallerStep(c)
    \/ Polling
    \/ Restart

\* Threads that can run do run, and init restarts the service (its .rc file
\* does not say oneshot); nobody is obliged to call, and a std::mutex promises
\* no order among its waiters.
Spec ==
    /\ Init /\ [][Next]_vars
    /\ WF_vars(Polling)
    /\ WF_vars(Restart)
    /\ \A c \in Callers : WF_vars(InsideLock(c))

-----------------------------------------------------------------------------
(* Properties *)

\* No call sequence assigns over or destroys a std::thread that is still
\* joinable: activate() runs only when deactivate() has joined the last one.
NeverTerminated == fate # "terminated"

\* Outside mThreadMutex an inactive notifier has no polling thread, and its
\* sensor is off unless the service refused the last disableSensor().
InactiveIsQuiet ==
    (fate = "running" /\ object = "live" /\ mThreadMutex = Nobody /\ ~mActive)
        => /\ poller = "none"
           /\ serviceEnabled => lastDisable # "OK"

\* While the polling thread believes the sensor is on, it is on: deactivate()
\* switches it off only after the join, so nobody switches it off behind the
\* thread's back and pollingFunction() never skips a needed enableSensor().
BeliefIsTrue ==
    (poller \in {"testing", "polling", "leaving"} /\ sensorEnabled) => serviceEnabled

\* A deleted notifier leaves neither a thread that would use its members nor
\* an enabled sensor behind.
GoneIsQuiet == object = "absent" => (poller = "none" /\ ~serviceEnabled)

\* Whoever holds mThreadMutex gives it back: the join in deactivate() ends
\* because mActive was cleared before it and poll() times out.
LockReleased == \A c \in Callers : pc[c] \in Locked ~> pc[c] \notin Locked

\* SensorNotifier implements NotifierContract.
Phase ==
    IF mPollingThread = "joinable"
    THEN IF mActive THEN "on" ELSE "stopping"
    ELSE IF \E c \in Callers : pc[c] = "disable" THEN "stopping" ELSE "off"

Contract == INSTANCE NotifierContract WITH phase <- Phase, streaming <- serviceEnabled

ImplementsContract == Contract!ContractSpec
=============================================================================
