------------------------------- MODULE Service -------------------------------
(***************************************************************************)
(* The sensor-notifier process (sensors/main.cpp): the main thread, the    *)
(* health monitor's thread with main.cpp's callbacks in it, the SIGTERM    *)
(* and SIGUSR1 handlers, and the two notifiers they all call.              *)
(*                                                                         *)
(* A thread of execution is a frame: the main thread, the monitor's        *)
(* thread, or the SIGUSR1 handler on top of one of them, which does not    *)
(* run until the handler has returned.  todo[f] lists the calls frame f    *)
(* still has to make, the one it is in first.                              *)
(*                                                                         *)
(* A notifier is reduced to what NotifierContract and the lock discipline  *)
(* of SensorNotifier say of it; HealthMonitor is extended unchanged.  The  *)
(* automatic recovery puts a second object in the place of a notifier, so  *)
(* a component has several objects, and a call that has read gAodNotifier  *)
(* or gNonUiNotifier stays with the object it found there.                 *)
(***************************************************************************)
EXTENDS HealthMonitor

CONSTANTS
    AutoRecovery,   \* Settings::enableAutoRecovery
    MaxSignals,     \* bound on the SIGUSR1 signals that are sent
    MaxObjects      \* bound on the objects made for one notifier

\* Components are the notifiers the configuration enables.
ASSUME ServiceAssumption ==
    /\ Components \subseteq {"AodNotifier", "NonUiNotifier"}
    /\ Users = {"main", "onMain", "onMonitor"}
    /\ Monitor = "monitor"
    /\ AutoRecovery \in BOOLEAN
    /\ MaxSignals \in Nat
    /\ MaxObjects \in Nat

VARIABLES
    gRunning,
    phase,           \* where main() is
    todo,            \* calls each frame has still to make
    slept,           \* sleeping threads whose time is up
    signals,         \* SIGUSR1 signals sent so far
    revived,         \* history: objects activated since main deactivated them to exit
    current,         \* objects made for a notifier; 0: gAodNotifier or gNonUiNotifier is nullptr
    freed,           \* objects whose memory has been given back
    queue,           \* an object's mQueue is not nullptr
    active,          \* its mActive
    poller,          \* its polling thread: "none", "running" or "ended"
    threadMutex      \* owner of its mThreadMutex

notifierVars == <<current, freed, queue, active, poller, threadMutex>>
processVars == <<gRunning, phase, todo, slept, signals, revived>>
vars == <<healthVars, processVars, notifierVars>>

\* The first, second, ... object made for a notifier, and the one its pointer
\* points to.
Objects == Components \X (1 .. MaxObjects)
Published(c) == <<c, current[c]>>

Handlers == {"onMain", "onMonitor"}
Frames == {"main", "monitor"} \cup Handlers
Base(f) == CASE f = "onMain" -> "main" [] f = "onMonitor" -> "monitor" [] OTHER -> f
HandlerOn(t) == IF t = "main" THEN "onMain" ELSE "onMonitor"

Call(op, c) == [op |-> op, on |-> c]

\* main.cpp always treats the AodNotifier before the NonUiNotifier.
InOrder(calls) ==
    (IF "AodNotifier" \in Components THEN calls["AodNotifier"] ELSE <<>>) \o
    (IF "NonUiNotifier" \in Components THEN calls["NonUiNotifier"] ELSE <<>>)

Each(op) == InOrder([c \in Components |-> <<Call(op, c)>>])

\* Calls made through the pointer, and calls on the object found there.
PointerOps == {"construct", "deactivate", "pause", "activate", "beat", "report",
               "unlock", "check", "recover", "result"}
ObjectOps == {"stop", "join", "start", "spawn", "free"}
Phases == {"setup", "starting", "asking", "loop", "sleeping", "shutdown", "joining",
           "failing", "exited", "failed", "crashed"}
Calls == [op : PointerOps, on : Components] \cup [op : ObjectOps, on : Objects]

ServiceTypeOK ==
    /\ HealthTypeOK
    /\ gRunning \in BOOLEAN
    /\ phase \in Phases
    /\ todo \in [Frames -> Seq(Calls)]
    /\ slept \subseteq {"main", "monitor"}
    /\ signals \in 0 .. MaxSignals
    /\ revived \subseteq Objects
    /\ current \in [Components -> 0 .. MaxObjects]
    /\ freed \subseteq Objects
    /\ queue \in [Objects -> BOOLEAN]
    /\ active \in [Objects -> BOOLEAN]
    /\ poller \in [Objects -> {"none", "running", "ended"}]
    /\ threadMutex \in [Objects -> Frames \cup {Nobody}]

Ended == phase \in {"exited", "failed", "crashed"}

\* Frame f can run: no handler has been put on top of it.
Runs(f) == ~Ended /\ (f \in Handlers \/ todo[HandlerOn(f)] = <<>>)

Next1(f) == Head(todo[f])
At(f, op, x) == Runs(f) /\ todo[f] # <<>> /\ Next1(f).op = op /\ Next1(f).on = x
On(f, op, o) == At(f, op, o) /\ o \notin freed

\* The call frame f is in gives way to the calls s.
Becomes(f, s) == todo' = [todo EXCEPT ![f] = s \o Tail(@)]
Done(f) == Becomes(f, <<>>)

-----------------------------------------------------------------------------
(* The calls to a notifier, made by frame f *)

\* gX = make_unique<...>(gSensorManager): the queue may not come about, which
\* the constructor does not report.  The new object is published before the
\* older one is destroyed; the derived class's destructor and the base class's
\* both deactivate it.
Construct(f, c) ==
    /\ At(f, "construct", c)
    /\ current[c] < MaxObjects
    /\ current' = [current EXCEPT ![c] = @ + 1]
    /\ \E ok \in BOOLEAN : queue' = [queue EXCEPT ![<<c, current[c] + 1>>] = ok]
    /\ LET old == Published(c) IN
       Becomes(f, IF current[c] = 0
                  THEN <<>>
                  ELSE <<Call("stop", old), Call("stop", old), Call("free", old)>>)
    /\ UNCHANGED <<healthVars, gRunning, phase, slept, signals, revived,
                   freed, active, poller, threadMutex>>

\* gX->deactivate() and gX->activate(): whatever happens to gX now, the call
\* goes to the object it points to here.
LoadPointer(f, c) ==
    /\ \/ At(f, "deactivate", c) /\ Becomes(f, IF current[c] = 0 THEN <<>>
                                               ELSE <<Call("stop", Published(c))>>)
       \/ At(f, "activate", c) /\ Becomes(f, IF current[c] = 0 THEN <<>>
                                             ELSE <<Call("start", Published(c))>>)
    /\ UNCHANGED <<healthVars, gRunning, phase, slept, signals, revived, notifierVars>>

Deactivate(f, o) ==
    /\ On(f, "stop", o)
    /\ threadMutex[o] = Nobody
    /\ active' = [active EXCEPT ![o] = FALSE]
    /\ IF active[o]
       THEN threadMutex' = [threadMutex EXCEPT ![o] = f] /\ Becomes(f, <<Call("join", o)>>)
       ELSE UNCHANGED threadMutex /\ Done(f)
    /\ revived' = IF f = "main" THEN revived \ {o} ELSE revived
    /\ UNCHANGED <<healthVars, gRunning, phase, slept, signals, current, freed, queue, poller>>

\* Mutant: mThreadMutex stays locked.
JoinKeepsLock(f, o) ==
    /\ On(f, "join", o)
    /\ poller[o] = "ended"
    /\ poller' = [poller EXCEPT ![o] = "none"]
    /\ Done(f)
    /\ UNCHANGED <<healthVars, gRunning, phase, slept, signals, revived,
                   current, freed, queue, active, threadMutex>>

\* Mutant: the polling thread is not waited for.
JoinSkipped(f, o) ==
    /\ On(f, "join", o)
    /\ threadMutex' = [threadMutex EXCEPT ![o] = Nobody]
    /\ Done(f)
    /\ UNCHANGED <<healthVars, gRunning, phase, slept, signals, revived,
                   current, freed, queue, active, poller>>

Join(f, o) ==
    /\ On(f, "join", o)
    /\ poller[o] = "ended"
    /\ poller' = [poller EXCEPT ![o] = "none"]
    /\ threadMutex' = [threadMutex EXCEPT ![o] = Nobody]
    /\ Done(f)
    /\ UNCHANGED <<healthVars, gRunning, phase, slept, signals, revived,
                   current, freed, queue, active>>

Activate(f, o) ==
    /\ On(f, "start", o)
    /\ threadMutex[o] = Nobody
    /\ IF ~active[o] /\ queue[o]
       THEN /\ active' = [active EXCEPT ![o] = TRUE]
            /\ threadMutex' = [threadMutex EXCEPT ![o] = f]
            /\ Becomes(f, <<Call("spawn", o)>>)
            /\ revived' = IF phase \in {"shutdown", "joining"} THEN revived \cup {o} ELSE revived
       ELSE UNCHANGED <<active, threadMutex, revived>> /\ Done(f)
    /\ UNCHANGED <<healthVars, gRunning, phase, slept, signals, current, freed, queue, poller>>

Spawn(f, o) ==
    /\ On(f, "spawn", o)
    /\ poller' = [poller EXCEPT ![o] = "running"]
    /\ threadMutex' = [threadMutex EXCEPT ![o] = Nobody]
    /\ Done(f)
    /\ UNCHANGED <<healthVars, gRunning, phase, slept, signals, revived,
                   current, freed, queue, active>>

\* The end of ~SensorNotifier(): ~thread() of a polling thread that somebody
\* has started since the last deactivate() is std::terminate().
Free(f, o) ==
    /\ On(f, "free", o)
    /\ IF poller[o] = "none"
       THEN freed' = freed \cup {o} /\ Done(f) /\ UNCHANGED phase
       ELSE phase' = "crashed" /\ UNCHANGED <<freed, todo>>
    /\ UNCHANGED <<healthVars, gRunning, slept, signals, revived,
                   current, queue, active, poller, threadMutex>>

\* A frame that waited for the mutex of an object, or was inside it, finds it
\* destroyed: the process is aborted, or the frame stays here for good.
UseFreed(f, o) ==
    /\ \E op \in ObjectOps : At(f, op, o)
    /\ o \in freed
    /\ phase' = "crashed"
    /\ UNCHANGED <<healthVars, gRunning, todo, slept, signals, revived, notifierVars>>

\* sleep_for(recoveryRetryDelayMs)
Pause(f, c) ==
    /\ At(f, "pause", c)
    /\ Done(f)
    /\ UNCHANGED <<healthVars, gRunning, phase, slept, signals, revived, notifierVars>>

\* HealthMonitor::updateHeartbeat(), in two steps: a signal may come between.
Beat(f, c) ==
    /\ At(f, "beat", c)
    /\ UpdateHeartbeat(f, c)
    /\ Becomes(f, <<Call("unlock", c)>>)
    /\ UNCHANGED <<gRunning, phase, slept, signals, revived, notifierVars>>

\* The three getters of the health report; they are one call per notifier here.
Report(f, c) ==
    /\ At(f, "report", c)
    /\ ReadHealth(f)
    /\ Becomes(f, <<Call("unlock", c)>>)
    /\ UNCHANGED <<gRunning, phase, slept, signals, revived, notifierVars>>

Unlock(f, c) ==
    /\ At(f, "unlock", c)
    /\ UnlockHeartbeat(f)
    /\ Done(f)
    /\ UNCHANGED <<gRunning, phase, slept, signals, revived, notifierVars>>

\* if (gX && gX->isActive()) healthMonitor.updateHeartbeat(...)
Check(f, c) ==
    /\ At(f, "check", c)
    /\ Becomes(f, IF current[c] > 0 /\ active[Published(c)] THEN <<Call("beat", c)>> ELSE <<>>)
    /\ UNCHANGED <<healthVars, gRunning, phase, slept, signals, revived, notifierVars>>

\* One notifier's part of recoverAllComponents()
Recover(f, c) ==
    /\ At(f, "recover", c)
    /\ Becomes(f, IF current[c] > 0
                  THEN <<Call("deactivate", c), Call("pause", c), Call("activate", c), Call("beat", c)>>
                  ELSE <<>>)
    /\ UNCHANGED <<healthVars, gRunning, phase, slept, signals, revived, notifierVars>>

\* The calls that take as long as the sensor service or a delay does, and those
\* that take no time once they can be made.
SlowCall(f) == \E c \in Components : Construct(f, c) \/ Pause(f, c)

PromptCall(f) ==
    \/ \E c \in Components :
          \/ LoadPointer(f, c)
          \/ Beat(f, c) \/ Report(f, c) \/ Unlock(f, c)
          \/ Check(f, c) \/ Recover(f, c)
    \/ \E o \in Objects :
          \/ Deactivate(f, o) \/ Join(f, o)
          \/ Activate(f, o) \/ Spawn(f, o)
          \/ Free(f, o)

-----------------------------------------------------------------------------
(* main() *)

MainAt(p) == Runs("main") /\ phase = p /\ todo["main"] = <<>>

\* The device files, the handlers, the registrations and the monitor.
Setup ==
    /\ MainAt("setup")
    /\ \/ StartMonitoring /\ phase' = "starting"
       \/ phase' = "failed" /\ UNCHANGED healthVars
    /\ UNCHANGED <<gRunning, todo, slept, signals, revived, notifierVars>>

\* while (retryCount < maxConsecutiveErrors && gRunning); the count is left
\* open, the loop may give up after any number of attempts.
TestRetry ==
    /\ MainAt("starting")
    /\ \/ gRunning /\ phase' = "asking" /\ UNCHANGED healthVars
       \/ phase' = "failing" /\ StopMonitoring
    /\ UNCHANGED <<gRunning, todo, slept, signals, revived, notifierVars>>

\* Mutant: both notifiers are created, whatever the configuration enables.
GetServiceForBoth ==
    /\ MainAt("asking")
    /\ phase' = "loop"
    /\ todo' = [todo EXCEPT !["main"] = <<Call("construct", "AodNotifier"), Call("construct", "NonUiNotifier")>>]
    /\ UNCHANGED <<healthVars, gRunning, slept, signals, revived, notifierVars>>

\* ISensorManager::getService() answers, and the notifiers are created.
GetService ==
    /\ MainAt("asking")
    /\ \/ phase' = "starting" /\ UNCHANGED todo
       \/ /\ phase' = "loop"
          /\ todo' = [todo EXCEPT !["main"] = InOrder([c \in Components |->
                 <<Call("construct", c), Call("activate", c), Call("beat", c)>>])]
    /\ UNCHANGED <<healthVars, gRunning, slept, signals, revived, notifierVars>>

\* Mutant: the shutdown forgets the AodNotifier.
TestRunningForgets ==
    /\ MainAt("loop")
    /\ IF gRunning
       THEN phase' = "sleeping" /\ slept' = slept \ {"main"} /\ UNCHANGED todo
       ELSE /\ phase' = "shutdown"
            /\ todo' = [todo EXCEPT !["main"] = Tail(Each("deactivate"))]
            /\ UNCHANGED slept
    /\ UNCHANGED <<healthVars, gRunning, signals, revived, notifierVars>>

TestRunning ==
    /\ MainAt("loop")
    /\ IF gRunning
       THEN phase' = "sleeping" /\ slept' = slept \ {"main"} /\ UNCHANGED todo
       ELSE /\ phase' = "shutdown"
            /\ todo' = [todo EXCEPT !["main"] = Each("deactivate")]
            /\ UNCHANGED slept
    /\ UNCHANGED <<healthVars, gRunning, signals, revived, notifierVars>>

\* A health report is made now and then.
Awake ==
    /\ MainAt("sleeping")
    /\ "main" \in slept
    /\ phase' = "loop"
    /\ \E report \in {<<>>, Each("report")} :
           todo' = [todo EXCEPT !["main"] = Each("check") \o report]
    /\ UNCHANGED <<healthVars, gRunning, slept, signals, revived, notifierVars>>

\* Mutant: stopMonitoring() waits for the loop without clearing mMonitoring.
StopWaits ==
    /\ MainAt("shutdown")
    /\ phase' = "joining"
    /\ UNCHANGED <<healthVars, gRunning, todo, slept, signals, revived, notifierVars>>

Stop ==
    /\ MainAt("shutdown")
    /\ StopMonitoring
    /\ phase' = "joining"
    /\ UNCHANGED <<gRunning, todo, slept, signals, revived, notifierVars>>

\* mMonitorThread.join() returns and main() ends.
Exit ==
    /\ MainAt("joining") \/ MainAt("failing")
    /\ monitor = "stopped"
    /\ phase' = IF phase = "joining" THEN "exited" ELSE "failed"
    /\ UNCHANGED <<healthVars, gRunning, todo, slept, signals, revived, notifierVars>>

PromptMain == Setup \/ TestRetry \/ TestRunning \/ Awake \/ Stop \/ Exit

-----------------------------------------------------------------------------
(* The monitor's thread: HealthMonitor's steps with main.cpp's callbacks *)

MonitorRuns == Runs("monitor") /\ todo["monitor"] = <<>>

Test == MonitorRuns /\ TestMonitoring /\ slept' = slept \ {"monitor"} /\ UNCHANGED todo

WakeUp == MonitorRuns /\ "monitor" \in slept /\ Wake /\ UNCHANGED <<todo, slept>>

PlainStep ==
    /\ MonitorRuns
    /\ LockForScan \/ ReportReturns \/ EndScan \/ Consider \/ EndPass
    /\ UNCHANGED <<todo, slept>>

\* onComponentHealthChange(c, false) is entered with mMutex held, and its last
\* call is updateHeartbeat().
ScanOne(c) ==
    /\ MonitorRuns
    /\ Scan(c)
    /\ IF isAlive[c] /\ AutoRecovery /\ current[c] > 0
       THEN todo' = [todo EXCEPT !["monitor"] =
                <<Call("deactivate", c), Call("pause", c), Call("construct", c),
                  Call("activate", c), Call("beat", c)>>]
       ELSE UNCHANGED todo
    /\ UNCHANGED slept

\* Mutant: onRecoveryRequested() sends a heartbeat, as the other recoveries do.
TriggerBeats ==
    /\ MonitorRuns
    /\ TriggerRecovery
    /\ LET c == Head(unhealthy) IN
       IF CanRestart(c) /\ current[c] > 0
       THEN todo' = [todo EXCEPT !["monitor"] =
                <<Call("deactivate", c), Call("pause", c), Call("activate", c),
                  Call("beat", c), Call("result", c)>>]
       ELSE UNCHANGED todo
    /\ UNCHANGED slept

\* onRecoveryRequested(): true says that the notifier exists, no more.
Trigger ==
    /\ MonitorRuns
    /\ TriggerRecovery
    /\ LET c == Head(unhealthy) IN
       IF CanRestart(c) /\ current[c] > 0
       THEN todo' = [todo EXCEPT !["monitor"] =
                <<Call("deactivate", c), Call("pause", c), Call("activate", c),
                  Call("result", c)>>]
       ELSE UNCHANGED todo
    /\ UNCHANGED slept

Restarted ==
    /\ \/ MonitorRuns /\ RestartReturns(FALSE) /\ UNCHANGED todo
       \/ \E c \in Components : At("monitor", "result", c) /\ RestartReturns(TRUE) /\ Done("monitor")
    /\ UNCHANGED slept

PromptMonitor ==
    /\ Test \/ PlainStep \/ (\E c \in Components : ScanOne(c)) \/ Trigger \/ Restarted
    /\ UNCHANGED <<gRunning, phase, signals, revived, notifierVars>>

SlowMonitor == WakeUp /\ UNCHANGED <<gRunning, phase, signals, revived, notifierVars>>

-----------------------------------------------------------------------------
(* Signals, polling threads and time *)

\* SIGTERM or SIGINT
Terminate ==
    /\ phase # "setup" /\ ~Ended
    /\ gRunning
    /\ gRunning' = FALSE
    /\ UNCHANGED <<healthVars, phase, todo, slept, signals, revived, notifierVars>>

\* SIGUSR1 interrupts any thread that is not already in the handler, wherever
\* it is, and the handler calls recoverAllComponents().
Usr1(t) ==
    /\ phase # "setup" /\ ~Ended
    /\ signals < MaxSignals
    /\ signals' = signals + 1
    /\ t = "monitor" => monitor \notin {"idle", "stopped"}
    /\ todo[HandlerOn(t)] = <<>>
    /\ todo' = [todo EXCEPT ![HandlerOn(t)] = Each("recover")]
    /\ UNCHANGED <<healthVars, gRunning, phase, slept, revived, notifierVars>>

\* pollingFunction() returns: because mActive is clear, or because it could not
\* open its device or has seen too many errors, which leaves mActive set.
PollerEnds(o) ==
    /\ ~Ended
    /\ poller[o] = "running"
    /\ poller' = [poller EXCEPT ![o] = "ended"]
    /\ UNCHANGED <<healthVars, processVars, current, freed, queue, active, threadMutex>>

Prompt ==
    \/ \E f \in Frames : PromptCall(f)
    \/ PromptMain
    \/ PromptMonitor

\* No thread that can run is kept from running for a whole tick.
Tick ==
    /\ ~Ended
    /\ ~ENABLED Prompt
    /\ TimePasses
    /\ slept' = {"main", "monitor"}
    /\ UNCHANGED <<gRunning, phase, todo, signals, revived, notifierVars>>

Init ==
    /\ HealthInit
    /\ gRunning = TRUE
    /\ phase = "setup"
    /\ todo = [f \in Frames |-> <<>>]
    /\ slept = {}
    /\ signals = 0
    /\ revived = {}
    /\ current = [c \in Components |-> 0]
    /\ freed = {}
    /\ queue = [o \in Objects |-> FALSE]
    /\ active = [o \in Objects |-> FALSE]
    /\ poller = [o \in Objects |-> "none"]
    /\ threadMutex = [o \in Objects |-> Nobody]

FrameStep(f) == SlowCall(f) \/ PromptCall(f)
MainStep == PromptMain \/ GetService
MonitorStep == PromptMonitor \/ SlowMonitor

Next ==
    \/ \E f \in Frames : FrameStep(f)
    \/ \E f \in Frames, o \in Objects : UseFreed(f, o)
    \/ MainStep
    \/ MonitorStep
    \/ Terminate
    \/ \E t \in {"main", "monitor"} : Usr1(t)
    \/ \E o \in Objects : PollerEnds(o)
    \/ Tick

\* Threads run, the sensor service answers, delays end, and a polling thread
\* sees that mActive is clear.  Nobody is obliged to send a signal.
Spec ==
    /\ Init /\ [][Next]_vars
    /\ \A f \in Frames : WF_vars(FrameStep(f))
    /\ WF_vars(MainStep) /\ WF_vars(MonitorStep) /\ WF_vars(Tick)
    /\ \A o \in Objects : WF_vars(~active[o] /\ PollerEnds(o))

-----------------------------------------------------------------------------
(* Properties *)

\* Whom frame f waits for when no handler is on top of it: the owner of the
\* mutex it asks for, or the monitor in stopMonitoring().
BlockedBy(f) ==
    {o \in Frames :
        \/ o = mMutex /\ ((\E c \in Components : At(f, "beat", c) \/ At(f, "report", c))
                         \/ (f = "monitor" /\ MonitorRuns /\ monitor \in {"locking", "triggering"}))
        \/ \E x \in Objects : o = threadMutex[x] /\ (At(f, "stop", x) \/ At(f, "start", x))
        \/ o = "monitor" /\ f = "main" /\ (MainAt("joining") \/ MainAt("failing"))
             /\ monitor # "stopped"}

WaitsFor(f) == IF Runs(f) THEN BlockedBy(f) ELSE {HandlerOn(f)}

Circular(waits) ==
    LET Further(S) == UNION {waits[o] : o \in S}
    IN  \E f \in Frames :
            LET one == waits[f]  two == Further(one)  three == Further(two)
            IN  f \in one \cup two \cup three \cup Further(three)

\* No frame waits, directly or through others, for itself: the callbacks run
\* under mMutex and take mThreadMutex, and nobody takes them the other way
\* (without automatic recovery and SIGUSR1).
NoDeadlock == ~Ended => ~Circular([f \in Frames |-> WaitsFor(f)])

\* With them, every circle goes through a thread that waits for the handler on
\* top of it (main.cpp:194), or through the health callback, which needs the
\* mMutex it is called with (main.cpp:72).  Main, the monitor and the handlers
\* never block each other otherwise.
OnlySelfDeadlock ==
    ~Ended => ~Circular([f \in Frames |->
                   IF f = "monitor" /\ monitor = "reporting" THEN BlockedBy(f) \ {"monitor"}
                                                             ELSE BlockedBy(f)])

\* A mutex is held only by a frame that is between taking it and giving it
\* back, so a signal handler, a restart or a shutdown never leaves one locked.
NoLeakedLock ==
    /\ mMutex = Monitor <=> monitor \in Holding
    /\ \A f \in Users : mMutex = f <=> todo[f] # <<>> /\ Next1(f).op = "unlock"
    /\ \A o \in Objects, f \in Frames :
         threadMutex[o] = f <=> todo[f] # <<>> /\ Next1(f).op \in {"join", "spawn"} /\ Next1(f).on = o

\* An object's polling thread is started only when its last one has been
\* joined, and an active object has one, though recoveries of the monitor and
\* of the signal handlers overlap each other, the shutdown and the object's
\* own destruction.  (Two objects of one notifier may each have one.)
SinglePoller ==
    \A o \in Objects :
        /\ threadMutex[o] = Nobody => (active[o] <=> poller[o] # "none")
        /\ \A f \in Frames :
             (todo[f] # <<>> /\ Next1(f).op = "spawn" /\ Next1(f).on = o) => poller[o] = "none"

\* SIGTERM ends the process (main.cpp:116, :309).
StopHonoured == ~gRunning ~> Ended

\* main() reaches every notifier that runs with its deactivate() (main.cpp:298),
\* whichever object it points to by then: one that runs when main() has ended
\* has been activated since, by the monitor, which is stopped only later
\* (main.cpp:305): "stopped gracefully" (main.cpp:309) is then not so.
QuietExit ==
    phase = "exited" =>
        \A o \in Objects : o \in revived \/ (~active[o] /\ poller[o] = "none")

\* "AodNotifier recovery completed successfully" (main.cpp:70): automatic
\* recovery returns to the monitor, which goes on watching.
RecoveryCompletes == monitor = "reporting" ~> monitor # "reporting"

\* "Too many consecutive errors, stopping AodNotifier": a notifier that has
\* stopped by itself is noticed by the health monitor, or made inactive.
DeadPollerNoticed ==
    \A o \in Objects :
        (active[o] /\ poller[o] = "ended") ~> (~active[o] \/ ~isAlive[o[1]] \/ Ended)
=============================================================================
