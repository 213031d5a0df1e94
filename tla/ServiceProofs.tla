---------------------------- MODULE ServiceProofs ----------------------------
(***************************************************************************)
(* The locking of the process, for any timeout, any limits, any number of  *)
(* signals and any set of notifiers, and that to HealthMonitor the process *)
(* is one of the environments it allows for.                               *)
(*                                                                         *)
(* NoLeakedLock and SinglePoller say what a frame's first call means.  To  *)
(* keep that, the invariant says of the later calls of a frame that none   *)
(* gives a mutex back (TailInv), and what the monitor's thread may still   *)
(* call inside a callback (CallbackInv).  A lemma for each way in which a  *)
(* call gives way to others says what becomes of the owners; each action   *)
(* is then one of those ways.                                              *)
(***************************************************************************)
EXTENDS Service, HealthMonitorProofs

\* Calls that are made with a mutex held and end by giving it back.
Opening == {"join", "spawn", "unlock"}

RestartOps == {"deactivate", "stop", "join", "pause", "activate", "start", "spawn", "result"}

\* Frame f is in the call op on x, a notifier or one of its objects.
InCall(f, op, x) == todo[f] # <<>> /\ Next1(f) = Call(op, x)

\* No frame has such a call among those it will make later: a mutex is given
\* back by the call that follows the one that took it.
TailInv == \A f \in Frames : \A i \in 2 .. Len(todo[f]) : todo[f][i].op \notin Opening

\* The monitor's thread makes calls only inside the callbacks, with mMutex
\* held, so it never gets far enough into an update of the heartbeat to unlock
\* it; the recovery callback ends with its result.
CallbackInv ==
    /\ todo["monitor"] # <<>> => monitor \in {"reporting", "restarting"}
    /\ \A i \in 1 .. Len(todo["monitor"]) :
        /\ todo["monitor"][i].op # "unlock"
        /\ monitor = "restarting" => todo["monitor"][i].op \in RestartOps
        /\ todo["monitor"][i].op = "result" => i = Len(todo["monitor"])

\* NoLeakedLock in terms of the calls that frames are in.
OwnerInv ==
    /\ mMutex = Monitor <=> monitor \in Holding
    /\ \A f \in Users : mMutex = f <=> \E c \in Components : InCall(f, "unlock", c)
    /\ \A o \in Objects, f \in Frames :
        threadMutex[o] = f <=> InCall(f, "join", o) \/ InCall(f, "spawn", o)

\* SinglePoller, with what holds between taking mThreadMutex and giving it back.
PollerInv ==
    \A o \in Objects :
        /\ threadMutex[o] = Nobody => (active[o] <=> poller[o] # "none")
        /\ \A f \in Frames :
            /\ InCall(f, "join", o) => ~active[o] /\ poller[o] # "none"
            /\ InCall(f, "spawn", o) => active[o] /\ poller[o] = "none"

ServiceInv ==
    /\ IInv
    /\ ServiceTypeOK
    /\ TailInv
    /\ CallbackInv
    /\ OwnerInv
    /\ PollerInv

-----------------------------------------------------------------------------
(* Lists of calls *)

\* A list of calls gives way to the calls s in its first place.
LEMMA Splice ==
  ASSUME NEW S, NEW t \in Seq(S), t # <<>>, NEW s \in Seq(S)
  PROVE /\ s \o Tail(t) \in Seq(S)
        /\ Len(s \o Tail(t)) = Len(s) + Len(t) - 1
        /\ \A i \in 1 .. Len(s) : (s \o Tail(t))[i] = s[i]
        /\ \A i \in Len(s) + 1 .. Len(s) + Len(t) - 1 :
               i - Len(s) + 1 \in 2 .. Len(t) /\ (s \o Tail(t))[i] = t[i - Len(s) + 1]
  OBVIOUS

\* The calls for all notifiers are the calls for each of them.
LEMMA TwoParts ==
  ASSUME NEW S, NEW s \in Seq(S), NEW t \in Seq(S)
  PROVE /\ s \o t \in Seq(S)
        /\ \A i \in 1 .. Len(s \o t) :
               \/ i \in 1 .. Len(s) /\ (s \o t)[i] = s[i]
               \/ i - Len(s) \in 1 .. Len(t) /\ (s \o t)[i] = t[i - Len(s)]
  OBVIOUS

\* Each(op) is a list of calls of op.
LEMMA EachCalls ==
  ASSUME NEW op \in PointerOps
  PROVE /\ Each(op) \in Seq(Calls)
        /\ \A i \in 1 .. Len(Each(op)) : Each(op)[i].op = op
<1> DEFINE one(c) == IF c \in Components THEN <<Call(op, c)>> ELSE <<>>
<1>1. Each(op) = one("AodNotifier") \o one("NonUiNotifier")
  BY DEF Each, InOrder
<1>2. ASSUME NEW c PROVE one(c) \in Seq(Calls) /\ \A i \in 1 .. Len(one(c)) : one(c)[i].op = op
  <2>1. CASE c \in Components
    <3>1. Call(op, c) \in Calls /\ Call(op, c).op = op
      BY <2>1 DEF Call, Calls
    <3>2. one(c) = <<Call(op, c)>>
      BY <2>1
    <3> QED
      BY <3>1, <3>2
  <2>2. CASE c \notin Components
    <3>1. one(c) = <<>>
      BY <2>2
    <3> QED
      BY <3>1
  <2> QED
    BY <2>1, <2>2
<1> HIDE DEF one
<1> QED
  BY <1>1, <1>2, TwoParts

\* What main() calls to create the notifiers.
LEMMA CreationCalls ==
  LET new == [c \in Components |-> <<Call("construct", c), Call("activate", c), Call("beat", c)>>]
      all == InOrder(new)
  IN  /\ all \in Seq(Calls)
      /\ \A i \in 1 .. Len(all) : all[i].op \in {"construct", "activate", "beat"}
<1> DEFINE new == [c \in Components |-> <<Call("construct", c), Call("activate", c), Call("beat", c)>>]
           all == InOrder(new)
           one(c) == IF c \in Components THEN new[c] ELSE <<>>
<1>1. all = one("AodNotifier") \o one("NonUiNotifier")
  BY DEF InOrder
<1>2. ASSUME NEW c
      PROVE /\ one(c) \in Seq(Calls)
            /\ \A i \in 1 .. Len(one(c)) : one(c)[i].op \in {"construct", "activate", "beat"}
  <2>1. CASE c \in Components
    <3>1. \A op \in PointerOps : Call(op, c) \in Calls /\ Call(op, c).op = op
      BY <2>1 DEF Call, Calls
    <3>2. one(c) = <<Call("construct", c), Call("activate", c), Call("beat", c)>>
      BY <2>1
    <3> QED
      BY <3>1, <3>2 DEF PointerOps
  <2>2. CASE c \notin Components
    <3>1. one(c) = <<>>
      BY <2>2
    <3> QED
      BY <3>1
  <2> QED
    BY <2>1, <2>2
<1> HIDE DEF one, new
<1>3. all \in Seq(Calls) /\ \A i \in 1 .. Len(all) : all[i].op \in {"construct", "activate", "beat"}
  BY <1>1, <1>2, TwoParts
<1> QED
  BY <1>3 DEF new

\* What a frame is in after its call has given way to the calls s.
LEMMA BecomesEffect ==
  ASSUME todo \in [Frames -> Seq(Calls)], TailInv,
         NEW f \in Frames, todo[f] # <<>>,
         NEW s \in Seq(Calls), \A i \in 2 .. Len(s) : s[i].op \notin Opening,
         Becomes(f, s)
  PROVE /\ todo' \in [Frames -> Seq(Calls)]
        /\ TailInv'
        /\ \A g \in Frames \ {f} : todo'[g] = todo[g]
        /\ \A g \in Frames \ {f} : \A op, c : InCall(g, op, c)' <=> InCall(g, op, c)
        /\ s # <<>> => \A op, c : InCall(f, op, c)' <=> s[1] = Call(op, c)
        /\ s = <<>> => \A op \in Opening : \A c : ~InCall(f, op, c)'
<1> DEFINE u == s \o Tail(todo[f])
<1>1. todo' = [todo EXCEPT ![f] = u]
  BY DEF Becomes
<1>2. /\ u \in Seq(Calls)
      /\ Len(u) = Len(s) + Len(todo[f]) - 1
      /\ \A i \in 1 .. Len(s) : u[i] = s[i]
      /\ \A i \in Len(s) + 1 .. Len(s) + Len(todo[f]) - 1 :
             i - Len(s) + 1 \in 2 .. Len(todo[f]) /\ u[i] = todo[f][i - Len(s) + 1]
  BY Splice
<1> HIDE DEF u
<1>3. todo' \in [Frames -> Seq(Calls)] /\ todo'[f] = u /\ \A g \in Frames \ {f} : todo'[g] = todo[g]
  BY <1>1, <1>2
<1>4. \A i \in 2 .. Len(u) : u[i].op \notin Opening
  <2> SUFFICES ASSUME NEW i \in 2 .. Len(u) PROVE u[i].op \notin Opening
    OBVIOUS
  <2>1. CASE i \in 1 .. Len(s)
    BY <1>2, <2>1
  <2>2. CASE i \notin 1 .. Len(s)
    <3>0. i \in Len(s) + 1 .. Len(s) + Len(todo[f]) - 1 /\ Len(s) \in Nat
      BY <1>2, <2>2
    <3>1. PICK k \in 2 .. Len(todo[f]) : u[i] = todo[f][k]
      BY <1>2, <3>0
    <3>2. todo[f][k].op \notin Opening
      BY DEF TailInv
    <3> QED
      BY <3>1, <3>2
  <2> QED
    BY <2>1, <2>2
<1>5. TailInv'
  BY <1>3, <1>4 DEF TailInv
<1>6. \A g \in Frames \ {f} : \A op, c : InCall(g, op, c)' <=> InCall(g, op, c)
  BY <1>3 DEF InCall, Next1
<1>7. ASSUME s # <<>>, NEW op, NEW c PROVE InCall(f, op, c)' <=> s[1] = Call(op, c)
  <2>1. 1 \in 1 .. Len(s) /\ u # <<>> /\ Head(u) = s[1]
    BY <1>2, <1>7
  <2> QED
    BY <1>3, <2>1 DEF InCall, Next1
<1>8. ASSUME s = <<>>, NEW op \in Opening, NEW c PROVE ~InCall(f, op, c)'
  <2>1. SUFFICES ASSUME u # <<>>, Head(u) = Call(op, c) PROVE FALSE
    BY <1>3 DEF InCall, Next1
  <2>2. 2 \in 2 .. Len(todo[f]) /\ Head(u) = todo[f][2]
    BY <1>2, <1>8, <2>1
  <2>3. Call(op, c).op = op
    BY DEF Call
  <2> QED
    BY <2>1, <2>2, <2>3 DEF TailInv
<1> QED
  BY <1>3, <1>5, <1>6, <1>7, <1>8

\* What a frame is in that had nothing to do and is given the calls s.
LEMMA StartsEffect ==
  ASSUME todo \in [Frames -> Seq(Calls)], TailInv,
         NEW f \in Frames, todo[f] = <<>>,
         NEW s \in Seq(Calls), \A i \in 1 .. Len(s) : s[i].op \notin Opening,
         todo' = [todo EXCEPT ![f] = s]
  PROVE /\ todo' \in [Frames -> Seq(Calls)]
        /\ TailInv'
        /\ \A g \in Frames \ {f} : todo'[g] = todo[g]
        /\ \A g \in Frames, op \in Opening : \A c : InCall(g, op, c)' <=> InCall(g, op, c)
<1>1. todo' \in [Frames -> Seq(Calls)] /\ todo'[f] = s /\ \A g \in Frames \ {f} : todo'[g] = todo[g]
  OBVIOUS
<1>2. TailInv'
  BY <1>1 DEF TailInv
<1>3. \A g \in Frames \ {f} : \A op, c : InCall(g, op, c)' <=> InCall(g, op, c)
  BY <1>1 DEF InCall, Next1
<1>4. ASSUME NEW op \in Opening, NEW c PROVE ~InCall(f, op, c)' /\ ~InCall(f, op, c)
  <2>1. Call(op, c).op = op
    BY DEF Call
  <2>2. s # <<>> => 1 \in 1 .. Len(s) /\ Head(s) = s[1]
    OBVIOUS
  <2> QED
    BY <1>1, <2>1, <2>2 DEF InCall, Next1
<1> QED
  BY <1>1, <1>2, <1>3, <1>4

-----------------------------------------------------------------------------
(* Refinement: to the health monitor, the rest of the process is a user *)

USE DEF MonitorState, Holding, componentVars, loopVars, healthVars

\* The frames are HealthMonitor's threads, none of them Nobody.
LEMMA FramesAreUsers == Frames = Users \cup {Monitor} /\ Monitor = "monitor" /\ Nobody \notin Frames
BY ServiceAssumption, HealthAssumption DEF Frames, Handlers

\* The call that a frame is in is the first on its list.
LEMMA AtFirst ==
  ASSUME todo \in [Frames -> Seq(Calls)], NEW f \in Frames, NEW op, NEW c, At(f, op, c)
  PROVE /\ InCall(f, op, c)
        /\ todo[f] # <<>>
        /\ 1 \in 1 .. Len(todo[f])
        /\ todo[f][1] = Call(op, c)
        /\ todo[f][1].op = op
<1>1. /\ todo[f] # <<>> /\ 1 \in 1 .. Len(todo[f]) /\ todo[f][1] \in Calls
      /\ todo[f][1].op = op /\ todo[f][1].on = c /\ Next1(f) = todo[f][1]
  BY DEF At, Next1
<1>2. \A r \in Calls : r = [op |-> r.op, on |-> r.on]
  BY DEF Calls
<1> QED
  BY <1>1, <1>2 DEF InCall, Call

\* The monitor's thread cannot get mMutex in a call: it has it.
LEMMA MonitorHasMutex ==
  ASSUME ServiceInv, NEW op, NEW c, At("monitor", op, c)
  PROVE mMutex # Nobody /\ op # "unlock"
<1>1. todo["monitor"] # <<>> /\ 1 \in 1 .. Len(todo["monitor"]) /\ todo["monitor"][1].op = op
  BY AtFirst DEF ServiceInv, ServiceTypeOK, Frames
<1>2. monitor \in Holding /\ op # "unlock"
  BY <1>1 DEF ServiceInv, CallbackInv
<1> QED
  BY <1>2, HealthAssumption DEF ServiceInv, OwnerInv

\* A step of the process is a step of HealthMonitor, or none.
LEMMA Simulation == ServiceInv /\ [Next]_vars => [HealthNext]_healthVars
<1> SUFFICES ASSUME ServiceInv, [Next]_vars PROVE [HealthNext]_healthVars
  OBVIOUS
<1>1. ASSUME NEW f \in Frames, FrameStep(f) PROVE [HealthNext]_healthVars
  <2>1. ASSUME NEW c \in Components, Beat(f, c) PROVE [HealthNext]_healthVars
    <3>1. UpdateHeartbeat(f, c) /\ f # "monitor"
      BY <2>1, MonitorHasMutex DEF Beat, UpdateHeartbeat
    <3> QED
      BY <3>1, FramesAreUsers DEF HealthNext
  <2>2. ASSUME NEW c \in Components, Report(f, c) PROVE [HealthNext]_healthVars
    <3>1. ReadHealth(f) /\ f # "monitor"
      BY <2>2, MonitorHasMutex DEF Report, ReadHealth
    <3> QED
      BY <3>1, FramesAreUsers DEF HealthNext
  <2>3. ASSUME NEW c \in Components, Unlock(f, c) PROVE [HealthNext]_healthVars
    <3>1. UnlockHeartbeat(f) /\ f # "monitor"
      BY <2>3, MonitorHasMutex DEF Unlock
    <3> QED
      BY <3>1, FramesAreUsers DEF HealthNext
  <2>4. ASSUME NEW c \in Components,
               \/ Construct(f, c) \/ Pause(f, c) \/ LoadPointer(f, c)
               \/ Check(f, c) \/ Recover(f, c)
        PROVE UNCHANGED healthVars
    BY <2>4 DEF Construct, Pause, LoadPointer, Check, Recover
  <2>5. ASSUME NEW o \in Objects,
               \/ Deactivate(f, o) \/ Join(f, o) \/ Activate(f, o)
               \/ Spawn(f, o) \/ Free(f, o)
        PROVE UNCHANGED healthVars
    BY <2>5 DEF Deactivate, Join, Activate, Spawn, Free
  <2> QED
    BY <1>1, <2>1, <2>2, <2>3, <2>4, <2>5 DEF FrameStep, SlowCall, PromptCall
<1>2. CASE MainStep
  <2>1. CASE Setup
    BY <2>1 DEF Setup, HealthNext
  <2>2. ASSUME StopMonitoring PROVE [HealthNext]_healthVars
    <3>1. mMonitoring \in BOOLEAN
      BY DEF ServiceInv, ServiceTypeOK, HealthTypeOK
    <3>2. CASE mMonitoring
      BY <2>2, <3>2 DEF HealthNext
    <3>3. CASE ~mMonitoring
      BY <2>2, <3>1, <3>3 DEF StopMonitoring
    <3> QED
      BY <3>2, <3>3
  <2>3. CASE TestRetry \/ Stop
    BY <2>2, <2>3 DEF TestRetry, Stop
  <2>4. CASE TestRunning \/ Awake \/ Exit \/ GetService
    BY <2>4 DEF TestRunning, Awake, Exit, GetService
  <2> QED
    BY <1>2, <2>1, <2>3, <2>4 DEF MainStep, PromptMain
<1>3. CASE MonitorStep
  <2>1. TestMonitoring \/ Wake \/ LockForScan \/ ReportReturns \/ EndScan \/ Consider \/ EndPass
           \/ (\E c \in Components : Scan(c)) \/ TriggerRecovery
           \/ RestartReturns(FALSE) \/ RestartReturns(TRUE)
    BY <1>3 DEF MonitorStep, PromptMonitor, SlowMonitor, Test, WakeUp, PlainStep, ScanOne, Trigger, Restarted
  <2> QED
    BY <2>1 DEF HealthNext, LoopStep, Callbacks
<1>4. CASE \/ Terminate \/ (\E t \in {"main", "monitor"} : Usr1(t))
          \/ (\E o \in Objects : PollerEnds(o)) \/ (\E f \in Frames, o \in Objects : UseFreed(f, o))
  BY <1>4 DEF Terminate, Usr1, PollerEnds, UseFreed
<1>5. CASE Tick
  BY <1>5 DEF Tick, HealthNext
<1>6. CASE UNCHANGED vars
  BY <1>6 DEF vars
<1> QED
  BY <1>1, <1>2, <1>3, <1>4, <1>5, <1>6 DEF Next

-----------------------------------------------------------------------------
(* The invariant *)

\* What the calls have to keep, apart from the types and the health monitor.
Held == TailInv /\ CallbackInv /\ OwnerInv /\ PollerInv

\* A step in which no frame begins or ends an opening call: of the mutexes only
\* mMutex may change hands, and only to or from the monitor.
LEMMA NothingOpens ==
  ASSUME ServiceInv, TailInv', CallbackInv',
         \A g \in Frames, op \in Opening : \A x : InCall(g, op, x)' <=> InCall(g, op, x),
         UNCHANGED <<active, threadMutex>>,
         \A o \in Objects : poller'[o] = "none" <=> poller[o] = "none",
         mMutex' = Monitor <=> monitor' \in Holding,
         \A g \in Users : mMutex' = g <=> mMutex = g
  PROVE Held'
<1>1. OwnerInv'
  BY FramesAreUsers DEF ServiceInv, OwnerInv, Opening
<1>2. PollerInv'
  BY DEF ServiceInv, PollerInv, Opening
<1> QED
  BY <1>1, <1>2 DEF Held

\* The calls of the monitor's thread stay inside the callback.
LEMMA CallbackKept ==
  ASSUME ServiceInv, monitor' = monitor, NEW f \in Frames, todo[f] # <<>>,
         NEW s \in Seq(Calls), Becomes(f, s),
         f = "monitor" =>
            \A i \in 1 .. Len(s) :
                /\ s[i].op \notin {"unlock", "result"}
                /\ monitor = "restarting" => s[i].op \in RestartOps
  PROVE CallbackInv'
<1> DEFINE t == todo[f]
           u == s \o Tail(t)
<1>0. todo \in [Frames -> Seq(Calls)]
  BY DEF ServiceInv, ServiceTypeOK
<1>1. todo' = [todo EXCEPT ![f] = u]
  BY DEF Becomes
<1>2. CASE f # "monitor"
  <2>1. todo'["monitor"] = todo["monitor"]
    BY <1>1, <1>2 DEF Frames
  <2> QED
    BY <2>1 DEF ServiceInv, CallbackInv
<1>3. CASE f = "monitor"
  <2>1. /\ Len(u) = Len(s) + Len(t) - 1
        /\ \A i \in 1 .. Len(s) : u[i] = s[i]
        /\ \A i \in Len(s) + 1 .. Len(s) + Len(t) - 1 :
               i - Len(s) + 1 \in 2 .. Len(t) /\ u[i] = t[i - Len(s) + 1]
    BY <1>0, Splice
  <2>2. todo'["monitor"] = u
    BY <1>0, <1>1, <1>3
  <2>3. monitor \in {"reporting", "restarting"}
    BY <1>3 DEF ServiceInv, CallbackInv
  <2>4. ASSUME NEW i \in 1 .. Len(u)
        PROVE /\ u[i].op # "unlock"
              /\ monitor = "restarting" => u[i].op \in RestartOps
              /\ u[i].op = "result" => i = Len(u)
    <3>0. Len(t) \in Nat /\ Len(s) \in Nat
      BY <1>0
    <3>1. CASE i \in 1 .. Len(s)
      BY <1>3, <2>1, <3>1
    <3>2. CASE i \notin 1 .. Len(s)
      <4> HIDE DEF u
      <4> DEFINE j == i - Len(s) + 1
      <4>0. i \in Len(s) + 1 .. Len(s) + Len(t) - 1
        BY <2>1, <3>0, <3>2
      <4>1. j \in 2 .. Len(t) /\ u[i] = t[j] /\ (j = Len(t) => i = Len(u))
        BY <2>1, <3>0, <4>0
      <4>2. j \in 1 .. Len(t)
        BY <3>0, <4>1
      <4>3. /\ t[j].op # "unlock"
            /\ monitor = "restarting" => t[j].op \in RestartOps
            /\ t[j].op = "result" => j = Len(t)
        BY <1>3, <4>2 DEF ServiceInv, CallbackInv
      <4> HIDE DEF j, t
      <4> QED
        BY <4>1, <4>3
    <3> QED
      BY <3>1, <3>2
  <2> HIDE DEF u
  <2> QED
    BY <2>2, <2>3, <2>4 DEF CallbackInv
<1> QED
  BY <1>2, <1>3

\* A call is its operation and what it is made on, no more.
LEMMA OneCall ==
  /\ \A op \in PointerOps, c \in Components : Call(op, c) \in Calls
  /\ \A op \in ObjectOps, o \in Objects : Call(op, o) \in Calls
  /\ \A op, c : Call(op, c).op = op
  /\ \A op, c, p, d : Call(op, c) = Call(p, d) => op = p /\ c = d
<1>1. \A op, c : Call(op, c).op = op /\ Call(op, c).on = c
  BY DEF Call
<1>2. \A op, c, p, d : Call(op, c) = Call(p, d) => op = p /\ c = d
  BY <1>1
<1>3. \A op \in PointerOps, c \in Components : Call(op, c) \in Calls
  BY DEF Call, Calls
<1>4. \A op \in ObjectOps, o \in Objects : Call(op, o) \in Calls
  BY DEF Call, Calls
<1> QED
  BY <1>1, <1>2, <1>3, <1>4

\* A call is made up of its two fields.
LEMMA CallFields == \A r \in Calls : \A op, x : r = Call(op, x) <=> r.op = op /\ r.on = x
<1>1. \A r \in Calls : r = [op |-> r.op, on |-> r.on]
  BY DEF Calls
<1>2. \A op, x : Call(op, x).op = op /\ Call(op, x).on = x
  BY DEF Call
<1> QED
  BY <1>1, <1>2 DEF Call

\* The pointer of a notifier that has been created points to an object.
LEMMA PublishedObject ==
  ASSUME ServiceTypeOK, NEW c \in Components, current[c] # 0
  PROVE Published(c) \in Objects
<1>1. current[c] \in 1 .. MaxObjects
  BY ServiceAssumption DEF ServiceTypeOK
<1> QED
  BY <1>1 DEF Published, Objects

\* What the monitor's thread may call inside the recovery callback.
LEMMA MonitorCalls ==
  ASSUME ServiceInv, NEW op, NEW c, At("monitor", op, c)
  PROVE monitor = "restarting" => op \in RestartOps
<1>1. todo["monitor"] # <<>> /\ 1 \in 1 .. Len(todo["monitor"]) /\ todo["monitor"][1].op = op
  BY AtFirst DEF ServiceInv, ServiceTypeOK, Frames
<1> QED
  BY <1>1 DEF ServiceInv, CallbackInv

\* A frame whose call is done is in none that opens.
LEMMA DoneEffect ==
  ASSUME ServiceInv, NEW f \in Frames, todo[f] # <<>>, Done(f), monitor' = monitor
  PROVE /\ todo' \in [Frames -> Seq(Calls)]
        /\ TailInv'
        /\ CallbackInv'
        /\ \A g \in Frames \ {f} : \A op, c : InCall(g, op, c)' <=> InCall(g, op, c)
        /\ \A op \in Opening : \A c : ~InCall(f, op, c)'
<1> DEFINE s == <<>>
<1>1. s \in Seq(Calls) /\ Becomes(f, s) /\ (\A i \in 1 .. Len(s) : FALSE) /\ \A i \in 2 .. Len(s) : FALSE
  BY DEF Done
<1>2. todo \in [Frames -> Seq(Calls)] /\ TailInv
  BY DEF ServiceInv, ServiceTypeOK
<1>3. s = <<>>
  OBVIOUS
<1> HIDE DEF s
<1>4. CallbackInv'
  BY <1>1, CallbackKept
<1> QED
  BY <1>1, <1>2, <1>3, <1>4, BecomesEffect

\* A call that takes no mutex.
LEMMA QuietCall ==
  ASSUME ServiceInv, NEW f \in Frames, NEW c, NEW op, op \notin Opening,
         At(f, op, c), NEW s \in Seq(Calls), Becomes(f, s),
         \A i \in 1 .. Len(s) : /\ s[i].op \notin Opening \cup {"result"}
                                /\ op \in RestartOps => s[i].op \in RestartOps,
         UNCHANGED <<mMutex, monitor, active, poller, threadMutex>>
  PROVE todo' \in [Frames -> Seq(Calls)] /\ Held'
<1>0. todo \in [Frames -> Seq(Calls)] /\ TailInv
  BY DEF ServiceInv, ServiceTypeOK
<1>1. InCall(f, op, c) /\ todo[f] # <<>>
  BY <1>0, AtFirst
<1>2. /\ todo' \in [Frames -> Seq(Calls)]
      /\ TailInv'
      /\ \A g \in Frames \ {f} : \A p, d : InCall(g, p, d)' <=> InCall(g, p, d)
      /\ s # <<>> => \A p, d : InCall(f, p, d)' <=> s[1] = Call(p, d)
      /\ s = <<>> => \A p \in Opening : \A d : ~InCall(f, p, d)'
  <2>1. \A i \in 2 .. Len(s) : s[i].op \notin Opening
    OBVIOUS
  <2> QED
    BY <1>0, <1>1, <2>1, BecomesEffect
<1>3. ASSUME NEW p \in Opening, NEW d PROVE ~InCall(f, p, d)' /\ ~InCall(f, p, d)
  <2>1. ~InCall(f, p, d)
    BY <1>1, OneCall DEF InCall
  <2>2. s # <<>> => 1 \in 1 .. Len(s)
    OBVIOUS
  <2>3. ~InCall(f, p, d)'
    BY <1>2, <2>2, OneCall
  <2> QED
    BY <2>1, <2>3
<1>4. CallbackInv'
  <2>1. f = "monitor" /\ monitor = "restarting" => op \in RestartOps
    BY MonitorCalls
  <2> QED
    BY <1>1, <2>1, CallbackKept DEF Opening
<1>5. Held'
  <2>1. mMutex' = Monitor <=> monitor' \in Holding
    BY DEF ServiceInv, OwnerInv
  <2>2. \A g \in Frames, p \in Opening : \A d : InCall(g, p, d)' <=> InCall(g, p, d)
    BY <1>2, <1>3
  <2> QED
    BY <1>2, <1>4, <2>1, <2>2, NothingOpens
<1> QED
  BY <1>2, <1>5

\* activate() or deactivate() takes mThreadMutex, to spawn or to join.
LEMMA TakesThreadMutex ==
  ASSUME ServiceInv, NEW f \in Frames, NEW o \in Objects, NEW op, op \notin Opening,
         At(f, op, o), threadMutex[o] = Nobody,
         NEW next \in {"join", "spawn"}, active[o] <=> next = "join",
         NEW s \in Seq(Calls), Becomes(f, s), s # <<>>, s[1] = Call(next, o),
         \A i \in 2 .. Len(s) : /\ s[i].op \notin Opening \cup {"result"}
                                /\ op \in RestartOps => s[i].op \in RestartOps,
         active'[o] <=> next = "spawn", \A d \in Objects \ {o} : active'[d] = active[d],
         threadMutex' = [threadMutex EXCEPT ![o] = f],
         UNCHANGED <<mMutex, monitor, poller>>
  PROVE todo' \in [Frames -> Seq(Calls)] /\ Held'
<1>0. /\ todo \in [Frames -> Seq(Calls)] /\ TailInv
      /\ active \in [Objects -> BOOLEAN]
      /\ threadMutex \in [Objects -> Frames \cup {Nobody}]
  BY DEF ServiceInv, ServiceTypeOK
<1>1. InCall(f, op, o) /\ todo[f] # <<>>
  BY <1>0, AtFirst
<1>2. /\ todo' \in [Frames -> Seq(Calls)]
      /\ TailInv'
      /\ \A g \in Frames \ {f} : \A p, d : InCall(g, p, d)' <=> InCall(g, p, d)
      /\ \A p, d : InCall(f, p, d)' <=> s[1] = Call(p, d)
  BY <1>0, <1>1, BecomesEffect
<1>3. \A p \in Opening : \A d : ~InCall(f, p, d)
  BY <1>1, OneCall DEF InCall
<1>4. \A p, d : InCall(f, p, d)' <=> p = next /\ d = o
  BY <1>2, OneCall
<1>5. \A g \in Frames, p \in Opening : \A d :
         p = "unlock" \/ d # o => (InCall(g, p, d)' <=> InCall(g, p, d))
  <2> SUFFICES ASSUME NEW g \in Frames, NEW p \in Opening, NEW d, p = "unlock" \/ d # o
               PROVE InCall(g, p, d)' <=> InCall(g, p, d)
    OBVIOUS
  <2>1. CASE g = f
    BY <1>3, <1>4, <2>1
  <2>2. CASE g # f
    BY <1>2, <2>2
  <2> QED
    BY <2>1, <2>2
<1>8. CallbackInv'
  <2>1. f = "monitor" /\ monitor = "restarting" => op \in RestartOps
    BY MonitorCalls
  <2>2. \A i \in 1 .. Len(s) : /\ s[i].op \notin {"unlock", "result"}
                               /\ op \in RestartOps => s[i].op \in RestartOps
    <3> SUFFICES ASSUME NEW i \in 1 .. Len(s)
                 PROVE /\ s[i].op \notin {"unlock", "result"}
                       /\ op \in RestartOps => s[i].op \in RestartOps
      OBVIOUS
    <3>1. CASE i = 1
      BY <3>1, OneCall DEF RestartOps
    <3>2. CASE i # 1
      BY <3>2 DEF Opening
    <3> QED
      BY <3>1, <3>2
  <2> QED
    BY <1>1, <2>1, <2>2, CallbackKept
<1>6. OwnerInv'
  <2>1. \A g \in Users : mMutex' = g <=> \E d \in Components : InCall(g, "unlock", d)'
    BY <1>5, FramesAreUsers DEF ServiceInv, OwnerInv, Opening
  <2>2. ASSUME NEW d \in Objects, NEW g \in Frames
        PROVE threadMutex'[d] = g <=> InCall(g, "join", d)' \/ InCall(g, "spawn", d)'
    <3>1. CASE d = o
      <4>1. threadMutex'[d] = f
        BY <1>0, <3>1
      <4>2. g # f => ~InCall(g, "join", d) /\ ~InCall(g, "spawn", d)
        BY <3>1, FramesAreUsers DEF ServiceInv, OwnerInv
      <4> QED
        BY <1>2, <1>4, <3>1, <4>1, <4>2
    <3>2. CASE d # o
      <4>1. threadMutex'[d] = threadMutex[d]
        BY <1>0, <3>2
      <4>2. InCall(g, "join", d)' \/ InCall(g, "spawn", d)' <=> InCall(g, "join", d) \/ InCall(g, "spawn", d)
        BY <1>5, <3>2 DEF Opening
      <4> QED
        BY <4>1, <4>2 DEF ServiceInv, OwnerInv
    <3> QED
      BY <3>1, <3>2
  <2> QED
    BY <2>1, <2>2 DEF ServiceInv, OwnerInv
<1>7. PollerInv'
  <2> SUFFICES ASSUME NEW d \in Objects
               PROVE /\ threadMutex'[d] = Nobody => (active'[d] <=> poller'[d] # "none")
                     /\ \A g \in Frames :
                         /\ InCall(g, "join", d)' => ~active'[d] /\ poller'[d] # "none"
                         /\ InCall(g, "spawn", d)' => active'[d] /\ poller'[d] = "none"
    BY DEF PollerInv
  <2>1. CASE d = o
    <3>1. threadMutex'[d] = f /\ f # Nobody /\ (active'[d] <=> next = "spawn")
      BY <1>0, <2>1, FramesAreUsers
    <3>2. poller'[d] # "none" <=> next = "join"
      BY <2>1 DEF ServiceInv, PollerInv
    <3>3. \A g \in Frames \ {f} : ~InCall(g, "join", d)' /\ ~InCall(g, "spawn", d)'
      BY <1>6, <3>1 DEF OwnerInv
    <3> QED
      BY <1>4, <3>1, <3>2, <3>3
  <2>2. CASE d # o
    <3>1. threadMutex'[d] = threadMutex[d] /\ active'[d] = active[d]
      BY <1>0, <2>2
    <3>2. \A g \in Frames, p \in Opening : InCall(g, p, d)' <=> InCall(g, p, d)
      BY <1>5, <2>2
    <3> QED
      BY <3>1, <3>2 DEF ServiceInv, PollerInv, Opening
  <2> QED
    BY <2>1, <2>2
<1> QED
  BY <1>2, <1>6, <1>7, <1>8 DEF Held

\* join() and the creation of the thread give mThreadMutex back.
LEMMA GivesThreadMutex ==
  ASSUME ServiceInv, NEW f \in Frames, NEW o \in Objects, NEW op \in {"join", "spawn"},
         At(f, op, o), Done(f),
         poller' = [poller EXCEPT ![o] = IF op = "join" THEN "none" ELSE "running"],
         threadMutex' = [threadMutex EXCEPT ![o] = Nobody],
         UNCHANGED <<mMutex, monitor, active>>
  PROVE todo' \in [Frames -> Seq(Calls)] /\ Held'
<1>0. /\ todo \in [Frames -> Seq(Calls)] /\ TailInv
      /\ poller \in [Objects -> {"none", "running", "ended"}]
      /\ threadMutex \in [Objects -> Frames \cup {Nobody}]
  BY DEF ServiceInv, ServiceTypeOK
<1>1. InCall(f, op, o) /\ todo[f] # <<>>
  BY <1>0, AtFirst
<1>3. /\ todo' \in [Frames -> Seq(Calls)]
      /\ TailInv'
      /\ \A g \in Frames \ {f} : \A p, d : InCall(g, p, d)' <=> InCall(g, p, d)
      /\ \A p \in Opening : \A d : ~InCall(f, p, d)'
  BY <1>0, <1>1, DoneEffect
<1>4. CallbackInv'
  BY <1>1, DoneEffect
<1>5. threadMutex[o] = f /\ \A g \in Frames \ {f} : ~InCall(g, "join", o) /\ ~InCall(g, "spawn", o)
  BY <1>1 DEF ServiceInv, OwnerInv
<1>6. \A p \in Opening : \A d : d # o \/ p = "unlock" => ~InCall(f, p, d)
  BY <1>1, OneCall DEF InCall
<1>7. \A g \in Frames, p \in Opening : \A d :
         p = "unlock" \/ d # o => (InCall(g, p, d)' <=> InCall(g, p, d))
  <2> SUFFICES ASSUME NEW g \in Frames, NEW p \in Opening, NEW d, p = "unlock" \/ d # o
               PROVE InCall(g, p, d)' <=> InCall(g, p, d)
    OBVIOUS
  <2>1. CASE g = f
    BY <1>3, <1>6, <2>1
  <2>2. CASE g # f
    BY <1>3, <2>2
  <2> QED
    BY <2>1, <2>2
<1>8. \A g \in Frames : ~InCall(g, "join", o)' /\ ~InCall(g, "spawn", o)'
  BY <1>3, <1>5 DEF Opening
<1>9. OwnerInv'
  <2>1. \A g \in Users : mMutex' = g <=> \E d \in Components : InCall(g, "unlock", d)'
    BY <1>7, FramesAreUsers DEF ServiceInv, OwnerInv, Opening
  <2>2. ASSUME NEW d \in Objects, NEW g \in Frames
        PROVE threadMutex'[d] = g <=> InCall(g, "join", d)' \/ InCall(g, "spawn", d)'
    <3>1. CASE d = o
      BY <1>0, <1>8, <3>1, FramesAreUsers
    <3>2. CASE d # o
      <4>1. threadMutex'[d] = threadMutex[d]
        BY <1>0, <3>2
      <4>2. InCall(g, "join", d)' \/ InCall(g, "spawn", d)' <=> InCall(g, "join", d) \/ InCall(g, "spawn", d)
        BY <1>7, <3>2 DEF Opening
      <4> QED
        BY <4>1, <4>2 DEF ServiceInv, OwnerInv
    <3> QED
      BY <3>1, <3>2
  <2> QED
    BY <2>1, <2>2 DEF ServiceInv, OwnerInv
<1>10. PollerInv'
  <2> SUFFICES ASSUME NEW d \in Objects
               PROVE /\ threadMutex'[d] = Nobody => (active'[d] <=> poller'[d] # "none")
                     /\ \A g \in Frames :
                         /\ InCall(g, "join", d)' => ~active'[d] /\ poller'[d] # "none"
                         /\ InCall(g, "spawn", d)' => active'[d] /\ poller'[d] = "none"
    BY DEF PollerInv
  <2>1. CASE d = o
    <3>1. active[d] <=> op = "spawn"
      BY <1>1, <2>1 DEF ServiceInv, PollerInv
    <3>2. poller'[d] # "none" <=> op = "spawn"
      BY <1>0, <2>1
    <3> QED
      BY <1>8, <2>1, <3>1, <3>2
  <2>2. CASE d # o
    <3>1. threadMutex'[d] = threadMutex[d] /\ poller'[d] = poller[d]
      BY <1>0, <2>2
    <3>2. \A g \in Frames, p \in Opening : InCall(g, p, d)' <=> InCall(g, p, d)
      BY <1>7, <2>2
    <3> QED
      BY <3>1, <3>2 DEF ServiceInv, PollerInv, Opening
  <2> QED
    BY <2>1, <2>2
<1> QED
  BY <1>3, <1>4, <1>9, <1>10 DEF Held

\* updateHeartbeat() and the getters take mMutex.
LEMMA TakesMutex ==
  ASSUME ServiceInv, NEW f \in Frames, NEW c \in Components, NEW op \in {"beat", "report"},
         At(f, op, c), mMutex = Nobody, mMutex' = f, Becomes(f, <<Call("unlock", c)>>),
         UNCHANGED <<monitor, active, poller, threadMutex>>
  PROVE todo' \in [Frames -> Seq(Calls)] /\ Held'
<1>0. todo \in [Frames -> Seq(Calls)] /\ TailInv
  BY DEF ServiceInv, ServiceTypeOK
<1>1. InCall(f, op, c) /\ todo[f] # <<>> /\ f # "monitor" /\ monitor \notin Holding
  BY <1>0, AtFirst, MonitorHasMutex, HealthAssumption DEF ServiceInv, OwnerInv
<1> DEFINE s == <<Call("unlock", c)>>
<1>2. s \in Seq(Calls) /\ Len(s) = 1 /\ s[1] = Call("unlock", c) /\ s # <<>>
  BY OneCall DEF PointerOps
<1> HIDE DEF s
<1>3. /\ todo' \in [Frames -> Seq(Calls)]
      /\ TailInv'
      /\ \A g \in Frames \ {f} : \A p, d : InCall(g, p, d)' <=> InCall(g, p, d)
      /\ \A p, d : InCall(f, p, d)' <=> s[1] = Call(p, d)
  <2>1. Becomes(f, s)
    BY DEF s
  <2> QED
    BY <1>0, <1>1, <1>2, <2>1, BecomesEffect
<1>4. CallbackInv'
  <2>1. Becomes(f, s)
    BY DEF s
  <2> QED
    BY <1>1, <1>2, <2>1, CallbackKept
<1>5. \A p, d : InCall(f, p, d)' <=> p = "unlock" /\ d = c
  BY <1>2, <1>3, OneCall
<1>6. \A p \in Opening : \A d : ~InCall(f, p, d)
  BY <1>1, OneCall DEF InCall, Opening
<1>7. \A g \in Frames, p \in {"join", "spawn"} : \A d : InCall(g, p, d)' <=> InCall(g, p, d)
  <2> SUFFICES ASSUME NEW g \in Frames, NEW p \in {"join", "spawn"}, NEW d
               PROVE InCall(g, p, d)' <=> InCall(g, p, d)
    OBVIOUS
  <2>1. CASE g = f
    BY <1>5, <1>6, <2>1 DEF Opening
  <2>2. CASE g # f
    BY <1>3, <2>2
  <2> QED
    BY <2>1, <2>2
<1>8. OwnerInv'
  <2>1. f # Monitor /\ f # Nobody
    BY <1>1, FramesAreUsers
  <2>2. ASSUME NEW g \in Users PROVE mMutex' = g <=> \E d \in Components : InCall(g, "unlock", d)'
    <3>1. CASE g = f
      BY <1>5, <3>1
    <3>2. CASE g # f
      <4>1. g \in Frames /\ g # Nobody
        BY FramesAreUsers
      <4> QED
        BY <1>3, <3>2, <4>1 DEF ServiceInv, OwnerInv
    <3> QED
      BY <3>1, <3>2
  <2> QED
    BY <1>1, <1>7, <2>1, <2>2 DEF ServiceInv, OwnerInv
<1>9. PollerInv'
  BY <1>7 DEF ServiceInv, PollerInv
<1> QED
  BY <1>3, <1>4, <1>8, <1>9 DEF Held

\* Their end gives it back.
LEMMA GivesMutex ==
  ASSUME ServiceInv, NEW f \in Frames, NEW c \in Components, At(f, "unlock", c), Done(f),
         mMutex' = Nobody, UNCHANGED <<monitor, active, poller, threadMutex>>
  PROVE todo' \in [Frames -> Seq(Calls)] /\ Held'
<1>0. todo \in [Frames -> Seq(Calls)] /\ TailInv
  BY DEF ServiceInv, ServiceTypeOK
<1>1. InCall(f, "unlock", c) /\ todo[f] # <<>> /\ f # "monitor"
  BY <1>0, AtFirst, MonitorHasMutex
<1>3. /\ todo' \in [Frames -> Seq(Calls)]
      /\ TailInv'
      /\ \A g \in Frames \ {f} : \A p, d : InCall(g, p, d)' <=> InCall(g, p, d)
      /\ \A p \in Opening : \A d : ~InCall(f, p, d)'
  BY <1>0, <1>1, DoneEffect
<1>4. CallbackInv'
  BY <1>1, DoneEffect
<1>5. \A p, d : p # "unlock" => ~InCall(f, p, d)
  BY <1>1, OneCall DEF InCall
<1>6. \A g \in Frames, p \in {"join", "spawn"} : \A d : InCall(g, p, d)' <=> InCall(g, p, d)
  BY <1>3, <1>5 DEF Opening
<1>7. OwnerInv'
  <2>1. mMutex = f /\ f \in Users /\ f # Monitor
    BY <1>1, FramesAreUsers DEF ServiceInv, OwnerInv
  <2>2. ASSUME NEW g \in Users PROVE ~(\E d \in Components : InCall(g, "unlock", d)')
    <3>1. CASE g = f
      BY <1>3, <3>1 DEF Opening
    <3>2. CASE g # f
      <4>1. g \in Frames
        BY FramesAreUsers
      <4> QED
        BY <1>3, <2>1, <3>2, <4>1 DEF ServiceInv, OwnerInv
    <3> QED
      BY <3>1, <3>2
  <2> QED
    BY <1>6, <2>1, <2>2, HealthAssumption DEF ServiceInv, OwnerInv
<1>8. PollerInv'
  BY <1>6 DEF ServiceInv, PollerInv
<1> QED
  BY <1>3, <1>4, <1>7, <1>8 DEF Held

\* A step that leaves all frames' calls alone.
LEMMA SameCalls ==
  ASSUME ServiceInv, todo' = todo, UNCHANGED <<active, threadMutex>>,
         \A o \in Objects : poller'[o] = "none" <=> poller[o] = "none",
         mMutex' = Monitor <=> monitor' \in Holding,
         \A g \in Users : mMutex' = g <=> mMutex = g,
         monitor' = monitor \/ todo["monitor"] = <<>>
  PROVE todo' \in [Frames -> Seq(Calls)] /\ Held'
<1>1. TailInv' /\ \A g, op, c : InCall(g, op, c)' <=> InCall(g, op, c)
  BY DEF ServiceInv, TailInv, InCall, Next1
<1>2. CallbackInv'
  <2>1. CASE monitor' = monitor
    BY <2>1 DEF ServiceInv, CallbackInv
  <2>2. CASE todo["monitor"] = <<>>
    BY <2>2 DEF CallbackInv
  <2> QED
    BY <2>1, <2>2
<1>3. todo' \in [Frames -> Seq(Calls)]
  BY DEF ServiceInv, ServiceTypeOK
<1> QED
  BY <1>1, <1>2, <1>3, NothingOpens

\* A call on an object is one of the ways above.
LEMMA ObjectCallKeeps ==
  ASSUME ServiceInv, NEW f \in Frames, NEW o \in Objects,
         \/ Deactivate(f, o) \/ Join(f, o) \/ Activate(f, o) \/ Spawn(f, o) \/ Free(f, o)
  PROVE todo' \in [Frames -> Seq(Calls)] /\ Held'
<1> DEFINE none == <<>>
<1>0. none \in Seq(Calls) /\ \A i \in 1 .. Len(none) : FALSE
  OBVIOUS
<1>d. ASSUME Done(f) PROVE Becomes(f, none)
  BY <1>d DEF Done
<1>t. active \in [Objects -> BOOLEAN] /\ threadMutex \in [Objects -> Frames \cup {Nobody}]
  BY DEF ServiceInv, ServiceTypeOK
<1> HIDE DEF none
<1>c. \A op \in {"join", "spawn"} : /\ <<Call(op, o)>> \in Seq(Calls)
                                    /\ Len(<<Call(op, o)>>) = 1
                                    /\ <<Call(op, o)>>[1] = Call(op, o)
                                    /\ <<Call(op, o)>> # <<>>
  BY OneCall DEF ObjectOps
<1>1. CASE Deactivate(f, o)
  <2>0. At(f, "stop", o) /\ threadMutex[o] = Nobody /\ UNCHANGED <<mMutex, monitor, poller>>
    BY <1>1 DEF Deactivate, On, healthVars, loopVars
  <2>1. CASE active[o]
    <3> DEFINE s == <<Call("join", o)>>
    <3>1. Becomes(f, s) /\ s \in Seq(Calls) /\ Len(s) = 1 /\ s[1] = Call("join", o) /\ s # <<>>
      BY <1>1, <1>c, <2>1 DEF Deactivate
    <3> HIDE DEF s
    <3>2. ~active'[o] /\ \A d \in Objects \ {o} : active'[d] = active[d]
      BY <1>1, <1>t, <2>1 DEF Deactivate
    <3>3. "stop" \notin Opening /\ "join" \in {"join", "spawn"} /\ \A i \in 2 .. Len(s) : FALSE
      BY <3>1 DEF Opening
    <3>4. threadMutex' = [threadMutex EXCEPT ![o] = f]
      BY <1>1, <2>1 DEF Deactivate
    <3> QED
      BY <2>0, <2>1, <3>1, <3>2, <3>3, <3>4, TakesThreadMutex
  <2>2. CASE ~active[o]
    <3>1. active' = active
      BY <1>1, <1>t, <2>2 DEF Deactivate
    <3>2. Done(f) /\ threadMutex' = threadMutex
      BY <1>1, <2>2 DEF Deactivate
    <3> QED
      BY <1>0, <1>d, <2>0, <3>1, <3>2, QuietCall DEF Opening
  <2> QED
    BY <2>1, <2>2
<1>2. CASE Join(f, o)
  BY <1>2, GivesThreadMutex DEF Join, On
<1>3. CASE Activate(f, o)
  <2>0. At(f, "start", o) /\ threadMutex[o] = Nobody /\ UNCHANGED <<mMutex, monitor, poller>>
    BY <1>3 DEF Activate, On, healthVars, loopVars
  <2>1. CASE ~active[o] /\ queue[o]
    <3> DEFINE s == <<Call("spawn", o)>>
    <3>1. Becomes(f, s) /\ s \in Seq(Calls) /\ Len(s) = 1 /\ s[1] = Call("spawn", o) /\ s # <<>>
      BY <1>3, <1>c, <2>1 DEF Activate
    <3> HIDE DEF s
    <3>2. active'[o] /\ \A d \in Objects \ {o} : active'[d] = active[d]
      BY <1>3, <1>t, <2>1 DEF Activate
    <3>3. "start" \notin Opening /\ "spawn" \in {"join", "spawn"} /\ \A i \in 2 .. Len(s) : FALSE
      BY <3>1 DEF Opening
    <3>4. threadMutex' = [threadMutex EXCEPT ![o] = f]
      BY <1>3, <2>1 DEF Activate
    <3> QED
      BY <2>0, <2>1, <3>1, <3>2, <3>3, <3>4, TakesThreadMutex
  <2>2. CASE ~(~active[o] /\ queue[o])
    <3>1. Done(f) /\ UNCHANGED <<active, threadMutex>>
      BY <1>3, <2>2 DEF Activate
    <3> QED
      BY <1>0, <1>d, <2>0, <3>1, QuietCall DEF Opening
  <2> QED
    BY <2>1, <2>2
<1>4. CASE Spawn(f, o)
  BY <1>4, GivesThreadMutex DEF Spawn, On
<1>5. CASE Free(f, o)
  <2>0. At(f, "free", o) /\ UNCHANGED <<healthVars, active, poller, threadMutex>>
    BY <1>5 DEF Free, On
  <2>1. CASE poller[o] = "none"
    BY <1>0, <1>5, <1>d, <2>0, <2>1, QuietCall DEF Free, Opening, RestartOps
  <2>2. CASE poller[o] # "none"
    <3>1. todo' = todo
      BY <1>5, <2>2 DEF Free
    <3> QED
      BY <2>0, <3>1, SameCalls DEF ServiceInv, OwnerInv
  <2> QED
    BY <2>1, <2>2
<1> QED
  BY <1>1, <1>2, <1>3, <1>4, <1>5

\* So is a call through a pointer.
LEMMA PointerCallKeeps ==
  ASSUME ServiceInv, NEW f \in Frames, NEW c \in Components,
         \/ Construct(f, c) \/ Pause(f, c) \/ LoadPointer(f, c)
         \/ Beat(f, c) \/ Report(f, c) \/ Unlock(f, c) \/ Check(f, c) \/ Recover(f, c)
  PROVE todo' \in [Frames -> Seq(Calls)] /\ Held'
<1> DEFINE none == <<>>
<1>0. none \in Seq(Calls) /\ Len(none) = 0 /\ \A i \in 1 .. Len(none) : FALSE
  OBVIOUS
<1>d. ASSUME Done(f) PROVE Becomes(f, none)
  BY <1>d DEF Done
<1> HIDE DEF none
<1>1. CASE Construct(f, c)
  <2> DEFINE old == Published(c)
             three == <<Call("stop", old), Call("stop", old), Call("free", old)>>
  <2>1. CASE current[c] = 0
    <3>1. Becomes(f, none)
      BY <1>1, <2>1 DEF Construct, none
    <3> QED
      BY <1>0, <1>1, <3>1, QuietCall DEF Construct, Opening
  <2>2. CASE current[c] # 0
    <3>1. old \in Objects
      BY <2>2, PublishedObject DEF ServiceInv
    <3>2. Becomes(f, three)
      BY <1>1, <2>2 DEF Construct
    <3> HIDE DEF old
    <3>3. three \in Seq(Calls) /\ \A i \in 1 .. Len(three) : three[i].op \in {"stop", "free"}
      BY <3>1, OneCall DEF ObjectOps
    <3>4. "construct" \notin Opening \cup RestartOps /\ {"stop", "free"} \cap (Opening \cup {"unlock", "result"}) = {}
      BY DEF Opening, RestartOps
    <3> HIDE DEF three
    <3> QED
      BY <1>1, <3>2, <3>3, <3>4, QuietCall DEF Construct
  <2> QED
    BY <2>1, <2>2
<1>2. CASE Pause(f, c)
  BY <1>0, <1>2, <1>d, QuietCall DEF Pause, Opening, notifierVars
<1>3. CASE LoadPointer(f, c)
  <2>1. PICK op \in {"deactivate", "activate"} :
           /\ At(f, op, c)
           /\ Becomes(f, IF current[c] = 0 THEN none
                         ELSE <<Call(IF op = "deactivate" THEN "stop" ELSE "start", Published(c))>>)
    BY <1>3 DEF LoadPointer, none
  <2> DEFINE s == IF current[c] = 0 THEN none
                  ELSE <<Call(IF op = "deactivate" THEN "stop" ELSE "start", Published(c))>>
  <2>2. s \in Seq(Calls) /\ \A i \in 1 .. Len(s) : s[i].op \in {"stop", "start"}
    <3>1. CASE current[c] = 0
      BY <1>0, <3>1
    <3>2. CASE current[c] # 0
      <4>1. Published(c) \in Objects
        BY <3>2, PublishedObject DEF ServiceInv
      <4> DEFINE o == Published(c)
                 p == IF op = "deactivate" THEN "stop" ELSE "start"
      <4>2. o \in Objects /\ p \in {"stop", "start"}
        BY <4>1
      <4>3. s = <<Call(p, o)>>
        BY <3>2
      <4> HIDE DEF o, p, s
      <4>4. Call(p, o) \in Calls /\ Call(p, o).op = p
        BY <4>2, OneCall DEF ObjectOps
      <4> QED
        BY <4>2, <4>3, <4>4
    <3> QED
      BY <3>1, <3>2
  <2>3. Becomes(f, s)
    BY <2>1
  <2>4. UNCHANGED <<mMutex, monitor, active, poller, threadMutex>>
    BY <1>3 DEF LoadPointer, notifierVars, healthVars, loopVars
  <2> HIDE DEF s
  <2> QED
    BY <2>1, <2>2, <2>3, <2>4, QuietCall DEF Opening, RestartOps
<1>8. CASE Beat(f, c)
  BY <1>8, TakesMutex DEF Beat, UpdateHeartbeat, notifierVars
<1>9. CASE Report(f, c)
  BY <1>9, TakesMutex DEF Report, ReadHealth, notifierVars
<1>10. CASE Unlock(f, c)
  BY <1>10, GivesMutex DEF Unlock, UnlockHeartbeat, notifierVars
<1>11. CASE Check(f, c)
  <2>1. PICK s \in {none, <<Call("beat", c)>>} : Becomes(f, s)
    BY <1>11 DEF Check, none
  <2>2. s \in Seq(Calls) /\ \A i \in 1 .. Len(s) : s[i].op = "beat"
    <3>1. <<Call("beat", c)>> \in Seq(Calls) /\ \A i \in 1 .. Len(<<Call("beat", c)>>) : <<Call("beat", c)>>[i].op = "beat"
      BY OneCall DEF PointerOps
    <3> QED
      BY <1>0, <3>1
  <2> QED
    BY <1>11, <2>1, <2>2, QuietCall DEF Check, Opening, RestartOps, notifierVars
<1>12. CASE Recover(f, c)
  <2> DEFINE four == <<Call("deactivate", c), Call("pause", c), Call("activate", c), Call("beat", c)>>
  <2>1. PICK s \in {none, four} : Becomes(f, s)
    BY <1>12 DEF Recover, none
  <2>2. s \in Seq(Calls) /\ \A i \in 1 .. Len(s) : s[i].op \in {"deactivate", "pause", "activate", "beat"}
    <3>1. four \in Seq(Calls) /\ \A i \in 1 .. Len(four) : four[i].op \in {"deactivate", "pause", "activate", "beat"}
      BY OneCall DEF PointerOps
    <3> QED
      BY <1>0, <3>1
  <2> QED
    BY <1>12, <2>1, <2>2, QuietCall DEF Recover, Opening, RestartOps, notifierVars
<1> QED
  BY <1>1, <1>2, <1>3, <1>8, <1>9, <1>10, <1>11, <1>12

\* A step of a frame is one of these calls.
LEMMA FrameStepKeeps ==
  ASSUME ServiceInv, NEW f \in Frames, FrameStep(f)
  PROVE todo' \in [Frames -> Seq(Calls)] /\ Held'
BY ObjectCallKeeps, PointerCallKeeps DEF FrameStep, SlowCall, PromptCall

\* The other steps: frame f had nothing to do and is given the calls s.
LEMMA GivenCalls ==
  ASSUME ServiceInv, NEW f \in Frames, todo[f] = <<>>,
         NEW s \in Seq(Calls), \A i \in 1 .. Len(s) : s[i].op \notin Opening,
         todo' = [todo EXCEPT ![f] = s],
         UNCHANGED <<active, poller, threadMutex>>,
         mMutex' = Monitor <=> monitor' \in Holding,
         \A g \in Users : mMutex' = g <=> mMutex = g,
         CallbackInv'
  PROVE todo' \in [Frames -> Seq(Calls)] /\ Held'
<1>1. /\ todo' \in [Frames -> Seq(Calls)]
      /\ TailInv'
      /\ \A g \in Frames, op \in Opening : \A c : InCall(g, op, c)' <=> InCall(g, op, c)
  BY StartsEffect DEF ServiceInv, ServiceTypeOK
<1>2. Held'
  BY <1>1, NothingOpens
<1> QED
  BY <1>1, <1>2

\* main() asks for calls only when it has none.
LEMMA MainStepKeeps ==
  ASSUME ServiceInv, MainStep
  PROVE todo' \in [Frames -> Seq(Calls)] /\ Held'
<1>0. /\ mMutex = Monitor <=> monitor \in Holding
      /\ todo["monitor"] # <<>> => monitor \in {"reporting", "restarting"}
      /\ "main" \in Frames
  BY DEF ServiceInv, OwnerInv, CallbackInv, Frames
<1>1. CASE Setup \/ TestRetry \/ Stop \/ Exit
  <2>1. /\ todo' = todo /\ UNCHANGED notifierVars /\ mMutex' = mMutex
        /\ monitor' = monitor \/ (monitor = "idle" /\ monitor' = "testing")
    BY <1>1 DEF Setup, TestRetry, Stop, Exit, StartMonitoring, StopMonitoring
  <2> QED
    BY <1>0, <2>1, SameCalls DEF notifierVars
<1>2. ASSUME NEW s \in Seq(Calls), \A i \in 1 .. Len(s) : s[i].op \notin Opening,
             todo["main"] = <<>>, todo' = [todo EXCEPT !["main"] = s],
             UNCHANGED <<healthVars, notifierVars>>
      PROVE todo' \in [Frames -> Seq(Calls)] /\ Held'
  <2>1. todo'["monitor"] = todo["monitor"]
    BY <1>2 DEF ServiceInv, ServiceTypeOK, Frames
  <2>2. CallbackInv'
    BY <1>2, <2>1 DEF ServiceInv, CallbackInv
  <2> QED
    BY <1>0, <1>2, <2>2, GivenCalls DEF notifierVars
<1>3. CASE TestRunning
  <2>1. CASE gRunning
    BY <1>0, <1>3, <2>1, SameCalls DEF TestRunning, notifierVars
  <2>2. CASE ~gRunning
    <3>1. todo["main"] = <<>> /\ todo' = [todo EXCEPT !["main"] = Each("deactivate")]
             /\ UNCHANGED <<healthVars, notifierVars>>
      BY <1>3, <2>2 DEF TestRunning, MainAt
    <3>2. /\ Each("deactivate") \in Seq(Calls)
          /\ \A i \in 1 .. Len(Each("deactivate")) : Each("deactivate")[i].op \notin Opening
      BY EachCalls DEF PointerOps, Opening
    <3> QED
      BY <1>2, <3>1, <3>2
  <2> QED
    BY <2>1, <2>2
<1>4. CASE Awake
  <2>1. PICK report \in {<<>>, Each("report")} : todo' = [todo EXCEPT !["main"] = Each("check") \o report]
    BY <1>4 DEF Awake
  <2> DEFINE s == Each("check") \o report
  <2>2. /\ Each("check") \in Seq(Calls)
        /\ \A i \in 1 .. Len(Each("check")) : Each("check")[i].op \notin Opening
    BY EachCalls DEF PointerOps, Opening
  <2>3. /\ report \in Seq(Calls)
        /\ \A i \in 1 .. Len(report) : report[i].op \notin Opening
    <3>1. CASE report = <<>>
      BY <3>1
    <3>2. CASE report = Each("report")
      BY <3>2, EachCalls DEF PointerOps, Opening
    <3> QED
      BY <3>1, <3>2
  <2>4. s \in Seq(Calls) /\ \A i \in 1 .. Len(s) : s[i].op \notin Opening
    BY <2>2, <2>3, TwoParts
  <2>5. todo["main"] = <<>> /\ UNCHANGED <<healthVars, notifierVars>>
    BY <1>4 DEF Awake, MainAt
  <2> HIDE DEF s
  <2>6. todo' = [todo EXCEPT !["main"] = s]
    BY <2>1 DEF s
  <2> QED
    BY <1>2, <2>4, <2>5, <2>6
<1>5. CASE GetService
  <2>1. CASE todo' = todo
    BY <1>0, <1>5, <2>1, SameCalls DEF GetService, notifierVars
  <2>2. CASE todo' # todo
    <3> DEFINE new == [c \in Components |-> <<Call("construct", c), Call("activate", c), Call("beat", c)>>]
               s == InOrder(new)
    <3>1. s \in Seq(Calls) /\ \A i \in 1 .. Len(s) : s[i].op \in {"construct", "activate", "beat"}
      BY CreationCalls
    <3>2. todo' = [todo EXCEPT !["main"] = s]
      BY <1>5, <2>2 DEF GetService
    <3> HIDE DEF s
    <3> QED
      BY <1>2, <1>5, <3>1, <3>2 DEF GetService, MainAt, Opening
  <2> QED
    BY <2>1, <2>2
<1> QED
  BY <1>1, <1>3, <1>4, <1>5 DEF MainStep, PromptMain

\* So does the monitor, which has mMutex then.
LEMMA MonitorStepKeeps ==
  ASSUME ServiceInv, MonitorStep
  PROVE todo' \in [Frames -> Seq(Calls)] /\ Held'
<1>0. /\ mMutex = Monitor <=> monitor \in Holding
      /\ "monitor" \in Frames
      /\ todo \in [Frames -> Seq(Calls)]
      /\ mMutex \in Users \cup {Monitor, Nobody}
      /\ Monitor \notin Users /\ Nobody \notin Users \cup {Monitor}
  BY HealthAssumption DEF ServiceInv, OwnerInv, ServiceTypeOK, HealthTypeOK, Frames
<1>1. UNCHANGED notifierVars
  BY DEF MonitorStep, PromptMonitor, SlowMonitor
<1>2. ASSUME NEW s \in Seq(Calls), NEW ops, ops \cap (Opening \cup {"result"}) = {},
             \A i \in 1 .. Len(s) : \/ s[i].op \in ops
                                    \/ s[i].op = "result" /\ i = Len(s),
             todo["monitor"] = <<>>, todo' = [todo EXCEPT !["monitor"] = s],
             monitor' = "reporting" \/ (monitor' = "restarting" /\ ops \subseteq RestartOps),
             mMutex' = Monitor, \A g \in Users : mMutex # g
      PROVE todo' \in [Frames -> Seq(Calls)] /\ Held'
  <2>1. todo'["monitor"] = s
    BY <1>0, <1>2
  <2>2. CallbackInv'
    <3>1. \A i \in 1 .. Len(s) : s[i].op # "unlock"
      BY <1>2 DEF Opening
    <3>2. monitor' = "restarting" => \A i \in 1 .. Len(s) : s[i].op \in RestartOps
      BY <1>2 DEF RestartOps
    <3>3. \A i \in 1 .. Len(s) : s[i].op = "result" => i = Len(s)
      BY <1>2
    <3> QED
      BY <1>2, <2>1, <3>1, <3>2, <3>3 DEF CallbackInv
  <2>3. \A i \in 1 .. Len(s) : s[i].op \notin Opening
    BY <1>2 DEF Opening
  <2>4. /\ mMutex' = Monitor <=> monitor' \in Holding
        /\ \A g \in Users : mMutex' = g <=> mMutex = g
    BY <1>0, <1>2
  <2> QED
    BY <1>0, <1>1, <1>2, <2>2, <2>3, <2>4, GivenCalls DEF notifierVars
<1>3. CASE Test \/ WakeUp \/ PlainStep
  <2>1. todo["monitor"] = <<>> /\ todo' = todo
    BY <1>3 DEF Test, WakeUp, PlainStep, MonitorRuns
  <2>2. /\ mMutex' = Monitor <=> monitor' \in Holding
        /\ \A g \in Users : mMutex' = g <=> mMutex = g
    BY <1>0, <1>3 DEF Test, WakeUp, PlainStep, TestMonitoring, Wake, LockForScan, ReportReturns,
                      EndScan, Consider, EndPass
  <2> QED
    BY <1>1, <2>1, <2>2, SameCalls DEF notifierVars
<1>4. ASSUME NEW c \in Components, ScanOne(c) PROVE todo' \in [Frames -> Seq(Calls)] /\ Held'
  <2>1. todo["monitor"] = <<>> /\ mMutex = Monitor /\ mMutex' = mMutex /\ monitor' \in Holding
    BY <1>0, <1>4 DEF ScanOne, MonitorRuns, Scan
  <2>2. CASE isAlive[c] /\ AutoRecovery /\ current[c] > 0
    <3> DEFINE s == <<Call("deactivate", c), Call("pause", c), Call("construct", c),
                      Call("activate", c), Call("beat", c)>>
               ops == {"deactivate", "pause", "construct", "activate", "beat"}
    <3>1. s \in Seq(Calls) /\ \A i \in 1 .. Len(s) : s[i].op \in ops
      BY OneCall DEF PointerOps
    <3>2. todo' = [todo EXCEPT !["monitor"] = s] /\ monitor' = "reporting"
      BY <1>4, <2>2 DEF ScanOne, Scan
    <3>3. ops \cap (Opening \cup {"result"}) = {}
      BY DEF Opening
    <3> HIDE DEF s, ops
    <3> QED
      BY <1>0, <1>2, <2>1, <3>1, <3>2, <3>3
  <2>3. CASE ~(isAlive[c] /\ AutoRecovery /\ current[c] > 0)
    <3>1. todo' = todo
      BY <1>4, <2>3 DEF ScanOne
    <3> QED
      BY <1>0, <1>1, <2>1, <3>1, SameCalls DEF notifierVars
  <2> QED
    BY <2>2, <2>3
<1>5. CASE Trigger
  <2> DEFINE c == Head(unhealthy)
  <2>1. todo["monitor"] = <<>> /\ TriggerRecovery
    BY <1>5 DEF Trigger, MonitorRuns
  <2>2. c \in Components
    BY <2>1, TailKeepsOthers DEF TriggerRecovery, ServiceInv, IInv, ListInv, HealthTypeOK
  <2>3. CASE CanRestart(c) /\ current[c] > 0
    <3> DEFINE s == <<Call("deactivate", c), Call("pause", c), Call("activate", c), Call("result", c)>>
               ops == {"deactivate", "pause", "activate"}
    <3>1. s \in Seq(Calls) /\ \A i \in 1 .. Len(s) : s[i].op \in ops \/ (s[i].op = "result" /\ i = Len(s))
      BY <2>2, OneCall DEF PointerOps
    <3>2. todo' = [todo EXCEPT !["monitor"] = s]
      BY <1>5, <2>3 DEF Trigger
    <3>3. monitor' = "restarting" /\ mMutex = Nobody /\ mMutex' = Monitor
      BY <2>1, <2>3 DEF TriggerRecovery
    <3>4. ops \cap (Opening \cup {"result"}) = {} /\ ops \subseteq RestartOps
      BY DEF Opening, RestartOps
    <3> HIDE DEF s, ops, c
    <3> QED
      BY <1>0, <1>2, <2>1, <3>1, <3>2, <3>3, <3>4
  <2>4. CASE ~(CanRestart(c) /\ current[c] > 0)
    <3>1. todo' = todo
      BY <1>5, <2>4 DEF Trigger
    <3>2. /\ mMutex' = Monitor <=> monitor' \in Holding
          /\ \A g \in Users : mMutex' = g <=> mMutex = g
      BY <1>0, <2>1 DEF TriggerRecovery
    <3> QED
      BY <1>1, <2>1, <3>1, <3>2, SameCalls DEF notifierVars
  <2> QED
    BY <2>3, <2>4
<1>6. CASE Restarted
  <2>1. /\ mMutex = Monitor /\ mMutex' = Nobody /\ monitor' = "recovering"
        /\ monitor = "restarting"
    BY <1>0, <1>6 DEF Restarted, RestartReturns
  <2>2. CASE MonitorRuns /\ todo' = todo
    BY <1>0, <1>1, <2>1, <2>2, SameCalls DEF MonitorRuns, notifierVars
  <2>3. ASSUME NEW c \in Components, At("monitor", "result", c), Done("monitor")
        PROVE todo' \in [Frames -> Seq(Calls)] /\ Held'
    <3>1. /\ todo["monitor"] # <<>> /\ 1 \in 1 .. Len(todo["monitor"])
          /\ todo["monitor"][1].op = "result" /\ InCall("monitor", "result", c)
      BY <1>0, <2>3, AtFirst
    <3>2. Len(todo["monitor"]) = 1
      BY <3>1 DEF ServiceInv, CallbackInv
    <3> DEFINE s == <<>>
    <3>3. Becomes("monitor", s) /\ s \in Seq(Calls) /\ s = <<>> /\ \A i \in 2 .. Len(s) : FALSE
      BY <2>3 DEF Done
    <3>4. s \o Tail(todo["monitor"]) = <<>>
      <4> DEFINE u == s \o Tail(todo["monitor"])
      <4>1. u \in Seq(Calls) /\ Len(u) = 0 + Len(todo["monitor"]) - 1
        BY <1>0, <3>1, <3>3, Splice
      <4> HIDE DEF u
      <4>2. Len(u) = 0
        BY <3>2, <4>1
      <4>3. u = <<>>
        BY <4>1, <4>2
      <4> QED
        BY <4>3 DEF u
    <3>5. todo'["monitor"] = <<>>
      BY <1>0, <3>3, <3>4 DEF Becomes
    <3> HIDE DEF s
    <3>6. /\ todo' \in [Frames -> Seq(Calls)]
          /\ TailInv'
          /\ \A g \in Frames \ {"monitor"} : \A p, d : InCall(g, p, d)' <=> InCall(g, p, d)
          /\ \A p \in Opening : \A d : ~InCall("monitor", p, d)'
      BY <1>0, <3>1, <3>3, BecomesEffect DEF ServiceInv
    <3>7. CallbackInv'
      BY <3>5 DEF CallbackInv
    <3>8. \A p \in Opening : \A d : ~InCall("monitor", p, d)
      BY <3>1, OneCall DEF InCall, Opening
    <3>9. \A g \in Frames, p \in Opening : \A d : InCall(g, p, d)' <=> InCall(g, p, d)
      BY <3>6, <3>8
    <3> QED
      BY <1>0, <1>1, <2>1, <3>6, <3>7, <3>9, NothingOpens DEF notifierVars
  <2> QED
    BY <1>6, <2>2, <2>3 DEF Restarted
<1> QED
  BY <1>3, <1>4, <1>5, <1>6 DEF MonitorStep, PromptMonitor, SlowMonitor

\* Signals, ending polling threads and time take no mutex.
LEMMA OtherStepKeeps ==
  ASSUME ServiceInv, Terminate \/ (\E t \in {"main", "monitor"} : Usr1(t))
                       \/ (\E o \in Objects : PollerEnds(o))
                       \/ (\E f \in Frames, o \in Objects : UseFreed(f, o))
                       \/ Tick \/ UNCHANGED vars
  PROVE todo' \in [Frames -> Seq(Calls)] /\ Held'
<1>0. /\ mMutex = Monitor <=> monitor \in Holding
      /\ todo \in [Frames -> Seq(Calls)]
      /\ poller \in [Objects -> {"none", "running", "ended"}]
  BY DEF ServiceInv, OwnerInv, ServiceTypeOK
<1>1. CASE Terminate \/ Tick \/ UNCHANGED vars \/ (\E f \in Frames, o \in Objects : UseFreed(f, o))
  <2>1. UNCHANGED <<todo, mMutex, monitor, notifierVars>>
    BY <1>1 DEF Terminate, Tick, TimePasses, UseFreed, vars, processVars
  <2> QED
    BY <1>0, <2>1, SameCalls DEF notifierVars
<1>2. ASSUME NEW o \in Objects, PollerEnds(o) PROVE todo' \in [Frames -> Seq(Calls)] /\ Held'
  <2>1. UNCHANGED <<todo, mMutex, monitor, active, threadMutex>>
    BY <1>2 DEF PollerEnds, processVars
  <2>2. \A d \in Objects : poller'[d] = "none" <=> poller[d] = "none"
    BY <1>0, <1>2 DEF PollerEnds
  <2> QED
    BY <1>0, <2>1, <2>2, SameCalls
<1>3. ASSUME NEW t \in {"main", "monitor"}, Usr1(t) PROVE todo' \in [Frames -> Seq(Calls)] /\ Held'
  <2> DEFINE s == Each("recover")
             f == HandlerOn(t)
  <2>1. s \in Seq(Calls) /\ \A i \in 1 .. Len(s) : s[i].op \notin Opening
    BY EachCalls DEF PointerOps, Opening
  <2>2. f \in Frames /\ f # "monitor"
    BY DEF HandlerOn, Frames, Handlers
  <2>3. todo[f] = <<>> /\ todo' = [todo EXCEPT ![f] = s] /\ UNCHANGED <<healthVars, notifierVars>>
    BY <1>3 DEF Usr1
  <2> HIDE DEF s, f
  <2>4. CallbackInv'
    <3>1. todo'["monitor"] = todo["monitor"]
      BY <1>0, <2>2, <2>3
    <3> QED
      BY <2>3, <3>1 DEF ServiceInv, CallbackInv
  <2> QED
    BY <1>0, <2>1, <2>2, <2>3, <2>4, GivenCalls DEF notifierVars
<1> QED
  BY <1>1, <1>2, <1>3

\* Every step keeps the types of the variables.
LEMMA TypeKept ==
  ASSUME ServiceInv, [Next]_vars, todo' \in [Frames -> Seq(Calls)], HealthTypeOK'
  PROVE ServiceTypeOK'
<1> DEFINE Process == /\ gRunning \in BOOLEAN
                      /\ phase \in Phases
                      /\ slept \subseteq {"main", "monitor"}
                      /\ signals \in 0 .. MaxSignals
                      /\ revived \subseteq Objects
           Notifiers == /\ current \in [Components -> 0 .. MaxObjects]
                        /\ freed \subseteq Objects
                        /\ queue \in [Objects -> BOOLEAN]
                        /\ active \in [Objects -> BOOLEAN]
                        /\ poller \in [Objects -> {"none", "running", "ended"}]
                        /\ threadMutex \in [Objects -> Frames \cup {Nobody}]
           Rest == Process /\ Notifiers
<1>0. Rest
  BY DEF ServiceInv, ServiceTypeOK
<1> SUFFICES Rest'
  BY DEF ServiceTypeOK
<1>1. ASSUME NEW f \in Frames, FrameStep(f) PROVE Rest'
  <2>1. ASSUME NEW c \in Components, Construct(f, c) PROVE Rest'
    <3>1. current' \in [Components -> 0 .. MaxObjects]
      BY <1>0, <2>1, ServiceAssumption DEF Construct
    <3>2. queue' \in [Objects -> BOOLEAN]
      BY <1>0, <2>1 DEF Construct
    <3> QED
      BY <1>0, <2>1, <3>1, <3>2 DEF Construct
  <2>2. ASSUME NEW c \in Components,
               \/ Pause(f, c) \/ LoadPointer(f, c) \/ Beat(f, c) \/ Report(f, c)
               \/ Unlock(f, c) \/ Check(f, c) \/ Recover(f, c)
        PROVE Rest'
    <3>1. UNCHANGED <<gRunning, phase, slept, signals, revived, notifierVars>>
      BY <2>2 DEF Pause, LoadPointer, Beat, Report, Unlock, Check, Recover
    <3> QED
      BY <1>0, <3>1 DEF notifierVars
  <2>3. ASSUME NEW o \in Objects, Deactivate(f, o) PROVE Rest'
    BY <1>0, <2>3 DEF Deactivate
  <2>4. ASSUME NEW o \in Objects, Activate(f, o) PROVE Rest'
    BY <1>0, <2>4 DEF Activate
  <2>5. ASSUME NEW o \in Objects, Join(f, o) \/ Spawn(f, o) PROVE Rest'
    BY <1>0, <2>5 DEF Join, Spawn
  <2>6. ASSUME NEW o \in Objects, Free(f, o) PROVE Rest'
    BY <1>0, <2>6 DEF Free, Phases
  <2> QED
    BY <1>1, <2>1, <2>2, <2>3, <2>4, <2>5, <2>6 DEF FrameStep, SlowCall, PromptCall
<1>2. CASE MainStep
  <2>1. UNCHANGED <<revived, notifierVars>>
    BY <1>2 DEF MainStep, PromptMain, Setup, TestRetry, GetService, TestRunning, Awake, Stop, Exit
  <2>2. /\ gRunning' = gRunning /\ phase' \in Phases
        /\ slept' \subseteq slept /\ signals' = signals
    BY <1>0, <1>2 DEF MainStep, PromptMain, Setup, TestRetry, GetService, TestRunning, Awake, Stop, Exit,
                      Phases
  <2> QED
    BY <1>0, <2>1, <2>2 DEF notifierVars
<1>3. CASE MonitorStep
  <2>1. UNCHANGED <<gRunning, phase, signals, revived, notifierVars>> /\ slept' \subseteq slept
    BY <1>3 DEF MonitorStep, PromptMonitor, SlowMonitor, Test, WakeUp, PlainStep, ScanOne, Trigger, Restarted
  <2> QED
    BY <1>0, <2>1 DEF notifierVars
<1>4. CASE Terminate \/ Tick \/ UNCHANGED vars
  BY <1>0, <1>4 DEF Terminate, Tick, vars, notifierVars, processVars
<1>5. ASSUME NEW t \in {"main", "monitor"}, Usr1(t) PROVE Rest'
  BY <1>0, <1>5, ServiceAssumption DEF Usr1, notifierVars
<1>6. ASSUME NEW o \in Objects, PollerEnds(o) PROVE Rest'
  BY <1>0, <1>6 DEF PollerEnds, processVars
<1>7. ASSUME NEW f \in Frames, NEW o \in Objects, UseFreed(f, o) PROVE Rest'
  BY <1>0, <1>7 DEF UseFreed, notifierVars, Phases
<1> QED
  BY <1>1, <1>2, <1>3, <1>4, <1>5, <1>6, <1>7 DEF Next

\* Nobody has anything to do at the start.
LEMMA InitServiceInv == Init => ServiceInv
<1> SUFFICES ASSUME Init PROVE ServiceInv
  OBVIOUS
<1>1. IInv
  BY InitIInv DEF Init
<1>2. todo \in [Frames -> Seq(Calls)]
  BY DEF Init
<1>3. ServiceTypeOK
  BY <1>1, <1>2, ServiceAssumption DEF Init, ServiceTypeOK, Phases, IInv
<1>4. \A f \in Frames : todo[f] = <<>>
  BY DEF Init
<1>5. \A f \in Frames : \A op, c : ~InCall(f, op, c)
  BY <1>4 DEF InCall
<1>6. TailInv /\ CallbackInv
  BY <1>4 DEF TailInv, CallbackInv, Frames
<1>7. mMutex = Nobody /\ monitor = "idle" /\ Nobody \notin Users /\ Monitor # Nobody
  BY HealthAssumption DEF Init, HealthInit
<1>8. OwnerInv
  BY <1>5, <1>7, FramesAreUsers DEF OwnerInv, Init
<1>9. PollerInv
  BY <1>5 DEF PollerInv, Init
<1> QED
  BY <1>1, <1>3, <1>6, <1>8, <1>9 DEF ServiceInv

\* Every step keeps the invariant.
LEMMA ServiceInvStep == ServiceInv /\ [Next]_vars => ServiceInv'
<1> SUFFICES ASSUME ServiceInv, [Next]_vars PROVE ServiceInv'
  OBVIOUS
<1>1. IInv' /\ HealthTypeOK'
  BY Simulation, IInvStep DEF ServiceInv, IInv
<1>2. todo' \in [Frames -> Seq(Calls)] /\ Held'
  BY FrameStepKeeps, MainStepKeeps, MonitorStepKeeps, OtherStepKeeps DEF Next
<1> QED
  BY <1>1, <1>2, TypeKept DEF ServiceInv, Held

-----------------------------------------------------------------------------
(* Theorems *)

\* ServiceInv holds in every reachable state.
THEOREM ServiceInvariance == Spec => []ServiceInv
<1>1. Init => ServiceInv
  BY InitServiceInv
<1>2. ServiceInv /\ [Next]_vars => ServiceInv'
  BY ServiceInvStep
<1> QED
  BY <1>1, <1>2, PTL DEF Spec

\* Every variable of the process keeps its type.
THEOREM ServiceTypeCorrect == Spec => []ServiceTypeOK
<1>1. ServiceInv => ServiceTypeOK
  BY DEF ServiceInv
<1> QED
  BY <1>1, ServiceInvariance, PTL

\* The monitor's and the notifiers' mutexes belong, at any moment, to nobody or
\* to a frame that is about to give them back, whatever signals and recoveries
\* interrupt each other.
THEOREM NoLeakedLockHolds == Spec => []NoLeakedLock
<1>1. ServiceInv => NoLeakedLock
  <2> SUFFICES ASSUME ServiceInv PROVE NoLeakedLock
    OBVIOUS
  <2>1. \A f \in Frames : todo[f] # <<>> => Next1(f) \in Calls
    BY DEF ServiceInv, ServiceTypeOK, Next1
  <2>2. \A f \in Frames : todo[f] # <<>> /\ Next1(f).op = "unlock" <=> \E c \in Components : InCall(f, "unlock", c)
    BY <2>1, CallFields DEF InCall, Calls, ObjectOps
  <2>3. \A f \in Users : f \in Frames
    BY FramesAreUsers
  <2>4. \A o \in Objects, f \in Frames :
           todo[f] # <<>> /\ Next1(f).op \in {"join", "spawn"} /\ Next1(f).on = o
               <=> InCall(f, "join", o) \/ InCall(f, "spawn", o)
    BY <2>1, CallFields DEF InCall
  <2> QED
    BY <2>2, <2>3, <2>4 DEF ServiceInv, OwnerInv, NoLeakedLock
<1> QED
  BY <1>1, ServiceInvariance, PTL

\* There is a polling thread for every active object and never a second one,
\* for any limits, any number of signals and of objects, destroyed ones included.
THEOREM SinglePollerHolds == Spec => []SinglePoller
<1>1. ServiceInv => SinglePoller
  <2> SUFFICES ASSUME ServiceInv PROVE SinglePoller
    OBVIOUS
  <2>1. \A f \in Frames : todo[f] # <<>> => Next1(f) \in Calls
    BY DEF ServiceInv, ServiceTypeOK, Next1
  <2>2. \A o \in Objects, f \in Frames :
           todo[f] # <<>> /\ Next1(f).op = "spawn" /\ Next1(f).on = o => InCall(f, "spawn", o)
    BY <2>1, CallFields DEF InCall
  <2> QED
    BY <2>2 DEF ServiceInv, PollerInv, SinglePoller
<1> QED
  BY <1>1, ServiceInvariance, PTL

\* To the health monitor the rest of the process is an environment it allows
\* for: every step of the process is a step of HealthMonitor or a stutter.
THEOREM ImplementsHealthMonitor == Spec => HealthInit /\ [][HealthNext]_healthVars
<1>1. Init => HealthInit
  BY DEF Init
<1>2. ServiceInv /\ [Next]_vars => [HealthNext]_healthVars
  BY Simulation
<1> QED
  BY <1>1, <1>2, ServiceInvariance, PTL DEF Spec

\* So the budget that is proved of the health monitor holds in the process.
THEOREM RestartBudgetInService == Spec => []RestartBudget
<1>1. ServiceInv => RestartBudget
  BY DEF ServiceInv, IInv
<1> QED
  BY <1>1, ServiceInvariance, PTL

\* No failure is forgotten between the loop, the callbacks and the handlers.
THEOREM EveryFailureTriedInService == Spec => []EveryFailureTried
<1>1. ServiceInv => EveryFailureTried
  BY TriedAtRest DEF ServiceInv
<1> QED
  BY <1>1, ServiceInvariance, PTL

-----------------------------------------------------------------------------
(* Deadlock *)

\* Waits form no circle if everybody waits for the monitor or for somebody who
\* does not wait, and the monitor only for the latter.
LEMMA Acyclic ==
  ASSUME NEW w \in [Frames -> SUBSET Frames],
         \A f \in Frames : \A o \in w[f] : o = "monitor" \/ w[o] = {},
         \A o \in w["monitor"] : o # "monitor" /\ w[o] = {}
  PROVE ~Circular(w)
<1> DEFINE Further(S) == UNION {w[o] : o \in S}
<1>1. ASSUME NEW f \in Frames PROVE f \notin w[f]
  OBVIOUS
<1>2. ASSUME NEW f \in Frames PROVE /\ Further(w[f]) \subseteq w["monitor"]
                                    /\ f \notin Further(w[f])
  <2>1. Further(w[f]) \subseteq w["monitor"]
    OBVIOUS
  <2>2. f \in w["monitor"] => Further(w[f]) = {}
    OBVIOUS
  <2> QED
    BY <2>1, <2>2
<1>3. ASSUME NEW f \in Frames PROVE Further(Further(w[f])) = {}
  BY <1>2
<1>4. Further({}) = {}
  OBVIOUS
<1> HIDE DEF Further
<1> SUFFICES ASSUME NEW f \in Frames,
                    f \in w[f] \cup Further(w[f]) \cup Further(Further(w[f]))
                            \cup Further(Further(Further(w[f])))
             PROVE FALSE
  BY DEF Circular, Further
<1> QED
  BY <1>1, <1>2, <1>3, <1>4

\* A frame that holds a mutex of the notifiers, or mMutex as a user, waits for
\* nobody.
LEMMA OwnersRun ==
  ASSUME ServiceInv, NEW o \in Frames,
         \/ o \in Users /\ mMutex = o
         \/ \E x \in Objects : threadMutex[x] = o
  PROVE BlockedBy(o) = {}
<1>1. PICK op \in {"unlock", "join", "spawn"} : \E x : InCall(o, op, x)
  BY DEF ServiceInv, OwnerInv
<1>2. \A d, p : At(o, p, d) => p = op
  BY <1>1, OneCall DEF At, InCall
<1>3. todo[o] # <<>>
  BY <1>1 DEF InCall
<1>4. ~(o = "monitor" /\ MonitorRuns) /\ ~(o = "main" /\ (MainAt("joining") \/ MainAt("failing")))
  BY <1>3 DEF MonitorRuns, MainAt
<1> QED
  BY <1>2, <1>4 DEF BlockedBy
=============================================================================
