--------------------------- MODULE ServiceEndProofs ---------------------------
(***************************************************************************)
(* Who can wait for whom in the process, and what main() leaves behind     *)
(* when it ends, for any timeout, any limit on restarts and any number of  *)
(* signals.                                                                *)
(*                                                                         *)
(* A frame that holds mThreadMutex, or mMutex as a user, waits for nobody; *)
(* everybody else waits for such a frame or for the monitor.  So a circle  *)
(* would have to go through the monitor, and it is left to show whom the   *)
(* monitor waits for.  The exit needs an invariant of its own, ExitInv: it *)
(* follows the calls that the shutdown has still to make, and says that    *)
(* they reach every object that runs, because a notifier has a second one  *)
(* only when the monitor is in the health callback, which it never leaves. *)
(***************************************************************************)
EXTENDS ServiceProofs

\* Nobody has put a handler on a thread.
NoHandler == \A h \in Handlers : todo[h] = <<>>

\* Without automatic recovery the health callback calls nobody.
PlainCallback == monitor = "reporting" => todo["monitor"] = <<>>

\* The health callback's last call is a heartbeat, for which it waits for good.
Trapped == monitor = "reporting" /\ todo["monitor"] # <<>>

TrappedInv ==
    /\ Trapped => todo["monitor"][Len(todo["monitor"])].op = "beat"
    /\ monitor \in {"idle", "stopped"} => todo["onMonitor"] = <<>>

\* The objects that have been made.
Made == {o \in Objects : o[2] <= current[o[1]]}

\* Calls are made on such objects only, and only they run.
MadeInv ==
    /\ \A f \in Frames : \A i \in 1 .. Len(todo[f]) :
          todo[f][i].op \in ObjectOps => todo[f][i].on \in Made
    /\ \A o \in Objects : active[o] => o \in Made

\* main() makes one object of each notifier, and the health callback a second.
ConstructInv ==
    /\ phase \in {"setup", "starting", "asking"} =>
          todo["main"] = <<>> /\ \A c \in Components : current[c] = 0
    /\ \A i \in 1 .. Len(todo["main"]) : todo["main"][i].op = "construct" =>
          /\ current[todo["main"][i].on] = 0
          /\ \A j \in 1 .. Len(todo["main"]) : j # i => todo["main"][j] # todo["main"][i]
    /\ \A i \in 1 .. Len(todo["monitor"]) : todo["monitor"][i].op = "construct" =>
          monitor = "reporting" /\ current[todo["monitor"][i].on] # 0
    /\ \A h \in Handlers : \A i \in 1 .. Len(todo[h]) : todo[h][i].op # "construct"
    /\ ~Trapped => \A c \in Components : current[c] <= 1

MainInv ==
    /\ phase = "shutdown" =>
         \A i \in 1 .. Len(todo["main"]) : todo["main"][i].op \in {"deactivate", "stop", "join"}
    /\ phase \in {"joining", "exited"} => todo["main"] = <<>>
    /\ phase = "exited" => monitor = "stopped" /\ todo["onMain"] = <<>>

\* main() has still to deactivate object o.
Outstanding(o) ==
    \E i \in 1 .. Len(todo["main"]) :
        todo["main"][i] = Call("deactivate", o[1]) \/ todo["main"][i] = Call("stop", o)

QuietInv ==
    phase \in {"shutdown", "joining", "exited"} =>
        \A o \in Objects : o \in revived \/ ~active[o] \/ Trapped \/ Outstanding(o)

ExitInv == TrappedInv /\ MadeInv /\ ConstructInv /\ MainInv /\ QuietInv

-----------------------------------------------------------------------------
(* Deadlock *)

USE DEF MonitorState, Holding, componentVars, loopVars, healthVars

\* Whoever is waited for either is the monitor or waits for nobody himself.
LEMMA WaitsEnd ==
  ASSUME ServiceInv, NEW f \in Frames, NEW o \in BlockedBy(f)
  PROVE o \in Frames /\ (o = "monitor" \/ BlockedBy(o) = {})
<1>1. o \in Frames
  BY DEF BlockedBy
<1>2. \/ o = mMutex
      \/ \E x \in Objects : o = threadMutex[x]
      \/ o = "monitor"
  BY DEF BlockedBy
<1>3. o = mMutex => o = "monitor" \/ o \in Users
  BY <1>1, FramesAreUsers
<1> QED
  BY <1>1, <1>2, <1>3, OwnersRun

\* The monitor waits for itself only in the health callback, with calls to make.
LEMMA MonitorWaits ==
  ASSUME ServiceInv, "monitor" \in BlockedBy("monitor")
  PROVE monitor = "reporting" /\ todo["monitor"] # <<>>
<1>0. "monitor" \in Frames /\ Monitor = "monitor" /\ todo \in [Frames -> Seq(Calls)]
  BY FramesAreUsers DEF Frames, ServiceInv, ServiceTypeOK
<1>1. ASSUME NEW c \in Objects, threadMutex[c] = "monitor",
             NEW op \in {"stop", "start"}, At("monitor", op, c)
      PROVE FALSE
  <2>1. InCall("monitor", "join", c) \/ InCall("monitor", "spawn", c)
    BY <1>0, <1>1 DEF ServiceInv, OwnerInv
  <2> QED
    BY <1>0, <1>1, <2>1, AtFirst, OneCall DEF InCall
<1>2. mMutex = "monitor" /\ \/ \E c \in Components : At("monitor", "beat", c) \/ At("monitor", "report", c)
                            \/ MonitorRuns /\ monitor \in {"locking", "triggering"}
  <2>1. ~\E x \in Objects :
            /\ "monitor" = threadMutex[x]
            /\ At("monitor", "stop", x) \/ At("monitor", "start", x)
    BY <1>1
  <2>2. "monitor" # "main"
    OBVIOUS
  <2> QED
    BY <2>1, <2>2 DEF BlockedBy
<1>3. monitor \in Holding
  BY <1>0, <1>2 DEF ServiceInv, OwnerInv
<1>4. PICK c \in Components, op \in {"beat", "report"} : At("monitor", op, c)
  BY <1>2, <1>3
<1>5. todo["monitor"] # <<>>
  BY <1>4 DEF At
<1>6. monitor # "restarting"
  BY <1>4, MonitorCalls DEF RestartOps
<1> QED
  BY <1>5, <1>6 DEF ServiceInv, CallbackInv

\* In every reachable state each circle of waits goes through a thread that
\* waits for the handler on top of it, or through the health callback, which
\* asks for the mMutex it is called with (main.cpp:72, main.cpp:194).
THEOREM OnlySelfDeadlockHolds == Spec => []OnlySelfDeadlock
<1>1. ServiceInv => OnlySelfDeadlock
  <2> SUFFICES ASSUME ServiceInv PROVE OnlySelfDeadlock
    OBVIOUS
  <2> DEFINE w == [f \in Frames |->
                     IF f = "monitor" /\ monitor = "reporting" THEN BlockedBy(f) \ {"monitor"}
                                                               ELSE BlockedBy(f)]
  <2>1. \A f \in Frames : w[f] \subseteq BlockedBy(f)
    OBVIOUS
  <2>2. w \in [Frames -> SUBSET Frames]
    BY WaitsEnd
  <2>3. \A f \in Frames : \A o \in w[f] : o \in Frames /\ (o = "monitor" \/ w[o] = {})
    BY <2>1, WaitsEnd
  <2>4. "monitor" \in Frames /\ "monitor" \notin w["monitor"]
    BY MonitorWaits DEF Frames
  <2> HIDE DEF w
  <2>5. ~Circular(w)
    BY <2>2, <2>3, <2>4, Acyclic
  <2> QED
    BY <2>5 DEF OnlySelfDeadlock, w
<1> QED
  BY <1>1, ServiceInvariance, PTL

-----------------------------------------------------------------------------
(* What the calls do to the lists of calls *)

\* The list of a frame whose call gives way to the calls s.
LEMMA BecomesList ==
  ASSUME todo \in [Frames -> Seq(Calls)], NEW f \in Frames, todo[f] # <<>>,
         NEW s \in Seq(Calls), Becomes(f, s)
  PROVE /\ todo' \in [Frames -> Seq(Calls)]
        /\ \A g \in Frames \ {f} : todo'[g] = todo[g]
        /\ Len(todo'[f]) = Len(s) + Len(todo[f]) - 1
        /\ \A i \in 1 .. Len(s) : i \in 1 .. Len(todo'[f]) /\ todo'[f][i] = s[i]
        /\ \A i \in 2 .. Len(todo[f]) :
               Len(s) + i - 1 \in 1 .. Len(todo'[f]) /\ todo'[f][Len(s) + i - 1] = todo[f][i]
        /\ \A j \in 1 .. Len(todo'[f]) :
               \/ j \in 1 .. Len(s) /\ todo'[f][j] = s[j]
               \/ j - Len(s) + 1 \in 2 .. Len(todo[f]) /\ todo'[f][j] = todo[f][j - Len(s) + 1]
<1> DEFINE t == todo[f]
           u == s \o Tail(t)
<1>1. t \in Seq(Calls) /\ t # <<>>
  OBVIOUS
<1>2. /\ u \in Seq(Calls)
      /\ Len(u) = Len(s) + Len(t) - 1
      /\ Len(s) \in Nat /\ Len(t) \in Nat /\ Len(t) > 0
      /\ \A i \in 1 .. Len(s) : u[i] = s[i]
      /\ \A i \in Len(s) + 1 .. Len(s) + Len(t) - 1 :
             i - Len(s) + 1 \in 2 .. Len(t) /\ u[i] = t[i - Len(s) + 1]
  BY <1>1, Splice
<1>3. todo' = [todo EXCEPT ![f] = u]
  BY DEF Becomes
<1> HIDE DEF u
<1>4. todo' \in [Frames -> Seq(Calls)] /\ todo'[f] = u /\ \A g \in Frames \ {f} : todo'[g] = todo[g]
  BY <1>2, <1>3
<1> HIDE DEF t
<1>5. ASSUME NEW i \in 1 .. Len(s) PROVE i \in 1 .. Len(u) /\ u[i] = s[i]
  BY <1>2
<1>6. ASSUME NEW i \in 2 .. Len(t) PROVE Len(s) + i - 1 \in 1 .. Len(u) /\ u[Len(s) + i - 1] = t[i]
  <2>0. Len(s) + i - 1 \in Len(s) + 1 .. Len(s) + Len(t) - 1
    BY <1>2
  <2>1. PICK k \in Len(s) + 1 .. Len(s) + Len(t) - 1 : k = Len(s) + i - 1
    BY <2>0
  <2>2. k - Len(s) + 1 = i /\ k \in 1 .. Len(u)
    BY <1>2, <2>1
  <2>3. u[k] = t[k - Len(s) + 1]
    BY <1>2
  <2> QED
    BY <2>1, <2>2, <2>3
<1>7. ASSUME NEW j \in 1 .. Len(u)
      PROVE \/ j \in 1 .. Len(s) /\ u[j] = s[j]
            \/ j - Len(s) + 1 \in 2 .. Len(t) /\ u[j] = t[j - Len(s) + 1]
  <2>1. j \in 1 .. Len(s) \/ j \in Len(s) + 1 .. Len(s) + Len(t) - 1
    BY <1>2
  <2>2. j \in 1 .. Len(s) => u[j] = s[j]
    BY <1>2
  <2>3. j \in Len(s) + 1 .. Len(s) + Len(t) - 1 =>
            j - Len(s) + 1 \in 2 .. Len(t) /\ u[j] = t[j - Len(s) + 1]
    BY <1>2
  <2> QED
    BY <2>1, <2>2, <2>3
<1> QED
  BY <1>2, <1>4, <1>5, <1>6, <1>7 DEF t

\* Each part of a list is in the whole.
LEMMA PartsKept ==
  ASSUME NEW S, NEW a \in Seq(S), NEW b \in Seq(S)
  PROVE /\ \A i \in 1 .. Len(a) : \E j \in 1 .. Len(a \o b) : (a \o b)[j] = a[i]
        /\ \A i \in 1 .. Len(b) : \E j \in 1 .. Len(a \o b) : (a \o b)[j] = b[i]
<1>1. ASSUME NEW i \in 1 .. Len(a) PROVE i \in 1 .. Len(a \o b) /\ (a \o b)[i] = a[i]
  OBVIOUS
<1>2. ASSUME NEW i \in 1 .. Len(b)
      PROVE Len(a) + i \in 1 .. Len(a \o b) /\ (a \o b)[Len(a) + i] = b[i]
  OBVIOUS
<1> QED
  BY <1>1, <1>2

\* The calls for each notifier include one on every notifier.
LEMMA EachHasAll ==
  ASSUME NEW op \in PointerOps, NEW c \in Components
  PROVE \E i \in 1 .. Len(Each(op)) : Each(op)[i] = Call(op, c)
<1> DEFINE one(d) == IF d \in Components THEN <<Call(op, d)>> ELSE <<>>
<1>1. Each(op) = one("AodNotifier") \o one("NonUiNotifier")
  BY DEF Each, InOrder
<1>2. ASSUME NEW d PROVE one(d) \in Seq(Calls)
  <2>1. d \in Components => Call(op, d) \in Calls
    BY OneCall
  <2> QED
    BY <2>1
<1>3. c = "AodNotifier" \/ c = "NonUiNotifier"
  BY ServiceAssumption
<1>4. 1 \in 1 .. Len(one(c)) /\ one(c)[1] = Call(op, c)
  OBVIOUS
<1> DEFINE a == one("AodNotifier")
           b == one("NonUiNotifier")
<1>5. a \in Seq(Calls) /\ b \in Seq(Calls)
  BY <1>2
<1>6. Each(op) = a \o b /\ one(c) \in {a, b}
  BY <1>1, <1>3
<1> HIDE DEF one, a, b
<1>7. /\ \A i \in 1 .. Len(a) : \E j \in 1 .. Len(a \o b) : (a \o b)[j] = a[i]
      /\ \A i \in 1 .. Len(b) : \E j \in 1 .. Len(a \o b) : (a \o b)[j] = b[i]
  BY <1>5, PartsKept
<1> QED
  BY <1>4, <1>6, <1>7

\* A call of the creation is made once.
LEMMA CreationOnce ==
  LET new == [c \in Components |-> <<Call("construct", c), Call("activate", c), Call("beat", c)>>]
      all == InOrder(new)
  IN  \A i, j \in 1 .. Len(all) : i # j => all[i] # all[j]
<1> DEFINE new == [c \in Components |-> <<Call("construct", c), Call("activate", c), Call("beat", c)>>]
           all == InOrder(new)
           one(c) == <<Call("construct", c), Call("activate", c), Call("beat", c)>>
<1>1. ASSUME NEW c, NEW i \in 1 .. 3, NEW j \in 1 .. 3, i # j PROVE one(c)[i] # one(c)[j]
  BY <1>1, OneCall
<1>2. ASSUME NEW c, NEW i \in 1 .. 3 PROVE one(c)[i].on = c
  BY DEF Call
<1>3. \A c : one(c) \in Seq({one(c)[1], one(c)[2], one(c)[3]}) /\ Len(one(c)) = 3
  OBVIOUS
<1> DEFINE a == IF "AodNotifier" \in Components THEN one("AodNotifier") ELSE <<>>
           b == IF "NonUiNotifier" \in Components THEN one("NonUiNotifier") ELSE <<>>
           S == {one("AodNotifier")[i] : i \in 1 .. 3} \cup {one("NonUiNotifier")[i] : i \in 1 .. 3}
<1>4. all = a \o b
  BY DEF InOrder
<1>5. /\ a \in Seq(S) /\ b \in Seq(S)
      /\ Len(a) \in 0 .. 3 /\ Len(b) \in 0 .. 3
      /\ \A i \in 1 .. Len(a) : a[i] = one("AodNotifier")[i]
      /\ \A i \in 1 .. Len(b) : b[i] = one("NonUiNotifier")[i]
  <2>1. one("AodNotifier") \in Seq(S) /\ one("NonUiNotifier") \in Seq(S)
    <3> DEFINE T(c) == {one(c)[i] : i \in 1 .. 3}
    <3>1. ASSUME NEW c PROVE one(c) \in Seq(T(c))
      <4>1. \A i \in 1 .. 3 : one(c)[i] \in T(c)
        OBVIOUS
      <4> HIDE DEF T
      <4> QED
        BY <4>1
    <3> HIDE DEF one
    <3>2. T("AodNotifier") \subseteq S /\ T("NonUiNotifier") \subseteq S
      OBVIOUS
    <3> HIDE DEF T, S
    <3> QED
      BY <3>1, <3>2
  <2>2. Len(one("AodNotifier")) = 3 /\ Len(one("NonUiNotifier")) = 3
    BY <1>3
  <2> HIDE DEF one, S
  <2> QED
    BY <2>1, <2>2
<1>6. /\ \A i, j \in 1 .. Len(a) : i # j => a[i] # a[j]
      /\ \A i, j \in 1 .. Len(b) : i # j => b[i] # b[j]
      /\ \A i \in 1 .. Len(a), j \in 1 .. Len(b) : a[i] # b[j]
  <2> HIDE DEF one, a, b, S
  <2>1. \A i \in 1 .. Len(a) : i \in 1 .. 3 /\ a[i].on = "AodNotifier"
    BY <1>2, <1>5
  <2>2. \A i \in 1 .. Len(b) : i \in 1 .. 3 /\ b[i].on = "NonUiNotifier"
    BY <1>2, <1>5
  <2> QED
    BY <1>1, <1>5, <2>1, <2>2
<1> HIDE DEF a, b, S, one, new
<1>7. \A i \in 1 .. Len(all) : \/ i \in 1 .. Len(a) /\ all[i] = a[i]
                               \/ i - Len(a) \in 1 .. Len(b) /\ all[i] = b[i - Len(a)]
  BY <1>4, <1>5, TwoParts
<1> HIDE DEF all
<1>8. ASSUME NEW i \in 1 .. Len(all), NEW j \in 1 .. Len(all), i # j PROVE all[i] # all[j]
  <2>1. Len(a) \in Nat /\ Len(b) \in Nat
    BY <1>5
  <2>2. CASE i \in 1 .. Len(a) /\ all[i] = a[i]
    <3>1. j \in 1 .. Len(a) /\ all[j] = a[j] => all[i] # all[j]
      BY <1>6, <1>8, <2>2
    <3> QED
      BY <1>6, <1>7, <2>2, <3>1
  <2>3. CASE i - Len(a) \in 1 .. Len(b) /\ all[i] = b[i - Len(a)]
    <3>1. j - Len(a) \in 1 .. Len(b) /\ all[j] = b[j - Len(a)] => all[i] # all[j]
      <4>1. i \in Int /\ j \in Int /\ i - Len(a) # j - Len(a)
        BY <1>8, <2>1
      <4> QED
        BY <1>6, <2>3, <4>1
    <3> QED
      BY <1>6, <1>7, <2>3, <3>1
  <2> QED
    BY <1>7, <2>2, <2>3
<1> QED
  BY <1>8 DEF all, new

-----------------------------------------------------------------------------
(* What a call does *)

\* The call op on x of frame f gives way to the calls s.  They construct
\* nothing; those on objects are on the same object or on the one the pointer
\* points to.  Only activate() sets mActive, and deactivate() clears it.
Shape(f, op, x, s) ==
    /\ At(f, op, x) /\ Becomes(f, s)
    /\ \A i \in 1 .. Len(s) :
        /\ s[i].op # "construct"
        /\ s[i].op \in ObjectOps => \/ op \in ObjectOps /\ s[i].on = x
                                    \/ x \in Components /\ current[x] # 0 /\ s[i].on = Published(x)
        /\ op \in {"deactivate", "stop", "join"} => s[i].op \in {"stop", "join"}
    /\ op = "deactivate" =>
        x \in Components /\ (current[x] = 0 \/ (1 \in 1 .. Len(s) /\ s[1] = Call("stop", Published(x))))
    /\ op = "stop" => ~active'[x]
    /\ op \in {"beat", "report"} => mMutex = Nobody
    /\ op = "construct" => x \in Components /\ current' = [current EXCEPT ![x] = @ + 1]
    /\ op # "construct" => current' = current
    /\ \A o \in Objects : active'[o] =>
        \/ active[o]
        \/ op = "start" /\ o = x /\ (phase \in {"shutdown", "joining"} => o \in revived')
    /\ \A o \in revived : o \in revived' \/ ~active'[o]
    /\ UNCHANGED <<phase, monitor>>

\* ~thread() of a thread that has not been joined.
Crash == phase' = "crashed" /\ UNCHANGED <<todo, monitor, current, active>>

LEMMA ObjectShape ==
  ASSUME ServiceInv, NEW f \in Frames, NEW o \in Objects,
         Deactivate(f, o) \/ Join(f, o) \/ Activate(f, o) \/ Spawn(f, o) \/ Free(f, o)
  PROVE Crash \/ \E op : \E s \in Seq(Calls) : Shape(f, op, o, s)
<1>0. active \in [Objects -> BOOLEAN] /\ revived \subseteq Objects
  BY DEF ServiceInv, ServiceTypeOK
<1>1. CASE Deactivate(f, o)
  <2> DEFINE s == IF active[o] THEN <<Call("join", o)>> ELSE <<>>
  <2>1. s \in Seq(Calls) /\ \A i \in 1 .. Len(s) : s[i].on = o /\ s[i].op = "join"
    <3>1. Call("join", o) \in Calls /\ Call("join", o).on = o /\ Call("join", o).op = "join"
      BY DEF Call, Calls, ObjectOps
    <3> QED
      BY <3>1
  <2>2. Becomes(f, s)
    BY <1>1 DEF Deactivate, Done
  <2>3. /\ At(f, "stop", o) /\ ~active'[o] /\ \A x \in Objects : active'[x] => active[x]
        /\ \A x \in revived : x \in revived' \/ ~active'[x]
        /\ UNCHANGED <<phase, monitor, current>>
    BY <1>0, <1>1 DEF Deactivate, On
  <2> HIDE DEF s
  <2>4. Shape(f, "stop", o, s)
    BY <2>1, <2>2, <2>3 DEF Shape, ObjectOps
  <2> QED
    BY <2>1, <2>4
<1>2. CASE Activate(f, o)
  <2> DEFINE s == IF ~active[o] /\ queue[o] THEN <<Call("spawn", o)>> ELSE <<>>
  <2>1. s \in Seq(Calls) /\ \A i \in 1 .. Len(s) : s[i].on = o /\ s[i].op = "spawn"
    <3>1. Call("spawn", o) \in Calls /\ Call("spawn", o).on = o /\ Call("spawn", o).op = "spawn"
      BY DEF Call, Calls, ObjectOps
    <3> QED
      BY <3>1
  <2>2. Becomes(f, s)
    BY <1>2 DEF Activate, Done
  <2>3. /\ At(f, "start", o)
        /\ \A x \in Objects : active'[x] => \/ active[x]
                                            \/ x = o /\ (phase \in {"shutdown", "joining"} => o \in revived')
        /\ revived \subseteq revived'
        /\ UNCHANGED <<phase, monitor, current>>
    BY <1>0, <1>2 DEF Activate, On
  <2> HIDE DEF s
  <2>4. Shape(f, "start", o, s)
    BY <2>1, <2>2, <2>3 DEF Shape, ObjectOps
  <2> QED
    BY <2>1, <2>4
<1>3. CASE Join(f, o) \/ Spawn(f, o) \/ (Free(f, o) /\ poller[o] = "none")
  <2> DEFINE s == <<>>
  <2>1. s \in Seq(Calls) /\ Becomes(f, s) /\ \A i \in 1 .. Len(s) : FALSE
    BY <1>3 DEF Join, Spawn, Free, Done
  <2>2. PICK op \in {"join", "spawn", "free"} : At(f, op, o)
    BY <1>3 DEF Join, Spawn, Free, On
  <2>3. UNCHANGED <<active, revived, phase, monitor, current>>
    BY <1>3 DEF Join, Spawn, Free
  <2> HIDE DEF s
  <2>4. Shape(f, op, o, s)
    BY <1>0, <2>1, <2>2, <2>3 DEF Shape
  <2> QED
    BY <2>1, <2>4
<1>4. CASE Free(f, o) /\ poller[o] # "none"
  BY <1>4 DEF Free, Crash
<1> QED
  BY <1>1, <1>2, <1>3, <1>4

LEMMA PointerShape ==
  ASSUME ServiceInv, NEW f \in Frames, NEW c \in Components,
         \/ Construct(f, c) \/ Pause(f, c) \/ LoadPointer(f, c)
         \/ Beat(f, c) \/ Report(f, c) \/ Unlock(f, c) \/ Check(f, c) \/ Recover(f, c)
  PROVE \E op : \E s \in Seq(Calls) : Shape(f, op, c, s)
<1>0. active \in [Objects -> BOOLEAN] /\ revived \subseteq Objects
  BY DEF ServiceInv, ServiceTypeOK
<1>1. CASE Construct(f, c)
  <2> DEFINE old == Published(c)
             s == IF current[c] = 0 THEN <<>>
                  ELSE <<Call("stop", old), Call("stop", old), Call("free", old)>>
  <2>1. Becomes(f, s)
    BY <1>1 DEF Construct
  <2>2. At(f, "construct", c) /\ current' = [current EXCEPT ![c] = @ + 1]
        /\ UNCHANGED <<active, revived, phase, monitor>>
    BY <1>1 DEF Construct
  <2>3. /\ s \in Seq(Calls)
        /\ \A i \in 1 .. Len(s) : s[i].op \in {"stop", "free"} /\ s[i].on = old /\ current[c] # 0
    <3>1. CASE current[c] = 0
      BY <3>1
    <3>2. CASE current[c] # 0
      <4>1. old \in Objects
        BY <3>2, PublishedObject DEF ServiceInv
      <4> HIDE DEF old
      <4>2. \A op \in ObjectOps : Call(op, old) \in Calls /\ Call(op, old).op = op /\ Call(op, old).on = old
        BY <4>1 DEF Call, Calls
      <4>3. "stop" \in ObjectOps /\ "free" \in ObjectOps
        BY DEF ObjectOps
      <4> QED
        BY <3>2, <4>2, <4>3
    <3> QED
      BY <3>1, <3>2
  <2> HIDE DEF s
  <2>4. Shape(f, "construct", c, s)
    BY <1>0, <2>1, <2>2, <2>3 DEF Shape
  <2> QED
    BY <2>3, <2>4
<1>2. CASE LoadPointer(f, c)
  <2>1. PICK op \in {"deactivate", "activate"}, p \in {"stop", "start"} :
           /\ At(f, op, c) /\ (op = "deactivate" => p = "stop")
           /\ Becomes(f, IF current[c] = 0 THEN <<>> ELSE <<Call(p, Published(c))>>)
    BY <1>2 DEF LoadPointer
  <2> DEFINE s == IF current[c] = 0 THEN <<>> ELSE <<Call(p, Published(c))>>
  <2>2. UNCHANGED <<active, revived, phase, monitor, current>>
    BY <1>2 DEF LoadPointer, notifierVars
  <2>3. /\ s \in Seq(Calls)
        /\ current[c] # 0 => 1 \in 1 .. Len(s) /\ s[1] = Call(p, Published(c))
        /\ \A i \in 1 .. Len(s) : s[i].op = p /\ s[i].on = Published(c) /\ current[c] # 0
    <3>1. CASE current[c] = 0
      BY <3>1
    <3>2. CASE current[c] # 0
      <4>1. Published(c) \in Objects
        BY <3>2, PublishedObject DEF ServiceInv
      <4>2. Call(p, Published(c)) \in Calls /\ Call(p, Published(c)).op = p
            /\ Call(p, Published(c)).on = Published(c)
        BY <4>1 DEF Call, Calls, ObjectOps
      <4> QED
        BY <3>2, <4>2
    <3> QED
      BY <3>1, <3>2
  <2>4. Becomes(f, s)
    BY <2>1
  <2> HIDE DEF s
  <2>5. Shape(f, op, c, s)
    BY <1>0, <2>1, <2>2, <2>3, <2>4 DEF Shape
  <2> QED
    BY <2>3, <2>5
<1>3. CASE Pause(f, c) \/ Unlock(f, c)
  <2> DEFINE s == <<>>
  <2>1. s \in Seq(Calls) /\ Becomes(f, s) /\ \A i \in 1 .. Len(s) : FALSE
    BY <1>3 DEF Pause, Unlock, Done
  <2>2. PICK op \in {"pause", "unlock"} : At(f, op, c)
    BY <1>3 DEF Pause, Unlock
  <2>3. UNCHANGED <<active, revived, phase, monitor, current>>
    BY <1>3 DEF Pause, Unlock, UnlockHeartbeat, notifierVars
  <2> HIDE DEF s
  <2>4. Shape(f, op, c, s)
    BY <1>0, <2>1, <2>2, <2>3 DEF Shape
  <2> QED
    BY <2>1, <2>4
<1>4. CASE Beat(f, c) \/ Report(f, c)
  <2> DEFINE s == <<Call("unlock", c)>>
  <2>1. s \in Seq(Calls) /\ \A i \in 1 .. Len(s) : s[i].op = "unlock"
    <3>1. Call("unlock", c) \in Calls /\ Call("unlock", c).op = "unlock"
      BY DEF Call, Calls, PointerOps
    <3> QED
      BY <3>1
  <2>2. /\ Becomes(f, s) /\ UNCHANGED <<active, revived, phase, monitor, current>> /\ mMutex = Nobody
    BY <1>4 DEF Beat, Report, UpdateHeartbeat, ReadHealth, notifierVars
  <2>3. PICK op \in {"beat", "report"} : At(f, op, c)
    BY <1>4 DEF Beat, Report
  <2> HIDE DEF s
  <2>4. Shape(f, op, c, s)
    BY <1>0, <2>1, <2>2, <2>3 DEF Shape, ObjectOps
  <2> QED
    BY <2>1, <2>4
<1>5. CASE Check(f, c)
  <2>1. PICK s \in {<<>>, <<Call("beat", c)>>} : Becomes(f, s)
    BY <1>5 DEF Check
  <2>2. s \in Seq(Calls) /\ \A i \in 1 .. Len(s) : s[i].op = "beat"
    <3>1. Call("beat", c) \in Calls /\ Call("beat", c).op = "beat"
      BY DEF Call, Calls, PointerOps
    <3>2. CASE s = <<>>
      BY <3>2
    <3>3. CASE s = <<Call("beat", c)>>
      BY <3>1, <3>3
    <3> QED
      BY <2>1, <3>2, <3>3
  <2>3. At(f, "check", c) /\ UNCHANGED <<active, revived, phase, monitor, current>>
    BY <1>5 DEF Check, notifierVars
  <2>4. Shape(f, "check", c, s)
    BY <1>0, <2>1, <2>2, <2>3 DEF Shape, ObjectOps
  <2> QED
    BY <2>2, <2>4
<1>6. CASE Recover(f, c)
  <2> DEFINE calls == <<Call("deactivate", c), Call("pause", c), Call("activate", c), Call("beat", c)>>
  <2>1. PICK s \in {<<>>, calls} : Becomes(f, s)
    BY <1>6 DEF Recover
  <2>2. s \in Seq(Calls) /\ \A i \in 1 .. Len(s) : s[i].op \in {"deactivate", "pause", "activate", "beat"}
    <3>1. \A op \in PointerOps : Call(op, c) \in Calls /\ Call(op, c).op = op
      BY OneCall
    <3>2. CASE s = <<>>
      BY <3>2
    <3>3. CASE s = calls
      BY <3>1, <3>3 DEF PointerOps
    <3> QED
      BY <2>1, <3>2, <3>3
  <2> HIDE DEF calls
  <2>3. At(f, "recover", c) /\ UNCHANGED <<active, revived, phase, monitor, current>>
    BY <1>6 DEF Recover, notifierVars
  <2>4. Shape(f, "recover", c, s)
    BY <1>0, <2>1, <2>2, <2>3 DEF Shape, ObjectOps
  <2> QED
    BY <2>2, <2>4
<1> QED
  BY <1>1, <1>2, <1>3, <1>4, <1>5, <1>6

\* Every step of a frame is such a call, or the end of the process.
LEMMA CallShape ==
  ASSUME ServiceInv, NEW f \in Frames, FrameStep(f)
  PROVE Crash \/ \E op, x : \E s \in Seq(Calls) : Shape(f, op, x, s)
BY ObjectShape, PointerShape DEF FrameStep, SlowCall, PromptCall

-----------------------------------------------------------------------------
(* The exit *)

\* The frames, and the types that the arguments about lists need.
LEMMA ExitTypes ==
  ASSUME ServiceInv
  PROVE /\ todo \in [Frames -> Seq(Calls)]
        /\ current \in [Components -> Nat]
        /\ "main" \in Frames /\ "monitor" \in Frames /\ Handlers \subseteq Frames \ {"main", "monitor"}
        /\ Frames = {"main", "monitor"} \cup Handlers
        /\ "onMain" \in Handlers /\ "onMonitor" \in Handlers
BY ServiceAssumption DEF ServiceInv, ServiceTypeOK, Frames, Handlers

\* The monitor stays in the health callback once that has calls to make.
LEMMA TrappedCall ==
  ASSUME ServiceInv, TrappedInv, NEW f \in Frames, NEW op, NEW x, NEW s \in Seq(Calls),
         Shape(f, op, x, s)
  PROVE TrappedInv' /\ (Trapped' <=> Trapped)
<1>0. todo \in [Frames -> Seq(Calls)] /\ "monitor" \in Frames /\ "onMonitor" \in Frames
  BY ExitTypes
<1>1. At(f, op, x) /\ Becomes(f, s) /\ monitor' = monitor /\ (op \in {"beat", "report"} => mMutex = Nobody)
  BY DEF Shape
<1>2. todo[f] # <<>> /\ 1 \in 1 .. Len(todo[f]) /\ todo[f][1].op = op /\ Len(todo[f]) \in Nat
  BY <1>0, <1>1, AtFirst
<1>3. /\ todo' \in [Frames -> Seq(Calls)]
      /\ \A g \in Frames \ {f} : todo'[g] = todo[g]
      /\ Len(todo'[f]) = Len(s) + Len(todo[f]) - 1
      /\ \A i \in 2 .. Len(todo[f]) :
             Len(s) + i - 1 \in 1 .. Len(todo'[f]) /\ todo'[f][Len(s) + i - 1] = todo[f][i]
  BY <1>0, <1>1, <1>2, BecomesList
<1>4. monitor \in {"idle", "stopped"} => todo'["onMonitor"] = <<>>
  BY <1>0, <1>2, <1>3 DEF TrappedInv
<1>5. CASE f # "monitor"
  BY <1>0, <1>1, <1>3, <1>4, <1>5 DEF TrappedInv, Trapped
<1>6. CASE f = "monitor"
  <2>1. op \notin {"beat", "report"}
    BY <1>1, <1>6, MonitorHasMutex
  <2>2. ASSUME Trapped
        PROVE todo'["monitor"] # <<>> /\ todo'["monitor"][Len(todo'["monitor"])].op = "beat"
    <3>1. todo[f][Len(todo[f])].op = "beat" /\ Len(todo[f]) \in Nat
      BY <1>2, <1>6, <2>2 DEF TrappedInv
    <3>2. Len(todo[f]) \in 2 .. Len(todo[f])
      BY <1>2, <2>1, <3>1
    <3>3. /\ Len(todo'[f]) \in 1 .. Len(todo'[f])
          /\ todo'[f][Len(todo'[f])] = todo[f][Len(todo[f])]
      BY <1>3, <3>2
    <3> QED
      BY <1>6, <3>1, <3>3
  <2>3. Trapped' => Trapped
    BY <1>1, <1>2, <1>6 DEF Trapped
  <2> QED
    BY <1>1, <1>4, <2>2, <2>3 DEF TrappedInv, Trapped
<1> QED
  BY <1>5, <1>6

\* Calls stay on objects that have been made.
LEMMA MadeCall ==
  ASSUME ServiceInv, MadeInv, NEW f \in Frames, NEW op, NEW x, NEW s \in Seq(Calls),
         Shape(f, op, x, s)
  PROVE MadeInv'
<1>0. todo \in [Frames -> Seq(Calls)] /\ current \in [Components -> Nat]
  BY ExitTypes
<1>1. /\ At(f, op, x) /\ Becomes(f, s)
      /\ \A i \in 1 .. Len(s) : s[i].op \in ObjectOps =>
            \/ op \in ObjectOps /\ s[i].on = x
            \/ x \in Components /\ current[x] # 0 /\ s[i].on = Published(x)
      /\ current' = current \/ (x \in Components /\ current' = [current EXCEPT ![x] = @ + 1])
      /\ \A o \in Objects : active'[o] => active[o] \/ (op = "start" /\ o = x)
  BY DEF Shape
<1>2. todo[f] # <<>> /\ 1 \in 1 .. Len(todo[f]) /\ todo[f][1] = Call(op, x)
  BY <1>0, <1>1, AtFirst
<1>3. /\ \A g \in Frames \ {f} : todo'[g] = todo[g]
      /\ \A j \in 1 .. Len(todo'[f]) :
             \/ j \in 1 .. Len(s) /\ todo'[f][j] = s[j]
             \/ j - Len(s) + 1 \in 2 .. Len(todo[f]) /\ todo'[f][j] = todo[f][j - Len(s) + 1]
  BY <1>0, <1>1, <1>2, BecomesList
<1>4. ASSUME NEW o \in Made PROVE o \in Made'
  <2>1. o \in Objects /\ o[1] \in Components /\ o[2] \in Int /\ o[2] <= current[o[1]]
    BY ServiceAssumption DEF Made, Objects
  <2>2. current[o[1]] <= current'[o[1]] /\ current'[o[1]] \in Int
    BY <1>0, <1>1, <2>1
  <2>3. o[2] <= current'[o[1]]
    BY <1>0, <2>1, <2>2
  <2> QED
    BY <2>1, <2>3 DEF Made
<1>5. op \in ObjectOps => x \in Made
  BY <1>2 DEF MadeInv, Call
<1>6. x \in Components /\ current[x] # 0 => Published(x) \in Made
  <2>1. x \in Components /\ current[x] # 0 => Published(x) \in Objects
    BY PublishedObject DEF ServiceInv
  <2> QED
    BY <1>0, <2>1 DEF Published, Made
<1>7. ASSUME NEW j \in 1 .. Len(todo'[f]), todo'[f][j].op \in ObjectOps PROVE todo'[f][j].on \in Made
  <2>1. CASE j \in 1 .. Len(s) /\ todo'[f][j] = s[j]
    BY <1>1, <1>5, <1>6, <1>7, <2>1
  <2>2. CASE j - Len(s) + 1 \in 2 .. Len(todo[f]) /\ todo'[f][j] = todo[f][j - Len(s) + 1]
    <3>1. PICK i \in 1 .. Len(todo[f]) : todo'[f][j] = todo[f][i]
      BY <1>0, <2>2
    <3> QED
      BY <1>7, <3>1 DEF MadeInv
  <2> QED
    BY <1>3, <2>1, <2>2
<1>8. ASSUME NEW g \in Frames, NEW j \in 1 .. Len(todo'[g]), todo'[g][j].op \in ObjectOps
      PROVE todo'[g][j].on \in Made'
  BY <1>3, <1>4, <1>7, <1>8 DEF MadeInv
<1>9. ASSUME NEW o \in Objects, active'[o] PROVE o \in Made'
  BY <1>1, <1>4, <1>5, <1>9 DEF MadeInv, ObjectOps
<1> QED
  BY <1>8, <1>9 DEF MadeInv

\* No call makes another object than the ones ConstructInv allows for.
LEMMA ConstructCall ==
  ASSUME ServiceInv, TrappedInv, ConstructInv, NEW f \in Frames, NEW op, NEW x, NEW s \in Seq(Calls),
         Shape(f, op, x, s)
  PROVE ConstructInv'
<1>0. /\ todo \in [Frames -> Seq(Calls)] /\ current \in [Components -> Nat]
      /\ "main" \in Frames /\ "monitor" \in Frames /\ Handlers \subseteq Frames \ {"main", "monitor"}
      /\ Frames = {"main", "monitor"} \cup Handlers
  BY ExitTypes
<1>1. /\ At(f, op, x) /\ Becomes(f, s)
      /\ \A i \in 1 .. Len(s) : s[i].op # "construct"
      /\ op = "construct" => x \in Components /\ current' = [current EXCEPT ![x] = @ + 1]
      /\ op # "construct" => current' = current
      /\ UNCHANGED <<phase, monitor>>
  BY DEF Shape
<1>2. todo[f] # <<>> /\ 1 \in 1 .. Len(todo[f]) /\ todo[f][1] = Call(op, x)
      /\ todo[f][1].op = op /\ todo[f][1].on = x
  BY <1>0, <1>1, AtFirst DEF Call
<1>3. /\ \A g \in Frames \ {f} : todo'[g] = todo[g]
      /\ \A j \in 1 .. Len(todo'[f]) :
             \/ j \in 1 .. Len(s) /\ todo'[f][j] = s[j]
             \/ j - Len(s) + 1 \in 2 .. Len(todo[f]) /\ todo'[f][j] = todo[f][j - Len(s) + 1]
  BY <1>0, <1>1, <1>2, BecomesList
\* Where a call that constructs comes from.
<1>4. ASSUME NEW g \in Frames, NEW j \in 1 .. Len(todo'[g]), todo'[g][j].op = "construct"
      PROVE \/ g # f /\ todo'[g] = todo[g]
            \/ g = f /\ j - Len(s) + 1 \in 2 .. Len(todo[g]) /\ todo'[g][j] = todo[g][j - Len(s) + 1]
  BY <1>1, <1>3, <1>4
<1>5. Trapped' <=> Trapped
  BY TrappedCall
<1>6. op = "construct" => f \notin Handlers
  BY <1>2 DEF ConstructInv
<1>7. op = "construct" /\ f = "monitor" => Trapped /\ current[x] # 0
  BY <1>2 DEF ConstructInv, Trapped
<1>8. op = "construct" /\ f = "main" => current[x] = 0
  BY <1>2 DEF ConstructInv
<1>9. \A c \in Components : current'[c] # current[c] => op = "construct" /\ c = x
  BY <1>0, <1>1
<1>10. \A c \in Components : current[c] # 0 => current'[c] # 0
  BY <1>0, <1>1
\* The parts of ConstructInv.
<1>11. phase' \in {"setup", "starting", "asking"} =>
          todo'["main"] = <<>> /\ \A c \in Components : current'[c] = 0
  <2> SUFFICES ASSUME phase \in {"setup", "starting", "asking"}
               PROVE todo'["main"] = <<>> /\ \A c \in Components : current'[c] = 0
    BY <1>1
  <2>1. todo["main"] = <<>> /\ \A c \in Components : current[c] = 0
    BY DEF ConstructInv
  <2>2. f # "main" /\ todo'["main"] = <<>>
    BY <1>0, <1>2, <1>3, <2>1
  <2>3. op # "construct"
    BY <1>0, <1>1, <1>6, <1>7, <2>1, <2>2
  <2> QED
    BY <1>1, <2>1, <2>2, <2>3
<1>12. ASSUME NEW i \in 1 .. Len(todo'["main"]), todo'["main"][i].op = "construct"
       PROVE /\ current'[todo'["main"][i].on] = 0
             /\ \A j \in 1 .. Len(todo'["main"]) : j # i => todo'["main"][j] # todo'["main"][i]
  <2> DEFINE c == todo'["main"][i].on
  <2>1. CASE f # "main"
    <3>1. todo'["main"] = todo["main"]
      BY <1>0, <1>3, <2>1
    <3>2. current[c] = 0 /\ \A j \in 1 .. Len(todo'["main"]) : j # i => todo'["main"][j] # todo'["main"][i]
      BY <1>12, <3>1 DEF ConstructInv
    <3>3. current'[c] = 0
      <4>1. CASE op # "construct"
        BY <1>1, <3>2, <4>1
      <4>2. CASE op = "construct"
        <5>1. x \in Components /\ current[x] # 0 /\ current' = [current EXCEPT ![x] = @ + 1]
          BY <1>0, <1>1, <1>6, <1>7, <2>1, <4>2
        <5> QED
          BY <1>0, <3>2, <5>1
      <4> QED
        BY <4>1, <4>2
    <3> QED
      BY <3>2, <3>3
  <2>2. CASE f = "main"
    <3> DEFINE t == todo["main"]
               k == i - Len(s) + 1
    <3>1. k \in 2 .. Len(t) /\ todo'["main"][i] = t[k]
      BY <1>0, <1>4, <1>12, <2>2
    <3>2. Len(t) \in Nat /\ Len(s) \in Nat /\ k \in 1 .. Len(t)
      BY <1>0, <3>1
    <3>3. current[c] = 0 /\ \A j \in 1 .. Len(t) : j # k => t[j] # t[k]
      BY <1>12, <3>1, <3>2 DEF ConstructInv
    <3>4. current'[c] = 0
      <4>1. CASE op # "construct"
        BY <1>1, <3>3, <4>1
      <4>2. CASE op = "construct"
        <5>1. c # x
          <6>1. t[1] = Call("construct", x) /\ 1 # k
            BY <1>2, <2>2, <3>1, <4>2
          <6>2. t[k] \in Calls /\ t[k].op = "construct" /\ t[k].on = c
            BY <1>0, <1>12, <3>1, <3>2
          <6>3. t[1] # t[k]
            BY <1>2, <2>2, <3>3, <6>1
          <6> QED
            BY <6>1, <6>2, <6>3, CallFields
        <5>2. t[k] \in Calls /\ t[k].op = "construct" /\ t[k].on = c
          BY <1>0, <1>12, <3>1, <3>2
        <5>3. c \in Components
          BY <5>2 DEF Calls, ObjectOps
        <5>4. x \in Components /\ current' = [current EXCEPT ![x] = @ + 1]
          BY <1>1, <4>2
        <5> QED
          BY <1>0, <3>3, <5>1, <5>3, <5>4
      <4> QED
        BY <4>1, <4>2
    <3>5. ASSUME NEW j \in 1 .. Len(todo'["main"]), j # i PROVE todo'["main"][j] # todo'["main"][i]
      <4>1. CASE j \in 1 .. Len(s) /\ todo'["main"][j] = s[j]
        BY <1>1, <1>12, <4>1
      <4>2. CASE j - Len(s) + 1 \in 2 .. Len(t) /\ todo'["main"][j] = t[j - Len(s) + 1]
        <5>1. PICK m \in 1 .. Len(t) : m = j - Len(s) + 1
          BY <3>2, <4>2
        <5>2. m # k
          BY <3>2, <3>5, <5>1
        <5> QED
          BY <3>1, <3>3, <4>2, <5>1, <5>2
      <4> QED
        BY <1>3, <2>2, <4>1, <4>2
    <3> QED
      BY <3>4, <3>5
  <2> QED
    BY <2>1, <2>2
<1>13. ASSUME NEW i \in 1 .. Len(todo'["monitor"]), todo'["monitor"][i].op = "construct"
       PROVE monitor' = "reporting" /\ current'[todo'["monitor"][i].on] # 0
  <2>1. PICK k \in 1 .. Len(todo["monitor"]) : todo'["monitor"][i] = todo["monitor"][k]
    BY <1>0, <1>4, <1>13
  <2>2. todo["monitor"][k] \in Calls /\ todo["monitor"][k].on \in Components
    BY <1>0, <1>13, <2>1 DEF Calls, ObjectOps
  <2>3. monitor = "reporting" /\ current[todo["monitor"][k].on] # 0
    BY <1>13, <2>1 DEF ConstructInv
  <2> QED
    BY <1>1, <1>10, <2>1, <2>2, <2>3
<1>14. ASSUME NEW h \in Handlers, NEW i \in 1 .. Len(todo'[h]) PROVE todo'[h][i].op # "construct"
  <2>1. SUFFICES ASSUME todo'[h][i].op = "construct" PROVE FALSE
    OBVIOUS
  <2>2. PICK k \in 1 .. Len(todo[h]) : todo'[h][i] = todo[h][k]
    BY <1>0, <1>4, <2>1
  <2> QED
    BY <2>1, <2>2 DEF ConstructInv
<1>15. ~Trapped' => \A c \in Components : current'[c] <= 1
  <2> SUFFICES ASSUME ~Trapped, NEW c \in Components PROVE current'[c] <= 1
    BY <1>5
  <2>1. current[c] <= 1
    BY DEF ConstructInv
  <2>2. CASE op # "construct"
    BY <1>1, <2>1, <2>2
  <2>3. CASE op = "construct"
    <3>1. x \in Components /\ current[x] = 0 /\ current' = [current EXCEPT ![x] = @ + 1]
      BY <1>0, <1>1, <1>6, <1>7, <1>8, <2>3
    <3> QED
      BY <1>0, <2>1, <3>1
  <2> QED
    BY <2>2, <2>3
<1> QED
  BY <1>11, <1>12, <1>13, <1>14, <1>15 DEF ConstructInv

\* main() makes its last calls, and everything that runs then has been
\* activated since, or one of them is on it.
LEMMA LastCalls ==
  ASSUME ServiceInv, ExitInv, NEW f \in Frames, NEW op, NEW x, NEW s \in Seq(Calls),
         Shape(f, op, x, s)
  PROVE MainInv' /\ QuietInv'
<1>0. /\ todo \in [Frames -> Seq(Calls)] /\ current \in [Components -> Nat]
      /\ "main" \in Frames /\ "onMain" \in Frames
  BY ExitTypes
<1>1. /\ At(f, op, x) /\ Becomes(f, s)
      /\ op \in {"deactivate", "stop", "join"} => \A i \in 1 .. Len(s) : s[i].op \in {"stop", "join"}
      /\ op = "deactivate" =>
            x \in Components /\ (current[x] = 0 \/ (1 \in 1 .. Len(s) /\ s[1] = Call("stop", Published(x))))
      /\ op = "stop" => ~active'[x]
      /\ \A o \in Objects : active'[o] =>
            \/ active[o]
            \/ op = "start" /\ o = x /\ (phase \in {"shutdown", "joining"} => o \in revived')
      /\ \A o \in revived : o \in revived' \/ ~active'[o]
      /\ UNCHANGED <<phase, monitor>>
  BY DEF Shape
<1>2. todo[f] # <<>> /\ 1 \in 1 .. Len(todo[f]) /\ todo[f][1] = Call(op, x) /\ todo[f][1].op = op
  BY <1>0, <1>1, AtFirst
<1>3. /\ \A g \in Frames \ {f} : todo'[g] = todo[g]
      /\ \A i \in 1 .. Len(s) : i \in 1 .. Len(todo'[f]) /\ todo'[f][i] = s[i]
      /\ \A i \in 2 .. Len(todo[f]) :
             Len(s) + i - 1 \in 1 .. Len(todo'[f]) /\ todo'[f][Len(s) + i - 1] = todo[f][i]
      /\ \A j \in 1 .. Len(todo'[f]) :
             \/ j \in 1 .. Len(s) /\ todo'[f][j] = s[j]
             \/ j - Len(s) + 1 \in 2 .. Len(todo[f]) /\ todo'[f][j] = todo[f][j - Len(s) + 1]
  BY <1>0, <1>1, <1>2, BecomesList
<1>4. phase # "exited"
  BY <1>1 DEF At, Runs, Ended
<1>5. phase = "joining" => f # "main"
  BY <1>2 DEF ExitInv, MainInv
<1>6. MainInv'
  <2>1. CASE f # "main"
    BY <1>0, <1>1, <1>3, <1>4, <2>1 DEF ExitInv, MainInv
  <2>2. CASE f = "main"
    <3>1. ASSUME phase = "shutdown", NEW j \in 1 .. Len(todo'[f])
          PROVE todo'[f][j].op \in {"deactivate", "stop", "join"}
      <4>1. op \in {"deactivate", "stop", "join"}
        BY <1>2, <2>2, <3>1 DEF ExitInv, MainInv
      <4>2. CASE j \in 1 .. Len(s) /\ todo'[f][j] = s[j]
        BY <1>1, <4>1, <4>2
      <4>3. CASE j - Len(s) + 1 \in 2 .. Len(todo[f]) /\ todo'[f][j] = todo[f][j - Len(s) + 1]
        <5>1. Len(todo[f]) \in Nat
          BY <1>0
        <5>2. PICK i \in 1 .. Len(todo[f]) : i = j - Len(s) + 1
          BY <4>3, <5>1
        <5>3. todo[f][i].op \in {"deactivate", "stop", "join"}
          BY <2>2, <3>1 DEF ExitInv, MainInv
        <5> QED
          BY <4>3, <5>2, <5>3
      <4> QED
        BY <1>3, <4>2, <4>3
    <3> QED
      BY <1>1, <1>4, <1>5, <2>2, <3>1 DEF MainInv
  <2> QED
    BY <2>1, <2>2
<1>7. QuietInv'
  <2> SUFFICES ASSUME phase \in {"shutdown", "joining"}, NEW o \in Objects,
                      o \notin revived', active'[o], ~Trapped
               PROVE Outstanding(o)'
    BY <1>1, <1>4, TrappedCall DEF QuietInv, ExitInv
  <2>1. o \notin revived /\ active[o]
    BY <1>1
  <2>2. PICK i \in 1 .. Len(todo["main"]) :
           todo["main"][i] = Call("deactivate", o[1]) \/ todo["main"][i] = Call("stop", o)
    BY <2>1 DEF ExitInv, QuietInv, Outstanding
  <2>3. CASE f # "main"
    BY <1>0, <1>3, <2>2, <2>3 DEF Outstanding
  <2>4. CASE f = "main" /\ i # 1
    <3>1. i \in 2 .. Len(todo[f])
      BY <1>0, <2>2, <2>4
    <3>2. PICK j \in 1 .. Len(todo'[f]) : todo'[f][j] = todo[f][i]
      BY <1>3, <3>1
    <3> QED
      BY <2>2, <2>4, <3>2 DEF Outstanding
  <2>5. CASE f = "main" /\ i = 1
    <3>1. (op = "deactivate" /\ x = o[1]) \/ (op = "stop" /\ x = o)
      BY <1>2, <2>2, <2>5, OneCall
    <3>2. op # "stop"
      BY <1>1, <3>1
    <3>3. o = Published(o[1])
      <4>1. o[1] \in Components /\ o[2] \in 1 .. MaxObjects /\ o = <<o[1], o[2]>>
        BY DEF Objects
      <4>2. o[2] <= current[o[1]] /\ current[o[1]] <= 1
        BY <2>1, <4>1 DEF ExitInv, MadeInv, Made, ConstructInv
      <4>3. o[2] = current[o[1]]
        BY <1>0, <4>1, <4>2, ServiceAssumption
      <4> QED
        BY <4>1, <4>3 DEF Published
    <3>4. current[x] # 0
      <4>1. o[1] \in Components /\ o[2] \in 1 .. MaxObjects
        BY DEF Objects
      <4>2. o[2] <= current[o[1]]
        BY <2>1 DEF ExitInv, MadeInv, Made
      <4> QED
        BY <1>0, <3>1, <3>2, <4>1, <4>2, ServiceAssumption
    <3>5. 1 \in 1 .. Len(s) /\ s[1] = Call("stop", o)
      BY <1>1, <3>1, <3>2, <3>3, <3>4
    <3> QED
      BY <1>3, <2>5, <3>5 DEF Outstanding
  <2> QED
    BY <2>3, <2>4, <2>5
<1> QED
  BY <1>6, <1>7

\* A call of a frame keeps ExitInv.
LEMMA ExitCall ==
  ASSUME ServiceInv, ExitInv, NEW f \in Frames, FrameStep(f)
  PROVE ExitInv'
<1>1. ASSUME Crash PROVE ExitInv'
  <2>1. UNCHANGED <<todo, monitor, current, active>> /\ phase' = "crashed"
    BY <1>1 DEF Crash
  <2>2. UNCHANGED Made
    BY <2>1 DEF Made
  <2> QED
    BY <2>1, <2>2 DEF ExitInv, TrappedInv, Trapped, MadeInv, ConstructInv, MainInv, QuietInv
<1>2. ASSUME NEW op, NEW x, NEW s \in Seq(Calls), Shape(f, op, x, s) PROVE ExitInv'
  BY <1>2, TrappedCall, MadeCall, ConstructCall, LastCalls DEF ExitInv
<1> QED
  BY <1>1, <1>2, CallShape

\* A step of main() itself keeps ExitInv.
LEMMA ExitMain ==
  ASSUME ServiceInv, ExitInv, MainStep
  PROVE ExitInv'
<1>0. /\ todo \in [Frames -> Seq(Calls)] /\ "main" \in Frames /\ "monitor" \in Frames
      /\ Handlers \subseteq Frames \ {"main", "monitor"} /\ Frames = {"main", "monitor"} \cup Handlers
      /\ "onMain" \in Handlers /\ "onMonitor" \in Handlers
  BY ExitTypes
<1>1. \A g \in Frames \ {"main"} : todo'[g] = todo[g]
  BY <1>0 DEF MainStep, PromptMain, Setup, TestRetry, GetService, TestRunning, Awake, Stop, Exit
<1>2. /\ UNCHANGED <<active, current, revived>>
      /\ monitor' = monitor \/ (monitor = "idle" /\ monitor' = "testing" /\ phase' = "starting")
  BY DEF MainStep, PromptMain, Setup, TestRetry, GetService, TestRunning, Awake, Stop, Exit,
         StartMonitoring, StopMonitoring, notifierVars
<1>3. /\ todo["main"] = <<>> /\ todo["onMain"] = <<>>
  BY DEF MainStep, PromptMain, Setup, TestRetry, GetService, TestRunning, Awake, Stop, Exit, MainAt,
         Runs, Handlers, HandlerOn
<1>4. TrappedInv' /\ (Trapped' <=> Trapped)
  BY <1>0, <1>1, <1>2 DEF ExitInv, TrappedInv, Trapped
<1>5. UNCHANGED Made
  BY <1>2 DEF Made
\* What main() calls next.
<1>6. ASSUME NEW ops, todo'["main"] \in Seq(Calls), ops \cap (ObjectOps \cup {"construct"}) = {},
             \A i \in 1 .. Len(todo'["main"]) : todo'["main"][i].op \in ops,
             phase' \in {"setup", "starting", "asking"} =>
                todo'["main"] = <<>> /\ phase \in {"setup", "starting", "asking"}
      PROVE MadeInv' /\ ConstructInv'
  <2>1. MadeInv'
    BY <1>0, <1>1, <1>2, <1>5, <1>6 DEF ExitInv, MadeInv
  <2>2. ConstructInv'
    <3>1. \A h \in Handlers : todo'[h] = todo[h]
      BY <1>0, <1>1
    <3>2. todo'["monitor"] = todo["monitor"] /\ (monitor = "reporting" => monitor' = "reporting")
      BY <1>0, <1>1, <1>2
    <3> QED
      BY <1>2, <1>4, <1>6, <3>1, <3>2 DEF ExitInv, ConstructInv
  <2> QED
    BY <2>1, <2>2
<1>7. CASE Setup \/ TestRetry \/ Stop \/ Exit \/ (GetService /\ phase' = "starting")
           \/ (TestRunning /\ gRunning)
  <2>1. todo' = todo
    BY <1>7 DEF Setup, TestRetry, Stop, Exit, GetService, TestRunning
  <2>2. phase' \in {"setup", "starting", "asking"} => phase \in {"setup", "starting", "asking"}
    BY <1>7 DEF Setup, TestRetry, Stop, Exit, GetService, TestRunning, MainAt
  <2>3. MadeInv' /\ ConstructInv'
    <3> DEFINE none == {}
    <3>1. \A i \in 1 .. Len(todo'["main"]) : todo'["main"][i].op \in none
      BY <1>3, <2>1
    <3>2. todo'["main"] = <<>> /\ todo'["main"] \in Seq(Calls) /\ none \cap (ObjectOps \cup {"construct"}) = {}
      BY <1>0, <1>3, <2>1
    <3> HIDE DEF none
    <3> QED
      BY <1>6, <2>2, <3>1, <3>2
  <2>4. CASE Stop \/ Exit
    <3>1. /\ phase \in {"shutdown", "joining", "failing"}
          /\ phase' = IF phase = "shutdown" THEN "joining" ELSE IF phase = "joining" THEN "exited" ELSE "failed"
          /\ phase' = "exited" => monitor = "stopped"
      BY <2>4 DEF Stop, Exit, MainAt
    <3>2. MainInv'
      BY <1>2, <1>3, <2>1, <3>1 DEF MainInv
    <3>3. \A o \in Objects : Outstanding(o)' <=> Outstanding(o)
      BY <2>1 DEF Outstanding
    <3>4. QuietInv'
      BY <1>2, <1>4, <3>1, <3>3 DEF ExitInv, QuietInv
    <3> QED
      BY <1>4, <2>3, <3>2, <3>4 DEF ExitInv
  <2>5. CASE ~(Stop \/ Exit)
    <3>1. phase' \notin {"shutdown", "joining", "exited"}
      BY <1>7, <2>5 DEF Setup, TestRetry, GetService, TestRunning
    <3> QED
      BY <1>4, <2>3, <3>1 DEF ExitInv, MainInv, QuietInv
  <2> QED
    BY <2>4, <2>5
<1>8. CASE Awake
  <2> DEFINE a == Each("check")
             ops == {"check", "report"}
  <2>1. PICK b \in {<<>>, Each("report")} : todo' = [todo EXCEPT !["main"] = a \o b]
    BY <1>8 DEF Awake
  <2>2. phase' = "loop"
    BY <1>8 DEF Awake
  <2>3. /\ a \in Seq(Calls) /\ \A i \in 1 .. Len(a) : a[i].op = "check"
        /\ Each("report") \in Seq(Calls) /\ \A i \in 1 .. Len(Each("report")) : Each("report")[i].op = "report"
    BY EachCalls DEF PointerOps
  <2>4. b \in Seq(Calls) /\ \A i \in 1 .. Len(b) : b[i].op = "report"
    <3>1. CASE b = <<>>
      BY <3>1
    <3>2. CASE b = Each("report")
      BY <2>3, <3>2
    <3> QED
      BY <2>1, <3>1, <3>2
  <2> HIDE DEF a
  <2>5. /\ a \o b \in Seq(Calls)
        /\ \A i \in 1 .. Len(a \o b) :
              \/ i \in 1 .. Len(a) /\ (a \o b)[i] = a[i]
              \/ i - Len(a) \in 1 .. Len(b) /\ (a \o b)[i] = b[i - Len(a)]
    BY <2>3, <2>4, TwoParts
  <2>6. \A i \in 1 .. Len(a \o b) : (a \o b)[i].op \in ops
    BY <2>3, <2>4, <2>5
  <2>7. todo'["main"] = a \o b
    BY <1>0, <2>1
  <2>8. ops \cap (ObjectOps \cup {"construct"}) = {}
    BY DEF ObjectOps
  <2> HIDE DEF ops
  <2>9. MadeInv' /\ ConstructInv'
    BY <1>6, <2>2, <2>5, <2>6, <2>7, <2>8
  <2> QED
    BY <1>4, <2>2, <2>9 DEF ExitInv, MainInv, QuietInv
<1>9. CASE TestRunning /\ ~gRunning
  <2>1. phase' = "shutdown" /\ todo'["main"] = Each("deactivate")
    BY <1>0, <1>9 DEF TestRunning
  <2>2. /\ Each("deactivate") \in Seq(Calls)
        /\ \A i \in 1 .. Len(Each("deactivate")) : Each("deactivate")[i].op = "deactivate"
    BY EachCalls DEF PointerOps
  <2>3. MadeInv' /\ ConstructInv'
    <3> DEFINE ops == {"deactivate"}
    <3>1. ops \cap (ObjectOps \cup {"construct"}) = {} /\ \A i \in 1 .. Len(todo'["main"]) : todo'["main"][i].op \in ops
      BY <2>1, <2>2 DEF ObjectOps
    <3> HIDE DEF ops
    <3> QED
      BY <1>6, <2>1, <2>2, <3>1
  <2>4. MainInv'
    BY <2>1, <2>2 DEF MainInv
  <2>5. QuietInv'
    <3>1. ASSUME NEW o \in Objects PROVE Outstanding(o)'
      <4>1. o[1] \in Components
        BY DEF Objects
      <4>2. "deactivate" \in PointerOps
        BY DEF PointerOps
      <4>3. \E i \in 1 .. Len(todo'["main"]) : todo'["main"][i] = Call("deactivate", o[1])
        BY <2>1, <4>1, <4>2, EachHasAll
      <4> QED
        BY <4>3 DEF Outstanding
    <3> QED
      BY <3>1 DEF QuietInv
  <2> QED
    BY <1>4, <2>3, <2>4, <2>5 DEF ExitInv
<1>10. CASE GetService /\ phase' # "starting"
  <2> DEFINE new == [c \in Components |-> <<Call("construct", c), Call("activate", c), Call("beat", c)>>]
             all == InOrder(new)
  <2>1. phase = "asking" /\ phase' = "loop" /\ todo'["main"] = all
    BY <1>0, <1>10 DEF GetService, MainAt
  <2>2. /\ all \in Seq(Calls)
        /\ \A i \in 1 .. Len(all) : all[i].op \in {"construct", "activate", "beat"}
    BY CreationCalls
  <2>3. \A i, j \in 1 .. Len(all) : i # j => all[i] # all[j]
    BY CreationOnce
  <2> HIDE DEF all, new
  <2>4. \A c \in Components : current[c] = 0
    BY <2>1 DEF ExitInv, ConstructInv
  <2>5. MadeInv'
    <3>1. \A i \in 1 .. Len(all) : all[i].op \notin ObjectOps
      BY <2>2 DEF ObjectOps
    <3> QED
      BY <1>0, <1>1, <1>2, <1>5, <2>1, <3>1 DEF ExitInv, MadeInv
  <2>6. ConstructInv'
    <3>1. \A h \in Handlers : todo'[h] = todo[h]
      BY <1>0, <1>1
    <3>2. todo'["monitor"] = todo["monitor"] /\ monitor' = monitor
      BY <1>0, <1>1, <1>2, <2>1
    <3>3. ASSUME NEW i \in 1 .. Len(all), all[i].op = "construct" PROVE current[all[i].on] = 0
      <4>1. all[i] \in Calls
        BY <2>2
      <4>2. all[i].on \in Components
        BY <3>3, <4>1 DEF Calls, ObjectOps
      <4> QED
        BY <2>4, <4>2
    <3> QED
      BY <1>2, <1>4, <2>1, <2>3, <3>1, <3>2, <3>3 DEF ExitInv, ConstructInv
  <2> QED
    BY <1>4, <2>1, <2>5, <2>6 DEF ExitInv, MainInv, QuietInv
<1> QED
  BY <1>7, <1>8, <1>9, <1>10 DEF MainStep, PromptMain, TestRunning

\* A step of the monitor's loop keeps ExitInv.
LEMMA ExitMonitor ==
  ASSUME ServiceInv, ExitInv, MonitorStep
  PROVE ExitInv'
<1>0. /\ todo \in [Frames -> Seq(Calls)] /\ "main" \in Frames /\ "monitor" \in Frames
      /\ Handlers \subseteq Frames \ {"main", "monitor"} /\ Frames = {"main", "monitor"} \cup Handlers
      /\ "onMain" \in Handlers /\ "onMonitor" \in Handlers
  BY ExitTypes
<1>1. UNCHANGED <<phase, active, current, revived>> /\ phase # "exited" /\ todo["onMonitor"] = <<>>
  BY DEF MonitorStep, PromptMonitor, SlowMonitor, Test, WakeUp, PlainStep, ScanOne, Trigger, Restarted,
         MonitorRuns, At, Runs, Ended, Handlers, HandlerOn, notifierVars
<1>2. \A g \in Frames \ {"monitor"} : todo'[g] = todo[g]
  BY <1>0 DEF MonitorStep, PromptMonitor, SlowMonitor, Test, WakeUp, PlainStep, ScanOne, Trigger,
         Restarted, Done, Becomes
<1>3. MainInv'
  BY <1>0, <1>1, <1>2 DEF ExitInv, MainInv
<1>4. ~Trapped
  BY DEF MonitorStep, PromptMonitor, SlowMonitor, Test, WakeUp, PlainStep, ScanOne, Trigger, Restarted,
         MonitorRuns, RestartReturns, Trapped
<1>5. QuietInv'
  <2>1. \A o \in Objects : Outstanding(o)' <=> Outstanding(o)
    BY <1>0, <1>2 DEF Outstanding
  <2> QED
    BY <1>1, <1>4, <2>1 DEF ExitInv, QuietInv
<1>6. UNCHANGED Made
  BY <1>1 DEF Made
\* What the monitor's thread calls next.
<1>7. ASSUME NEW ops, ops \cap ObjectOps = {},
             \A i \in 1 .. Len(todo'["monitor"]) :
                /\ todo'["monitor"][i].op \in ops
                /\ todo'["monitor"][i].op = "construct" =>
                      monitor' = "reporting" /\ current[todo'["monitor"][i].on] # 0,
             Trapped' => todo'["monitor"][Len(todo'["monitor"])].op = "beat"
      PROVE ExitInv'
  <2>1. TrappedInv'
    BY <1>0, <1>1, <1>2, <1>7 DEF TrappedInv
  <2>2. MadeInv'
    BY <1>0, <1>1, <1>2, <1>6, <1>7 DEF ExitInv, MadeInv
  <2>3. ConstructInv'
    <3>1. todo'["main"] = todo["main"] /\ \A h \in Handlers : todo'[h] = todo[h]
      BY <1>0, <1>2
    <3> QED
      BY <1>1, <1>4, <1>7, <3>1 DEF ExitInv, ConstructInv
  <2> QED
    BY <1>3, <1>5, <2>1, <2>2, <2>3 DEF ExitInv
<1>8. ASSUME todo'["monitor"] = <<>> PROVE ExitInv'
  <2> DEFINE none == {}
  <2>1. none \cap ObjectOps = {} /\ \A i \in 1 .. Len(todo'["monitor"]) : FALSE
    BY <1>8
  <2> HIDE DEF none
  <2> QED
    BY <1>7, <1>8, <2>1 DEF Trapped
<1>9. CASE Test \/ WakeUp \/ PlainStep
  BY <1>8, <1>9 DEF Test, WakeUp, PlainStep, MonitorRuns
<1>10. ASSUME NEW c \in Components, ScanOne(c) PROVE ExitInv'
  <2>1. CASE isAlive[c] /\ AutoRecovery /\ current[c] > 0
    <3> DEFINE s == <<Call("deactivate", c), Call("pause", c), Call("construct", c),
                      Call("activate", c), Call("beat", c)>>
               ops == {"deactivate", "pause", "construct", "activate", "beat"}
    <3>1. todo'["monitor"] = s /\ monitor' = "reporting"
      BY <1>0, <1>10, <2>1 DEF ScanOne, Scan
    <3>2. \A i \in 1 .. Len(s) : s[i].op \in ops /\ s[i].on = c
      BY DEF Call
    <3>3. s[Len(s)].op = "beat"
      BY OneCall
    <3>4. current[c] # 0
      BY <2>1
    <3>5. ops \cap ObjectOps = {}
      BY DEF ObjectOps
    <3> HIDE DEF s, ops
    <3> QED
      BY <1>7, <3>1, <3>2, <3>3, <3>4, <3>5
  <2>2. CASE ~(isAlive[c] /\ AutoRecovery /\ current[c] > 0)
    BY <1>8, <1>10, <2>2 DEF ScanOne, MonitorRuns
  <2> QED
    BY <2>1, <2>2
<1>11. CASE Trigger
  <2> DEFINE c == Head(unhealthy)
  <2>1. CASE CanRestart(c) /\ current[c] > 0
    <3> DEFINE s == <<Call("deactivate", c), Call("pause", c), Call("activate", c), Call("result", c)>>
               ops == {"deactivate", "pause", "activate", "result"}
    <3>1. todo'["monitor"] = s /\ monitor' = "restarting"
      BY <1>0, <1>11, <2>1 DEF Trigger, TriggerRecovery
    <3>2. \A i \in 1 .. Len(s) : s[i].op \in ops
      BY DEF Call
    <3>3. ops \cap ObjectOps = {} /\ "construct" \notin ops
      BY DEF ObjectOps
    <3> HIDE DEF s, ops, c
    <3> QED
      BY <1>7, <3>1, <3>2, <3>3 DEF Trapped
  <2>2. CASE ~(CanRestart(c) /\ current[c] > 0)
    BY <1>8, <1>11, <2>2 DEF Trigger, MonitorRuns
  <2> QED
    BY <2>1, <2>2
<1>12. CASE Restarted
  <2>1. monitor' = "recovering"
    BY <1>12 DEF Restarted, RestartReturns
  <2>2. CASE todo'["monitor"] = <<>>
    BY <1>8, <2>2
  <2>3. ASSUME NEW c \in Components, At("monitor", "result", c), Done("monitor") PROVE ExitInv'
    <3>1. todo["monitor"] # <<>> /\ 1 \in 1 .. Len(todo["monitor"]) /\ todo["monitor"][1].op = "result"
      BY <1>0, <2>3, AtFirst
    <3>2. Len(todo["monitor"]) = 1
      BY <3>1 DEF ServiceInv, CallbackInv
    <3> DEFINE s == <<>>
    <3>3. Becomes("monitor", s) /\ s \in Seq(Calls) /\ Len(s) = 0
      BY <2>3 DEF Done
    <3> HIDE DEF s
    <3>4. /\ todo' \in [Frames -> Seq(Calls)]
          /\ Len(todo'["monitor"]) = Len(s) + Len(todo["monitor"]) - 1
      BY <1>0, <3>1, <3>3, BecomesList
    <3>5. todo'["monitor"] = <<>>
      <4>1. Len(todo'["monitor"]) = 0 /\ todo'["monitor"] \in Seq(Calls)
        BY <1>0, <3>2, <3>3, <3>4
      <4> QED
        BY <4>1
    <3> QED
      BY <1>8, <3>5
  <2> QED
    BY <1>12, <2>2, <2>3 DEF Restarted, MonitorRuns
<1> QED
  BY <1>9, <1>10, <1>11, <1>12 DEF MonitorStep, PromptMonitor, SlowMonitor

\* Every step keeps ExitInv.
LEMMA ExitInvStep == ServiceInv /\ ExitInv /\ [Next]_vars => ExitInv'
<1> SUFFICES ASSUME ServiceInv, ExitInv, [Next]_vars PROVE ExitInv'
  OBVIOUS
<1>0. /\ todo \in [Frames -> Seq(Calls)] /\ "main" \in Frames /\ "monitor" \in Frames
      /\ Handlers \subseteq Frames \ {"main", "monitor"} /\ Frames = {"main", "monitor"} \cup Handlers
      /\ "onMain" \in Handlers /\ "onMonitor" \in Handlers
  BY ExitTypes
<1>1. ASSUME NEW t \in {"main", "monitor"}, Usr1(t) PROVE ExitInv'
  <2> DEFINE h == HandlerOn(t)
             s == Each("recover")
  <2>1. h \in Handlers /\ (t = "main" => h # "onMonitor") /\ (t = "monitor" => h # "onMain")
    BY DEF HandlerOn, Handlers
  <2>2. /\ todo' = [todo EXCEPT ![h] = s] /\ phase # "exited"
        /\ t = "monitor" => monitor \notin {"idle", "stopped"}
        /\ UNCHANGED <<phase, monitor, active, current, revived>>
    BY <1>1 DEF Usr1, Ended, healthVars, loopVars, notifierVars
  <2>3. s \in Seq(Calls) /\ \A i \in 1 .. Len(s) : s[i].op = "recover"
    BY EachCalls DEF PointerOps
  <2> HIDE DEF h, s
  <2>4. todo'[h] = s /\ \A g \in Frames \ {h} : todo'[g] = todo[g]
    BY <1>0, <2>1, <2>2
  <2>5. UNCHANGED <<todo["main"], todo["monitor"], Trapped, Made>> /\ (Trapped' <=> Trapped)
    BY <1>0, <2>1, <2>2, <2>4 DEF Trapped, Made
  <2>6. TrappedInv'
    BY <1>0, <2>1, <2>2, <2>4, <2>5 DEF ExitInv, TrappedInv
  <2>7. MadeInv'
    BY <1>0, <2>2, <2>3, <2>4, <2>5 DEF ExitInv, MadeInv, ObjectOps
  <2>8. ConstructInv'
    BY <1>0, <2>1, <2>2, <2>3, <2>4, <2>5 DEF ExitInv, ConstructInv
  <2>9. MainInv'
    BY <2>2, <2>5 DEF ExitInv, MainInv
  <2>10. QuietInv'
    <3>1. \A o \in Objects : Outstanding(o)' <=> Outstanding(o)
      BY <2>5 DEF Outstanding
    <3> QED
      BY <2>2, <2>5, <3>1 DEF ExitInv, QuietInv
  <2> QED
    BY <2>6, <2>7, <2>8, <2>9, <2>10 DEF ExitInv
<1>2. CASE Terminate \/ (\E o \in Objects : PollerEnds(o)) \/ Tick \/ UNCHANGED vars
  <2>1. UNCHANGED <<todo, phase, monitor, active, current, revived>>
    BY <1>2 DEF Terminate, PollerEnds, Tick, TimePasses, vars, processVars, notifierVars, healthVars, loopVars
  <2>2. (\A o \in Objects : Outstanding(o)' <=> Outstanding(o)) /\ UNCHANGED Made
    BY <2>1 DEF Outstanding, Made
  <2> QED
    BY <2>1, <2>2 DEF ExitInv, TrappedInv, Trapped, MadeInv, ConstructInv, MainInv, QuietInv
<1>3. ASSUME NEW f \in Frames, NEW o \in Objects, UseFreed(f, o) PROVE ExitInv'
  <2>1. UNCHANGED <<todo, monitor, active, current, revived>> /\ phase' = "crashed"
    BY <1>3 DEF UseFreed, healthVars, loopVars, notifierVars
  <2>2. UNCHANGED Made
    BY <2>1 DEF Made
  <2> QED
    BY <2>1, <2>2 DEF ExitInv, TrappedInv, Trapped, MadeInv, ConstructInv, MainInv, QuietInv
<1> QED
  BY <1>1, <1>2, <1>3, ExitCall, ExitMain, ExitMonitor DEF Next

\* ExitInv holds in every reachable state.
THEOREM ExitInvariance == Spec => [](ServiceInv /\ ExitInv)
<1>1. Init => ServiceInv /\ ExitInv
  <2> SUFFICES ASSUME Init PROVE ExitInv
    BY InitServiceInv
  <2>1. \A f \in Frames : todo[f] = <<>>
    BY DEF Init
  <2>2. /\ todo["main"] = <<>> /\ todo["monitor"] = <<>> /\ todo["onMonitor"] = <<>>
        /\ \A h \in Handlers : todo[h] = <<>>
    BY <2>1 DEF Frames, Handlers
  <2> QED
    BY <2>1, <2>2 DEF Init, HealthInit, ExitInv, TrappedInv, Trapped, MadeInv, ConstructInv, MainInv, QuietInv
<1>2. ServiceInv /\ ExitInv /\ [Next]_vars => (ServiceInv /\ ExitInv)'
  BY ServiceInvStep, ExitInvStep
<1> QED
  BY <1>1, <1>2, PTL DEF Spec

\* When main() has ended (main.cpp:309), an object that runs has been activated
\* since main() deactivated the notifiers, however many restarts, recoveries and
\* signals there have been.
THEOREM QuietExitHolds == Spec => []QuietExit
<1>1. ServiceInv /\ ExitInv => QuietExit
  <2> SUFFICES ASSUME ServiceInv, ExitInv, phase = "exited", NEW o \in Objects, o \notin revived
               PROVE ~active[o] /\ poller[o] = "none"
    BY DEF QuietExit
  <2>1. monitor = "stopped" /\ todo["main"] = <<>> /\ todo["onMain"] = <<>> /\ todo["onMonitor"] = <<>>
    BY DEF ExitInv, MainInv, TrappedInv
  <2>2. todo["monitor"] = <<>>
    BY <2>1 DEF ServiceInv, CallbackInv
  <2>3. ~active[o]
    BY <2>1 DEF ExitInv, QuietInv, Trapped, Outstanding
  <2>4. \A f \in Frames : todo[f] = <<>>
    BY <2>1, <2>2 DEF Frames, Handlers
  <2>5. threadMutex[o] = Nobody
    BY <2>4 DEF ServiceInv, OwnerInv, ServiceTypeOK, InCall
  <2> QED
    BY <2>3, <2>5 DEF ServiceInv, PollerInv, ServiceTypeOK
<1> QED
  BY <1>1, ExitInvariance, PTL

-----------------------------------------------------------------------------
(* Deadlock without automatic recovery and SIGUSR1 *)

\* No handler runs, and the health callback calls nobody.
LEMMA PlainStepKept ==
  ASSUME AutoRecovery = FALSE, MaxSignals = 0
  PROVE ServiceInv /\ NoHandler /\ PlainCallback /\ [Next]_vars => (NoHandler /\ PlainCallback)'
<1> SUFFICES ASSUME ServiceInv, NoHandler, PlainCallback, [Next]_vars PROVE NoHandler' /\ PlainCallback'
  OBVIOUS
<1>0. /\ todo \in [Frames -> Seq(Calls)] /\ "main" \in Frames /\ "monitor" \in Frames
      /\ Handlers \subseteq Frames \ {"main", "monitor"}
      /\ Frames = {"main", "monitor"} \cup Handlers
  BY ExitTypes
<1>1. ASSUME NEW f \in Frames, FrameStep(f) PROVE NoHandler' /\ PlainCallback'
  <2>1. CASE Crash
    BY <2>1 DEF Crash, NoHandler, PlainCallback
  <2>2. ASSUME NEW op, NEW x, NEW s \in Seq(Calls), Shape(f, op, x, s) PROVE NoHandler' /\ PlainCallback'
    <3>1. At(f, op, x) /\ Becomes(f, s) /\ UNCHANGED monitor
      BY <2>2 DEF Shape
    <3>2. todo[f] # <<>> /\ f \notin Handlers
      BY <3>1 DEF At, NoHandler
    <3>3. \A g \in Frames \ {f} : todo'[g] = todo[g]
      BY <1>0, <3>1 DEF Becomes
    <3>4. NoHandler'
      BY <1>0, <3>2, <3>3 DEF NoHandler
    <3>5. PlainCallback'
      BY <1>0, <3>1, <3>2, <3>3 DEF PlainCallback
    <3> QED
      BY <3>4, <3>5
  <2> QED
    BY <1>1, <2>1, <2>2, CallShape
<1>2. CASE MainStep
  <2>1. /\ \A g \in Frames \ {"main"} : todo'[g] = todo[g]
        /\ monitor' = monitor \/ monitor' = "testing"
    BY <1>0, <1>2 DEF MainStep, PromptMain, Setup, TestRetry, GetService, TestRunning, Awake, Stop, Exit,
           StartMonitoring, StopMonitoring
  <2> QED
    BY <1>0, <2>1 DEF NoHandler, PlainCallback
<1>3. CASE MonitorStep
  <2>1. \A g \in Frames \ {"monitor"} : todo'[g] = todo[g]
    BY <1>0, <1>3 DEF MonitorStep, PromptMonitor, SlowMonitor, Test, WakeUp, PlainStep, ScanOne, Trigger,
           Restarted, Done, Becomes
  <2>2. NoHandler'
    BY <1>0, <2>1 DEF NoHandler
  <2>3. CASE Trigger \/ Restarted
    BY <2>2, <2>3 DEF Trigger, Restarted, TriggerRecovery, RestartReturns, PlainCallback
  <2>4. CASE Test \/ WakeUp \/ PlainStep \/ \E c \in Components : ScanOne(c)
    BY <2>2, <2>4 DEF Test, WakeUp, PlainStep, ScanOne, MonitorRuns, PlainCallback
  <2> QED
    BY <1>3, <2>3, <2>4 DEF MonitorStep, PromptMonitor, SlowMonitor
<1>4. ASSUME NEW t \in {"main", "monitor"}, Usr1(t) PROVE FALSE
  BY <1>4 DEF Usr1, ServiceInv, ServiceTypeOK
<1>5. CASE \/ Terminate \/ (\E o \in Objects : PollerEnds(o)) \/ Tick \/ UNCHANGED vars
           \/ (\E f \in Frames, o \in Objects : UseFreed(f, o))
  BY <1>5 DEF Terminate, PollerEnds, Tick, TimePasses, UseFreed, vars, processVars, NoHandler, PlainCallback
<1> QED
  BY <1>1, <1>2, <1>3, <1>4, <1>5 DEF Next

\* Without automatic recovery and SIGUSR1 no frame ever waits for itself,
\* directly or through others.
THEOREM NoDeadlockHolds ==
  ASSUME AutoRecovery = FALSE, MaxSignals = 0
  PROVE Spec => []NoDeadlock
<1> DEFINE J == ServiceInv /\ NoHandler /\ PlainCallback
<1>1. Init => J
  <2> SUFFICES ASSUME Init PROVE NoHandler /\ PlainCallback
    BY InitServiceInv
  <2>1. \A h \in Handlers : todo[h] = <<>>
    BY DEF Init, Frames, Handlers
  <2> QED
    BY <2>1 DEF Init, HealthInit, NoHandler, PlainCallback
<1>2. J /\ [Next]_vars => J'
  BY ServiceInvStep, PlainStepKept
<1>3. J => NoDeadlock
  <2> SUFFICES ASSUME ServiceInv, NoHandler, PlainCallback, ~Ended PROVE NoDeadlock
    BY DEF NoDeadlock
  <2> DEFINE w == [f \in Frames |-> WaitsFor(f)]
  <2>1. \A f \in Frames : WaitsFor(f) = BlockedBy(f)
    BY DEF WaitsFor, Runs, NoHandler, Frames, Handlers, HandlerOn
  <2>2. w \in [Frames -> SUBSET Frames]
    BY <2>1, WaitsEnd
  <2>3. \A f \in Frames : \A o \in w[f] : o \in Frames /\ (o = "monitor" \/ w[o] = {})
    BY <2>1, WaitsEnd
  <2>4. "monitor" \in Frames /\ "monitor" \notin w["monitor"]
    BY <2>1, MonitorWaits DEF Frames, PlainCallback
  <2> HIDE DEF w
  <2>5. ~Circular(w)
    BY <2>2, <2>3, <2>4, Acyclic
  <2> QED
    BY <2>5 DEF NoDeadlock, w
<1> QED
  BY <1>1, <1>2, <1>3, PTL DEF Spec
=============================================================================
