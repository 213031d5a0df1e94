-------------------------- MODULE UdfpsHandlerProofs --------------------------
(***************************************************************************)
(* AgreesWithLast for any number of threads that call the handler.         *)
(*                                                                         *)
(* It looks only at moments without a call under way.  In between, an      *)
(* output that the last call sets and that is not tainted either has its   *)
(* value already or is waiting for a write of that value (Pending): the    *)
(* writes that calls of the other kind still have to make are of tainted   *)
(* outputs (OpposedTainted), and a call writes one value (OneValue).       *)
(***************************************************************************)
EXTENDS UdfpsHandler, TLAPS

\* The value that a call of this kind writes, and the outputs it writes.
Wants(kind) == kind # "up"
Sets(kind) ==
    IF kind = "wait" THEN {"fodPress"}
    ELSE IF optional THEN Outputs ELSE Outputs \ {"fingerState"}

OneValue ==
    \A t \in Threads : \A i \in 1 .. Len(todo[t]) :
        /\ todo[t][i][2] = Wants(call[t])
        /\ todo[t][i][1] = "fingerState" => optional

OpposedTainted ==
    \A t \in Threads :
        Opposed(call[t], last) => \A i \in 1 .. Len(todo[t]) : todo[t][i][1] \in tainted

Outstanding(o, v) == \E t \in Threads : \E i \in 1 .. Len(todo[t]) : todo[t][i] = <<o, v>>

Pending ==
    \A o \in Sets(last) \ tainted : out[o] = Wants(last) \/ Outstanding(o, Wants(last))

\* A file that is not there is never written.
Absent == ~optional => ~out["fingerState"]

IInv ==
    /\ UdfpsTypeOK
    /\ OneValue
    /\ OpposedTainted
    /\ Pending
    /\ Absent

-----------------------------------------------------------------------------
(* The writes of a call *)

\* One list after another: all of both is in the whole, and no more.
LEMMA Joined ==
  \A S : \A a \in Seq(S), b \in Seq(S) :
    /\ a \o b \in Seq(S)
    /\ \A i \in 1 .. Len(a) : \E j \in 1 .. Len(a \o b) : (a \o b)[j] = a[i]
    /\ \A i \in 1 .. Len(b) : \E j \in 1 .. Len(a \o b) : (a \o b)[j] = b[i]
<1> SUFFICES ASSUME NEW S, NEW a \in Seq(S), NEW b \in Seq(S)
    PROVE /\ a \o b \in Seq(S)
          /\ \A i \in 1 .. Len(a) : \E j \in 1 .. Len(a \o b) : (a \o b)[j] = a[i]
          /\ \A i \in 1 .. Len(b) : \E j \in 1 .. Len(a \o b) : (a \o b)[j] = b[i]
  OBVIOUS
<1>1. ASSUME NEW i \in 1 .. Len(a) PROVE i \in 1 .. Len(a \o b) /\ (a \o b)[i] = a[i]
  OBVIOUS
<1>2. ASSUME NEW i \in 1 .. Len(b)
      PROVE Len(a) + i \in 1 .. Len(a \o b) /\ (a \o b)[Len(a) + i] = b[i]
  OBVIOUS
<1>3. a \o b \in Seq(S)
  OBVIOUS
<1>4. \A i \in 1 .. Len(a) : \E j \in 1 .. Len(a \o b) : (a \o b)[j] = a[i]
  BY <1>1
<1>5. \A i \in 1 .. Len(b) : \E j \in 1 .. Len(a \o b) : (a \o b)[j] = b[i]
  BY <1>2
<1> QED
  BY <1>3, <1>4, <1>5

\* What is in the whole is in one of the two.
LEMMA FromEither ==
  \A S : \A a \in Seq(S), b \in Seq(S) : \A j \in 1 .. Len(a \o b) :
    \/ \E i \in 1 .. Len(a) : (a \o b)[j] = a[i]
    \/ \E i \in 1 .. Len(b) : (a \o b)[j] = b[i]
<1> SUFFICES ASSUME NEW S, NEW a \in Seq(S), NEW b \in Seq(S), NEW j \in 1 .. Len(a \o b)
             PROVE \/ \E i \in 1 .. Len(a) : (a \o b)[j] = a[i]
                   \/ \E i \in 1 .. Len(b) : (a \o b)[j] = b[i]
  OBVIOUS
<1>1. CASE j \in 1 .. Len(a)
  <2>1. (a \o b)[j] = a[j]
    BY <1>1
  <2> QED
    BY <1>1, <2>1
<1>2. CASE j \notin 1 .. Len(a)
  <2>1. j - Len(a) \in 1 .. Len(b) /\ (a \o b)[j] = b[j - Len(a)]
    BY <1>2
  <2> QED
    BY <2>1
<1> QED
  BY <1>1, <1>2

\* All writes one value, to every output that is there.
LEMMA AllWrites ==
  ASSUME NEW value \in BOOLEAN, optional \in BOOLEAN
  PROVE /\ All(value) \in Seq(Outputs \X BOOLEAN)
        /\ \A i \in 1 .. Len(All(value)) :
               /\ All(value)[i][2] = value
               /\ All(value)[i][1] = "fingerState" => optional
        /\ \A o \in Sets("up") : \E i \in 1 .. Len(All(value)) : All(value)[i] = <<o, value>>
<1> DEFINE base == <<"x", "y", "press", "hbm", "nit", "fodPress">>
           more == IF optional THEN <<"fingerState">> ELSE <<>>
           names == base \o more
<1>1. All(value) = [i \in DOMAIN names |-> <<names[i], value>>]
  BY DEF All
<1>2. base \in Seq(Outputs) /\ Len(base) = 6 /\ more \in Seq(Outputs)
  <2>1. \A o \in {"x", "y", "press", "hbm", "nit", "fodPress", "fingerState"} : o \in Outputs
    BY DEF Outputs
  <2>2. base \in Seq(Outputs) /\ Len(base) = 6
    BY <2>1
  <2>3. more \in Seq(Outputs)
    BY <2>1
  <2> QED
    BY <2>2, <2>3
<1>3. /\ \A o \in Outputs \ {"fingerState"} : \E i \in 1 .. Len(base) : base[i] = o
      /\ \A i \in 1 .. Len(base) : base[i] # "fingerState"
  <2>1. /\ base[1] = "x" /\ base[2] = "y" /\ base[3] = "press" /\ base[4] = "hbm"
        /\ base[5] = "nit" /\ base[6] = "fodPress"
    OBVIOUS
  <2> HIDE DEF base
  <2> QED
    BY <1>2, <2>1 DEF Outputs
<1>4. optional => 1 \in 1 .. Len(more) /\ more[1] = "fingerState"
  OBVIOUS
<1>5. ~optional => Len(more) = 0
  OBVIOUS
<1>0. names = base \o more
  OBVIOUS
<1> HIDE DEF base, more, names
<1>6. /\ names \in Seq(Outputs)
      /\ \A i \in 1 .. Len(base) : \E j \in 1 .. Len(names) : names[j] = base[i]
      /\ \A i \in 1 .. Len(more) : \E j \in 1 .. Len(names) : names[j] = more[i]
      /\ \A j \in 1 .. Len(names) : \/ \E i \in 1 .. Len(base) : names[j] = base[i]
                                    \/ \E i \in 1 .. Len(more) : names[j] = more[i]
  <2>1. base \in Seq(Outputs) /\ more \in Seq(Outputs)
    BY <1>2
  <2>2. \A b \in Seq(Outputs) :
          /\ \A i \in 1 .. Len(base) : \E j \in 1 .. Len(base \o b) : (base \o b)[j] = base[i]
          /\ \A i \in 1 .. Len(b) : \E j \in 1 .. Len(base \o b) : (base \o b)[j] = b[i]
    BY <2>1, Joined
  <2>3. \A b \in Seq(Outputs) : \A j \in 1 .. Len(base \o b) :
          \/ \E i \in 1 .. Len(base) : (base \o b)[j] = base[i]
          \/ \E i \in 1 .. Len(b) : (base \o b)[j] = b[i]
    BY <2>1, FromEither
  <2>4. names \in Seq(Outputs)
    BY <1>0, <2>1
  <2>5. /\ \A i \in 1 .. Len(base) : \E j \in 1 .. Len(names) : names[j] = base[i]
        /\ \A i \in 1 .. Len(more) : \E j \in 1 .. Len(names) : names[j] = more[i]
    BY <1>0, <2>1, <2>2, Zenon
  <2>6. \A j \in 1 .. Len(names) : \/ \E i \in 1 .. Len(base) : names[j] = base[i]
                                   \/ \E i \in 1 .. Len(more) : names[j] = more[i]
    BY <1>0, <2>1, <2>3, Zenon
  <2> QED
    BY <2>4, <2>5, <2>6
<1>7. DOMAIN names = 1 .. Len(names) /\ Len(names) \in Nat
  BY <1>6
<1>8. All(value) \in Seq(Outputs \X BOOLEAN) /\ Len(All(value)) = Len(names)
  BY <1>1, <1>6, <1>7
<1>9. \A i \in 1 .. Len(names) : All(value)[i] = <<names[i], value>>
  BY <1>1, <1>7
<1>10. \A i \in 1 .. Len(names) : names[i] = "fingerState" => optional
  BY <1>3, <1>4, <1>5, <1>6
<1>11. \A o \in Sets("up") : \E i \in 1 .. Len(names) : names[i] = o
  BY <1>3, <1>4, <1>5, <1>6 DEF Sets, Outputs
<1> QED
  BY <1>8, <1>9, <1>10, <1>11

\* A call writes what its kind wants, to the outputs it sets.
LEMMA CallWrites ==
  ASSUME NEW kind \in Call, optional \in BOOLEAN
  PROVE /\ Writes(kind) \in Seq(Outputs \X BOOLEAN)
        /\ \A i \in 1 .. Len(Writes(kind)) :
               /\ Writes(kind)[i][2] = Wants(kind)
               /\ Writes(kind)[i][1] = "fingerState" => optional
        /\ \A o \in Sets(kind) : \E i \in 1 .. Len(Writes(kind)) : Writes(kind)[i] = <<o, Wants(kind)>>
<1>1. CASE kind \in {"down", "up"}
  <2>1. Writes(kind) = All(Wants(kind)) /\ Sets(kind) = Sets("up") /\ Wants(kind) \in BOOLEAN
    BY <1>1 DEF Writes, Wants, Sets, onFingerDown, onFingerUp
  <2> QED
    BY <2>1, AllWrites
<1>2. CASE kind = "wait"
  <2>1. Writes(kind) = << <<"fodPress", TRUE>> >> /\ Sets(kind) = {"fodPress"} /\ Wants(kind) = TRUE
    BY <1>2 DEF Writes, Waiting, Sets, Wants
  <2> DEFINE w == <<"fodPress", TRUE>>
  <2>2. w \in Outputs \X BOOLEAN /\ w[1] = "fodPress" /\ w[2] = TRUE
    BY DEF Outputs
  <2>3. Writes(kind) = <<w>> /\ Wants(kind) = TRUE /\ \A o \in Sets(kind) : <<o, Wants(kind)>> = w
    BY <2>1
  <2> HIDE DEF w
  <2>4. <<w>> \in Seq(Outputs \X BOOLEAN) /\ Len(<<w>>) = 1 /\ <<w>>[1] = w
    BY <2>2
  <2> DEFINE ws == <<w>>
  <2>5. ws \in Seq(Outputs \X BOOLEAN) /\ Len(ws) = 1 /\ ws[1] = w /\ Writes(kind) = ws
    BY <2>3, <2>4
  <2> HIDE DEF ws
  <2>6. \A i \in 1 .. Len(ws) : ws[i] = w
    BY <2>5
  <2>7. 1 \in 1 .. Len(ws)
    BY <2>5
  <2> QED
    BY <2>2, <2>3, <2>5, <2>6, <2>7
<1> QED
  BY <1>1, <1>2 DEF Call

-----------------------------------------------------------------------------
(* The invariant *)

\* Everything is off when init() has been called.
LEMMA InitIInv == Init => IInv
<1> SUFFICES ASSUME Init PROVE IInv
  OBVIOUS
<1>1. UdfpsTypeOK
  BY DEF Init, UdfpsTypeOK, Call
<1>2. OneValue /\ OpposedTainted
  BY DEF Init, OneValue, OpposedTainted
<1>3. Pending /\ Absent
  BY DEF Init, Pending, Absent, Wants, Sets, Outputs
<1> QED
  BY <1>1, <1>2, <1>3 DEF IInv

\* A call that begins has all its writes before it, and taints what calls of
\* the other kind have still to write.
LEMMA BeginKeeps ==
  ASSUME IInv, NEW t \in Threads, NEW kind \in Call, Begin(t, kind)
  PROVE IInv'
<1> DEFINE w == Writes(kind)
<1>0. /\ optional \in BOOLEAN /\ todo \in [Threads -> Seq(Outputs \X BOOLEAN)] /\ call \in [Threads -> Call]
      /\ UNCHANGED <<fails, optional, out>>
  BY DEF IInv, UdfpsTypeOK, Begin
<1>1. /\ w \in Seq(Outputs \X BOOLEAN)
      /\ \A i \in 1 .. Len(w) : w[i][2] = Wants(kind) /\ (w[i][1] = "fingerState" => optional)
      /\ \A o \in Sets(kind) : \E i \in 1 .. Len(w) : w[i] = <<o, Wants(kind)>>
  BY <1>0, CallWrites
<1>2. todo' = [todo EXCEPT ![t] = w] /\ call' = [call EXCEPT ![t] = kind] /\ last' = kind
  BY DEF Begin
<1> HIDE DEF w
<1>3. /\ todo'[t] = w /\ call'[t] = kind
      /\ \A u \in Threads \ {t} : todo'[u] = todo[u] /\ call'[u] = call[u]
  BY <1>0, <1>2
<1>4. tainted' = UNION { {x[1] : x \in ToSet(todo[u])} : u \in {v \in Threads : Opposed(call[v], kind)} }
  BY DEF Begin
<1>5. \A u \in Threads : \A i \in 1 .. Len(todo[u]) : Opposed(call[u], kind) => todo[u][i][1] \in tainted'
  <2> SUFFICES ASSUME NEW u \in Threads, NEW i \in 1 .. Len(todo[u]), Opposed(call[u], kind)
               PROVE todo[u][i][1] \in tainted'
    OBVIOUS
  <2>1. todo[u][i] \in ToSet(todo[u])
    BY <1>0 DEF ToSet
  <2> QED
    BY <1>4, <2>1
<1>6. tainted' \subseteq Outputs
  <2> SUFFICES ASSUME NEW u \in Threads, NEW x \in ToSet(todo[u]) PROVE x[1] \in Outputs
    BY <1>4
  <2> QED
    BY <1>0 DEF ToSet
<1>7. UdfpsTypeOK'
  BY <1>0, <1>1, <1>2, <1>6 DEF IInv, UdfpsTypeOK
<1>8. OneValue'
  <2> SUFFICES ASSUME NEW u \in Threads, NEW i \in 1 .. Len(todo'[u])
               PROVE /\ todo'[u][i][2] = Wants(call'[u])
                     /\ todo'[u][i][1] = "fingerState" => optional
    BY <1>0 DEF OneValue, Wants
  <2>1. CASE u = t
    BY <1>1, <1>3, <2>1
  <2>2. CASE u # t
    <3>1. todo'[u] = todo[u] /\ call'[u] = call[u]
      BY <1>3, <2>2
    <3> QED
      BY <3>1 DEF IInv, OneValue
  <2> QED
    BY <2>1, <2>2
<1>9. OpposedTainted'
  <2>1. ~Opposed(kind, kind)
    BY DEF Opposed
  <2> QED
    BY <1>2, <1>3, <1>5, <2>1 DEF OpposedTainted, Opposed
<1>10. Pending'
  <2> SUFFICES ASSUME NEW o \in Sets(last)' PROVE Outstanding(o, Wants(last))'
    BY DEF Pending
  <2>1. o \in Sets(kind)
    BY <1>0, <1>2 DEF Sets
  <2>2. PICK i \in 1 .. Len(w) : w[i] = <<o, Wants(kind)>>
    BY <1>1, <2>1
  <2> QED
    BY <1>2, <1>3, <2>2 DEF Outstanding, Wants
<1>11. Absent'
  BY <1>0 DEF IInv, Absent
<1> QED
  BY <1>7, <1>8, <1>9, <1>10, <1>11 DEF IInv

\* A write of an output that is not tainted is one that the last call wants.
LEMMA WriteKeeps ==
  ASSUME IInv, NEW t \in Threads, Write(t)
  PROVE IInv'
<1> DEFINE s == todo[t]
           w == Head(s)
<1>0. /\ optional \in BOOLEAN /\ todo \in [Threads -> Seq(Outputs \X BOOLEAN)] /\ call \in [Threads -> Call]
      /\ last \in Call /\ out \in [Outputs -> BOOLEAN] /\ tainted \subseteq Outputs
      /\ UNCHANGED <<fails, optional, call, last>>
  BY DEF IInv, UdfpsTypeOK, Write
<1>1. s \in Seq(Outputs \X BOOLEAN) /\ s # <<>> /\ todo' = [todo EXCEPT ![t] = Tail(s)]
  BY <1>0 DEF Write, Busy
<1>2. /\ w = s[1] /\ 1 \in 1 .. Len(s) /\ w \in Outputs \X BOOLEAN
      /\ Tail(s) \in Seq(Outputs \X BOOLEAN) /\ Len(Tail(s)) = Len(s) - 1
      /\ \A i \in 1 .. Len(Tail(s)) : i + 1 \in 1 .. Len(s) /\ Tail(s)[i] = s[i + 1]
  BY <1>1
<1>3. /\ todo'[t] = Tail(s)
      /\ \A u \in Threads \ {t} : todo'[u] = todo[u]
  BY <1>0, <1>1
<1>4. \/ out' = [out EXCEPT ![w[1]] = w[2]] /\ tainted' = tainted
      \/ tainted' = tainted \cup {w[1]} /\ out' = out
  BY DEF Write
<1>5. w[1] \in Outputs /\ w[2] = Wants(call[t]) /\ (w[1] = "fingerState" => optional)
      /\ w = <<w[1], w[2]>> /\ w[2] \in BOOLEAN
  BY <1>2 DEF IInv, OneValue
<1>6. \A u \in Threads : \A i \in 1 .. Len(todo'[u]) : \E j \in 1 .. Len(todo[u]) : todo'[u][i] = todo[u][j]
  <2> SUFFICES ASSUME NEW u \in Threads, NEW i \in 1 .. Len(todo'[u])
               PROVE \E j \in 1 .. Len(todo[u]) : todo'[u][i] = todo[u][j]
    OBVIOUS
  <2>1. CASE u = t
    BY <1>2, <1>3, <2>1
  <2>2. CASE u # t
    <3>1. todo'[u] = todo[u]
      BY <1>3, <2>2
    <3> QED
      BY <3>1
  <2> QED
    BY <2>1, <2>2
<1>7. UdfpsTypeOK'
  <2>1. todo' \in [Threads -> Seq(Outputs \X BOOLEAN)]
    BY <1>0, <1>1, <1>2
  <2>2. out' \in [Outputs -> BOOLEAN] /\ tainted' \subseteq Outputs
    BY <1>0, <1>4, <1>5
  <2> QED
    BY <1>0, <2>1, <2>2 DEF IInv, UdfpsTypeOK
<1>8. OneValue'
  BY <1>0, <1>6 DEF IInv, OneValue, Wants
<1>9. OpposedTainted'
  <2> SUFFICES ASSUME NEW u \in Threads, Opposed(call[u], last), NEW i \in 1 .. Len(todo'[u])
               PROVE todo'[u][i][1] \in tainted'
    BY <1>0 DEF OpposedTainted, Opposed
  <2>1. PICK j \in 1 .. Len(todo[u]) : todo'[u][i] = todo[u][j]
    BY <1>6
  <2>2. todo[u][j][1] \in tainted
    BY DEF IInv, OpposedTainted
  <2> QED
    BY <1>4, <2>1, <2>2
<1>10. Pending'
  <2> SUFFICES ASSUME NEW o \in Sets(last), o \notin tainted'
               PROVE out'[o] = Wants(last) \/ Outstanding(o, Wants(last))'
    BY <1>0 DEF Pending, Sets, Wants
  <2>1. o \notin tainted /\ o \in Outputs
    BY <1>4 DEF Sets, Outputs
  <2>2. out[o] = Wants(last) \/ Outstanding(o, Wants(last))
    BY <2>1 DEF IInv, Pending
  <2>3. CASE o = w[1]
    <3>1. out'[o] = w[2]
      BY <1>0, <1>4, <2>1, <2>3
    <3>2. ~Opposed(call[t], last)
      BY <1>2, <2>1, <2>3 DEF IInv, OpposedTainted
    <3>3. Wants(call[t]) = Wants(last)
      BY <3>2 DEF Opposed, Wants
    <3> QED
      BY <1>5, <3>1, <3>3
  <2>4. CASE o # w[1]
    <3>1. out'[o] = out[o]
      BY <1>0, <1>4, <2>1, <2>4
    <3>2. ASSUME NEW u \in Threads, NEW i \in 1 .. Len(todo[u]), todo[u][i] = <<o, Wants(last)>>
          PROVE \E j \in 1 .. Len(todo'[u]) : todo'[u][j] = <<o, Wants(last)>>
      <4>1. CASE u = t
        <5>1. i # 1
          BY <1>2, <2>4, <3>2, <4>1
        <5>2. i - 1 \in 1 .. Len(Tail(s)) /\ Tail(s)[i - 1] = s[i]
          BY <1>1, <3>2, <4>1, <5>1
        <5> QED
          BY <1>3, <3>2, <4>1, <5>2
      <4>2. CASE u # t
        BY <1>3, <3>2, <4>2
      <4> QED
        BY <4>1, <4>2
    <3> QED
      BY <1>0, <2>2, <3>1, <3>2 DEF Outstanding, Wants
  <2> QED
    BY <2>3, <2>4
<1>11. Absent'
  BY <1>0, <1>4, <1>5 DEF IInv, Absent, Outputs
<1> QED
  BY <1>7, <1>8, <1>9, <1>10, <1>11 DEF IInv

\* Every entry point comes to a call of one of the kinds, or to none.
LEMMA IInvStep == IInv /\ [Next]_vars => IInv'
<1> SUFFICES ASSUME IInv, [Next]_vars PROVE IInv'
  OBVIOUS
<1>1. ASSUME NEW t \in Threads, Write(t) PROVE IInv'
  BY <1>1, WriteKeeps
<1>2. ASSUME NEW t \in Threads, ClientCall(t) \/ onAuthentication(t) PROVE IInv'
  BY <1>2, BeginKeeps DEF ClientCall, onAuthentication, Call
<1>3. ASSUME NEW t \in Threads, onAcquired(t) PROVE IInv'
  <2>1. \A result, vendorCode : Acquired(result, vendorCode) \subseteq Call
    BY DEF Acquired, Call
  <2> QED
    BY <1>3, <2>1, BeginKeeps DEF onAcquired
<1>4. CASE UNCHANGED vars
  BY <1>4 DEF vars, IInv, UdfpsTypeOK, OneValue, OpposedTainted, Pending, Absent, Outstanding, Sets, Wants, Opposed
<1> QED
  BY <1>1, <1>2, <1>3, <1>4 DEF Next, Threads

-----------------------------------------------------------------------------
(* Theorems *)

\* IInv holds in every reachable state.
THEOREM Invariance == Spec => []IInv
BY InitIInv, IInvStep, PTL DEF Spec

\* Every variable keeps its type.
THEOREM TypeCorrect == Spec => []UdfpsTypeOK
<1>1. IInv => UdfpsTypeOK
  BY DEF IInv
<1> QED
  BY <1>1, Invariance, PTL

\* For any number of threads: when no call is under way, each output is as the
\* call that began last wants it, unless its write failed or was overtaken.
THEOREM AgreesWithLastHolds == Spec => []AgreesWithLast
<1>1. IInv => AgreesWithLast
  <2> SUFFICES ASSUME IInv, \A t \in Threads : ~Busy(t)
               PROVE LET sure == Outputs \ tainted IN
                     /\ last = "up" => \A o \in sure : ~out[o]
                     /\ last = "down" => \A o \in sure : out[o] \/ (o = "fingerState" /\ ~optional)
                     /\ last = "wait" => out["fodPress"] \/ "fodPress" \notin sure
    BY DEF AgreesWithLast
  <2>1. \A o, v : ~Outstanding(o, v)
    BY DEF Busy, Outstanding
  <2>2. \A o \in Sets(last) \ tainted : out[o] = Wants(last)
    BY <2>1 DEF IInv, Pending
  <2> QED
    BY <2>2 DEF IInv, Absent, UdfpsTypeOK, Sets, Wants, Outputs, Call
<1> QED
  BY <1>1, Invariance, PTL
=============================================================================
