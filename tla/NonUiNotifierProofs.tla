------------------------- MODULE NonUiNotifierProofs -------------------------
(***************************************************************************)
(* What the polling loop of NonUiNotifier promises its owner, and what it  *)
(* gives up for, for any number of files and any limit of errors.          *)
(*                                                                         *)
(* A round starts with both counts of errors below their limits: poll()    *)
(* clears consecutiveErrors before any file is read, so that the count is  *)
(* 0 wherever it is incremented or set (ErrorInv), and the third failure   *)
(* of poll() ends the loop (PollErrorInv).                                 *)
(*                                                                         *)
(* EraseAll is a recursion over the indices: that it has a solution and    *)
(* what the solution keeps are shown by induction over the number of       *)
(* indices that have been dealt with, from the highest down.               *)
(***************************************************************************)
EXTENDS NonUiNotifier, WellFoundedInduction, TLAPS

PollErrorInv ==
    /\ consecutivePollErrors \in 0 .. MAX_CONSECUTIVE_POLL_ERRORS
    /\ poller # "leaving" => consecutivePollErrors < MAX_CONSECUTIVE_POLL_ERRORS

ErrorInv ==
    /\ step \in {"scan", "poll", "read", "act"}
    /\ consecutiveErrors \in 0 .. 1
    /\ step \in {"read", "act"} => consecutiveErrors = 0

\* Only the loop has files open.
ListInv ==
    /\ pollfds \in Seq(Paths)
    /\ changed \subseteq Polled /\ closed \subseteq Polled
    /\ poller \in {"none", "starting", "exited"} => pollfds = <<>>

DataInv ==
    /\ faults \subseteq Faults
    /\ revents \in [Paths -> Reports]
    /\ ebadf \in BOOLEAN /\ enabled \in BOOLEAN
    /\ on \subseteq Paths
    /\ touchMode \in {0, 1}

IInv == PollTypeOK /\ PollErrorInv /\ ErrorInv /\ ListInv /\ DataInv

-----------------------------------------------------------------------------
(* Erasing from the vector *)

\* A set of naturals has a least element.
LEMMA Least ==
  ASSUME NEW T \in SUBSET Nat, T # {}
  PROVE \E x \in T : \A y \in T : x <= y
<1>1. PICK x \in T : \A y \in T : ~ (<<y, x>> \in OpToRel(<, Nat))
  BY NatLessThanWellFounded, WFMin
<1>2. \A y \in T : ~(y < x)
  BY <1>1 DEF OpToRel
<1> QED
  BY <1>2

\* A set of naturals that has 0 and with each number the next has all.
LEMMA Induction ==
  ASSUME NEW T \in SUBSET Nat, 0 \in T, \A n \in T : n + 1 \in T
  PROVE T = Nat
<1> SUFFICES ASSUME T # Nat PROVE FALSE
  OBVIOUS
<1>1. PICK x \in Nat \ T : \A y \in Nat \ T : x <= y
  BY Least
<1>2. x # 0
  BY <1>1
<1>3. x - 1 \in Nat /\ x - 1 \in T
  BY <1>1, <1>2
<1> QED
  BY <1>1, <1>3

\* One element less.
LEMMA Removed ==
  ASSUME NEW S, NEW t \in Seq(S), NEW k \in 1 .. Len(t)
  PROVE /\ RemoveAt(t, k) \in Seq(S)
        /\ Len(RemoveAt(t, k)) = Len(t) - 1
        /\ \A i \in 1 .. k - 1 : RemoveAt(t, k)[i] = t[i]
        /\ \A i \in k .. Len(t) - 1 : RemoveAt(t, k)[i] = t[i + 1]
<1> DEFINE a == SubSeq(t, 1, k - 1)
           b == SubSeq(t, k + 1, Len(t))
<1>1. a \in Seq(S) /\ Len(a) = k - 1 /\ \A i \in 1 .. k - 1 : a[i] = t[i]
  OBVIOUS
<1>2. b \in Seq(S) /\ Len(b) = Len(t) - k /\ \A i \in 1 .. Len(t) - k : b[i] = t[i + k]
  OBVIOUS
<1>3. RemoveAt(t, k) = a \o b
  BY DEF RemoveAt
<1> HIDE DEF a, b
<1>4. a \o b \in Seq(S) /\ Len(a \o b) = Len(t) - 1
  <2>1. a \in Seq(S) /\ b \in Seq(S) /\ Len(a) + Len(b) = Len(t) - 1
    BY <1>1, <1>2
  <2> QED
    BY <2>1
<1>5. ASSUME NEW i \in 1 .. k - 1 PROVE (a \o b)[i] = t[i]
  BY <1>1, <1>2
<1>6. ASSUME NEW i \in k .. Len(t) - 1 PROVE (a \o b)[i] = t[i + 1]
  <2>1. i - (k - 1) \in 1 .. Len(t) - k /\ (a \o b)[i] = b[i - (k - 1)]
    BY <1>1, <1>2
  <2>2. b[i - (k - 1)] = t[i - (k - 1) + k]
    BY <1>2, <2>1
  <2> QED
    BY <2>1, <2>2
<1> QED
  BY <1>3, <1>4, <1>5, <1>6

\* What EraseAll does at the index k.
Erased(t, k, bad) == IF k \in bad /\ k <= Len(t) THEN RemoveAt(t, k) ELSE t

\* It yields a sequence of the same elements.
LEMMA ErasedType ==
  ASSUME NEW S, NEW t \in Seq(S), NEW k \in Nat \ {0}, NEW bad
  PROVE Erased(t, k, bad) \in Seq(S)
<1>1. CASE k \in bad /\ k <= Len(t)
  <2>1. k \in 1 .. Len(t)
    BY <1>1
  <2> QED
    BY <1>1, <2>1, Removed DEF Erased
<1>2. CASE ~(k \in bad /\ k <= Len(t))
  BY <1>2 DEF Erased
<1> QED
  BY <1>1, <1>2

\* The recursion of EraseAll has a solution.
LEMMA EraseAllDefined ==
  ASSUME NEW S, NEW s \in Seq(S), NEW bad
  PROVE \E f : /\ EraseAll(s, bad) = f[1]
               /\ f[Len(s) + 1] = s
               /\ \A k \in 1 .. Len(s) : f[k] = Erased(f[k + 1], k, bad)
<1> DEFINE n == Len(s)
           Solves(g, j) == /\ g[n + 1] = s
                           /\ \A k \in n + 1 - j .. n : g[k] = Erased(g[k + 1], k, bad)
           T == {j \in Nat : j <= n => \E g \in [n + 1 - j .. n + 1 -> Seq(S)] : Solves(g, j)}
<1>0. n \in Nat
  OBVIOUS
<1> HIDE DEF n
<1>1. 0 \in T
  <2> DEFINE g == [k \in n + 1 - 0 .. n + 1 |-> s]
  <2>1. g \in [n + 1 - 0 .. n + 1 -> Seq(S)] /\ g[n + 1] = s
    BY <1>0
  <2>2. n + 1 - 0 .. n = {}
    BY <1>0
  <2> HIDE DEF g
  <2> QED
    BY <2>1, <2>2
<1>2. ASSUME NEW j \in T PROVE j + 1 \in T
  <2> SUFFICES ASSUME j + 1 <= n
               PROVE \E h \in [n + 1 - (j + 1) .. n + 1 -> Seq(S)] : Solves(h, j + 1)
    OBVIOUS
  <2>0. j \in Nat /\ j <= n
    BY <1>0
  <2>1. PICK g \in [n + 1 - j .. n + 1 -> Seq(S)] : Solves(g, j)
    BY <2>0
  <2> DEFINE m == n + 1 - (j + 1)
             v == Erased(g[m + 1], m, bad)
             h == [k \in m .. n + 1 |-> IF k = m THEN v ELSE g[k]]
  <2>2. m \in Nat \ {0} /\ m + 1 = n + 1 - j /\ m <= n /\ m + 1 \in n + 1 - j .. n + 1
    BY <1>0, <2>0
  <2>3. g[m + 1] \in Seq(S)
    BY <2>1, <2>2
  <2>4. v \in Seq(S)
    BY <2>2, <2>3, ErasedType
  <2> HIDE DEF v, m
  <2>5. \A k \in m .. n + 1 : k # m => k \in n + 1 - j .. n + 1
    BY <1>0, <2>2
  <2>6. h \in [m .. n + 1 -> Seq(S)]
    BY <2>1, <2>4, <2>5
  <2>7. h[n + 1] = s
    BY <1>0, <2>1, <2>2
  <2>8. ASSUME NEW k \in m .. n PROVE h[k] = Erased(h[k + 1], k, bad)
    <3>1. k + 1 \in m .. n + 1 /\ k + 1 # m /\ k \in m .. n + 1
      BY <1>0, <2>2
    <3>2. h[k + 1] = g[k + 1]
      BY <3>1
    <3>3. CASE k = m
      <4>1. h[k] = v
        BY <3>1, <3>3
      <4> QED
        BY <3>2, <3>3, <4>1 DEF v
    <3>4. CASE k # m
      <4>1. h[k] = g[k] /\ k \in n + 1 - j .. n
        BY <1>0, <2>2, <3>1, <3>4
      <4> QED
        BY <2>1, <3>2, <4>1
    <3> QED
      BY <3>3, <3>4
  <2> HIDE DEF h
  <2> QED
    BY <2>6, <2>7, <2>8 DEF m
<1>3. n \in T
  <2>1. T = Nat
    <3> HIDE DEF T
    <3>1. T \subseteq Nat
      BY DEF T
    <3> QED
      BY <1>1, <1>2, <3>1, Induction
  <2> QED
    BY <1>0, <2>1
<1>4. PICK g \in [1 .. n + 1 -> Seq(S)] : Solves(g, n)
  <2>1. n + 1 - n = 1
    BY <1>0
  <2> QED
    BY <1>0, <1>3, <2>1
<1> DEFINE Eq(f) == f = [k \in 1 .. n + 1 |-> IF k = n + 1 THEN s
                                              ELSE IF k \in bad /\ k <= Len(f[k + 1])
                                              THEN RemoveAt(f[k + 1], k) ELSE f[k + 1]]
           F == CHOOSE f : Eq(f)
<1>5. Eq(g)
  <2>1. n + 1 - n = 1
    BY <1>0
  <2>2. \A k \in 1 .. n + 1 : g[k] = IF k = n + 1 THEN s
                                     ELSE IF k \in bad /\ k <= Len(g[k + 1])
                                     THEN RemoveAt(g[k + 1], k) ELSE g[k + 1]
    BY <1>0, <1>4, <2>1 DEF Erased
  <2> QED
    BY <1>4, <2>2
<1>6. Eq(F)
  <2> HIDE DEF Eq
  <2> QED
    BY <1>5
<1>7. EraseAll(s, bad) = F[1]
  BY DEF EraseAll, n
<1> HIDE DEF F
<1>8. F[n + 1] = s /\ \A k \in 1 .. n : F[k] = Erased(F[k + 1], k, bad)
  BY <1>0, <1>6 DEF Erased
<1> QED
  BY <1>7, <1>8 DEF n

\* What is left when the indices from k on have been dealt with: what was
\* before them, as it was, and of the rest what is not bad.
Kept(t, s, k, bad) ==
    /\ Len(t) >= k - 1
    /\ \A i \in 1 .. k - 1 : t[i] = s[i]
    /\ \A i \in k .. Len(t) : \E j \in k .. Len(s) : j \notin bad /\ t[i] = s[j]
    /\ \A j \in k .. Len(s) : j \notin bad => \E i \in k .. Len(t) : t[i] = s[j]

\* One index further down.
LEMMA KeptStep ==
  ASSUME NEW S, NEW s \in Seq(S), NEW bad, NEW t \in Seq(S), NEW k \in 1 .. Len(s),
         Kept(t, s, k + 1, bad)
  PROVE Kept(Erased(t, k, bad), s, k, bad)
<1>0. k \in Nat /\ k >= 1 /\ Len(t) \in Nat /\ Len(s) \in Nat /\ k <= Len(s) /\ Len(t) >= k
  BY DEF Kept
<1>1. t[k] = s[k] /\ \A i \in 1 .. k - 1 : t[i] = s[i]
  BY <1>0 DEF Kept
<1>2. /\ \A i \in k + 1 .. Len(t) : \E j \in k + 1 .. Len(s) : j \notin bad /\ t[i] = s[j]
      /\ \A j \in k + 1 .. Len(s) : j \notin bad => \E i \in k + 1 .. Len(t) : t[i] = s[j]
  BY DEF Kept
<1>3. CASE k \notin bad
  <2>1. Erased(t, k, bad) = t
    BY <1>3 DEF Erased
  <2>2. ASSUME NEW i \in k .. Len(t) PROVE \E j \in k .. Len(s) : j \notin bad /\ t[i] = s[j]
    <3>1. CASE i = k
      BY <1>0, <1>1, <1>3, <3>1
    <3>2. CASE i # k
      <4>1. i \in k + 1 .. Len(t)
        BY <1>0, <3>2
      <4>2. PICK j \in k + 1 .. Len(s) : j \notin bad /\ t[i] = s[j]
        BY <1>2, <4>1
      <4> QED
        BY <1>0, <4>2
    <3> QED
      BY <3>1, <3>2
  <2>3. ASSUME NEW j \in k .. Len(s), j \notin bad PROVE \E i \in k .. Len(t) : t[i] = s[j]
    <3>1. CASE j = k
      BY <1>0, <1>1, <3>1
    <3>2. CASE j # k
      <4>1. j \in k + 1 .. Len(s)
        BY <1>0, <3>2
      <4> QED
        BY <1>0, <1>2, <2>3, <4>1
    <3> QED
      BY <3>1, <3>2
  <2> QED
    BY <1>0, <1>1, <2>1, <2>2, <2>3 DEF Kept
<1>4. CASE k \in bad
  <2> DEFINE r == RemoveAt(t, k)
  <2>1. Erased(t, k, bad) = r
    BY <1>0, <1>4 DEF Erased
  <2>2. /\ Len(r) = Len(t) - 1
        /\ \A i \in 1 .. k - 1 : r[i] = t[i]
        /\ \A i \in k .. Len(t) - 1 : r[i] = t[i + 1]
    <3>1. k \in 1 .. Len(t)
      BY <1>0
    <3> QED
      BY <3>1, Removed
  <2> HIDE DEF r
  <2>3. ASSUME NEW i \in k .. Len(r) PROVE \E j \in k .. Len(s) : j \notin bad /\ r[i] = s[j]
    <3>1. i + 1 \in k + 1 .. Len(t) /\ r[i] = t[i + 1]
      BY <1>0, <2>2
    <3>2. PICK j \in k + 1 .. Len(s) : j \notin bad /\ t[i + 1] = s[j]
      BY <1>2, <3>1
    <3> QED
      BY <1>0, <3>1, <3>2
  <2>4. ASSUME NEW j \in k .. Len(s), j \notin bad PROVE \E i \in k .. Len(r) : r[i] = s[j]
    <3>1. j \in k + 1 .. Len(s)
      BY <1>0, <1>4, <2>4
    <3>2. PICK i \in k + 1 .. Len(t) : t[i] = s[j]
      BY <1>2, <2>4, <3>1
    <3>3. i - 1 \in k .. Len(t) - 1 /\ r[i - 1] = t[i - 1 + 1]
      BY <1>0, <2>2
    <3>4. i - 1 + 1 = i
      BY <1>0
    <3> QED
      BY <2>2, <3>2, <3>3, <3>4
  <2>5. Len(r) >= k - 1 /\ \A i \in 1 .. k - 1 : r[i] = s[i]
    BY <1>0, <1>1, <2>2
  <2> QED
    BY <2>1, <2>3, <2>4, <2>5 DEF Kept
<1> QED
  BY <1>3, <1>4

\* Erasing from the highest index down leaves the elements at the other
\* indices, and nothing else.
LEMMA ErasesExactly ==
  ASSUME NEW S, NEW s \in Seq(S), NEW bad
  PROVE /\ EraseAll(s, bad) \in Seq(S)
        /\ ToSet(EraseAll(s, bad)) = {s[j] : j \in DOMAIN s \ bad}
<1> DEFINE n == Len(s)
<1>0. n \in Nat
  OBVIOUS
<1>1. PICK f : /\ EraseAll(s, bad) = f[1]
               /\ f[n + 1] = s
               /\ \A k \in 1 .. n : f[k] = Erased(f[k + 1], k, bad)
  BY EraseAllDefined
<1> DEFINE At(k) == f[k] \in Seq(S) /\ Kept(f[k], s, k, bad)
           T == {j \in Nat : j <= n => At(n + 1 - j)}
<1>2. 0 \in T
  <2>1. f[n + 1 - 0] = s /\ n + 1 - 0 = n + 1
    BY <1>0, <1>1
  <2>2. Kept(s, s, n + 1, bad)
    BY <1>0 DEF Kept
  <2> QED
    BY <2>1, <2>2
<1>3. ASSUME NEW j \in T PROVE j + 1 \in T
  <2> HIDE DEF n
  <2> SUFFICES ASSUME j + 1 <= n PROVE At(n + 1 - (j + 1))
    OBVIOUS
  <2> DEFINE k == n + 1 - (j + 1)
  <2>1. k \in 1 .. n /\ k + 1 = n + 1 - j /\ j <= n /\ j \in Nat
    BY <1>0
  <2>2. At(k + 1)
    BY <2>1
  <2>3. f[k] = Erased(f[k + 1], k, bad)
    BY <1>1, <2>1
  <2> HIDE DEF k
  <2>4. k \in Nat \ {0} /\ k \in 1 .. Len(s)
    BY <2>1 DEF n
  <2>5. f[k] \in Seq(S) /\ Kept(f[k], s, k, bad)
    BY <2>2, <2>3, <2>4, ErasedType, KeptStep
  <2> QED
    BY <2>5 DEF k
<1>4. T = Nat
  <2> HIDE DEF T
  <2>1. T \subseteq Nat
    BY DEF T
  <2> QED
    BY <1>2, <1>3, <2>1, Induction
<1>5. f[1] \in Seq(S) /\ Kept(f[1], s, 1, bad)
  <2> HIDE DEF n
  <2>1. n + 1 - n = 1
    BY <1>0
  <2> QED
    BY <1>0, <1>4, <2>1
<1>6. ToSet(f[1]) = {s[j] : j \in DOMAIN s \ bad}
  <2>1. DOMAIN f[1] = 1 .. Len(f[1]) /\ DOMAIN s = 1 .. Len(s)
    BY <1>5
  <2>2. ToSet(f[1]) = {f[1][i] : i \in 1 .. Len(f[1])}
    BY <2>1 DEF ToSet
  <2>3. \A i \in 1 .. Len(f[1]) : \E j \in 1 .. Len(s) : j \notin bad /\ f[1][i] = s[j]
    BY <1>5 DEF Kept
  <2>4. \A j \in 1 .. Len(s) : j \notin bad => \E i \in 1 .. Len(f[1]) : f[1][i] = s[j]
    BY <1>5 DEF Kept
  <2>5. \A x : x \in ToSet(f[1]) <=> x \in {s[j] : j \in DOMAIN s \ bad}
    <3> SUFFICES ASSUME NEW x PROVE x \in ToSet(f[1]) <=> x \in {s[j] : j \in DOMAIN s \ bad}
      OBVIOUS
    <3>1. x \in ToSet(f[1]) <=> \E i \in 1 .. Len(f[1]) : x = f[1][i]
      BY <2>2
    <3>2. x \in {s[j] : j \in DOMAIN s \ bad} <=> \E j \in 1 .. Len(s) : j \notin bad /\ x = s[j]
      BY <2>1
    <3>3. (\E i \in 1 .. Len(f[1]) : x = f[1][i]) => \E j \in 1 .. Len(s) : j \notin bad /\ x = s[j]
      BY <2>3
    <3>4. (\E j \in 1 .. Len(s) : j \notin bad /\ x = s[j]) => \E i \in 1 .. Len(f[1]) : x = f[1][i]
      BY <2>4
    <3> QED
      BY <3>1, <3>2, <3>3, <3>4
  <2> QED
    BY <2>5
<1> QED
  BY <1>1, <1>5, <1>6

\* What is left without some elements.
LEMMA WithoutLeaves ==
  ASSUME NEW S, NEW s \in Seq(S), NEW gone
  PROVE /\ Without(s, gone) \in Seq(S)
        /\ ToSet(Without(s, gone)) = ToSet(s) \ gone
<1> DEFINE bad == {i \in DOMAIN s : s[i] \in gone}
<1>1. Without(s, gone) = EraseAll(s, bad)
  BY DEF Without
<1>2. {s[j] : j \in DOMAIN s \ bad} = ToSet(s) \ gone
  BY DEF ToSet
<1> HIDE DEF bad
<1> QED
  BY <1>1, <1>2, ErasesExactly

-----------------------------------------------------------------------------
(* The steps as the owner of the thread sees them *)

\* A round ends, or goes on without touching what the owner sees.
LEMMA RoundSteps ==
  ASSUME Scan \/ PollInterrupted \/ PollFails \/ Poll \/ Read
  PROVE PollRound \/ UNCHANGED pollVars
<1>1. CASE Scan
  BY <1>1 DEF Scan, In, Over, Go, PollRound
<1>2. CASE PollInterrupted
  BY <1>2 DEF PollInterrupted, In, Over, PollRound
<1>3. CASE PollFails
  BY <1>3 DEF PollFails, In, Over, PollRound
<1>4. CASE Poll
  BY <1>4 DEF Poll, In, Over, Go, PollRound
<1>5. CASE Read
  <2>1. PollAt("polling") /\ (Over("leaving") \/ Over("testing") \/ Go("act"))
    BY <1>5 DEF Read, In
  <2> QED
    BY <2>1 DEF Over, Go, PollRound
<1> QED
  BY <1>1, <1>2, <1>3, <1>4, <1>5

\* The loop switches the sensor as PollingThread says, or ends the round.
LEMMA ActSteps ==
  ASSUME Act
  PROVE PollRound \/ PollEnable \/ PollDisable \/ PollAbort
BY DEF Act, Switch, In, Over, PollRound

\* Every step of the thread is one of PollingThread's, or hidden.
LEMMA ThreadSteps ==
  ASSUME ThreadStep
  PROVE PollStep \/ UNCHANGED pollVars
<1>1. CASE Setup \/ Test \/ Leave
  BY <1>1 DEF Setup, Test, Leave, PollStep
<1>2. CASE Scan \/ PollInterrupted \/ PollFails \/ Poll \/ Read
  BY <1>2, RoundSteps DEF PollStep
<1>3. CASE Act
  BY <1>3, ActSteps DEF PollStep
<1> QED
  BY <1>1, <1>2, <1>3 DEF ThreadStep

\* So is every other step.
LEMMA PollingStep == [Next]_vars => [PollNext]_pollVars
<1> SUFFICES ASSUME [Next]_vars PROVE [PollNext]_pollVars
  OBVIOUS
<1>1. CASE ThreadStep
  BY <1>1, ThreadSteps DEF PollNext
<1>2. CASE \E f \in Paths : GestureChanges(f) \/ CloseBehind(f)
  BY <1>2 DEF GestureChanges, CloseBehind
<1>3. CASE \E v \in {0, 1} : OnEvent(v)
  BY <1>3 DEF OnEvent
<1>4. CASE Owner \/ Restart
  BY <1>4 DEF Owner, Restart, PollNext
<1>5. CASE UNCHANGED vars
  BY <1>5 DEF vars
<1> QED
  BY <1>1, <1>2, <1>3, <1>4, <1>5 DEF Next

-----------------------------------------------------------------------------
(* The invariant *)

\* Nothing has failed before the thread exists.
LEMMA InitIInv == Init => IInv
<1> SUFFICES ASSUME Init PROVE IInv
  OBVIOUS
<1>1. PollTypeOK
  BY Zenon DEF Init, PollInit, PollTypeOK, PollerState, Fate
<1>2. PollErrorInv
  BY DEF Init, PollErrorInv, MAX_CONSECUTIVE_POLL_ERRORS
<1>3. ErrorInv
  BY DEF Init, ErrorInv
<1>4. ListInv
  BY DEF Init, ListInv
<1>5. DataInv
  BY DEF Init, DataInv, Quiet, Reports
<1> QED
  BY <1>1, <1>2, <1>3, <1>4, <1>5 DEF IInv

\* The owner's variables keep their types under PollingThread's steps.
LEMMA PollTypeStep == PollTypeOK /\ [PollNext]_pollVars => PollTypeOK'
BY DEF PollTypeOK, PollerState, Fate, pollVars, PollNext, PollStep, PollSetup, PollTest,
       PollRound, PollEnable, PollDisable, PollLeave, PollAbort, OwnerActivates,
       OwnerStops, OwnerJoins, InitRestarts, StartPolling, JoinPolling

\* The third failure of poll() in a row ends the loop; the count starts anew
\* with the next thread.
LEMMA PollErrorStep == PollErrorInv /\ [Next]_vars => PollErrorInv'
<1> SUFFICES ASSUME PollErrorInv, [Next]_vars PROVE PollErrorInv'
  OBVIOUS
<1> USE DEF MAX_CONSECUTIVE_POLL_ERRORS
<1>1. CASE Setup \/ Test
  BY <1>1 DEF Setup, Test, PollSetup, PollTest, PollAt, errorVars, PollErrorInv
<1>2. CASE Scan \/ PollInterrupted \/ Read
  <2>1. PollAt("polling") /\ UNCHANGED consecutivePollErrors
    BY <1>2 DEF Scan, PollInterrupted, Read, In
  <2> QED
    BY <2>1 DEF PollAt, PollErrorInv
<1>3. CASE PollFails
  BY <1>3 DEF PollFails, In, PollAt, Over, TooMany, PollErrorInv
<1>4. CASE Poll
  BY <1>4 DEF Poll, PollErrorInv
<1>5. CASE Act
  <2>1. PollAt("polling") /\ UNCHANGED consecutivePollErrors
    BY <1>5 DEF Act, In
  <2> QED
    BY <2>1 DEF PollAt, PollErrorInv
<1>6. CASE Leave \/ Restart
  BY <1>6 DEF Leave, Restart, Gone, PollErrorInv
<1>7. CASE \E f \in Paths : GestureChanges(f) \/ CloseBehind(f)
  BY <1>7 DEF GestureChanges, CloseBehind, insideVars, errorVars, pollVars, PollErrorInv
<1>8. CASE \E v \in {0, 1} : OnEvent(v)
  BY <1>8 DEF OnEvent, insideVars, errorVars, pollVars, PollErrorInv
<1>9. CASE Owner
  BY <1>9 DEF Owner, OwnerActivates, OwnerStops, OwnerJoins, StartPolling, JoinPolling,
              insideVars, errorVars, PollErrorInv
<1>10. CASE UNCHANGED vars
  BY <1>10 DEF vars, errorVars, pollVars, PollErrorInv
<1> QED
  BY <1>1, <1>2, <1>3, <1>4, <1>5, <1>6, <1>7, <1>8, <1>9, <1>10 DEF Next, ThreadStep

\* Between poll() and the end of a round nothing has been counted yet.
LEMMA ErrorStep == ErrorInv /\ [Next]_vars => ErrorInv'
<1> SUFFICES ASSUME ErrorInv, [Next]_vars PROVE ErrorInv'
  OBVIOUS
<1>1. CASE Setup \/ Test
  BY <1>1 DEF Setup, Test, errorVars, ErrorInv
<1>2. CASE Scan \/ PollInterrupted \/ PollFails
  <2>1. UNCHANGED consecutiveErrors /\ step' \in {"scan", "poll"}
    BY <1>2 DEF Scan, PollInterrupted, PollFails, Over, Go
  <2> QED
    BY <2>1 DEF ErrorInv
<1>3. CASE Poll
  BY <1>3 DEF Poll, Over, Go, ErrorInv
<1>4. CASE Read
  <2>1. step = "read"
    BY <1>4 DEF Read, In
  <2>2. \/ consecutiveErrors' = consecutiveErrors + 0 /\ step' \in {"scan", "act"}
        \/ consecutiveErrors' = consecutiveErrors + 1 /\ step' = "scan"
    BY <1>4 DEF Read, Over, Go
  <2> QED
    BY <2>1, <2>2 DEF ErrorInv
<1>5. CASE Act
  <2>1. consecutiveErrors' \in {0, 1, consecutiveErrors} /\ step' = "scan"
    BY <1>5 DEF Act, Switch
  <2> QED
    BY <2>1 DEF ErrorInv
<1>6. CASE Leave \/ Restart
  BY <1>6 DEF Leave, Restart, Gone, ErrorInv
<1>7. CASE \E f \in Paths : GestureChanges(f) \/ CloseBehind(f)
  BY <1>7 DEF GestureChanges, CloseBehind, insideVars, errorVars, ErrorInv
<1>8. CASE \E v \in {0, 1} : OnEvent(v)
  BY <1>8 DEF OnEvent, insideVars, errorVars, ErrorInv
<1>9. CASE Owner
  BY <1>9 DEF Owner, insideVars, errorVars, ErrorInv
<1>10. CASE UNCHANGED vars
  BY <1>10 DEF vars, errorVars, ErrorInv
<1> QED
  BY <1>1, <1>2, <1>3, <1>4, <1>5, <1>6, <1>7, <1>8, <1>9, <1>10 DEF Next, ThreadStep

\* The round that reads the files drops those at the failing indices.
LEMMA ReadDrops ==
  ASSUME Read, pollfds \in Seq(Paths)
  PROVE \E failing :
           /\ pollfds' \in Seq(Paths)
           /\ Polled' = {pollfds[i] : i \in DOMAIN pollfds \ failing}
           /\ changed' \subseteq Polled' /\ closed' \subseteq Polled'
           /\ \A i \in DOMAIN pollfds : revents[pollfds[i]] = "ERR" => i \in failing
           /\ ~ebadf /\ closed = {} =>
                 \A i \in failing : revents[pollfds[i]] = "ERR"
<1> DEFINE Reads(i) == revents[pollfds[i]] = "PRI"
           Ebadf(i, unreadable) == \E j \in 0 .. i :
               /\ IF j = 0 THEN ebadf ELSE Reads(j) /\ pollfds[j] \in closed
               /\ \A l \in j + 1 .. i : Reads(l) => pollfds[l] \notin unreadable
           Failing(unreadable) ==
               {i \in DOMAIN pollfds :
                  revents[pollfds[i]] = "ERR" \/ (Reads(i) /\ Ebadf(i, unreadable))}
<1>1. PICK unreadable :
        /\ pollfds' = EraseAll(pollfds, Failing(unreadable))
        /\ changed' \subseteq ToSet(EraseAll(pollfds, Failing(unreadable)))
        /\ closed' \subseteq ToSet(EraseAll(pollfds, Failing(unreadable)))
  BY DEF Read
<1>2. /\ pollfds' \in Seq(Paths)
      /\ Polled' = {pollfds[i] : i \in DOMAIN pollfds \ Failing(unreadable)}
  BY <1>1, ErasesExactly DEF Polled
<1>3. changed' \subseteq Polled' /\ closed' \subseteq Polled'
  BY <1>1 DEF Polled
<1>4. \A i \in DOMAIN pollfds : revents[pollfds[i]] = "ERR" => i \in Failing(unreadable)
  OBVIOUS
<1>5. ~ebadf /\ closed = {} => \A i \in Failing(unreadable) : revents[pollfds[i]] = "ERR"
  OBVIOUS
<1> QED
  BY <1>2, <1>3, <1>4, <1>5

\* What changed or was closed is among the files that are left.
LEMMA ListStep == ListInv /\ [Next]_vars => ListInv'
<1> SUFFICES ASSUME ListInv, [Next]_vars PROVE ListInv'
  OBVIOUS
<1>1. CASE Setup
  <2>1. pollfds = <<>> /\ changed = {} /\ closed = {} /\ UNCHANGED <<changed, closed>>
    BY <1>1 DEF Setup, PollSetup, PollAt, ListInv, Polled, ToSet, fileVars
  <2>2. PICK opened \in SUBSET Paths :
           /\ pollfds' = Without([i \in Paths |-> i], Paths \ opened)
           /\ poller' = IF opened = {} THEN "exited" ELSE "testing"
    BY <1>1 DEF Setup
  <2> DEFINE all == [i \in Paths |-> i]
  <2>3. all \in Seq(Paths)
    BY NonUiAssumption DEF Paths
  <2>4. pollfds' \in Seq(Paths) /\ ToSet(pollfds') = ToSet(all) \ (Paths \ opened)
    BY <2>2, <2>3, WithoutLeaves
  <2>5. CASE opened = {}
    <3>1. ToSet(all) \subseteq Paths
      BY DEF ToSet
    <3>2. ToSet(pollfds') = {}
      BY <2>4, <2>5, <3>1
    <3>3. pollfds' = <<>>
      BY <2>4, <3>2 DEF ToSet
    <3> QED
      BY <2>1, <2>4, <3>3 DEF ListInv
  <2>6. CASE opened # {}
    BY <2>1, <2>2, <2>4, <2>6 DEF ListInv
  <2> QED
    BY <2>5, <2>6
<1>2. CASE Test \/ PollInterrupted \/ PollFails \/ Poll \/ Act
  <2>1. UNCHANGED <<pollfds, changed, closed>>
    BY <1>2 DEF Test, PollInterrupted, PollFails, Poll, Act, fileVars
  <2>2. poller' \in {"testing", "polling", "leaving"}
    BY <1>2 DEF Test, PollTest, PollInterrupted, PollFails, Poll, Act, Over, Go, In, PollAt, pollVars,
                Switch, PollEnable, PollDisable, PollAbort
  <2> QED
    BY <2>1, <2>2 DEF ListInv, Polled
<1>3. CASE Scan
  <2>1. /\ pollfds' = Without(pollfds, closed)
        /\ changed' = changed \ closed /\ closed' = {}
        /\ poller' \in {"polling", "leaving"}
    BY <1>3 DEF Scan, Over, Go, In, PollAt, pollVars
  <2>2. pollfds' \in Seq(Paths) /\ Polled' = Polled \ closed
    BY <2>1, WithoutLeaves DEF ListInv, Polled
  <2> QED
    BY <2>1, <2>2 DEF ListInv
<1>4. CASE Read
  <2>1. poller' \in {"testing", "polling", "leaving"}
    BY <1>4 DEF Read, Over, Go, In, PollAt, pollVars
  <2>2. pollfds' \in Seq(Paths) /\ changed' \subseteq Polled' /\ closed' \subseteq Polled'
    BY <1>4, ReadDrops DEF ListInv
  <2> QED
    BY <2>1, <2>2 DEF ListInv
<1>5. CASE Leave \/ Restart
  <2>1. pollfds' = <<>> /\ changed' = {} /\ closed' = {}
    BY <1>5 DEF Leave, Restart, Gone
  <2>2. pollfds' \in Seq(Paths)
    BY <2>1
  <2> QED
    BY <2>1, <2>2, Zenon DEF ListInv
<1>6. CASE \E f \in Paths : GestureChanges(f) \/ CloseBehind(f)
  <2>1. PICK f : GestureChanges(f) \/ CloseBehind(f)
    BY <1>6
  <2>2. UNCHANGED <<poller, pollfds>>
    BY <2>1 DEF GestureChanges, CloseBehind, insideVars, pollVars
  <2>3. changed' \subseteq changed \cup Polled /\ closed' \subseteq closed \cup Polled
    BY <2>1 DEF GestureChanges, CloseBehind
  <2> QED
    BY <2>2, <2>3 DEF ListInv, Polled
<1>7. CASE \E v \in {0, 1} : OnEvent(v)
  BY <1>7 DEF OnEvent, insideVars, fileVars, pollVars, ListInv, Polled
<1>8. CASE Owner
  <2>1. UNCHANGED <<pollfds, changed, closed>>
    BY <1>8 DEF Owner, insideVars, fileVars
  <2>2. poller' \in {"none", "starting", "exited"} => poller \in {"none", "starting", "exited"}
    BY <1>8 DEF Owner, OwnerActivates, OwnerStops, OwnerJoins, StartPolling, JoinPolling
  <2> QED
    BY <2>1, <2>2 DEF ListInv, Polled
<1>9. CASE UNCHANGED vars
  BY <1>9 DEF vars, pollVars, fileVars, ListInv, Polled
<1> QED
  BY <1>1, <1>2, <1>3, <1>4, <1>5, <1>6, <1>7, <1>8, <1>9 DEF Next, ThreadStep

\* Every step keeps the rest.
LEMMA DataStep == DataInv /\ [Next]_vars => DataInv'
<1> SUFFICES ASSUME DataInv, [Next]_vars PROVE DataInv'
  OBVIOUS
<1>0. Quiet \in [Paths -> Reports]
  BY DEF Quiet, Reports
<1>1. faults' \subseteq Faults
  <2>1. faults' = faults
    BY DEF Next, ThreadStep, Setup, Test, Scan, PollInterrupted, PollFails, Poll, Read, Act, Leave,
           GestureChanges, CloseBehind, OnEvent, Owner, Restart, insideVars, vars
  <2> QED
    BY <2>1 DEF DataInv
<1>2. revents' \in [Paths -> Reports]
  <2>1. revents' = revents \/ revents' = Quiet \/ revents' \in Revents
    BY DEF Next, ThreadStep, Setup, Test, Scan, PollInterrupted, PollFails, Poll, Read, Act, Leave, Gone,
           GestureChanges, CloseBehind, OnEvent, Owner, Restart, insideVars, roundVars, vars
  <2> QED
    BY <1>0, <2>1 DEF DataInv, Revents
<1>3. enabled' \in BOOLEAN
  <2>1. CASE Read
    BY <2>1 DEF Read
  <2>2. CASE ~Read
    <3>1. enabled' = enabled \/ enabled' = FALSE
      BY <2>2 DEF Next, ThreadStep, Setup, Test, Scan, PollInterrupted, PollFails, Poll, Act, Leave, Gone,
           GestureChanges, CloseBehind, OnEvent, Owner, Restart, insideVars, roundVars, vars
    <3> QED
      BY <3>1 DEF DataInv
  <2> QED
    BY <2>1, <2>2
<1>4. ebadf' \in BOOLEAN
  <2>1. CASE Read
    BY <2>1 DEF Read
  <2>2. CASE Scan
    BY <2>2 DEF Scan
  <2>3. CASE ~Read /\ ~Scan
    <3>1. ebadf' = ebadf \/ ebadf' = FALSE
      BY <2>3 DEF Next, ThreadStep, Setup, Test, PollInterrupted, PollFails, Poll, Act, Leave, Gone,
           GestureChanges, CloseBehind, OnEvent, Owner, Restart, insideVars, errorVars, vars
    <3> QED
      BY <3>1 DEF DataInv
  <2> QED
    BY <2>1, <2>2, <2>3
<1>5. on' \subseteq Paths
  <2>1. on' = on \/ \E f \in Paths : on' = (on \ {f}) \cup ({f} \ on)
    BY DEF Next, ThreadStep, Setup, Test, Scan, PollInterrupted, PollFails, Poll, Read, Act, Leave,
           GestureChanges, CloseBehind, OnEvent, Owner, Restart, fileVars, vars
  <2> QED
    BY <2>1 DEF DataInv
<1>6. touchMode' \in {0, 1}
  <2>1. touchMode' = touchMode \/ touchMode' \in {0, 1}
    BY DEF Next, ThreadStep, Setup, Test, Scan, PollInterrupted, PollFails, Poll, Read, Act, Leave,
           GestureChanges, CloseBehind, OnEvent, Owner, Restart, vars
  <2> QED
    BY <2>1 DEF DataInv
<1> QED
  BY <1>1, <1>2, <1>3, <1>4, <1>5, <1>6 DEF DataInv

\* Every step keeps IInv.
LEMMA IInvStep == IInv /\ [Next]_vars => IInv'
BY PollingStep, PollTypeStep, PollErrorStep, ErrorStep, ListStep, DataStep DEF IInv

-----------------------------------------------------------------------------
(* Theorems *)

\* IInv holds in every reachable state.
THEOREM Invariance == Spec => []IInv
BY InitIInv, IInvStep, PTL DEF Spec

\* Every variable keeps its type.
THEOREM TypeCorrect == Spec => []NonUiTypeOK
<1>1. IInv => NonUiTypeOK
  <2> SUFFICES ASSUME IInv PROVE NonUiTypeOK
    OBVIOUS
  <2>1. consecutiveErrors \in 0 .. MaxErrors /\ step \in {"scan", "poll", "read", "act"}
    BY NonUiAssumption DEF IInv, ErrorInv
  <2>2. consecutivePollErrors \in 0 .. MAX_CONSECUTIVE_POLL_ERRORS
    BY DEF IInv, PollErrorInv
  <2> QED
    BY <2>1, <2>2, Zenon DEF NonUiTypeOK, IInv, ListInv, DataInv
<1> QED
  BY <1>1, Invariance, PTL

\* The safety part of ImplementsPolling: every step of the loop of
\* NonUiNotifier is one that SensorNotifier allows its polling function.
THEOREM ImplementsPollingSafely == Spec => PollInit /\ [][PollNext]_pollVars
<1>1. Init => PollInit
  BY DEF Init
<1> QED
  BY <1>1, PollingStep, PTL DEF Spec

\* The loop gives up only for want of files or after three failures of poll()
\* in a row, whatever the files and the service answer.
THEOREM StopsForCauseHolds == Spec => StopsForCause
<1> DEFINE Stops ==
      (MaxErrors > 1 /\ poller = "polling" /\ poller' = "leaving") =>
          pollfds' = <<>> \/ consecutivePollErrors' = MAX_CONSECUTIVE_POLL_ERRORS
<1>1. IInv /\ [Next]_vars => [Stops]_vars
  <2> SUFFICES ASSUME IInv, Next, MaxErrors > 1, poller = "polling", poller' = "leaving"
               PROVE pollfds' = <<>> \/ consecutivePollErrors' = MAX_CONSECUTIVE_POLL_ERRORS
    OBVIOUS
  <2>1. CASE Setup \/ Test
    BY <2>1 DEF Setup, Test, PollSetup, PollTest, PollAt
  <2>2. CASE Scan
    BY <2>2 DEF Scan, Go, Over, pollVars
  <2>3. CASE PollInterrupted
    BY <2>3 DEF PollInterrupted, Over
  <2>4. CASE PollFails
    BY <2>4 DEF PollFails, Over, TooMany, IInv, PollErrorInv, MAX_CONSECUTIVE_POLL_ERRORS
  <2>5. CASE Poll
    BY <2>5 DEF Poll, Over, Go, pollVars
  <2>6. CASE Read
    <3>1. consecutiveErrors = 0
      BY <2>6 DEF Read, In, IInv, ErrorInv
    <3>2. \/ pollfds' = <<>>
          \/ consecutiveErrors' = consecutiveErrors + 1 /\ consecutiveErrors' >= MaxErrors
      BY <2>6 DEF Read, Over, Go, pollVars
    <3> QED
      BY <3>1, <3>2, NonUiAssumption
  <2>7. CASE Act
    <3>1. ~(1 >= MaxErrors)
      BY NonUiAssumption
    <3> QED
      BY <2>7, <3>1 DEF Act, Switch, Over, PollEnable, PollDisable, PollAbort
  <2>8. CASE Leave
    BY <2>8 DEF Leave, PollLeave, PollAt
  <2>9. CASE \E f \in Paths : GestureChanges(f) \/ CloseBehind(f)
    BY <2>9 DEF GestureChanges, CloseBehind, pollVars
  <2>10. CASE \E v \in {0, 1} : OnEvent(v)
    BY <2>10 DEF OnEvent, pollVars
  <2>11. CASE Owner \/ Restart
    BY <2>11 DEF Owner, Restart, OwnerActivates, OwnerStops, OwnerJoins, InitRestarts,
                 StartPolling, JoinPolling
  <2> QED
    BY <2>1, <2>2, <2>3, <2>4, <2>5, <2>6, <2>7, <2>8, <2>9, <2>10, <2>11 DEF Next, ThreadStep
<1> QED
  BY <1>1, Invariance, PTL DEF Spec, StopsForCause

\* For any number of files: a file that reported an error goes, and one that
\* did not stays, as long as no descriptor is or was bad.
THEOREM RightFilesDroppedHolds == Spec => RightFilesDropped
<1> DEFINE Right == (In("read") /\ step' # "read") =>
             \A f \in Polled :
                 /\ revents[f] = "ERR" => f \notin ToSet(pollfds')
                 /\ (revents[f] # "ERR" /\ ~ebadf /\ closed = {}) => f \in ToSet(pollfds')
<1>1. IInv /\ [Next]_vars => [Right]_vars
  <2> SUFFICES ASSUME IInv, Next, In("read"), step' # "read", NEW f \in Polled
               PROVE /\ revents[f] = "ERR" => f \notin ToSet(pollfds')
                     /\ (revents[f] # "ERR" /\ ~ebadf /\ closed = {}) => f \in ToSet(pollfds')
    OBVIOUS
  <2>1. Read
    <3>1. fate = "running" /\ poller = "polling" /\ step = "read"
      BY DEF In, PollAt
    <3>2. ~Setup /\ ~Test /\ ~Leave /\ ~Restart
      BY <3>1 DEF Setup, Test, Leave, Restart, PollSetup, PollTest, PollLeave, PollAt, InitRestarts
    <3>3. ~Scan /\ ~PollInterrupted /\ ~PollFails /\ ~Poll /\ ~Act
      BY <3>1 DEF Scan, PollInterrupted, PollFails, Poll, Act, In
    <3>4. /\ \A g \in Paths : ~GestureChanges(g) /\ ~CloseBehind(g)
          /\ \A v \in {0, 1} : ~OnEvent(v)
          /\ ~Owner
      BY <3>1 DEF GestureChanges, CloseBehind, OnEvent, Owner, insideVars
    <3> QED
      BY <3>2, <3>3, <3>4 DEF Next, ThreadStep
  <2>2. PICK failing :
           /\ Polled' = {pollfds[i] : i \in DOMAIN pollfds \ failing}
           /\ \A i \in DOMAIN pollfds : revents[pollfds[i]] = "ERR" => i \in failing
           /\ ~ebadf /\ closed = {} => \A i \in failing : revents[pollfds[i]] = "ERR"
    BY <2>1, ReadDrops DEF IInv, ListInv
  <2>3. Polled' = ToSet(pollfds')
    BY DEF Polled
  <2>4. PICK i \in DOMAIN pollfds : f = pollfds[i]
    BY DEF Polled, ToSet
  <2> QED
    BY <2>2, <2>3, <2>4
<1> QED
  BY <1>1, Invariance, PTL DEF Spec, RightFilesDropped
=============================================================================
