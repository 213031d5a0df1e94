---------------------------- MODULE UdfpsHandler ----------------------------
(***************************************************************************)
(* The fingerprint handler of the display (udfps/UdfpsHandler.cpp).  Every *)
(* entry point is a list of writes, to the fingerprint device and to       *)
(* sysfs, none of which is checked and no two of which are made under a    *)
(* lock.  The fingerprint HAL, outside this repository, calls the handler  *)
(* for its clients on a binder thread and for the vendor's library on the  *)
(* library's thread.                                                       *)
(***************************************************************************)
EXTENDS Naturals, Sequences, SequencesExt

CONSTANTS
    Clients,      \* threads that bring the calls of the HAL's clients
    Library       \* threads that bring the vendor library's notifications

ASSUME UdfpsAssumption == Clients \cap Library = {}

Threads == Clients \cup Library

VARIABLES
    fails,        \* writes may fail in this behaviour
    optional,     \* FOD_FINGER_STATE_PATH exists
    out,          \* what was last written to each output
    todo,         \* the writes each thread has still to make
    call,         \* the call each thread is in, or was in last
    last,         \* the call that began last
    tainted       \* outputs that it may not have set: see Begin and Write

vars == <<fails, optional, out, todo, call, last, tainted>>

\* The coordinates are two commands of the device, written like the rest.
Outputs == {"x", "y", "press", "hbm", "nit", "fodPress", "fingerState"}
Call == {"down", "up", "wait"}

UdfpsTypeOK ==
    /\ fails \in BOOLEAN /\ optional \in BOOLEAN
    /\ out \in [Outputs -> BOOLEAN]
    /\ todo \in [Threads -> Seq(Outputs \X BOOLEAN)]
    /\ call \in [Threads -> Call]
    /\ last \in Call
    /\ tainted \subseteq Outputs

\* fileExists() is asked when the writes before it have been made; the file
\* does not come or go.
All(value) ==
    LET names == <<"x", "y", "press", "hbm", "nit", "fodPress">>
                     \o (IF optional THEN <<"fingerState">> ELSE <<>>)
    IN  [i \in DOMAIN names |-> <<names[i], value>>]

onFingerDown == All(TRUE)

\* Mutant: fod_press_status is not put back.
UpKeepsStatus == SelectSeq(All(FALSE), LAMBDA w : w[1] # "fodPress")

\* Mutant: local HBM is not turned off.
UpKeepsLight == SelectSeq(All(FALSE), LAMBDA w : w[1] # "hbm")

onFingerUp == All(FALSE)

\* Mutant: another path.
WaitingElsewhere == << <<"fod_press", TRUE>> >>

Waiting == << <<"fodPress", TRUE>> >>

\* The writes of a call.
Writes(kind) ==
    CASE kind = "down" -> onFingerDown
      [] kind = "up"   -> onFingerUp
      [] kind = "wait" -> Waiting

AcquiredInfo == {"GOOD", "PARTIAL", "INSUFFICIENT", "SENSOR_DIRTY", "TOO_SLOW", "TOO_FAST",
                 "START", "TOO_DARK", "TOO_BRIGHT", "IMMOBILE", "RETRYING_CAPTURE",
                 "LIFT_TOO_SOON"}
\* 20 stands for the codes that are only logged.
VendorCodes == {20, 21, 22, 23, 24, 44}

\* What onAcquired() comes to: at most one call.
Acquired(result, vendorCode) ==
    CASE result = "VENDOR" /\ vendorCode \in {21, 23}     -> {"wait"}
      [] result = "VENDOR" /\ vendorCode \in {22, 24, 44} -> {"up"}
      [] result \in AcquiredInfo \ {"START", "RETRYING_CAPTURE"} -> {"up"}
      [] OTHER -> {}

Opposed(a, b) == (a = "up") # (b = "up")
Busy(t) == todo[t] # <<>>

\* Outputs that an opposed call has still to write may go against this one.
Begin(t, kind) ==
    /\ ~Busy(t)
    /\ todo' = [todo EXCEPT ![t] = Writes(kind)]
    /\ call' = [call EXCEPT ![t] = kind]
    /\ last' = kind
    /\ tainted' = UNION { {w[1] : w \in ToSet(todo[u])} :
                             u \in {v \in Threads : Opposed(call[v], kind)} }
    /\ UNCHANGED <<fails, optional, out>>

\* onFingerDown(), and onFingerUp() or cancel().
ClientCall(t) == Begin(t, "down") \/ Begin(t, "up")

onAcquired(t) ==
    \E kind \in UNION {Acquired(result, vendorCode) :
                          result \in AcquiredInfo \cup {"VENDOR"}, vendorCode \in VendorCodes} :
        Begin(t, kind)

onAuthentication(t) == Begin(t, "up")

\* extCmd() and set(): a failure is ignored, or logged.
Write(t) ==
    /\ Busy(t)
    /\ LET w == Head(todo[t]) IN
       \/ out' = [out EXCEPT ![w[1]] = w[2]] /\ UNCHANGED tainted
       \/ fails /\ tainted' = tainted \cup {w[1]} /\ UNCHANGED out
    /\ todo' = [todo EXCEPT ![t] = Tail(@)]
    /\ UNCHANGED <<fails, optional, call, last>>

\* init() has been called, and no other call.
Init ==
    /\ fails \in BOOLEAN /\ optional \in BOOLEAN
    /\ out = [o \in Outputs |-> FALSE]
    /\ todo = [t \in Threads |-> <<>>]
    /\ call = [t \in Threads |-> "up"]
    /\ last = "up"
    /\ tainted = {}

Next ==
    \/ \E t \in Clients : ClientCall(t)
    \/ \E t \in Library : onAcquired(t)
    \/ \E t \in Library : onAuthentication(t)
    \/ \E t \in Threads : Write(t)

\* A call that has begun runs; nobody is obliged to call.
Spec == Init /\ [][Next]_vars /\ \A t \in Threads : WF_vars(Write(t))

-----------------------------------------------------------------------------
(* Properties *)

\* When no call is under way each output is as the call that began last wants
\* it, unless its own write failed or an opposed call that was still under way
\* wrote it: nothing of an earlier touch, of an earlier failure, of a "waiting"
\* notification (UdfpsHandler.cpp:144) or of calls that came together is left on
\* the panel or in the touch driver's status.
AgreesWithLast ==
    (\A t \in Threads : ~Busy(t)) =>
        LET sure == Outputs \ tainted IN
        /\ last = "up" => \A o \in sure : ~out[o]
        /\ last = "down" => \A o \in sure : out[o] \/ (o = "fingerState" /\ ~optional)
        /\ last = "wait" => out["fodPress"] \/ "fodPress" \notin sure

\* Local HBM, which ages the panel, goes out after a finger-up from any source,
\* unless a new touch begins, or its write fails or is overtaken by one of a
\* finger-down that was still under way.
LightGoesOut ==
    (last = "up" /\ out["hbm"]) ~> (~out["hbm"] \/ last # "up" \/ "hbm" \in tainted)
=============================================================================
