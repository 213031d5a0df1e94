------------------------- MODULE SensorNotifierUtils -------------------------
(***************************************************************************)
(* parseDispEvent() (sensors/SensorNotifierUtils.cpp): the length in an    *)
(* event's header is the driver's word, an unsigned number; the length of  *)
(* the data that follow is an int.                                         *)
(***************************************************************************)
EXTENDS MachineInts

CONSTANTS
    UintSpan,      \* number of values of int, and of the header's length
    HeaderSize     \* sizeof(disp_event)

ASSUME UtilsAssumption ==
    /\ UintSpan \in Nat /\ UintSpan % 2 = 0
    /\ HeaderSize \in Nat \ {0} /\ HeaderSize < UintSpan \div 2

dataLength(length) == Wrap(length - HeaderSize, UintSpan)

\* Mutant: the sign of the data length is not looked at.
AcceptsNegative(length) == length >= HeaderSize

Accepts(length) == length >= HeaderSize /\ dataLength(length) >= 0

\* What parseDispEvent() makes of a header with this length, when the header or
\* the data may come short: nullptr, an event without data, or a whole event.
parseDispEvent(length, short) ==
    IF ~Accepts(length) \/ (short /\ dataLength(length) > 0) THEN "nothing"
    ELSE IF dataLength(length) = 0 THEN "bare" ELSE "whole"
=============================================================================
