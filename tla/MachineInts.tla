----------------------------- MODULE MachineInts -----------------------------
(***************************************************************************)
(* The integer conversions of C that the service leaves unchecked.  Widths *)
(* are given by the number of values of a type: 2^32 for int.              *)
(***************************************************************************)
EXTENDS Integers

\* Two's complement: the value of a signed type with `span` values that is
\* congruent to n.
Wrap(n, span) == ((n + span \div 2) % span) - span \div 2

\* strtol() returns LONG_MIN or LONG_MAX for a number out of range.
Clamp(n, span) ==
    IF n < -(span \div 2) THEN -(span \div 2)
    ELSE IF n >= span \div 2 THEN span \div 2 - 1
    ELSE n

InSigned(n, span) == -(span \div 2) <= n /\ n < span \div 2
=============================================================================
