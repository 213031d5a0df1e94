------------------------------- MODULE MCConfig -------------------------------
(* An int of 16 and a long of 18 bits: the defaults fit, and there are numbers *)
(* that fit int, that fit long only, and that fit neither.                     *)
EXTENDS Config

MCIntSpan == 2^16
MCLongSpan == 2^18
MCKeys == {"poll_timeout_ms", "enable_auto_recovery", "touch_device_path"}
MCNumbers == {-1, 0, 1, 32767, 32768, 65536, 98304, 131071, 200000, -200000}
=============================================================================
