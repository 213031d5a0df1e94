-------------------------- MODULE NotifierContract --------------------------
(***************************************************************************)
(* What the rest of the service relies on when it holds a SensorNotifier:  *)
(* the sensor is switched only between activate() and the end of           *)
(* deactivate(), and a deactivate() that has begun comes to its end.       *)
(* Deactivating may leave the sensor on only when the sensor service       *)
(* refuses; a notifier that is off never switches it on.                   *)
(***************************************************************************)
VARIABLES
    phase,       \* "off", "on" or "stopping"
    streaming    \* the sensor service delivers events

contractVars == <<phase, streaming>>

ContractInit == phase = "off" /\ streaming = FALSE

Start ==
    /\ phase = "off"
    /\ phase' = "on"
    /\ UNCHANGED streaming

Switch ==
    /\ phase # "off"
    /\ streaming' = ~streaming
    /\ UNCHANGED phase

BeginStop ==
    /\ phase = "on"
    /\ phase' = "stopping"
    /\ UNCHANGED streaming

Stop ==
    /\ phase = "stopping"
    /\ phase' = "off"
    /\ streaming' \in {FALSE, streaming}

\* Deleting the notifier, or the death of the process, ends the stream.
Release ==
    /\ phase' = "off"
    /\ streaming' = FALSE

ContractNext == Start \/ Switch \/ BeginStop \/ Stop \/ Release

ContractSpec ==
    /\ ContractInit /\ [][ContractNext]_contractVars
    /\ WF_contractVars(Stop \/ (phase = "stopping" /\ Release))
=============================================================================
