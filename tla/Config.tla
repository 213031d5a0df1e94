-------------------------------- MODULE Config --------------------------------
(***************************************************************************)
(* Config (sensors/Config.cpp): main() loads the configuration file once,  *)
(* before there is another thread, and every other part reads the          *)
(* settings.  The file is any sequence of lines of a given set.            *)
(***************************************************************************)
EXTENDS MachineInts, Sequences, FiniteSetsExt

CONSTANTS
    IntSpan,     \* number of values of int
    LongSpan,    \* number of values of long, what strtol() returns
    Keys,        \* the keys a file may set, known or not
    Numbers,     \* the numbers it may give them
    MaxLines     \* bound on the lines of a file

\* The target is arm64, where long is wider than int.
ASSUME ConfigAssumption ==
    /\ IntSpan \in Nat /\ IntSpan > 0 /\ IntSpan % 2 = 0
    /\ LongSpan \in Nat /\ LongSpan > 0 /\ LongSpan % (2 * IntSpan) = 0
    /\ Numbers \subseteq Int
    /\ MaxLines \in Nat

VARIABLES
    phase,        \* "starting", "reading" or "loaded"
    file,         \* the lines read so far
    mConfigMap,
    mSettings

vars == <<phase, file, mConfigMap, mSettings>>

\* A value as its readers tell values apart: a number, one of the words that
\* mean true, other text (a number followed by a comment is other text), or
\* nothing at all.  "1" is the number 1.
Number(n) == [text |-> "number", n |-> n]
Text(t) == [text |-> t, n |-> 0]
Value == {Number(n) : n \in Numbers} \cup {Text(t) : t \in {"truth", "other", "empty"}}

\* Comments, lines without '=' and lines with nothing before it say nothing.
Line == [key : Keys, value : Value] \cup {[key |-> "", value |-> Text("empty")]}

\* The values a Settings object is born with (Config.h).
Ints ==
    [ poll_timeout_ms |-> 5000,  max_consecutive_errors |-> 5,  error_retry_delay_ms |-> 1000,
      heartbeat_interval_sec |-> 60,  sensor_sample_period |-> 20000,  sensor_latency |-> 0,
      health_check_interval_sec |-> 30,  component_timeout_sec |-> 45,
      max_restart_attempts |-> 5,  recovery_retry_delay_ms |-> 200,
      max_consecutive_empty_reads |-> 10,  display_event_retry_delay_ms |-> 100 ]
Bools == [ enable_aod_notifier |-> TRUE, enable_non_ui_notifier |-> TRUE,
           enable_auto_recovery |-> TRUE ]
Texts == [ log_level |-> Text("INFO"), touch_device_path |-> Text("/dev/xiaomi-touch"),
           display_device_path |-> Text("/dev/mi_display/disp_feature") ]

\* The literals of Config.h are ints.
ASSUME DefaultsFit == \A k \in DOMAIN Ints : InSigned(Ints[k], IntSpan)

Mentioned(k) == k \in DOMAIN mConfigMap

-----------------------------------------------------------------------------
getString(k, default) == IF Mentioned(k) THEN mConfigMap[k] ELSE default

\* Mutant: the long is not cast to int.
getLong(k, default) ==
    IF Mentioned(k) /\ mConfigMap[k].text = "number" THEN Clamp(mConfigMap[k].n, LongSpan)
                                                     ELSE default

\* Mutant: the cast clamps, as strtol() does.
getClamped(k, default) ==
    IF Mentioned(k) /\ mConfigMap[k].text = "number" THEN Clamp(mConfigMap[k].n, IntSpan)
                                                     ELSE default

\* strtol() has to use up the text; its long is cast to int.
getInt(k, default) ==
    IF Mentioned(k) /\ mConfigMap[k].text = "number"
    THEN Wrap(Clamp(mConfigMap[k].n, LongSpan), IntSpan)
    ELSE default

\* Mutant: what is neither true nor false is the default.
getBoolOrDefault(k, default) ==
    IF Mentioned(k) /\ mConfigMap[k].text # "other"
    THEN mConfigMap[k].text = "truth" \/ mConfigMap[k] = Number(1)
    ELSE default

\* Whatever does not say true says false.
getBool(k, default) ==
    IF Mentioned(k)
    THEN mConfigMap[k].text = "truth" \/ mConfigMap[k] = Number(1)
    ELSE default

\* applySettings() has the defaults a second time.
DefaultInts ==
    [ poll_timeout_ms |-> 5000,  max_consecutive_errors |-> 5,  error_retry_delay_ms |-> 1000,
      heartbeat_interval_sec |-> 60,  sensor_sample_period |-> 20000,  sensor_latency |-> 0,
      health_check_interval_sec |-> 30,  component_timeout_sec |-> 45,
      max_restart_attempts |-> 5,  recovery_retry_delay_ms |-> 200,
      max_consecutive_empty_reads |-> 10,  display_event_retry_delay_ms |-> 100 ]
DefaultBools == [ enable_aod_notifier |-> TRUE, enable_non_ui_notifier |-> TRUE,
                  enable_auto_recovery |-> TRUE ]
DefaultTexts == [ log_level |-> Text("INFO"),
                  touch_device_path |-> Text("/dev/xiaomi-touch"),
                  display_device_path |-> Text("/dev/mi_display/disp_feature") ]

Settings ==
    [ ints  |-> [k \in DOMAIN DefaultInts  |-> getInt(k, DefaultInts[k])],
      bools |-> [k \in DOMAIN DefaultBools |-> getBool(k, DefaultBools[k])],
      texts |-> [k \in DOMAIN DefaultTexts |-> getString(k, DefaultTexts[k])] ]

NotFound ==
    /\ phase = "starting"
    /\ phase' = "loaded"
    /\ UNCHANGED <<file, mConfigMap, mSettings>>

Open ==
    /\ phase = "starting"
    /\ phase' = "reading"
    /\ UNCHANGED <<file, mConfigMap, mSettings>>

\* Mutant: the first line for a key counts.
Remember1st(k, v) ==
    mConfigMap' = [j \in DOMAIN mConfigMap \cup {k} |-> IF Mentioned(j) THEN mConfigMap[j] ELSE v]

Remember(k, v) ==
    mConfigMap' = [j \in DOMAIN mConfigMap \cup {k} |-> IF j = k THEN v ELSE mConfigMap[j]]

parseConfigLine ==
    /\ phase = "reading"
    /\ Len(file) < MaxLines
    /\ \E line \in Line :
          /\ file' = Append(file, line)
          /\ IF line.key # "" /\ line.value.text # "empty"
             THEN Remember(line.key, line.value)
             ELSE UNCHANGED mConfigMap
    /\ UNCHANGED <<phase, mSettings>>

applySettings ==
    /\ phase = "reading"
    /\ phase' = "loaded"
    /\ mSettings' = Settings
    /\ UNCHANGED <<file, mConfigMap>>

Init ==
    /\ phase = "starting"
    /\ file = <<>>
    /\ mConfigMap = [k \in {} |-> 0]
    /\ mSettings = [ints |-> Ints, bools |-> Bools, texts |-> Texts]

Next == NotFound \/ Open \/ parseConfigLine \/ applySettings

Spec == Init /\ [][Next]_vars

-----------------------------------------------------------------------------
(* Properties *)

ConfigTypeOK ==
    /\ phase \in {"starting", "reading", "loaded"}
    /\ file \in Seq(Line)
    /\ DOMAIN mConfigMap \subseteq Keys
    /\ \A k \in DOMAIN mConfigMap : mConfigMap[k] \in Value
    /\ \A k \in DOMAIN mSettings.ints : InSigned(mSettings.ints[k], IntSpan)
    /\ \A k \in DOMAIN mSettings.bools : mSettings.bools[k] \in BOOLEAN

\* The lines that give k a value, by number, and what the last one gives.
Given(k) == {i \in DOMAIN file : file[i].key = k /\ file[i].value.text # "empty"}
LastValue(k) == file[Max(Given(k))].value

\* A setting is what the last line for it says, if that is a number that fits;
\* if it is not a number, or there is no such line, the setting is what it was
\* without a file: an earlier line does not come back, and the two tables of
\* defaults agree.
LastLineCounts ==
    phase = "loaded" =>
        \A k \in DOMAIN Ints :
            IF Given(k) # {} /\ LastValue(k).text = "number"
            THEN InSigned(LastValue(k).n, IntSpan) => mSettings.ints[k] = LastValue(k).n
            ELSE mSettings.ints[k] = Ints[k]

\* Switches and paths the file does not mention stay as they were without it;
\* a switch that is mentioned and does not read as true is off, whatever its
\* default.
OtherSettings ==
    phase = "loaded" =>
        /\ \A k \in DOMAIN Bools :
              IF Given(k) = {} THEN mSettings.bools[k] = Bools[k]
              ELSE mSettings.bools[k] =
                      (LastValue(k) \in {Text("truth"), Number(1)})
        /\ \A k \in DOMAIN Texts :
              mSettings.texts[k] = IF Given(k) = {} THEN Texts[k] ELSE LastValue(k)

\* A number that is too large for long ends as -1, for poll_timeout_ms a poll()
\* without time-out that deactivate() and the shutdown wait for; one that is too
\* small ends as 0, a poll() that does not wait at all.
HugeNumbers ==
    phase = "loaded" =>
        \A k \in DOMAIN Ints :
            (Given(k) # {} /\ ~InSigned(LastValue(k).n, LongSpan))
                => mSettings.ints[k] = IF LastValue(k).n > 0 THEN -1 ELSE 0
=============================================================================
