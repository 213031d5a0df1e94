---------------------------- MODULE ConfigProofs ----------------------------
(***************************************************************************)
(* The properties of Config for any file: any keys, any numbers, any       *)
(* number of lines, and any widths of int and long.                        *)
(*                                                                         *)
(* The map always holds what the last line for a key gives it (MapInv),    *)
(* and the settings are the initial ones until they are made from the map  *)
(* (SettingsInv).  The rest is arithmetic: what the two conversions make   *)
(* of a number (WrapFits, WrapAfterClamp).                                 *)
(***************************************************************************)
EXTENDS Config, TLAPS

Names == DOMAIN Ints \cup DOMAIN Bools \cup DOMAIN Texts

\* The last line that gives k a value.
IsLast(i, k) == i \in Given(k) /\ \A j \in Given(k) : i >= j

MapInv ==
    \A k \in Names :
        /\ Mentioned(k) => \E i \in Given(k) : IsLast(i, k) /\ mConfigMap[k] = file[i].value
        /\ ~Mentioned(k) => Given(k) = {}

Born == [ints |-> Ints, bools |-> Bools, texts |-> Texts]

SettingsInv ==
    /\ phase = "loaded" => mSettings = Settings
    /\ phase # "loaded" => mSettings = Born
    /\ phase = "starting" => DOMAIN mConfigMap = {}

BaseInv ==
    /\ phase \in {"starting", "reading", "loaded"}
    /\ file \in Seq(Line)
    /\ DOMAIN mConfigMap \subseteq Keys
    /\ \A k \in DOMAIN mConfigMap : mConfigMap[k] \in Value

IInv == BaseInv /\ MapInv /\ SettingsInv

-----------------------------------------------------------------------------
(* Conversions of numbers *)

\* The remainder of a multiple of S and a rest is the rest.
LEMMA Residue ==
  ASSUME NEW S \in Nat, S > 0, NEW m \in Int, NEW r \in 0 .. S - 1
  PROVE (m * S + r) % S = r
<1> DEFINE x == m * S + r
           d == x \div S
           e == x % S
<1>1. x \in Int /\ d \in Int /\ e \in 0 .. S - 1
  OBVIOUS
<1>2. x = d * S + e
  OBVIOUS
<1>3. (m - d) * S = e - r
  BY <1>1, <1>2
<1> HIDE DEF x, d, e
<1>4. m - d < 1
  <2> SUFFICES ASSUME m - d >= 1 PROVE FALSE
    BY <1>1
  <2>1. (m - d) * S >= 1 * S
    BY <1>1
  <2> QED
    BY <1>1, <1>3, <2>1
<1>5. m - d > -1
  <2> SUFFICES ASSUME m - d <= -1 PROVE FALSE
    BY <1>1
  <2>1. (m - d) * S <= (-1) * S
    BY <1>1
  <2> QED
    BY <1>1, <1>3, <2>1
<1>6. e = r
  BY <1>1, <1>3, <1>4, <1>5
<1> QED
  BY <1>6 DEF e, x

\* A conversion ends within its type.
LEMMA WrapInRange ==
  ASSUME NEW S \in Nat, S > 0, S % 2 = 0, NEW n \in Int
  PROVE InSigned(Wrap(n, S), S)
<1> DEFINE h == S \div 2
<1>1. h \in Nat /\ S = 2 * h
  OBVIOUS
<1>2. (n + h) % S \in 0 .. S - 1
  BY <1>1
<1> QED
  BY <1>1, <1>2 DEF Wrap, InSigned

\* A number of the type stays as it is.
LEMMA WrapFits ==
  ASSUME NEW S \in Nat, S > 0, S % 2 = 0, NEW n \in Int, InSigned(n, S)
  PROVE Wrap(n, S) = n
<1> DEFINE h == S \div 2
<1>1. h \in Nat /\ S = 2 * h
  OBVIOUS
<1>2. n + h \in 0 .. S - 1
  BY <1>1 DEF InSigned
<1>3. (n + h) % S = n + h
  BY <1>2
<1> QED
  BY <1>1, <1>3 DEF Wrap

\* Half of long is a number of whole ints.
LEMMA Widths ==
  \E m \in Nat : m >= 1 /\ LongSpan \div 2 = m * IntSpan
<1> DEFINE S2 == 2 * IntSpan
           m == LongSpan \div S2
<1>1. S2 \in Nat /\ S2 > 0 /\ IntSpan \in Nat /\ LongSpan \in Nat /\ LongSpan > 0
  BY ConfigAssumption
<1>2. LongSpan % S2 = 0
  BY ConfigAssumption
<1>3. m \in Int /\ LongSpan = m * S2 + (LongSpan % S2)
  <2> HIDE DEF S2
  <2> QED
    BY <1>1
<1>4. LongSpan = m * S2
  BY <1>1, <1>2, <1>3
<1>5. m >= 1
  <2> HIDE DEF m, S2
  <2> SUFFICES ASSUME m <= 0 PROVE FALSE
    BY <1>3
  <2>1. m * S2 <= 0 * S2
    BY <1>1, <1>3
  <2> QED
    BY <1>1, <1>4, <2>1
<1> DEFINE p == m * IntSpan
<1>6. p \in Int /\ LongSpan = 2 * p
  BY <1>1, <1>3, <1>4
<1>7. LongSpan \div 2 = p
  <2> HIDE DEF p
  <2> QED
    BY <1>6
<1> QED
  BY <1>3, <1>5, <1>7

\* What int makes of the limits of long: the bits of -1 and of 0.
LEMMA WrapAfterClamp ==
  ASSUME NEW n \in Int
  PROVE /\ InSigned(n, IntSpan) => Clamp(n, LongSpan) = n
        /\ ~InSigned(n, LongSpan) =>
             Wrap(Clamp(n, LongSpan), IntSpan) = IF n > 0 THEN -1 ELSE 0
        /\ Clamp(n, LongSpan) \in Int
<1> DEFINE h == IntSpan \div 2
           L == LongSpan \div 2
<1>0. h = IntSpan \div 2 /\ L = LongSpan \div 2
  OBVIOUS
<1>1. h \in Nat /\ IntSpan \in Nat /\ IntSpan > 0 /\ IntSpan = 2 * h /\ h >= 1
  BY ConfigAssumption
<1>2. PICK m \in Nat : m >= 1 /\ L = m * IntSpan
  BY Widths
<1> HIDE DEF h, L
<1>3. L \in Nat /\ L >= IntSpan
  <2>1. m * IntSpan >= 1 * IntSpan
    BY <1>1, <1>2
  <2> QED
    BY <1>1, <1>2, <2>1
<1>4. Clamp(n, LongSpan) \in Int
  BY <1>0, <1>3 DEF Clamp
<1>5. InSigned(n, IntSpan) => Clamp(n, LongSpan) = n
  BY <1>0, <1>1, <1>3 DEF Clamp, InSigned
<1>6. ASSUME n >= L PROVE Wrap(Clamp(n, LongSpan), IntSpan) = -1
  <2>1. Clamp(n, LongSpan) = L - 1
    BY <1>0, <1>3, <1>6 DEF Clamp
  <2>2. L - 1 + h = m * IntSpan + (h - 1) /\ h - 1 \in 0 .. IntSpan - 1
    BY <1>1, <1>2
  <2>3. \A r \in 0 .. IntSpan - 1 : (m * IntSpan + r) % IntSpan = r
    BY <1>1, Residue
  <2>4. (m * IntSpan + (h - 1)) % IntSpan = h - 1
    BY <2>2, <2>3
  <2> QED
    BY <1>1, <2>1, <2>2, <2>4, <1>0 DEF Wrap
<1>7. ASSUME n < -L PROVE Wrap(Clamp(n, LongSpan), IntSpan) = 0
  <2>1. Clamp(n, LongSpan) = -L
    BY <1>0, <1>3, <1>7 DEF Clamp
  <2>2. -L + h = (-m) * IntSpan + h /\ h \in 0 .. IntSpan - 1
    BY <1>1, <1>2
  <2>3. ((-m) * IntSpan + h) % IntSpan = h
    BY <1>1, <2>2, Residue
  <2> QED
    BY <1>1, <2>1, <2>2, <2>3, <1>0 DEF Wrap
<1>8. ~InSigned(n, LongSpan) => Wrap(Clamp(n, LongSpan), IntSpan) = IF n > 0 THEN -1 ELSE 0
  <2>1. ~InSigned(n, LongSpan) => (n >= L \/ n < -L)
    BY <1>0, <1>3 DEF InSigned
  <2> QED
    BY <1>1, <1>3, <1>6, <1>7, <2>1
<1> QED
  BY <1>4, <1>5, <1>8

-----------------------------------------------------------------------------
(* The map *)

\* A line more: it is the last one for its key, if it gives it a value.
LEMMA GivenAfter ==
  ASSUME file \in Seq(Line), NEW line \in Line, file' = Append(file, line), NEW k
  PROVE /\ Given(k) \subseteq 1 .. Len(file)
        /\ \A i \in Given(k) : file'[i] = file[i]
        /\ file'[Len(file) + 1] = line
        /\ Given(k)' = IF line.key = k /\ line.value.text # "empty"
                       THEN Given(k) \cup {Len(file) + 1} ELSE Given(k)
<1>1. /\ DOMAIN file = 1 .. Len(file) /\ Len(file) \in Nat
      /\ DOMAIN file' = DOMAIN file \cup {Len(file) + 1}
      /\ file'[Len(file) + 1] = line
      /\ \A i \in DOMAIN file : file'[i] = file[i] /\ i # Len(file) + 1
  OBVIOUS
<1>2. Given(k) \subseteq DOMAIN file
  BY DEF Given
<1>3. Given(k)' = {i \in DOMAIN file' : file'[i].key = k /\ file'[i].value.text # "empty"}
  BY DEF Given
<1>4. \A i : i \in Given(k)' <=> \/ i \in Given(k)
                                 \/ i = Len(file) + 1 /\ line.key = k /\ line.value.text # "empty"
  BY <1>1, <1>3 DEF Given
<1> QED
  BY <1>1, <1>2, <1>4

\* A line gives a key and a value, or nothing.
LEMMA LineKinds ==
  ASSUME NEW line \in Line
  PROVE /\ line.value \in Value \cup {Text("empty")}
        /\ line.key \in Keys \/ (line.key = "" /\ line.value.text = "empty")
<1>1. CASE line \in [key : Keys, value : Value]
  BY <1>1
<1>2. CASE line = [key |-> "", value |-> Text("empty")]
  BY <1>2 DEF Text
<1> QED
  BY <1>1, <1>2 DEF Line

\* No setting has the empty name.
LEMMA NamesGiven == \A k \in Names : k # ""
BY DEF Names, Ints, Bools, Texts

\* The map follows the lines.
LEMMA ParseKeeps ==
  ASSUME BaseInv, MapInv, parseConfigLine
  PROVE BaseInv' /\ MapInv'
<1>1. PICK line \in Line :
         /\ file' = Append(file, line)
         /\ IF line.key # "" /\ line.value.text # "empty"
            THEN Remember(line.key, line.value)
            ELSE UNCHANGED mConfigMap
  BY DEF parseConfigLine
<1>2. file \in Seq(Line) /\ phase' = phase
  BY DEF BaseInv, parseConfigLine
<1> DEFINE says == line.key # "" /\ line.value.text # "empty"
<1>3. file' \in Seq(Line)
  <2>1. file' = Append(file, line)
    BY <1>1
  <2> QED
    BY <1>2, <2>1
<1>4. CASE says
  <2>1. line.key \in Keys /\ line.value \in Value
    <3>1. Text("empty").text = "empty"
      BY DEF Text
    <3>2. line.value \in Value \cup {Text("empty")} /\ (line.key \in Keys \/ line.key = "")
      BY LineKinds
    <3> QED
      BY <1>4, <3>1, <3>2
  <2>2. mConfigMap' = [j \in DOMAIN mConfigMap \cup {line.key} |->
                          IF j = line.key THEN line.value ELSE mConfigMap[j]]
    BY <1>1, <1>4 DEF Remember
  <2>3. BaseInv'
    BY <1>2, <1>3, <2>1, <2>2 DEF BaseInv
  <2>4. MapInv'
    <3> SUFFICES ASSUME NEW k \in Names
                 PROVE /\ Mentioned(k)' =>
                            \E i \in Given(k)' : IsLast(i, k)' /\ mConfigMap'[k] = file'[i].value
                       /\ ~Mentioned(k)' => Given(k)' = {}
      BY DEF MapInv
    <3>1. /\ Given(k) \subseteq 1 .. Len(file) /\ Len(file) \in Nat
          /\ \A i \in Given(k) : file'[i] = file[i]
          /\ file'[Len(file) + 1] = line
          /\ Given(k)' = IF line.key = k THEN Given(k) \cup {Len(file) + 1} ELSE Given(k)
      <4>0. Len(file) \in Nat
        BY <1>2
      <4>1. file' = Append(file, line) /\ Len(file) \in Nat
        BY <1>1, <4>0
      <4>2. /\ Given(k) \subseteq 1 .. Len(file)
            /\ \A i \in Given(k) : file'[i] = file[i]
            /\ file'[Len(file) + 1] = line
            /\ Given(k)' = IF line.key = k /\ line.value.text # "empty"
                           THEN Given(k) \cup {Len(file) + 1} ELSE Given(k)
        BY <1>2, <4>1, GivenAfter
      <4> QED
        BY <1>4, <4>1, <4>2
    <3>2. CASE k = line.key
      <4>1. Mentioned(k)' /\ mConfigMap'[k] = line.value
        BY <2>2, <3>2 DEF Mentioned
      <4>2. PICK n \in Nat : n = Len(file) + 1
        BY <3>1
      <4>3. /\ n \in Given(k)'
            /\ \A j \in Given(k)' : n >= j
            /\ file'[n] = line
        BY <3>1, <3>2, <4>2
      <4>4. IsLast(n, k)'
        BY <4>3 DEF IsLast
      <4> QED
        BY <4>1, <4>3, <4>4
    <3>3. CASE k # line.key
      <4>1. Given(k)' = Given(k) /\ (Mentioned(k)' <=> Mentioned(k))
        BY <2>2, <3>1, <3>3 DEF Mentioned
      <4>2. Mentioned(k) => mConfigMap'[k] = mConfigMap[k]
        BY <2>2, <3>3 DEF Mentioned
      <4>3. ASSUME NEW i, IsLast(i, k) PROVE IsLast(i, k)'
        BY <4>1, <4>3 DEF IsLast
      <4> QED
        BY <3>1, <4>1, <4>2, <4>3 DEF MapInv
    <3> QED
      BY <3>2, <3>3
  <2> QED
    BY <2>3, <2>4
<1>5. CASE ~says
  <2>1. mConfigMap' = mConfigMap
    BY <1>1, <1>5
  <2>2. BaseInv'
    BY <1>2, <1>3, <2>1 DEF BaseInv
  <2>3. ASSUME NEW k \in Names
        PROVE Given(k)' = Given(k) /\ \A i \in Given(k) : file'[i] = file[i]
    <3>1. ~(line.key = k /\ line.value.text # "empty")
      BY <1>5, NamesGiven
    <3> QED
      BY <1>1, <1>2, <3>1, GivenAfter
  <2>4. MapInv'
    <3> SUFFICES ASSUME NEW k \in Names
                 PROVE /\ Mentioned(k)' =>
                            \E i \in Given(k)' : IsLast(i, k)' /\ mConfigMap'[k] = file'[i].value
                       /\ ~Mentioned(k)' => Given(k)' = {}
      BY DEF MapInv
    <3>1. Mentioned(k)' <=> Mentioned(k)
      BY <2>1 DEF Mentioned
    <3>2. ASSUME NEW i, IsLast(i, k) PROVE IsLast(i, k)'
      BY <2>3, <3>2 DEF IsLast
    <3> QED
      BY <2>1, <2>3, <3>1, <3>2 DEF MapInv
  <2> QED
    BY <2>2, <2>4
<1> QED
  BY <1>4, <1>5

-----------------------------------------------------------------------------
(* The settings *)

\* The two tables of defaults agree.
LEMMA Tables == DefaultInts = Ints /\ DefaultBools = Bools /\ DefaultTexts = Texts
BY DEF DefaultInts, Ints, DefaultBools, Bools, DefaultTexts, Texts

\* What an empty map makes is what the object is born with.
LEMMA NothingMentioned ==
  ASSUME DOMAIN mConfigMap = {}
  PROVE Settings = Born
<1>1. \A k \in DOMAIN Ints : getInt(k, DefaultInts[k]) = Ints[k]
  BY Tables DEF getInt, Mentioned
<1>2. \A k \in DOMAIN Bools : getBool(k, DefaultBools[k]) = Bools[k]
  BY Tables DEF getBool, Mentioned
<1>3. \A k \in DOMAIN Texts : getString(k, DefaultTexts[k]) = Texts[k]
  BY Tables DEF getString, Mentioned
<1>4. [k \in DOMAIN DefaultInts |-> getInt(k, DefaultInts[k])] = Ints
  <2>1. Ints = [k \in DOMAIN Ints |-> Ints[k]]
    BY DEF Ints
  <2> QED
    BY <1>1, <2>1, Tables
<1>5. [k \in DOMAIN DefaultBools |-> getBool(k, DefaultBools[k])] = Bools
  <2>1. Bools = [k \in DOMAIN Bools |-> Bools[k]]
    BY DEF Bools
  <2> QED
    BY <1>2, <2>1, Tables
<1>6. [k \in DOMAIN DefaultTexts |-> getString(k, DefaultTexts[k])] = Texts
  <2>1. Texts = [k \in DOMAIN Texts |-> Texts[k]]
    BY DEF Texts
  <2> QED
    BY <1>3, <2>1, Tables
<1> QED
  BY <1>4, <1>5, <1>6 DEF Settings, Born

\* A setting comes from the map, or is the default.
LEMMA SettingsOf ==
  /\ DOMAIN Settings.ints = DOMAIN Ints
  /\ DOMAIN Settings.bools = DOMAIN Bools
  /\ \A k \in DOMAIN Ints : Settings.ints[k] = getInt(k, Ints[k])
  /\ \A k \in DOMAIN Bools : Settings.bools[k] = getBool(k, Bools[k])
  /\ \A k \in DOMAIN Texts : Settings.texts[k] = getString(k, Texts[k])
BY Tables DEF Settings

-----------------------------------------------------------------------------
(* The invariant *)

\* Before the file is looked for the map is empty.
LEMMA InitIInv == Init => IInv
<1> SUFFICES ASSUME Init PROVE IInv
  OBVIOUS
<1>1. BaseInv
  BY DEF Init, BaseInv
<1>2. MapInv
  BY DEF Init, MapInv, Mentioned, Given
<1>3. SettingsInv
  BY DEF Init, SettingsInv, Born
<1> QED
  BY <1>1, <1>2, <1>3 DEF IInv

\* Nothing that MapInv is about changes.
LEMMA MapKept ==
  ASSUME MapInv, UNCHANGED <<file, mConfigMap>>
  PROVE MapInv'
BY DEF MapInv, Mentioned, Given, IsLast

\* Every step keeps IInv.
LEMMA IInvStep == IInv /\ [Next]_vars => IInv'
<1> SUFFICES ASSUME IInv, [Next]_vars PROVE IInv'
  OBVIOUS
<1> USE DEF IInv
<1>0. UNCHANGED mConfigMap => Settings' = Settings
  BY DEF Settings, getInt, getBool, getString, Mentioned
<1>1. CASE NotFound
  <2>1. mSettings = Born /\ Settings = Born
    BY <1>1, NothingMentioned DEF NotFound, SettingsInv
  <2> QED
    BY <1>0, <1>1, <2>1, MapKept DEF NotFound, BaseInv, SettingsInv
<1>2. CASE Open
  BY <1>2, MapKept DEF Open, BaseInv, SettingsInv
<1>3. CASE parseConfigLine
  <2>1. SettingsInv'
    BY <1>3 DEF parseConfigLine, SettingsInv
  <2> QED
    BY <1>3, <2>1, ParseKeeps
<1>4. CASE applySettings
  BY <1>0, <1>4, MapKept DEF applySettings, BaseInv, SettingsInv
<1>5. CASE UNCHANGED vars
  BY <1>0, <1>5, MapKept DEF vars, BaseInv, SettingsInv
<1> QED
  BY <1>1, <1>2, <1>3, <1>4, <1>5 DEF Next

\* A value that is a number is an integer; the others count as none.
LEMMA ValueKinds ==
  ASSUME NEW v \in Value
  PROVE /\ v.n \in Int
        /\ v.text = "number" => v = Number(v.n)
        /\ v.text # "number" => v.n = 0 /\ v = Text(v.text)
<1>1. CASE v \in {Number(n) : n \in Numbers}
  BY <1>1, ConfigAssumption DEF Number
<1>2. CASE v \in {Text(t) : t \in {"truth", "other", "empty"}}
  BY <1>2 DEF Text
<1> QED
  BY <1>1, <1>2 DEF Value

\* An int setting is an int, whatever the file says.
LEMMA IntInRange ==
  ASSUME BaseInv, NEW k \in DOMAIN Ints
  PROVE InSigned(getInt(k, Ints[k]), IntSpan)
<1>1. CASE Mentioned(k) /\ mConfigMap[k].text = "number"
  <2>1. mConfigMap[k].n \in Int
    BY <1>1, ValueKinds DEF BaseInv, Mentioned
  <2>2. Clamp(mConfigMap[k].n, LongSpan) \in Int
    BY <2>1, WrapAfterClamp
  <2> QED
    BY <1>1, <2>2, WrapInRange, ConfigAssumption DEF getInt
<1>2. CASE ~(Mentioned(k) /\ mConfigMap[k].text = "number")
  BY <1>2, DefaultsFit DEF getInt
<1> QED
  BY <1>1, <1>2

\* The map has what the last line for a key gives it.
LEMMA MapLast ==
  ASSUME BaseInv, MapInv, NEW k \in Names
  PROVE /\ Mentioned(k) <=> Given(k) # {}
        /\ Mentioned(k) => mConfigMap[k] = LastValue(k) /\ LastValue(k) \in Value
<1>1. CASE ~Mentioned(k)
  BY <1>1 DEF MapInv
<1>2. CASE Mentioned(k)
  <2>1. PICK i \in Given(k) : IsLast(i, k) /\ mConfigMap[k] = file[i].value
    BY <1>2 DEF MapInv
  <2>2. Given(k) \subseteq Int
    BY DEF Given, BaseInv
  <2>3. Max(Given(k)) = i
    <3>1. \A x \in Given(k) : (\A y \in Given(k) : x >= y) => x = i
      BY <2>1, <2>2 DEF IsLast
    <3> QED
      BY <2>1, <3>1 DEF Max, IsLast
  <2>4. mConfigMap[k] \in Value
    BY <1>2 DEF BaseInv, Mentioned
  <2> QED
    BY <1>2, <2>1, <2>3, <2>4 DEF LastValue
<1> QED
  BY <1>1, <1>2

-----------------------------------------------------------------------------
(* Theorems *)

\* IInv holds in every reachable state.
THEOREM Invariance == Spec => []IInv
BY InitIInv, IInvStep, PTL DEF Spec

\* Every variable keeps its type: an int setting is an int of the platform.
THEOREM TypeCorrect == Spec => []ConfigTypeOK
<1>1. IInv => ConfigTypeOK
  <2> SUFFICES ASSUME IInv PROVE ConfigTypeOK
    OBVIOUS
  <2> USE DEF IInv
  <2>1. mSettings \in {Settings, Born}
    BY DEF SettingsInv, BaseInv
  <2>2. \A k \in DOMAIN mSettings.ints : InSigned(mSettings.ints[k], IntSpan)
    <3>1. CASE mSettings = Settings
      BY <3>1, SettingsOf, IntInRange
    <3>2. CASE mSettings = Born
      BY <3>2, DefaultsFit DEF Born
    <3> QED
      BY <2>1, <3>1, <3>2
  <2>3. \A k \in DOMAIN mSettings.bools : mSettings.bools[k] \in BOOLEAN
    <3>1. \A k \in DOMAIN Bools : Bools[k] \in BOOLEAN
      <4>1. DOMAIN Bools = {"enable_aod_notifier", "enable_non_ui_notifier", "enable_auto_recovery"}
        BY DEF Bools
      <4>2. /\ Bools["enable_aod_notifier"] = TRUE
            /\ Bools["enable_non_ui_notifier"] = TRUE
            /\ Bools["enable_auto_recovery"] = TRUE
        BY DEF Bools
      <4> QED
        BY <4>1, <4>2, Zenon
    <3>2. \A k \in DOMAIN Bools : getBool(k, Bools[k]) \in BOOLEAN
      BY <3>1 DEF getBool
    <3>3. CASE mSettings = Settings
      BY <3>2, <3>3, SettingsOf
    <3>4. CASE mSettings = Born
      BY <3>1, <3>4 DEF Born
    <3> QED
      BY <2>1, <3>3, <3>4
  <2> QED
    BY <2>2, <2>3 DEF ConfigTypeOK, BaseInv
<1> QED
  BY <1>1, Invariance, PTL

\* A number in the last line for a setting is the setting, if int can hold it;
\* other text is no reason to go back to an earlier line.
THEOREM LastLineCountsHolds == Spec => []LastLineCounts
<1>1. IInv => LastLineCounts
  <2> SUFFICES ASSUME IInv, phase = "loaded", NEW k \in DOMAIN Ints
               PROVE IF Given(k) # {} /\ LastValue(k).text = "number"
                     THEN InSigned(LastValue(k).n, IntSpan) => mSettings.ints[k] = LastValue(k).n
                     ELSE mSettings.ints[k] = Ints[k]
    BY DEF LastLineCounts
  <2>1. mSettings.ints[k] = getInt(k, Ints[k])
    BY SettingsOf DEF IInv, SettingsInv
  <2>2. /\ Mentioned(k) <=> Given(k) # {}
        /\ Mentioned(k) => mConfigMap[k] = LastValue(k) /\ LastValue(k) \in Value
    BY MapLast DEF IInv, Names
  <2>3. ASSUME Given(k) # {}, LastValue(k).text = "number", InSigned(LastValue(k).n, IntSpan)
        PROVE mSettings.ints[k] = LastValue(k).n
    <3>1. LastValue(k).n \in Int
      BY <2>2, <2>3, ValueKinds
    <3>2. Clamp(LastValue(k).n, LongSpan) = LastValue(k).n
      BY <2>3, <3>1, WrapAfterClamp
    <3>3. Wrap(LastValue(k).n, IntSpan) = LastValue(k).n
      BY <2>3, <3>1, WrapFits, ConfigAssumption
    <3> QED
      BY <2>1, <2>2, <2>3, <3>2, <3>3 DEF getInt
  <2>4. ASSUME ~(Given(k) # {} /\ LastValue(k).text = "number")
        PROVE mSettings.ints[k] = Ints[k]
    BY <2>1, <2>2, <2>4 DEF getInt
  <2> QED
    BY <2>3, <2>4
<1> QED
  BY <1>1, Invariance, PTL

\* A switch or a path is what the last line for it says, or as it was without
\* a file; a switch that does not read as true is off.
THEOREM OtherSettingsHolds == Spec => []OtherSettings
<1>1. IInv => OtherSettings
  <2> SUFFICES ASSUME IInv, phase = "loaded" PROVE OtherSettings
    BY DEF OtherSettings
  <2>1. \A k \in Names : /\ Mentioned(k) <=> Given(k) # {}
                         /\ Mentioned(k) => mConfigMap[k] = LastValue(k) /\ LastValue(k) \in Value
    BY MapLast DEF IInv
  <2>2. mSettings = Settings
    BY DEF IInv, SettingsInv
  <2>3. ASSUME NEW k \in DOMAIN Bools
        PROVE IF Given(k) = {} THEN mSettings.bools[k] = Bools[k]
              ELSE mSettings.bools[k] = (LastValue(k) \in {Text("truth"), Number(1)})
    <3>1. mSettings.bools[k] = getBool(k, Bools[k])
      BY <2>2, SettingsOf
    <3>2. CASE Given(k) = {}
      BY <2>1, <3>1, <3>2 DEF getBool, Names
    <3>3. CASE Given(k) # {}
      <4>1. Mentioned(k) /\ mConfigMap[k] = LastValue(k) /\ LastValue(k) \in Value
        BY <2>1, <3>3 DEF Names
      <4>2. mSettings.bools[k] = (LastValue(k).text = "truth" \/ LastValue(k) = Number(1))
        BY <3>1, <4>1 DEF getBool
      <4>3. LastValue(k).text = "truth" <=> LastValue(k) = Text("truth")
        BY <4>1, ValueKinds DEF Text
      <4> QED
        BY <3>3, <4>2, <4>3
    <3> QED
      BY <3>2, <3>3
  <2>4. ASSUME NEW k \in DOMAIN Texts
        PROVE mSettings.texts[k] = IF Given(k) = {} THEN Texts[k] ELSE LastValue(k)
    <3>1. mSettings.texts[k] = getString(k, Texts[k])
      BY <2>2, SettingsOf
    <3> QED
      BY <2>1, <3>1 DEF getString, Names
  <2> QED
    BY <2>3, <2>4 DEF OtherSettings
<1> QED
  BY <1>1, Invariance, PTL

\* For any widths of int and long: a number that long cannot hold ends as -1 or
\* as 0.
THEOREM HugeNumbersHolds == Spec => []HugeNumbers
<1>1. IInv => HugeNumbers
  <2> SUFFICES ASSUME IInv, phase = "loaded", NEW k \in DOMAIN Ints,
                      Given(k) # {}, ~InSigned(LastValue(k).n, LongSpan)
               PROVE mSettings.ints[k] = IF LastValue(k).n > 0 THEN -1 ELSE 0
    BY DEF HugeNumbers
  <2>1. mSettings.ints[k] = getInt(k, Ints[k])
    BY SettingsOf DEF IInv, SettingsInv
  <2>2. Mentioned(k) /\ mConfigMap[k] = LastValue(k) /\ LastValue(k) \in Value
    BY MapLast DEF IInv, Names
  <2>3. LastValue(k).n \in Int /\ (LastValue(k).text # "number" => LastValue(k).n = 0)
    BY <2>2, ValueKinds
  <2>4. InSigned(0, LongSpan)
    <3>1. PICK m \in Nat : m >= 1 /\ LongSpan \div 2 = m * IntSpan
      BY Widths
    <3>2. m * IntSpan >= 1 * IntSpan
      BY <3>1, ConfigAssumption
    <3>3. LongSpan \div 2 \in Nat /\ LongSpan \div 2 > 0
      BY <3>1, <3>2, ConfigAssumption
    <3> QED
      BY <3>3 DEF InSigned
  <2>5. LastValue(k).text = "number"
    BY <2>3, <2>4
  <2> QED
    BY <2>1, <2>2, <2>3, <2>5, WrapAfterClamp DEF getInt
<1> QED
  BY <1>1, Invariance, PTL
=============================================================================
