------------------------- MODULE PadSettings_proofs -------------------------
(***************************************************************************)
(* Ports and settings, for every port and every file: the byte order of a  *)
(* port is undone by the same conversion, and the pad binds to the port    *)
(* that its file names, or to the default port.                            *)
(***************************************************************************)
EXTENDS PadSettings, Integers, TLAPS

-----------------------------------------------------------------------------
(* Byte order.                                                             *)

\* A port has one representation in bytes.
LEMMA Bytes ==
  ASSUME NEW q \in Nat, NEW r \in 0 .. Base - 1
  PROVE  (q * Base + r) % Base = r /\ (q * Base + r) \div Base = q
<1>1. Base \in Nat /\ Base >= 1
  BY BaseAssumption
<1> DEFINE n == q * Base + r
           d == n \div Base
           m == n % Base
<1>2. n \in Nat
  BY <1>1
<1>3. n = Base * d + m /\ m \in 0 .. Base - 1 /\ d \in Nat
  BY <1>1, <1>2
<1> HIDE DEF d, m
<1>4. Base * (q - d) = m - r
  BY <1>1, <1>2, <1>3
<1>5. ~ (q > d)
  <2>1. q > d => Base * (q - d) >= Base
    BY <1>1, <1>3
  <2> QED BY <2>1, <1>1, <1>3, <1>4
<1>6. ~ (q < d)
  <2>1. q < d => Base * (q - d) <= 0 - Base
    BY <1>1, <1>3
  <2> QED BY <2>1, <1>1, <1>3, <1>4
<1>7. q = d
  BY <1>3, <1>5, <1>6
<1>8. r = m
  BY <1>1, <1>3, <1>4, <1>7
<1> QED BY <1>7, <1>8 DEF d, m

LEMMA PortBytes ==
  ASSUME NEW p \in Ports
  PROVE  \E q \in 0 .. Base - 1, r \in 0 .. Base - 1 : p = q * Base + r
<1> DEFINE q == p \div Base
           r == p % Base
<1>1. Base \in Nat /\ Base >= 1 /\ p \in Nat /\ p < Base * Base
  BY BaseAssumption DEF Ports
<1>2. p = Base * q + r /\ q \in Nat /\ r \in 0 .. Base - 1
  BY <1>1
<1> HIDE DEF q, r
<1>3. q < Base
  <2>1. q >= Base => Base * q >= Base * Base
    BY <1>1, <1>2
  <2> QED BY <1>1, <1>2, <2>1
<1>4. q * Base = Base * q
  BY <1>1, <1>2
<1> QED BY <1>1, <1>2, <1>3, <1>4

\* Two bytes make a port.
LEMMA BytesMakePort ==
  ASSUME NEW q \in 0 .. Base - 1, NEW r \in 0 .. Base - 1
  PROVE  q * Base + r \in Ports
<1>1. Base \in Nat /\ Base >= 1
  BY BaseAssumption
<1>2. q * Base <= (Base - 1) * Base
  BY <1>1
<1>3. q * Base + r \in Nat
  BY <1>1
<1>4. (Base - 1) * Base = Base * Base - Base
  BY <1>1
<1>5. q * Base + r < Base * Base
  BY <1>1, <1>2, <1>3, <1>4
<1> QED BY <1>1, <1>3, <1>5 DEF Ports

\* Whichever side converts a port, the other side reads it back (htons, ntohs).
THEOREM PortRoundTrip ==
  ASSUME NEW p \in Ports
  PROVE  htons(p) \in Ports /\ htons(htons(p)) = p
<1>1. PICK q \in 0 .. Base - 1, r \in 0 .. Base - 1 : p = q * Base + r
  BY PortBytes
<1>2. q \in Nat /\ r \in Nat
  OBVIOUS
<1>3. htons(p) = r * Base + q
  BY <1>1, <1>2, Bytes DEF htons
<1>4. htons(p) \in Ports
  BY <1>3, BytesMakePort
<1>5. htons(r * Base + q) = q * Base + r
  BY <1>2, Bytes DEF htons
<1> QED BY <1>1, <1>3, <1>4, <1>5

\* The port that is not set is the same in both byte orders.
LEMMA NoPort == htons(0) = 0 /\ 0 \in Ports
<1>1. Base \in Nat /\ Base >= 1 /\ Base * Base >= 1
  BY BaseAssumption
<1>2. 0 % Base = 0 /\ 0 \div Base = 0
  BY <1>1
<1> QED BY <1>1, <1>2 DEF htons, Ports

-----------------------------------------------------------------------------
(* Settings.                                                               *)

\* What the pad makes of a port that its settings name, in host byte order.
PortInEffect(p) == IF p = 0 THEN DefaultPort ELSE p

LEMMA CoercedPort ==
  ASSUME NEW family \in {"inet", "inet6"}, NEW p \in Ports
  PROVE  CoercedSettings(PadSetting(family, htons(p))) = PadSetting(family, htons(PortInEffect(p)))
<1> DEFINE s == PadSetting(family, htons(p))
<1>1. s = [family |-> family, port |-> htons(p)] /\ Bindable(s)
  BY DEF PadSetting, Bindable
<1>2. GetPort(s) = p
  BY <1>1, PortRoundTrip DEF GetPort
<1>3. SetPort(s, DefaultPort) = PadSetting(family, htons(DefaultPort))
  BY <1>1 DEF SetPort, PadSetting
<1> HIDE DEF s
<1> QED BY <1>1, <1>2, <1>3 DEF CoercedSettings, PortInEffect, s

\* Settings without a family are those of the default.
LEMMA CoercedCleared == CoercedSettings(Cleared) = CoercedSettings(DefaultSettings)
BY DEF CoercedSettings, Cleared, DefaultSettings, Bindable, PadSetting

LEMMA ValueOfSingleton == \A v : Value({v}) = v
BY DEF Value

\* The settings that a file may leave, and the end point they stand for.
LEMMA SettingsOfFile ==
  ASSUME NEW json \in JsonFiles
  PROVE  LET s == FromJson(json)
             p == IF json.port = Absent THEN 0 ELSE Value(json.port)
         IN /\ p \in Ports
            /\ s = Cleared \/ \E family \in {"inet", "inet6"} : s = PadSetting(family, htons(p))
            /\ \E family \in {"inet", "inet6"} :
                   CoercedSettings(s) = PadSetting(family, htons(PortInEffect(p)))
<1> DEFINE s == FromJson(json)
           p == IF json.port = Absent THEN 0 ELSE Value(json.port)
<1>1. CASE json = NoAddressInJson
  <2>1. s = PadSetting("inet", htons(0)) /\ p = 0
    BY <1>1, NoPort DEF FromJson, DefaultSettings, NoAddressInJson
  <2> HIDE DEF s, p
  <2> QED BY <2>1, NoPort, CoercedPort DEF s, p
<1>2. CASE json.address = TRUE /\ json.port = Absent
  <2>1. s = Cleared /\ p = 0
    BY <1>2 DEF FromJson
  <2>2. CoercedSettings(s) = PadSetting("inet", htons(PortInEffect(0)))
    BY <2>1, CoercedCleared, CoercedPort, NoPort DEF DefaultSettings
  <2> HIDE DEF s, p
  <2> QED BY <2>1, <2>2, NoPort DEF s, p
<1>3. CASE json # NoAddressInJson /\ json.port # Absent
  <2>1. PICK v \in Ports : json.port = {v}
    BY <1>3 DEF JsonFiles, Optional
  <2>2. p = v
    BY <2>1, <1>3, ValueOfSingleton
  <2>3. json.address = TRUE
    BY <1>3 DEF JsonFiles
  <2>4. s = PadSetting(IF json.family = {6} THEN "inet6" ELSE "inet", htons(v))
    BY <1>3, <2>1, <2>3, ValueOfSingleton DEF FromJson
  <2>5. PICK family \in {"inet", "inet6"} : s = PadSetting(family, htons(v))
    BY <2>4
  <2> HIDE DEF s, p
  <2>6. CoercedSettings(s) = PadSetting(family, htons(PortInEffect(v)))
    BY <2>5, CoercedPort
  <2> QED BY <2>2, <2>5, <2>6 DEF s, p
<1> QED BY <1>1, <1>2, <1>3 DEF JsonFiles

\* Settings that are written and read again are the same, if they came from a
\* file with a port or without an address.  An Address without a port clears the
\* family: the registry keeps that, but the JSON that to_json() writes of it has
\* no address, and gives back the default settings, whose socket is of IPv4
\* instead of any family.
THEOREM SettingsRoundTrip ==
  ASSUME NEW json \in JsonFiles
  PROVE  LET s == FromJson(json)
         IN /\ FromJson(ToJson(s)) = IF Bindable(s) THEN s ELSE DefaultSettings
            /\ Load(DefaultSettings, {s.family}, {htons(s.port)}) = s
<1> DEFINE s == FromJson(json)
<1>1. CASE s = Cleared
  <2>1. FromJson(ToJson(Cleared)) = DefaultSettings
    BY DEF FromJson, ToJson, Cleared, NoAddressInJson, PadSetting
  <2>2. Load(DefaultSettings, {Cleared.family}, {htons(Cleared.port)}) = Cleared
    BY ValueOfSingleton DEF Load, Cleared, PadSetting, Absent
  <2>3. ~Bindable(Cleared)
    BY DEF Bindable, Cleared, PadSetting
  <2> HIDE DEF s
  <2> QED BY <1>1, <2>1, <2>2, <2>3 DEF s
<1>2. ASSUME NEW family \in {"inet", "inet6"}, NEW p \in Ports, s = PadSetting(family, htons(p))
      PROVE  /\ FromJson(ToJson(s)) = s /\ Load(DefaultSettings, {s.family}, {htons(s.port)}) = s
             /\ Bindable(s)
  <2>1. s = [family |-> family, port |-> htons(p)]
    BY <1>2 DEF PadSetting
  <2> HIDE DEF s
  <2>2. htons(s.port) = p /\ htons(htons(s.port)) = s.port
    BY <2>1, PortRoundTrip
  <2>3. ToJson(s) = [address |-> TRUE, family |-> IF family = "inet" THEN {4} ELSE {6},
                     port |-> {p}]
    BY <2>1, <2>2 DEF ToJson
  <2>4. FromJson(ToJson(s)) = PadSetting(family, htons(p))
    <3> DEFINE json2 == ToJson(s)
    <3>1. json2.address = TRUE /\ json2.port = {p} /\ (json2.family = {6} <=> family = "inet6")
      BY <2>3
    <3>2. {p} # Absent
      BY DEF Absent
    <3> HIDE DEF json2
    <3>3. FromJson(json2) = PadSetting(family, htons(p))
      BY <3>1, <3>2, ValueOfSingleton DEF FromJson
    <3> QED BY <3>3 DEF json2
  <2>5. Load(DefaultSettings, {s.family}, {htons(s.port)}) = PadSetting(family, htons(p))
    BY <2>1, <2>2, ValueOfSingleton DEF Load, PadSetting, Absent
  <2>6. Bindable(s)
    BY <2>1 DEF Bindable
  <2> QED BY <2>4, <2>5, <2>6, <1>2
<1>3. CASE s # Cleared
  <2> HIDE DEF s
  <2> QED BY <1>2, <1>3, SettingsOfFile DEF s
<1> QED BY <1>1, <1>3
=============================================================================
