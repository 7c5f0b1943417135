----------------------------- MODULE ConfigDiff -----------------------------
(***************************************************************************)
(* What the operator declares, what the bundled exporter reports and how   *)
(* the two are compared (internal/config, hack/mesh-export.py and          *)
(* buildDesiredChannels of the controller).                                *)
(*                                                                         *)
(* A document is the set of the leaves of its nested maps.  A leaf has the *)
(* name of a field, the style its key is written in and its value in the   *)
(* printed, trimmed form scalarEqual compares, so a boolean is a text.     *)
(* Fields that are handled alike form a family: one member of each is      *)
(* enough to tell the families apart.  Of a channel, the uplink and        *)
(* downlink flags are one.                                                 *)
(***************************************************************************)
EXTENDS Integers, Sequences, FiniteSets

CONSTANTS
  EnumFields,  \* region, role: the radio always reports them
  OwnerFields, \* owner, owner_short: reported when not empty
  MqttTexts,   \* address, root, username: reported when not empty
  MqttFlags,   \* json_enabled, encryption_enabled, tls_enabled
  Texts,       \* texts that are not empty
  Keys,        \* explicit channel keys, 16 or 32 bytes
  None         \* no MQTT section, no key, no channel list

NoText == ""
Bools == {"true", "false"}
Shorthand == "0x01"                \* DefaultPSKShorthand
Expanded == "d4f1bb3a...01"        \* defaultPSKExpanded
DefaultKeys == {Shorthand, Expanded}

ASSUME ConfigDiffAssumption ==
  /\ NoText \notin Texts
  /\ Keys \cap (DefaultKeys \cup {NoText}) = {}
  /\ None \notin Keys \cup DefaultKeys \cup {NoText}
  /\ (EnumFields \cup OwnerFields) \cap (MqttTexts \cup MqttFlags) = {}
  /\ MqttTexts \cap MqttFlags = {}
  /\ {"modemPreset", "usePreset", "enabled", "password"}
       \cap (EnumFields \cup OwnerFields \cup MqttTexts \cup MqttFlags) = {}

Fields == EnumFields \cup OwnerFields \cup MqttTexts \cup MqttFlags
            \cup {"modemPreset", "usePreset", "enabled", "password"}

\* The configuration of a radio.
Configs == [Fields -> Texts \cup Bools \cup {NoText}]

\* The declared part of a MeshtasticNode, its password resolved; NoText is undeclared.
MqttSpec == [enabled : Bools, text : [MqttTexts -> Texts \cup {NoText}],
             flag : [MqttFlags -> Bools], password : Texts \cup {NoText}]
Specs == [plain : [EnumFields \cup OwnerFields -> Texts \cup {NoText}],
          preset : Texts \cup {NoText}, mqtt : MqttSpec \cup {None}]

-----------------------------------------------------------------------------
(* The desired document *)

Leaf(name, style, value) == [name |-> name, style |-> style, value |-> value]

Declared(f, names) == {Leaf(n, "snake", f[n]) : n \in {m \in names : f[m] # NoText}}

\* Mutant: the preset alone is declared.
DesiredPresetAlone(s) ==
  IF s.preset = NoText THEN {} ELSE {Leaf("modemPreset", "camel", s.preset)}

\* A node out of preset mode ignores its preset, so the mode is declared too.
DesiredPreset(s) ==
  IF s.preset = NoText THEN {}
  ELSE {Leaf("modemPreset", "camel", s.preset), Leaf("usePreset", "camel", "true")}

\* Mutant: a flag is declared only when it is on.
DesiredFlagsThatAreOn(m) ==
  {Leaf(n, "snake", "true") : n \in {k \in MqttFlags : m.flag[k] = "true"}}

DesiredFlags(m) == {Leaf(n, "snake", m.flag[n]) : n \in MqttFlags}

\* "enabled" is always declared: the operator also turns the module off.
DesiredMqtt(m) ==
  {Leaf("enabled", "snake", m.enabled)} \cup
  IF m.enabled = "false" THEN {}
  ELSE Declared(m.text, MqttTexts) \cup DesiredFlags(m)
         \cup {Leaf("password", "snake", p) : p \in {m.password} \ {NoText}}

BuildDesired(s) ==
  Declared(s.plain, EnumFields \cup OwnerFields) \cup DesiredPreset(s)
    \cup IF s.mqtt = None THEN {} ELSE DesiredMqtt(s.mqtt)

-----------------------------------------------------------------------------
(* The exported document *)

Reported(c, names) == {Leaf(n, "camel", c[n]) : n \in names}
NonEmpty(c, names) == {n \in names : c[n] # NoText}

\* The preset is reported in preset mode only; the MQTT and owner sections are
\* best effort, all or nothing; the password is never reported.
Exported(c, sections) ==
  Reported(c, EnumFields \cup {"usePreset"})
    \cup (IF c["usePreset"] = "true" THEN Reported(c, {"modemPreset"}) ELSE {})
    \cup (IF "mqtt" \in sections
          THEN Reported(c, {"enabled"} \cup MqttFlags \cup NonEmpty(c, MqttTexts)) ELSE {})
    \cup (IF "owner" \in sections THEN Reported(c, NonEmpty(c, OwnerFields)) ELSE {})

-----------------------------------------------------------------------------
(* The comparison *)

\* normKey: the style of a key does not count.
SameKey(a, b) == a.name = b.name

ForComparison(doc) == {e \in doc : e.name # "password"}

\* The declared leaves the live document lacks or has with another value.  Where
\* a whole section is missing the code names the section instead.
Drift(desired, live) ==
  {e.name : e \in {d \in desired : ~\E l \in live : SameKey(d, l) /\ l.value = d.value}}

IsConverged(desired, live) == Drift(desired, live) = {}

-----------------------------------------------------------------------------
(* Channels *)

\* A slot of the radio; one that is off is DISABLED.
Slots == [on : BOOLEAN, name : Texts, psk : Keys \cup DefaultKeys \cup {NoText}, links : BOOLEAN]

\* A declared channel, its Secret read; None is a channel without pskSecretRef.
ChannelSpecs == [index : Nat, name : Texts, key : Keys \cup DefaultKeys \cup {None},
                 links : BOOLEAN]

NormalizePSK(raw) == IF raw \in DefaultKeys THEN Shorthand ELSE raw

\* A digest is the one-tuple of what was hashed, the empty tuple for no key.
PSKHash(raw) == IF raw = NoText THEN <<>> ELSE <<NormalizePSK(raw)>>

RawKey(ch) == IF ch.key = None THEN Shorthand ELSE ch.key

CompareChannel(ch) == [Index |-> ch.index, Name |-> ch.name,
                       PSKHash |-> PSKHash(RawKey(ch)), Links |-> ch.links]

\* The key to write; None asks for the public default, in whatever form it is held.
ChannelWrite(ch) == [Index |-> ch.index, Name |-> ch.name,
                     Key |-> IF ch.key \in DefaultKeys THEN None ELSE ch.key,
                     Links |-> ch.links]

\* The channels of the export; LiveChannels normalises the digests once more.
LiveChannels(slots) ==
  {[Index |-> i, Name |-> slots[i].name, PSKHash |-> PSKHash(slots[i].psk),
    Links |-> slots[i].links] : i \in {j \in DOMAIN slots : slots[j].on}}

\* The declared channels that are missing or differ; others are not ours.
ChannelDrift(desired, live) == {d.Index : d \in desired \ live}
=============================================================================
