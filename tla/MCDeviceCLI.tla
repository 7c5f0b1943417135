---------------------------- MODULE MCDeviceCLI ----------------------------
(* Instances of the device client for TLC: one field of each family. *)
EXTENDS DeviceCLI

Plain(region, owner) == [f \in {"region", "owner"} |-> IF f = "region" THEN region ELSE owner]

Mqtt(enabled, root, json, password) ==
  [enabled |-> enabled, text |-> [f \in {"root"} |-> root],
   flag |-> [f \in {"json_enabled"} |-> json], password |-> password]

\* Nothing, everything, a flag that is off, MQTT turned off, a preset alone.
DeclaredSpecs ==
  {[plain |-> Plain("", ""), preset |-> "", mqtt |-> None],
   [plain |-> Plain("a", "a"), preset |-> "a", mqtt |-> Mqtt("true", "a", "true", "a")],
   [plain |-> Plain("", ""), preset |-> "", mqtt |-> Mqtt("true", "", "false", "b")],
   [plain |-> Plain("b", ""), preset |-> "", mqtt |-> Mqtt("false", "a", "true", "a")],
   [plain |-> Plain("", ""), preset |-> "b", mqtt |-> None]}

Channel(index, key) == [index |-> index, name |-> "a", key |-> key, links |-> TRUE]

\* The default key omitted and written out, an explicit key, a slot too many.
DeclaredChannels ==
  {<<>>, <<Channel(0, None), Channel(1, "k1")>>, <<Channel(1, Expanded)>>,
   <<Channel(0, "k1"), Channel(2, None)>>}

\* A spec with channels, each spec without and each channel list without a spec.
MCDeclarations ==
  {[spec |-> s, channels |-> <<Channel(0, None), Channel(1, "k1")>>] : s \in DeclaredSpecs}
    \cup {[spec |-> s, channels |-> c] : s \in {t \in DeclaredSpecs : t.preset = "b"},
                                          c \in DeclaredChannels}

Radio(mode, json, owner, v) ==
  [f \in {"region", "owner", "root", "json_enabled", "modemPreset", "usePreset",
          "enabled", "password"} |->
     CASE f = "usePreset" -> mode [] f = "json_enabled" -> json [] f = "owner" -> owner
       [] f = "enabled" -> "true" [] OTHER -> v]

\* In and out of preset mode, with an empty owner, a flag left on, as declared.
MCRadioConfigs ==
  {Radio("true", "true", "a", "a"), Radio("false", "false", "", "b"),
   Radio("true", "true", "", "b")}

Slot(psk) == [on |-> TRUE, name |-> "a", psk |-> psk, links |-> TRUE]
Disabled == [on |-> FALSE, name |-> "b", psk |-> "", links |-> FALSE]

\* As delivered, with the default key in its long form, without a key.
MCRadioSlots ==
  {[i \in 0..1 |-> IF i = 0 THEN Slot(Shorthand) ELSE Disabled],
   [i \in 0..1 |-> Slot(IF i = 0 THEN Expanded ELSE "k1")],
   [i \in 0..1 |-> Slot("")]}
=============================================================================
