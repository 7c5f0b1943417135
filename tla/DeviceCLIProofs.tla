--------------------------- MODULE DeviceCLIProofs ---------------------------
(***************************************************************************)
(* What the device client promises, for every declared spec and channel    *)
(* list, every radio, transport, helper and library, and however often a   *)
(* call is cut short: drift is reported exactly, what was written stays    *)
(* converged, channels are written whole, and errors are told apart.       *)
(***************************************************************************)
EXTENDS DeviceCLI, SequenceTheorems, TLAPS

-----------------------------------------------------------------------------
(* The comparison *)

(***************************************************************************)
(* The leaves of a document, family by family (desired.go FromSpec).       *)
(***************************************************************************)
LEMMA LeafFields ==
  ASSUME NEW n, NEW y, NEW v
  PROVE  Leaf(n, y, v).name = n /\ Leaf(n, y, v).value = v
BY DEF Leaf

LEMMA DeclaredLeaves ==
  ASSUME NEW f, NEW names, NEW e \in Declared(f, names)
  PROVE  e.name \in names /\ e.value = f[e.name] /\ e.value # NoText
<1>1. PICK n \in {m \in names : f[m] # NoText} : e = Leaf(n, "snake", f[n])
  BY DEF Declared
<1>. QED
  BY <1>1, LeafFields

LEMMA PresetLeaves ==
  ASSUME NEW s, NEW e \in DesiredPreset(s)
  PROVE  /\ s.preset # NoText
         /\ \/ e.name = "modemPreset" /\ e.value = s.preset
            \/ e.name = "usePreset" /\ e.value = "true"
<1>1. s.preset # NoText /\ e \in {Leaf("modemPreset", "camel", s.preset), Leaf("usePreset", "camel", "true")}
  BY DEF DesiredPreset
<1>. QED
  BY <1>1, LeafFields

LEMMA MqttLeaves ==
  ASSUME NEW m, NEW e \in DesiredMqtt(m)
  PROVE  \/ e.name = "enabled" /\ e.value = m.enabled
         \/ /\ m.enabled # "false"
            /\ \/ e.name \in MqttTexts /\ e.value = m.text[e.name] /\ e.value # NoText
               \/ e.name \in MqttFlags /\ e.value = m.flag[e.name]
               \/ e.name = "password" /\ e.value = m.password
<1>1. ASSUME e = Leaf("enabled", "snake", m.enabled)
      PROVE  e.name = "enabled" /\ e.value = m.enabled
  BY <1>1, LeafFields
<1>2. ASSUME e \in Declared(m.text, MqttTexts)
      PROVE  e.name \in MqttTexts /\ e.value = m.text[e.name] /\ e.value # NoText
  BY <1>2, DeclaredLeaves
<1>3. ASSUME e \in DesiredFlags(m)
      PROVE  e.name \in MqttFlags /\ e.value = m.flag[e.name]
  <2>1. PICK n \in MqttFlags : e = Leaf(n, "snake", m.flag[n])
    BY <1>3 DEF DesiredFlags
  <2>. QED
    BY <2>1, LeafFields
<1>4. ASSUME e \in {Leaf("password", "snake", p) : p \in {m.password} \ {NoText}}
      PROVE  e.name = "password" /\ e.value = m.password
  BY <1>4, LeafFields
<1>. QED
  BY <1>1, <1>2, <1>3, <1>4 DEF DesiredMqtt

(***************************************************************************)
(* A field is declared once: the document of a spec has one leaf of a name *)
(* (desired.go FromSpec).                                                  *)
(***************************************************************************)
LEMMA DeclaredOnce ==
  ASSUME NEW s \in Specs
  PROVE  /\ \A e \in BuildDesired(s) : e.name \in Fields
         /\ \A e, f \in BuildDesired(s) : e.name = f.name => e.value = f.value
<1>. DEFINE plain  == Declared(s.plain, EnumFields \cup OwnerFields)
            preset == DesiredPreset(s)
            mqtt   == IF s.mqtt = None THEN {} ELSE DesiredMqtt(s.mqtt)
<1>1. \A e \in plain : e.name \in EnumFields \cup OwnerFields /\ e.value = s.plain[e.name]
  BY DeclaredLeaves
<1>2. \A e \in preset : \/ e.name = "modemPreset" /\ e.value = s.preset
                        \/ e.name = "usePreset" /\ e.value = "true"
  BY PresetLeaves
<1>3. \A e \in mqtt : \/ e.name = "enabled" /\ e.value = s.mqtt.enabled
                      \/ e.name \in MqttTexts /\ e.value = s.mqtt.text[e.name]
                      \/ e.name \in MqttFlags /\ e.value = s.mqtt.flag[e.name]
                      \/ e.name = "password" /\ e.value = s.mqtt.password
  BY MqttLeaves
<1>4. BuildDesired(s) = plain \cup preset \cup mqtt
  BY DEF BuildDesired
<1>. HIDE DEF plain, preset, mqtt
<1>5. \A e \in BuildDesired(s) : e.name \in Fields
  BY <1>1, <1>2, <1>3, <1>4 DEF Fields
<1>6. ASSUME NEW e \in BuildDesired(s), NEW f \in BuildDesired(s), e.name = f.name
      PROVE  e.value = f.value
  <2>1. CASE e \in plain
    BY <1>1, <1>2, <1>3, <1>4, <1>6, <2>1, ConfigDiffAssumption
  <2>2. CASE e \in preset
    BY <1>1, <1>2, <1>3, <1>4, <1>6, <2>2, ConfigDiffAssumption
  <2>3. CASE e \in mqtt
    BY <1>1, <1>2, <1>3, <1>4, <1>6, <2>3, ConfigDiffAssumption
  <2>. QED
    BY <1>4, <2>1, <2>2, <2>3
<1>. QED
  BY <1>5, <1>6

(***************************************************************************)
(* Every reported leaf has the radio's own value (mesh-export.py).         *)
(***************************************************************************)
LEMMA ReportedAsHeld ==
  ASSUME NEW c, NEW sections, NEW e \in Exported(c, sections)
  PROVE  e.value = c[e.name]
BY DEF Exported, Reported, Leaf

(***************************************************************************)
(* A radio that holds every declared leaf shows no drift to a whole export *)
(* (diff.go:33-60).                                                        *)
(***************************************************************************)
LEMMA HeldShowsNoDrift ==
  ASSUME NEW s \in Specs, NEW c,
         \A e \in BuildDesired(s) : e.name # "password" => c[e.name] = e.value
  PROVE  IsConverged(ForComparison(BuildDesired(s)), Exported(c, Sections))
<1>. SUFFICES ASSUME NEW e \in BuildDesired(s), e.name # "password"
              PROVE  \E l \in Exported(c, Sections) : l.name = e.name /\ l.value = e.value
  BY DEF IsConverged, Drift, SameKey, ForComparison
<1>1. SUFFICES Leaf(e.name, "camel", c[e.name]) \in Exported(c, Sections)
  <2>1. /\ Leaf(e.name, "camel", c[e.name]).name = e.name
        /\ Leaf(e.name, "camel", c[e.name]).value = e.value
    BY DEF Leaf
  <2>. QED
    BY <1>1, <2>1
<1>. DEFINE n == e.name
<1>2. "mqtt" \in Sections /\ "owner" \in Sections
  BY DEF Sections
<1>3. ASSUME n \in EnumFields \cup {"usePreset", "enabled"} \cup MqttFlags
      PROVE  Leaf(n, "camel", c[n]) \in Exported(c, Sections)
  BY <1>2, <1>3 DEF Exported, Reported
<1>4. ASSUME n \in OwnerFields \cup MqttTexts, c[n] # NoText
      PROVE  Leaf(n, "camel", c[n]) \in Exported(c, Sections)
  BY <1>2, <1>4 DEF Exported, Reported, NonEmpty
<1>5. CASE e \in Declared(s.plain, EnumFields \cup OwnerFields)
  <2>1. n \in EnumFields \cup OwnerFields /\ e.value # NoText
    BY <1>5, DeclaredLeaves
  <2>. QED
    BY <1>3, <1>4, <2>1
<1>6. CASE e \in DesiredPreset(s)
  <2>1. n = "usePreset" \/ n = "modemPreset"
    BY <1>6, PresetLeaves
  <2>2. CASE n = "modemPreset"
    <3>. DEFINE mode == Leaf("usePreset", "camel", "true")
    <3>1. mode \in BuildDesired(s) /\ mode.name = "usePreset" /\ mode.value = "true"
      BY <1>6 DEF DesiredPreset, BuildDesired, Leaf
    <3>2. c["usePreset"] = "true"
      BY <3>1
    <3>. QED
      BY <2>2, <3>2 DEF Exported, Reported
  <2>. QED
    BY <1>3, <2>1, <2>2
<1>7. CASE s.mqtt # None /\ e \in DesiredMqtt(s.mqtt)
  <2>1. \/ n \in {"enabled"} \cup MqttFlags
        \/ n \in MqttTexts /\ e.value # NoText
    BY <1>7, MqttLeaves
  <2>. QED
    BY <1>3, <1>4, <2>1
<1>. QED
  BY <1>5, <1>6, <1>7 DEF BuildDesired

(***************************************************************************)
(* Where the comparison finds no drift the radio holds the declared leaves *)
(* (diff.go:33-60).                                                        *)
(***************************************************************************)
LEMMA NoDriftIsHeld ==
  ASSUME NEW s, NEW c, NEW sections,
         IsConverged(ForComparison(BuildDesired(s)), Exported(c, sections)),
         NEW e \in BuildDesired(s), e.name # "password"
  PROVE  c[e.name] = e.value
<1>1. e \in ForComparison(BuildDesired(s))
  BY DEF ForComparison
<1>2. PICK l \in Exported(c, sections) : SameKey(e, l) /\ l.value = e.value
  BY <1>1 DEF IsConverged, Drift
<1>. QED
  BY <1>2, ReportedAsHeld DEF SameKey

(***************************************************************************)
(* The document says what the spec says (desired.go FromSpec).             *)
(***************************************************************************)
LEMMA HeldIsSatisfied ==
  ASSUME NEW s \in Specs, NEW c
  PROVE  (\A e \in BuildDesired(s) : e.name # "password" => c[e.name] = e.value)
         <=> Satisfies(c, s)
<1>. DEFINE Held == \A e \in BuildDesired(s) : e.name # "password" => c[e.name] = e.value
<1>0. s.mqtt # None => s.mqtt.enabled \in Bools
  BY DEF Specs, MqttSpec
<1>1. ASSUME Held, NEW n, NEW y, NEW v, Leaf(n, y, v) \in BuildDesired(s), n # "password"
      PROVE  c[n] = v
  <2>1. Leaf(n, y, v).name = n /\ Leaf(n, y, v).value = v
    BY LeafFields
  <2>. QED
    BY <1>1, <2>1
<1>. HIDE DEF Held
<1>2. ASSUME Held
      PROVE  Satisfies(c, s)
  <2>1. ASSUME NEW f \in EnumFields \cup OwnerFields, s.plain[f] # NoText
        PROVE  s.plain[f] = c[f]
    <3>1. f # "password" /\ Leaf(f, "snake", s.plain[f]) \in BuildDesired(s)
      BY <2>1, ConfigDiffAssumption DEF BuildDesired, Declared
    <3>. QED
      BY <1>1, <1>2, <3>1
  <2>2. ASSUME s.preset # NoText
        PROVE  c["usePreset"] = "true" /\ c["modemPreset"] = s.preset
    <3>1. /\ Leaf("modemPreset", "camel", s.preset) \in BuildDesired(s)
          /\ Leaf("usePreset", "camel", "true") \in BuildDesired(s)
      BY <2>2 DEF BuildDesired, DesiredPreset
    <3>2. "modemPreset" # "password" /\ "usePreset" # "password"
      OBVIOUS
    <3>. QED
      BY <1>1, <1>2, <3>1, <3>2
  <2>3. ASSUME s.mqtt # None
        PROVE  c["enabled"] = s.mqtt.enabled
    <3>1. Leaf("enabled", "snake", s.mqtt.enabled) \in BuildDesired(s) /\ "enabled" # "password"
      BY <2>3 DEF BuildDesired, DesiredMqtt
    <3>. QED
      BY <1>1, <1>2, <3>1
  <2>4. ASSUME s.mqtt # None, s.mqtt.enabled = "true", NEW f \in MqttTexts,
               s.mqtt.text[f] # NoText
        PROVE  s.mqtt.text[f] = c[f]
    <3>1. f # "password" /\ Leaf(f, "snake", s.mqtt.text[f]) \in BuildDesired(s)
      BY <2>4, ConfigDiffAssumption DEF BuildDesired, DesiredMqtt, Declared
    <3>. QED
      BY <1>1, <1>2, <3>1
  <2>5. ASSUME s.mqtt # None, s.mqtt.enabled = "true", NEW f \in MqttFlags
        PROVE  s.mqtt.flag[f] = c[f]
    <3>1. f # "password" /\ Leaf(f, "snake", s.mqtt.flag[f]) \in BuildDesired(s)
      BY <2>5, ConfigDiffAssumption DEF BuildDesired, DesiredMqtt, DesiredFlags
    <3>. QED
      BY <1>1, <1>2, <3>1
  <2>. QED
    BY <2>1, <2>2, <2>3, <2>4, <2>5 DEF Satisfies
<1>3. ASSUME Satisfies(c, s), NEW e \in BuildDesired(s), e.name # "password"
      PROVE  c[e.name] = e.value
  <2>1. CASE e \in Declared(s.plain, EnumFields \cup OwnerFields)
    BY <1>3, <2>1, DeclaredLeaves DEF Satisfies
  <2>2. CASE e \in DesiredPreset(s)
    BY <1>3, <2>2, PresetLeaves DEF Satisfies
  <2>3. CASE s.mqtt # None /\ e \in DesiredMqtt(s.mqtt)
    BY <1>0, <1>3, <2>3, MqttLeaves DEF Satisfies, Bools
  <2>. QED
    BY <2>1, <2>2, <2>3 DEF BuildDesired
<1>. QED
  BY <1>2, <1>3 DEF Held

(***************************************************************************)
(* The password is a leaf of the document too (desired.go:63-70).          *)
(***************************************************************************)
LEMMA HeldHasPassword ==
  ASSUME NEW s \in Specs, NEW c, \A e \in BuildDesired(s) : c[e.name] = e.value
  PROVE  HasPassword(c, s)
<1>. SUFFICES ASSUME s.mqtt # None, s.mqtt.enabled = "true", s.mqtt.password # NoText
              PROVE  s.mqtt.password = c["password"]
  BY DEF HasPassword
<1>. DEFINE l == Leaf("password", "snake", s.mqtt.password)
<1>1. l \in BuildDesired(s)
  BY DEF BuildDesired, DesiredMqtt
<1>2. l.name = "password" /\ l.value = s.mqtt.password
  BY LeafFields
<1>. QED
  BY <1>1, <1>2

(***************************************************************************)
(* A declared channel is among the live ones exactly when its slot carries *)
(* it, whichever form either side has the default key in                   *)
(* (channels.go:91-123, 218-251).                                          *)
(***************************************************************************)
LEMMA LiveIsCarried ==
  ASSUME NEW ch \in ChannelSpecs, NEW s \in [0..(NSlots - 1) -> Slots]
  PROVE  CompareChannel(ch) \in LiveChannels(s) <=> Carries(s, ch)
<1>. DEFINE i == ch.index
<1>1. ch.key \in Keys \cup DefaultKeys \cup {None} /\ i \in Nat
  BY DEF ChannelSpecs
<1>2. NoText \notin DefaultKeys
  BY Zenon DEF NoText, DefaultKeys, Shorthand, Expanded
<1>3. RawKey(ch) # NoText
  BY <1>1, <1>2, ConfigDiffAssumption DEF RawKey, DefaultKeys
<1>4. ASSUME NEW psk \in Keys \cup DefaultKeys \cup {NoText}
      PROVE  PSKHash(RawKey(ch)) = PSKHash(psk)
             <=> \/ psk = ch.key
                 \/ ch.key \in DefaultKeys \cup {None} /\ psk \in DefaultKeys
  <2>1. PSKHash(RawKey(ch)) = <<NormalizePSK(RawKey(ch))>>
    BY <1>3 DEF PSKHash
  <2>2. CASE psk = NoText
    BY <1>1, <1>2, <2>1, <2>2, ConfigDiffAssumption DEF PSKHash
  <2>3. CASE psk # NoText
    <3>1. PSKHash(RawKey(ch)) = PSKHash(psk) <=> NormalizePSK(RawKey(ch)) = NormalizePSK(psk)
      BY <2>1, <2>3 DEF PSKHash
    <3>2. Shorthand \in DefaultKeys
      BY DEF DefaultKeys
    <3>. QED
      BY <1>1, <3>1, <3>2, ConfigDiffAssumption DEF NormalizePSK, RawKey
  <2>. QED
    BY <2>2, <2>3
<1>. QED
  <2>1. i \in DOMAIN s <=> i < NSlots
    BY <1>1, DeviceCLIAssumption
  <2>2. i \in DOMAIN s => s[i].psk \in Keys \cup DefaultKeys \cup {NoText}
    BY DEF Slots
  <2>. QED
    BY <1>4, <2>1, <2>2 DEF CompareChannel, LiveChannels, Carries

-----------------------------------------------------------------------------
(* The helper of a call *)

(***************************************************************************)
(* What is declared does not change under the client.                      *)
(***************************************************************************)
DeclaredOK == declared \in Declarations

LEMMA HelperInOrderStep ==
  ASSUME HelperInOrder, [Next]_vars
  PROVE  HelperInOrder'
<1>. USE DEF HelperInOrder, Idle
<1>0. UNCHANGED declared => UNCHANGED Writes
  BY DEF Writes
<1>1. CASE ReturnAtOnce \/ FileFails \/ OtherClient
  BY <1>0, <1>1 DEF ReturnAtOnce, FileFails, OtherClient, setup, radio, helper
<1>2. ASSUME NEW o \in Ops, Call(o)
      PROVE  HelperInOrder'
  BY <1>0, <1>2 DEF Call, Ops, setup
<1>3. CASE Return
  BY <1>3 DEF Return
<1>4. CASE Expire \/ Cancel
  BY <1>0, <1>4 DEF Expire, Cancel, setup, radio, helper
<1>5. CASE Kill
  BY <1>5 DEF Kill, End, callVars
<1>6. CASE Spawn
  BY <1>0, <1>6 DEF Spawn, Working, Goto, callVars, setup
<1>7. CASE SpawnFails \/ LinkLost \/ CheckFails
  BY <1>7 DEF SpawnFails, LinkLost, CheckFails, Working, End, callVars
<1>8. CASE Connect
  BY <1>0, <1>8 DEF Connect, Working, Goto, callVars, setup
<1>9. CASE Hang
  BY <1>0, <1>9 DEF Hang, callVars, setup, radio
<1>10. CASE ReadConfig
  BY <1>10 DEF ReadConfig, Working, Goto, callVars
<1>11. CASE WriteSection
  BY <1>11 DEF WriteSection, Working, Goto, callVars
<1>12. CASE WroteSections
  BY <1>12 DEF WroteSections, Working, Goto, callVars
<1>13. CASE Checked
  BY <1>13 DEF Checked, Working, Goto, callVars
<1>14. CASE WriteSlot
  BY <1>14 DEF WriteSlot, Working, Goto, End, callVars
<1>15. CASE WroteSlots
  BY <1>15 DEF WroteSlots, Working, Goto, callVars, setup
<1>16. CASE Commit
  BY <1>16 DEF Commit, Working, End, callVars
<1>17. CASE UNCHANGED vars
  BY <1>0, <1>17 DEF vars, setup, helper
<1>. QED
  BY <1>1, <1>2, <1>3, <1>4, <1>5, <1>6, <1>7, <1>8, <1>9, <1>10, <1>11, <1>12, <1>13,
     <1>14, <1>15, <1>16, <1>17 DEF Next, HelperStep

LEMMA CausesNamedStep ==
  ASSUME HelperInOrder, CausesNamed, [Next]_vars
  PROVE  CausesNamed'
<1>. USE DEF HelperInOrder, CausesNamed, ErrorsToldApart, Idle
<1>1. CASE ReturnAtOnce \/ FileFails
  BY <1>1 DEF ReturnAtOnce, FileFails
<1>2. ASSUME NEW o \in Ops, Call(o)
      PROVE  CausesNamed'
  BY <1>2 DEF Call
<1>3. CASE Return
  <2>1. CASE cause = "none"
    BY <1>3, <2>1 DEF Return
  <2>2. CASE cause # "none" /\ ExecErrorUnreachable
    <3>1. ctx # "expired" =>
            cause \in {"link", "port"} \cup (IF serial THEN {"script"} ELSE {})
      BY <2>2 DEF ExecErrorUnreachable, LooksUnreachable, Printed, ErrorText
    <3>. QED
      BY <1>3, <2>2, <3>1 DEF Return, setup
  <2>3. CASE cause # "none" /\ ~ExecErrorUnreachable
    <3>1. ctx # "expired" /\ cause \notin {"link", "port"}
      BY <2>3 DEF ExecErrorUnreachable, LooksUnreachable, Printed, ErrorText
    <3>. QED
      BY <1>3, <2>3, <3>1 DEF Return, setup
  <2>. QED
    BY <2>1, <2>2, <2>3
<1>4. CASE Expire \/ Cancel
  BY <1>4 DEF Expire, Cancel, setup, helper
<1>5. CASE Kill
  BY <1>5 DEF Kill, End, callVars, setup
<1>6. CASE SpawnFails \/ LinkLost \/ CheckFails
  BY <1>6 DEF SpawnFails, LinkLost, CheckFails, Working, End, callVars, setup
<1>7. CASE Spawn \/ Connect \/ ReadConfig \/ WriteSection \/ WroteSections \/ Checked \/ WroteSlots
  BY <1>7 DEF Spawn, Connect, ReadConfig, WriteSection, WroteSections, Checked, WroteSlots,
              Working, Goto, callVars, setup
<1>8. CASE Hang
  BY <1>8 DEF Hang, callVars, setup
<1>9. CASE WriteSlot
  BY <1>9 DEF WriteSlot, Working, Goto, End, callVars, setup
<1>10. CASE Commit
  BY <1>10 DEF Commit, Working, End, callVars, setup
<1>11. CASE OtherClient
  BY <1>11 DEF OtherClient, setup, helper
<1>12. CASE UNCHANGED vars
  BY <1>12 DEF vars, setup, helper
<1>. QED
  BY <1>1, <1>2, <1>3, <1>4, <1>5, <1>6, <1>7, <1>8, <1>9, <1>10, <1>11, <1>12
     DEF Next, HelperStep
-----------------------------------------------------------------------------
(* What a write leaves *)

(***************************************************************************)
(* A step of a queue takes its head; everything else stays queued.         *)
(***************************************************************************)
LEMMA RestOfQueue ==
  ASSUME NEW S, NEW q \in Seq(S), q # <<>>
  PROVE  /\ Head(q) \in S
         /\ Tail(q) \in Seq(S)
         /\ \A k \in DOMAIN q : q[k] = Head(q) \/ \E j \in DOMAIN Tail(q) : Tail(q)[j] = q[k]
<1>1. /\ Head(q) \in S /\ Tail(q) \in Seq(S) /\ Len(Tail(q)) = Len(q) - 1
      /\ \A i \in 1..Len(Tail(q)) : Tail(q)[i] = q[i + 1]
  BY HeadTailProperties
<1>2. /\ Len(q) \in Nat /\ DOMAIN q = 1..Len(q)
      /\ Len(Tail(q)) \in Nat /\ DOMAIN Tail(q) = 1..Len(Tail(q))
  BY <1>1, LenProperties
<1>3. Len(q) # 0 /\ Head(q) = q[1]
  BY <1>2, EmptySeq
<1>4. ASSUME NEW k \in DOMAIN q, k # 1
      PROVE  \E j \in DOMAIN Tail(q) : Tail(q)[j] = q[k]
  <2>. DEFINE i == k - 1
  <2>1. i \in 1..Len(Tail(q)) /\ i + 1 = k
    BY <1>1, <1>2, <1>4
  <2>. HIDE DEF i
  <2>. QED
    BY <1>1, <1>2, <2>1
<1>. QED
  BY <1>1, <1>3, <1>4

(***************************************************************************)
(* Merging a section sets its declared fields and no others (the CLI's     *)
(* --configure).                                                           *)
(***************************************************************************)
LEMMA MergeHolds ==
  ASSUME NEW s \in Specs, NEW c, NEW names, NEW e \in BuildDesired(s),
         e.name \in names \/ c[e.name] = e.value
  PROVE  Merged(c, BuildDesired(s), names)[e.name] = e.value
<1>. DEFINE chosen == CHOOSE d \in BuildDesired(s) : d.name = e.name
<1>1. e.name \in Fields
  BY DeclaredOnce
<1>2. chosen \in BuildDesired(s) /\ chosen.name = e.name
  OBVIOUS
<1>3. chosen.value = e.value
  BY <1>2, DeclaredOnce
<1>4. Merged(c, BuildDesired(s), names)[e.name]
        = IF e.name \in names THEN chosen.value ELSE c[e.name]
  BY <1>1 DEF Merged
<1>. QED
  BY <1>3, <1>4

(***************************************************************************)
(* Writing a declared channel makes its slot carry it and leaves the slots *)
(* of the others alone (mesh-apply.py apply, pskDirective).                *)
(***************************************************************************)
LEMMA ProvisionCarries ==
  ASSUME NEW ch \in ChannelSpecs, ch.index < NSlots, NEW s \in [0..(NSlots - 1) -> Slots]
  PROVE  /\ Provisioned(s, ChannelWrite(ch)) \in [0..(NSlots - 1) -> Slots]
         /\ Carries(Provisioned(s, ChannelWrite(ch)), ch)
         /\ \A d \in ChannelSpecs : d.index # ch.index /\ Carries(s, d) =>
              Carries(Provisioned(s, ChannelWrite(ch)), d)
<1>. DEFINE psk  == PSKBytes(IF ch.key \in DefaultKeys THEN None ELSE ch.key)
            slot == [on |-> TRUE, name |-> ch.name, psk |-> psk, links |-> ch.links]
<1>1. /\ ch.key \in Keys \cup DefaultKeys \cup {None} /\ ch.index \in Nat
      /\ ch.name \in Texts /\ ch.links \in BOOLEAN
  BY DEF ChannelSpecs
<1>. HIDE DEF psk
<1>2. /\ psk \in Keys \cup DefaultKeys
      /\ \/ psk = ch.key
         \/ ch.key \in DefaultKeys \cup {None} /\ psk \in DefaultKeys
  <2>1. Shorthand \in DefaultKeys
    BY DEF DefaultKeys
  <2>2. CASE ch.key \in DefaultKeys \cup {None}
    <3>1. psk = Shorthand
      BY <2>2 DEF PSKBytes, psk
    <3>. QED
      BY <2>1, <2>2, <3>1
  <2>3. CASE ch.key \notin DefaultKeys \cup {None}
    <3>1. psk = ch.key
      BY <2>3 DEF PSKBytes, psk
    <3>. QED
      BY <1>1, <2>3, <3>1
  <2>. QED
    BY <2>2, <2>3
<1>3. slot \in Slots
  BY <1>1, <1>2 DEF Slots
<1>4. Provisioned(s, ChannelWrite(ch)) = [s EXCEPT ![ch.index] = slot]
  BY DEF Provisioned, ChannelWrite, psk
<1>5. /\ slot.on = TRUE /\ slot.name = ch.name /\ slot.psk = psk /\ slot.links = ch.links
  OBVIOUS
<1>. HIDE DEF slot
<1>6. ch.index \in 0..(NSlots - 1)
  BY <1>1, DeviceCLIAssumption
<1>. DEFINE t == [s EXCEPT ![ch.index] = slot]
<1>7. /\ t \in [0..(NSlots - 1) -> Slots]
      /\ t[ch.index] = slot
      /\ \A i \in 0..(NSlots - 1) : i # ch.index => t[i] = s[i]
  BY <1>3, <1>6
<1>. HIDE DEF t
<1>8. Carries(t, ch)
  BY <1>2, <1>5, <1>7 DEF Carries
<1>9. \A d \in ChannelSpecs : d.index # ch.index /\ Carries(s, d) => Carries(t, d)
  <2>1. \A d \in ChannelSpecs : d.index < NSlots => d.index \in 0..(NSlots - 1)
    BY DeviceCLIAssumption DEF ChannelSpecs
  <2>. QED
    BY <1>7, <2>1 DEF Carries
<1>. QED
  BY <1>4, <1>7, <1>8, <1>9 DEF t

(***************************************************************************)
(* What the assumptions say of the declaration at hand.                    *)
(***************************************************************************)
LEMMA DeclaredFacts ==
  ASSUME DeclaredOK
  PROVE  /\ declared.spec \in Specs
         /\ \A i \in DOMAIN declared.channels : declared.channels[i] \in ChannelSpecs
         /\ \A i, j \in DOMAIN declared.channels :
              declared.channels[i].index = declared.channels[j].index => i = j
         /\ DOMAIN Writes = DOMAIN declared.channels
         /\ \A i \in DOMAIN Writes : Writes[i] = ChannelWrite(declared.channels[i])
         /\ Writes \in Seq({Writes[i] : i \in DOMAIN Writes})
<1>1. declared.spec \in Specs /\ declared.channels \in Seq(ChannelSpecs)
  BY DeviceCLIAssumption DEF DeclaredOK
<1>2. /\ Len(declared.channels) \in Nat
      /\ DOMAIN declared.channels = 1..Len(declared.channels)
      /\ \A i \in DOMAIN declared.channels : declared.channels[i] \in ChannelSpecs
  BY <1>1, LenProperties, ElementOfSeq
<1>3. /\ DOMAIN Writes = DOMAIN declared.channels
      /\ \A i \in DOMAIN Writes : Writes[i] = ChannelWrite(declared.channels[i])
      /\ Writes = [i \in DOMAIN declared.channels |-> Writes[i]]
  BY DEF Writes
<1>4. Writes \in [1..Len(declared.channels) -> {Writes[i] : i \in DOMAIN Writes}]
  BY <1>2, <1>3
<1>5. Writes \in Seq({Writes[i] : i \in DOMAIN Writes})
  BY <1>2, <1>4, SeqDef
<1>. QED
  BY <1>1, <1>2, <1>3, <1>5, DeviceCLIAssumption DEF DeclaredOK

(***************************************************************************)
(* One slot of the list is written: what was in place stays in place, and  *)
(* one more channel is (mesh-apply.py apply).                              *)
(***************************************************************************)
LEMMA SlotWritten ==
  ASSUME DeclaredOK, InRange(Writes), NEW t \in [0..(NSlots - 1) -> Slots],
         NEW w \in {Writes[i] : i \in DOMAIN Writes}
  PROVE  /\ Provisioned(t, w) \in [0..(NSlots - 1) -> Slots]
         /\ \A i \in DOMAIN declared.channels :
              Carries(t, declared.channels[i]) \/ Writes[i] = w =>
                Carries(Provisioned(t, w), declared.channels[i])
<1>1. PICK n \in DOMAIN Writes : w = Writes[n]
  OBVIOUS
<1>2. \A i \in DOMAIN Writes : Writes[i].Index = declared.channels[i].index
  BY DeclaredFacts DEF ChannelWrite
<1>3. /\ n \in DOMAIN declared.channels /\ declared.channels[n] \in ChannelSpecs
      /\ declared.channels[n].index < NSlots
      /\ w = ChannelWrite(declared.channels[n])
  BY <1>1, <1>2, DeclaredFacts DEF InRange
<1>4. /\ Provisioned(t, w) \in [0..(NSlots - 1) -> Slots]
      /\ Carries(Provisioned(t, w), declared.channels[n])
      /\ \A d \in ChannelSpecs : d.index # declared.channels[n].index /\ Carries(t, d) =>
           Carries(Provisioned(t, w), d)
  BY <1>3, ProvisionCarries
<1>5. ASSUME NEW i \in DOMAIN declared.channels,
             Carries(t, declared.channels[i]) \/ Writes[i] = w
      PROVE  Carries(Provisioned(t, w), declared.channels[i])
  <2>1. CASE i = n
    BY <1>4, <2>1
  <2>2. CASE i # n
    <3>1. declared.channels[i].index # declared.channels[n].index
      BY <1>3, <2>2, DeclaredFacts
    <3>2. Writes[i] # w
      BY <1>1, <1>2, <3>1, DeclaredFacts
    <3>. QED
      BY <1>4, <1>5, <3>1, <3>2, DeclaredFacts
  <2>. QED
    BY <2>1, <2>2
<1>. QED
  BY <1>4, <1>5

LEMMA SectionsLeftStep ==
  ASSUME DeclaredOK, HelperInOrder, SectionsLeft, [Next]_vars
  PROVE  SectionsLeft'
<1>. USE DEF SectionsLeft
<1>1. CASE ReturnAtOnce \/ FileFails \/ OtherClient
  BY <1>1 DEF ReturnAtOnce, FileFails, OtherClient, Idle, HelperInOrder, helper
<1>2. CASE \E o \in Ops : Call(o)
  BY <1>2 DEF Call
<1>3. CASE Return \/ Kill \/ SpawnFails \/ LinkLost \/ CheckFails \/ Commit
  BY <1>3 DEF Return, Kill, SpawnFails, LinkLost, CheckFails, Commit, End
<1>4. CASE Expire \/ Cancel \/ Hang \/ UNCHANGED vars
  BY <1>4 DEF Expire, Cancel, Hang, vars, setup, radio, helper, callVars
<1>5. CASE Spawn \/ ReadConfig \/ WroteSections
  BY <1>5 DEF Spawn, ReadConfig, WroteSections, Goto
<1>6. CASE Checked \/ WriteSlot \/ WroteSlots
  BY <1>6 DEF Checked, WriteSlot, WroteSlots, Working, HelperInOrder, callVars
<1>7. CASE Connect
  <2>. SUFFICES ASSUME op = "apply"
                PROVE  SectionsLeft'
    BY <1>7 DEF Connect, callVars
  <2>1. todo' = ConfigSections /\ UNCHANGED declared
    BY <1>7 DEF Connect, Working, HelperInOrder, callVars, setup
  <2>2. ConfigSections \in Seq(SUBSET Fields) /\ DOMAIN ConfigSections = 1..3
    BY DEF ConfigSections, Fields
  <2>3. \A f \in Fields : \E k \in 1..3 : f \in ConfigSections[k]
    BY DEF ConfigSections, Fields
  <2>. QED
    BY <2>1, <2>2, <2>3, DeclaredFacts, DeclaredOnce
<1>8. CASE WriteSection
  <2>. DEFINE doc == BuildDesired(declared.spec)
  <2>1. /\ op = "apply" /\ step = "write" /\ todo # <<>> /\ UNCHANGED <<op, declared>>
        /\ config' = Merged(config, doc, Head(todo)) /\ todo' = Tail(todo)
    BY <1>8 DEF WriteSection, Working, callVars, setup
  <2>2. /\ todo \in Seq(SUBSET Fields)
        /\ \A e \in doc : config[e.name] = e.value \/ \E k \in DOMAIN todo : e.name \in todo[k]
    BY <2>1
  <2>3. /\ Tail(todo) \in Seq(SUBSET Fields)
        /\ \A k \in DOMAIN todo : todo[k] = Head(todo)
                                  \/ \E j \in DOMAIN Tail(todo) : Tail(todo)[j] = todo[k]
    BY <2>1, <2>2, RestOfQueue
  <2>4. ASSUME NEW e \in doc
        PROVE  config'[e.name] = e.value \/ \E j \in DOMAIN Tail(todo) : e.name \in Tail(todo)[j]
    <3>1. \/ config[e.name] = e.value \/ e.name \in Head(todo)
          \/ \E j \in DOMAIN Tail(todo) : e.name \in Tail(todo)[j]
      BY <2>2, <2>3
    <3>2. ASSUME e.name \in Head(todo) \/ config[e.name] = e.value
          PROVE  Merged(config, doc, Head(todo))[e.name] = e.value
      BY <3>2, DeclaredFacts, MergeHolds
    <3>. QED
      BY <2>1, <3>1, <3>2
  <2>. QED
    BY <2>1, <2>3, <2>4
<1>. QED
  BY <1>1, <1>2, <1>3, <1>4, <1>5, <1>6, <1>7, <1>8 DEF Next, HelperStep

LEMMA SlotsLeftStep ==
  ASSUME DeclaredOK, HelperInOrder, SlotsLeft, SettledIsWritten, [Next]_vars
  PROVE  SlotsLeft'
<1>. USE DEF SlotsLeft
<1>0. /\ UNCHANGED declared => UNCHANGED Writes
      /\ UNCHANGED radio /\ UNCHANGED transactions => UNCHANGED Target
  BY DEF Writes, Target, radio
<1>1. CASE ReturnAtOnce \/ FileFails \/ OtherClient
  BY <1>1 DEF ReturnAtOnce, FileFails, OtherClient, Idle, HelperInOrder, helper
<1>2. CASE \E o \in Ops : Call(o)
  BY <1>2 DEF Call
<1>3. CASE Return \/ Kill \/ SpawnFails \/ LinkLost \/ CheckFails \/ Commit
  BY <1>3 DEF Return, Kill, SpawnFails, LinkLost, CheckFails, Commit, End
<1>4. CASE Expire \/ Cancel \/ Hang \/ UNCHANGED vars
  <2>1. UNCHANGED <<setup, radio, op, step, todo>>
    BY <1>4 DEF Expire, Cancel, Hang, vars, helper, callVars
  <2>2. UNCHANGED <<declared, op, step, todo, Writes, Target>>
    BY <1>0, <2>1 DEF setup
  <2>. QED
    BY <2>2 DEF InRange
<1>5. CASE Spawn \/ ReadConfig \/ WroteSections
  BY <1>5 DEF Spawn, ReadConfig, WroteSections, Goto
<1>6. CASE Connect \/ WriteSection
  BY <1>6 DEF Connect, WriteSection, Goto, Working, callVars
<1>7. CASE Checked
  <2>1. /\ todo = Writes /\ InRange(Writes) /\ UNCHANGED <<declared, transactions, slots, todo>>
        /\ staged' = IF transactions THEN slots ELSE None
    BY <1>7 DEF Checked, Working, HelperInOrder, callVars, setup
  <2>2. UNCHANGED Writes /\ Target' = slots
    BY <1>0, <2>1 DEF Target
  <2>. QED
    BY <2>1, <2>2, DeclaredFacts DEF SettledIsWritten, InRange
<1>8. CASE WriteSlot
  <2>1. op = "channels" /\ step = "write" /\ todo # <<>> /\ UNCHANGED <<op, setup>>
    BY <1>8 DEF WriteSlot, Working, callVars
  <2>2. UNCHANGED <<declared, transactions, Writes>>
    BY <1>0, <2>1 DEF setup
  <2>3. /\ Head(todo) \in {Writes[i] : i \in DOMAIN Writes}
        /\ Tail(todo) \in Seq({Writes[i] : i \in DOMAIN Writes})
        /\ \A k \in DOMAIN todo : todo[k] = Head(todo)
                                  \/ \E j \in DOMAIN Tail(todo) : Tail(todo)[j] = todo[k]
    BY <2>1, RestOfQueue
  <2>4. CASE ~InRange(<<Head(todo)>>)
    BY <1>8, <2>4 DEF WriteSlot, End
  <2>5. CASE InRange(<<Head(todo)>>)
    <3>1. todo' = Tail(todo) /\ Target' = Provisioned(Target, Head(todo))
      BY <1>8, <2>2, <2>5 DEF WriteSlot, Target
    <3>2. /\ Provisioned(Target, Head(todo)) \in [0..(NSlots - 1) -> Slots]
          /\ \A i \in DOMAIN declared.channels :
               Carries(Target, declared.channels[i]) \/ Writes[i] = Head(todo) =>
                 Carries(Provisioned(Target, Head(todo)), declared.channels[i])
      BY <2>1, <2>3, SlotWritten
    <3>3. \A i \in DOMAIN declared.channels :
            Carries(Target', declared.channels[i])
              \/ \E j \in DOMAIN Tail(todo) : Tail(todo)[j] = Writes[i]
      BY <2>1, <2>3, <3>1, <3>2
    <3>. QED
      BY <2>1, <2>2, <2>3, <3>1, <3>2, <3>3 DEF InRange
  <2>. QED
    BY <2>4, <2>5
<1>9. CASE WroteSlots
  <2>1. UNCHANGED <<setup, radio, op, todo>> /\ op = "channels" /\ step = "write"
    BY <1>9 DEF WroteSlots, Working, callVars
  <2>2. UNCHANGED <<declared, op, todo, Writes, Target>>
    BY <1>0, <2>1 DEF setup
  <2>. QED
    BY <2>1, <2>2 DEF InRange
<1>. QED
  BY <1>1, <1>2, <1>3, <1>4, <1>5, <1>6, <1>7, <1>8, <1>9 DEF Next, HelperStep

LEMMA AccomplishedStep ==
  ASSUME DeclaredOK, HelperInOrder, CausesNamed, SectionsLeft, SlotsLeft, Accomplished,
         [Next]_vars
  PROVE  Accomplished'
<1>. USE DEF Accomplished
<1>1. CASE ReturnAtOnce \/ FileFails \/ OtherClient
  BY <1>1 DEF ReturnAtOnce, FileFails, OtherClient, Idle, HelperInOrder, helper
<1>2. CASE (\E o \in Ops : Call(o)) \/ Return
  BY <1>2 DEF Call, Return
<1>3. CASE Kill \/ SpawnFails \/ LinkLost \/ CheckFails
  BY <1>3 DEF Kill, SpawnFails, LinkLost, CheckFails, End
<1>4. CASE Expire \/ Cancel \/ Hang \/ UNCHANGED vars
  <2>1. UNCHANGED <<declared, config, slots, op, step, cause, live>>
    BY <1>4 DEF Expire, Cancel, Hang, vars, setup, radio, helper, callVars
  <2>. QED
    BY <2>1 DEF Configured, CarriesAll
<1>5. CASE Spawn \/ WriteSection \/ Checked
  BY <1>5 DEF Spawn, WriteSection, Checked, Goto
<1>6. CASE Connect
  BY <1>6 DEF Connect, Goto, callVars
<1>7. CASE ReadConfig
  <2>1. op = "export" /\ UNCHANGED <<op, config, slots>>
    BY <1>7 DEF ReadConfig, Working, HelperInOrder, callVars, radio
  <2>2. /\ live'.doc = Exported(Streamed(config, live'.unset), Sections \ live'.missing)
        /\ live'.channels \in {None, LiveChannels(slots)}
    BY <1>7 DEF ReadConfig
  <2>. QED
    BY <2>1, <2>2
<1>8. CASE WroteSections
  <2>1. op = "apply" /\ step = "write" /\ todo = <<>> /\ UNCHANGED <<op, config, declared>>
    BY <1>8 DEF WroteSections, Working, callVars, setup, radio
  <2>2. Configured(config)
    BY <2>1 DEF SectionsLeft, Configured
  <2>. QED
    BY <2>1, <2>2 DEF Configured
<1>9. CASE WroteSlots
  <2>1. /\ op = "channels" /\ step = "write" /\ todo = <<>>
        /\ UNCHANGED <<op, slots, declared>>
        /\ step' = IF transactions THEN "commit" ELSE "exit"
    BY <1>9 DEF WroteSlots, Working, Goto, callVars, setup, radio
  <2>2. \A i \in DOMAIN declared.channels : Carries(Target, declared.channels[i])
    BY <2>1 DEF SlotsLeft
  <2>. QED
    BY <2>1, <2>2 DEF Target, CarriesAll
<1>10. CASE WriteSlot
  BY <1>10 DEF WriteSlot, Goto, End
<1>11. CASE Commit
  <2>1. /\ op = "channels" /\ step = "commit" /\ todo = <<>> /\ transactions
        /\ UNCHANGED <<op, declared>> /\ slots' = staged
    BY <1>11 DEF Commit, Working, HelperInOrder, callVars, setup
  <2>2. \A i \in DOMAIN declared.channels : Carries(staged, declared.channels[i])
    BY <2>1 DEF SlotsLeft, Target
  <2>. QED
    BY <2>1, <2>2 DEF CarriesAll
<1>. QED
  BY <1>1, <1>2, <1>3, <1>4, <1>5, <1>6, <1>7, <1>8, <1>9, <1>10, <1>11 DEF Next, HelperStep

LEMMA SettledIsWrittenStep ==
  ASSUME DeclaredOK, HelperInOrder, SectionsLeft, SlotsLeft, Accomplished, SettledIsWritten,
         [Next]_vars
  PROVE  SettledIsWritten'
<1>. USE DEF SettledIsWritten
<1>1. ASSUME UNCHANGED <<declared, config, slots, settled>>
      PROVE  SettledIsWritten'
  BY <1>1 DEF Configured, CarriesAll
<1>2. CASE \/ ReturnAtOnce \/ FileFails \/ (\E o \in Ops : Call(o))
           \/ Expire \/ Cancel \/ UNCHANGED vars
  <2>1. UNCHANGED <<declared, config, slots, settled>>
    BY <1>2 DEF ReturnAtOnce, FileFails, Call, Expire, Cancel, vars, setup, radio
  <2>. QED
    BY <1>1, <2>1
<1>3. CASE \/ Kill \/ SpawnFails \/ LinkLost \/ CheckFails \/ Hang \/ Spawn \/ Connect
           \/ ReadConfig \/ WroteSections \/ WroteSlots \/ Checked
  <2>1. UNCHANGED <<declared, config, slots, settled>>
    BY <1>3 DEF Kill, SpawnFails, LinkLost, CheckFails, Hang, Spawn, Connect, ReadConfig,
                WroteSections, WroteSlots, Checked, callVars, setup, radio
  <2>. QED
    BY <1>1, <2>1
<1>4. CASE Return
  <2>1. /\ step = "exit" /\ UNCHANGED <<declared, config, slots>>
        /\ settled' = IF cause = "none" THEN settled \cup ({op} \cap {"apply", "channels"})
                      ELSE settled
    BY <1>4 DEF Return, setup, radio
  <2>2. /\ "apply" \in settled' => Configured(config)
        /\ "channels" \in settled' => CarriesAll(slots)
    BY <2>1 DEF Accomplished
  <2>. QED
    BY <2>1, <2>2 DEF Configured, CarriesAll
<1>5. CASE OtherClient
  BY <1>5, DeviceCLIAssumption DEF OtherClient
<1>6. CASE WriteSection
  <2>. DEFINE doc == BuildDesired(declared.spec)
  <2>1. /\ config' = Merged(config, doc, Head(todo)) /\ UNCHANGED <<declared, slots, settled>>
    BY <1>6 DEF WriteSection, callVars, setup
  <2>2. ASSUME NEW e \in doc, config[e.name] = e.value
        PROVE  config'[e.name] = e.value
    <3>1. Merged(config, doc, Head(todo))[e.name] = e.value
      BY <2>2, DeclaredFacts, MergeHolds
    <3>. QED
      BY <2>1, <3>1
  <2>. QED
    BY <2>1, <2>2 DEF Configured, CarriesAll
<1>7. CASE WriteSlot
  <2>1. /\ op = "channels" /\ step = "write" /\ todo # <<>>
        /\ UNCHANGED <<declared, config, settled>>
        /\ slots' = slots \/ (slots' = Provisioned(slots, Head(todo)))
    BY <1>7 DEF WriteSlot, Working, callVars, setup
  <2>2. Head(todo) \in {Writes[i] : i \in DOMAIN Writes}
    BY <2>1, RestOfQueue DEF SlotsLeft
  <2>3. /\ Provisioned(slots, Head(todo)) \in [0..(NSlots - 1) -> Slots]
        /\ \A i \in DOMAIN declared.channels : Carries(slots, declared.channels[i]) =>
             Carries(Provisioned(slots, Head(todo)), declared.channels[i])
    BY <2>1, <2>2, SlotWritten DEF SlotsLeft
  <2>. QED
    BY <2>1, <2>3 DEF Configured, CarriesAll
<1>8. CASE Commit
  <2>1. /\ op = "channels" /\ step = "commit" /\ todo = <<>> /\ transactions
        /\ UNCHANGED <<declared, config, settled>> /\ slots' = staged
    BY <1>8 DEF Commit, Working, HelperInOrder, callVars, setup
  <2>2. /\ staged \in [0..(NSlots - 1) -> Slots]
        /\ \A i \in DOMAIN declared.channels : Carries(staged, declared.channels[i])
    BY <2>1 DEF SlotsLeft, Target
  <2>. QED
    BY <2>1, <2>2 DEF Configured, CarriesAll
<1>. QED
  BY <1>2, <1>3, <1>4, <1>5, <1>6, <1>7, <1>8 DEF Next, HelperStep

-----------------------------------------------------------------------------
(* Theorems *)

ClientInOrder == DeclaredOK /\ HelperInOrder /\ CausesNamed /\ WritesLand

(***************************************************************************)
(* Wherever a helper is and however it ends, it has written what it no     *)
(* longer has to write, a helper that ended well has written everything,   *)
(* and why it ended is known (cli.go, mesh-apply.py).                      *)
(***************************************************************************)
THEOREM ClientKeepsOrder == Spec => []ClientInOrder
<1>1. Init => ClientInOrder
  <2>. SUFFICES ASSUME Init
                PROVE  ClientInOrder
    OBVIOUS
  <2>1. DeclaredOK /\ HelperInOrder /\ CausesNamed
    BY DEF Init, DeclaredOK, HelperInOrder, CausesNamed, ErrorsToldApart
  <2>2. SectionsLeft /\ SlotsLeft /\ Accomplished /\ SettledIsWritten
    BY DeviceCLIAssumption DEF Init, SectionsLeft, SlotsLeft, Accomplished, SettledIsWritten
  <2>. QED
    BY <2>1, <2>2 DEF ClientInOrder, WritesLand
<1>2. ClientInOrder /\ [Next]_vars => ClientInOrder'
  <2>. SUFFICES ASSUME ClientInOrder, [Next]_vars
                PROVE  ClientInOrder'
    OBVIOUS
  <2>1. DeclaredOK'
    BY DEF ClientInOrder, DeclaredOK, Next, HelperStep, vars, setup, callVars, ReturnAtOnce,
           FileFails, Call, Return, Expire, Cancel, Kill, Spawn, SpawnFails, Connect, LinkLost,
           Hang, ReadConfig, WriteSection, WroteSections, CheckFails, Checked, WriteSlot,
           WroteSlots, Commit, OtherClient
  <2>. QED
    BY <2>1, HelperInOrderStep, CausesNamedStep, SectionsLeftStep, SlotsLeftStep,
       AccomplishedStep, SettledIsWrittenStep DEF ClientInOrder, WritesLand
<1>. QED
  BY <1>1, <1>2, PTL DEF Spec

(***************************************************************************)
(* Errors are told apart over either transport, whatever the helper is     *)
(* (cli.go:90-96, 127-133).                                                *)
(***************************************************************************)
THEOREM ErrorsAreToldApart == Spec => []ErrorsToldApart
<1>1. ClientInOrder => ErrorsToldApart
  BY DEF ClientInOrder, CausesNamed
<1>. QED
  BY <1>1, ClientKeepsOrder, PTL

(***************************************************************************)
(* What was written with success stays on the radio, and no later whole    *)
(* export shows it as drift, however many calls fail in between            *)
(* (desired.go:24-30, diff.go:55-67, mesh-apply.py:150-162).               *)
(***************************************************************************)
THEOREM WrittenStays == Spec => []WrittenStaysConverged
<1>1. ClientInOrder => WrittenStaysConverged
  <2>. SUFFICES ASSUME ClientInOrder
                PROVE  WrittenStaysConverged
    OBVIOUS
  <2>1. /\ "apply" \in settled => Configured(config)
        /\ "channels" \in settled => CarriesAll(slots)
    BY DEF ClientInOrder, WritesLand, SettledIsWritten
  <2>2. declared.spec \in Specs
    BY DeclaredFacts DEF ClientInOrder
  <2>3. ASSUME Configured(config)
        PROVE  /\ IsConverged(ForComparison(BuildDesired(declared.spec)),
                              Exported(config, Sections))
               /\ HasPassword(config, declared.spec)
    BY <2>2, <2>3, HeldShowsNoDrift, HeldHasPassword DEF Configured
  <2>. QED
    BY <2>1, <2>3 DEF WrittenStaysConverged
<1>. QED
  BY <1>1, ClientKeepsOrder, PTL

(***************************************************************************)
(* The comparison reports a drift when there is one and none when there is *)
(* none, for every spec, radio and set of reported sections                *)
(* (diff.go:33-60, channels.go:91-123).                                    *)
(***************************************************************************)
THEOREM DriftReportedExactly == Spec => []DriftIsExact
<1>1. ClientInOrder => DriftIsExact
  <2>. SUFFICES ASSUME ClientInOrder, ExportReturned
                PROVE  LET converged == IsConverged(ForComparison(BuildDesired(declared.spec)),
                                                    live.doc) IN
                       /\ converged => Satisfies(Streamed(config, live.unset), declared.spec)
                       /\ Satisfies(config, declared.spec) /\ live.missing \cup live.unset = {}
                            => converged
                       /\ live.channels # None =>
                            (ChannelDrift(CompareChannels, live.channels) = {}
                               <=> CarriesAll(slots))
    BY DEF DriftIsExact
  <2>1. /\ live.doc = Exported(Streamed(config, live.unset), Sections \ live.missing)
        /\ live.channels \in {None, LiveChannels(slots)}
        /\ slots \in [0..(NSlots - 1) -> Slots]
    BY DEF ExportReturned, ClientInOrder, WritesLand, Accomplished, SettledIsWritten
  <2>2. /\ declared.spec \in Specs
        /\ \A i \in DOMAIN declared.channels : declared.channels[i] \in ChannelSpecs
    BY DeclaredFacts DEF ClientInOrder
  <2>. DEFINE doc == BuildDesired(declared.spec)
              converged == IsConverged(ForComparison(doc), live.doc)
  <2>3. ASSUME converged
        PROVE  Satisfies(Streamed(config, live.unset), declared.spec)
    <3>1. \A e \in doc : e.name # "password" => Streamed(config, live.unset)[e.name] = e.value
      BY <2>1, <2>3, NoDriftIsHeld
    <3>. QED
      BY <2>2, <3>1, HeldIsSatisfied
  <2>4. ASSUME Satisfies(config, declared.spec), live.missing \cup live.unset = {}
        PROVE  converged
    <3>1. \A e \in doc : e.name # "password" => config[e.name] = e.value
      BY <2>2, <2>4, HeldIsSatisfied
    <3>2. live.doc = Exported(config, Sections)
      <4>1. live.missing = {} /\ live.unset = {}
        BY <2>4
      <4>. QED
        BY <2>1, <4>1 DEF Streamed
    <3>. QED
      BY <2>2, <3>1, <3>2, HeldShowsNoDrift
  <2>5. ASSUME live.channels # None
        PROVE  ChannelDrift(CompareChannels, live.channels) = {} <=> CarriesAll(slots)
    <3>1. ChannelDrift(CompareChannels, live.channels) = {}
            <=> \A i \in DOMAIN declared.channels :
                  CompareChannel(declared.channels[i]) \in live.channels
      BY DEF ChannelDrift, CompareChannels
    <3>2. live.channels = LiveChannels(slots)
      BY <2>1, <2>5
    <3>3. \A i \in DOMAIN declared.channels :
            CompareChannel(declared.channels[i]) \in LiveChannels(slots)
              <=> Carries(slots, declared.channels[i])
      BY <2>1, <2>2, LiveIsCarried
    <3>. QED
      BY <3>1, <3>2, <3>3 DEF CarriesAll
  <2>. QED
    BY <2>3, <2>4, <2>5
<1>. QED
  BY <1>1, ClientKeepsOrder, PTL

(***************************************************************************)
(* No list with a slot the radio does not have writes any slot, and with   *)
(* settings transactions every list is written whole or not at all, for    *)
(* every number of slots (mesh-apply.py:135-171).                          *)
(***************************************************************************)
THEOREM WholeOrNothing == Spec => AllOrNothing
<1>1. ClientInOrder /\ [Next]_vars
        => [slots' # slots /\ op = "channels" =>
              /\ \A i \in DOMAIN declared.channels : declared.channels[i].index < NSlots
              /\ transactions => CarriesAll(slots')]_vars
  <2>. SUFFICES ASSUME ClientInOrder, Next, slots' # slots, op = "channels"
                PROVE  /\ \A i \in DOMAIN declared.channels : declared.channels[i].index < NSlots
                       /\ transactions => CarriesAll(slots')
    OBVIOUS
  <2>1. WriteSlot \/ Commit
    BY DEF Next, HelperStep, setup, radio, callVars, ReturnAtOnce, FileFails, Call, Return,
           Expire, Cancel, Kill, Spawn, SpawnFails, Connect, LinkLost, Hang, ReadConfig,
           WriteSection, WroteSections, CheckFails, Checked, WroteSlots, OtherClient, Idle
  <2>2. step \in {"write", "commit"} /\ SlotsLeft
    BY <2>1 DEF WriteSlot, Commit, Working, ClientInOrder, WritesLand
  <2>3. \A i \in DOMAIN declared.channels : declared.channels[i].index < NSlots
    BY <2>2, DeclaredFacts DEF SlotsLeft, InRange, ChannelWrite, ClientInOrder
  <2>4. ASSUME transactions
        PROVE  CarriesAll(slots')
    <3>1. Commit
      BY <2>1, <2>4 DEF WriteSlot, End
    <3>2. slots' = staged /\ todo = <<>>
      BY <3>1 DEF Commit, Working, ClientInOrder, HelperInOrder
    <3>3. \A i \in DOMAIN declared.channels : Carries(staged, declared.channels[i])
      BY <2>2, <2>4, <3>2 DEF SlotsLeft, Target
    <3>. QED
      BY <3>2, <3>3 DEF CarriesAll
  <2>. QED
    BY <2>3, <2>4
<1>. QED
  BY <1>1, ClientKeepsOrder, PTL DEF Spec, AllOrNothing
=============================================================================
