----------------------------- MODULE DeviceCLI -----------------------------
(***************************************************************************)
(* The device client that drives a radio through helper processes          *)
(* (device/cli.go), with the helpers: the Meshtastic CLI (external),       *)
(* hack/mesh-export.py and hack/mesh-apply.py.                             *)
(*                                                                         *)
(* A caller makes one call at a time.  The helper of the call runs beside  *)
(* the caller's context, which expires or is cancelled whenever it likes;  *)
(* the process is then killed where it stands.  Files, YAML and JSON are   *)
(* left out; what a helper prints is kept as far as looksUnreachable reads *)
(* it.  Reboots are part of the radio of Converge.                         *)
(***************************************************************************)
EXTENDS ConfigDiff

CONSTANTS
  NSlots,    \* channel slots of the radio
  Declarations, \* what may be declared: [spec, channels]
  RadioConfigs, \* configurations the radio may have
  RadioSlots,   \* channel sets the radio may have
  MaxCalls,  \* bounds of the model: calls of the client,
  MaxFaults  \* and things going wrong in their environment

ASSUME DeviceCLIAssumption ==
  /\ NSlots \in Nat \ {0} /\ MaxCalls \in Nat /\ MaxFaults \in Nat
  /\ Declarations \subseteq [spec : Specs, channels : Seq(ChannelSpecs)]
  /\ \A d \in Declarations : \A i, j \in DOMAIN d.channels :
       d.channels[i].index = d.channels[j].index => i = j  \* listMapKey=index
  /\ RadioConfigs \subseteq Configs
  /\ RadioSlots \subseteq [0..(NSlots - 1) -> Slots]

VARIABLES
  declared,     \* the spec and the channels the caller reconciles
  serial,       \* the transport: USB serial or TCP
  bundled,      \* Exporter and Applier are set to the bundled helpers
  transactions, \* the meshtastic library has settings transactions
  config,       \* the radio's configuration
  slots,        \* and its channels
  staged,       \* the slots written in the open transaction, None without one
  op,           \* the call under way, "none" without one
  step,         \* where its helper is
  hung,         \* the helper makes no progress any more
  todo,         \* what the helper has yet to write
  ctx,          \* the context of the call
  cause,        \* why the helper ended, "none" after a success
  result,       \* what the last call returned
  live,         \* the last export: [doc, channels, missing, unset]
  settled,      \* history: what was written with success and not edited since
  calls, faults

setup == <<declared, serial, bundled, transactions>>
radio == <<config, slots, staged>>
helper == <<step, hung, todo, cause>>
vars == <<setup, radio, helper, op, ctx, result, live, settled, calls, faults>>

Ops == {"export", "apply", "channels", "info", "reboot"}
Sections == {"mqtt", "owner", "channels"}

Init ==
  /\ declared \in Declarations
  /\ serial \in BOOLEAN /\ bundled \in BOOLEAN /\ transactions \in BOOLEAN
  /\ config \in RadioConfigs /\ slots \in RadioSlots /\ staged = None
  /\ op = "none" /\ step = "idle" /\ hung = FALSE /\ todo = <<>>
  /\ ctx = "live" /\ cause = "none" /\ result = "none" /\ live = None
  /\ settled = {} /\ calls = 0 /\ faults = 0

Fault == faults < MaxFaults /\ faults' = faults + 1

-----------------------------------------------------------------------------
(* What is written *)

\* The CLI writes a document section by section.
ConfigSections == <<OwnerFields, {"enabled", "password"} \cup MqttTexts \cup MqttFlags,
                    EnumFields \cup {"modemPreset", "usePreset"}>>

Merged(c, doc, names) ==
  [f \in Fields |-> IF f \in names /\ \E e \in doc : e.name = f
                    THEN (CHOOSE e \in doc : e.name = f).value
                    ELSE c[f]]

\* pskDirective, and psk_bytes of what it makes: base64 there and back.
PSKBytes(key) == IF key = None THEN Shorthand ELSE key

\* A slot is written whole.
Provisioned(s, w) ==
  [s EXCEPT ![w.Index] = [on |-> TRUE, name |-> w.Name, psk |-> PSKBytes(w.Key),
                          links |-> w.Links]]

Writes == [i \in DOMAIN declared.channels |-> ChannelWrite(declared.channels[i])]

InRange(ws) == \A i \in DOMAIN ws : ws[i].Index < NSlots

-----------------------------------------------------------------------------
(* Telling errors apart *)

\* The phrase looksUnreachable finds in what the helper printed, and in the error
\* of starting or waiting for it.
Printed(c) == CASE c = "link" -> "connection"
                [] c \in {"port", "script"} -> "no such file"
                [] OTHER -> "nothing"
ErrorText(c) == IF c = "binary" THEN "no such file" ELSE "nothing"

\* Mutant: a port that does not open is a reboot over any transport.
LooksUnreachableAnywhere(phrase, onSerial) == phrase \in {"connection", "no such file"}

LooksUnreachable(phrase, onSerial) ==
  phrase = "connection" \/ (onSerial /\ phrase = "no such file")

ExecErrorUnreachable ==
  \/ ctx = "expired"
  \/ LooksUnreachable(Printed(cause), serial)
  \/ LooksUnreachable(ErrorText(cause), FALSE)

-----------------------------------------------------------------------------
(* The client *)

Idle == op = "none"

\* ApplyChannels returns at once when there is nothing to write, and with an
\* error when no applier is configured.
Refused(o) == o = "channels" /\ (Writes = <<>> \/ ~bundled)

ReturnAtOnce ==
  /\ Idle /\ calls < MaxCalls /\ calls' = calls + 1
  /\ Refused("channels")
  /\ result' = IF Writes = <<>> THEN "ok" ELSE "error"
  /\ cause' = "none" /\ ctx' = "live"
  /\ UNCHANGED <<setup, radio, op, step, hung, todo, live, settled, faults>>

\* A temporary file cannot be written.
FileFails ==
  /\ Idle /\ calls < MaxCalls /\ calls' = calls + 1
  /\ Fault
  /\ \E o \in {"apply", "channels"} : ~Refused(o)
  /\ result' = "error"
  /\ cause' = "none" /\ ctx' = "live"
  /\ UNCHANGED <<setup, radio, op, step, hung, todo, live, settled>>

Call(o) ==
  /\ Idle /\ calls < MaxCalls /\ calls' = calls + 1
  /\ ~Refused(o)
  /\ op' = o /\ step' = "spawn" /\ hung' = FALSE /\ ctx' = "live"
  /\ cause' = "none" /\ result' = "none"
  /\ todo' = CASE o = "apply" -> ConfigSections
               [] o = "channels" -> Writes
               [] OTHER -> <<>>
  /\ UNCHANGED <<setup, radio, live, settled, faults>>

Return ==
  /\ step = "exit"
  /\ op' = "none" /\ step' = "idle" /\ todo' = <<>> /\ hung' = FALSE
  /\ result' = CASE cause = "none" -> "ok"
                 [] cause # "none" /\ ExecErrorUnreachable -> "unreachable"
                 [] OTHER -> "error"
  /\ settled' = IF cause = "none" THEN settled \cup ({op} \cap {"apply", "channels"})
                ELSE settled
  /\ UNCHANGED <<setup, radio, cause, ctx, live, calls, faults>>

\* Mutant: a call without a deadline of its own.
ExpireNever == FALSE /\ UNCHANGED vars

\* The deadline: the caller's, or the one withExecTimeout attaches.
Expire ==
  /\ ~Idle /\ ctx = "live"
  /\ ctx' = "expired"
  /\ UNCHANGED <<setup, radio, helper, op, result, live, settled, calls, faults>>

\* The operator shuts down.
Cancel ==
  /\ ~Idle /\ ctx = "live"
  /\ Fault
  /\ ctx' = "canceled"
  /\ UNCHANGED <<setup, radio, helper, op, result, live, settled, calls>>

-----------------------------------------------------------------------------
(* The helper *)

Working(s) == step = s /\ ~hung

Goto(s) == step' = s /\ UNCHANGED <<hung, cause>>

callVars == <<setup, op, ctx, result, settled, calls>>

\* The radio drops a transaction with the session that opened it.
End(c) ==
  /\ step' = "exit" /\ cause' = c
  /\ staged' = None
  /\ UNCHANGED <<hung, todo, live>>

\* CommandContext kills the process of a context that is done.
Kill ==
  /\ step \notin {"idle", "exit"} /\ ctx # "live"
  /\ End("killed")
  /\ UNCHANGED <<callVars, config, slots, faults>>

Hang ==
  /\ step \in {"connect", "read", "write", "commit"} /\ ~hung
  /\ Fault
  /\ hung' = TRUE
  /\ UNCHANGED <<callVars, radio, step, todo, cause, live>>

Spawn ==
  /\ Working("spawn")
  /\ Goto("connect")
  /\ UNCHANGED <<callVars, radio, todo, live, faults>>

\* The binary is missing, or the interpreter does not find the bundled script.
SpawnFails ==
  /\ Working("spawn")
  /\ Fault
  /\ \E c \in {"binary"} \cup (IF bundled /\ op \in {"export", "channels"}
                                THEN {"script"} ELSE {}) : End(c)
  /\ UNCHANGED <<callVars, config, slots>>

Connect ==
  /\ Working("connect")
  /\ Goto(CASE op = "export" -> "read" [] op = "channels" -> "check"
            [] op = "apply" -> "write" [] OTHER -> "exit")
  /\ UNCHANGED <<callVars, radio, todo, live, faults>>

\* Mutant: the transaction is committed on the way out, whatever happened.
LinkLostCommits ==
  /\ step \in {"connect", "read", "write", "commit"} /\ ~hung
  /\ Fault
  /\ \E c \in {"link"} \cup (IF serial /\ step = "connect" THEN {"port"} ELSE {}) : End(c)
  /\ slots' = IF staged = None THEN slots ELSE staged
  /\ UNCHANGED <<callVars, config>>

\* A reboot or an outage; over serial the port may be gone as well.
LinkLost ==
  /\ step \in {"connect", "read", "write", "commit"} /\ ~hung
  /\ Fault
  /\ \E c \in {"link"} \cup (IF serial /\ step = "connect" THEN {"port"} ELSE {}) : End(c)
  /\ UNCHANGED <<callVars, config, slots>>

\* What the library holds of a configuration when the sections in unset did not
\* stream: their protobuf defaults.
Streamed(c, unset) ==
  IF unset = {} THEN c
  ELSE [f \in DOMAIN c |-> IF f \in {"enabled"} \cup MqttFlags THEN "false"
                           ELSE IF f \in MqttTexts THEN NoText ELSE c[f]]

\* mesh-export.py, or --export-config, taken to report the same fields and no
\* channels.  A section the radio did not stream is left out, when asking for it
\* raises, or read as its defaults.
ReadConfig ==
  /\ Working("read")
  /\ \E missing \in SUBSET Sections : \E unset \in SUBSET ({"mqtt"} \ missing) :
       /\ IF missing \cup unset = {} THEN UNCHANGED faults ELSE Fault
       /\ live' = [doc |-> Exported(Streamed(config, unset), Sections \ missing),
                   channels |-> IF bundled /\ "channels" \notin missing
                                THEN LiveChannels(slots) ELSE None,
                   missing |-> missing, unset |-> unset]
  /\ Goto("exit")
  /\ UNCHANGED <<callVars, radio, todo>>

\* The CLI merges one section of the document; the password goes with it.
WriteSection ==
  /\ Working("write") /\ op = "apply" /\ todo # <<>>
  /\ config' = Merged(config, BuildDesired(declared.spec), Head(todo))
  /\ todo' = Tail(todo)
  /\ Goto("write")
  /\ UNCHANGED <<callVars, slots, staged, live, faults>>

WroteSections ==
  /\ Working("write") /\ op = "apply" /\ todo = <<>>
  /\ Goto("exit")
  /\ UNCHANGED <<callVars, radio, todo, live, faults>>

\* Every index is checked before anything is written; a radio may also have
\* returned no channel set.
CheckFails ==
  /\ Working("check")
  /\ \/ ~InRange(todo) /\ UNCHANGED faults
     \/ Fault
  /\ End("raised")
  /\ UNCHANGED <<callVars, config, slots>>

Checked ==
  /\ Working("check") /\ InRange(todo)
  /\ staged' = IF transactions THEN slots ELSE None
  /\ Goto("write")
  /\ UNCHANGED <<callVars, config, slots, todo, live, faults>>

\* node_channels[idx] of an index past the end raises as well.
WriteSlot ==
  /\ Working("write") /\ op = "channels" /\ todo # <<>>
  /\ IF ~InRange(<<Head(todo)>>)
     THEN End("raised") /\ UNCHANGED slots
     ELSE /\ IF transactions
             THEN staged' = Provisioned(staged, Head(todo)) /\ UNCHANGED slots
             ELSE slots' = Provisioned(slots, Head(todo)) /\ UNCHANGED staged
          /\ todo' = Tail(todo)
          /\ Goto("write")
          /\ UNCHANGED live
  /\ UNCHANGED <<callVars, config, faults>>

WroteSlots ==
  /\ Working("write") /\ op = "channels" /\ todo = <<>>
  /\ Goto(IF transactions THEN "commit" ELSE "exit")
  /\ UNCHANGED <<callVars, radio, todo, live, faults>>

\* The commit arrives; whether its answer does is another matter.
Commit ==
  /\ Working("commit")
  /\ slots' = staged
  /\ \/ End("none") /\ UNCHANGED faults
     \/ End("link") /\ Fault
  /\ UNCHANGED <<callVars, config>>

\* Between two calls somebody edits the radio with another client.
OtherClient ==
  /\ Idle /\ step = "idle"
  /\ Fault
  /\ \E c \in RadioConfigs, s \in RadioSlots :
       /\ <<c, s>> # <<config, slots>>
       /\ config' = c /\ slots' = s
  /\ settled' = {}
  /\ UNCHANGED <<setup, staged, helper, op, ctx, result, live, calls>>

HelperStep ==
  \/ Spawn \/ SpawnFails \/ Connect \/ LinkLost \/ Hang
  \/ ReadConfig \/ WriteSection \/ WroteSections
  \/ CheckFails \/ Checked \/ WriteSlot \/ WroteSlots \/ Commit

Next ==
  \/ ReturnAtOnce \/ FileFails \/ (\E o \in Ops : Call(o)) \/ Return
  \/ Expire \/ Cancel \/ Kill
  \/ HelperStep \/ OtherClient

\* Timers fire, the kernel kills and Wait returns.  A helper owes nothing.
Fairness == WF_vars(Expire) /\ WF_vars(Kill) /\ WF_vars(Return)

Spec == Init /\ [][Next]_vars /\ Fairness

-----------------------------------------------------------------------------
(* Properties *)

\* What a spec asks of a radio, field by field, in the radio's own terms.
Satisfies(c, s) ==
  /\ \A f \in EnumFields \cup OwnerFields : s.plain[f] \in {NoText, c[f]}
  /\ s.preset # NoText => c["usePreset"] = "true" /\ c["modemPreset"] = s.preset
  /\ s.mqtt # None => c["enabled"] = s.mqtt.enabled
  /\ s.mqtt # None /\ s.mqtt.enabled = "true" =>
       /\ \A f \in MqttTexts : s.mqtt.text[f] \in {NoText, c[f]}
       /\ \A f \in MqttFlags : s.mqtt.flag[f] = c[f]

HasPassword(c, s) ==
  s.mqtt # None /\ s.mqtt.enabled = "true" => s.mqtt.password \in {NoText, c["password"]}

\* A default key is the same key in both of its forms.
Carries(s, ch) ==
  /\ ch.index < NSlots
  /\ s[ch.index].on /\ s[ch.index].name = ch.name /\ s[ch.index].links = ch.links
  /\ \/ s[ch.index].psk = ch.key
     \/ ch.key \in DefaultKeys \cup {None} /\ s[ch.index].psk \in DefaultKeys

CarriesAll(s) == \A i \in DOMAIN declared.channels : Carries(s, declared.channels[i])

CompareChannels == {CompareChannel(declared.channels[i]) : i \in DOMAIN declared.channels}

ExportReturned == op = "export" /\ step = "exit" /\ cause = "none"

(***************************************************************************)
(* No drift means that the radio is as declared, whatever styles, modes,   *)
(* empty fields and unreported sections do to the export, or, when the     *)
(* library held its MQTT section unset, as declared but for MQTT, which    *)
(* is then declared as the defaults are; and a radio as declared shows no  *)
(* drift when every section arrived, or it would be rebooted for nothing   *)
(* (desired.go:24-30, 46-52, 63-70, diff.go:33-60, mesh-export.py:99-116). *)
(* Channels drift exactly when a declared one is not on the radio, in any  *)
(* form of the default key; slots the spec does not name never count       *)
(* (channels.go:91-123, 218-251).                                          *)
(***************************************************************************)
DriftIsExact ==
  ExportReturned =>
    LET converged == IsConverged(ForComparison(BuildDesired(declared.spec)), live.doc) IN
    /\ converged => Satisfies(Streamed(config, live.unset), declared.spec)
    /\ Satisfies(config, declared.spec) /\ live.missing \cup live.unset = {} => converged
    /\ live.channels # None =>
         (ChannelDrift(CompareChannels, live.channels) = {} <=> CarriesAll(slots))

(***************************************************************************)
(* What a successful write wrote shows no drift ever after, the password   *)
(* no export reports included, whichever later calls fail half-way, until  *)
(* another client edits the radio: the loop around the client ends         *)
(* (desired.go:24-30, diff.go:55-67, mesh-apply.py:150-162).               *)
(***************************************************************************)
WrittenStaysConverged ==
  /\ "apply" \in settled =>
       /\ IsConverged(ForComparison(BuildDesired(declared.spec)), Exported(config, Sections))
       /\ HasPassword(config, declared.spec)
  /\ "channels" \in settled => CarriesAll(slots)

(***************************************************************************)
(* With settings transactions a channel write is all or nothing, wherever  *)
(* the session drops, the deadline passes or the operator is shut down;    *)
(* and with no library does a list with a slot the radio does not have,    *)
(* however late in it, write any of the others (mesh-apply.py:135-171).    *)
(***************************************************************************)
AllOrNothing ==
  [][slots' # slots /\ op = "channels" =>
       /\ \A i \in DOMAIN declared.channels : declared.channels[i].index < NSlots
       /\ transactions => CarriesAll(slots')]_vars

(***************************************************************************)
(* A reboot, an outage and a helper that hung are never a hard error; a    *)
(* shutdown, an index out of range and, over TCP, a broken installation    *)
(* are never taken for a reboot (cli.go:90-96, 127-133).                   *)
(***************************************************************************)
ErrorsToldApart ==
  /\ cause \in {"link", "port"} => result # "error"
  /\ cause = "killed" /\ ctx = "expired" => result # "error"
  /\ result = "unreachable" /\ ctx # "expired" =>
       cause \in {"link", "port"} \cup (IF serial THEN {"script"} ELSE {})

(***************************************************************************)
(* Every call returns, though a helper may hang for ever (cli.go:72-79,    *)
(* 163-170).                                                               *)
(***************************************************************************)
CallsReturn == (op # "none") ~> (op = "none")

-----------------------------------------------------------------------------
(* Why they hold *)

\* Which helper is where, with what to do.
HelperInOrder ==
  /\ op = "none" <=> step = "idle"
  /\ step = "read" => op = "export"
  /\ step = "check" => op = "channels"
  /\ step = "write" => op \in {"apply", "channels"}
  /\ step = "commit" => op = "channels" /\ transactions /\ todo = <<>>
  /\ op = "apply" /\ step \in {"spawn", "connect"} => todo = ConfigSections
  /\ op = "channels" /\ step \in {"spawn", "connect", "check"} => todo = Writes

\* Why a helper ended is known when it has, and only then is there a result.
CausesNamed ==
  /\ op # "none" => result = "none"
  /\ step \notin {"exit", "idle"} => cause = "none"
  /\ cause = "port" => serial
  /\ ErrorsToldApart

Configured(c) == \A e \in BuildDesired(declared.spec) : c[e.name] = e.value

\* The slots a channel write works on.
Target == IF transactions THEN staged ELSE slots

\* What is not written yet is still to be written.
SectionsLeft ==
  op = "apply" /\ step = "write" =>
    /\ todo \in Seq(SUBSET Fields)
    /\ \A e \in BuildDesired(declared.spec) :
         config[e.name] = e.value \/ \E k \in DOMAIN todo : e.name \in todo[k]

SlotsLeft ==
  op = "channels" /\ step \in {"write", "commit"} =>
    /\ InRange(Writes)
    /\ todo \in Seq({Writes[i] : i \in DOMAIN Writes})
    /\ Target \in [0..(NSlots - 1) -> Slots]
    /\ \A i \in DOMAIN declared.channels :
         Carries(Target, declared.channels[i]) \/ \E k \in DOMAIN todo : todo[k] = Writes[i]

\* A helper that ended well has done what it was started for.
Accomplished ==
  step = "exit" /\ cause = "none" =>
    /\ op = "apply" => Configured(config)
    /\ op = "channels" => CarriesAll(slots)
    /\ op = "export" =>
         /\ live.doc = Exported(Streamed(config, live.unset), Sections \ live.missing)
         /\ live.channels \in {None, LiveChannels(slots)}

SettledIsWritten ==
  /\ slots \in [0..(NSlots - 1) -> Slots]
  /\ "apply" \in settled => Configured(config)
  /\ "channels" \in settled => CarriesAll(slots)

WritesLand == SectionsLeft /\ SlotsLeft /\ Accomplished /\ SettledIsWritten
=============================================================================
