---------------------------- MODULE MCMcpServer ----------------------------
(***************************************************************************)
(* The lines of a session: every kind of line the server tells apart, each *)
(* way a message or a tool call can fail, and one intent in each form it   *)
(* can be given.                                                           *)
(***************************************************************************)
EXTENDS McpServer

MCVersions == <<"2025-06-18", "2025-03-26", "2024-11-05">>

Target(name) == [name |-> name, target |-> name]
Fleet == [nodes |-> <<Target("a"), Target("b")>>, approved |-> <<"LONG_FAST">>,
          traffic |-> [rate |-> 30, payload |-> 40], common |-> "common"]
Twins == [Fleet EXCEPT !.nodes = <<Target("a"), Target("a")>>]

Object == Document("mapping", "CommunicationIntent", TRUE, Fleet)
Bare == Document("mapping", "", FALSE, Fleet)

MCDocuments ==
  {Object, Bare, NullDocument, Document("mapping", "", FALSE, Twins),
   Document("mapping", "MeshtasticNode", TRUE, Fleet),
   Document("mapping", "CommunicationIntent", TRUE, IllTyped),
   Document("other", "", FALSE, ZeroSpec)}

Strings ==
  {Blank, Malformed, <<>>, <<Object, Document("mapping", "", FALSE, Twins)>>}
    \cup {<<d>> : d \in MCDocuments \ {NullDocument}}
Inlined == {<<Object>>, <<NullDocument>>}

Request(id, version2, method, params) ==
  [form |-> "request", id |-> id, version2 |-> version2, method |-> method, params |-> params]
Call(name, arguments) ==
  Request("own", TRUE, "tools/call", [name |-> name, arguments |-> arguments])
Intent(intent) == Call("plan_intent", [intent |-> intent])

MCLines ==
  {[form |-> "blank"], [form |-> "unreadable"],
   Request("own", TRUE, "initialize", "2025-03-26"),
   Request("null", TRUE, "initialize", "1999-01-01"),
   Request("none", TRUE, "notifications/initialized", Missing),
   Request("own", FALSE, "ping", Missing), Request("none", FALSE, "ping", Missing),
   Request("own", TRUE, "resources/list", Missing),
   Request("none", TRUE, "resources/list", Missing),
   Request("own", TRUE, "tools/call", Missing), Call("apply_intent", Missing),
   Call("plan_intent", Missing), Intent(Missing),
   Call("sense_spectrum", [sweep |-> ""]), Call("sense_spectrum", [sweep |-> Malformed])}
  \cup {Intent([inline |-> FALSE, text |-> t]) : t \in Strings}
  \cup {Intent([inline |-> TRUE, text |-> t]) : t \in Inlined}
=============================================================================
