---------------------------- MODULE OfflinePlan ----------------------------
(***************************************************************************)
(* internal/plan: a text that should hold one CommunicationIntent is       *)
(* parsed and compiled, for nephmeshctl plan and for the MCP server.       *)
(*                                                                         *)
(* A text is Blank, Malformed or its sequence of YAML documents (a text of *)
(* comments has none).  A document is a scalar or a list, the null, or a   *)
(* mapping with a kind ("" when absent) and a spec, under the key spec     *)
(* (nested) or as its own fields.  Structural admission does not happen    *)
(* offline; a field of the wrong type is all that makes a spec unreadable. *)
(***************************************************************************)
EXTENDS IntentCompile

CONSTANTS
  Blank, Malformed,
  Documents, \* what a text may be made of
  IllTyped   \* a spec with a field of the wrong type

Texts == {Blank, Malformed} \cup Seq(Documents)

ParseErrors ==
  {"no intent provided", "parse intent", "multiple YAML documents",
   "expected kind CommunicationIntent", "parse intent spec"}

ASSUME OfflinePlanAssumption == None \notin ParseErrors

ZeroSpec == [nodes |-> <<>>, approved |-> <<>>, traffic |-> None, common |-> None]

Document(shape, kind, nested, spec) ==
  [shape |-> shape, kind |-> kind, nested |-> nested, spec |-> spec]

NullDocument == Document("null", "", FALSE, ZeroSpec)

\* What sigs.k8s.io/yaml decodes of a text: its first document, or nothing.
Decoded(text) == IF text = <<>> THEN NullDocument ELSE Head(text)

\* Mutant: the documents after the first are dropped without a word.
ParseErrorOfFirst(text) ==
  IF text = Blank THEN "no intent provided"
  ELSE IF text = Malformed \/ Decoded(text).shape = "other" THEN "parse intent"
  ELSE IF Decoded(text).kind \notin {"", "CommunicationIntent"} THEN "expected kind CommunicationIntent"
  ELSE IF Decoded(text).spec = IllTyped THEN "parse intent spec"
  ELSE None

ParseError(text) ==
  IF text = Blank THEN "no intent provided"
  ELSE IF text = Malformed THEN "parse intent"
  ELSE IF Len(text) > 1 THEN "multiple YAML documents"
  ELSE IF Decoded(text).shape = "other" THEN "parse intent"
  ELSE IF Decoded(text).kind \notin {"", "CommunicationIntent"} THEN "expected kind CommunicationIntent"
  ELSE IF Decoded(text).spec = IllTyped THEN "parse intent spec"
  ELSE None

\* Members that are not fields are ignored, so a nested spec would be empty if
\* it were looked for at the top: hence the probe for the key spec.
ParsedSpec(text) == Decoded(text).spec

\* The wire contract: the Result of the compiler and the number of its nodes.
FromResult(r) ==
  [feasible |-> r.feasible, reason |-> r.reason, selected |-> r.selected,
   nodeCount |-> Len(r.proposed), airtime |-> r.airtime, proposed |-> r.proposed]

Run(text) ==
  IF ParseError(text) # None
  THEN [error |-> ParseError(text), output |-> None]
  ELSE [error |-> None, output |-> FromResult(Compile(ParsedSpec(text)))]

-----------------------------------------------------------------------------
(* nephmeshctl plan *)

exitOK == 0
exitUsage == 2

\* With -o json the problem goes to stdout too.
cliError(problem) == [exit |-> exitUsage, stdout |-> problem]

\* A verdict, feasible or not, is a success of the command.
writeOut(payload) == [exit |-> exitOK, stdout |-> payload]

runPlan(text) ==
  IF Run(text).error # None THEN cliError(Run(text).error) ELSE writeOut(Run(text).output)
=============================================================================
