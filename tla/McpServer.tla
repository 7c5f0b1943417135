----------------------------- MODULE McpServer -----------------------------
(***************************************************************************)
(* nephmesh-mcp: JSON-RPC over two pipes.  A host writes lines to the      *)
(* server's stdin and reads its stdout; the server reads a line, handles   *)
(* it, writes and flushes the answer if there is one, and reads the next,  *)
(* until stdin ends or a write fails.                                      *)
(*                                                                         *)
(* A line is blank, unreadable (no JSON, or a member of the wrong type), or*)
(* a request: its id (its own, null, or none, which makes it a             *)
(* notification), whether jsonrpc is "2.0", its method and params.  The    *)
(* host numbers its requests, so a request's own id is the number of its   *)
(* line.  The field line of an answer is history and not on the wire.      *)
(***************************************************************************)
EXTENDS OfflinePlan

CONSTANTS
  Lines,    \* what a host may write
  MaxLines, \* bound on the lines of a session
  InPipe,   \* lines the kernel holds for the server
  OutPipe,  \* answers the kernel holds for the host
  Versions, \* the protocol revisions spoken, newest first
  Missing   \* a member that is not there

ASSUME McpServerAssumption ==
  /\ MaxLines \in Nat
  /\ InPipe \in Nat \ {0}
  /\ OutPipe \in Nat \ {0}
  /\ \A line \in Lines : line.form \in {"blank", "unreadable", "request"}

VARIABLES
  input,  \* the lines written to stdin so far
  read,   \* how many of them the server has handled
  output, \* the answers written to stdout
  taken,  \* how many of them the host has read
  stdin,  \* "open", "closed", or "cut": closed, the last line without a newline
  stdout, \* does the host still hold the other end?
  exit    \* "serving", "ok", or "broken" on a failed write

vars == <<input, read, output, taken, stdin, stdout, exit>>

NullId == 0

-----------------------------------------------------------------------------
(* Tools *)

toolText(v) == [isError |-> FALSE, content |-> v]
toolError(msg) == [isError |-> TRUE, content |-> msg]

Result(v) == [rpcError |-> None, result |-> v]
RpcError(code) == [rpcError |-> code, result |-> None]

\* A string's content or an inlined value, which is one document of YAML.
intentArgument(intent) == intent.text

\* arguments that are null leave the intent out.
callPlanIntent(args) ==
  IF args \in {Missing, IllTyped} THEN toolError("invalid arguments")
  ELSE IF args.intent = Missing THEN toolError("no intent provided")
  ELSE LET r == Run(intentArgument(args.intent))
       IN  IF r.error # None THEN toolError(r.error) ELSE toolText(r.output)

\* A sweep is "", unreadable, or a capture; what Sense makes of a capture with
\* the options given is in module SweepAnalysis.
callSenseSpectrum(args) ==
  IF args \in {Missing, IllTyped} THEN toolError("invalid arguments")
  ELSE IF args.sweep \in {Missing, ""} THEN toolError("sweep is required")
  ELSE IF args.sweep = Malformed THEN toolError("spectrum")
  ELSE toolText(args.sweep)

toolsCall(params) ==
  IF params \in {Missing, IllTyped} THEN RpcError("invalid params")
  ELSE IF params.name = "plan_intent" THEN Result(callPlanIntent(params.arguments))
  ELSE IF params.name = "sense_spectrum" THEN Result(callSenseSpectrum(params.arguments))
  ELSE RpcError("invalid params")

\* Params of the wrong type ask for no version.
initialize(params) ==
  Result(IF params \in {Versions[i] : i \in DOMAIN Versions} THEN params ELSE Versions[1])

dispatch(method, params) ==
  IF method = "initialize" THEN initialize(params)
  ELSE IF method \in {"ping", "tools/list", "notifications/initialized"} THEN Result(method)
  ELSE IF method = "tools/call" THEN toolsCall(params)
  ELSE RpcError("method not found")

-----------------------------------------------------------------------------
(* The server *)

NoAnswer == [line |-> 0, id |-> NullId, body |-> None]

\* Mutant: a notification that fails is told so.
HandleMessageAnswersErrors(n, line) ==
  LET id == IF line.id = "own" THEN n ELSE NullId
      body == IF line.version2 THEN dispatch(line.method, line.params) ELSE RpcError("invalid request")
  IN  IF line.form = "blank" THEN NoAnswer
      ELSE IF line.form = "unreadable" THEN [line |-> n, id |-> NullId, body |-> RpcError("parse error")]
      ELSE IF line.id = "none" /\ body.rpcError = None THEN NoAnswer
      ELSE [line |-> n, id |-> id, body |-> body]

\* Line n: NoAnswer when nothing is written back.  An id that is the JSON null is
\* an id.  A line that is not read has its answer under the null id, even if it
\* carried an id in readable JSON.
HandleMessage(n, line) ==
  IF line.form = "blank" THEN NoAnswer
  ELSE IF line.form = "unreadable" THEN [line |-> n, id |-> NullId, body |-> RpcError("parse error")]
  ELSE IF line.id = "none" THEN NoAnswer
  ELSE [line |-> n, id |-> IF line.id = "own" THEN n ELSE NullId,
        body |-> IF line.version2 THEN dispatch(line.method, line.params)
                 ELSE RpcError("invalid request")]

Unread == Len(input) - read

\* The last line of a stdin cut short comes back together with the end of file.
AfterLine == IF stdin = "cut" /\ Unread = 1 THEN "ok" ELSE "serving"

\* The write waits for room in the pipe and fails when nobody can read it.
ServeLine ==
  /\ exit = "serving" /\ Unread > 0
  /\ read' = read + 1
  /\ LET answer == HandleMessage(read + 1, input[read + 1]) IN
       \/ /\ answer = NoAnswer
          /\ exit' = AfterLine
          /\ UNCHANGED output
       \/ /\ answer # NoAnswer /\ stdout /\ Len(output) - taken < OutPipe
          /\ output' = Append(output, answer)
          /\ exit' = AfterLine
       \/ /\ answer # NoAnswer /\ ~stdout
          /\ exit' = "broken"
          /\ UNCHANGED output
  /\ UNCHANGED <<input, taken, stdin, stdout>>

\* Mutant: the end of file is looked at before the line that comes with it.
ServeEOFDropsLastLine ==
  /\ exit = "serving" /\ stdin # "open"
  /\ Unread = 0 \/ (stdin = "cut" /\ Unread = 1)
  /\ exit' = "ok"
  /\ UNCHANGED <<input, read, output, taken, stdin, stdout>>

\* An ended pipe that has been read dry gives the end of file again and again.
ServeEOF ==
  /\ exit = "serving" /\ stdin # "open" /\ Unread = 0
  /\ exit' = "ok"
  /\ UNCHANGED <<input, read, output, taken, stdin, stdout>>

-----------------------------------------------------------------------------
(* The host *)

HostWrites(line) ==
  /\ stdin = "open" /\ exit = "serving"
  /\ Len(input) < MaxLines /\ Unread < InPipe
  /\ input' = Append(input, line)
  /\ UNCHANGED <<read, output, taken, stdin, stdout, exit>>

HostReads ==
  /\ stdout /\ taken < Len(output)
  /\ taken' = taken + 1
  /\ UNCHANGED <<input, read, output, stdin, stdout, exit>>

HostCloses ==
  /\ stdin = "open"
  /\ \/ stdin' = "closed"
     \/ Unread > 0 /\ stdin' = "cut"
  /\ UNCHANGED <<input, read, output, taken, stdout, exit>>

\* The host dies: both pipes lose it.
HostDies ==
  /\ stdout
  /\ stdout' = FALSE
  /\ stdin' = IF stdin = "open" THEN "closed" ELSE stdin
  /\ UNCHANGED <<input, read, output, taken, exit>>

Init ==
  /\ input = <<>> /\ read = 0
  /\ output = <<>> /\ taken = 0
  /\ stdin = "open" /\ stdout = TRUE
  /\ exit = "serving"

Next ==
  \/ ServeLine \/ ServeEOF
  \/ \E line \in Lines : HostWrites(line)
  \/ HostReads \/ HostCloses \/ HostDies

Spec == Init /\ [][Next]_vars

\* The server's loop runs, and a host that lives reads what it is sent.
FairSpec == Spec /\ WF_vars(ServeLine \/ ServeEOF) /\ WF_vars(HostReads)

-----------------------------------------------------------------------------

\* A line the server owes an answer: one it cannot read, or one with an id.
Answerable(line) ==
  \/ line.form = "unreadable"
  \/ line.form = "request" /\ line.id # "none"

\* A host matches answers to requests by id alone.  However lines, pipes and the
\* end of the session interleave, the answers are those of the lines that are
\* owed one: each exactly once, in the order of the lines, under the id its
\* request carried (null if it carried that or was not read); a notification is
\* never answered, not even by an error.  All that can be missing is the answer
\* whose write failed.  server.go:97-161.
EachAnsweredOnce ==
  /\ \A k \in DOMAIN output :
       /\ output[k].line \in 1..read
       /\ Answerable(input[output[k].line])
       /\ output[k].id = IF input[output[k].line].form = "request" /\ input[output[k].line].id = "own"
                         THEN output[k].line ELSE NullId
  /\ \A j, k \in DOMAIN output : j < k => output[j].line < output[k].line
  /\ \A n \in 1..read :
       Answerable(input[n]) =>
         \/ \E k \in DOMAIN output : output[k].line = n
         \/ exit = "broken" /\ n = read

PlanCall(line) ==
  /\ line.form = "request" /\ line.version2 /\ line.method = "tools/call"
  /\ line.params \notin {Missing, IllTyped}
  /\ line.params.name = "plan_intent"
  /\ line.params.arguments \notin {Missing, IllTyped}

CalledText(line) ==
  IF line.params.arguments.intent = Missing THEN Blank ELSE line.params.arguments.intent.text

ASSUME CallsAssumption == \A line \in Lines : PlanCall(line) => CalledText(line) \in Texts

\* "An agent gets the same answer whichever surface it calls" (plan.go:17-23): to
\* a text sent as a string or inlined, the tool says what the command prints for
\* it, and fails where the command does, inside a result the model can see and
\* never as a protocol error.  And a verdict is about the whole of the text: no
\* document of it, in either form, compiles to another one.
SurfacesAgree ==
  \A k \in DOMAIN output :
    LET line == input[output[k].line]
        body == output[k].body
    IN  PlanCall(line) =>
          LET text == CalledText(line)
              command == runPlan(text)
          IN  /\ body.rpcError = None
              /\ body.result.isError <=> command.exit # exitOK
              /\ body.result.content = command.stdout
              /\ ~body.result.isError =>
                   \A i \in DOMAIN text :
                     body.result.content = FromResult(Compile(text[i].spec))

\* No line is left behind and no session goes on for ever: while the host lives
\* and reads, every line it wrote is handled, the last one too when it comes
\* together with the end of file, and every answer reaches it; and once stdin has
\* ended the server does.  server.go:101-119.
SessionEnds ==
  /\ \A n \in 1..MaxLines :
       /\ (n <= Len(input)) ~> (n <= read \/ exit = "broken")
       /\ (n <= Len(output)) ~> (n <= taken \/ ~stdout)
  /\ (stdin # "open") ~> (exit # "serving")
=============================================================================
