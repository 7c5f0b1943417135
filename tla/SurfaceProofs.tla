---------------------------- MODULE SurfaceProofs ----------------------------
(***************************************************************************)
(* What the program's three reading surfaces may be trusted with: the      *)
(* answers of the MCP server, the verdicts of a planning session and the   *)
(* gauges of the spectrum exporter.                                        *)
(***************************************************************************)
EXTENDS McpServer, IntentPlan, SpectrumExporter,
        FiniteSetTheorems, SequenceTheorems, WellFoundedInduction, TLAPS

-----------------------------------------------------------------------------
(***************************************************************************)
(* A session of the MCP server, for every set of lines, every length and   *)
(* every pipe: the answers are those the lines are owed, and they say what *)
(* the command line says.                                                  *)
(*                                                                         *)
(* The invariant says of each answer that it is HandleMessage of its line, *)
(* and of the answers together that they are in the order of the lines and *)
(* leave out none the server has handled.  Both properties follow from it. *)
(***************************************************************************)

Answers == {HandleMessage(n, line) : n \in 1..MaxLines, line \in Lines}

SessionTypeOK ==
  /\ input \in Seq(Lines) /\ Len(input) <= MaxLines
  /\ read \in 0..Len(input)
  /\ output \in Seq(Answers)
  /\ taken \in Nat
  /\ exit \in {"serving", "ok", "broken"}

\* Each answer is the one the code gives its line.
Answered ==
  \A k \in DOMAIN output :
    /\ output[k].line \in 1..read
    /\ output[k] = HandleMessage(output[k].line, input[output[k].line])
    /\ output[k] # NoAnswer

InOrder == \A j, k \in DOMAIN output : j < k => output[j].line < output[k].line

Complete ==
  \A n \in 1..read :
    Answerable(input[n]) =>
      \/ \E k \in DOMAIN output : output[k].line = n
      \/ exit = "broken" /\ n = read

IInv == SessionTypeOK /\ Answered /\ InOrder /\ Complete

\* What an answer says of the line it is given to.
LEMMA AnswerOfLine ==
  ASSUME NEW n \in Nat \ {0}, NEW line,
         line.form \in {"blank", "unreadable", "request"}
  PROVE  /\ Answerable(line) <=> HandleMessage(n, line) # NoAnswer
         /\ Answerable(line) =>
              /\ HandleMessage(n, line).line = n
              /\ HandleMessage(n, line).id =
                   IF line.form = "request" /\ line.id = "own" THEN n ELSE NullId
<1>1. CASE line.form = "blank"
  BY <1>1 DEF HandleMessage, Answerable
<1>2. CASE line.form = "unreadable"
  BY <1>2 DEF HandleMessage, Answerable, NoAnswer
<1>3. CASE line.form = "request" /\ line.id = "none"
  BY <1>3 DEF HandleMessage, Answerable, NoAnswer
<1>4. CASE line.form = "request" /\ line.id # "none"
  <2> DEFINE body == IF line.version2 THEN dispatch(line.method, line.params)
                     ELSE RpcError("invalid request")
  <2>1. HandleMessage(n, line) =
          [line |-> n, id |-> IF line.id = "own" THEN n ELSE NullId, body |-> body]
    BY <1>4 DEF HandleMessage
  <2> HIDE DEF body
  <2>2. QED  BY <1>4, <2>1 DEF Answerable, NoAnswer
<1>5. QED  BY <1>1, <1>2, <1>3, <1>4

\* It holds of a session that has not begun.
LEMMA InitIInv == Init => IInv
BY McpServerAssumption DEF Init, IInv, SessionTypeOK, Answered, InOrder, Complete

\* Reading a line: the only step that writes an answer.
LEMMA ServeLineKeeps == IInv /\ ServeLine => IInv'
<1> SUFFICES ASSUME IInv, ServeLine  PROVE IInv'
  OBVIOUS
<1> USE McpServerAssumption
<1> DEFINE n == read + 1
           answer == HandleMessage(n, input[n])
<1>1. /\ n \in 1..Len(input) /\ n \in 1..MaxLines
      /\ read' = n /\ input' = input /\ taken' = taken
      /\ exit = "serving"
  BY DEF IInv, SessionTypeOK, ServeLine, Unread
<1>2. input[n] \in Lines
  BY <1>1 DEF IInv, SessionTypeOK
<1>3. exit' \in {"serving", "ok", "broken"}
  BY DEF ServeLine, AfterLine
<1>4. /\ Answerable(input[n]) <=> answer # NoAnswer
      /\ Answerable(input[n]) => answer.line = n
  BY <1>1, <1>2, AnswerOfLine
<1>5. answer \in Answers
  BY <1>1, <1>2 DEF Answers
<1>6. \/ answer = NoAnswer /\ output' = output
      \/ answer # NoAnswer /\ output' = Append(output, answer)
      \/ answer # NoAnswer /\ output' = output /\ exit' = "broken"
  BY DEF ServeLine
<1> HIDE DEF answer
<1>7. CASE output' = output
  <2>1. SessionTypeOK'
    BY <1>1, <1>3, <1>7 DEF IInv, SessionTypeOK
  <2>2. Answered' /\ InOrder'
    BY <1>1, <1>7 DEF IInv, SessionTypeOK, Answered, InOrder
  <2>3. Complete'
    <3> SUFFICES ASSUME NEW m \in 1..n, Answerable(input[m]),
                        ~(exit' = "broken" /\ m = n)
                 PROVE  \E k \in DOMAIN output : output[k].line = m
      BY <1>1, <1>7 DEF Complete
    <3>1. CASE m = n
      \* Such a line has an answer, and it was lost.
      BY <3>1, <1>4, <1>6, <1>5, <1>7 DEF IInv, SessionTypeOK
    <3>2. CASE m # n
      <4>1. m \in 1..read
        BY <3>2, <1>1 DEF IInv, SessionTypeOK
      <4>2. QED  BY <4>1, <1>1 DEF IInv, Complete
    <3>3. QED  BY <3>1, <3>2
  <2>4. QED  BY <2>1, <2>2, <2>3 DEF IInv
<1>8. CASE answer # NoAnswer /\ output' = Append(output, answer)
  <2>1. /\ Len(output') = Len(output) + 1
        /\ DOMAIN output' = 1..(Len(output) + 1) /\ DOMAIN output = 1..Len(output)
        /\ \A k \in DOMAIN output : output'[k] = output[k]
        /\ output'[Len(output) + 1] = answer
        /\ Len(output) \in Nat /\ output' \in Seq(Answers)
    BY <1>5, <1>8 DEF IInv, SessionTypeOK
  <2>2. SessionTypeOK'
    BY <1>1, <1>3, <2>1 DEF IInv, SessionTypeOK
  <2>3. answer.line = n
    BY <1>4, <1>8
  <2>4. Answered'
    <3> SUFFICES ASSUME NEW k \in DOMAIN output'
                 PROVE  /\ output'[k].line \in 1..n
                        /\ output'[k] = HandleMessage(output'[k].line, input[output'[k].line])
                        /\ output'[k] # NoAnswer
      BY <1>1 DEF Answered
    <3>1. CASE k \in DOMAIN output
      BY <3>1, <1>1, <2>1 DEF IInv, SessionTypeOK, Answered
    <3>2. CASE k = Len(output) + 1
      BY <3>2, <1>1, <1>8, <2>1, <2>3 DEF answer
    <3>3. QED  BY <2>1, <3>1, <3>2
  <2>5. InOrder'
    <3> SUFFICES ASSUME NEW j \in DOMAIN output', NEW k \in DOMAIN output', j < k
                 PROVE  output'[j].line < output'[k].line
      BY DEF InOrder
    <3>1. j \in DOMAIN output
      BY <2>1
    <3>2. CASE k \in DOMAIN output
      BY <3>1, <3>2, <2>1 DEF IInv, InOrder
    <3>3. CASE k = Len(output) + 1
      <4>1. output[j].line \in 1..read
        BY <3>1 DEF IInv, Answered
      <4>2. QED  BY <3>1, <3>3, <4>1, <2>1, <2>3 DEF IInv, SessionTypeOK
    <3>4. QED  BY <2>1, <3>2, <3>3
  <2>6. Complete'
    <3> SUFFICES ASSUME NEW m \in 1..n, Answerable(input[m])
                 PROVE  \E k \in DOMAIN output' : output'[k].line = m
      BY <1>1 DEF Complete
    <3>1. CASE m = n
      BY <3>1, <2>1, <2>3
    <3>2. CASE m # n
      <4>1. PICK k \in DOMAIN output : output[k].line = m
        <5>1. m \in 1..read
          BY <3>2, <1>1 DEF IInv, SessionTypeOK
        <5>2. QED  BY <5>1, <1>1 DEF IInv, Complete
      <4>2. QED  BY <4>1, <2>1
    <3>3. QED  BY <3>1, <3>2
  <2>7. QED  BY <2>2, <2>4, <2>5, <2>6 DEF IInv
<1>9. QED  BY <1>6, <1>7, <1>8

\* Every step of either side keeps it.
LEMMA NextKeepsIInv == IInv /\ [Next]_vars => IInv'
<1> SUFFICES ASSUME IInv, [Next]_vars  PROVE IInv'
  OBVIOUS
<1>1. CASE ServeLine
  BY <1>1, ServeLineKeeps
<1>2. CASE ServeEOF
  BY <1>2 DEF ServeEOF, IInv, SessionTypeOK, Answered, InOrder, Complete
<1>3. ASSUME NEW line \in Lines, HostWrites(line)  PROVE IInv'
  <2>1. /\ input' = Append(input, line) /\ read' = read /\ output' = output
        /\ taken' = taken /\ exit' = exit /\ Len(input) < MaxLines
    BY <1>3 DEF HostWrites
  <2>2. /\ \A m \in 1..read : input'[m] = input[m]
        /\ Len(input') = Len(input) + 1 /\ input' \in Seq(Lines)
    BY <2>1 DEF IInv, SessionTypeOK
  <2>3. SessionTypeOK'
    BY <2>1, <2>2, McpServerAssumption DEF IInv, SessionTypeOK
  <2>4. Answered' /\ InOrder' /\ Complete'
    BY <2>1, <2>2 DEF IInv, Answered, InOrder, Complete
  <2>5. QED  BY <2>3, <2>4 DEF IInv
<1>4. CASE HostReads
  BY <1>4 DEF HostReads, IInv, SessionTypeOK, Answered, InOrder, Complete
<1>5. CASE HostCloses
  BY <1>5 DEF HostCloses, IInv, SessionTypeOK, Answered, InOrder, Complete
<1>6. CASE HostDies
  BY <1>6 DEF HostDies, IInv, SessionTypeOK, Answered, InOrder, Complete
<1>7. CASE UNCHANGED vars
  BY <1>7 DEF vars, IInv, SessionTypeOK, Answered, InOrder, Complete
<1>8. QED  BY <1>1, <1>2, <1>3, <1>4, <1>5, <1>6, <1>7 DEF Next

\* The invariant, of every behaviour.
LEMMA SessionInvariant == Spec => []IInv
BY InitIInv, NextKeepsIInv, PTL DEF Spec

\* Requests are answered exactly once, in order and under their own ids, and
\* notifications never, whatever is sent and wherever the session is cut off.
THEOREM RequestsAnsweredOnce == Spec => []EachAnsweredOnce
<1>1. IInv => EachAnsweredOnce
  <2> SUFFICES ASSUME IInv  PROVE EachAnsweredOnce
    OBVIOUS
  <2>1. ASSUME NEW k \in DOMAIN output
        PROVE  /\ output[k].line \in 1..read
               /\ Answerable(input[output[k].line])
               /\ output[k].id = IF input[output[k].line].form = "request" /\ input[output[k].line].id = "own"
                                 THEN output[k].line ELSE NullId
    <3> DEFINE n == output[k].line
    <3>1. n \in 1..read /\ output[k] = HandleMessage(n, input[n]) /\ output[k] # NoAnswer
      BY <2>1 DEF IInv, Answered
    <3> HIDE DEF n
    <3>2. n \in Nat \ {0} /\ input[n] \in Lines
      BY <3>1 DEF IInv, SessionTypeOK
    <3>3. /\ Answerable(input[n])
          /\ output[k].id = IF input[n].form = "request" /\ input[n].id = "own" THEN n ELSE NullId
      BY <3>1, <3>2, AnswerOfLine, McpServerAssumption
    <3>4. QED  BY <3>1, <3>3 DEF n
  <2>2. QED  BY <2>1 DEF IInv, InOrder, Complete, EachAnsweredOnce
<1>2. QED  BY <1>1, SessionInvariant, PTL

-----------------------------------------------------------------------------

\* No verdict without a text that is one document, or none.
LEMMA VerdictIsOfText ==
  ASSUME NEW text \in Texts, Run(text).error = None, NEW i \in DOMAIN text
  PROVE  Run(text).output = FromResult(Compile(text[i].spec))
<1>1. ParseError(text) = None
  BY OfflinePlanAssumption DEF Run, ParseErrors
<1>2. text # Blank /\ text # Malformed /\ ~(Len(text) > 1)
  <2>1. /\ text = Blank => ParseError(text) = "no intent provided"
        /\ text # Blank /\ text = Malformed => ParseError(text) = "parse intent"
        /\ text # Blank /\ text # Malformed /\ Len(text) > 1
             => ParseError(text) = "multiple YAML documents"
    BY DEF ParseError
  <2>2. QED  BY <1>1, <2>1, OfflinePlanAssumption DEF ParseErrors
<1>3. text \in Seq(Documents) /\ i = 1 /\ text # <<>>
  BY <1>2 DEF Texts
<1>4. Decoded(text) = text[i]
  BY <1>3 DEF Decoded
<1>5. QED  BY <1>1, <1>4 DEF Run, ParsedSpec

\* The answer to a call of plan_intent is the tool's result.
LEMMA AnswerToCall ==
  ASSUME NEW n, NEW line, PlanCall(line), HandleMessage(n, line) # NoAnswer
  PROVE  HandleMessage(n, line).body = Result(callPlanIntent(line.params.arguments))
<1> DEFINE id == IF line.id = "own" THEN n ELSE NullId
           body == dispatch("tools/call", line.params)
<1>1. line.form = "request" /\ line.version2 /\ line.method = "tools/call"
  BY DEF PlanCall
<1>2. body = Result(callPlanIntent(line.params.arguments))
  <2>1. body = toolsCall(line.params)
    BY DEF dispatch
  <2>2. QED  BY <2>1 DEF toolsCall, PlanCall
<1> HIDE DEF id, body
<1>3. HandleMessage(n, line) = [line |-> n, id |-> id, body |-> body]
  BY <1>1 DEF HandleMessage, id, body
<1>4. QED  BY <1>2, <1>3

\* A failure of the tool is one of the command, with the same words.
LEMMA FailuresAgree ==
  ASSUME NEW problem
  PROVE  /\ toolError(problem).isError <=> cliError(problem).exit # exitOK
         /\ toolError(problem).content = cliError(problem).stdout
         /\ toolError(problem).isError
<1>1. toolError(problem).isError
  BY DEF toolError
<1>2. cliError(problem).exit # exitOK
  BY DEF cliError, exitOK, exitUsage
<1>3. toolError(problem).content = cliError(problem).stdout
  BY DEF toolError, cliError
<1>4. QED  BY <1>1, <1>2, <1>3

\* A verdict of the tool is one of the command, word for word.
LEMMA VerdictsAgree ==
  ASSUME NEW verdict
  PROVE  /\ toolText(verdict).isError <=> writeOut(verdict).exit # exitOK
         /\ toolText(verdict).content = writeOut(verdict).stdout
         /\ toolText(verdict).content = verdict
<1>1. ~toolText(verdict).isError
  BY DEF toolText
<1>2. writeOut(verdict).exit = exitOK
  BY DEF writeOut, exitOK
<1>3. toolText(verdict).content = verdict /\ writeOut(verdict).stdout = verdict
  BY DEF toolText, writeOut
<1>4. QED  BY <1>1, <1>2, <1>3

\* What the tool answers to a call is what the command prints for its text.
LEMMA ToolIsCommand ==
  ASSUME NEW line \in Lines, PlanCall(line)
  PROVE  LET answer == callPlanIntent(line.params.arguments)
             command == runPlan(CalledText(line))
         IN  /\ answer.isError <=> command.exit # exitOK
             /\ answer.content = command.stdout
             /\ ~answer.isError => /\ Run(CalledText(line)).error = None
                                  /\ answer.content = Run(CalledText(line)).output
<1> DEFINE args == line.params.arguments
           text == CalledText(line)
           answer == callPlanIntent(args)
           command == runPlan(text)
           run == Run(text)
<1>1. args \notin {Missing, IllTyped}
  BY DEF PlanCall
<1>2. \/ run.error # None /\ answer = toolError(run.error) /\ command = cliError(run.error)
      \/ run.error = None /\ answer = toolText(run.output) /\ command = writeOut(run.output)
  <2>1. CASE args.intent = Missing
    <3>1. text = Blank
      BY <2>1 DEF CalledText
    <3>2. run.error = "no intent provided" /\ run.error # None
      BY <3>1, OfflinePlanAssumption DEF Run, ParseError, ParseErrors
    <3>3. answer = toolError("no intent provided")
      BY <1>1, <2>1 DEF callPlanIntent
    <3>4. command = cliError(run.error)
      BY <3>2 DEF runPlan
    <3>5. QED  BY <3>2, <3>3, <3>4
  <2>2. CASE args.intent # Missing
    <3>1. text = intentArgument(args.intent)
      BY <2>2 DEF CalledText, intentArgument
    <3>2. answer = IF run.error # None THEN toolError(run.error) ELSE toolText(run.output)
      BY <1>1, <2>2, <3>1 DEF callPlanIntent
    <3>3. command = IF run.error # None THEN cliError(run.error) ELSE writeOut(run.output)
      BY DEF runPlan
    <3> HIDE DEF text, answer, command, run
    <3>4. QED  BY <3>2, <3>3
  <2>3. QED  BY <2>1, <2>2
<1> HIDE DEF answer, command, run
<1>3. CASE run.error # None
  BY <1>2, <1>3, FailuresAgree DEF answer, command
<1>4. CASE run.error = None
  BY <1>2, <1>4, VerdictsAgree DEF answer, command, run
<1>5. QED  BY <1>3, <1>4

\* An agent that calls the tool and a user that runs the command get one answer,
\* and it is of the whole text, in whatever form it was given.
THEOREM SurfacesDoAgree == Spec => []SurfacesAgree
<1>1. IInv => SurfacesAgree
  <2> SUFFICES ASSUME IInv, NEW k \in DOMAIN output, PlanCall(input[output[k].line])
               PROVE  LET text == CalledText(input[output[k].line])
                          body == output[k].body
                      IN  /\ body.rpcError = None
                          /\ body.result.isError <=> runPlan(text).exit # exitOK
                          /\ body.result.content = runPlan(text).stdout
                          /\ ~body.result.isError =>
                               \A i \in DOMAIN text :
                                 body.result.content = FromResult(Compile(text[i].spec))
    BY DEF SurfacesAgree
  <2> DEFINE n == output[k].line
             line == input[n]
             text == CalledText(line)
  <2>1. n \in 1..read /\ output[k] = HandleMessage(n, line) /\ output[k] # NoAnswer
    BY DEF IInv, Answered
  <2>2. line \in Lines
    BY <2>1 DEF IInv, SessionTypeOK
  <2>4. output[k].body = Result(callPlanIntent(line.params.arguments))
    BY <2>1, AnswerToCall
  <2>5. /\ output[k].body.rpcError = None
        /\ output[k].body.result = callPlanIntent(line.params.arguments)
    BY <2>4 DEF Result
  <2>6. text \in Texts
    BY <2>2, CallsAssumption
  <2> HIDE DEF n, line, text
  <2>7. QED  BY <2>2, <2>5, <2>6, ToolIsCommand, VerdictIsOfText DEF n, line, text
<1>2. QED  BY <1>1, SessionInvariant, PTL

-----------------------------------------------------------------------------
(***************************************************************************)
(* A planning session, for every list of targets, presets, rates and       *)
(* payloads of any size: the verdicts are what the intent and the Semtech  *)
(* formula owe it.  Every claim is one of Compile; the invariant only says *)
(* that what is shown is compiled from what is declared.  The numbers of a *)
(* preset are looked up once (Modulations), and the time on air is from    *)
(* then on a product that grows with the frame (LongerLasts).              *)
(***************************************************************************)

BlockBits == {28, 32, 36, 40, 44}
Quarters == {64, 128, 256, 512, 1024, 2048, 4096, 8192}

\* A modulation by its spreading factor, its coding rate, the bits of a coding
\* block and the microseconds of a quarter of a symbol: what the formula and
\* the datasheet's reference need of it.
Modulates(p, sf, cr, per, quarter) ==
  /\ sf \in 7..12 /\ cr \in {5, 8} /\ per \in BlockBits /\ quarter \in Quarters
  /\ p.spreadingFactor = sf /\ p.codingRate = cr /\ p.bandwidthHz \in {125000, 250000, 500000}
  /\ 4 * (sf - 2 * LowDataRate(p)) = per
  /\ SymbolMicros(p) = 4 * quarter
  /\ 4 * sf - (IF 2^sf * 1000 >= 16 * p.bandwidthHz THEN 8 ELSE 0) = per
  /\ 2^(sf - 2) * (1000 \div (p.bandwidthHz \div 1000)) = quarter

\* Every known preset is one of eight modulations.
LEMMA Modulations ==
  ASSUME NEW preset \in KnownPresets
  PROVE  \E sf, cr, per, quarter :
           Modulates(meshtasticPresets[preset], sf, cr, per, quarter)
<1>. DEFINE p == meshtasticPresets[preset]
<1>1. /\ 2^7 = 128 /\ 2^8 = 256 /\ 2^9 = 512 /\ 2^10 = 1024 /\ 2^11 = 2048 /\ 2^12 = 4096
      /\ 2^5 = 32 /\ 2^6 = 64
  BY SMT
<1>2. \/ p = LoRa(7, 500000, 5)
      \/ p = LoRa(7, 250000, 5)
      \/ p = LoRa(8, 250000, 5)
      \/ p = LoRa(9, 250000, 5)
      \/ p = LoRa(10, 250000, 5)
      \/ p = LoRa(11, 250000, 5)
      \/ p = LoRa(11, 125000, 8)
      \/ p = LoRa(12, 125000, 8)
  BY SMT DEF KnownPresets, meshtasticPresets
<1>. HIDE DEF p
<1>3. ASSUME NEW sf \in 7..12, NEW bw \in {500000, 250000, 125000}, NEW cr \in {5, 8},
             NEW per \in BlockBits, NEW quarter \in Quarters, p = LoRa(sf, bw, cr),
             2^sf * (1000000 \div bw) = 4 * quarter,
             2^(sf - 2) * (1000 \div (bw \div 1000)) = quarter,
             4 * quarter >= 16000 <=> 2^sf * 1000 >= 16 * bw,
             4 * sf - (IF 2^sf * 1000 >= 16 * bw THEN 8 ELSE 0) = per
      PROVE  Modulates(p, sf, cr, per, quarter)
  <2>1. p.spreadingFactor = sf /\ p.bandwidthHz = bw /\ p.codingRate = cr
    BY <1>3, SMT DEF LoRa
  <2>2. SymbolMicros(p) = 4 * quarter
    BY <1>3, <2>1, SMT DEF SymbolMicros
  <2>3. LowDataRate(p) = IF 2^sf * 1000 >= 16 * bw THEN 1 ELSE 0
    BY <1>3, <2>2, SMT DEF LowDataRate
  <2>4. 4 * (sf - 2 * LowDataRate(p)) = per
    BY <1>3, <2>3, SMT
  <2>. QED
    BY <1>3, <2>1, <2>2, <2>4, SMT DEF Modulates
<1>4. \/ Modulates(p, 7, 5, 28, 64)
      \/ Modulates(p, 7, 5, 28, 128)
      \/ Modulates(p, 8, 5, 32, 256)
      \/ Modulates(p, 9, 5, 36, 512)
      \/ Modulates(p, 10, 5, 40, 1024)
      \/ Modulates(p, 11, 5, 44, 2048)
      \/ Modulates(p, 11, 8, 36, 4096)
      \/ Modulates(p, 12, 8, 40, 8192)
  BY <1>1, <1>2, <1>3, SMT DEF BlockBits, Quarters
<1>. QED
  BY <1>4, SMT DEF p, BlockBits, Quarters

\* A product grows with its factors.
LEMMA MulMono == \A a, b, c \in Int : a <= b /\ c >= 0 => a * c <= b * c
BY SMT

\* The ceiling carries the bits, and one block less does not.
LEMMA Ceilings ==
  ASSUME NEW per \in BlockBits, NEW bits \in Int
  PROVE  /\ Ceiling(bits, per) \in Int
         /\ Ceiling(bits, per) * per >= bits
         /\ (Ceiling(bits, per) - 1) * per < bits
BY SMT DEF Ceiling, BlockBits

\* More bits take no fewer blocks.
LEMMA CeilingsGrow ==
  ASSUME NEW per \in BlockBits, NEW a \in Int, NEW b \in Int, a <= b
  PROVE  Ceiling(a, per) <= Ceiling(b, per)
BY SMT DEF Ceiling, BlockBits

\* The symbols that carry a frame's bits, block by block.
Coded(bytes, sf, cr, per) ==
  LET blocks == Ceiling(8 * bytes - 4 * sf + 44, per)
  IN  IF blocks > 0 THEN blocks * cr ELSE 0

\* The quarters of a symbol a frame lasts: 20.25 symbols of preamble, eight of
\* header, and those of its blocks.
Lasts(bytes, sf, cr, per) == 113 + 4 * Coded(bytes, sf, cr, per)

\* A longer frame takes no fewer coded symbols.
LEMMA CodedGrows ==
  ASSUME NEW sf \in 7..12, NEW cr \in {5, 8}, NEW per \in BlockBits,
         NEW a \in Int, NEW b \in Int, a <= b
  PROVE  /\ Coded(a, sf, cr, per) \in Nat /\ Coded(b, sf, cr, per) \in Nat
         /\ Coded(a, sf, cr, per) <= Coded(b, sf, cr, per)
<1>. DEFINE Bits(bytes) == 8 * bytes - 4 * sf + 44
            blocks(bytes) == Ceiling(Bits(bytes), per)
<1>1. Bits(a) \in Int /\ Bits(b) \in Int /\ Bits(a) <= Bits(b)
  OBVIOUS
<1>. HIDE DEF Bits
<1>2. blocks(a) \in Int /\ blocks(b) \in Int /\ blocks(a) <= blocks(b)
  BY <1>1, Ceilings, CeilingsGrow
<1>3. /\ Coded(a, sf, cr, per) = IF blocks(a) > 0 THEN blocks(a) * cr ELSE 0
      /\ Coded(b, sf, cr, per) = IF blocks(b) > 0 THEN blocks(b) * cr ELSE 0
  BY DEF Coded, Bits
<1>. HIDE DEF blocks
<1>. QED
  BY <1>2, <1>3

\* The time on air is the quarters of a symbol a frame lasts, times their length.
LEMMA TimeOnAirIs ==
  ASSUME NEW p, NEW sf, NEW cr, NEW per, NEW quarter, NEW bytes \in Int,
         Modulates(p, sf, cr, per, quarter)
  PROVE  TimeOnAir(p, bytes) = Lasts(bytes, sf, cr, per) * quarter
<1>. DEFINE n == Coded(bytes, sf, cr, per)
<1>. /\ sf \in 7..12 /\ cr \in {5, 8} /\ per \in BlockBits /\ quarter \in Quarters
  BY DEF Modulates
<1>1. 8 * bytes - 4 * sf + 44 \in Int /\ 8 * bytes - 4 * sf + 28 + 16 = 8 * bytes - 4 * sf + 44
  OBVIOUS
<1>2. PayloadSymbols(p, bytes) = 8 + n
  BY <1>1 DEF PayloadSymbols, Modulates, Coded
<1>3. n \in Int
  BY CodedGrows
<1>. HIDE DEF n
<1>4. TimeOnAir(p, bytes) = ((81 + 4 * (8 + n)) * (4 * quarter)) \div 4
  BY <1>2 DEF TimeOnAir, Modulates
<1>5. ((81 + 4 * (8 + n)) * (4 * quarter)) \div 4 = (113 + 4 * n) * quarter
  BY <1>3, SMT DEF Quarters
<1>. QED
  BY <1>4, <1>5 DEF n, Lasts

\* A longer frame lasts no shorter time.
LEMMA LongerLasts ==
  ASSUME NEW preset \in KnownPresets, NEW a \in Int, NEW b \in Int, a <= b
  PROVE  /\ TimeOnAir(meshtasticPresets[preset], a) \in Nat
         /\ TimeOnAir(meshtasticPresets[preset], b) \in Nat
         /\ TimeOnAir(meshtasticPresets[preset], a) <= TimeOnAir(meshtasticPresets[preset], b)
<1>. DEFINE p == meshtasticPresets[preset]
<1>1. PICK sf, cr, per, quarter : Modulates(p, sf, cr, per, quarter)
  BY Modulations, Zenon
<1>. /\ sf \in 7..12 /\ cr \in {5, 8} /\ per \in BlockBits /\ quarter \in Quarters
  BY <1>1 DEF Modulates
<1>. DEFINE x == Lasts(a, sf, cr, per)
            y == Lasts(b, sf, cr, per)
<1>2. TimeOnAir(p, a) = x * quarter /\ TimeOnAir(p, b) = y * quarter
  BY <1>1, TimeOnAirIs
<1>3. x \in Nat /\ y \in Nat /\ x <= y
  BY CodedGrows DEF Lasts
<1>4. quarter \in Nat
  BY DEF Quarters
<1>. HIDE DEF x, y
<1>. QED
  BY <1>2, <1>3, <1>4, MulMono, SMT DEF p

\* The least number of blocks that carries the bits is the ceiling.
LEMMA LeastBlocks ==
  ASSUME NEW per \in BlockBits, NEW bits \in Nat, bits > 0
  PROVE  /\ Ceiling(bits, per) > 0
         /\ (CHOOSE n \in 0..bits : n * per >= bits /\ \A m \in 0..(n - 1) : m * per < bits)
               = Ceiling(bits, per)
<1>. DEFINE c == Ceiling(bits, per)
            Least(n) == n * per >= bits /\ \A m \in 0..(n - 1) : m * per < bits
<1>1. per \in Nat \ {0}
  BY DEF BlockBits
<1>2. c \in Int /\ c * per >= bits /\ (c - 1) * per < bits
  BY Ceilings
<1>3. c \in 1..bits
  BY SMT DEF Ceiling, BlockBits
<1>. HIDE DEF c
<1>4. \A m \in 0..(c - 1) : m * per < bits
  <2>. SUFFICES ASSUME NEW m \in 0..(c - 1)  PROVE m * per < bits
    OBVIOUS
  <2>1. m * per <= (c - 1) * per
    BY <1>1, <1>3, MulMono
  <2>2. m * per \in Int /\ (c - 1) * per \in Int
    BY <1>1, <1>3
  <2>. QED
    BY <1>2, <2>1, <2>2
<1>5. Least(c)
  BY <1>2, <1>4
<1>6. ASSUME NEW n \in 0..bits, Least(n)  PROVE n = c
  <2>1. CASE n < c
    <3>1. n \in 0..(c - 1)
      BY <1>3, <2>1
    <3>2. n * per < bits
      BY <1>4, <3>1
    <3>3. n * per >= bits /\ n * per \in Int
      BY <1>1, <1>6
    <3>. QED
      BY <3>2, <3>3
  <2>2. CASE n > c
    <3>1. c \in 0..(n - 1)
      BY <1>3, <2>2
    <3>2. c * per < bits
      BY <1>6, <3>1
    <3>. QED
      BY <1>1, <1>2, <3>2, SMT
  <2>. QED
    BY <1>3, <2>1, <2>2
<1>. HIDE DEF Least
<1>7. (CHOOSE n \in 0..bits : Least(n)) = c
  BY <1>3, <1>5, <1>6
<1>. QED
  BY <1>3, <1>7 DEF c, Least

\* The closed formula counts what the datasheet's definition counts out.
LEMMA FormulaIsReference ==
  ASSUME NEW preset \in KnownPresets, NEW bytes \in Nat, bytes >= 17
  PROVE  TimeOnAir(meshtasticPresets[preset], bytes)
           = ReferenceMicros(meshtasticPresets[preset], bytes)
<1>. DEFINE p == meshtasticPresets[preset]
<1>1. PICK sf, cr, per, quarter : Modulates(p, sf, cr, per, quarter)
  BY Modulations, Zenon
<1>. /\ sf \in 7..12 /\ cr \in {5, 8} /\ per \in BlockBits /\ quarter \in Quarters
     /\ p.spreadingFactor = sf /\ p.codingRate = cr /\ p.bandwidthHz \in {125000, 250000, 500000}
  BY <1>1, SMT DEF Modulates
<1>. DEFINE bits == 8 * bytes - 4 * sf + 44
            blocks == Ceiling(bits, per)
            a == 2^(sf - 2)
            b == 1000 \div (p.bandwidthHz \div 1000)
<1>2. bits \in Nat /\ bits > 0
  OBVIOUS
<1>3. blocks \in Int /\ blocks > 0
  BY <1>2, Ceilings, LeastBlocks
<1>4. TimeOnAir(p, bytes) = (113 + 4 * (blocks * cr)) * quarter
  BY <1>1, <1>3, TimeOnAirIs, SMT DEF Lasts, Coded
<1>5. a \in Int /\ b \in Int /\ a * b = quarter
  <2>1. a \in Int
    <3>1. \A n \in Nat : 2^n \in Int
      BY SMT
    <3>. QED
      BY <3>1, SMT
  <2>2. b \in Int
    BY SMT
  <2>. QED
    BY <1>1, <2>1, <2>2, SMT DEF Modulates
<1>6. ReferenceMicros(p, bytes) = (4 * 16 + 17 + 4 * (8 + blocks * cr)) * a * b
  <2>. DEFINE bit == 8 * bytes - 4 * p.spreadingFactor + 44
              block == 4 * p.spreadingFactor
                       - (IF 2^p.spreadingFactor * 1000 >= 16 * p.bandwidthHz THEN 8 ELSE 0)
              least == CHOOSE n \in 0..bit : n * block >= bit /\ \A m \in 0..(n - 1) : m * block < bit
  <2>1. bit = bits
    OBVIOUS
  <2>2. block = per
    BY <1>1, SMT DEF Modulates
  <2>3. ReferenceMicros(p, bytes)
          = (4 * 16 + 17 + 4 * (8 + least * p.codingRate)) * 2^(p.spreadingFactor - 2) * b
    BY DEF ReferenceMicros
  <2>. HIDE DEF bit, block, bits
  <2>4. least = Ceiling(bit, block)
    BY <1>2, <2>1, <2>2, LeastBlocks
  <2>. HIDE DEF least
  <2>. QED
    BY <2>1, <2>2, <2>3, <2>4
<1>. HIDE DEF blocks, a, b, bits
<1>. DEFINE n == blocks * cr
<1>7. n \in Int
  BY <1>3
<1>. HIDE DEF n
<1>8. (4 * 16 + 17 + 4 * (8 + n)) * a * b = (113 + 4 * n) * (a * b)
  BY <1>5, <1>7, SMT
<1>. QED
  BY <1>4, <1>5, <1>6, <1>8, SMT DEF n

\* A set of naturals that is not empty has a least element.
LEMMA LeastNatural ==
  ASSUME NEW K \in SUBSET Nat, K # {}
  PROVE  \E i \in K : \A j \in K : i <= j
<1>. DEFINE R == OpToRel(<, Nat)
<1>1. PICK i \in K : \A j \in K : ~ (<<j, i>> \in R)
  BY NatLessThanWellFounded, WFMin, Zenon
<1>2. \A j \in K : j < i => <<j, i>> \in R
  BY DEF OpToRel
<1>3. \A j \in K : i <= j
  <2>1. \A j \in K : ~(j < i)
    BY <1>1, <1>2, Zenon
  <2>. QED
    BY <2>1
<1>. QED
  BY <1>3
\* The names are as many as the targets just when no two are the same.
LEMMA DistinctNames ==
  ASSUME NEW T, NEW nodes \in Seq(T)
  PROVE  LET names == {nodes[i].name : i \in DOMAIN nodes}
         IN  /\ Cardinality(names) \in Nat
             /\ Cardinality(names) > 0 <=> nodes # <<>>
             /\ Cardinality(names) = Len(nodes) <=> ~DuplicateName(nodes)
<1>. DEFINE n == Len(nodes)
            names == {nodes[i].name : i \in DOMAIN nodes}
            f == [i \in 1..n |-> nodes[i].name]
<1>1. n \in Nat /\ DOMAIN nodes = 1..n /\ (nodes # <<>> <=> n > 0)
  OBVIOUS
<1>2. IsFiniteSet(1..n) /\ Cardinality(1..n) = n
  <2>1. Cardinality(1..n) = IF 1 > n THEN 0 ELSE n - 1 + 1
    BY <1>1, FS_Interval
  <2>. QED
    BY <1>1, <2>1, FS_Interval
<1>3. f \in Surjection(1..n, names)
  BY <1>1 DEF Surjection
<1>4. /\ IsFiniteSet(names)
      /\ Cardinality(names) = n <=> f \in Injection(1..n, names)
  BY <1>2, <1>3, FS_Surjection
<1>5. f \in Injection(1..n, names) <=> ~DuplicateName(nodes)
  BY <1>1, <1>3 DEF Surjection, Injection, IsInjective, DuplicateName
<1>6. Cardinality(names) \in Nat /\ (Cardinality(names) = 0 <=> names = {})
  BY <1>4, FS_CardinalityType, FS_EmptySet
<1>7. names = {} <=> n = 0
  <2>1. CASE n = 0
    <3>1. DOMAIN nodes = {}
      BY <1>1, <2>1
    <3>. QED
      BY <2>1, <3>1
  <2>2. CASE n # 0
    <3>1. 1 \in DOMAIN nodes
      BY <1>1, <2>2
    <3>2. nodes[1].name \in names
      BY <3>1, Zenon
    <3>. QED
      BY <2>2, <3>2
  <2>. QED
    BY <2>1, <2>2
<1>. HIDE DEF names, f, n
<1>8. Cardinality(names) > 0 <=> nodes # <<>>
  BY <1>1, <1>6, <1>7
<1>. QED
  BY <1>4, <1>5, <1>6, <1>8 DEF names, n

\* What is selected is the first usable preset, and nothing when there is none.
LEMMA SelectedIsFirst ==
  ASSUME NEW approved \in Seq(STRING), None \notin KnownPresets
  PROVE  LET usable == {i \in DOMAIN approved : approved[i] \in KnownPresets}
         IN  /\ Selected(approved) # None <=> usable # {}
             /\ usable # {} => \E i \in usable : /\ \A j \in usable : i <= j
                                                 /\ Selected(approved) = approved[i]
<1>. DEFINE usable == {i \in DOMAIN approved : approved[i] \in KnownPresets}
            first == CHOOSE i \in usable : \A j \in usable : i <= j
<1>1. Selected(approved) = IF usable = {} THEN None ELSE approved[first]
  BY Zenon DEF Selected
<1>2. usable \subseteq Nat
  OBVIOUS
<1>3. ASSUME usable # {}
      PROVE  first \in usable /\ \A j \in usable : first <= j
  <2>. HIDE DEF usable
  <2>1. \E i \in usable : \A j \in usable : i <= j
    BY <1>2, <1>3, LeastNatural
  <2>. QED
    BY <2>1, Zenon
<1>4. ASSUME usable # {}  PROVE approved[first] # None
  <2>1. first \in usable
    BY <1>3, <1>4
  <2>. QED
    BY <2>1
<1>. HIDE DEF first, usable
<1>5. usable # {} => \E i \in usable : (\A j \in usable : i <= j) /\ Selected(approved) = approved[i]
  BY <1>1, <1>3
<1>. QED
  BY <1>1, <1>4, <1>5 DEF usable

\* A spec whose targets and presets are lists and whose numbers are numbers.
ListsOK(s) ==
  /\ \E T : s.nodes \in Seq(T)
  /\ s.approved \in Seq(STRING)
  /\ s.traffic # None => s.traffic \in [rate : Int, payload : Int]

\* The air time of a fleet.
LEMMA FleetAirtimeIs ==
  ASSUME NEW preset \in KnownPresets, NEW n \in Nat \ {0}, NEW rate \in Nat \ {0}, NEW payload \in
  Nat \ {0}
  PROVE  /\ TimeOnAir(meshtasticPresets[preset], payload + MeshFrameHeaderBytes) \in Nat
         /\ FleetAirtime(preset, n, rate, payload)
              = n * rate * TimeOnAir(meshtasticPresets[preset], payload + MeshFrameHeaderBytes)
         /\ FleetAirtime(preset, n, rate, payload) \in Nat
<1>. DEFINE t == TimeOnAir(meshtasticPresets[preset], payload + MeshFrameHeaderBytes)
<1>1. t \in Nat
  <2>1. payload + MeshFrameHeaderBytes \in Int
    BY DEF MeshFrameHeaderBytes
  <2>. QED
    BY <2>1, LongerLasts
<1>2. FleetAirtime(preset, n, rate, payload) = n * rate * t
  BY SMT DEF FleetAirtime
<1>. HIDE DEF t
<1>3. n * rate * t \in Nat
  BY <1>1, SMT
<1>. QED
  BY <1>1, <1>2, <1>3 DEF t

\* The rounded percentage contradicts the verdict nowhere but at the ceiling.
LEMMA PercentIsRounded ==
  ASSUME NEW airtime \in Nat
  PROVE  /\ RoundedPercent(airtime) < RecommendedChannelUtilizationPercent => WithinChannelBudget(airtime)
         /\ RoundedPercent(airtime) > RecommendedChannelUtilizationPercent => ~WithinChannelBudget(airtime)
<1>1. OnePercentMicros = 600000
  BY SMT DEF OnePercentMicros, MinuteMicros
<1>. QED
  BY <1>1, SMT DEF RoundedPercent, WithinChannelBudget, RecommendedChannelUtilizationPercent

\* What Compile makes of a spec it can render, and of one it cannot.
LEMMA CompileIs ==
  ASSUME NEW s, ListsOK(s), None \notin KnownPresets
  PROVE  LET preset == Selected(s.approved)
             renders == s.nodes # <<>> /\ ~DuplicateName(s.nodes) /\ preset # None
             r == Compile(s)
         IN  /\ renders => /\ r.feasible = TRUE /\ r.selected = preset
                           /\ r.proposed = Rendered(s, preset)
                           /\ r.airtime = evaluateAirtime(s, preset, Len(s.nodes))
             /\ ~renders => /\ r.feasible = FALSE /\ r.selected = None
                            /\ r.proposed = <<>>
                            /\ r.airtime.evaluated = FALSE /\ r.airtime.percent = 0
                            /\ r.airtime.reason # "OverBudget"
<1>. DEFINE preset == Selected(s.approved)
            renders == s.nodes # <<>> /\ ~DuplicateName(s.nodes) /\ preset # None
<1>1. s.approved = <<>> => preset = None
  <2>1. s.approved \in Seq(STRING)
    BY DEF ListsOK
  <2>2. s.approved = <<>> => {i \in DOMAIN s.approved : s.approved[i] \in KnownPresets} = {}
    BY <2>1
  <2>. QED
    BY <2>1, <2>2, SelectedIsFirst
<1>2. ASSUME renders
      PROVE  Compile(s) = [feasible |-> TRUE, reason |-> "Renderable", selected |-> preset,
                           proposed |-> Rendered(s, preset),
                           airtime |-> evaluateAirtime(s, preset, Len(s.nodes))]
  BY <1>1, <1>2, Zenon DEF Compile
<1>3. ASSUME ~renders
      PROVE  \E reason : Compile(s) = Infeasible(reason)
  BY <1>3, Zenon DEF Compile
<1>4. \A reason : LET r == Infeasible(reason)
                  IN  /\ r.feasible = FALSE /\ r.selected = None
                      /\ r.proposed = <<>>
                      /\ r.airtime.evaluated = FALSE /\ r.airtime.percent = 0
                      /\ r.airtime.reason # "OverBudget"
  BY Zenon DEF Infeasible
<1>. HIDE DEF preset
<1>5. renders => /\ Compile(s).feasible = TRUE /\ Compile(s).selected = preset
                 /\ Compile(s).proposed = Rendered(s, preset)
                 /\ Compile(s).airtime = evaluateAirtime(s, preset, Len(s.nodes))
  BY <1>2
<1>. QED
  BY <1>3, <1>4, <1>5, Zenon DEF preset

-----------------------------------------------------------------------------
\* A session's spec is well formed, and what is shown is of it.
PlanInv ==
  /\ spec \in [nodes : Seq([name : Names, target : Nat]), approved : ApprovedSets,
               traffic : {None} \cup Traffics, common : {"common"}]
  /\ result = Compile(spec)

\* Every revision is compiled, and leaves a well-formed spec.
LEMMA PlanInvariant ==
  PlanSpec => []PlanInv
<1>1. PlanInit => PlanInv
  <2>1. <<>> \in Seq([name : Names, target : Nat])
    OBVIOUS
  <2>. QED
    BY <2>1 DEF PlanInit, PlanInv
<1>2. PlanInv /\ [PlanNext]_planVars => PlanInv'
  <2> SUFFICES ASSUME PlanInv, [PlanNext]_planVars  PROVE PlanInv'
    OBVIOUS
  <2>1. ASSUME NEW name \in Names, AddNode(name)
        PROVE  PlanInv'
    <3>. DEFINE node == [name |-> name, target |-> Len(spec.nodes)]
                s == [spec EXCEPT !.nodes = Append(@, [name |-> name, target |-> Len(@)])]
    <3>1. spec' = s /\ result' = Compile(s)
      BY <2>1 DEF AddNode, Revise
    <3>2. Append(spec.nodes, node) \in Seq([name : Names, target : Nat])
      BY DEF PlanInv
    <3>3. s = [spec EXCEPT !.nodes = Append(spec.nodes, node)]
      BY DEF PlanInv
    <3>. HIDE DEF node, s
    <3>. QED
      BY <3>1, <3>2, <3>3 DEF PlanInv
  <2>2. ASSUME NEW traffic \in Traffics, Retarget(traffic)
        PROVE  PlanInv'
    BY <2>2 DEF Retarget, Revise, PlanInv
  <2>3. ASSUME NEW approved \in ApprovedSets, Approve(approved)
        PROVE  PlanInv'
    BY <2>3 DEF Approve, Revise, PlanInv
  <2>4. CASE UNCHANGED planVars
    BY <2>4 DEF planVars, PlanInv
  <2>. QED
    BY <2>1, <2>2, <2>3, <2>4 DEF PlanNext
<1>. QED
  BY <1>1, <1>2, PTL DEF PlanSpec

\* A session's spec is one the lemmas on Compile are about.
LEMMA SpecHasLists ==
  ASSUME PlanInv
  PROVE  ListsOK(spec)
BY IntentPlanAssumption DEF PlanInv, ListsOK, Traffics

\* An intent is renderable exactly when every declared target can have its own
\* MeshtasticNode at a preset of the approved set (compile.go:62-129).
THEOREM RenderableIntentsAreRendered ==
  PlanSpec => []RenderableIsRendered
<1>1. PlanInv => RenderableIsRendered
  <2> SUFFICES ASSUME PlanInv  PROVE RenderableIsRendered
    OBVIOUS
  <2>. DEFINE nodes == spec.nodes
              distinct == Cardinality({nodes[i].name : i \in DOMAIN nodes})
              usable == {i \in DOMAIN spec.approved : spec.approved[i] \in KnownPresets}
              preset == Selected(spec.approved)
  <2>1. /\ distinct \in Nat
        /\ distinct > 0 <=> nodes # <<>>
        /\ distinct = Len(nodes) <=> ~DuplicateName(nodes)
    BY DistinctNames, Zenon DEF PlanInv
  <2>2. /\ preset # None <=> usable # {}
        /\ usable # {} => \E i \in usable : (\A j \in usable : i <= j) /\ preset = spec.approved[i]
    BY SelectedIsFirst, IntentPlanAssumption DEF PlanInv
  <2>3. result = Compile(spec) /\ ListsOK(spec) /\ None \notin KnownPresets
    BY SpecHasLists, IntentPlanAssumption DEF PlanInv
  <2>. DEFINE renders == nodes # <<>> /\ ~DuplicateName(nodes) /\ preset # None
  <2>4. SUFFICES
              /\ result.feasible <=> (distinct = Len(nodes) /\ distinct > 0 /\ usable # {})
              /\ Len(result.proposed) = IF result.feasible THEN distinct ELSE 0
              /\ result.feasible =>
                   \E i \in usable :
                     /\ \A j \in usable : i <= j
                     /\ \A k \in DOMAIN result.proposed :
                          /\ result.proposed[k].preset = spec.approved[i]
                          /\ result.proposed[k].name = nodes[k].name
    BY Zenon DEF RenderableIsRendered
  <2>5. CASE renders
    <3>1. /\ result.feasible = TRUE
          /\ result.proposed = Rendered(spec, preset)
      BY <2>3, <2>5, CompileIs, Zenon
    <3>2. /\ DOMAIN Rendered(spec, preset) = DOMAIN nodes
          /\ \A k \in DOMAIN nodes : /\ Rendered(spec, preset)[k].preset = preset
                                     /\ Rendered(spec, preset)[k].name = nodes[k].name
      BY DEF Rendered
    <3>3. Len(Rendered(spec, preset)) = Len(nodes)
      BY DEF Rendered, PlanInv
    <3>. HIDE DEF distinct, usable, preset, nodes
    <3>. QED
      BY <2>1, <2>2, <2>5, <3>1, <3>2, <3>3
  <2>6. CASE ~renders
    <3>1. result.feasible = FALSE /\ result.proposed = <<>>
      BY <2>3, <2>6, CompileIs, Zenon
    <3>. HIDE DEF distinct, usable, preset, nodes
    <3>. QED
      BY <2>1, <2>2, <2>6, <3>1
  <2>. QED
    BY <2>5, <2>6
<1>. QED
  BY <1>1, PlanInvariant, PTL

\* A payload that is not given is taken for a representative one.
LEMMA PayloadIsSome ==
  ASSUME NEW s, ListsOK(s), s.traffic # None
  PROVE  /\ Payload(s.traffic) \in Nat \ {0} /\ s.traffic.rate \in Int
         /\ \A preset, n : s.traffic.rate <= 0 => evaluateAirtime(s, preset, n) = NotEvaluated
<1>1. s.traffic.rate \in Int /\ s.traffic.payload \in Int
  BY DEF ListsOK
<1>2. Payload(s.traffic) \in Nat \ {0}
  BY <1>1 DEF Payload, RepresentativeFramePayloadBytes
<1>3. \A preset, n : s.traffic.rate <= 0 => evaluateAirtime(s, preset, n) = NotEvaluated
  BY Zenon DEF evaluateAirtime
<1>. QED
  BY <1>1, <1>2, <1>3

\* The air time of the fleet of a spec.
Load(s, preset, n) == FleetAirtime(preset, n, s.traffic.rate, Payload(s.traffic))

\* The verdict on airtime of a spec that renders.
LEMMA AirtimeIs ==
  ASSUME NEW s, NEW preset, NEW n, ListsOK(s), s.traffic # None, s.traffic.rate > 0,
         preset \in KnownPresets, n \in Nat \ {0}
  PROVE  /\ Load(s, preset, n) \in Nat
         /\ evaluateAirtime(s, preset, n).evaluated = TRUE
         /\ evaluateAirtime(s, preset, n).within = WithinChannelBudget(Load(s, preset, n))
         /\ evaluateAirtime(s, preset, n).percent = RoundedPercent(Load(s, preset, n))
         /\ evaluateAirtime(s, preset, n).reason
              = IF WithinChannelBudget(Load(s, preset, n)) THEN "WithinBudget" ELSE "OverBudget"
<1>. DEFINE airtime == Load(s, preset, n)
<1>1. airtime \in Nat
  BY PayloadIsSome, FleetAirtimeIs DEF Load
<1>2. evaluateAirtime(s, preset, n)
        = [evaluated |-> TRUE, within |-> WithinChannelBudget(airtime),
           percent |-> RoundedPercent(airtime),
           reason |-> IF WithinChannelBudget(airtime) THEN "WithinBudget" ELSE "OverBudget"]
  <2>1. ~(s.traffic.rate <= 0)
    BY PayloadIsSome
  <2>. QED
    BY <2>1, Zenon DEF evaluateAirtime, Load
<1>. HIDE DEF airtime
<1>. QED
  BY <1>1, <1>2 DEF airtime

\* What a spec that renders is compiled to.
LEMMA RenderedVerdict ==
  ASSUME PlanInv, result.feasible
  PROVE  /\ result.selected \in KnownPresets
         /\ Len(spec.nodes) \in Nat \ {0}
         /\ ListsOK(spec)
         /\ result.airtime = evaluateAirtime(spec, result.selected, Len(spec.nodes))
<1>1. /\ result = Compile(spec) /\ ListsOK(spec) /\ None \notin KnownPresets
      /\ spec.approved \in Seq(STRING)
      /\ spec.nodes \in Seq([name : Names, target : Nat])
  BY SpecHasLists, IntentPlanAssumption DEF PlanInv
<1>2. /\ spec.nodes # <<>> /\ Selected(spec.approved) # None
      /\ result.selected = Selected(spec.approved)
      /\ result.airtime = evaluateAirtime(spec, Selected(spec.approved), Len(spec.nodes))
  BY <1>1, CompileIs, Zenon
<1>3. Selected(spec.approved) \in KnownPresets
  BY <1>1, <1>2, SelectedIsFirst
<1>. QED
  BY <1>1, <1>2, <1>3

\* A verdict on airtime is given only for a fleet that renders and declares
\* traffic, and the percentage shown beside it contradicts it at no value but
\* the ceiling itself (compile.go:137-188).
THEOREM PercentsFitVerdicts ==
  PlanSpec => []PercentFitsVerdict
<1>1. PlanInv => PercentFitsVerdict
  <2> SUFFICES ASSUME PlanInv  PROVE PercentFitsVerdict
    OBVIOUS
  <2>. DEFINE a == result.airtime
              ceiling == RecommendedChannelUtilizationPercent
              declares == spec.traffic # None /\ spec.traffic.rate > 0
  <2>1. ceiling = RecommendedChannelUtilizationPercent
    BY DEF RecommendedChannelUtilizationPercent, RecommendedChannelUtilizationPercent
  <2>2. ceiling = 25
    BY DEF RecommendedChannelUtilizationPercent
  <2>. SUFFICES
         /\ a.evaluated <=> (result.feasible /\ declares)
         /\ a.evaluated /\ a.percent < ceiling => a.within
         /\ a.evaluated /\ a.percent > ceiling => ~a.within
         /\ ~a.evaluated => a.percent = 0
    BY <2>1, Zenon DEF PercentFitsVerdict
  <2>3. CASE ~result.feasible
    <3>1. result = Compile(spec) /\ ListsOK(spec) /\ None \notin KnownPresets
      BY SpecHasLists, IntentPlanAssumption DEF PlanInv
    <3>2. a.evaluated = FALSE /\ a.percent = 0
      BY <2>3, <3>1, CompileIs, Zenon
    <3>. QED
      BY <2>3, <3>2, Zenon
  <2>4. CASE result.feasible /\ ~declares
    <3>1. a = NotEvaluated
      <4>1. CASE spec.traffic = None
        BY <2>4, <4>1, RenderedVerdict, Zenon DEF evaluateAirtime
      <4>2. CASE spec.traffic # None
        <5>1. spec.traffic.rate <= 0
          BY <2>4, <4>2, RenderedVerdict DEF ListsOK
        <5>. QED
          BY <2>4, <4>2, <5>1, RenderedVerdict, PayloadIsSome, Zenon
      <4>. QED
        BY <4>1, <4>2
    <3>2. a.evaluated = FALSE /\ a.percent = 0
      BY <3>1 DEF NotEvaluated
    <3>. QED
      BY <2>4, <3>2, Zenon
  <2>5. CASE result.feasible /\ declares
    <3>. DEFINE airtime == Load(spec, result.selected, Len(spec.nodes))
    <3>1. /\ airtime \in Nat /\ a.evaluated = TRUE
          /\ a.within = WithinChannelBudget(airtime) /\ a.percent = RoundedPercent(airtime)
      <4>1. /\ result.selected \in KnownPresets /\ Len(spec.nodes) \in Nat \ {0} /\ ListsOK(spec)
            /\ a = evaluateAirtime(spec, result.selected, Len(spec.nodes))
        BY <2>5, RenderedVerdict
      <4>2. spec.traffic # None /\ spec.traffic.rate > 0
        BY <2>5
      <4>3. /\ airtime \in Nat
            /\ evaluateAirtime(spec, result.selected, Len(spec.nodes)).evaluated = TRUE
            /\ evaluateAirtime(spec, result.selected, Len(spec.nodes)).within = WithinChannelBudget(airtime)
            /\ evaluateAirtime(spec, result.selected, Len(spec.nodes)).percent = RoundedPercent(airtime)
        BY <4>1, <4>2, AirtimeIs, Zenon
      <4>. QED
        BY <4>1, <4>3, Zenon
    <3>. HIDE DEF airtime
    <3>2. /\ RoundedPercent(airtime) < ceiling => WithinChannelBudget(airtime)
          /\ RoundedPercent(airtime) > ceiling => ~WithinChannelBudget(airtime)
      BY <3>1, PercentIsRounded
    <3>. QED
      BY <2>5, <3>1, <3>2, Zenon
  <2>. QED
    BY <2>3, <2>4, <2>5
<1>. QED
  BY <1>1, PlanInvariant, PTL

\* The closed formula of the time on air gives what the datasheet's definition
\* counts out block by block, for every preset and the payload declared
\* (airtime.go:64-99).
THEOREM TimesOnAirAreSemtech ==
  PlanSpec => []TimeOnAirIsSemtech
<1>1. PlanInv => TimeOnAirIsSemtech
  <2> SUFFICES ASSUME PlanInv, spec.traffic # None, NEW preset \in KnownPresets
               PROVE  LET bytes == Payload(spec.traffic) + MeshFrameHeaderBytes
                          p == meshtasticPresets[preset]
                      IN  TimeOnAir(p, bytes) = ReferenceMicros(p, bytes)
    BY Zenon DEF TimeOnAirIsSemtech
  <2>1. Payload(spec.traffic) \in Nat \ {0}
    <3>1. spec.traffic.payload \in Int
      BY SpecHasLists DEF ListsOK
    <3>. QED
      BY <3>1 DEF Payload, RepresentativeFramePayloadBytes
  <2>. DEFINE bytes == Payload(spec.traffic) + MeshFrameHeaderBytes
  <2>2. bytes \in Nat /\ bytes >= 17
    BY <2>1 DEF MeshFrameHeaderBytes
  <2>3. Payload(spec.traffic) + MeshFrameHeaderBytes = bytes
    BY DEF MeshFrameHeaderBytes, MeshFrameHeaderBytes
  <2>. HIDE DEF bytes
  <2>. QED
    BY <2>2, <2>3, FormulaIsReference
<1>. QED
  BY <1>1, PlanInvariant, PTL

\* A revision that only adds load makes no fleet's air time shorter.
LEMMA LoadAddsUp ==
  ASSUME NEW preset \in KnownPresets,
         NEW n \in Nat \ {0}, NEW rate \in Nat \ {0}, NEW payload \in Nat \ {0},
         NEW n2 \in Nat \ {0}, NEW rate2 \in Nat \ {0}, NEW payload2 \in Nat \ {0},
         n <= n2, rate <= rate2, payload <= payload2
  PROVE  FleetAirtime(preset, n, rate, payload) <= FleetAirtime(preset, n2, rate2, payload2)
<1>. DEFINE t == TimeOnAir(meshtasticPresets[preset], payload + MeshFrameHeaderBytes)
            t2 == TimeOnAir(meshtasticPresets[preset], payload2 + MeshFrameHeaderBytes)
<1>1. t \in Nat /\ t2 \in Nat /\ t <= t2
  <2>1. /\ payload + MeshFrameHeaderBytes \in Int /\ payload2 + MeshFrameHeaderBytes \in Int
        /\ payload + MeshFrameHeaderBytes <= payload2 + MeshFrameHeaderBytes
    BY DEF MeshFrameHeaderBytes
  <2>. QED
    BY <2>1, LongerLasts
<1>2. /\ FleetAirtime(preset, n, rate, payload) = n * rate * t
      /\ FleetAirtime(preset, n2, rate2, payload2) = n2 * rate2 * t2
  BY FleetAirtimeIs
<1>. HIDE DEF t, t2
<1>. DEFINE m == n * rate
            m2 == n2 * rate2
<1>3. m \in Nat /\ m2 \in Nat /\ m <= m2
  <2>1. n * rate <= n2 * rate
    BY MulMono
  <2>2. rate * n2 <= rate2 * n2
    BY MulMono
  <2>. QED
    BY <2>1, <2>2, SMT
<1>. HIDE DEF m, m2
<1>4. m * t <= m2 * t2
  <2>1. m * t <= m2 * t
    BY <1>1, <1>3, MulMono
  <2>2. t * m2 <= t2 * m2
    BY <1>1, <1>3, MulMono
  <2>. QED
    BY <1>1, <1>3, <2>1, <2>2, SMT
<1>. QED
  BY <1>2, <1>4 DEF m, m2

\* An over-budget verdict is authoritative: as long as the preset stays, no
\* revision that only adds load turns it into "within budget" (compile.go:132-136).
THEOREM OverBudgetStays ==
  PlanSpec => OverBudgetIsFinal
<1>1. ASSUME PlanInv, PlanInv', result.airtime.reason = "OverBudget", AddsLoad, result'.feasible
      PROVE  result'.airtime.reason = "OverBudget"
  <2>. DEFINE Airtime(s, preset) == Load(s, preset, Len(s.nodes))
  <2>1. result.feasible
    <3>1. ASSUME ~result.feasible PROVE FALSE
      <4>1. result = Compile(spec) /\ ListsOK(spec) /\ None \notin KnownPresets
        BY <1>1, SpecHasLists, IntentPlanAssumption DEF PlanInv
      <4>. QED
        BY <1>1, <3>1, <4>1, CompileIs, Zenon
    <3>. QED
      BY <3>1
  <2>2. /\ result.selected \in KnownPresets
        /\ Len(spec.nodes) \in Nat \ {0} /\ ListsOK(spec)
        /\ result.airtime = evaluateAirtime(spec, result.selected, Len(spec.nodes))
    BY <1>1, <2>1, RenderedVerdict
  <2>3. /\ result'.selected = result.selected
        /\ Len(spec'.nodes) \in Nat \ {0} /\ ListsOK(spec')
        /\ result'.airtime = evaluateAirtime(spec', result.selected, Len(spec'.nodes))
    <3>1. /\ result' = Compile(spec') /\ ListsOK(spec') /\ None \notin KnownPresets
          /\ spec'.nodes \in Seq([name : Names, target : Nat])
      BY <1>1, IntentPlanAssumption DEF PlanInv, ListsOK, Traffics
    <3>2. /\ spec'.nodes # <<>>
          /\ result'.selected = Selected(spec'.approved)
          /\ result'.airtime = evaluateAirtime(spec', Selected(spec'.approved), Len(spec'.nodes))
      BY <1>1, <3>1, CompileIs, Zenon
    <3>. QED
      BY <1>1, <3>1, <3>2 DEF AddsLoad
  <2>4. /\ Len(spec.nodes) <= Len(spec'.nodes)
        /\ spec.traffic # None /\ spec'.traffic # None
        /\ spec.traffic.rate <= spec'.traffic.rate
        /\ Payload(spec.traffic) <= Payload(spec'.traffic)
    <3>1. /\ Len(spec'.nodes) >= Len(spec.nodes)
          /\ spec.traffic # None /\ spec'.traffic # None
          /\ spec'.traffic.rate >= spec.traffic.rate
          /\ Payload(spec'.traffic) >= Payload(spec.traffic)
      BY <1>1, Zenon DEF AddsLoad
    <3>2. /\ Payload(spec.traffic) \in Nat /\ Payload(spec'.traffic) \in Nat
          /\ spec.traffic.rate \in Int /\ spec'.traffic.rate \in Int
      <4>1. Payload(spec.traffic) \in Nat /\ Payload(spec'.traffic) \in Nat
        BY <2>2, <2>3, <3>1, PayloadIsSome
      <4>. QED
        BY <2>2, <2>3, <3>1, <4>1 DEF ListsOK
    <3>. QED
      BY <2>2, <2>3, <3>1, <3>2
  <2>5. spec.traffic.rate \in Nat \ {0} /\ ~WithinChannelBudget(Airtime(spec, result.selected))
    <3>1. spec.traffic.rate \in Int
      BY <2>2, <2>4 DEF ListsOK
    <3>2. ~(spec.traffic.rate <= 0)
      <4>1. NotEvaluated.reason # "OverBudget"
        BY DEF NotEvaluated
      <4>. QED
        BY <1>1, <2>2, <2>4, <4>1, PayloadIsSome, Zenon
    <3>3. spec.traffic.rate > 0
      BY <3>1, <3>2
    <3>4. result.airtime.reason = IF WithinChannelBudget(Airtime(spec, result.selected))
                                  THEN "WithinBudget" ELSE "OverBudget"
      <4>1. spec.traffic # None /\ spec.traffic.rate > 0
        BY <2>4, <3>3
      <4>2. evaluateAirtime(spec, result.selected, Len(spec.nodes)).reason
              = IF WithinChannelBudget(Airtime(spec, result.selected)) THEN "WithinBudget" ELSE "OverBudget"
        BY <2>2, <4>1, AirtimeIs, Zenon
      <4>. QED
        BY <2>2, <4>2, Zenon
    <3>. QED
      BY <1>1, <3>1, <3>3, <3>4
  <2>6. /\ spec'.traffic.rate \in Nat \ {0}
        /\ Payload(spec.traffic) \in Nat \ {0} /\ Payload(spec'.traffic) \in Nat \ {0}
    <3>1. spec'.traffic.rate \in Int
      BY <2>3, <2>4 DEF ListsOK
    <3>2. Payload(spec.traffic) \in Nat \ {0} /\ Payload(spec'.traffic) \in Nat \ {0}
      BY <2>2, <2>3, <2>4, PayloadIsSome
    <3>. QED
      BY <2>4, <2>5, <3>1, <3>2
  <2>7. Airtime(spec, result.selected) <= Airtime(spec', result.selected)
    BY <2>2, <2>3, <2>4, <2>5, <2>6, LoadAddsUp DEF Load
  <2>8. Airtime(spec, result.selected) \in Nat /\ Airtime(spec', result.selected) \in Nat
    BY <2>2, <2>3, <2>5, <2>6, FleetAirtimeIs DEF Load
  <2>9. ~WithinChannelBudget(Airtime(spec', result.selected))
    <3>. HIDE DEF Airtime
    <3>1. OnePercentMicros = 600000
      BY SMT DEF OnePercentMicros, MinuteMicros
    <3>. QED
      BY <2>5, <2>7, <2>8, <3>1, SMT DEF WithinChannelBudget, RecommendedChannelUtilizationPercent
  <2>10. spec'.traffic # None /\ spec'.traffic.rate > 0
    BY <2>4, <2>6
  <2>11. evaluateAirtime(spec', result.selected, Len(spec'.nodes)).reason = "OverBudget"
    BY <2>2, <2>3, <2>9, <2>10, AirtimeIs, Zenon
  <2>. QED
    BY <2>3, <2>11, Zenon
<1>2. PlanInv /\ PlanInv' =>
        [result.airtime.reason = "OverBudget" /\ AddsLoad /\ result'.feasible
           => result'.airtime.reason = "OverBudget"]_planVars
  BY <1>1
<1>. QED
  BY <1>2, PlanInvariant, PTL DEF OverBudgetIsFinal

-----------------------------------------------------------------------------
(***************************************************************************)
(* What a scrape may rely on, for every set of bands and captures and for  *)
(* whatever their reduction: between sweeps the gauges are those of the    *)
(* last sweep, and at no instant is one older than the time stamp.         *)
(***************************************************************************)

(***************************************************************************)
(* Publish has an update for every series (publisher.go Publish).          *)
(***************************************************************************)
LEMMA UpdatesReachEverySeries ==
  /\ AllUpdates \in Seq(Series)
         /\ Series \subseteq Range(AllUpdates)
<1>. DEFINE N == Len(Bands)
            K == 1..(N * 5)
<1>1. N \in Nat /\ DOMAIN Bands = 1..N
  BY SweepAnalysisAssumption
<1>2. Len(Metrics) = 5 /\ DOMAIN Metrics = 1..5
  BY DEF Metrics
<1>3. AllUpdates
        = [k \in K |-> <<Metrics[((k - 1) % 5) + 1], ((k - 1) \div 5) + 1>>]
  BY <1>2 DEF AllUpdates
<1>4. ASSUME NEW k \in K
      PROVE  ((k - 1) % 5) + 1 \in 1..5 /\ ((k - 1) \div 5) + 1 \in 1..N
  BY <1>1
<1>5. AllUpdates \in [K -> Series]
  BY <1>1, <1>2, <1>3, <1>4 DEF Series, Range
<1>6. ASSUME NEW s \in Series
      PROVE  s \in Range(AllUpdates)
  <2>1. PICK j \in 1..5, i \in 1..N : s = <<Metrics[j], i>>
    BY <1>1, <1>2 DEF Series, Range
  <2>. DEFINE k == 5 * (i - 1) + j
  <2>2. k \in K
    BY <1>1
  <2>3. (k - 1) % 5 = j - 1 /\ (k - 1) \div 5 = i - 1
    BY <1>1
  <2>4. AllUpdates[k] = s
    BY <1>3, <2>1, <2>2, <2>3
  <2>. QED
    BY <1>3, <2>2, <2>4 DEF Range
<1>. QED
  BY <1>1, <1>5, <1>6

(***************************************************************************)
(* Taking the first update leaves all the others.                          *)
(***************************************************************************)
LEMMA RestOfUpdates ==
  ASSUME NEW S, NEW q \in Seq(S), q # <<>>
  PROVE  /\ Head(q) \in S /\ Head(q) \in Range(q)
         /\ Tail(q) \in Seq(S)
         /\ Range(q) \subseteq {Head(q)} \cup Range(Tail(q))
<1>1. /\ Head(q) \in S /\ Tail(q) \in Seq(S) /\ Len(Tail(q)) = Len(q) - 1
      /\ \A i \in 1..Len(Tail(q)) : Tail(q)[i] = q[i + 1]
  BY HeadTailProperties
<1>2. /\ Len(q) \in Nat /\ DOMAIN q = 1..Len(q)
      /\ Len(Tail(q)) \in Nat /\ DOMAIN Tail(q) = 1..Len(Tail(q))
  BY <1>1, LenProperties
<1>3. Len(q) # 0 /\ Head(q) = q[1]
  BY <1>2, EmptySeq
<1>4. ASSUME NEW k \in DOMAIN q, k # 1
      PROVE  k - 1 \in DOMAIN Tail(q) /\ Tail(q)[k - 1] = q[k]
  <2>. DEFINE i == k - 1
  <2>1. i \in 1..Len(Tail(q)) /\ i + 1 = k
    BY <1>1, <1>2, <1>4
  <2>. HIDE DEF i
  <2>2. Tail(q)[i] = q[k]
    BY <1>1, <2>1
  <2>. QED
    BY <1>2, <2>1, <2>2 DEF i
<1>5. ASSUME NEW x \in Range(q), x # Head(q)
      PROVE  x \in Range(Tail(q))
  <2>1. PICK k \in DOMAIN q : x = q[k]
    BY <1>5 DEF Range
  <2>. QED
    BY <1>3, <1>4, <1>5, <2>1 DEF Range
<1>6. Head(q) \in Range(q)
  BY <1>2, <1>3 DEF Range
<1>. QED
  BY <1>1, <1>5, <1>6

(***************************************************************************)
(* One series gets its value, or loses it, and the others keep theirs.     *)
(***************************************************************************)
LEMMA OneSeriesWritten ==
  ASSUME BooksOK, PublishedUpToHere, pc = "publish", todo # <<>>,
         Write(Head(todo), Value(Head(todo)[1], stats[Head(todo)[2]])),
         todo' = Tail(todo)
  PROVE  BooksOK' /\ PublishedUpToHere'
<1>. DEFINE u == Head(todo)
<1>1. /\ u \in Series /\ Tail(todo) \in Seq(Series)
      /\ Range(todo) \subseteq {u} \cup Range(Tail(todo))
  BY RestOfUpdates DEF PublishedUpToHere
<1>2. /\ UNCHANGED <<pc, clock, stats, sweeps, lastSweep, published>>
      /\ gauges' = [gauges EXCEPT ![u] = Value(u[1], stats[u[2]])]
      /\ written' = [written EXCEPT ![u] = clock]
  BY DEF Write, counters
<1>3. BooksOK'
  BY <1>1, <1>2 DEF BooksOK
<1>4. \A s \in Series : written'[s] = (IF s = u THEN clock ELSE written[s])
  BY <1>1, <1>2 DEF BooksOK
<1>5. \A s \in Series : Carries(s, stats)' <=> s = u \/ Carries(s, stats)
  BY <1>1, <1>2 DEF BooksOK, Carries
<1>6. NeverOlderThanStamped'
  BY <1>2, <1>4 DEF BooksOK, PublishedUpToHere, NeverOlderThanStamped
<1>7. ASSUME NEW s \in Series \ Range(Tail(todo))
      PROVE  Carries(s, stats)' /\ written'[s] = clock
  BY <1>1, <1>4, <1>5 DEF PublishedUpToHere
<1>. QED
  BY <1>1, <1>2, <1>3, <1>6, <1>7 DEF PublishedUpToHere, Carries

(***************************************************************************)
(* However far Publish has come, what it has set is of this sweep, and     *)
(* what a sweep failed to bring stays as it was (publisher.go Publish,     *)
(* PublishError).                                                          *)
(***************************************************************************)
THEOREM PublishedInOrder ==
  ExporterSpec => [](BooksOK /\ PublishedUpToHere)
<1>1. ExporterInit => BooksOK /\ PublishedUpToHere
  BY DEF ExporterInit, BooksOK, PublishedUpToHere, NeverOlderThanStamped
<1>2. BooksOK /\ PublishedUpToHere /\ [ExporterNext]_exporterVars
        => BooksOK' /\ PublishedUpToHere'
  <2> SUFFICES ASSUME BooksOK, PublishedUpToHere, [ExporterNext]_exporterVars
               PROVE  BooksOK' /\ PublishedUpToHere'
    OBVIOUS
  <2>1. CASE Tick
    BY <2>1 DEF Tick, counters, BooksOK, PublishedUpToHere,
        Carries, NeverOlderThanStamped
  <2>2. CASE CaptureFails \/ SenseFails
    BY <2>2
       DEF CaptureFails, SenseFails, PublishError, BooksOK,
           PublishedUpToHere, Carries,
           NeverOlderThanStamped
  <2>3. CASE Capture
    BY <2>3 DEF Capture, counters, BooksOK, PublishedUpToHere,
        Carries, NeverOlderThanStamped
  <2>4. CASE Sense
    BY <2>4, UpdatesReachEverySeries
       DEF Sense, Updates, counters, BooksOK,
           PublishedUpToHere, Carries,
           NeverOlderThanStamped
  <2>5. CASE Create
    <3>. DEFINE u == Head(todo)
    <3>1. u \in Series /\ u \in Range(todo)
      BY <2>5, RestOfUpdates DEF Create, Done, PublishedUpToHere
    <3>2. /\ UNCHANGED <<pc, clock, stats, todo, sweeps, lastSweep, written, published>>
          /\ pc = "publish"
          /\ gauges' = [gauges EXCEPT ![u] = Zero(u[1])]
      BY <2>5 DEF Create, counters
    <3>3. BooksOK'
      BY <3>2 DEF BooksOK
    <3>4. \A s \in Series \ Range(todo) : gauges'[s] = gauges[s]
      BY <3>1, <3>2 DEF BooksOK
    <3>. QED
      BY <3>2, <3>3, <3>4 DEF PublishedUpToHere, Carries,
          NeverOlderThanStamped
  <2>6. CASE Set
    BY <2>6, OneSeriesWritten DEF Set, Done
  <2>7. CASE Delete
    BY <2>7, OneSeriesWritten DEF Delete, Done
  <2>8. CASE Stamp
    <3>1. Range(todo) = {}
      BY <2>8 DEF Stamp, Done, Range
    <3>. QED
      BY <2>8, <3>1
         DEF Stamp, BooksOK, PublishedUpToHere, Carries,
             NeverOlderThanStamped
  <2>9. CASE UNCHANGED exporterVars
    BY <2>9 DEF exporterVars, counters, BooksOK, PublishedUpToHere,
        Carries, NeverOlderThanStamped
  <2>. QED
    BY <2>1, <2>2, <2>3, <2>4, <2>5, <2>6, <2>7, <2>8, <2>9 DEF ExporterNext
<1>. QED
  BY <1>1, <1>2, PTL DEF ExporterSpec

(***************************************************************************)
(* A scrape at any instant finds no value from before the sweep that the   *)
(* time stamp it reads with it names (publisher.go Publish).               *)
(***************************************************************************)
THEOREM StampComesLast ==
  ExporterSpec => []NeverOlderThanStamped
BY PublishedInOrder, PTL DEF PublishedUpToHere

(***************************************************************************)
(* Between sweeps the gauges are the last published reduction's, and a     *)
(* band it did not cover has bins at zero and no other series              *)
(* (publisher.go Publish).                                                 *)
(***************************************************************************)
THEOREM GaugesAreOfLastSweep ==
  ExporterSpec => []GaugesAreLastSweep
<1>1. PublishedUpToHere => GaugesAreLastSweep
  <2> SUFFICES ASSUME PublishedUpToHere, pc # "publish", sweeps > 0,
                      NEW i \in DOMAIN Bands
               PROVE  LET s == published[i] IN
                      /\ gauges[<<"bins", i>>] = <<s.BinCount>>
                      /\ IF s.BinCount = 0
                         THEN \A m \in Range(Metrics) \ {"bins"} : gauges[<<m, i>>] = Absent
                         ELSE /\ gauges[<<"occupancy_percent", i>>] = <<s.OccupiedBins, s.BinCount>>
                              /\ gauges[<<"peak_db", i>>] = <<s.MaxDB>>
                              /\ gauges[<<"peak_frequency_hz", i>>] = <<s.PeakFreqHz>>
                              /\ gauges[<<"noise_floor_db", i>>] = <<s.NoiseFloorDB>>
    BY DEF GaugesAreLastSweep
  <2>1. Range(Metrics) = {"bins", "occupancy_percent", "peak_db", "peak_frequency_hz",
                          "noise_floor_db"}
    <3>1. DOMAIN Metrics = 1..5
      BY DEF Metrics
    <3>. QED
      BY <3>1 DEF Metrics, Range
  <2>2. \A m \in Range(Metrics) : gauges[<<m, i>>] = Value(m, published[i])
    BY DEF PublishedUpToHere, Carries, Series
  <2>. QED
    BY <2>1, <2>2 DEF Value, Reading
<1>. QED
  BY <1>1, PublishedInOrder, PTL

-----------------------------------------------------------------------------
(***************************************************************************)
(* What a sweep reports, for every capture, every list of bands and every  *)
(* option: the orders the reduction relies on give each thing a place of   *)
(* its own, so what is counted by place is what the capture holds by cell. *)
(***************************************************************************)

(* Orders and counts *)

(***************************************************************************)
(* Places that differ and are no more than there are things to place are   *)
(* all taken, and the sequence visits everything once.                     *)
(***************************************************************************)
LEMMA PlacesFill ==
  ASSUME NEW S, IsFiniteSet(S), NEW place \in [S -> 1..Cardinality(S)],
         \A x, y \in S : place[x] = place[y] => x = y
  PROVE  LET n == Cardinality(S)
         IN  /\ n \in Nat
             /\ InPlace(place) \in [1..n -> S]
             /\ \A k \in 1..n : place[InPlace(place)[k]] = k
             /\ \A x \in S : InPlace(place)[place[x]] = x
             /\ InPlace(place) \in Bijection(1..n, S)
<1>. DEFINE n == Cardinality(S)
            at == InPlace(place)
<1>1. n \in Nat /\ IsFiniteSet(1..n) /\ Cardinality(1..n) = n
  <2>1. n \in Nat
    BY FS_CardinalityType
  <2>. HIDE DEF n
  <2>2. IsFiniteSet(1..n) /\ Cardinality(1..n) = IF 1 > n THEN 0 ELSE n - 1 + 1
    BY <2>1, FS_Interval
  <2>. QED
    BY <2>1, <2>2
<1>2. at = [k \in 1..n |-> CHOOSE x \in S : place[x] = k]
  BY DEF InPlace
<1>3. place \in Injection(S, 1..n)
  BY DEF Injection, IsInjective
<1>4. place \in Surjection(S, 1..n)
  BY <1>1, <1>3, FS_Injection
<1>5. ASSUME NEW k \in 1..n
      PROVE  at[k] \in S /\ place[at[k]] = k
  <2>1. \E x \in S : place[x] = k
    BY <1>4 DEF Surjection
  <2>. QED
    BY <1>2, <2>1
<1>6. at \in [1..n -> S]
  <2>. HIDE DEF at
  <2>. QED
    BY <1>2, <1>5
<1>7. ASSUME NEW x \in S
      PROVE  at[place[x]] = x
  BY <1>5
<1>8. at \in Bijection(1..n, S)
  <2>. HIDE DEF at, n
  <2>1. \A j, k \in 1..n : at[j] = at[k] => j = k
    BY <1>5
  <2>2. \A x \in S : \E k \in 1..n : at[k] = x
    BY <1>7 DEF n
  <2>. QED
    BY <1>6, <2>1, <2>2 DEF Bijection, Injection, Surjection, IsInjective
<1>. QED
  BY <1>1, <1>5, <1>6, <1>7, <1>8

(***************************************************************************)
(* Counting what does not come after a thing numbers the things in their   *)
(* order.                                                                  *)
(***************************************************************************)
LEMMA OrderPlaces ==
  ASSUME NEW S, IsFiniteSet(S), NEW R,
         \A x \in S : <<x, x>> \in R,
         \A x, y \in S : <<x, y>> \in R \/ <<y, x>> \in R,
         \A x, y \in S : <<x, y>> \in R /\ <<y, x>> \in R => x = y,
         \A x, y, z \in S : <<x, y>> \in R /\ <<y, z>> \in R => <<x, z>> \in R
  PROVE  LET place == [x \in S |-> Cardinality({y \in S : <<y, x>> \in R})]
         IN  /\ place \in [S -> 1..Cardinality(S)]
             /\ \A x, y \in S : place[x] = place[y] => x = y
             /\ \A x, y \in S : place[x] < place[y] => <<x, y>> \in R
<1>. DEFINE down(x) == {y \in S : <<y, x>> \in R}
            n == Cardinality(S)
<1>1. ASSUME NEW x \in S
      PROVE  /\ IsFiniteSet(down(x)) /\ Cardinality(down(x)) \in 1..n
             /\ x \in down(x)
  <2>1. down(x) \in SUBSET S /\ x \in down(x)
    OBVIOUS
  <2>. HIDE DEF down
  <2>2. IsFiniteSet(down(x)) /\ Cardinality(down(x)) <= n
    BY <2>1, FS_Subset
  <2>3. Cardinality(down(x)) # 0 /\ Cardinality(down(x)) \in Nat /\ n \in Nat
    BY <2>1, <2>2, FS_EmptySet, FS_CardinalityType
  <2>. QED
    BY <2>1, <2>2, <2>3
<1>2. ASSUME NEW x \in S, NEW y \in S, <<x, y>> \in R, x # y
      PROVE  Cardinality(down(x)) < Cardinality(down(y))
  <2>1. down(x) \in SUBSET down(y) /\ down(x) # down(y)
    <3>1. ~(<<y, x>> \in R)
      BY <1>2
    <3>2. y \in down(y) /\ y \notin down(x)
      BY <3>1
    <3>. QED
      BY <1>2, <3>2
  <2>2. IsFiniteSet(down(y)) /\ Cardinality(down(x)) \in 1..n /\ Cardinality(down(y)) \in 1..n
    BY <1>1
  <2>. HIDE DEF down
  <2>3. /\ Cardinality(down(x)) <= Cardinality(down(y))
        /\ Cardinality(down(x)) # Cardinality(down(y))
    BY <2>1, <2>2, FS_Subset
  <2>. QED
    BY <2>2, <2>3
<1>. DEFINE place == [x \in S |-> Cardinality(down(x))]
<1>3. place \in [S -> 1..n] /\ \A x \in S : place[x] = Cardinality(down(x))
  BY <1>1
<1>4. \A x, y \in S : place[x] \in Int /\ place[y] \in Int
  BY <1>3
<1>5. ASSUME NEW x \in S, NEW y \in S
      PROVE  /\ place[x] = place[y] => x = y
             /\ place[x] < place[y] => <<x, y>> \in R
  <2>1. /\ <<x, y>> \in R /\ x # y => place[x] < place[y]
        /\ <<y, x>> \in R /\ x # y => place[y] < place[x]
    BY <1>2, <1>3
  <2>. HIDE DEF place
  <2>. QED
    BY <1>4, <2>1
<1>. QED
  BY <1>3, <1>5

(***************************************************************************)
(* Ascending lists a finite set of integers once each, from the least up.  *)
(***************************************************************************)
LEMMA AscendingIs ==
  ASSUME NEW S \in SUBSET Int, IsFiniteSet(S)
  PROVE  LET n == Cardinality(S)
             a == Ascending(S)
         IN  /\ n \in Nat
             /\ a \in [1..n -> S]
             /\ a \in Bijection(1..n, S)
             /\ \A j, k \in 1..n : j < k => a[j] < a[k]
<1>. DEFINE R == {r \in Int \X Int : r[1] <= r[2]}
            place == [x \in S |-> Cardinality({y \in S : <<y, x>> \in R})]
            n == Cardinality(S)
            a == InPlace(place)
<1>1. \A x, y \in S : <<x, y>> \in R <=> x <= y
  OBVIOUS
<1>2. Ascending(S) = a
  <2>1. \A x \in S : {y \in S : y <= x} = {y \in S : <<y, x>> \in R}
    BY <1>1
  <2>2. [x \in S |-> Cardinality({y \in S : y <= x})] = place
    BY <2>1
  <2>. QED
    BY <2>2 DEF Ascending
<1>. HIDE DEF R
<1>3. /\ \A x \in S : <<x, x>> \in R
      /\ \A x, y \in S : <<x, y>> \in R \/ <<y, x>> \in R
      /\ \A x, y \in S : <<x, y>> \in R /\ <<y, x>> \in R => x = y
      /\ \A x, y, z \in S : <<x, y>> \in R /\ <<y, z>> \in R => <<x, z>> \in R
  BY <1>1
<1>4. /\ place \in [S -> 1..n]
      /\ \A x, y \in S : place[x] = place[y] => x = y
      /\ \A x, y \in S : place[x] < place[y] => <<x, y>> \in R
  BY <1>3, OrderPlaces
<1>. HIDE DEF place
<1>5. /\ n \in Nat /\ a \in [1..n -> S] /\ a \in Bijection(1..n, S)
      /\ \A k \in 1..n : place[a[k]] = k
  BY <1>4, PlacesFill
<1>6. ASSUME NEW j \in 1..n, NEW k \in 1..n, j < k
      PROVE  a[j] < a[k]
  <2>. HIDE DEF a, n
  <2>1. a[j] \in S /\ a[k] \in S /\ place[a[j]] = j /\ place[a[k]] = k
    BY <1>5
  <2>2. <<a[j], a[k]>> \in R
    BY <1>4, <1>6, <2>1
  <2>3. a[j] <= a[k]
    BY <1>1, <2>1, <2>2
  <2>4. a[j] # a[k]
    BY <1>5, <1>6, <2>1
  <2>5. a[j] \in Int /\ a[k] \in Int
    BY <2>1
  <2>. QED
    BY <2>3, <2>4, <2>5
<1>. QED
  BY <1>2, <1>5, <1>6

(***************************************************************************)
(* Sorted is a rearrangement that does not descend.                        *)
(***************************************************************************)
LEMMA SortedIs ==
  ASSUME NEW values \in Seq(Int)
  PROVE  LET n == Len(values)
         IN  /\ n \in Nat /\ Sorted(values) \in [1..n -> Int]
             /\ \E at \in Bijection(1..n, 1..n) :
                  \A k \in 1..n : Sorted(values)[k] = values[at[k]]
             /\ \A j, k \in 1..n : j <= k => Sorted(values)[j] <= Sorted(values)[k]
<1>. DEFINE n == Len(values)
            S == 1..n
            before(i, j) == values[i] < values[j] \/ (values[i] = values[j] /\ i <= j)
            R == {r \in S \X S : before(r[1], r[2])}
            place == [x \in S |-> Cardinality({y \in S : <<y, x>> \in R})]
            at == InPlace(place)
<1>1. n \in Nat /\ DOMAIN values = S /\ \A i \in S : values[i] \in Int
  BY LenProperties
<1>. HIDE DEF n
<1>2. IsFiniteSet(S) /\ Cardinality(S) = n
  <2>1. IsFiniteSet(S) /\ Cardinality(S) = IF 1 > n THEN 0 ELSE n - 1 + 1
    BY <1>1, FS_Interval
  <2>. QED
    BY <1>1, <2>1
<1>3. \A x, y \in S : <<x, y>> \in R <=> before(x, y)
  OBVIOUS
<1>4. Sorted(values) = [k \in DOMAIN at |-> values[at[k]]]
  <2>1. \A x \in S : {y \in S : before(y, x)} = {y \in S : <<y, x>> \in R}
    BY <1>3
  <2>2. [x \in S |-> Cardinality({y \in S : before(y, x)})] = place
    BY <2>1
  <2>3. Sorted(values) = LET p == InPlace([x \in S |-> Cardinality({y \in S : before(y, x)})])
                         IN [k \in DOMAIN p |-> values[p[k]]]
    BY <1>1, Zenon DEF Sorted
  <2>. QED
    BY <2>2, <2>3
<1>. HIDE DEF R
<1>5. /\ \A x \in S : <<x, x>> \in R
      /\ \A x, y \in S : <<x, y>> \in R \/ <<y, x>> \in R
      /\ \A x, y \in S : <<x, y>> \in R /\ <<y, x>> \in R => x = y
      /\ \A x, y, z \in S : <<x, y>> \in R /\ <<y, z>> \in R => <<x, z>> \in R
  <2>1. \A x, y \in S : before(x, y) /\ before(y, x) => x = y
    BY <1>1
  <2>2. \A x, y, z \in S : before(x, y) /\ before(y, z) => before(x, z)
    BY <1>1
  <2>3. \A x, y \in S : before(x, y) \/ before(y, x)
    BY <1>1
  <2>. HIDE DEF before, S
  <2>. QED
    BY <1>3, <2>1, <2>2, <2>3, Zenon
<1>6. /\ place \in [S -> 1..n]
      /\ \A x, y \in S : place[x] = place[y] => x = y
      /\ \A x, y \in S : place[x] < place[y] => <<x, y>> \in R
  <2>. HIDE DEF S
  <2>. QED
    BY <1>2, <1>5, OrderPlaces
<1>. HIDE DEF place
<1>7. /\ at \in [S -> S] /\ at \in Bijection(S, S)
      /\ \A k \in S : place[at[k]] = k
  <2>. HIDE DEF S
  <2>1. /\ at \in [1..n -> S] /\ at \in Bijection(1..n, S)
        /\ \A k \in 1..n : place[at[k]] = k
    BY <1>2, <1>6, PlacesFill
  <2>. QED
    BY <2>1 DEF S
<1>. HIDE DEF at
<1>8. Sorted(values) = [k \in S |-> values[at[k]]]
  BY <1>4, <1>7
<1>9. ASSUME NEW j \in S, NEW k \in S, j <= k
      PROVE  values[at[j]] <= values[at[k]]
  <2>1. at[j] \in S /\ at[k] \in S /\ place[at[j]] = j /\ place[at[k]] = k
    BY <1>7
  <2>2. CASE j = k
    BY <1>1, <2>1, <2>2
  <2>3. CASE j < k
    <3>1. <<at[j], at[k]>> \in R
      BY <1>6, <2>1, <2>3
    <3>2. before(at[j], at[k])
      <4>. HIDE DEF before
      <4>. QED
        BY <1>3, <2>1, <3>1, Zenon
    <3>3. values[at[j]] \in Int /\ values[at[k]] \in Int
      BY <1>1, <2>1
    <3>. QED
      BY <3>2, <3>3
  <2>. QED
    BY <1>9, <2>2, <2>3
<1>. QED
  BY <1>1, <1>7, <1>8, <1>9 DEF n

(***************************************************************************)
(* A one-to-one map finds as many things as it maps to.                    *)
(***************************************************************************)
LEMMA MappedCount ==
  ASSUME NEW A, IsFiniteSet(A), NEW B, NEW f \in Bijection(A, B),
         NEW S \in SUBSET A, NEW T \in SUBSET B, \A a \in A : a \in S <=> f[a] \in T
  PROVE  /\ IsFiniteSet(T)
         /\ Cardinality(S) = Cardinality(T)
<1>. DEFINE g == [a \in S |-> f[a]]
<1>1. /\ f \in [A -> B]
      /\ \A a, b \in A : f[a] = f[b] => a = b
      /\ \A t \in B : \E a \in A : f[a] = t
  BY DEF Bijection, Injection, Surjection, IsInjective
<1>2. IsFiniteSet(S)
  BY FS_Subset
<1>3. /\ g \in [S -> T]
      /\ \A a, b \in S : g[a] = g[b] => a = b
      /\ \A t \in T : \E a \in S : g[a] = t
  BY <1>1
<1>. HIDE DEF g
<1>4. g \in Bijection(S, T)
  BY <1>3 DEF Bijection, Injection, Surjection, IsInjective
<1>. QED
  BY <1>2, <1>4, FS_Bijection DEF ExistsBijection

(***************************************************************************)
(* At the k-th place of the sorted values stands one that k of them do not *)
(* exceed and that fewer than k are below.                                 *)
(***************************************************************************)
LEMMA RankCounts ==
  ASSUME NEW values \in Seq(Int), NEW k \in 1..Len(values)
  PROVE  LET v == Sorted(values)[k]
         IN  /\ v \in Int
             /\ Cardinality({i \in DOMAIN values : values[i] <= v}) \in k..Len(values)
             /\ Cardinality({i \in DOMAIN values : values[i] < v}) \in 0..(k - 1)
<1>. DEFINE n == Len(values)
            v == Sorted(values)[k]
            upTo == {i \in 1..n : values[i] <= v}
            below == {i \in 1..n : values[i] < v}
<1>1. /\ n \in Nat /\ DOMAIN values = 1..n /\ \A i \in 1..n : values[i] \in Int
      /\ k \in 1..n /\ k \in Nat
  BY LenProperties
<1>2. /\ v \in Int
      /\ \A j \in 1..n : Sorted(values)[j] \in Int
      /\ \A i, j \in 1..n : i <= j => Sorted(values)[i] <= Sorted(values)[j]
  BY <1>1, SortedIs
<1>3. PICK at \in Bijection(1..n, 1..n) : \A j \in 1..n : Sorted(values)[j] = values[at[j]]
  BY SortedIs
<1>4. at \in [1..n -> 1..n]
  BY <1>3 DEF Bijection, Injection
<1>. HIDE DEF n, v
<1>5. \A m \in Nat : IsFiniteSet(1..m) /\ Cardinality(1..m) = m
  <2>1. ASSUME NEW m \in Nat
        PROVE  IsFiniteSet(1..m) /\ Cardinality(1..m) = m
    <3>1. IsFiniteSet(1..m) /\ Cardinality(1..m) = IF 1 > m THEN 0 ELSE m - 1 + 1
      BY FS_Interval
    <3>. QED
      BY <3>1
  <2>. QED
    BY <2>1
<1>6. ASSUME NEW T \in SUBSET (1..n)
      PROVE  /\ Cardinality({j \in 1..n : at[j] \in T}) = Cardinality(T)
             /\ Cardinality(T) \in 0..n
  <2>1. IsFiniteSet(1..n) /\ Cardinality(1..n) = n
    BY <1>1, <1>5
  <2>2. Cardinality({j \in 1..n : at[j] \in T}) = Cardinality(T)
    <3>. DEFINE P == {j \in 1..n : at[j] \in T}
    <3>1. P \in SUBSET (1..n) /\ \A j \in 1..n : j \in P <=> at[j] \in T
      OBVIOUS
    <3>. HIDE DEF P
    <3>2. ASSUME NEW A, NEW f, NEW S, A = 1..n, f = at, S = T
          PROVE  Cardinality(P) = Cardinality(S)
      <4>1. /\ IsFiniteSet(A) /\ f \in Bijection(A, A) /\ P \in SUBSET A /\ S \in SUBSET A
            /\ \A j \in A : j \in P <=> f[j] \in S
        BY <1>3, <2>1, <3>1, <3>2
      <4>. QED
        BY ONLY <4>1, MappedCount
    <3>. QED
      BY <3>2 DEF P
  <2>3. IsFiniteSet(T) /\ Cardinality(T) <= n
    BY <2>1, FS_Subset
  <2>4. Cardinality(T) \in Nat
    BY <2>3, FS_CardinalityType
  <2>. QED
    BY <1>1, <2>2, <2>3, <2>4
<1>7. Cardinality(upTo) \in k..n
  <2>. DEFINE P == {j \in 1..n : at[j] \in upTo}
  <2>1. 1..k \in SUBSET P
    <3>1. ASSUME NEW j \in 1..k
          PROVE  j \in P
      <4>1. j \in 1..n /\ j <= k
        BY <1>1
      <4>2. at[j] \in 1..n /\ values[at[j]] = Sorted(values)[j]
        BY <1>3, <1>4, <4>1
      <4>3. Sorted(values)[j] <= v
        BY <1>1, <1>2, <4>1 DEF v
      <4>. QED
        BY <4>1, <4>2, <4>3
    <3>. QED
      BY <3>1
  <2>2. P \in SUBSET (1..n)
    OBVIOUS
  <2>3. IsFiniteSet(P)
    BY <1>1, <1>5, <2>2, FS_Subset
  <2>4. Cardinality(P) = Cardinality(upTo) /\ Cardinality(upTo) \in 0..n
    BY <1>6
  <2>. HIDE DEF P, upTo
  <2>5. Cardinality(1..k) <= Cardinality(P)
    BY <2>1, <2>3, FS_Subset
  <2>. QED
    BY <1>1, <1>5, <2>4, <2>5
<1>8. Cardinality(below) \in 0..(k - 1)
  <2>. DEFINE P == {j \in 1..n : at[j] \in below}
              m == k - 1
  <2>1. P \in SUBSET (1..m)
    <3>1. ASSUME NEW j \in 1..n, values[at[j]] < v
          PROVE  j \in 1..m
      <4>1. Sorted(values)[j] < Sorted(values)[k] /\ ~(k <= j)
        BY <1>1, <1>2, <1>3, <3>1 DEF v
      <4>. QED
        BY <1>1, <4>1
    <3>. QED
      BY <3>1
  <2>2. Cardinality(P) = Cardinality(below) /\ Cardinality(below) \in 0..n
    BY <1>6
  <2>3. m \in Nat
    BY <1>1
  <2>. HIDE DEF P, below, m
  <2>4. Cardinality(P) <= Cardinality(1..m) /\ Cardinality(1..m) = m
    BY <1>5, <2>1, <2>3, FS_Subset
  <2>. QED
    BY <1>1, <2>2, <2>3, <2>4 DEF m
<1>. QED
  BY <1>1, <1>2, <1>7, <1>8 DEF n, v

\* A percentile below the least or above the greatest share is that share.
Clipped(p) == IF p < 0 THEN 0 ELSE IF p > 100 THEN 100 ELSE p

(***************************************************************************)
(* The percentile is reached by its share of the values, and what is below *)
(* it is less than that share.                                             *)
(***************************************************************************)
LEMMA PercentileIs ==
  ASSUME NEW values \in Seq(Int), values # <<>>, NEW p \in Int
  PROVE  LET v == Percentile(values, p)
             n == Len(values)
             upTo == Cardinality({i \in DOMAIN values : values[i] <= v})
             below == Cardinality({i \in DOMAIN values : values[i] < v})
         IN  /\ v \in Int /\ n \in Nat \ {0}
             /\ upTo \in 0..n /\ 100 * upTo >= Clipped(p) * n
             /\ below \in Nat /\ (below = 0 \/ 100 * below < Clipped(p) * n)
<1>. DEFINE n == Len(values)
            m == p * n
            q == Clipped(p) * n
            k == IF p <= 0 THEN 1 ELSE IF p >= 100 THEN n ELSE (p * n + 99) \div 100
<1>1. n \in Nat \ {0}
  BY LenProperties, EmptySeq
<1>. HIDE DEF n
<1>2. k \in 1..n /\ q \in Int /\ 100 * k >= q /\ (k = 1 \/ 100 * (k - 1) < q)
  <2>1. CASE p <= 0
    <3>1. k = 1 /\ q = 0
      BY <1>1, <2>1 DEF Clipped
    <3>. QED
      BY <1>1, <3>1
  <2>2. CASE p >= 100
    <3>1. k = n /\ q = 100 * n
      BY <1>1, <2>2 DEF Clipped
    <3>. QED
      BY <1>1, <3>1
  <2>3. CASE p > 0 /\ p < 100
    <3>1. k = (m + 99) \div 100 /\ q = m
      BY <2>3 DEF Clipped
    <3>2. m \in Int /\ m >= 1 /\ m <= 100 * n
      <4>1. \A a, b \in Nat : a >= 1 /\ b >= 1 => a * b >= 1
        OBVIOUS
      <4>2. \A a, b, c \in Nat : a <= c => a * b <= c * b
        OBVIOUS
      <4>3. p \in Nat /\ p >= 1 /\ p <= 100 /\ n >= 1 /\ n \in Nat
        BY <1>1, <2>3
      <4>. QED
        BY <4>1, <4>2, <4>3
    <3>. HIDE DEF m, k, q
    <3>. QED
      BY <1>1, <3>1, <3>2
  <2>. QED
    BY <2>1, <2>2, <2>3
<1>3. Percentile(values, p) = Sorted(values)[k]
  BY DEF Percentile, n
<1>. DEFINE v == Percentile(values, p)
            upTo == Cardinality({i \in DOMAIN values : values[i] <= v})
            below == Cardinality({i \in DOMAIN values : values[i] < v})
<1>. HIDE DEF k, q
<1>4. v \in Int /\ upTo \in k..n /\ below \in 0..(k - 1)
  BY <1>2, <1>3, RankCounts DEF n
<1>. HIDE DEF v, upTo, below
<1>5. /\ upTo \in 0..n /\ 100 * upTo >= q
      /\ below \in Nat /\ (below = 0 \/ 100 * below < q)
  BY <1>1, <1>2, <1>4
<1>. QED
  BY <1>1, <1>4, <1>5 DEF v, upTo, below, q, n

(***************************************************************************)
(* The greatest and the least of finitely many.                            *)
(***************************************************************************)
LEMMA Extremes ==
  ASSUME NEW S \in SUBSET Int, IsFiniteSet(S), S # {}
  PROVE  /\ Max(S) \in S /\ \A y \in S : y <= Max(S)
         /\ Min(S) \in S /\ \A y \in S : Min(S) <= y
<1>. DEFINE n == Cardinality(S)
            a == Ascending(S)
<1>1. /\ n \in Nat /\ a \in [1..n -> S] /\ a \in Bijection(1..n, S)
      /\ \A j, k \in 1..n : j < k => a[j] < a[k]
  BY AscendingIs
<1>2. n # 0
  BY FS_EmptySet
<1>. HIDE DEF n, a
<1>3. ASSUME NEW y \in S
      PROVE  a[1] <= y /\ y <= a[n]
  <2>1. PICK j \in 1..n : a[j] = y
    BY <1>1 DEF Bijection, Surjection
  <2>2. 1 \in 1..n /\ n \in 1..n
    BY <1>1, <1>2
  <2>3. a[1] \in Int /\ a[n] \in Int /\ y \in Int
    BY <1>1, <2>2
  <2>4. (1 < j => a[1] < y) /\ (j < n => y < a[n])
    BY <1>1, <2>1, <2>2
  <2>. QED
    BY <1>1, <2>1, <2>3, <2>4
<1>4. a[1] \in S /\ a[n] \in S
  BY <1>1, <1>2
<1>5. (\E x \in S : \A y \in S : x >= y) /\ (\E x \in S : \A y \in S : x <= y)
  BY <1>3, <1>4
<1>6. Max(S) \in S /\ \A y \in S : Max(S) >= y
  BY <1>5 DEF Max
<1>7. Min(S) \in S /\ \A y \in S : Min(S) <= y
  BY <1>5 DEF Min
<1>. QED
  BY <1>6, <1>7

(***************************************************************************)
(* What is kept is listed once each.                                       *)
(***************************************************************************)
LEMMA KeepIs ==
  ASSUME NEW T, NEW seq \in Seq(T), NEW kept \in SUBSET (DOMAIN seq)
  PROVE  LET m == Cardinality(kept)
         IN  /\ IsFiniteSet(kept) /\ m \in Nat
             /\ Keep(seq, kept) \in Seq(T) /\ Len(Keep(seq, kept)) = m
             /\ \E a \in Bijection(1..m, kept) : \A k \in 1..m : Keep(seq, kept)[k] = seq[a[k]]
<1>. DEFINE m == Cardinality(kept)
            a == Ascending(kept)
<1>1. Len(seq) \in Nat /\ DOMAIN seq = 1..Len(seq) /\ \A i \in DOMAIN seq : seq[i] \in T
  BY LenProperties, ElementOfSeq
<1>2. IsFiniteSet(kept)
  <2>1. IsFiniteSet(1..Len(seq))
    BY <1>1, FS_Interval
  <2>. QED
    BY <1>1, <2>1, FS_Subset
<1>3. m \in Nat /\ a \in [1..m -> kept] /\ a \in Bijection(1..m, kept)
  BY <1>1, <1>2, AscendingIs
<1>4. Keep(seq, kept) = [k \in DOMAIN a |-> seq[a[k]]]
  BY DEF Keep
<1>. HIDE DEF m, a
<1>5. Keep(seq, kept) = [k \in 1..m |-> seq[a[k]]]
  BY <1>3, <1>4
<1>6. \A k \in 1..m : seq[a[k]] \in T
  BY <1>1, <1>3
<1>7. Keep(seq, kept) \in Seq(T) /\ Len(Keep(seq, kept)) = m
  BY <1>3, <1>5, <1>6
<1>. QED
  BY <1>2, <1>3, <1>5, <1>7 DEF m

-----------------------------------------------------------------------------
(* The bins of a sweep *)

\* What parsing makes, and what it is made from.
BinType == [freq : Int, power : Int]
CellBin(rows, c) == Bin(rows[c[1]], c[2])

SweepRows == Seq([low : Int, width : Int, powers : Seq(Int \cup {Absent})])

(***************************************************************************)
(* The cells of a capture are finitely many and each makes a bin of        *)
(* integers.                                                               *)
(***************************************************************************)
LEMMA CellsAre ==
  ASSUME NEW rows \in SweepRows
  PROVE  /\ IsFiniteSet(Cells(rows))
         /\ \A c \in Cells(rows) :
              /\ c[1] \in DOMAIN rows /\ c[2] \in DOMAIN rows[c[1]].powers
              /\ c = <<c[1], c[2]>> /\ c[1] \in Nat /\ c[2] \in Nat
              /\ rows[c[1]].powers[c[2]] \in Int /\ rows[c[1]].powers[c[2]] # Absent
              /\ CellBin(rows, c) \in BinType
<1>. DEFINE n == Len(rows)
            cols(i) == {j \in DOMAIN rows[i].powers : rows[i].powers[j] # Absent}
            block(i) == {i} \X cols(i)
            f == [i \in 1..n |-> block(i)]
            Family == {block(i) : i \in 1..n}
<1>1. /\ n \in Nat /\ DOMAIN rows = 1..n
      /\ \A i \in 1..n : rows[i] \in [low : Int, width : Int, powers : Seq(Int \cup {Absent})]
  BY LenProperties, ElementOfSeq DEF SweepRows
<1>. HIDE DEF n
<1>2. ASSUME NEW i \in 1..n
      PROVE  /\ rows[i].powers \in Seq(Int \cup {Absent})
             /\ Len(rows[i].powers) \in Nat
             /\ DOMAIN rows[i].powers = 1..Len(rows[i].powers)
             /\ \A j \in DOMAIN rows[i].powers : rows[i].powers[j] \in Int \cup {Absent}
  <2>1. rows[i].powers \in Seq(Int \cup {Absent})
    BY <1>1
  <2>. QED
    BY <2>1, LenProperties, ElementOfSeq
<1>3. ASSUME NEW i \in 1..n
      PROVE  IsFiniteSet(block(i))
  <2>. DEFINE wide == 1..Len(rows[i].powers)
  <2>1. IsFiniteSet(wide)
    BY <1>2, FS_Interval
  <2>2. cols(i) \in SUBSET wide
    BY <1>2
  <2>. HIDE DEF cols, wide
  <2>3. IsFiniteSet(cols(i)) /\ IsFiniteSet({i})
    BY <2>1, <2>2, FS_Subset, FS_Singleton
  <2>. QED
    BY <2>3, FS_Product
<1>4. IsFiniteSet(Family)
  <2>1. IsFiniteSet(1..n)
    BY <1>1, FS_Interval
  <2>. HIDE DEF block
  <2>2. f \in Surjection(1..n, Family)
    BY DEF Surjection
  <2>. HIDE DEF f, Family
  <2>. QED
    BY <2>1, <2>2, FS_Surjection
<1>5. \A B \in Family : IsFiniteSet(B)
  <2>. HIDE DEF block
  <2>. QED
    BY <1>3
<1>6. Cells(rows) = UNION Family
  BY <1>1 DEF Cells
<1>7. IsFiniteSet(UNION Family)
  <2>. HIDE DEF Family
  <2>. QED
    BY <1>4, <1>5, FS_UNION
<1>8. ASSUME NEW c \in Cells(rows)
      PROVE  /\ c[1] \in DOMAIN rows /\ c[2] \in DOMAIN rows[c[1]].powers
             /\ c = <<c[1], c[2]>> /\ c[1] \in Nat /\ c[2] \in Nat
             /\ rows[c[1]].powers[c[2]] \in Int /\ rows[c[1]].powers[c[2]] # Absent
             /\ CellBin(rows, c) \in BinType
  <2>1. PICK i \in 1..n : c \in {i} \X cols(i)
    BY <1>1 DEF Cells
  <2>2. PICK j \in cols(i) : c = <<i, j>>
    BY <2>1
  <2>3. c[1] = i /\ c[2] = j /\ c = <<c[1], c[2]>>
    BY <2>2
  <2>4. j \in DOMAIN rows[i].powers /\ rows[i].powers[j] # Absent
    BY <2>2
  <2>5. rows[i].powers[j] \in Int /\ j \in Int /\ j \in Nat /\ i \in Nat
    BY <1>1, <1>2, <2>4
  <2>6. rows[i].low \in Int /\ rows[i].width \in Int
    BY <1>1
  <2>7. rows[i].width * (2 * j - 1) \in Int
    BY <2>5, <2>6
  <2>8. Bin(rows[i], j) \in BinType
    BY <2>5, <2>6, <2>7 DEF Bin, BinType
  <2>. QED
    BY <1>1, <2>3, <2>4, <2>5, <2>8 DEF CellBin
<1>. QED
  BY <1>6, <1>7, <1>8

(***************************************************************************)
(* The parsed sweep has one bin per cell.                                  *)
(***************************************************************************)
LEMMA ParseIs ==
  ASSUME NEW rows \in SweepRows
  PROVE  LET C == Cells(rows)
             n == Cardinality(C)
         IN  /\ n \in Nat
             /\ ParseSweep(rows) \in Seq(BinType) /\ Len(ParseSweep(rows)) = n
             /\ \E at \in Bijection(1..n, C) :
                  \A k \in 1..n : ParseSweep(rows)[k] = CellBin(rows, at[k])
<1>. DEFINE C == Cells(rows)
            n == Cardinality(C)
            before(p, q) == p[1] < q[1] \/ (p[1] = q[1] /\ p[2] <= q[2])
            R == {r \in C \X C : before(r[1], r[2])}
            place == [q \in C |-> Cardinality({p \in C : <<p, q>> \in R})]
            at == InPlace(place)
<1>1. /\ IsFiniteSet(C)
      /\ \A c \in C : c = <<c[1], c[2]>> /\ c[1] \in Nat /\ c[2] \in Nat /\ CellBin(rows, c) \in BinType
  BY CellsAre
<1>2. ParseSweep(rows) = [k \in DOMAIN at |-> CellBin(rows, at[k])]
  <2>. HIDE DEF C
  <2>1. \A q \in C : {p \in C : before(p, q)} = {p \in C : <<p, q>> \in R}
    <3>1. \A p, q \in C : <<p, q>> \in R <=> before(p, q)
      OBVIOUS
    <3>. HIDE DEF before, R
    <3>. QED
      BY <3>1
  <2>2. [q \in C |-> Cardinality({p \in C : before(p, q)})] = place
    BY <2>1
  <2>3. ParseSweep(rows) =
          LET a == InPlace([q \in C |-> Cardinality({p \in C : before(p, q)})])
          IN [k \in DOMAIN a |-> CellBin(rows, a[k])]
    BY Zenon DEF ParseSweep, CellBin, C
  <2>. QED
    BY <2>2, <2>3
<1>. HIDE DEF C
<1>3. \A x, y \in C : <<x, y>> \in R <=> before(x, y)
  OBVIOUS
<1>4. /\ \A x \in C : before(x, x)
      /\ \A x, y \in C : before(x, y) \/ before(y, x)
      /\ \A x, y \in C : before(x, y) /\ before(y, x) => x = y
      /\ \A x, y, z \in C : before(x, y) /\ before(y, z) => before(x, z)
  <2>1. \A x, y \in C : x[1] = y[1] /\ x[2] = y[2] => x = y
    BY <1>1
  <2>2. \A c \in C : c[1] \in Nat /\ c[2] \in Nat
    BY <1>1
  <2>. QED
    BY <2>1, <2>2
<1>5. /\ \A x \in C : <<x, x>> \in R
      /\ \A x, y \in C : <<x, y>> \in R \/ <<y, x>> \in R
      /\ \A x, y \in C : <<x, y>> \in R /\ <<y, x>> \in R => x = y
      /\ \A x, y, z \in C : <<x, y>> \in R /\ <<y, z>> \in R => <<x, z>> \in R
  <2>. HIDE DEF before, R
  <2>. QED
    BY <1>3, <1>4, Zenon
<1>. HIDE DEF R
<1>6. /\ place \in [C -> 1..n]
      /\ \A x, y \in C : place[x] = place[y] => x = y
  BY <1>1, <1>5, OrderPlaces
<1>. HIDE DEF place
<1>7. n \in Nat /\ at \in [1..n -> C] /\ at \in Bijection(1..n, C)
  BY <1>1, <1>6, PlacesFill
<1>. HIDE DEF at, n
<1>8. ParseSweep(rows) = [k \in 1..n |-> CellBin(rows, at[k])]
  BY <1>2, <1>7
<1>9. \A k \in 1..n : CellBin(rows, at[k]) \in BinType
  BY <1>1, <1>7
<1>10. ParseSweep(rows) \in Seq(BinType) /\ Len(ParseSweep(rows)) = n
  <2>. DEFINE bin(k) == CellBin(rows, at[k])
  <2>. HIDE DEF bin
  <2>1. [k \in 1..n |-> bin(k)] \in Seq(BinType) /\ Len([k \in 1..n |-> bin(k)]) = n
    BY <1>7, <1>9 DEF bin
  <2>. QED
    BY <1>8, <2>1 DEF bin
<1>. QED
  BY <1>7, <1>8, <1>10 DEF n, C

(***************************************************************************)
(* The bins inside a band are those of the cells inside it, once each.     *)
(***************************************************************************)
LEMMA InsideIs ==
  ASSUME NEW rows \in SweepRows, NEW band
  PROVE  LET D == {c \in Cells(rows) : Within(CellBin(rows, c).freq, band)}
             m == Cardinality(D)
             inside == InBand(ParseSweep(rows), band)
         IN  /\ IsFiniteSet(D) /\ m \in Nat
             /\ inside \in Seq(BinType) /\ Len(inside) = m
             /\ \E g \in Bijection(1..m, D) : \A k \in 1..m : inside[k] = CellBin(rows, g[k])
<1>. DEFINE C == Cells(rows)
            D == {c \in C : Within(CellBin(rows, c).freq, band)}
            n == Cardinality(C)
            m == Cardinality(D)
            bins == ParseSweep(rows)
            kept == {i \in DOMAIN bins : Within(bins[i].freq, band)}
            inside == InBand(bins, band)
<1>1. IsFiniteSet(C) /\ IsFiniteSet(D) /\ n \in Nat /\ m \in Nat
  <2>1. IsFiniteSet(C) /\ D \in SUBSET C
    BY CellsAre
  <2>. HIDE DEF C, D
  <2>. QED
    BY <2>1, FS_Subset, FS_CardinalityType
<1>2. bins \in Seq(BinType) /\ DOMAIN bins = 1..n
  <2>1. bins \in Seq(BinType) /\ Len(bins) = n
    BY ParseIs
  <2>. HIDE DEF bins, n
  <2>. QED
    BY <2>1, LenProperties
<1>3. PICK at \in Bijection(1..n, C) : \A k \in 1..n : bins[k] = CellBin(rows, at[k])
  BY ParseIs
<1>. HIDE DEF C, n, bins
<1>4. /\ at \in [1..n -> C]
      /\ \A j, k \in 1..n : at[j] = at[k] => j = k
      /\ \A c \in C : \E k \in 1..n : at[k] = c
  BY <1>3 DEF Bijection, Injection, Surjection, IsInjective
<1>5. kept \in SUBSET (1..n) /\ \A k \in 1..n : k \in kept <=> at[k] \in D
  BY <1>2, <1>3, <1>4
<1>6. inside = Keep(bins, kept)
  BY DEF InBand
<1>. HIDE DEF D, kept, inside
<1>7. Cardinality(kept) = m
  <2>1. ASSUME NEW A, A = 1..n
        PROVE  Cardinality(kept) = Cardinality(D)
    <3>1. /\ IsFiniteSet(A) /\ at \in Bijection(A, C) /\ kept \in SUBSET A /\ D \in SUBSET C
          /\ \A k \in A : k \in kept <=> at[k] \in D
      <4>1. IsFiniteSet(A)
        BY <1>1, <2>1, FS_Interval
      <4>2. D \in SUBSET C
        BY DEF D
      <4>. QED
        BY <1>3, <1>5, <2>1, <4>1, <4>2
    <3>. QED
      BY ONLY <3>1, MappedCount
  <2>. QED
    BY <2>1
<1>8. /\ inside \in Seq(BinType) /\ Len(inside) = Cardinality(kept)
      /\ \E a \in Bijection(1..Cardinality(kept), kept) :
           \A k \in 1..Cardinality(kept) : inside[k] = bins[a[k]]
  <2>1. bins \in Seq(BinType) /\ kept \in SUBSET (DOMAIN bins)
    BY <1>2, <1>5
  <2>2. /\ Keep(bins, kept) \in Seq(BinType) /\ Len(Keep(bins, kept)) = Cardinality(kept)
        /\ \E a \in Bijection(1..Cardinality(kept), kept) :
             \A k \in 1..Cardinality(kept) : Keep(bins, kept)[k] = bins[a[k]]
    BY ONLY <2>1, KeepIs
  <2>. QED
    BY <1>6, <2>2
<1>9. PICK a \in Bijection(1..m, kept) : \A k \in 1..m : inside[k] = bins[a[k]]
  BY <1>7, <1>8
<1>10. /\ a \in [1..m -> kept]
       /\ \A j, k \in 1..m : a[j] = a[k] => j = k
       /\ \A i \in kept : \E k \in 1..m : a[k] = i
  BY <1>9 DEF Bijection, Injection, Surjection, IsInjective
<1>. DEFINE g == [k \in 1..m |-> at[a[k]]]
<1>. HIDE DEF m
<1>11. \A k \in 1..m : a[k] \in kept /\ a[k] \in 1..n /\ at[a[k]] \in D
  BY <1>5, <1>10
<1>12. g \in Bijection(1..m, D)
  <2>1. g \in [1..m -> D] /\ \A j, k \in 1..m : g[j] = g[k] => j = k
    BY <1>4, <1>10, <1>11
  <2>2. ASSUME NEW c \in D
        PROVE  \E k \in 1..m : g[k] = c
    <3>1. c \in C
      BY DEF D
    <3>2. PICK i \in 1..n : at[i] = c
      BY <1>4, <3>1
    <3>3. PICK k \in 1..m : a[k] = i
      BY <1>5, <1>10, <3>2
    <3>. QED
      BY <3>2, <3>3
  <2>. HIDE DEF g
  <2>. QED
    BY <2>1, <2>2 DEF Bijection, Injection, Surjection, IsInjective
<1>13. \A k \in 1..m : inside[k] = CellBin(rows, g[k])
  BY <1>3, <1>9, <1>11
<1>. HIDE DEF g
<1>. QED
  BY <1>1, <1>7, <1>8, <1>12, <1>13 DEF inside, bins, m, D, C

(***************************************************************************)
(* The powers inside a band, counted by place or by cell.                  *)
(***************************************************************************)
LEMMA PowersInside ==
  ASSUME NEW rows \in SweepRows, NEW band
  PROVE  LET D == {c \in Cells(rows) : Within(CellBin(rows, c).freq, band)}
             inside == InBand(ParseSweep(rows), band)
             powers == Powers(inside)
         IN  /\ powers \in Seq(Int) /\ Len(powers) = Len(inside) /\ DOMAIN powers = 1..Len(inside)
             /\ inside \in Seq(BinType) /\ Len(inside) \in Nat /\ DOMAIN inside = 1..Len(inside)
             /\ \A k \in 1..Len(inside) :
                  \E c \in D : inside[k] = CellBin(rows, c) /\ powers[k] = rows[c[1]].powers[c[2]]
             /\ \A V : Cardinality({k \in 1..Len(inside) : powers[k] \in V})
                       = Cardinality({c \in D : rows[c[1]].powers[c[2]] \in V})
<1>. DEFINE D == {c \in Cells(rows) : Within(CellBin(rows, c).freq, band)}
            m == Cardinality(D)
            inside == InBand(ParseSweep(rows), band)
            powers == Powers(inside)
<1>1. m \in Nat /\ inside \in Seq(BinType) /\ Len(inside) = m
  BY InsideIs
<1>2. PICK g \in Bijection(1..m, D) : \A k \in 1..m : inside[k] = CellBin(rows, g[k])
  BY InsideIs
<1>3. \A c \in D : CellBin(rows, c).power = rows[c[1]].powers[c[2]] /\ CellBin(rows, c) \in BinType
  BY CellsAre DEF CellBin, Bin
<1>. HIDE DEF D, m, inside
<1>4. /\ g \in [1..m -> D]
      /\ \A j, k \in 1..m : g[j] = g[k] => j = k
  BY <1>2 DEF Bijection, Injection, IsInjective
<1>5. DOMAIN inside = 1..m
  BY <1>1, LenProperties
<1>6. powers = [k \in 1..m |-> inside[k].power]
  BY <1>5 DEF Powers
<1>. HIDE DEF powers
<1>7. \A k \in 1..m : g[k] \in D /\ powers[k] = rows[g[k][1]].powers[g[k][2]] /\ powers[k] \in Int
  BY <1>2, <1>3, <1>4, <1>6 DEF BinType
<1>8. powers \in Seq(Int) /\ Len(powers) = m
  <2>1. powers \in [1..m -> Int]
    BY <1>6, <1>7
  <2>. QED
    BY <1>1, <2>1
<1>9. ASSUME NEW V
      PROVE  Cardinality({k \in 1..m : powers[k] \in V})
             = Cardinality({c \in D : rows[c[1]].powers[c[2]] \in V})
  <2>. DEFINE S == {k \in 1..m : powers[k] \in V}
              T == {c \in D : rows[c[1]].powers[c[2]] \in V}
  <2>1. S \in SUBSET (1..m) /\ T \in SUBSET D /\ \A k \in 1..m : k \in S <=> g[k] \in T
    BY <1>7
  <2>. HIDE DEF S, T
  <2>2. ASSUME NEW A, A = 1..m
        PROVE  Cardinality(S) = Cardinality(T)
    <3>1. /\ IsFiniteSet(A) /\ g \in Bijection(A, D) /\ S \in SUBSET A /\ T \in SUBSET D
          /\ \A k \in A : k \in S <=> g[k] \in T
      BY <1>1, <1>2, <2>1, <2>2, FS_Interval
    <3>. QED
      BY ONLY <3>1, MappedCount
  <2>. QED
    BY <2>2 DEF S, T
<1>10. \A k \in 1..m : \E c \in D : inside[k] = CellBin(rows, c) /\ powers[k] = rows[c[1]].powers[c[2]]
  BY <1>2, <1>7
<1>11. \A V : Cardinality({k \in 1..m : powers[k] \in V})
              = Cardinality({c \in D : rows[c[1]].powers[c[2]] \in V})
  BY <1>9
<1>12. powers \in Seq(Int) /\ Len(powers) = Len(inside) /\ DOMAIN powers = 1..Len(inside)
  BY <1>1, <1>6, <1>8
<1>. QED
  BY <1>1, <1>5, <1>10, <1>11, <1>12 DEF powers, inside, D

(***************************************************************************)
(* What a reduction says is what the bins inside the band say.             *)
(***************************************************************************)
LEMMA AnalyzeIs ==
  ASSUME NEW rows \in SweepRows, NEW band
  PROVE  LET s == Analyze(ParseSweep(rows), band)
             inside == InBand(ParseSweep(rows), band)
             powers == Powers(inside)
             n == Len(inside)
         IN  /\ s.BinCount = n
             /\ n > 0 =>
                  /\ s.NoiseFloorDB = Percentile(powers, NoiseFloorPercentile)
                  /\ s.NoiseFloorDB \in Int
                  /\ s.OccupiedBins \in 0..n
                  /\ s.OccupiedBins = Cardinality({k \in 1..n : powers[k] > Threshold(s.NoiseFloorDB)})
                  /\ s.MaxDB \in Int /\ \A k \in 1..n : powers[k] <= s.MaxDB
                  /\ \E k \in 1..n : powers[k] = s.MaxDB /\ s.PeakFreqHz = inside[k].freq
<1>. DEFINE s == Analyze(ParseSweep(rows), band)
            inside == InBand(ParseSweep(rows), band)
            powers == Powers(inside)
            n == Len(inside)
            noise == Percentile(powers, NoiseFloorPercentile)
            maxDB == Max(Range(powers))
            strongest == {k \in DOMAIN powers : powers[k] = maxDB}
            loud == {k \in 1..n : powers[k] > Threshold(noise)}
<1>1. /\ powers \in Seq(Int) /\ Len(powers) = n /\ DOMAIN powers = 1..n
      /\ inside \in Seq(BinType) /\ n \in Nat /\ DOMAIN inside = 1..n
  BY PowersInside
<1>2. s = IF inside = <<>> THEN Uncovered
          ELSE [BinCount |-> n, OccupiedBins |-> Above(powers, Threshold(noise)),
                NoiseFloorDB |-> noise, MaxDB |-> maxDB,
                PeakFreqHz |-> inside[Min(strongest)].freq]
  BY DEF Analyze
<1>. HIDE DEF inside, powers, n, s, maxDB, noise
<1>3. inside = <<>> <=> n = 0
  BY <1>1, EmptySeq DEF n
<1>4. CASE n = 0
  BY <1>1, <1>2, <1>3, <1>4 DEF Uncovered, s, inside, powers, n
<1>5. CASE n > 0
  <2>1. /\ s.BinCount = n /\ s.OccupiedBins = Above(powers, Threshold(noise))
        /\ s.NoiseFloorDB = noise /\ s.MaxDB = maxDB
        /\ s.PeakFreqHz = inside[Min(strongest)].freq
    BY <1>1, <1>2, <1>3, <1>5
  <2>2. IsFiniteSet(1..n) /\ Cardinality(1..n) = n
    <3>1. IsFiniteSet(1..n) /\ Cardinality(1..n) = IF 1 > n THEN 0 ELSE n - 1 + 1
      BY <1>1, FS_Interval
    <3>. QED
      BY <1>1, <3>1
  <2>3. noise \in Int
    <3>1. powers # <<>>
      BY <1>1, <1>5, EmptySeq
    <3>. QED
      BY <1>1, <3>1, PercentileIs, SweepAnalysisAssumption DEF noise
  <2>4. Cardinality(loud) \in 0..n /\ Above(powers, Threshold(noise)) = Cardinality(loud)
    <3>1. Above(powers, Threshold(noise)) = Cardinality(loud)
      BY <1>1 DEF Above
    <3>2. loud \in SUBSET (1..n)
      OBVIOUS
    <3>. HIDE DEF loud
    <3>3. IsFiniteSet(loud) /\ Cardinality(loud) <= n
      BY <2>2, <3>2, FS_Subset
    <3>4. Cardinality(loud) \in Nat
      BY <3>3, FS_CardinalityType
    <3>. QED
      BY <1>1, <3>1, <3>3, <3>4
  <2>5. /\ maxDB \in Int /\ \A k \in 1..n : powers[k] <= maxDB
        /\ \E k \in 1..n : powers[k] = maxDB
    <3>. DEFINE vals == Range(powers)
    <3>1. vals = {powers[k] : k \in 1..n} /\ \A k \in 1..n : powers[k] \in Int
      BY <1>1, ElementOfSeq DEF Range
    <3>2. powers \in [1..n -> vals] /\ \A v \in vals : \E k \in 1..n : powers[k] = v
      BY <1>1, <3>1
    <3>3. vals \in SUBSET Int /\ vals # {} /\ powers[1] \in vals
      BY <1>1, <1>5, <3>1
    <3>. HIDE DEF vals
    <3>4. powers \in Surjection(1..n, vals)
      BY <3>2 DEF Surjection
    <3>5. IsFiniteSet(vals)
      BY <2>2, <3>4, FS_Surjection
    <3>6. maxDB \in vals /\ \A v \in vals : v <= maxDB
      BY <3>3, <3>5, Extremes DEF maxDB, vals
    <3>. QED
      BY <3>2, <3>3, <3>6
  <2>6. Min(strongest) \in 1..n /\ powers[Min(strongest)] = maxDB
    <3>1. strongest \in SUBSET (1..n) /\ strongest # {}
      BY <1>1, <2>5
    <3>2. IsFiniteSet(strongest)
      <4>. HIDE DEF strongest
      <4>. QED
        BY <2>2, <3>1, FS_Subset
    <3>3. strongest \in SUBSET Int
      BY <3>1
    <3>4. Min(strongest) \in strongest
      <4>. HIDE DEF strongest
      <4>. QED
        BY <3>1, <3>2, <3>3, Extremes
    <3>. QED
      BY <1>1, <3>4
  <2>. QED
    BY <1>5, <2>1, <2>3, <2>4, <2>5, <2>6 DEF s, inside, powers, n, noise
<1>. QED
  BY <1>1, <1>4, <1>5

(***************************************************************************)
(* Counting samples where the capture holds them is counting the bins      *)
(* inside the band.                                                        *)
(***************************************************************************)
LEMMA MeasuredIs ==
  ASSUME captured \in SweepRows, NEW i
  PROVE  LET inside == InBand(ParseSweep(captured), Bands[i])
             powers == Powers(inside)
             n == Len(inside)
         IN  /\ Measured(i, LAMBDA p : TRUE) = n
             /\ \A v \in Int :
                  /\ Measured(i, LAMBDA p : p <= v) = Cardinality({k \in 1..n : powers[k] <= v})
                  /\ Measured(i, LAMBDA p : p < v) = Cardinality({k \in 1..n : powers[k] < v})
                  /\ Measured(i, LAMBDA p : p > v) = Cardinality({k \in 1..n : powers[k] > v})
<1>. DEFINE rows == captured
            band == Bands[i]
            D == {c \in Cells(rows) : Within(CellBin(rows, c).freq, band)}
            inside == InBand(ParseSweep(rows), band)
            powers == Powers(inside)
            n == Len(inside)
            at(s) == 2 * rows[s[1]].low + rows[s[1]].width * (2 * s[2] - 1)
            power(s) == rows[s[1]].powers[s[2]]
            samples == UNION {{r} \X (DOMAIN rows[r].powers) : r \in DOMAIN rows}
            measured(V) == {s \in samples : InsideBand(at(s), i) /\ power(s) # Absent /\ power(s) \in V}
<1>1. \A s : s \in Cells(rows) <=> s \in samples /\ power(s) # Absent
  <2>1. ASSUME NEW s, s \in Cells(rows)
        PROVE  s \in samples /\ power(s) # Absent
    <3>1. PICK r \in DOMAIN rows :
            s \in {r} \X {j \in DOMAIN rows[r].powers : rows[r].powers[j] # Absent}
      BY <2>1 DEF Cells
    <3>. QED
      BY <3>1
  <2>2. ASSUME NEW s, s \in samples, power(s) # Absent
        PROVE  s \in Cells(rows)
    <3>1. PICK r \in DOMAIN rows : s \in {r} \X (DOMAIN rows[r].powers)
      BY <2>2
    <3>2. s \in {r} \X {j \in DOMAIN rows[r].powers : rows[r].powers[j] # Absent}
      BY <2>2, <3>1
    <3>. QED
      BY <3>2 DEF Cells
  <2>. HIDE DEF samples, power
  <2>. QED
    BY <2>1, <2>2
<1>2. \A s : InsideBand(at(s), i) <=> Within(CellBin(rows, s).freq, band)
  BY DEF InsideBand, CellBin, Bin
<1>3. \A c \in D : power(c) \in Int
  BY CellsAre
<1>4. ASSUME NEW V
      PROVE  measured(V) = {c \in D : rows[c[1]].powers[c[2]] \in V}
  <2>. HIDE DEF samples, at
  <2>. QED
    BY <1>1, <1>2
<1>5. /\ \A V : Cardinality({k \in 1..n : powers[k] \in V})
                = Cardinality({c \in D : rows[c[1]].powers[c[2]] \in V})
      /\ powers \in Seq(Int) /\ n \in Nat /\ DOMAIN powers = 1..n
  BY PowersInside
<1>6. \A k \in 1..n : powers[k] \in Int
  BY <1>5, ElementOfSeq
<1>7. \A V : Cardinality(measured(V)) = Cardinality({k \in 1..n : powers[k] \in V})
  <2>. HIDE DEF measured, D, n, powers
  <2>. QED
    BY <1>4, <1>5
<1>8. \A s \in samples : power(s) # Absent /\ InsideBand(at(s), i) => power(s) \in Int
  <2>. HIDE DEF samples, at, power
  <2>. QED
    BY <1>1, <1>2, <1>3
<1>9. Measured(i, LAMBDA p : TRUE) = n
  <2>1. Measured(i, LAMBDA p : TRUE) = Cardinality(measured(Int))
    <3>1. {s \in samples : InsideBand(at(s), i) /\ power(s) # Absent /\ TRUE} = measured(Int)
      <4>. HIDE DEF samples, at, power
      <4>. QED
        BY <1>8
    <3>. QED
      BY <3>1 DEF Measured
  <2>2. {k \in 1..n : powers[k] \in Int} = 1..n
    BY <1>6
  <2>. HIDE DEF n, powers, measured
  <2>3. Cardinality(1..n) = IF 1 > n THEN 0 ELSE n - 1 + 1
    BY <1>5, FS_Interval
  <2>. QED
    BY <1>5, <1>7, <2>1, <2>2, <2>3
<1>10. ASSUME NEW v \in Int
       PROVE  Measured(i, LAMBDA p : p <= v) = Cardinality({k \in 1..n : powers[k] <= v})
  <2>. DEFINE V == {x \in Int : x <= v}
  <2>1. Measured(i, LAMBDA p : p <= v) = Cardinality(measured(V))
    <3>1. {s \in samples : InsideBand(at(s), i) /\ power(s) # Absent /\ power(s) <= v} = measured(V)
      <4>. HIDE DEF samples, at, power
      <4>. QED
        BY <1>8
    <3>. QED
      BY <3>1 DEF Measured
  <2>2. {k \in 1..n : powers[k] \in V} = {k \in 1..n : powers[k] <= v}
    BY <1>6
  <2>. QED
    BY <1>7, <2>1, <2>2
<1>11. ASSUME NEW v \in Int
       PROVE  Measured(i, LAMBDA p : p < v) = Cardinality({k \in 1..n : powers[k] < v})
  <2>. DEFINE V == {x \in Int : x < v}
  <2>1. Measured(i, LAMBDA p : p < v) = Cardinality(measured(V))
    <3>1. {s \in samples : InsideBand(at(s), i) /\ power(s) # Absent /\ power(s) < v} = measured(V)
      <4>. HIDE DEF samples, at, power
      <4>. QED
        BY <1>8
    <3>. QED
      BY <3>1 DEF Measured
  <2>2. {k \in 1..n : powers[k] \in V} = {k \in 1..n : powers[k] < v}
    BY <1>6
  <2>. QED
    BY <1>7, <2>1, <2>2
<1>12. ASSUME NEW v \in Int
       PROVE  Measured(i, LAMBDA p : p > v) = Cardinality({k \in 1..n : powers[k] > v})
  <2>. DEFINE V == {x \in Int : x > v}
  <2>1. Measured(i, LAMBDA p : p > v) = Cardinality(measured(V))
    <3>1. {s \in samples : InsideBand(at(s), i) /\ power(s) # Absent /\ power(s) > v} = measured(V)
      <4>. HIDE DEF samples, at, power
      <4>. QED
        BY <1>8
    <3>. QED
      BY <3>1 DEF Measured
  <2>2. {k \in 1..n : powers[k] \in V} = {k \in 1..n : powers[k] > v}
    BY <1>6
  <2>. QED
    BY <1>7, <2>1, <2>2
<1>. HIDE DEF powers, n
<1>. QED
  BY <1>9, <1>10, <1>11, <1>12 DEF powers, n, inside

(***************************************************************************)
(* The shares that part a band at its noise floor.                         *)
(***************************************************************************)
LEMMA SharesAre ==
  ASSUME NEW rows \in SweepRows, NEW band
  PROVE  LET s == Analyze(ParseSweep(rows), band)
             inside == InBand(ParseSweep(rows), band)
             powers == Powers(inside)
             n == Len(inside)
             upTo == Cardinality({k \in 1..n : powers[k] <= s.NoiseFloorDB})
             below == Cardinality({k \in 1..n : powers[k] < s.NoiseFloorDB})
         IN  n > 0 =>
               /\ 100 * upTo >= FloorPercent * n
               /\ below = 0 \/ 100 * below < FloorPercent * n
               /\ ThresholdMarginDB >= 0 => 100 * s.OccupiedBins <= (100 - FloorPercent) * n
<1>. DEFINE s == Analyze(ParseSweep(rows), band)
            inside == InBand(ParseSweep(rows), band)
            powers == Powers(inside)
            n == Len(inside)
            v == s.NoiseFloorDB
            quiet == {k \in 1..n : powers[k] <= v}
            upTo == Cardinality(quiet)
            below == Cardinality({k \in 1..n : powers[k] < v})
            occupied == s.OccupiedBins
            loud == {k \in 1..n : powers[k] > Threshold(v)}
<1>1. SUFFICES ASSUME n > 0
               PROVE  /\ 100 * upTo >= FloorPercent * n
                      /\ below = 0 \/ 100 * below < FloorPercent * n
                      /\ ThresholdMarginDB >= 0 => 100 * occupied <= (100 - FloorPercent) * n
  OBVIOUS
<1>2. powers \in Seq(Int) /\ Len(powers) = n /\ DOMAIN powers = 1..n /\ n \in Nat
  BY PowersInside
<1>3. /\ v = Percentile(powers, NoiseFloorPercentile) /\ v \in Int
      /\ occupied \in 0..n /\ occupied = Cardinality(loud)
  BY <1>1, AnalyzeIs
<1>. HIDE DEF s, inside, powers, n, v, occupied
<1>4. NoiseFloorPercentile \in Int /\ ThresholdMarginDB \in Int
  BY SweepAnalysisAssumption
<1>5. FloorPercent = Clipped(NoiseFloorPercentile) /\ FloorPercent \in 0..100
  BY <1>4 DEF FloorPercent, Clipped
<1>6. /\ upTo \in 0..n /\ 100 * upTo >= FloorPercent * n
      /\ below \in Nat /\ (below = 0 \/ 100 * below < FloorPercent * n)
  <2>1. powers # <<>>
    BY <1>1, <1>2, EmptySeq
  <2>. QED
    BY <1>2, <1>3, <1>4, <1>5, <2>1, PercentileIs
<1>7. ASSUME ThresholdMarginDB >= 0
      PROVE  100 * occupied <= (100 - FloorPercent) * n
  <2>1. IsFiniteSet(1..n) /\ Cardinality(1..n) = n
    <3>1. IsFiniteSet(1..n) /\ Cardinality(1..n) = IF 1 > n THEN 0 ELSE n - 1 + 1
      BY <1>2, FS_Interval
    <3>. QED
      BY <1>2, <3>1
  <2>2. \A k \in 1..n : powers[k] \in Int
    BY <1>2, ElementOfSeq
  <2>3. loud \in SUBSET ((1..n) \ quiet) /\ quiet \in SUBSET (1..n)
    BY <1>3, <1>4, <1>7, <2>2 DEF Threshold
  <2>. HIDE DEF loud, quiet
  <2>4. ASSUME NEW A, A = 1..n
        PROVE  Cardinality(loud) <= n - upTo
    <3>1. /\ IsFiniteSet(A) /\ IsFiniteSet(A \ quiet)
          /\ Cardinality(A \ quiet) = Cardinality(A) - Cardinality(A \cap quiet)
      BY <2>1, <2>4, FS_Difference
    <3>2. A \cap quiet = quiet
      BY <2>3, <2>4
    <3>3. Cardinality(loud) <= Cardinality(A \ quiet)
      BY <2>3, <2>4, <3>1, FS_Subset
    <3>. QED
      BY <2>1, <2>4, <3>1, <3>2, <3>3
  <2>5. occupied <= n - upTo
    BY <1>3, <2>4
  <2>6. 100 * occupied <= 100 * n - 100 * upTo
    BY <1>2, <1>3, <1>6, <2>5
  <2>. HIDE DEF upTo
  <2>7. (100 - FloorPercent) * n = 100 * n - FloorPercent * n /\ FloorPercent * n \in Int
    BY <1>2, <1>5
  <2>. QED
    BY <1>2, <1>3, <1>6, <2>6, <2>7
<1>. QED
  BY <1>6, <1>7

(***************************************************************************)
(* An emission called wideband spans half that width, and emissions do not *)
(* overlap.                                                                *)
(***************************************************************************)
LEMMA ClassifyIs ==
  ASSUME NEW rows \in SweepRows, NEW band,
         NEW e \in Classify(ParseSweep(rows), band), NEW f \in Classify(ParseSweep(rows), band)
  PROVE  /\ e.Class = "wideband" => 2 * (e.HighHz - e.LowHz) >= WidebandHz
         /\ e # f => e.HighHz < f.LowHz \/ f.HighHz < e.LowHz
<1>. DEFINE inside == InBand(ParseSweep(rows), band)
            F == {inside[i].freq : i \in DOMAIN inside}
            freqs == Ascending(F)
            floors == [i \in DOMAIN freqs |->
                         Percentile(PowersAt(inside, freqs[i]), NoiseFloorPercentile)]
            threshold == Threshold(Percentile(floors, NoiseFloorPercentile))
            duty == [i \in DOMAIN freqs |->
                       <<Above(PowersAt(inside, freqs[i]), threshold),
                         Len(PowersAt(inside, freqs[i]))>>]
            step == GridStep(freqs)
            present(i) == i \in DOMAIN freqs /\ 100 * duty[i][1] >= PresentDutyPercent * duty[i][2]
            joined(i) == present(i) /\ present(i + 1) /\ 2 * (freqs[i + 1] - freqs[i]) <= 3 * step
            runs == {r \in (DOMAIN freqs) \X (DOMAIN freqs) :
                       /\ r[1] <= r[2] /\ present(r[1])
                       /\ \A k \in r[1]..(r[2] - 1) : joined(k)
                       /\ ~joined(r[1] - 1) /\ ~joined(r[2])}
            width(i, j) == Bandwidth(SubSeq(freqs, i, j), step)
            peak(i, j) == Max(UNION {Range(PowersAt(inside, freqs[k])) : k \in i..j})
            busy(i, j) == Busiest({duty[k] : k \in i..j})
            emission(i, j) ==
              [LowHz |-> freqs[i], HighHz |-> freqs[j], BandwidthHz |-> width(i, j),
               PeakDB |-> peak(i, j), Class |-> Class(width(i, j), busy(i, j))]
<1>1. Classify(ParseSweep(rows), band) =
        IF inside = <<>> THEN {} ELSE {emission(r[1], r[2]) : r \in runs}
  BY DEF Classify
<1>. DEFINE N == Cardinality(F)
<1>2. /\ N \in Nat /\ freqs \in [1..N -> Int]
      /\ \A j, k \in 1..N : j < k => freqs[j] < freqs[k]
  <2>1. inside \in Seq(BinType) /\ Len(inside) \in Nat /\ DOMAIN inside = 1..Len(inside)
    BY PowersInside
  <2>. HIDE DEF inside
  <2>2. \A i \in DOMAIN inside : inside[i].freq \in Int
    <3>1. \A i \in DOMAIN inside : inside[i] \in BinType
      BY <2>1, ElementOfSeq
    <3>. QED
      BY <3>1 DEF BinType
  <2>. DEFINE h == [i \in 1..Len(inside) |-> inside[i].freq]
  <2>3. h \in Surjection(1..Len(inside), F)
    BY <2>1 DEF Surjection
  <2>4. IsFiniteSet(1..Len(inside))
    BY <2>1, FS_Interval
  <2>5. F \in SUBSET Int
    BY <2>2
  <2>. HIDE DEF h, F
  <2>6. IsFiniteSet(F)
    BY <2>3, <2>4, FS_Surjection
  <2>7. /\ N \in Nat /\ freqs \in [1..N -> F]
        /\ \A j, k \in 1..N : j < k => freqs[j] < freqs[k]
    BY <2>5, <2>6, AscendingIs
  <2>. QED
    BY <2>5, <2>7
<1>. HIDE DEF inside, freqs, N, duty, step, floors, threshold, present, width, peak, busy
<1>3. PICK r \in runs : e = emission(r[1], r[2])
  <2>. HIDE DEF runs, emission
  <2>. QED
    BY <1>1
<1>4. PICK q \in runs : f = emission(q[1], q[2])
  <2>. HIDE DEF runs, emission
  <2>. QED
    BY <1>1
<1>. HIDE DEF joined
<1>5. ASSUME NEW p \in runs
      PROVE  /\ p[1] \in 1..N /\ p[2] \in 1..N /\ p[1] <= p[2]
             /\ \A k \in p[1]..(p[2] - 1) : joined(k)
             /\ ~joined(p[1] - 1) /\ ~joined(p[2])
  BY <1>2
<1>. HIDE DEF runs
<1>6. ASSUME NEW i \in 1..N, NEW j \in 1..N, i <= j, Class(width(i, j), busy(i, j)) = "wideband"
      PROVE  2 * (freqs[j] - freqs[i]) >= WidebandHz
  <2>. DEFINE run == SubSeq(freqs, i, j)
              d == freqs[j] - freqs[i]
              m == j - i
  <2>1. width(i, j) >= WidebandHz
    BY <1>6 DEF Class
  <2>2. freqs \in Seq(Int) /\ Len(freqs) = N
    BY <1>2
  <2>3. m \in Nat /\ i \in Nat /\ j \in Nat /\ i <= j /\ j <= N /\ i >= 1
    BY <1>2, <1>6
  <2>4. Len(run) = m + 1 /\ Head(run) = freqs[i] /\ Last(run) = freqs[j]
    <3>1. run = [k \in 1..(m + 1) |-> freqs[i + k - 1]]
      BY <2>2, <2>3 DEF m
    <3>2. Len(run) = m + 1
      BY <2>2, <2>3, <3>1
    <3>3. Head(run) = run[1] /\ Last(run) = run[m + 1]
      BY <3>1, <3>2, <2>3 DEF Last
    <3>. QED
      BY <2>3, <3>1, <3>2, <3>3
  <2>5. /\ d \in Int /\ freqs[i] \in Int /\ freqs[j] \in Int
        /\ i = j => d = 0
        /\ i < j => d > 0
    BY <1>2, <1>6
  <2>6. WidebandHz \in Int
    BY SweepAnalysisAssumption
  <2>7. width(i, j) = IF m + 1 < 2 THEN 0 ELSE d + d \div (m + 1 - 1)
    BY <2>4 DEF width, Bandwidth
  <2>. HIDE DEF run, d, m
  <2>8. CASE m = 0
    BY <2>1, <2>3, <2>5, <2>6, <2>7, <2>8 DEF m, d
  <2>9. CASE m > 0
    <3>1. d \in Nat /\ d > 0
      BY <2>3, <2>5, <2>9 DEF m
    <3>2. \A a, b \in Nat : b > 0 => a \div b <= a /\ a \div b \in Int
      <4>1. ASSUME NEW a \in Nat, NEW b \in Nat, b > 0
            PROVE  a \div b <= a /\ a \div b \in Nat
        <5>. DEFINE w == a \div b
        <5>1. w \in Int /\ a = b * w + (a % b) /\ a % b >= 0 /\ w >= 0
          BY <4>1, SMT
        <5>. HIDE DEF w
        <5>2. b * w >= w
          BY <4>1, <5>1
        <5>. QED
          BY <4>1, <5>1, <5>2 DEF w
      <4>. QED
        BY <4>1
    <3>3. d \div m <= d /\ d \div m \in Int /\ m + 1 - 1 = m
      BY <2>3, <2>9, <3>1, <3>2
    <3>4. width(i, j) = d + d \div m
      BY <2>3, <2>7, <2>9, <3>3
    <3>. QED
      BY <2>1, <2>5, <2>6, <3>3, <3>4 DEF d
  <2>. QED
    BY <2>3, <2>8, <2>9
<1>7. e.Class = "wideband" => 2 * (e.HighHz - e.LowHz) >= WidebandHz
  BY <1>3, <1>5, <1>6
<1>8. ASSUME ~(r[2] < q[1]), ~(q[2] < r[1])
      PROVE  r[1] = q[1] /\ r[2] = q[2]
  <2>1. /\ r[1] \in Nat /\ r[2] \in Nat /\ q[1] \in Nat /\ q[2] \in Nat
        /\ q[1] <= r[2] /\ r[1] <= q[2] /\ r[1] <= r[2] /\ q[1] <= q[2]
    <3>1. \A k \in 1..N : k \in Nat
      BY <1>2
    <3>2. r[1] \in 1..N /\ r[2] \in 1..N /\ r[1] <= r[2]
      BY <1>5
    <3>3. q[1] \in 1..N /\ q[2] \in 1..N /\ q[1] <= q[2]
      BY <1>5
    <3>4. r[1] \in Nat /\ r[2] \in Nat /\ q[1] \in Nat /\ q[2] \in Nat
      BY <3>1, <3>2, <3>3
    <3>. QED
      BY <1>8, <3>2, <3>3, <3>4
  <2>2. \A k \in r[1]..(r[2] - 1) : k # q[1] - 1 /\ k # q[2]
    BY <1>5
  <2>3. \A k \in q[1]..(q[2] - 1) : k # r[1] - 1 /\ k # r[2]
    BY <1>5
  <2>. QED
    BY <2>1, <2>2, <2>3
<1>9. e # f => e.HighHz < f.LowHz \/ f.HighHz < e.LowHz
  <2>1. SUFFICES ASSUME e # f
                 PROVE  e.HighHz < f.LowHz \/ f.HighHz < e.LowHz
    OBVIOUS
  <2>2. r[2] < q[1] \/ q[2] < r[1]
    <3>. HIDE DEF emission
    <3>. QED
      BY <1>3, <1>4, <1>8, <2>1
  <2>3. freqs[r[2]] < freqs[q[1]] \/ freqs[q[2]] < freqs[r[1]]
    BY <1>2, <1>5, <2>2
  <2>. QED
    BY <1>3, <1>4, <2>3
<1>. QED
  BY <1>7, <1>9

(***************************************************************************)
(* Every band's report is what the capture holds.                          *)
(***************************************************************************)
LEMMA ReportIs ==
  ASSUME captured \in SweepRows, NEW i \in DOMAIN Bands
  PROVE  LET s == AnalyzeBands(ParseSweep(captured))[i]
             edges(row, j) == {2 * (row.low + row.width * (j - 1)), 2 * (row.low + row.width * j)}
         IN  /\ s.BinCount = Measured(i, LAMBDA p : TRUE)
             /\ s.BinCount > 0 =>
                  /\ 100 * Measured(i, LAMBDA p : p <= s.NoiseFloorDB) >= FloorPercent * s.BinCount
                  /\ \/ Measured(i, LAMBDA p : p < s.NoiseFloorDB) = 0
                     \/ 100 * Measured(i, LAMBDA p : p < s.NoiseFloorDB) < FloorPercent * s.BinCount
                  /\ ThresholdMarginDB >= 0 =>
                       100 * s.OccupiedBins <= (100 - FloorPercent) * s.BinCount
                  /\ Measured(i, LAMBDA p : p > s.MaxDB) = 0
                  /\ \E r \in DOMAIN captured : \E j \in DOMAIN captured[r].powers :
                       /\ captured[r].powers[j] = s.MaxDB
                       /\ \E a, b \in edges(captured[r], j) : a <= s.PeakFreqHz /\ s.PeakFreqHz <= b
<1>. DEFINE band == Bands[i]
            s == Analyze(ParseSweep(captured), band)
            inside == InBand(ParseSweep(captured), band)
            powers == Powers(inside)
            n == Len(inside)
            edges(row, j) == {2 * (row.low + row.width * (j - 1)), 2 * (row.low + row.width * j)}
<1>1. AnalyzeBands(ParseSweep(captured))[i] = s
  BY DEF AnalyzeBands
<1>2. /\ s.BinCount = n /\ n \in Nat
      /\ n > 0 =>
           /\ s.NoiseFloorDB \in Int
           /\ s.MaxDB \in Int /\ \A k \in 1..n : powers[k] <= s.MaxDB
           /\ \E k \in 1..n : powers[k] = s.MaxDB /\ s.PeakFreqHz = inside[k].freq
  <2>1. n \in Nat
    BY PowersInside
  <2>2. /\ s.BinCount = n
        /\ n > 0 =>
             /\ s.NoiseFloorDB \in Int
             /\ s.MaxDB \in Int /\ \A k \in 1..n : powers[k] <= s.MaxDB
             /\ \E k \in 1..n : powers[k] = s.MaxDB /\ s.PeakFreqHz = inside[k].freq
    BY AnalyzeIs
  <2>. QED
    BY <2>1, <2>2
<1>3. n > 0 =>
        /\ 100 * Cardinality({k \in 1..n : powers[k] <= s.NoiseFloorDB}) >= FloorPercent * n
        /\ \/ Cardinality({k \in 1..n : powers[k] < s.NoiseFloorDB}) = 0
           \/ 100 * Cardinality({k \in 1..n : powers[k] < s.NoiseFloorDB}) < FloorPercent * n
        /\ ThresholdMarginDB >= 0 => 100 * s.OccupiedBins <= (100 - FloorPercent) * n
  BY SharesAre
<1>4. /\ Measured(i, LAMBDA p : TRUE) = n
      /\ \A v \in Int :
           /\ Measured(i, LAMBDA p : p <= v) = Cardinality({k \in 1..n : powers[k] <= v})
           /\ Measured(i, LAMBDA p : p < v) = Cardinality({k \in 1..n : powers[k] < v})
           /\ Measured(i, LAMBDA p : p > v) = Cardinality({k \in 1..n : powers[k] > v})
  BY MeasuredIs
<1>5. /\ DOMAIN powers = 1..n /\ powers \in Seq(Int)
      /\ \A k \in 1..n :
           \E c \in Cells(captured) :
              inside[k] = CellBin(captured, c) /\ powers[k] = captured[c[1]].powers[c[2]]
  BY PowersInside
<1>. HIDE DEF s, inside, powers, n
<1>6. ASSUME n > 0
      PROVE  Measured(i, LAMBDA p : p > s.MaxDB) = 0
  <2>1. Measured(i, LAMBDA p : p > s.MaxDB) = Cardinality({k \in 1..n : powers[k] > s.MaxDB})
    BY <1>2, <1>4, <1>6
  <2>2. \A k \in 1..n : powers[k] \in Int /\ powers[k] <= s.MaxDB /\ s.MaxDB \in Int
    BY <1>2, <1>5, <1>6, ElementOfSeq
  <2>3. {k \in 1..n : powers[k] > s.MaxDB} = {}
    BY <2>2
  <2>. QED
    BY <2>1, <2>3, FS_EmptySet
<1>7. ASSUME n > 0
      PROVE  \E r \in DOMAIN captured : \E j \in DOMAIN captured[r].powers :
               /\ captured[r].powers[j] = s.MaxDB
               /\ \E a, b \in edges(captured[r], j) : a <= s.PeakFreqHz /\ s.PeakFreqHz <= b
  <2>1. PICK k \in 1..n : powers[k] = s.MaxDB /\ s.PeakFreqHz = inside[k].freq
    BY <1>2, <1>7
  <2>2. PICK c \in Cells(captured) :
          inside[k] = CellBin(captured, c) /\ powers[k] = captured[c[1]].powers[c[2]]
    BY <1>5
  <2>. DEFINE r == c[1]
              j == c[2]
              low == captured[r].low
              w == captured[r].width
  <2>3. /\ r \in DOMAIN captured /\ j \in DOMAIN captured[r].powers /\ j \in Nat
    BY CellsAre
  <2>4. low \in Int /\ w \in Int
    <3>. DEFINE Row == [low : Int, width : Int, powers : Seq(Int \cup {Absent})]
    <3>1. captured \in Seq(Row)
      BY DEF SweepRows
    <3>. HIDE DEF Row
    <3>2. captured[r] \in Row
      BY <2>3, <3>1, ElementOfSeq
    <3>. USE DEF Row
    <3>. QED
      BY <3>2
  <2>5. s.PeakFreqHz = 2 * low + w * (2 * j - 1)
    BY <2>1, <2>2 DEF CellBin, Bin
  <2>6. captured[r].powers[j] = s.MaxDB
    BY <2>1, <2>2
  <2>. DEFINE x == 2 * (low + w * (j - 1))
              y == 2 * (low + w * j)
              x0 == w * j
  <2>7. /\ x \in Int /\ y \in Int /\ x0 \in Int
        /\ x = 2 * low + 2 * x0 - 2 * w
        /\ y = 2 * low + 2 * x0
        /\ s.PeakFreqHz = 2 * low + 2 * x0 - w
    BY <2>3, <2>4, <2>5
  <2>8. {x, y} = edges(captured[r], j)
    OBVIOUS
  <2>. HIDE DEF x, y, x0, low, w, r, j, edges
  <2>9. \E a, b \in {x, y} : a <= s.PeakFreqHz /\ s.PeakFreqHz <= b
    <3>1. CASE w >= 0
      BY <2>4, <2>7, <3>1
    <3>2. CASE w < 0
      BY <2>4, <2>7, <3>2
    <3>. QED
      BY <2>4, <3>1, <3>2
  <2>. QED
    BY <2>3, <2>6, <2>8, <2>9
<1>8. n > 0 =>
        /\ 100 * Measured(i, LAMBDA p : p <= s.NoiseFloorDB) >= FloorPercent * n
        /\ \/ Measured(i, LAMBDA p : p < s.NoiseFloorDB) = 0
           \/ 100 * Measured(i, LAMBDA p : p < s.NoiseFloorDB) < FloorPercent * n
  BY <1>2, <1>3, <1>4
<1>. QED
  BY <1>1, <1>2, <1>3, <1>4, <1>6, <1>7, <1>8

-----------------------------------------------------------------------------
(* The states of the exporter *)

\* What Publish relies on: a band that was covered has a share of its bins, two
\* powers and a frequency inside it.
StatOK(s, i) ==
  /\ s.BinCount \in Nat
  /\ s.BinCount > 0 =>
       /\ s.OccupiedBins \in 0..s.BinCount
       /\ s.NoiseFloorDB \in Int /\ s.MaxDB \in Int
       /\ InsideBand(s.PeakFreqHz, i)

GaugeOK(s, v) ==
  v # Absent =>
    CASE s[1] = "occupancy_percent" -> v[2] > 0 /\ v[1] \in 0..v[2]
      [] s[1] = "peak_frequency_hz" -> v = Zero(s[1]) \/ InsideBand(v[1], s[2])
      [] OTHER -> v[1] \in Int

\* Every sweep the clock counts was published, failed or is under way.
SweepsOK ==
  /\ pc \in {"waiting", "capture", "sense", "publish"}
  /\ clock \in 0..MaxSweeps /\ sweeps \in Nat /\ sweepErr \in Nat /\ lastSweep \in 0..clock
  /\ sweeps + sweepErr + (IF pc = "waiting" THEN 0 ELSE 1) = clock

ReductionOK ==
  /\ pc = "sense" => captured \in Captures
  /\ pc = "publish" => \A i \in DOMAIN Bands : StatOK(stats[i], i)

ExporterInv ==
  /\ SweepsOK
  /\ ReductionOK
  /\ \A s \in Series : GaugeOK(s, gauges[s])

(***************************************************************************)
(* A reduction is such a one.                                              *)
(***************************************************************************)
LEMMA StatIs ==
  ASSUME NEW rows \in SweepRows, NEW i \in DOMAIN Bands
  PROVE  StatOK(AnalyzeBands(ParseSweep(rows))[i], i)
<1>. DEFINE band == Bands[i]
            s == Analyze(ParseSweep(rows), band)
            inside == InBand(ParseSweep(rows), band)
            powers == Powers(inside)
            n == Len(inside)
            D == {c \in Cells(rows) : Within(CellBin(rows, c).freq, band)}
<1>1. AnalyzeBands(ParseSweep(rows))[i] = s
  BY DEF AnalyzeBands
<1>2. /\ s.BinCount = n /\ n \in Nat
      /\ n > 0 =>
           /\ s.NoiseFloorDB \in Int /\ s.OccupiedBins \in 0..n /\ s.MaxDB \in Int
           /\ \E k \in 1..n : s.PeakFreqHz = inside[k].freq
  <2>1. n \in Nat
    BY PowersInside
  <2>2. /\ s.BinCount = n
        /\ n > 0 =>
             /\ s.NoiseFloorDB \in Int /\ s.OccupiedBins \in 0..n /\ s.MaxDB \in Int
             /\ \E k \in 1..n : s.PeakFreqHz = inside[k].freq
    BY AnalyzeIs
  <2>. QED
    BY <2>1, <2>2
<1>3. \A k \in 1..n : \E c \in D : inside[k] = CellBin(rows, c)
  BY PowersInside
<1>. HIDE DEF s, inside, n
<1>4. n > 0 => InsideBand(s.PeakFreqHz, i)
  BY <1>2, <1>3 DEF InsideBand
<1>. QED
  BY <1>1, <1>2, <1>4 DEF StatOK

(***************************************************************************)
(* A value of a covered band, and one With has just made, may be scraped.  *)
(***************************************************************************)
LEMMA ValueIs ==
  ASSUME NEW u \in Series, NEW s, StatOK(s, u[2])
  PROVE  GaugeOK(u, Value(u[1], s)) /\ GaugeOK(u, Zero(u[1]))
<1>1. /\ u[1] \in {"bins", "occupancy_percent", "peak_db", "peak_frequency_hz", "noise_floor_db"}
  <2>1. DOMAIN Metrics = 1..5
    BY DEF Metrics
  <2>. QED
    BY <2>1 DEF Metrics, Range, Series
<1>2. GaugeOK(u, Zero(u[1]))
  BY <1>1 DEF GaugeOK, Zero
<1>3. GaugeOK(u, Value(u[1], s))
  <2>1. CASE u[1] = "bins"
    BY <2>1 DEF GaugeOK, Value, Reading, StatOK
  <2>2. CASE u[1] # "bins" /\ s.BinCount = 0
    BY <2>2 DEF GaugeOK, Value
  <2>3. CASE u[1] # "bins" /\ s.BinCount # 0
    <3>1. /\ Value(u[1], s) = Reading(u[1], s) /\ s.BinCount > 0
          /\ s.OccupiedBins \in 0..s.BinCount /\ s.NoiseFloorDB \in Int /\ s.MaxDB \in Int
          /\ InsideBand(s.PeakFreqHz, u[2])
      BY <2>3 DEF StatOK, Value
    <3>. QED
      BY <1>1, <2>3, <3>1 DEF GaugeOK, Reading
  <2>. QED
    BY <2>1, <2>2, <2>3
<1>. QED
  BY <1>2, <1>3

(***************************************************************************)
(* What the constants promise of the captures is what the lemmas ask of    *)
(* rows.                                                                   *)
(***************************************************************************)
LEMMA CapturesAreRows == Captures \subseteq SweepRows
BY SpectrumExporterAssumption DEF SweepRows

(***************************************************************************)
(* Setting or deleting one series leaves what a scrape may read in order.  *)
(***************************************************************************)
LEMMA GaugesStay ==
  ASSUME \A s \in Series : GaugeOK(s, gauges[s]), DOMAIN gauges = Series,
         NEW u \in Series, NEW v, GaugeOK(u, v), gauges' = [gauges EXCEPT ![u] = v]
  PROVE  \A s \in Series : GaugeOK(s, gauges'[s])
<1>1. \A s \in Series : gauges'[s] = IF s = u THEN v ELSE gauges[s]
  OBVIOUS
<1>. QED
  BY <1>1

(***************************************************************************)
(* Between a capture and its stamp nothing ill-typed is published,         *)
(* whichever of capture, sensing and publishing fails or is scraped midway *)
(* (main.go, publisher.go Publish, PublishError).                          *)
(***************************************************************************)
THEOREM ExporterInvariant == ExporterSpec => []ExporterInv
<1>1. ExporterInit => ExporterInv
  <2> SUFFICES ASSUME ExporterInit PROVE ExporterInv
    OBVIOUS
  <2>1. SweepsOK
    BY SpectrumExporterAssumption DEF ExporterInit, SweepsOK
  <2>2. ReductionOK
    BY DEF ExporterInit, ReductionOK
  <2>3. \A s \in Series : GaugeOK(s, gauges[s])
    BY DEF ExporterInit, GaugeOK
  <2>. QED
    BY <2>1, <2>2, <2>3 DEF ExporterInv
<1>2. ExporterInv /\ BooksOK /\ PublishedUpToHere /\ [ExporterNext]_exporterVars => ExporterInv'
  <2> SUFFICES ASSUME SweepsOK, ReductionOK, \A s \in Series : GaugeOK(s, gauges[s]),
                      BooksOK, PublishedUpToHere, [ExporterNext]_exporterVars
               PROVE  SweepsOK' /\ ReductionOK' /\ \A s \in Series : GaugeOK(s, gauges'[s])
    BY DEF ExporterInv
  <2>0. DOMAIN gauges = Series
    BY DEF BooksOK
  <2>1. CASE Tick
    <3>1. SweepsOK'
      BY <2>1, SpectrumExporterAssumption DEF Tick, counters, SweepsOK
    <3>. QED
      BY <2>1, <3>1 DEF Tick, ReductionOK
  <2>2. CASE CaptureFails
    <3>1. SweepsOK'
      BY <2>2 DEF CaptureFails, PublishError, SweepsOK
    <3>. QED
      BY <2>2, <3>1 DEF CaptureFails, PublishError, ReductionOK
  <2>3. CASE Capture
    <3>1. SweepsOK'
      BY <2>3 DEF Capture, counters, SweepsOK
    <3>. QED
      BY <2>3, <3>1 DEF Capture, ReductionOK
  <2>4. CASE SenseFails
    <3>1. SweepsOK'
      BY <2>4 DEF SenseFails, PublishError, SweepsOK
    <3>. QED
      BY <2>4, <3>1 DEF SenseFails, PublishError, ReductionOK
  <2>5. CASE Sense
    <3>1. /\ pc = "sense" /\ pc' = "publish"
          /\ stats' = AnalyzeBands(ParseSweep(captured))
          /\ UNCHANGED <<clock, gauges, counters>>
      BY <2>5 DEF Sense
    <3>2. captured \in SweepRows
      BY <3>1, CapturesAreRows DEF ReductionOK
    <3>3. \A i \in DOMAIN Bands : StatOK(stats'[i], i)
      BY <3>1, <3>2, StatIs
    <3>4. SweepsOK'
      BY <3>1 DEF counters, SweepsOK
    <3>5. ReductionOK'
      BY <3>1, <3>3 DEF ReductionOK
    <3>. QED
      BY <3>1, <3>4, <3>5
  <2>6. ASSUME pc = "publish", todo # <<>>
        PROVE  /\ Head(todo) \in Series
               /\ GaugeOK(Head(todo), Value(Head(todo)[1], stats[Head(todo)[2]]))
               /\ GaugeOK(Head(todo), Zero(Head(todo)[1]))
    <3>1. Head(todo) \in Series
      BY <2>6, RestOfUpdates DEF PublishedUpToHere
    <3>2. Head(todo)[2] \in DOMAIN Bands
      BY <3>1 DEF Series
    <3>. DEFINE u == Head(todo)
    <3>3. StatOK(stats[u[2]], u[2])
      BY <2>6, <3>2 DEF ReductionOK
    <3>4. u \in Series
      BY <3>1
    <3>. HIDE DEF u
    <3>5. GaugeOK(u, Value(u[1], stats[u[2]])) /\ GaugeOK(u, Zero(u[1]))
      BY <3>3, <3>4, ValueIs
    <3>. QED
      BY <3>4, <3>5 DEF u
  <2>7. CASE Create
    <3>1. /\ pc = "publish" /\ todo # <<>>
          /\ gauges' = [gauges EXCEPT ![Head(todo)] = Zero(Head(todo)[1])]
          /\ UNCHANGED <<pc, clock, captured, stats, counters>>
      BY <2>7 DEF Create, Done
    <3>2. \A s \in Series : GaugeOK(s, gauges'[s])
      BY <2>0, <2>6, <3>1, GaugesStay
    <3>3. SweepsOK' /\ ReductionOK'
      BY <3>1 DEF SweepsOK, ReductionOK, counters
    <3>. QED
      BY <3>2, <3>3
  <2>8. CASE Set \/ Delete
    <3>1. /\ pc = "publish" /\ todo # <<>>
          /\ UNCHANGED <<pc, clock, captured, stats, counters>>
          /\ \/ gauges' = [gauges EXCEPT ![Head(todo)] = Value(Head(todo)[1], stats[Head(todo)[2]])]
             \/ gauges' = [gauges EXCEPT ![Head(todo)] = Absent]
      BY <2>8 DEF Set, Delete, Write, Done
    <3>2. GaugeOK(Head(todo), Absent)
      BY DEF GaugeOK
    <3>3. \A s \in Series : GaugeOK(s, gauges'[s])
      BY <2>0, <2>6, <3>1, <3>2, GaugesStay
    <3>4. SweepsOK' /\ ReductionOK'
      BY <3>1 DEF SweepsOK, ReductionOK, counters
    <3>. QED
      BY <3>3, <3>4
  <2>9. CASE Stamp
    <3>1. SweepsOK'
      BY <2>9 DEF Stamp, SweepsOK
    <3>. QED
      BY <2>9, <3>1 DEF Stamp, ReductionOK
  <2>10. CASE UNCHANGED exporterVars
    BY <2>10 DEF exporterVars, counters, SweepsOK, ReductionOK
  <2>. QED
    BY <2>1, <2>2, <2>3, <2>4, <2>5, <2>7, <2>8, <2>9, <2>10 DEF ExporterNext
<1>. QED
  BY <1>1, <1>2, PublishedInOrder, PTL DEF ExporterSpec

(***************************************************************************)
(* Whatever a scrape reads, at any instant, is a share of at least one bin *)
(* and at most one hundred percent, a power, or a frequency of its band    *)
(* (publisher.go Publish).                                                 *)
(***************************************************************************)
THEOREM ScrapesAreWellTyped == ExporterSpec => []TypeOK
<1>1. ExporterInv /\ BooksOK => TypeOK
  <2> SUFFICES ASSUME ExporterInv, BooksOK PROVE TypeOK
    OBVIOUS
  <2>1. {clock, sweeps, sweepErr, lastSweep} \subseteq 0..MaxSweeps
    <3>1. MaxSweeps \in Nat
      BY SpectrumExporterAssumption
    <3>2. clock \in 0..MaxSweeps /\ lastSweep \in 0..MaxSweeps
      BY <3>1 DEF ExporterInv, SweepsOK
    <3>3. sweeps \in 0..MaxSweeps /\ sweepErr \in 0..MaxSweeps
      BY <3>1 DEF ExporterInv, SweepsOK
    <3>. QED
      BY <3>2, <3>3
  <2>2. pc \in {"waiting", "capture", "sense", "publish"}
    BY DEF ExporterInv, SweepsOK
  <2>3. written \in [Series -> 0..clock]
    BY DEF BooksOK
  <2>4. \A s \in Series : gauges[s] # Absent =>
          LET v == gauges[s] IN
          CASE s[1] = "occupancy_percent" -> v[2] > 0 /\ v[1] \in 0..v[2]
            [] s[1] = "peak_frequency_hz" -> v = Zero(s[1]) \/ InsideBand(v[1], s[2])
            [] OTHER -> v[1] \in Int
    BY DEF ExporterInv, GaugeOK
  <2>. QED
    BY <2>1, <2>2, <2>3, <2>4 DEF TypeOK
<1>. QED
  BY <1>1, ExporterInvariant, PublishedInOrder, PTL

(***************************************************************************)
(* Every band's report, and every emission, is what the capture holds, for *)
(* every capture and every options (spectrum.go ParseSweep, Analyze,       *)
(* classify.go Classify).                                                  *)
(***************************************************************************)
THEOREM ReportsAreMeasured == ExporterSpec => []ReportIsMeasured
<1>1. ExporterInv => ReportIsMeasured
  <2>1. SUFFICES ASSUME ExporterInv, pc = "sense"
                 PROVE  ReportIsMeasured
    BY DEF ReportIsMeasured
  <2>2. captured \in SweepRows
    BY <2>1, CapturesAreRows DEF ExporterInv, ReductionOK
  <2>3. ASSUME NEW i \in DOMAIN Bands, NEW e \in Emissions(captured)[i]
        PROVE  /\ e.Class = "wideband" => 2 * (e.HighHz - e.LowHz) >= WidebandHz
               /\ \A f \in Emissions(captured)[i] :
                    e # f => e.HighHz < f.LowHz \/ f.HighHz < e.LowHz
    <3>1. Emissions(captured)[i] = Classify(ParseSweep(captured), Bands[i])
      BY DEF Emissions
    <3>. DEFINE es == Classify(ParseSweep(captured), Bands[i])
    <3>2. \A x, f \in es :
            /\ x.Class = "wideband" => 2 * (x.HighHz - x.LowHz) >= WidebandHz
            /\ x # f => x.HighHz < f.LowHz \/ f.HighHz < x.LowHz
      BY <2>2, ClassifyIs
    <3>. HIDE DEF es
    <3>. QED
      BY <2>3, <3>1, <3>2 DEF es
  <2>. QED
    BY <2>1, <2>2, <2>3, ReportIs DEF ReportIsMeasured
<1>. QED
  BY <1>1, ExporterInvariant, PTL
=============================================================================
