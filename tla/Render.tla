------------------------------- MODULE Render -------------------------------
(***************************************************************************)
(* How a command shows what it has fetched: the writer each command gets   *)
(* (pkg/output/helpers), the rows of StreamModel and the header they       *)
(* follow (pkg/output/stream.go), and the JsonWriter                       *)
(* (pkg/output/json_writer.go) that puts many rows, errors and the meta    *)
(* data into one JSON document.  With --file one invocation runs a command *)
(* for every line of a file, each with a format of its own, and they share *)
(* the writer.  The output is a sequence of tokens: brackets, commas,      *)
(* "row", "errors" and "meta" of JSON, "header" and "line" of a text.      *)
(***************************************************************************)
EXTENDS Naturals, FiniteSets, Models

CONSTANTS
  Kinds,     \* the types that are shown
  Records,   \* Records[kind]: the records of that type, as sets of facts
  Asked,     \* Asked[kind]: the [opts, fields] the commands pass with that type
  MaxLines,  \* MaxLines[kind]: how many lines a command file has at most
  MaxRows,   \* the rows one command shows at most
  Sinks      \* Sinks[kind]: where the output may go, to "stdout", "file", "append" or "api"

ASSUME RenderAssumption ==
  /\ MaxRows \in Nat \ {0}
  /\ \A k \in Kinds : Sinks[k] \subseteq {"stdout", "file", "append", "api"}

VARIABLES
  kind, p,   \* what is shown, and the ModelProps of the current command
  sink,      \* the default writer, --output or --append
  writer,    \* opts.Writer: a plain writer, or the state of a JsonWriter
  out,       \* what has been written
  first,     \* the row whose order is the header of the current command, <<>> before it
  row,       \* the last row: the facts of its record and its Model
  cmd,       \* "idle", "running", "failed" or "done"
  lines, rows, errors  \* how many commands, rows and errors there have been

\* (StreamProofs extends this module beside Stream: what both would define is named here
\* for Render)
renderVars == <<kind, p, sink, writer, out, first, row, cmd, lines, rows, errors>>

(***************************************************************************)
(* The JsonWriter                                                          *)
(***************************************************************************)
NewDefaultJsonWriter(meta) ==
  [position |-> "Empty", children |-> 0, previousStates |-> <<>>, errs |-> 0, meta |-> meta]

\* A writer and the tokens it has still to write, so that its methods can call one another
With(w, o) == [w |-> w, out |-> o]
shouldInsertComma_Bug(w) == w.children > 1 \* [mutant] one too many before the first comma
shouldInsertComma(w) == w.children > 0
Comma(w, o) == IF shouldInsertComma(w) THEN Append(o, ",") ELSE o

\* w.state and w.previousStates, which change together
Moved(w, position, children, previousStates) ==
  [position |-> position, children |-> children, previousStates |-> previousStates,
   errs |-> w.errs, meta |-> w.meta]
state(w, children) == [position |-> w.position, children |-> children]

OpenField(w, o) ==
  With(Moved(w, "InArray", 0, Append(w.previousStates, state(w, w.children + 1))),
       Append(Comma(w, o), "["))

openRoot(w, o) ==
  OpenField(Moved(w, "InRoot", 0, Append(w.previousStates, state(w, w.children))), Append(o, "{"))

popState(w) == w.previousStates[Len(w.previousStates)]
CloseField(w, o, bracket) ==
  With(Moved(w, popState(w).position, popState(w).children,
             SubSeq(w.previousStates, 1, Len(w.previousStates) - 1)),
       Append(o, bracket))

Write(w, o, item) ==
  LET r == IF w.position = "Empty" THEN openRoot(w, o) ELSE With(w, o)
  IN With(Moved(r.w, r.w.position, r.w.children + 1, r.w.previousStates), Append(Comma(r.w, r.out), item))

CloseWriter(w, o) ==
  LET opened == IF w.position = "Empty" THEN openRoot(w, o) ELSE With(w, o)
      field  == IF opened.w.position = "InArray" THEN CloseField(opened.w, opened.out, "]") ELSE opened
      meta   == IF w.meta THEN Write(field.w, field.out, "meta") ELSE field
      errs   == IF w.errs > 0 THEN Write(meta.w, meta.out, "errors") ELSE meta
  IN CloseField(errs.w, errs.out, "}")

(***************************************************************************)
(* The writer of a command                                                 *)
(***************************************************************************)
TextWriter == [position |-> "Text"]
IsJson(w) == w.position # "Text"

\* GetOutputFileWriter opens the file once more for every command, and truncates it without --append
GetOutputFileWriter(o) == IF sink = "file" THEN <<>> ELSE o

SetWriterForCommand(json) ==
  IF IsJson(writer)
  THEN IF json THEN writer' = writer /\ out' = out
       ELSE writer' = TextWriter /\ out' = GetOutputFileWriter(CloseWriter(writer, out).out)
  ELSE /\ out' = GetOutputFileWriter(out)
       /\ writer' = IF json THEN NewDefaultJsonWriter(FALSE) ELSE TextWriter

InitJsonWriterApi(json) ==
  /\ writer' = IF json THEN NewDefaultJsonWriter(TRUE) ELSE TextWriter
  /\ UNCHANGED out

(***************************************************************************)
(* The invocation                                                          *)
(***************************************************************************)
NoRow == [s |-> {}, m |-> Plain({}, <<>>)]

RenderInit ==
  /\ kind \in Kinds
  /\ sink \in Sinks[kind]
  /\ \E q \in Asked[kind], v \in BOOLEAN :
       p = [json |-> FALSE, verbose |-> v, opts |-> q.opts, fields |-> q.fields]
  /\ writer = TextWriter /\ out = <<>> /\ first = NoRow /\ row = NoRow
  /\ cmd = "idle" /\ lines = 0 /\ rows = 0 /\ errors = 0

\* RunX of one line of the command file, or ServeX of one request
Command(json) ==
  /\ cmd = "idle"
  /\ lines < (IF sink = "api" THEN 1 ELSE MaxLines[kind])
  /\ IF sink = "api" THEN InitJsonWriterApi(json) ELSE SetWriterForCommand(json)
  /\ p' = [p EXCEPT !.json = json]
  /\ cmd' = "running" /\ lines' = lines + 1
  /\ UNCHANGED <<kind, sink, first, row, rows, errors>>

\* StreamModel: a row of a JSON document, or a line of a text, behind the header when it is the first
StreamModel(s) ==
  /\ cmd = "running" /\ rows < MaxRows
  /\ LET m == Model(kind, p, s) IN
       /\ row' = [s |-> s, m |-> m]
       /\ first' = IF rows = 0 /\ ~p.json THEN row' ELSE first
       /\ IF p.json
          THEN LET r == Write(writer, out, "row") IN writer' = r.w /\ out' = r.out
          ELSE /\ out' = out \o (IF rows = 0 THEN <<"header", "line">> ELSE <<"line">>)
               /\ UNCHANGED writer
  /\ rows' = rows + 1
  /\ UNCHANGED <<kind, p, sink, cmd, lines, errors>>

\* An error of the fetch: kept for the end of the document, or logged when the command ends
WriteError ==
  /\ cmd = "running" /\ errors = 0 /\ p.json
  /\ writer' = [writer EXCEPT !.errs = @ + 1]
  /\ errors' = errors + 1
  /\ UNCHANGED <<kind, p, sink, out, first, row, cmd, lines, rows>>

\* The command returns; its error ends the invocation, and then nothing closes the writer
Return(err) ==
  /\ cmd = "running"
  /\ cmd' = IF err THEN "failed" ELSE "idle"
  /\ first' = NoRow /\ row' = NoRow /\ rows' = 0
  /\ UNCHANGED <<kind, p, sink, writer, out, lines, errors>>

\* PostRunWithJsonWriter and CloseJsonWriterIfNeededApi
PostRun ==
  /\ cmd = "idle" /\ lines > 0
  /\ IF IsJson(writer) THEN LET r == CloseWriter(writer, out) IN writer' = r.w /\ out' = r.out
     ELSE UNCHANGED <<writer, out>>
  /\ cmd' = "done"
  /\ UNCHANGED <<kind, p, sink, first, row, lines, rows, errors>>

RenderEnded == cmd \in {"failed", "done"} /\ UNCHANGED renderVars

RenderNext ==
  \/ \E json \in BOOLEAN : Command(json)
  \/ \E s \in Records[kind] : StreamModel(s)
  \/ WriteError
  \/ \E err \in BOOLEAN : Return(err)
  \/ PostRun
  \/ RenderEnded

RenderSpec == RenderInit /\ [][RenderNext]_renderVars

(***************************************************************************)
(* Properties                                                              *)
(***************************************************************************)
RenderTypeOK ==
  /\ kind \in Kinds /\ sink \in Sinks[kind]
  /\ cmd \in {"idle", "running", "failed", "done"}
  /\ IsJson(writer) => /\ writer.position \in {"Empty", "InRoot", "InArray"}
                       /\ writer.children \in Nat /\ writer.errs \in Nat
  /\ lines \in 0..MaxLines[kind] \cup {1} /\ rows \in 0..MaxRows

\* One token of the output read by a JSON parser: `stack` is what is open, `last` what came before
ParseToken(a, t) ==
  LET top == IF a.stack = <<>> THEN "top" ELSE a.stack[Len(a.stack)]
      fresh == a.last \in {"open", "comma"}
      next(ok, stack, last) == [ok |-> a.ok /\ ok, stack |-> stack, last |-> last]
      pop == SubSeq(a.stack, 1, Len(a.stack) - 1)
  IN CASE t \in {"header", "line"} -> next(top = "top", a.stack, "elem")
       [] t = "{" -> next(top = "top", Append(a.stack, t), "open")
       [] t = "[" -> next(top = "{" /\ fresh, Append(a.stack, t), "open")
       [] t = "row" -> next(top = "[" /\ fresh, a.stack, "elem")
       [] t \in {"meta", "errors"} -> next(top = "{" /\ fresh, a.stack, "elem")
       [] t = "," -> next(a.last = "elem" /\ top # "top", a.stack, "comma")
       [] t = "]" -> next(top = "[" /\ a.last # "comma", pop, "elem")
       [] t = "}" -> next(top = "{" /\ a.last # "comma", pop, "elem")
Parse(o) ==
  LET upto[n \in 0 .. Len(o)] == IF n = 0 THEN [ok |-> TRUE, stack |-> <<>>, last |-> "open"]
                                ELSE ParseToken(upto[n - 1], o[n])
  IN upto[Len(o)]
Parsed == Parse(out)

\* Whatever mix of formats the lines of a command file ask for, what has been written is a prefix of
\* whole JSON documents and text lines; when the invocation ends well it is whole, and a JSON document
\* at its end holds the errors of the commands that wrote into it (JsonWriter.Write, OpenField,
\* CloseField and Close, SetWriterForCommand, PostRunWithJsonWriter)
OutputIsWellFormed ==
  /\ Parsed.ok
  /\ cmd = "done" => Parsed.stack = <<>>
  /\ cmd = "done" /\ IsJson(writer) /\ writer.errs > 0 => \E i \in DOMAIN out : out[i] = "errors"

Text == cmd = "running" /\ rows > 0 /\ ~p.json

\* The columns that a line of text may show without having a value for them ("<nil>" in the output):
\* a trace that has no action; the dates of a chunk's statistics when the range has none; what
\* --parts calls some, or all next to others, and nothing fills; the caches that --caches did not find
NoValue(k, s) ==
  CASE k = "Trace" /\ "Action" \notin s ->
         {"action::callType", "action::from", "action::to", "action::value", "action::ether",
          "action::gas", "action::input"}
    [] k = "ChunkStats" /\ "RangeDates" \notin s -> {"firstTs", "firstDate", "lastTs", "lastDate"}
    [] k = "Token" -> {"some", "all"}
    [] k = "Status" /\ "CachesFound" \notin s -> {"caches"}
    [] OTHER -> {}

\* Every column of a line of text has a value in the Model's data (the order and the two maps of a
\* type are written apart and have to agree)
ColumnsHaveValues == Text => ToSet(row.m.order) \subseteq row.m.data \cup NoValue(kind, row.s)

\* The facts about a record that change the columns of its line
ShapeFacts(k) ==
  CASE k \in {"Transaction", "Slurp"} -> {"ArticulatedTx", "reward", "withdrawal"}
    [] k = "Log" -> {"ArticulatedLog"}
    [] k = "Trace" -> {"ArticulatedTrace", "Action"}
    [] k = "LightBlock" -> {"Shanghai"}
    [] k = "NamedBlock" -> {"NBlocks"}
    [] k = "Message" -> {"Msg", "Num"}
    [] k = "State" -> {"Timestamp"}
    [] k = "Name" -> {"Address"}
    [] k = "Contract" -> {"Abi", "ReadResults"}
    [] k = "TraceResult" -> {"Address"}
    [] k = "Status" -> {"Caches"}
    [] OTHER -> {}

\* The header is printed with the first row alone (`first` of StreamMany): every later line has the
\* columns of the header, unless its record differs from the first one in a fact that ShapeFacts names
RowsFollowHeader ==
  Text /\ row.s \cap ShapeFacts(kind) = first.s \cap ShapeFacts(kind) => row.m.order = first.m.order

=============================================================================
