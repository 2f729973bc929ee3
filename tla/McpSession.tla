----------------------------- MODULE McpSession -----------------------------
(***************************************************************************)
(* The MCP host of apps/mcp/: main.rs opens a client with the configured   *)
(* file and serves one session over stdin and stdout (protocol.rs), which  *)
(* opens a client of its own for the first tool that is called.  A line is *)
(* reduced to what handle makes of it.                                     *)
(***************************************************************************)
EXTENDS Naturals, Sequences

CONSTANTS
  Lines,     \* kinds of lines: see Answers
  MaxLines   \* bound on the length of heard

ASSUME McpAssumption == MaxLines \in Nat

VARIABLES
  mcp,    \* [pc, state, client]: the process, State, and whether client is set
  heard   \* history: notifications, and lines that were not answered with an error

session == <<mcp, heard>>

McpInit ==
  /\ mcp = [pc |-> "starting", state |-> "New", client |-> FALSE]
  /\ heard = <<>>

McpTypeOK ==
  /\ mcp.pc \in {"starting", "serving", "closed", "failed"}
  /\ mcp.state \in {"New", "Initializing", "Ready"} /\ mcp.client \in BOOLEAN
  /\ Len(heard) <= MaxLines

\* run: command_arguments, then the client of main; the session starts with it.
McpStart(opened) ==
  /\ mcp.pc = "starting"
  /\ mcp' = [mcp EXCEPT !.pc = IF opened THEN "serving" ELSE "failed"]
  /\ UNCHANGED heard

\* serve: stdin is closed, or cannot be written to any more.
McpClose ==
  /\ mcp.pc = "serving"
  /\ mcp' = [mcp EXCEPT !.pc = "closed", !.client = FALSE]
  /\ UNCHANGED heard

-----------------------------------------------------------------------------
\* Mutant: tools need not wait for the notification.
AnswersEarly(line) ==
  CASE line \in {"initialized", "response"} -> {"none"}
    [] line = "ping" -> {"result"}
    [] line = "initialize" -> IF mcp.state = "New" THEN {"result"} ELSE {"error"}
    [] line = "list" -> IF mcp.state # "New" THEN {"result"} ELSE {"error"}
    [] line = "call" -> IF mcp.state # "New" THEN {"tool", "error"} ELSE {"error"}
    [] OTHER -> {"error"}

\* handle, up to the tool: what may be answered to a line.  "malformed" stands for
\* what is not a request (JSON, version, id, method, params) and for methods and
\* arguments that are not known; "initialize" for one with all it has to say.  A
\* notification and a response are not answered.  A tool answers in its own way
\* ("tool", its errors included), or its client cannot be opened.
Answers(line) ==
  CASE line \in {"initialized", "response"} -> {"none"}
    [] line = "ping" -> {"result"}
    [] line = "initialize" -> IF mcp.state = "New" THEN {"result"} ELSE {"error"}
    [] line = "list" -> IF mcp.state = "Ready" THEN {"result"} ELSE {"error"}
    [] line = "call" -> IF mcp.state = "Ready" THEN {"tool", "error"} ELSE {"error"}
    [] OTHER -> {"error"}

NextState(line) ==
  CASE line = "initialized" /\ mcp.state = "Initializing" -> "Ready"
    [] line = "initialize" /\ mcp.state = "New" -> "Initializing"
    [] OTHER -> mcp.state

\* validate_arguments has passed and the state allows a tool: does it need a client?
Opens(line, answer) == answer = "tool" /\ ~mcp.client

HandleLine(line, answer) ==
  /\ mcp.pc = "serving"
  /\ answer \in Answers(line)
  /\ mcp' = [mcp EXCEPT !.state = NextState(line), !.client = @ \/ answer = "tool"]
  /\ IF line \in {"initialize", "initialized", "list", "call"} /\ answer # "error"
     THEN Len(heard) < MaxLines /\ heard' = Append(heard, line)
     ELSE UNCHANGED heard

-----------------------------------------------------------------------------
\* Whatever the order in which lines come, a tool runs, or the list is given, only
\* after one initialize that was accepted and the notification that followed it,
\* and no second initialize is ever accepted.
ToolsAfterHandshake ==
  LET Accepted == {i \in 1 .. Len(heard) : heard[i] = "initialize"} IN
  /\ \A i, j \in Accepted : i = j
  /\ \A n \in 1 .. Len(heard) : heard[n] \in {"list", "call"} =>
       \E i \in Accepted, k \in 1 .. n : i < k /\ heard[k] = "initialized"

=============================================================================
