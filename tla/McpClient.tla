------------------------------- MODULE McpClient --------------------------------
(***************************************************************************)
(* The client of one MCP server (harness/src/mcp.rs) after its handshake.  *)
(* Its lock lets one request at a time write its line and read the answer. *)
(* Dropping the request, or giving up on it, does not unsend it.           *)
(***************************************************************************)
EXTENDS Naturals, Sequences

CONSTANTS
  MaxCalls       \* bound: tool() calls the sandboxed programs make

ASSUME MaxCallsAssumption == MaxCalls \in Nat

VARIABLES
  nextId,        \* McpClient::next_id
  awaited,       \* the id whose answer is being read, 0 for none
  server,        \* what the server has to answer, <<id, call>>
  pipe,          \* Seq of the lines in its stdout, <<id, call>> or Rest
  serving        \* the server runs

mcpVars == <<nextId, awaited, server, pipe, serving>>

(* Calls are numbered as they are made; a request for the list of tools    *)
(* belongs to none of them.                                                *)
Call == 1 .. MaxCalls
NoCall == 0

(* What is left of a line whose reading was dropped half way: no JSON. *)
Rest == <<0, NoCall>>

McpTypeOK ==
  /\ nextId \in Nat
  /\ awaited \in Nat
  /\ server \subseteq Nat \X (Call \cup {NoCall})
  /\ pipe \in Seq(Nat \X (Call \cup {NoCall}))
  /\ serving \in BOOLEAN

(* initialize and the first two lists have been answered. *)
McpInit ==
  /\ nextId = 4
  /\ awaited = 0
  /\ server = {}
  /\ pipe = << >>
  /\ serving = TRUE

(* send_request writes its line, on behalf of call c. *)
SendRequest(c) ==
  /\ nextId' = nextId + 1
  /\ awaited' = nextId
  /\ server' = server \cup (IF serving THEN {<<nextId, c>>} ELSE {})
  /\ UNCHANGED <<pipe, serving>>

(* Mutant: the id of the answer is not compared. *)
AnyAnswer == pipe # << >> /\ Head(pipe) # Rest

(* The next line is the answer to the request that is waiting. *)
RightAnswer == pipe # << >> /\ Head(pipe)[1] = awaited

(* The next line is another answer, or no answer, or there will be none.   *)
WrongAnswer ==
  \/ pipe # << >> /\ ~RightAnswer
  \/ pipe = << >> /\ ~serving

(* The request reads the next line, if there is one, and is over. *)
ReadLine ==
  /\ awaited' = 0
  /\ pipe' = IF pipe = << >> THEN pipe ELSE Tail(pipe)
  /\ UNCHANGED <<nextId, server, serving>>

(* The request is dropped, or has waited for too long.  A line it had half *)
(* read is lost to that point.                                             *)
DropRequest ==
  /\ awaited' = 0
  /\ \/ UNCHANGED pipe
     \/ pipe # << >> /\ pipe' = <<Rest>> \o Tail(pipe)
  /\ UNCHANGED <<nextId, server, serving>>

(* The server answers what it was asked, in an order of its own.           *)
ServerAnswers ==
  \E q \in server :
    /\ pipe' = Append(pipe, q)
    /\ server' = server \ {q}
    /\ UNCHANGED <<nextId, awaited, serving>>

ServerDies ==
  /\ serving
  /\ serving' = FALSE
  /\ server' = {}
  /\ UNCHANGED <<nextId, awaited, pipe>>

================================================================================
