----------------------------- MODULE HookSocket -----------------------------
(***************************************************************************)
(* One run of a hook (integrations/acmehub-cli/internal/hook, socket and   *)
(* cmd/sock.go): the hook's script calls `acme <verb>` as often as it      *)
(* likes; each call is a process that writes one request to the socket it  *)
(* inherited and reads one response.  The agent serves the requests one    *)
(* after another from its snapshot.                                        *)
(*                                                                         *)
(* All calls share one stream.  A request is written in two pieces, a      *)
(* response in three, and they are read piece by piece: a call that is     *)
(* killed or overtaken between two of them leaves the others out of step.  *)
(***************************************************************************)
EXTENDS Sequences, FiniteSets, Naturals

CONSTANTS
  Calls,    \* the calls the script makes
  Verbs,    \* what they ask for
  Unknown,  \* a verb Dispatch refuses
  Empty     \* a verb whose payload is empty: `chain` without intermediates

ASSUME VerbAssumption == {Unknown, Empty} \subseteq Verbs /\ Unknown # Empty

VARIABLES
  call,       \* each call: what it has written or waits to read
  requests,   \* pieces on their way from the hook to the agent
  responses,  \* pieces on their way from the agent to the hook
  server,     \* what the agent's loop reads or writes next
  running,    \* the hook has not exited
  disturbed,  \* history: a call was killed, or began before another's end
  torn        \* history: such a call may have left part of a frame

sockVars == <<call, requests, responses, server, running, disturbed, torn>>

(* Where a call, or the loop, is: before its first piece, at a piece of a   *)
(* request or response, out of step, or at its end.                         *)
Idle      == [at |-> "idle"]
Astray    == [at |-> "astray"]
Garbled   == [at |-> "garbled"]
Broken    == [at |-> "broken"]
Killed    == [at |-> "killed"]
Listening == [at |-> "length"]
Gone      == [at |-> "gone"]
Answering == {"status", "size", "payload"}

Response == [status: {"ok", "error"}, of: Verbs]
Call == {Idle, Astray, Garbled, Broken, Killed}
        \cup [at: {"argv"} \cup Answering, verb: Verbs]
        \cup [at: {"done"}, verb: Verbs, got: Response]
Server == {Listening, Gone} \cup [at: {"argv"} \cup Answering, verb: Verbs]
Rest   == [part |-> "rest"]
RequestPiece  == [part: {"length", "argv"}, of: Verbs]
ResponsePiece == {Rest} \cup [part: Answering, of: Response]

SockTypeOK ==
  /\ call \in [Calls -> Call] /\ server \in Server
  /\ requests \in Seq(RequestPiece) /\ responses \in Seq(ResponsePiece)
  /\ running \in BOOLEAN /\ disturbed \in BOOLEAN /\ torn \in BOOLEAN

SockInit ==
  /\ call = [c \in Calls |-> Idle] /\ server = Listening
  /\ requests = <<>> /\ responses = <<>>
  /\ running = TRUE /\ disturbed = FALSE /\ torn = FALSE

Reading(c) == call[c].at \in Answering \cup {"astray"}
Sending == {c \in Calls : call[c].at = "argv" \/ Reading(c)}

(* writeLenPrefixed: the length first ... *)
WriteLength(c, verb) ==
  /\ running /\ call[c] = Idle
  /\ call' = [call EXCEPT ![c] = [at |-> "argv", verb |-> verb]]
  /\ requests' = Append(requests, [part |-> "length", of |-> verb])
  /\ disturbed' = (disturbed \/ Sending # {})
  /\ torn' = (torn \/ Sending # {})
  /\ UNCHANGED <<responses, server, running>>

(* ... then the argv itself. *)
WriteArgv(c) ==
  /\ running /\ call[c].at = "argv"
  /\ call' = [call EXCEPT ![c] = [at |-> "status", verb |-> call[c].verb]]
  /\ requests' = Append(requests, [part |-> "argv", of |-> call[c].verb])
  /\ UNCHANGED <<responses, server, running, disturbed, torn>>

(* The loop reads a request.  An argv read as a length is above maxFrame, a *)
(* length read as an argv is no JSON (or too short for one, and more is     *)
(* waited for): Serve returns, and nobody closes the agent's end before the *)
(* hook has exited.                                                         *)
ReadRequest ==
  /\ running /\ server.at \in {"length", "argv"} /\ requests # <<>>
  /\ requests' = Tail(requests)
  /\ LET piece == Head(requests) IN
     server' = IF piece.part # server.at THEN Gone
               ELSE [at |-> IF piece.part = "length" THEN "argv" ELSE "status", verb |-> piece.of]
  /\ UNCHANGED <<call, responses, running, disturbed, torn>>

Dispatch(verb) == [status |-> IF verb = Unknown THEN "error" ELSE "ok", of |-> verb]

(* The piece that follows in a response; an empty payload is not sent.      *)
After(part, verb) ==
  CASE part = "status" -> "size"
    [] part = "size" /\ verb # Empty -> "payload"
    [] OTHER -> "end"

Send(next) ==
  /\ running /\ server.at \in Answering
  /\ responses' = Append(responses, [part |-> server.at, of |-> Dispatch(server.verb)])
  /\ server' = next
  /\ UNCHANGED <<call, requests, running, disturbed, torn>>

Following ==
  LET part == After(server.at, server.verb) IN
  IF part = "end" THEN Listening ELSE [at |-> part, verb |-> server.verb]

(* A slip: after an error response the loop falls through to the second. *)
WriteResponseTwice ==
  Send(IF Following = Listening /\ server.verb = Unknown
         THEN [at |-> "status", verb |-> Unknown] ELSE Following)

(* A slip: the length of an empty payload is not sent either. *)
WriteResponseShort ==
  Send(IF server.verb = Empty THEN Listening ELSE Following)

(* The loop writes its response piece by piece, then reads on. *)
WriteResponse == Send(Following)

(* A call reads the piece it expects; a length of 0 ends the response.      *)
ReadResponse(c) ==
  /\ call[c].at \in Answering /\ responses # <<>>
  /\ LET piece == Head(responses)
         next == After(piece.part, piece.of.of) IN
     /\ piece.part = call[c].at
     /\ call' = [call EXCEPT ![c] =
          IF next = "end" THEN [at |-> "done", verb |-> call[c].verb, got |-> piece.of]
          ELSE [at |-> next, verb |-> call[c].verb]]
  /\ responses' = Tail(responses)
  /\ UNCHANGED <<requests, server, running, disturbed, torn>>

(* A call out of step takes other bytes for a status, a length or a payload: *)
(* it fails on the length, prints what is no response, or waits for more     *)
(* than there is.  A piece it took only part of stays in part.               *)
Leftovers ==
  {SubSeq(responses, k, Len(responses)) : k \in 2 .. Len(responses) + 1}
    \cup {<<Rest>> \o SubSeq(responses, k, Len(responses)) : k \in 2 .. Len(responses) + 1}

Misread(c) ==
  /\ Reading(c) /\ responses # <<>> /\ Head(responses).part # call[c].at
  /\ \/ \E end \in {Garbled, Broken} : call' = [call EXCEPT ![c] = end] /\ responses' \in Leftovers
     \/ call' = [call EXCEPT ![c] = Astray] /\ responses' = <<>>
  /\ UNCHANGED <<requests, server, running, disturbed, torn>>

(* The script's own timeout, say, at any point.  What the call has not read *)
(* stays in the stream.                                                     *)
Kill(c) ==
  /\ c \in Sending
  /\ call' = [call EXCEPT ![c] = Killed]
  /\ disturbed' = TRUE
  /\ torn' = (torn \/ call[c].at # "status")
  /\ UNCHANGED <<requests, responses, server, running>>

(* The hook exits, perhaps leaving calls in the background; the agent closes *)
(* its end.                                                                  *)
HookExits ==
  /\ running
  /\ running' = FALSE
  /\ UNCHANGED <<call, requests, responses, server, disturbed, torn>>

CallFails(c) ==
  /\ ~running /\ (call[c].at = "argv" \/ (Reading(c) /\ responses = <<>>))
  /\ call' = [call EXCEPT ![c] = Broken]
  /\ UNCHANGED <<requests, responses, server, running, disturbed, torn>>

Serve == ReadRequest \/ WriteResponse
Proceed(c) == WriteArgv(c) \/ ReadResponse(c) \/ Misread(c) \/ CallFails(c)

SockNext ==
  \/ \E c \in Calls :
       \/ \E verb \in Verbs : WriteLength(c, verb)
       \/ WriteArgv(c) \/ ReadResponse(c) \/ Misread(c) \/ Kill(c) \/ CallFails(c)
  \/ ReadRequest \/ WriteResponse \/ HookExits

SockSpec == SockInit /\ [][SockNext]_sockVars /\ WF_sockVars(Serve)
            /\ \A c \in Calls : WF_sockVars(Proceed(c))

-----------------------------------------------------------------------------
(* Requests carry no number, so a response belongs to whoever reads it.  As *)
(* long as calls follow one another and none is killed before it has read,  *)
(* each gets the answer to its own request, refused verbs included.         *)
OwnResponses ==
  \A c \in Calls : ~disturbed /\ call[c].at = "done" => call[c].got = Dispatch(call[c].verb)

(* No call blocks its script for ever: it gets a response or an error, also *)
(* after calls that were killed while they waited for their response, and   *)
(* always once the hook has exited.  The exception is what sock.go:26 does   *)
(* not support: after a call that overlapped another, or was killed between *)
(* two pieces, the loop may have returned (server.go:18) or the reader wait *)
(* for bytes that never come, and a call then blocks as long as the hook    *)
(* runs.                                                                    *)
CallsReturn == \A c \in Calls : c \in Sending ~> (c \notin Sending \/ (running /\ torn))
=============================================================================
