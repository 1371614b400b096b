------------------------------- MODULE Status -------------------------------
(***************************************************************************)
(* server/status.py: StatusHTTPServer.  Each connection has a handler of   *)
(* its own that reads one request, writes one answer and closes; stop()    *)
(* waits for the connections there are.  The handlers share nothing.       *)
(*                                                                         *)
(* A line is known by its length.  An answer is known by its status code.  *)
(* Only the body of /status grows with the hub; the other answers fit the  *)
(* socket's buffers, whether or not the client reads.                      *)
(***************************************************************************)
EXTENDS Integers, Sequences

CONSTANTS
  Clients,      \* connections: each of them lives once
  MaxHeader,    \* _MAX_HEADER_BYTES
  LineSizes     \* bytes in a request or header line, its CRLF included

ASSUME StatusAssumption ==
  /\ MaxHeader \in Nat
  /\ LineSizes \subseteq Nat \ {0}

VARIABLES
  server,    \* the listener: down, up, stopping or stopped
  handler,   \* handler[c]: where _handler is suspended
  request,   \* request[c]: method and path, once the request line is read
  total,     \* total[c]: bytes counted against MaxHeader
  answers,   \* answers[c]: status codes written to a client still connected
  conn,      \* environment: the connection
  reading    \* environment: the client takes what it is sent

statusVars == <<server, handler, request, total, answers, conn, reading>>
readVars   == <<request, total>>

Requests == [method : {"GET"}, path : {"/status", "/healthz", "unknown"}]
              \cup [method : {"other"}, path : {"/status"}]
NoRequest == [method |-> "none", path |-> "none"]

\* The length of the line that ends the headers.
Blank == 2

Init ==
  /\ server = "down"
  /\ handler = [c \in Clients |-> "none"]
  /\ request = [c \in Clients |-> NoRequest]
  /\ total = [c \in Clients |-> 0]
  /\ answers = [c \in Clients |-> <<>>]
  /\ conn = [c \in Clients |-> "none"]
  /\ reading = [c \in Clients |-> TRUE]

-----------------------------------------------------------------------------
(* The client.                                                             *)

Connect(c) ==
  /\ server = "up" /\ handler[c] = "none"
  /\ handler' = [handler EXCEPT ![c] = "line"]
  /\ conn' = [conn EXCEPT ![c] = "open"]
  /\ UNCHANGED <<server, readVars, answers, reading>>

\* The client stops reading, or reads again.
ClientStalls(c) ==
  /\ handler[c] # "over" /\ conn[c] = "open"
  /\ reading' = [reading EXCEPT ![c] = ~@]
  /\ UNCHANGED <<server, handler, readVars, answers, conn>>

\* The connection is reset.  A client that only ends its side: BadRequest.
ConnectionLost(c) ==
  /\ conn[c] = "open"
  /\ conn' = [conn EXCEPT ![c] = "lost"]
  /\ UNCHANGED <<server, handler, readVars, answers, reading>>

-----------------------------------------------------------------------------
(* _respond, and the "finally" of _handler.                                *)

\* What is written waits for the client.
Blocks(c, status) ==
  status = 200 /\ request[c].path = "/status" /\ ~reading[c]

\* The codes are written one after the other; after the last, drain() and
\* then wait_closed() are awaited.
Answer(c, codes) ==
  /\ answers' = [answers EXCEPT ![c] = @ \o codes]
  /\ handler' = [handler EXCEPT ![c] = IF Blocks(c, codes[Len(codes)])
                                       THEN "draining" ELSE "closing"]

DrainReturns(c) ==
  /\ handler[c] = "draining" /\ conn[c] = "open" /\ reading[c]
  /\ handler' = [handler EXCEPT ![c] = "closing"]
  /\ UNCHANGED <<server, readVars, answers, conn, reading>>

\* The handler ends, and what it had read is forgotten.
Over(c) ==
  /\ handler' = [handler EXCEPT ![c] = "over"]
  /\ request' = [request EXCEPT ![c] = NoRequest]
  /\ total' = [total EXCEPT ![c] = 0]
  /\ reading' = [reading EXCEPT ![c] = TRUE]

\* The writer is not closed: the handler is over and the connection is not.
HandlerForgetsClose(c) ==
  /\ handler[c] = "closing" /\ conn[c] = "open"
  /\ Over(c)
  /\ UNCHANGED <<server, answers, conn>>

\* wait_closed() returns once everything written has gone out.
CloseReturns(c) ==
  /\ handler[c] = "closing" /\ conn[c] = "open"
  /\ ~Blocks(c, answers[c][Len(answers[c])])
  /\ Over(c)
  /\ conn' = [conn EXCEPT ![c] = "closed"]
  /\ UNCHANGED <<server, answers>>

\* Whatever is awaited raises: an answer, and the 500 after it, reach nobody.
LostHandlerEnds(c) ==
  /\ handler[c] \in {"line", "headers", "draining", "closing"} /\ conn[c] = "lost"
  /\ Over(c)
  /\ UNCHANGED <<server, answers, conn>>

-----------------------------------------------------------------------------
(* _read_request.                                                          *)

Reading(c) == handler[c] \in {"line", "headers"} /\ conn[c] = "open"

\* The handler goes on after the 400, and fails on a method it has not got.
RejectGoesOn(c) == Answer(c, <<400, 500>>)

Reject(c) == Answer(c, <<400>>)

\* A malformed request line, or no whole line within the read timeout or
\* before the client ends its side.
BadRequest(c) ==
  /\ Reading(c)
  /\ Reject(c)
  /\ UNCHANGED <<server, readVars, conn, reading>>

\* A line beyond the reader's own limit: an error _read_request does not name.
OverlongLine(c) ==
  /\ Reading(c)
  /\ Answer(c, <<500>>)
  /\ UNCHANGED <<server, readVars, conn, reading>>

\* The limit is not looked at here.
RequestLine(c, r, n) ==
  /\ Reading(c) /\ handler[c] = "line"
  /\ request' = [request EXCEPT ![c] = r]
  /\ total' = [total EXCEPT ![c] = n]
  /\ handler' = [handler EXCEPT ![c] = "headers"]
  /\ UNCHANGED <<server, answers, conn, reading>>

\* Only the last line counts.
CountLast(c, n) == n

\* Nothing is too large.
HeaderUncounted(c, n) ==
  /\ Reading(c) /\ handler[c] = "headers"
  /\ total' = [total EXCEPT ![c] = @ + n]
  /\ UNCHANGED <<server, handler, request, answers, conn, reading>>

Count(c, n) == total[c] + n

HeaderLine(c, n) ==
  /\ Reading(c) /\ handler[c] = "headers"
  /\ total' = [total EXCEPT ![c] = Count(c, n)]
  /\ IF Count(c, n) > MaxHeader THEN Reject(c) ELSE UNCHANGED <<handler, answers>>
  /\ UNCHANGED <<server, request, conn, reading>>

-----------------------------------------------------------------------------
(* _handler.                                                               *)

StatusOf(r) ==
  CASE r.method # "GET" -> 405
    [] r.method = "GET" /\ r.path \in {"/status", "/healthz"} -> 200
    [] OTHER -> 404

\* The blank line ends the request without a look at the limit.
BlankLineUncounted(c) ==
  /\ Reading(c) /\ handler[c] = "headers"
  /\ total' = [total EXCEPT ![c] = Count(c, Blank)]
  /\ Answer(c, <<StatusOf(request[c])>>)
  /\ UNCHANGED <<server, request, conn, reading>>

BlankLine(c) ==
  /\ Reading(c) /\ handler[c] = "headers"
  /\ total' = [total EXCEPT ![c] = Count(c, Blank)]
  /\ IF Count(c, Blank) > MaxHeader THEN Reject(c)
                                    ELSE Answer(c, <<StatusOf(request[c])>>)
  /\ UNCHANGED <<server, request, conn, reading>>

-----------------------------------------------------------------------------
(* start() and stop().                                                     *)

Start ==
  /\ server = "down"
  /\ server' = "up"
  /\ UNCHANGED <<handler, readVars, answers, conn, reading>>

\* The listener is closed; the connections are left alone.
Stop ==
  /\ server = "up"
  /\ server' = "stopping"
  /\ UNCHANGED <<handler, readVars, answers, conn, reading>>

\* wait_closed() that does not wait, as before Python 3.12.
StopReturnsAtOnce ==
  /\ server = "stopping"
  /\ server' = "stopped"
  /\ UNCHANGED <<handler, readVars, answers, conn, reading>>

\* wait_closed() returns when no connection is left.
StopReturns ==
  /\ server = "stopping"
  /\ \A c \in Clients : conn[c] # "open"
  /\ server' = "stopped"
  /\ UNCHANGED <<handler, readVars, answers, conn, reading>>

-----------------------------------------------------------------------------
\* A wait for a line ends, one way or another.
ReadStep(c) ==
  \/ BadRequest(c) \/ OverlongLine(c) \/ BlankLine(c)
  \/ \E n \in LineSizes : HeaderLine(c, n) \/ \E r \in Requests : RequestLine(c, r, n)

WriteStep(c) == DrainReturns(c) \/ CloseReturns(c) \/ LostHandlerEnds(c)

Next ==
  \/ \E c \in Clients :
       \/ Connect(c) \/ ClientStalls(c) \/ ConnectionLost(c)
       \/ ReadStep(c) \/ WriteStep(c)
  \/ Start \/ Stop \/ StopReturns

Spec == Init /\ [][Next]_statusVars

(* wait_for ends every wait for a line within the read timeout; what is    *)
(* written goes out while the client reads; stop() is resumed.             *)
Fairness ==
  /\ WF_statusVars(StopReturns)
  /\ \A c \in Clients : WF_statusVars(ReadStep(c)) /\ WF_statusVars(WriteStep(c))

FairSpec == Spec /\ Fairness

-----------------------------------------------------------------------------
(* Type invariant; what a handler that reads headers has counted is within *)
(* the limit, unless it is the request line alone.                         *)
TypeOK ==
  /\ server \in {"down", "up", "stopping", "stopped"}
  /\ handler \in [Clients -> {"none", "line", "headers", "draining", "closing", "over"}]
  /\ request \in [Clients -> Requests \cup {NoRequest}]
  /\ total \in [Clients -> Nat]
  /\ \A c \in Clients : handler[c] = "headers" => total[c] \in 0..MaxHeader \cup LineSizes
  /\ answers \in [Clients -> Seq({200, 400, 404, 405, 500})]
  /\ conn \in [Clients -> {"none", "open", "lost", "closed"}]
  /\ reading \in [Clients -> BOOLEAN]

(* One request, one answer (status.py:20): however a request goes wrong, a *)
(* client is written at most one answer, and just one by the time its      *)
(* connection is closed on it.                                             *)
OneAnswer ==
  \A c \in Clients :
    /\ Len(answers[c]) <= 1
    /\ handler[c] \in {"draining", "closing"} \/ conn[c] = "closed" => Len(answers[c]) = 1

(* The header cap (status.py:38-40) has no way around it: a request that   *)
(* is routed is whole, and is not longer than the cap, to the byte.        *)
ServedWithinCap ==
  \A c \in Clients : \A i \in 1..Len(answers[c]) :
    handler[c] \in {"draining", "closing"} /\ answers[c][i] \in {200, 404, 405} =>
      request[c] # NoRequest /\ total[c] <= MaxHeader

(* stop() drains (status.py:69-70): when it has returned, every connection *)
(* it found has had its answer and is closed, or was lost by its client.   *)
StopDrains ==
  server = "stopped" =>
    \A c \in Clients :
      \/ handler[c] = "none" \/ conn[c] = "lost"
      \/ handler[c] = "over" /\ conn[c] = "closed" /\ Len(answers[c]) = 1

(* No client holds a handler with endless headers (status.py:38-40): every *)
(* request that is being read is answered or its connection lost.          *)
RequestsEnd ==
  \A c \in Clients :
    handler[c] \in {"line", "headers"} ~> handler[c] \in {"draining", "closing", "over"}

(* stop() returns, unless a client stays connected and never reads again.  *)
StopCompletes ==
  <>[](\A c \in Clients : reading[c]) => (server = "stopping" ~> server = "stopped")
=============================================================================
