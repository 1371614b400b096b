---------------------------- MODULE StatusProofs ----------------------------
(***************************************************************************)
(* Theorems about Status, for every set of clients, cap and line length.   *)
(***************************************************************************)
EXTENDS Status, TLAPS

(* How far the handler of a connection is says what its client was given:  *)
(* nothing while the request is read, one answer while it goes out.        *)
Progress(c) ==
  /\ handler[c] = "none" => answers[c] = <<>> /\ conn[c] = "none"
  /\ handler[c] \in {"line", "headers"} => answers[c] = <<>> /\ conn[c] \in {"open", "lost"}
  /\ handler[c] = "headers" => request[c] # NoRequest
  /\ handler[c] \in {"draining", "closing"} =>
       Len(answers[c]) = 1 /\ conn[c] \in {"open", "lost"}
  /\ handler[c] = "over" => conn[c] \in {"closed", "lost"}
  /\ conn[c] = "closed" => Len(answers[c]) = 1
  /\ Len(answers[c]) <= 1

(* The one answer, if it is that of a routed request, is to a whole        *)
(* request within the cap.                                                 *)
Routed(c) ==
  handler[c] \in {"draining", "closing"} /\ answers[c][1] \in {200, 404, 405} =>
    request[c] # NoRequest /\ total[c] <= MaxHeader

(* Once stop() has returned no connection is open, and none can be made.   *)
Drained == server = "stopped" => \A c \in Clients : conn[c] # "open"

IInv ==
  /\ TypeOK
  /\ \A c \in Clients : Progress(c) /\ Routed(c)
  /\ Drained

Codes == {200, 400, 404, 405, 500}

\* While the request of c is read, it is answered, with n bytes counted.
AnswersWith(c, x, n) ==
  /\ Reading(c) /\ Answer(c, <<x>>)
  /\ total' = [total EXCEPT ![c] = n]
  /\ UNCHANGED <<server, request, conn, reading>>

-----------------------------------------------------------------------------
(* The first answer of a handler is its only one.                          *)
LEMMA FirstAnswer ==
  ASSUME NEW x \in Codes
  PROVE  /\ <<>> \o <<x>> = <<x>>
         /\ <<x>> \in Seq(Codes)
         /\ Len(<<x>>) = 1
         /\ <<x>>[1] = x
  BY DEF Codes

(* What a handler that answers while it reads a request makes of its       *)
(* connection: _respond, from _read_request or from _handler.              *)
LEMMA AnswerEffect ==
  ASSUME IInv, NEW c \in Clients, NEW x \in Codes, Reading(c), Answer(c, <<x>>)
  PROVE  /\ answers' = [answers EXCEPT ![c] = <<x>>]
         /\ answers' \in [Clients -> Seq(Codes)]
         /\ answers'[c] = <<x>> /\ Len(answers'[c]) = 1 /\ answers'[c][1] = x
         /\ handler' \in [Clients -> {"none", "line", "headers", "draining", "closing", "over"}]
         /\ handler'[c] \in {"draining", "closing"}
         /\ \A d \in Clients \ {c} : answers'[d] = answers[d] /\ handler'[d] = handler[d]
  <1>1. answers \in [Clients -> Seq(Codes)]
    BY DEF IInv, TypeOK, Codes
  <1>2. answers[c] = <<>>
    BY DEF IInv, Progress, Reading
  <1>3. answers' = [answers EXCEPT ![c] = <<x>>]
    BY <1>1, <1>2, FirstAnswer DEF Answer
  <1>4. /\ answers' \in [Clients -> Seq(Codes)] /\ answers'[c] = <<x>>
        /\ \A d \in Clients \ {c} : answers'[d] = answers[d]
    BY <1>1, <1>3, FirstAnswer
  <1>5. /\ handler' \in [Clients -> {"none", "line", "headers", "draining", "closing", "over"}]
        /\ handler'[c] \in {"draining", "closing"}
        /\ \A d \in Clients \ {c} : handler'[d] = handler[d]
    BY DEF Answer, IInv, TypeOK
  <1> QED BY <1>3, <1>4, <1>5, FirstAnswer

(* A step that answers the request of c, and may have counted its last     *)
(* line, keeps the invariant, if what it routes is whole and within the    *)
(* cap.                                                                    *)
LEMMA AnswerKeeps ==
  ASSUME IInv, NEW c \in Clients, NEW x \in Codes, NEW n \in Nat,
         AnswersWith(c, x, n),
         x \in {200, 404, 405} => handler[c] = "headers" /\ n <= MaxHeader
  PROVE  IInv'
  <1>0. /\ answers' \in [Clients -> Seq(Codes)]
        /\ Len(answers'[c]) = 1 /\ answers'[c][1] = x
        /\ handler' \in [Clients -> {"none", "line", "headers", "draining", "closing", "over"}]
        /\ handler'[c] \in {"draining", "closing"}
        /\ \A d \in Clients \ {c} : answers'[d] = answers[d] /\ handler'[d] = handler[d]
    BY AnswerEffect, Zenon DEF AnswersWith
  <1>c. UNCHANGED <<server, request, conn, reading>> /\ conn[c] = "open"
    BY DEF AnswersWith, Reading
  <1>t. /\ total' \in [Clients -> Nat] /\ total'[c] = n
        /\ \A d \in Clients \ {c} : total'[d] = total[d]
    BY DEF AnswersWith, IInv, TypeOK
  <1>1. TypeOK'
    <2>1. \A d \in Clients : handler'[d] = "headers" => handler[d] = "headers" /\ d # c
      BY <1>0
    <2>2. \A d \in Clients : handler'[d] = "headers" =>
            total'[d] \in 0..MaxHeader \cup LineSizes
      BY <2>1, <1>t DEF IInv, TypeOK
    <2> QED BY <1>0, <1>c, <1>t, <2>2 DEF IInv, TypeOK, Codes
  <1>2. Progress(c)' /\ Routed(c)'
    <2>2. handler[c] = "headers" => request[c] # NoRequest
      BY DEF IInv, Progress
    <2>3. Progress(c)'
      BY <1>0, <1>c DEF Progress
    <2>4. Routed(c)'
      BY <1>0, <1>c, <1>t, <2>2 DEF Routed
    <2> QED BY <2>3, <2>4
  <1>3. ASSUME NEW d \in Clients \ {c} PROVE Progress(d)' /\ Routed(d)'
    BY <1>0, <1>c, <1>t DEF IInv, Progress, Routed
  <1>4. Drained'
    BY <1>c DEF IInv, Drained
  <1> QED BY <1>1, <1>2, <1>3, <1>4 DEF IInv

(* A step that ends the handler of c keeps the invariant, if it leaves the *)
(* connection lost, or closed after its answer.                            *)
LEMMA OverKeeps ==
  ASSUME IInv, NEW c \in Clients, Over(c),
         handler[c] # "none",
         UNCHANGED <<server, answers>>,
         \/ conn[c] = "lost" /\ UNCHANGED conn
         \/ Len(answers[c]) = 1 /\ conn' = [conn EXCEPT ![c] = "closed"]
  PROVE  IInv'
  <1>1. TypeOK'
    BY DEF IInv, TypeOK, Over
  <1>2. /\ handler'[c] = "over" /\ conn'[c] \in {"closed", "lost"}
        /\ conn'[c] = "closed" => Len(answers[c]) = 1
        /\ \A d \in Clients \ {c} :
             /\ handler'[d] = handler[d] /\ request'[d] = request[d]
             /\ total'[d] = total[d] /\ conn'[d] = conn[d]
    BY DEF IInv, TypeOK, Over
  <1>3. Progress(c)' /\ Routed(c)'
    BY <1>2 DEF IInv, Progress, Routed
  <1>4. ASSUME NEW d \in Clients \ {c} PROVE Progress(d)' /\ Routed(d)'
    BY <1>2 DEF IInv, Progress, Routed
  <1>5. Drained'
    BY <1>2 DEF IInv, Drained
  <1> QED BY <1>1, <1>3, <1>4, <1>5 DEF IInv

-----------------------------------------------------------------------------
LEMMA StatusInit == Init => IInv
  BY StatusAssumption
     DEF Init, IInv, TypeOK, Progress, Routed, Drained, NoRequest, Requests

LEMMA StatusStep == IInv /\ [Next]_statusVars => IInv'
  <1> SUFFICES ASSUME IInv, [Next]_statusVars PROVE IInv'
    OBVIOUS
  <1>u. CASE UNCHANGED statusVars
    BY <1>u DEF statusVars, readVars, IInv, TypeOK, Progress, Routed, Drained
  <1>1. ASSUME NEW c \in Clients, Connect(c) PROVE IInv'
    <2>1. TypeOK'
      BY <1>1 DEF Connect, readVars, IInv, TypeOK
    <2>2. /\ handler'[c] = "line" /\ conn'[c] = "open" /\ answers[c] = <<>>
          /\ \A d \in Clients \ {c} : handler'[d] = handler[d] /\ conn'[d] = conn[d]
      BY <1>1 DEF Connect, IInv, TypeOK, Progress
    <2>3. UNCHANGED <<request, total, answers>> /\ server = "up" /\ server' = "up"
      BY <1>1 DEF Connect, readVars
    <2>4. Len(answers[c]) = 0
      BY <2>2
    <2>5. Progress(c)' /\ Routed(c)'
      BY <2>2, <2>3, <2>4 DEF Progress, Routed
    <2>6. ASSUME NEW d \in Clients \ {c} PROVE Progress(d)' /\ Routed(d)'
      BY <2>2, <2>3 DEF IInv, Progress, Routed
    <2>7. Drained'
      BY <2>3 DEF Drained
    <2> QED BY <2>1, <2>5, <2>6, <2>7 DEF IInv
  <1>2. ASSUME NEW c \in Clients, ClientStalls(c) PROVE IInv'
    <2>1. TypeOK'
      BY <1>2 DEF ClientStalls, readVars, IInv, TypeOK
    <2> QED BY <1>2, <2>1 DEF ClientStalls, readVars, IInv, Progress, Routed, Drained
  <1>3. ASSUME NEW c \in Clients, ConnectionLost(c) PROVE IInv'
    <2>1. TypeOK'
      BY <1>3 DEF ConnectionLost, readVars, IInv, TypeOK
    <2>2. /\ conn[c] = "open" /\ conn'[c] = "lost"
          /\ \A d \in Clients \ {c} : conn'[d] = conn[d]
      BY <1>3 DEF ConnectionLost, IInv, TypeOK
    <2>3. UNCHANGED <<server, handler, request, total, answers>>
      BY <1>3 DEF ConnectionLost, readVars
    <2>4. ASSUME NEW d \in Clients PROVE Progress(d)' /\ Routed(d)'
      BY <2>2, <2>3 DEF IInv, Progress, Routed
    <2>5. Drained'
      BY <2>2, <2>3 DEF IInv, Drained
    <2> QED BY <2>1, <2>4, <2>5 DEF IInv
  <1>4. ASSUME NEW c \in Clients, BadRequest(c) \/ OverlongLine(c) PROVE IInv'
    <2>1. PICK x \in {400, 500} : Answer(c, <<x>>)
      BY <1>4 DEF BadRequest, OverlongLine, Reject
    <2>2. total[c] \in Nat /\ total' = [total EXCEPT ![c] = total[c]]
      BY <1>4 DEF BadRequest, OverlongLine, readVars, IInv, TypeOK
    <2>3. AnswersWith(c, x, total[c])
      BY <1>4, <2>1, <2>2 DEF BadRequest, OverlongLine, readVars, AnswersWith
    <2>4. x \in Codes /\ x \notin {200, 404, 405}
      BY DEF Codes
    <2> QED BY <2>2, <2>3, <2>4, AnswerKeeps
  <1>5. ASSUME NEW c \in Clients, NEW n \in LineSizes, NEW r \in Requests,
               RequestLine(c, r, n)
        PROVE  IInv'
    <2>1. TypeOK'
      BY <1>5, StatusAssumption DEF RequestLine, IInv, TypeOK
    <2>2. /\ handler'[c] = "headers" /\ request'[c] = r /\ r # NoRequest
          /\ \A d \in Clients \ {c} :
               handler'[d] = handler[d] /\ request'[d] = request[d] /\ total'[d] = total[d]
      BY <1>5 DEF RequestLine, IInv, TypeOK, Requests, NoRequest
    <2>3. UNCHANGED <<server, answers, conn>> /\ handler[c] = "line"
      BY <1>5 DEF RequestLine
    <2>4. Progress(c)' /\ Routed(c)'
      BY <2>2, <2>3 DEF IInv, Progress, Routed
    <2>5. ASSUME NEW d \in Clients \ {c} PROVE Progress(d)' /\ Routed(d)'
      BY <2>2, <2>3 DEF IInv, Progress, Routed
    <2>6. Drained'
      BY <2>3 DEF IInv, Drained
    <2> QED BY <2>1, <2>4, <2>5, <2>6 DEF IInv
  <1>6. ASSUME NEW c \in Clients, NEW n \in LineSizes, HeaderLine(c, n) PROVE IInv'
    <2> DEFINE k == Count(c, n)
    <2>1. k \in Nat
      BY StatusAssumption DEF IInv, TypeOK, Count
    <2>2. /\ Reading(c) /\ handler[c] = "headers" /\ total' = [total EXCEPT ![c] = k]
          /\ UNCHANGED <<server, request, conn, reading>>
      BY <1>6 DEF HeaderLine
    <2>3. CASE k > MaxHeader
      <3>1. AnswersWith(c, 400, k)
        BY <1>6, <2>2, <2>3 DEF HeaderLine, Reject, AnswersWith
      <3>2. 400 \in Codes /\ 400 \notin {200, 404, 405}
        BY DEF Codes
      <3> HIDE DEF k
      <3> QED BY <3>1, <3>2, <2>1, AnswerKeeps
    <2>4. CASE ~(k > MaxHeader)
      <3>1. UNCHANGED <<handler, answers>>
        BY <1>6, <2>4 DEF HeaderLine
      <3> HIDE DEF k
      <3>2. TypeOK'
        BY <3>1, <2>1, <2>2, <2>4, StatusAssumption DEF IInv, TypeOK
      <3>3. \A d \in Clients \ {c} : total'[d] = total[d]
        BY <2>2 DEF IInv, TypeOK
      <3>4. ASSUME NEW d \in Clients PROVE Progress(d)' /\ Routed(d)'
        BY <3>1, <3>3, <2>2 DEF IInv, Progress, Routed
      <3>5. Drained'
        BY <2>2 DEF IInv, Drained
      <3> QED BY <3>2, <3>4, <3>5 DEF IInv
    <2> QED BY <2>3, <2>4
  <1>7. ASSUME NEW c \in Clients, BlankLine(c) PROVE IInv'
    <2> DEFINE k == Count(c, Blank)
    <2>1. k \in Nat
      BY DEF IInv, TypeOK, Count, Blank
    <2>2. /\ Reading(c) /\ handler[c] = "headers" /\ total' = [total EXCEPT ![c] = k]
          /\ UNCHANGED <<server, request, conn, reading>>
      BY <1>7 DEF BlankLine
    <2>3. CASE k > MaxHeader
      <3>1. AnswersWith(c, 400, k)
        BY <1>7, <2>2, <2>3 DEF BlankLine, Reject, AnswersWith
      <3>2. 400 \in Codes /\ 400 \notin {200, 404, 405}
        BY DEF Codes
      <3> HIDE DEF k
      <3> QED BY <3>1, <3>2, <2>1, AnswerKeeps
    <2>4. CASE ~(k > MaxHeader)
      <3>1. AnswersWith(c, StatusOf(request[c]), k)
        BY <1>7, <2>2, <2>4 DEF BlankLine, AnswersWith
      <3>2. StatusOf(request[c]) \in {200, 404, 405} /\ StatusOf(request[c]) \in Codes
        BY DEF StatusOf, Codes
      <3>3. k <= MaxHeader
        BY <2>1, <2>4, StatusAssumption
      <3> HIDE DEF k
      <3> QED BY <3>1, <3>2, <3>3, <2>1, <2>2, AnswerKeeps
    <2> QED BY <2>3, <2>4
  <1>8. ASSUME NEW c \in Clients, DrainReturns(c) PROVE IInv'
    <2>1. TypeOK'
      BY <1>8 DEF DrainReturns, readVars, IInv, TypeOK
    <2>2. /\ handler[c] = "draining" /\ handler'[c] = "closing"
          /\ \A d \in Clients \ {c} : handler'[d] = handler[d]
      BY <1>8 DEF DrainReturns, IInv, TypeOK
    <2>3. UNCHANGED <<server, request, total, answers, conn>>
      BY <1>8 DEF DrainReturns, readVars
    <2>4. ASSUME NEW d \in Clients PROVE Progress(d)' /\ Routed(d)'
      BY <2>2, <2>3 DEF IInv, Progress, Routed
    <2>5. Drained'
      BY <2>3 DEF IInv, Drained
    <2> QED BY <2>1, <2>4, <2>5 DEF IInv
  <1>9. ASSUME NEW c \in Clients, CloseReturns(c) PROVE IInv'
    <2>1. Len(answers[c]) = 1
      BY <1>9 DEF CloseReturns, IInv, Progress
    <2> QED BY <1>9, <2>1, OverKeeps DEF CloseReturns
  <1>10. ASSUME NEW c \in Clients, LostHandlerEnds(c) PROVE IInv'
    BY <1>10, OverKeeps DEF LostHandlerEnds
  <1>11. CASE Start \/ Stop \/ StopReturns
    <2>1. UNCHANGED <<handler, request, total, answers, conn, reading>>
      BY <1>11 DEF Start, Stop, StopReturns, readVars
    <2>2. server' \in {"up", "stopping"} \/ \A c \in Clients : conn[c] # "open"
      BY <1>11 DEF Start, Stop, StopReturns
    <2>3. TypeOK'
      BY <1>11, <2>1 DEF Start, Stop, StopReturns, IInv, TypeOK
    <2>4. Drained'
      BY <2>1, <2>2 DEF Drained
    <2>5. ASSUME NEW c \in Clients PROVE Progress(c)' /\ Routed(c)'
      BY <2>1 DEF IInv, Progress, Routed
    <2> QED BY <2>3, <2>4, <2>5 DEF IInv
  <1> QED BY <1>u, <1>1, <1>2, <1>3, <1>4, <1>5, <1>6, <1>7, <1>8, <1>9, <1>10, <1>11
          DEF Next, ReadStep, WriteStep

(* The strengthened invariant holds of every behaviour.                    *)
LEMMA StatusInvariant == Spec => []IInv
  BY StatusInit, StatusStep, PTL DEF Spec

-----------------------------------------------------------------------------
(* The handlers' and the listener's states are what they are said to be,   *)
(* and no handler goes on reading beyond the cap.                          *)
THEOREM StatusTypeOK == Spec => []TypeOK
  <1>1. IInv => TypeOK
    BY DEF IInv
  <1> QED BY <1>1, StatusInvariant, PTL

(* However a request goes wrong, its client is written one answer.         *)
THEOREM StatusOneAnswer == Spec => []OneAnswer
  <1>1. IInv => OneAnswer
    BY DEF IInv, Progress, OneAnswer
  <1> QED BY <1>1, StatusInvariant, PTL

(* The header cap has no way around it, whatever the lengths of the lines. *)
THEOREM StatusServedWithinCap == Spec => []ServedWithinCap
  <1>1. IInv => ServedWithinCap
    <2> SUFFICES ASSUME IInv, NEW c \in Clients, NEW i \in 1..Len(answers[c]),
                        handler[c] \in {"draining", "closing"},
                        answers[c][i] \in {200, 404, 405}
                 PROVE  request[c] # NoRequest /\ total[c] <= MaxHeader
      BY DEF ServedWithinCap
    <2>1. Len(answers[c]) = 1
      BY DEF IInv, Progress
    <2>2. i = 1
      BY <2>1
    <2> QED BY <2>2 DEF IInv, Routed
  <1> QED BY <1>1, StatusInvariant, PTL

(* When stop() has returned every connection has had its answer.           *)
THEOREM StatusStopDrains == Spec => []StopDrains
  <1>1. IInv => StopDrains
    BY DEF IInv, TypeOK, Progress, Drained, StopDrains
  <1> QED BY <1>1, StatusInvariant, PTL
=============================================================================
