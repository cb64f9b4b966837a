-------------------------- MODULE HttpClientProofs --------------------------
(***************************************************************************)
(* For every buffer size, number of sockets and set of answers: the HTTP   *)
(* client keeps to its buffer, leaves no socket behind, names the error it *)
(* had, and implements UploadService.                                      *)
(*                                                                         *)
(* Argument.  The client holds a socket exactly between connect and close  *)
(* (SocketInv).  What is in the buffer came on this connection (BytesInv): *)
(* length and arrived start together at 0.  A request that gets past the   *)
(* receive loop with status OK has been sent whole (StatusInv), so a valid *)
(* header in the buffer is the server's answer to it.                      *)
(* The last part counts a request's steps down (RequestsRunDown).          *)
(***************************************************************************)
EXTENDS HttpClient, TLAPS

Connected == {"sendHeader", "sendBody", "receive", "close"}

SocketInv ==
  /\ pc \in Connected => socketFd = TRUE /\ lwipOpen = 1
  /\ pc \notin Connected => socketFd = FALSE /\ lwipOpen = 0

BytesInv ==
  /\ pc \in {"prepare", "connect"} => arrived = 0
  /\ pc \notin {"idle", "prepare"} => length = arrived

StatusInv ==
  /\ pc \in {"prepare", "connect", "sendHeader", "sendBody"} => ~asked
  /\ pc = "receive" => asked
  /\ pc \in {"connect", "sendHeader", "sendBody", "receive", "validate"} => status = "OK"
  /\ (pc \in {"close", "validate"} /\ status = "OK") => asked
  /\ pc = "close" => status # "NONE"

ErrorInv ==
  /\ (pc = "close" /\ status = "RECEIVE_ERROR") => broken
  /\ ReceiveErrorIsReal

IInv == TypeOK /\ SocketInv /\ BytesInv /\ StatusInv /\ ErrorInv

-----------------------------------------------------------------------------
(* What the parser makes of any number of bytes keeps the types of the     *)
(* response.                                                               *)
LEMMA ParserTypes ==
  ASSUME TypeOK, NEW n \in Nat
  PROVE  /\ processReceivedData(n).body \in BOOLEAN
         /\ processReceivedData(n).bodyLength \in Nat
<1>1. reply \in Reply
  BY HttpAssumption DEF TypeOK
<1>2. reply.contentLength \in Nat \cup {NotANumber}
  BY <1>1 DEF Reply
<1>3. response.body \in BOOLEAN /\ response.bodyLength \in Nat
  BY DEF TypeOK
<1> DEFINE seen == checkResponseBodyComplete(CARRIAGE_RETURN, n)
<1>4. seen.body \in BOOLEAN /\ seen.bodyLength \in Nat
  BY <1>2, <1>3 DEF checkResponseBodyComplete, NotANumber
<1> QED
  BY <1>3, <1>4 DEF processReceivedData

(* Returning a status keeps the type of the caller's response.             *)
LEMMA ReturnType ==
  ASSUME TypeOK, NEW s \in HttpStatus, Return(s)
  PROVE  /\ pc' = "idle"
         /\ response' \in [status : HttpStatus, body : BOOLEAN, bodyLength : Nat]
BY DEF Return, TypeOK

(* lwip_recv never returns more bytes than it was given room for.          *)
LEMMA RecvBounds ==
  ASSUME TypeOK, NEW room \in Nat, NEW n \in LwipRecv(room)
  PROVE  n \in Nat /\ n <= room
<1>1. reply \in Reply
  BY HttpAssumption DEF TypeOK
<1>2. Rest \in Int
  BY <1>1 DEF Rest, Reply, TypeOK
<1> QED
  BY <1>2 DEF LwipRecv

(* One turn of the receive loop: the bytes that came are counted once, the *)
(* buffer keeps room for its terminator, and an error has a cause.         *)
LEMMA ReceiveEffect ==
  ASSUME IInv, receiveResponse
  PROVE  /\ pc = "receive" /\ UNCHANGED <<hasBody, socketFd, lwipOpen, reply, asked>>
         /\ \/ pc' = "receive" /\ status' = status
            \/ /\ pc' = "close"
               /\ status' \in {status, "MALFORMED_RESPONSE", "RECEIVE_ERROR", "RESPONSE_TOO_LONG"}
         /\ length' \in 0 .. BufferSize - 1 /\ length' = arrived'
         /\ arrived' \in Nat /\ arrived' >= arrived
         /\ response' \in [status : HttpStatus, body : BOOLEAN, bodyLength : Nat]
         /\ response'.status = response.status
         /\ broken' \in BOOLEAN
         /\ (pc' = "close" /\ status' = "RECEIVE_ERROR") => broken'
         /\ pc' = "receive" => length' > length
<1> DEFINE room == BufferSize - length - 1
<1>1. /\ pc = "receive" /\ status = "OK" /\ socketFd /\ length = arrived
      /\ UNCHANGED <<hasBody, socketFd, lwipOpen, reply, asked>>
  BY DEF IInv, StatusInv, SocketInv, BytesInv, Connected, receiveResponse
<1>2. TypeOK
  BY DEF IInv
<1>3. CASE length >= BufferSize - 1
  BY <1>1, <1>2, <1>3 DEF receiveResponse, StopReceiving, TypeOK
<1>4. CASE length < BufferSize - 1 /\ ReceiveFails(room)
  <2>1. room > 0
    BY <1>2, <1>4, HttpAssumption DEF TypeOK
  <2> HIDE DEF room
  <2>2. pc' = "close" /\ status' = "RECEIVE_ERROR" /\ broken' = (socketFd /\ room > 0)
    BY <1>4 DEF ReceiveFails, StopReceiving
  <2>3. broken' = TRUE
    BY <2>1, <2>2, <1>1
  <2> QED
    BY <1>1, <1>2, <1>4, <2>2, <2>3 DEF ReceiveFails, TypeOK
<1>5. CASE length < BufferSize - 1 /\ ReceiveSome(room)
  <2>1. room \in Nat /\ length + room \in 0 .. BufferSize - 1
    BY <1>2, <1>5, HttpAssumption DEF TypeOK
  <2> HIDE DEF room
  <2>2. PICK n \in LwipRecv(room) :
          LET seen == processReceivedData(length + n)
          IN  IF n = 0
              THEN StopReceiving("MALFORMED_RESPONSE") /\ UNCHANGED <<length, arrived, response, broken>>
              ELSE /\ length' = length + n
                   /\ arrived' = arrived + n
                   /\ response' = [response EXCEPT !.body = seen.body, !.bodyLength = seen.bodyLength]
                   /\ CASE seen.status = "OK" -> StopReceiving(status)
                        [] seen.status = "DATA_NOT_RECEIVED" -> UNCHANGED <<pc, status>>
                        [] OTHER -> StopReceiving("MALFORMED_RESPONSE")
                   /\ UNCHANGED broken
    BY <1>5, Zenon DEF ReceiveSome
  <2>3. n \in Nat /\ n <= room
    BY <1>2, <2>1, RecvBounds
  <2>4. CASE n = 0
    BY <1>1, <1>2, <2>2, <2>4 DEF StopReceiving, TypeOK
  <2>5. CASE n # 0
    <3> DEFINE seen == processReceivedData(length + n)
    <3>1. length + n \in Nat
      BY <1>2, <2>3 DEF TypeOK
    <3>2. seen.body \in BOOLEAN /\ seen.bodyLength \in Nat
      BY <1>2, <3>1, ParserTypes
    <3>3. /\ length' = length + n /\ arrived' = arrived + n
          /\ response' = [response EXCEPT !.body = seen.body, !.bodyLength = seen.bodyLength]
          /\ UNCHANGED broken
          /\ \/ pc' = "close" /\ status' \in {status, "MALFORMED_RESPONSE"}
             \/ pc' = pc /\ status' = status
      BY <2>2, <2>5 DEF StopReceiving
    <3> HIDE DEF seen
    <3>4. /\ length' \in 0 .. BufferSize - 1 /\ length' = arrived'
          /\ arrived' \in Nat /\ arrived' >= arrived /\ length' > length
      BY <1>1, <1>2, <2>1, <2>3, <2>5, <3>3, HttpAssumption DEF TypeOK
    <3>5. /\ response' \in [status : HttpStatus, body : BOOLEAN, bodyLength : Nat]
          /\ response'.status = response.status
      BY <1>2, <3>2, <3>3 DEF TypeOK
    <3> QED
      BY <1>1, <1>2, <3>3, <3>4, <3>5 DEF TypeOK
  <2> QED
    BY <2>4, <2>5
<1>6. length < BufferSize - 1 \/ length >= BufferSize - 1
  BY <1>2, HttpAssumption DEF TypeOK
<1> QED
  BY <1>3, <1>4, <1>5, <1>6 DEF receiveResponse

-----------------------------------------------------------------------------
(* The invariant holds in every state of the client.                       *)
THEOREM Invariance == Spec => []IInv
<1>1. Init => IInv
  <2> SUFFICES ASSUME Init PROVE IInv
    OBVIOUS
  <2>1. TypeOK
    <3>1. 0 \in 0 .. BufferSize - 1 /\ 0 \in 0 .. Sockets
      BY HttpAssumption
    <3>2. response \in [status : HttpStatus, body : BOOLEAN, bodyLength : Nat]
      BY DEF Init, HttpStatus
    <3> QED
      BY <3>1, <3>2 DEF Init, TypeOK, HttpStatus
  <2>2. SocketInv /\ BytesInv
    BY DEF Init, SocketInv, Connected, BytesInv
  <2>3. StatusInv /\ ErrorInv
    BY DEF Init, StatusInv, ErrorInv, ReceiveErrorIsReal
  <2> QED
    BY <2>1, <2>2, <2>3 DEF IInv
<1>2. IInv /\ [Next]_vars => IInv'
  <2> SUFFICES ASSUME IInv, [Next]_vars PROVE IInv'
    OBVIOUS
  <2>1. CASE executeRequest
    <3>1. TypeOK'
      BY <2>1 DEF executeRequest, IInv, TypeOK, HttpStatus
    <3>2. SocketInv' /\ BytesInv'
      BY <2>1 DEF executeRequest, IInv, TypeOK, SocketInv, Connected, BytesInv
    <3>3. StatusInv' /\ ErrorInv'
      BY <2>1 DEF executeRequest, IInv, TypeOK, StatusInv, ErrorInv, ReceiveErrorIsReal
    <3> QED
      BY <3>1, <3>2, <3>3 DEF IInv
  <2>2. CASE prepareRequest
    <3>1. TypeOK'
      <4>1. "OK" \in HttpStatus /\ "INVALID_PARAMETER" \in HttpStatus
        BY DEF HttpStatus
      <4>2. /\ pc' \in {"idle", "connect"}
            /\ status' \in HttpStatus /\ length' \in {0, length}
            /\ response' \in [status : HttpStatus, body : BOOLEAN, bodyLength : Nat]
        <5>1. CASE pc' = "connect"
          <6>1. /\ status' = "OK" /\ length' = 0
                /\ response' = [status |-> "OK", body |-> FALSE, bodyLength |-> 0]
            BY <2>2, <5>1 DEF prepareRequest, Return
          <6>2. [status |-> "OK", body |-> FALSE, bodyLength |-> 0]
                  \in [status : HttpStatus, body : BOOLEAN, bodyLength : Nat]
            BY <4>1
          <6> QED
            BY <4>1, <5>1, <6>1, <6>2
        <5>2. CASE Return("INVALID_PARAMETER") /\ UNCHANGED <<status, length>>
          BY <4>1, <5>2, ReturnType DEF IInv, TypeOK
        <5> QED
          BY <2>2, <5>1, <5>2 DEF prepareRequest
      <4>3. length' \in 0 .. BufferSize - 1
        BY <4>2, HttpAssumption DEF IInv, TypeOK
      <4> QED
        BY <2>2, <4>2, <4>3 DEF prepareRequest, history, IInv, TypeOK
    <3>2. SocketInv' /\ BytesInv'
      BY <2>2 DEF prepareRequest, Return, history, IInv, TypeOK, SocketInv, Connected, BytesInv
    <3>3. StatusInv' /\ ErrorInv'
      BY <2>2 DEF prepareRequest, Return, history, IInv, TypeOK, StatusInv, ErrorInv, ReceiveErrorIsReal
    <3> QED
      BY <3>1, <3>2, <3>3 DEF IInv
  <2>3. CASE connect
    <3>1. TypeOK'
      <4>1. "CONNECT_ERROR" \in HttpStatus
        BY DEF HttpStatus
      <4>2. /\ pc' \in {"idle", "sendHeader"} /\ socketFd' \in BOOLEAN /\ reply' \in Replies
            /\ response' \in [status : HttpStatus, body : BOOLEAN, bodyLength : Nat]
        BY <2>3, <4>1, ReturnType DEF connect, Return, IInv, TypeOK
      <4>3. lwipOpen' \in 0 .. Sockets
        BY <2>3, HttpAssumption DEF connect, IInv, TypeOK
      <4> QED
        BY <2>3, <4>2, <4>3 DEF connect, history, IInv, TypeOK
    <3>2. SocketInv' /\ BytesInv'
      BY <2>3 DEF connect, Return, history, IInv, TypeOK, SocketInv, Connected, BytesInv
    <3>3. StatusInv' /\ ErrorInv'
      BY <2>3 DEF connect, Return, history, IInv, TypeOK, StatusInv, ErrorInv, ReceiveErrorIsReal
    <3> QED
      BY <3>1, <3>2, <3>3 DEF IInv
  <2>4. CASE sendHeader
    <3>1. TypeOK'
      BY ZenonT(60), <2>4 DEF sendHeader, Send, history, IInv, TypeOK, HttpStatus
    <3>2. SocketInv' /\ BytesInv'
      BY <2>4 DEF sendHeader, Send, history, IInv, TypeOK, SocketInv, Connected, BytesInv
    <3>3. StatusInv' /\ ErrorInv'
      BY <2>4 DEF sendHeader, Send, history, IInv, TypeOK, StatusInv, ErrorInv, ReceiveErrorIsReal
    <3> QED
      BY <3>1, <3>2, <3>3 DEF IInv
  <2>5. CASE sendBody
    <3>1. TypeOK'
      BY ZenonT(60), <2>5 DEF sendBody, Send, history, IInv, TypeOK, HttpStatus
    <3>2. SocketInv' /\ BytesInv'
      BY <2>5 DEF sendBody, Send, history, IInv, TypeOK, SocketInv, Connected, BytesInv
    <3>3. StatusInv' /\ ErrorInv'
      BY <2>5 DEF sendBody, Send, history, IInv, TypeOK, StatusInv, ErrorInv, ReceiveErrorIsReal
    <3> QED
      BY <3>1, <3>2, <3>3 DEF IInv
  <2>6. CASE receiveResponse
    BY <2>6, ReceiveEffect
       DEF IInv, TypeOK, HttpStatus, SocketInv, Connected, BytesInv, StatusInv, ErrorInv,
           ReceiveErrorIsReal
  <2>7. CASE close
    <3>1. TypeOK'
      <4>1. /\ pc' \in {"idle", "validate"} /\ socketFd' = FALSE
            /\ response' \in [status : HttpStatus, body : BOOLEAN, bodyLength : Nat]
        BY <2>7, ReturnType DEF close, Return, IInv, TypeOK
      <4>2. lwipOpen' \in 0 .. Sockets
        BY <2>7, HttpAssumption DEF close, IInv, TypeOK, SocketInv, Connected
      <4> QED
        BY <2>7, <4>1, <4>2 DEF close, history, IInv, TypeOK
    <3>2. SocketInv' /\ BytesInv'
      BY <2>7 DEF close, Return, history, IInv, TypeOK, SocketInv, Connected, BytesInv
    <3>3. StatusInv' /\ ErrorInv'
      BY <2>7 DEF close, Return, history, IInv, TypeOK, StatusInv, ErrorInv, ReceiveErrorIsReal
    <3> QED
      BY <3>1, <3>2, <3>3 DEF IInv
  <2>8. CASE validateResponse
    <3>1. TypeOK'
      BY <2>8 DEF validateResponse, Return, history, IInv, TypeOK, HttpStatus
    <3>2. SocketInv' /\ BytesInv'
      BY <2>8 DEF validateResponse, Return, history, IInv, TypeOK, SocketInv, Connected, BytesInv
    <3>3. StatusInv' /\ ErrorInv'
      BY <2>8 DEF validateResponse, Return, history, IInv, TypeOK, StatusInv, ErrorInv, ReceiveErrorIsReal
    <3> QED
      BY <3>1, <3>2, <3>3 DEF IInv
  <2>9. CASE UNCHANGED vars
    <3>1. TypeOK'
      BY <2>9 DEF vars, history, IInv, TypeOK, HttpStatus
    <3>2. SocketInv' /\ BytesInv'
      BY <2>9 DEF vars, history, IInv, TypeOK, SocketInv, Connected, BytesInv
    <3>3. StatusInv' /\ ErrorInv'
      BY <2>9 DEF vars, history, IInv, TypeOK, StatusInv, ErrorInv, ReceiveErrorIsReal
    <3> QED
      BY <3>1, <3>2, <3>3 DEF IInv
  <2> QED
    BY <2>1, <2>2, <2>3, <2>4, <2>5, <2>6, <2>7, <2>8, <2>9 DEF Next, Request
<1> QED
  BY <1>1, <1>2, PTL DEF Spec

(* ResponseLength stays below the size of the buffer, so the terminator    *)
(* receiveResponse writes behind it is inside (part of the type).          *)
THEOREM TypeCorrect == Spec => []TypeOK
<1>1. IInv => TypeOK
  BY DEF IInv
<1> QED
  BY <1>1, Invariance, PTL

(* No path through connect, sendRequest, receiveResponse and close leaves  *)
(* a socket open.                                                          *)
THEOREM NoSocketLeaks == Spec => []SocketsReleased
<1>1. IInv => SocketsReleased
  BY DEF IInv, SocketInv, Connected, SocketsReleased
<1> QED
  BY <1>1, Invariance, PTL

(* RECEIVE_ERROR is reported only when lwip_recv failed (receiveResponse). *)
THEOREM ReceiveErrorHasCause == Spec => []ReceiveErrorIsReal
<1>1. IInv => ReceiveErrorIsReal
  BY DEF IInv, ErrorInv
<1> QED
  BY <1>1, Invariance, PTL

-----------------------------------------------------------------------------
(* What the caller sees of a state.                                        *)
LEMMA ResultOf ==
  /\ pc # "idle" => Result = "PENDING"
  /\ (pc = "idle" /\ response.status \in {"NONE", "OK"}) => Result = response.status
  /\ (pc = "idle" /\ response.status \notin {"NONE", "OK"}) => Result = "FAILED"
BY DEF Result

(* The same of the state after a step.                                     *)
LEMMA ResultOfNext ==
  /\ pc' # "idle" => Result' = "PENDING"
  /\ (pc' = "idle" /\ response'.status \in {"NONE", "OK"}) => Result' = response'.status
  /\ (pc' = "idle" /\ response'.status \notin {"NONE", "OK"}) => Result' = "FAILED"
BY DEF Result

(* Return ends the request with the status it is given.                    *)
LEMMA ReturnStatus ==
  ASSUME TypeOK, NEW s, Return(s)
  PROVE  pc' = "idle" /\ response'.status = s
BY DEF Return, TypeOK

(* The client implements UploadService, for every buffer size and set of   *)
(* answers (executeRequest).                                               *)
THEOREM ImplementsUpload == Spec => UploadSpec
<1>1. Init => Upload!Init
  <2>1. Init => Result = "NONE"
    BY ResultOf DEF Init
  <2>2. Init => Heard = FALSE
    BY DEF Init, Heard
  <2> QED
    BY <2>1, <2>2 DEF Upload!Init
<1>2. IInv /\ [Next]_vars => [Upload!Next]_<<Result, Heard>>
  <2> SUFFICES ASSUME IInv, [Next]_vars
               PROVE  Upload!Next \/ UNCHANGED <<Result, Heard>>
    BY DEF Upload!Next
  <2> USE DEF Upload!Next
  <2>0. TypeOK /\ StatusInv /\ BytesInv
    BY DEF IInv
  <2>1. CASE executeRequest
    <3>1. Result # "PENDING" /\ Result' = "PENDING"
      BY <2>1, ResultOf, ResultOfNext DEF executeRequest
    <3>2. Heard' = FALSE
      BY <2>1 DEF executeRequest, Heard
    <3> QED
      BY <3>1, <3>2 DEF Upload!Post
  <2>2. CASE prepareRequest \/ connect
    <3>1. Heard = FALSE /\ Heard' = FALSE
      BY <2>0, <2>2 DEF StatusInv, prepareRequest, connect, history, Heard
    <3>2. Result = "PENDING"
      BY <2>2, ResultOf DEF prepareRequest, connect
    <3>3. pc' # "idle" \/ Return("INVALID_PARAMETER") \/ Return("CONNECT_ERROR")
      BY <2>2 DEF prepareRequest, connect
    <3>4. Result' = "PENDING" \/ Result' = "FAILED"
      BY <2>0, <3>3, ReturnStatus, ResultOfNext
    <3> QED
      BY <3>1, <3>2, <3>4 DEF Upload!Fail
  <2>3. CASE sendHeader \/ sendBody
    <3>1. Result = "PENDING" /\ Result' = "PENDING"
      BY <2>3, ResultOf, ResultOfNext DEF sendHeader, sendBody, Send
    <3>2. Heard = FALSE
      BY <2>0, <2>3 DEF StatusInv, sendHeader, sendBody, Send, Heard
    <3>3. Heard' \in BOOLEAN
      BY DEF Heard
    <3> QED
      BY <3>1, <3>2, <3>3 DEF Upload!Answer
  <2>4. CASE receiveResponse
    <3>1. /\ pc = "receive" /\ pc' # "idle"
          /\ UNCHANGED <<reply, asked>> /\ arrived' \in Nat /\ arrived' >= arrived
      BY <2>4, ReceiveEffect
    <3>2. Result = "PENDING" /\ Result' = "PENDING"
      BY <3>1, ResultOf, ResultOfNext
    <3>3. reply.header \in Nat
      BY <2>0, HttpAssumption DEF TypeOK, Reply
    <3>4. Heard => Heard'
      BY <2>0, <3>1, <3>3 DEF Heard, TypeOK
    <3>5. Heard \in BOOLEAN /\ Heard' \in BOOLEAN
      BY DEF Heard
    <3> QED
      BY <3>2, <3>4, <3>5 DEF Upload!Answer
  <2>5. CASE close
    <3>1. Result = "PENDING"
      BY <2>5, ResultOf DEF close
    <3>2. Heard' = Heard
      BY <2>5 DEF close, history, Heard
    <3>3. pc' = "validate" \/ (status \notin {"NONE", "OK"} /\ Return(status))
      BY <2>0, <2>5 DEF close, StatusInv
    <3>4. Result' = "PENDING" \/ Result' = "FAILED"
      BY <2>0, <3>3, ReturnStatus, ResultOfNext
    <3> QED
      BY <3>1, <3>2, <3>4 DEF Upload!Fail
  <2>6. CASE validateResponse
    <3>1. Result = "PENDING"
      BY <2>6, ResultOf DEF validateResponse
    <3>2. Heard' = Heard
      BY <2>6 DEF validateResponse, history, Heard
    <3>3. CASE validateHttpResponseHeaders
      <4>1. Heard
        BY <2>0, <2>6, <3>3
           DEF validateResponse, validateHttpResponseHeaders, findHeaderEnd, StatusInv, BytesInv, Heard
      <4>2. Return("OK")
        BY <2>0, <2>6, <3>3 DEF validateResponse, StatusInv
      <4>3. Result' = "OK"
        BY <2>0, <4>2, ReturnStatus, ResultOfNext
      <4> QED
        BY <3>1, <3>2, <4>1, <4>3 DEF Upload!Succeed
    <3>4. CASE ~validateHttpResponseHeaders
      <4>1. Return("MALFORMED_RESPONSE")
        BY <2>6, <3>4 DEF validateResponse
      <4>2. Result' = "FAILED"
        BY <2>0, <4>1, ReturnStatus, ResultOfNext
      <4> QED
        BY <3>1, <3>2, <4>2 DEF Upload!Fail
    <3> QED
      BY <3>3, <3>4
  <2>7. CASE UNCHANGED vars
    BY <2>7 DEF vars, Result, Heard
  <2> QED
    BY <2>1, <2>2, <2>3, <2>4, <2>5, <2>6, <2>7 DEF Next, Request
<1> QED
  BY <1>1, <1>2, Invariance, PTL DEF Spec, UploadSpec, Upload!Spec
-----------------------------------------------------------------------------
(* What is left of a request: a step of the receive loop that goes on      *)
(* takes a byte, every other step is taken once.                           *)
Measure ==
  CASE pc = "idle"       -> 0
    [] pc = "validate"   -> 1
    [] pc = "close"      -> 2
    [] pc = "receive"    -> 2 + (BufferSize - length)
    [] pc = "sendBody"   -> BufferSize + 3
    [] pc = "sendHeader" -> BufferSize + 4
    [] pc = "connect"    -> BufferSize + 5
    [] OTHER             -> BufferSize + 6

RequestShrinks == [][pc # "idle" => Measure' < Measure]_vars

RequestIsShort == Measure \in 0 .. BufferSize + 6

(* The measure in each state of the client, and after a step.              *)
LEMMA MeasureOf ==
  /\ pc = "idle" => Measure = 0
  /\ pc = "validate" => Measure = 1
  /\ pc = "close" => Measure = 2
  /\ pc = "receive" => Measure = 2 + (BufferSize - length)
  /\ pc = "sendBody" => Measure = BufferSize + 3
  /\ pc = "sendHeader" => Measure = BufferSize + 4
  /\ pc = "connect" => Measure = BufferSize + 5
  /\ pc = "prepare" => Measure = BufferSize + 6
BY DEF Measure

LEMMA MeasureOfNext ==
  /\ pc' = "idle" => Measure' = 0
  /\ pc' = "validate" => Measure' = 1
  /\ pc' = "close" => Measure' = 2
  /\ pc' = "receive" => Measure' = 2 + (BufferSize - length')
  /\ pc' = "sendBody" => Measure' = BufferSize + 3
  /\ pc' = "sendHeader" => Measure' = BufferSize + 4
  /\ pc' = "connect" => Measure' = BufferSize + 5
BY DEF Measure

(* Every step of a request brings its end nearer, whatever lwIP and the    *)
(* server do: after executeRequest the client returns within BufferSize + 6 *)
(* of its steps (the safety half of RequestEnds). A receive that returned  *)
(* 0 and went on would break it.                                           *)
THEOREM RequestsRunDown == Spec => RequestShrinks /\ []RequestIsShort
<1>1. IInv => RequestIsShort
  <2> SUFFICES ASSUME IInv PROVE RequestIsShort
    OBVIOUS
  <2>1. TypeOK /\ BufferSize \in Nat
    BY HttpAssumption DEF IInv
  <2> QED
    BY <2>1, MeasureOf DEF RequestIsShort, TypeOK
<1>2. IInv /\ IInv' /\ [Next]_vars => [pc # "idle" => Measure' < Measure]_vars
  <2> SUFFICES ASSUME IInv, IInv', Next, pc # "idle" PROVE Measure' < Measure
    BY DEF vars
  <2>0. /\ BufferSize \in Nat /\ length \in 0 .. BufferSize - 1 /\ length' \in 0 .. BufferSize - 1
    BY HttpAssumption DEF IInv, TypeOK
  <2>1. CASE prepareRequest
    <3>1. pc = "prepare" /\ pc' \in {"connect", "idle"}
      BY <2>1 DEF prepareRequest, Return
    <3> QED
      BY <2>0, <3>1, MeasureOf, MeasureOfNext
  <2>2. CASE connect
    <3>1. pc = "connect" /\ pc' \in {"sendHeader", "idle"}
      BY <2>2 DEF connect, Return
    <3> QED
      BY <2>0, <3>1, MeasureOf, MeasureOfNext
  <2>3. CASE sendHeader
    <3>1. pc = "sendHeader" /\ pc' \in {"sendBody", "receive", "close"}
      BY <2>3 DEF sendHeader, Send
    <3> QED
      BY <2>0, <3>1, MeasureOf, MeasureOfNext
  <2>4. CASE sendBody
    <3>1. pc = "sendBody" /\ pc' \in {"receive", "close"}
      BY <2>4 DEF sendBody, Send
    <3> QED
      BY <2>0, <3>1, MeasureOf, MeasureOfNext
  <2>5. CASE receiveResponse
    <3>1. pc = "receive" /\ (pc' = "close" \/ (pc' = "receive" /\ length' > length))
      BY <2>5, ReceiveEffect
    <3> QED
      BY <2>0, <3>1, MeasureOf, MeasureOfNext
  <2>6. CASE close
    <3>1. pc = "close" /\ pc' \in {"validate", "idle"}
      BY <2>6 DEF close, Return
    <3> QED
      BY <3>1, MeasureOf, MeasureOfNext
  <2>7. CASE validateResponse
    <3>1. pc = "validate" /\ pc' = "idle"
      BY <2>7 DEF validateResponse, Return
    <3> QED
      BY <3>1, MeasureOf, MeasureOfNext
  <2> QED
    BY <2>1, <2>2, <2>3, <2>4, <2>5, <2>6, <2>7 DEF Next, Request, executeRequest
<1> QED
  BY <1>1, <1>2, Invariance, PTL DEF Spec, RequestShrinks
=============================================================================
