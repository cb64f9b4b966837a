----------------------------- MODULE HttpClient -----------------------------
(***************************************************************************)
(* HttpClient over TcpTransport: one blocking request at a time, on a      *)
(* connection of its own, into one fixed response buffer.  Each call of    *)
(* the transport is one action; lwIP may fail any of them, the server      *)
(* answers in pieces of any size, closes early or falls silent.            *)
(*                                                                         *)
(* A response is what the parser can tell about it: where its header ends, *)
(* where its Content-Length field is, and whether the rest is well formed. *)
(* All lengths and offsets are in bytes.                                   *)
(***************************************************************************)
EXTENDS Integers

CONSTANTS
  BufferSize,   \* _ResponseBuffer.size(); HTTP_MAX_RESPONSE_LEN is 1024
  Sockets,      \* sockets lwIP has
  Replies       \* what servers answer

HTTP_HEADER_END_LEN == 4
HTTP_STATUS_LINE_MIN_LEN == 12
CARRIAGE_RETURN == 13
NotANumber == -1

(* header: length with the final separator, 0 when there is none;          *)
(* lengthAt: offset behind "Content-Length:", 0 when there is none;        *)
(* contentLength: its value, which may not be a number; body: bytes sent    *)
(* besides the header; valid: version and status code are; json: the       *)
(* content type is; closes: the server closes when it has sent all (else   *)
(* it falls silent).                                                       *)
Reply ==
  [header : Nat, lengthAt : Nat, contentLength : Nat \cup {NotANumber}, body : Nat,
   valid : BOOLEAN, json : BOOLEAN, closes : BOOLEAN]

(* A status line and a separator have 16 characters, "Content-Length:" 15. *)
ASSUME HttpAssumption ==
  /\ BufferSize \in Nat \ {0}
  /\ Sockets \in Nat \ {0}
  /\ Replies # {} /\ Replies \subseteq Reply
  /\ \A r \in Replies : /\ r.header = 0 \/ r.header >= HTTP_STATUS_LINE_MIN_LEN + HTTP_HEADER_END_LEN
                        /\ r.lengthAt = 0 \/ r.lengthAt \in 15 .. r.header - HTTP_HEADER_END_LEN

VARIABLES
  pc,        \* where the network task is in the client
  hasBody,   \* Request.BodyLength > 0
  status,    \* Status of processRequest
  response,  \* the caller's HttpResponse: Status, and Body with BodyLength
  length,    \* ResponseLength
  socketFd,  \* is _SocketFd a socket?
  lwipOpen,  \* lwIP: sockets in use
  reply,     \* what the server answers on this connection
  arrived,   \* history: bytes of it received on this connection
  asked,     \* history: the whole request was handed to lwIP
  broken     \* history: lwip_recv failed on this connection

vars == <<pc, hasBody, status, response, length, socketFd, lwipOpen, reply, arrived, asked, broken>>
history == <<arrived, asked, broken>>

HttpStatus == {"NONE", "OK", "INVALID_PARAMETER", "CONNECT_ERROR", "SEND_ERROR",
               "RECEIVE_ERROR", "RESPONSE_TOO_LONG", "MALFORMED_RESPONSE"}

TypeOK ==
  /\ pc \in {"idle", "prepare", "connect", "sendHeader", "sendBody", "receive", "close", "validate"}
  /\ hasBody \in BOOLEAN
  /\ status \in HttpStatus
  /\ response \in [status : HttpStatus, body : BOOLEAN, bodyLength : Nat]
  /\ length \in 0 .. BufferSize - 1  \* the terminating NUL is written at length
  /\ socketFd \in BOOLEAN
  /\ lwipOpen \in 0 .. Sockets
  /\ reply \in Replies
  /\ arrived \in Nat
  /\ asked \in BOOLEAN
  /\ broken \in BOOLEAN

Init ==
  /\ pc = "idle"
  /\ hasBody = FALSE
  /\ status = "NONE"
  /\ response = [status |-> "NONE", body |-> FALSE, bodyLength |-> 0]
  /\ length = 0
  /\ socketFd = FALSE
  /\ lwipOpen = 0
  /\ reply \in Replies
  /\ arrived = 0 /\ asked = FALSE /\ broken = FALSE

-----------------------------------------------------------------------------
(* The response parser *)

findHeaderEnd(n) == reply.header # 0 /\ n >= reply.header

findContentLength(end) == reply.lengthAt # 0 /\ reply.lengthAt <= end

(* checkResponseBodyComplete, with the offset it is given for the end of   *)
(* the header: [status, body, bodyLength].                                 *)
checkResponseBodyComplete(headerEndOffset, n) ==
  LET received == n - (headerEndOffset + HTTP_HEADER_END_LEN)
      none(s) == [status |-> s, body |-> response.body, bodyLength |-> response.bodyLength]
  IN  IF ~findContentLength(headerEndOffset)
      THEN [status |-> "OK", body |-> FALSE, bodyLength |-> 0]
      ELSE IF reply.contentLength = NotANumber THEN none("INVALID_CONTENT_LENGTH")
      ELSE IF received > reply.contentLength THEN none("INVALID_BODY_LENGTH")
      ELSE IF received < reply.contentLength THEN none("DATA_NOT_RECEIVED")
      ELSE [status |-> "OK", body |-> TRUE, bodyLength |-> reply.contentLength]

(* processReceivedData: *HeaderEnd, the character at the end of the header *)
(* and not its offset, is what checkResponseBodyComplete is called with.   *)
processReceivedData(n) ==
  IF ~findHeaderEnd(n)
  THEN [status |-> "DATA_NOT_RECEIVED", body |-> response.body, bodyLength |-> response.bodyLength]
  ELSE checkResponseBodyComplete(CARRIAGE_RETURN, n)

(* validateHttpResponseHeaders, over the ResponseLength bytes received     *)
validateHttpResponseHeaders ==
  /\ length >= HTTP_STATUS_LINE_MIN_LEN
  /\ reply.valid
  /\ findHeaderEnd(length)
  /\ response.bodyLength > 0 => reply.json

-----------------------------------------------------------------------------
(* executeRequest *)

(* The caller enters postRequest, putRequest (a body) or another method.   *)
executeRequest ==
  /\ pc = "idle"
  /\ hasBody' \in BOOLEAN
  /\ arrived' = 0 /\ asked' = FALSE /\ broken' = FALSE
  /\ pc' = "prepare"
  /\ UNCHANGED <<status, response, length, socketFd, lwipOpen, reply>>

Return(s) ==
  /\ pc' = "idle"
  /\ response' = [response EXCEPT !.status = s]

lengthKept ==  \* mutant: ResponseLength is not reset for a new request
  /\ pc = "prepare"
  /\ \/ /\ pc' = "connect"
        /\ response' = [status |-> "OK", body |-> FALSE, bodyLength |-> 0]
        /\ status' = "OK"
        /\ UNCHANGED length
     \/ Return("INVALID_PARAMETER") /\ UNCHANGED <<status, length>>
  /\ UNCHANGED <<hasBody, socketFd, lwipOpen, reply, history>>

(* prepareRequest, which refuses a path or a body that does not fit, and   *)
(* the initialisations at the start of processRequest.                     *)
prepareRequest ==
  /\ pc = "prepare"
  /\ \/ /\ pc' = "connect"
        /\ response' = [status |-> "OK", body |-> FALSE, bodyLength |-> 0]
        /\ status' = "OK"
        /\ length' = 0
     \/ Return("INVALID_PARAMETER") /\ UNCHANGED <<status, length>>
  /\ UNCHANGED <<hasBody, socketFd, lwipOpen, reply, history>>

connectLeaks ==  \* mutant: no lwip_close when lwip_connect fails
  /\ pc = "connect"
  /\ \/ /\ lwipOpen < Sockets
        /\ lwipOpen' = lwipOpen + 1
        /\ socketFd' = TRUE
        /\ reply' \in Replies
        /\ pc' = "sendHeader"
        /\ UNCHANGED response
     \/ /\ lwipOpen' \in {lwipOpen, lwipOpen + 1} \cap 0 .. Sockets
        /\ socketFd' = FALSE
        /\ Return("CONNECT_ERROR")
        /\ UNCHANGED reply
  /\ UNCHANGED <<hasBody, status, length, history>>

(* TcpTransport::connect: a socket, then a connection; a socket that does  *)
(* not connect is closed again.                                            *)
connect ==
  /\ pc = "connect"
  /\ \/ /\ lwipOpen < Sockets
        /\ lwipOpen' = lwipOpen + 1
        /\ socketFd' = TRUE
        /\ reply' \in Replies
        /\ pc' = "sendHeader"
        /\ UNCHANGED response
     \/ /\ socketFd' = FALSE
        /\ Return("CONNECT_ERROR")
        /\ UNCHANGED <<lwipOpen, reply>>
  /\ UNCHANGED <<hasBody, status, length, history>>

(* sendRequest: the header, then the body if there is one. The transport's *)
(* send loop hands over everything or fails.                               *)
Send(here, next, last) ==
  /\ pc = here
  /\ \/ pc' = next /\ asked' = last /\ UNCHANGED status
     \/ pc' = "close" /\ status' = "SEND_ERROR" /\ UNCHANGED asked
  /\ UNCHANGED <<hasBody, response, length, socketFd, lwipOpen, reply, arrived, broken>>

sendHeader == Send("sendHeader", IF hasBody THEN "sendBody" ELSE "receive", ~hasBody)
sendBody == Send("sendBody", "receive", TRUE)

(***************************************************************************)
(* TcpTransport::receive into the room given: the number of bytes that     *)
(* came, none when the server has closed; or an error, at once when there  *)
(* is no socket or no room, or because lwip_recv timed out or was reset.   *)
(***************************************************************************)
Rest == reply.header + reply.body - arrived

LwipRecv(room) ==
  CASE Rest > 0 -> 1 .. (IF Rest < room THEN Rest ELSE room)
    [] Rest = 0 /\ reply.closes -> {0}
    [] OTHER -> {}

StopReceiving(s) == pc' = "close" /\ status' = s

ReceiveFails(room) ==
  /\ Rest > 0 \/ ~reply.closes \/ room = 0 \/ ~socketFd
  /\ StopReceiving("RECEIVE_ERROR")
  /\ broken' = (socketFd /\ room > 0)
  /\ UNCHANGED <<length, arrived, response>>

zeroIgnored(room) ==  \* mutant: an orderly close of the server is not noticed
  \E n \in LwipRecv(room) :
    LET seen == processReceivedData(length + n)
    IN  /\ length' = length + n
        /\ arrived' = arrived + n
        /\ response' = [response EXCEPT !.body = seen.body, !.bodyLength = seen.bodyLength]
        /\ CASE seen.status = "OK" -> StopReceiving(status)
             [] seen.status = "DATA_NOT_RECEIVED" -> UNCHANGED <<pc, status>>
             [] OTHER -> StopReceiving("MALFORMED_RESPONSE")
        /\ UNCHANGED broken

(* A successful receive: the bytes are counted and parsed.                 *)
ReceiveSome(room) ==
  \E n \in LwipRecv(room) :
    LET seen == processReceivedData(length + n)
    IN  IF n = 0
        THEN StopReceiving("MALFORMED_RESPONSE") /\ UNCHANGED <<length, arrived, response, broken>>
        ELSE /\ length' = length + n
             /\ arrived' = arrived + n
             /\ response' = [response EXCEPT !.body = seen.body, !.bodyLength = seen.bodyLength]
             /\ CASE seen.status = "OK" -> StopReceiving(status)
                  [] seen.status = "DATA_NOT_RECEIVED" -> UNCHANGED <<pc, status>>
                  [] OTHER -> StopReceiving("MALFORMED_RESPONSE")
             /\ UNCHANGED broken

fullTooLate ==  \* mutant: ResponseLength is compared with the buffer's size
  /\ pc = "receive"
  /\ LET room == BufferSize - length - 1
     IN  IF length >= BufferSize
         THEN StopReceiving("RESPONSE_TOO_LONG") /\ UNCHANGED <<length, arrived, response, broken>>
         ELSE \/ room > 0 /\ socketFd /\ ReceiveSome(room)
              \/ ReceiveFails(room)
  /\ UNCHANGED <<hasBody, socketFd, lwipOpen, reply, asked>>

noRoomForNul ==  \* mutant: the whole buffer is filled
  /\ pc = "receive"
  /\ LET room == BufferSize - length
     IN  IF length >= BufferSize - 1
         THEN StopReceiving("RESPONSE_TOO_LONG") /\ UNCHANGED <<length, arrived, response, broken>>
         ELSE \/ room > 0 /\ socketFd /\ ReceiveSome(room)
              \/ ReceiveFails(room)
  /\ UNCHANGED <<hasBody, socketFd, lwipOpen, reply, asked>>

(* One turn of the loop of receiveResponse                                 *)
receiveResponse ==
  /\ pc = "receive"
  /\ LET room == BufferSize - length - 1
     IN  IF length >= BufferSize - 1
         THEN StopReceiving("RESPONSE_TOO_LONG") /\ UNCHANGED <<length, arrived, response, broken>>
         ELSE \/ room > 0 /\ socketFd /\ ReceiveSome(room)
              \/ ReceiveFails(room)
  /\ UNCHANGED <<hasBody, socketFd, lwipOpen, reply, asked>>

(* TcpTransport::close, which always succeeds; a failed request ends here. *)
close ==
  /\ pc = "close"
  /\ lwipOpen' = IF socketFd THEN lwipOpen - 1 ELSE lwipOpen
  /\ socketFd' = FALSE
  /\ IF status = "OK"
     THEN pc' = "validate" /\ UNCHANGED response
     ELSE Return(status)
  /\ UNCHANGED <<hasBody, status, length, reply, history>>

validateResponse ==
  /\ pc = "validate"
  /\ Return(IF validateHttpResponseHeaders THEN status ELSE "MALFORMED_RESPONSE")
  /\ UNCHANGED <<hasBody, status, length, socketFd, lwipOpen, reply, history>>

Request ==
  \/ prepareRequest \/ connect \/ sendHeader \/ sendBody
  \/ receiveResponse \/ close \/ validateResponse

Next == executeRequest \/ Request

Spec == Init /\ [][Next]_vars

(* Every blocking call of the transport returns: lwIP gives up connecting, *)
(* and sends and receives have a timeout (configureSocketTimeouts).        *)
FairSpec == Spec /\ WF_vars(Request)

-----------------------------------------------------------------------------
Heard == asked /\ reply.valid /\ reply.header # 0 /\ arrived >= reply.header

Result ==
  CASE pc # "idle" -> "PENDING"
    [] pc = "idle" /\ response.status \in {"NONE", "OK"} -> response.status
    [] OTHER -> "FAILED"

Upload == INSTANCE UploadService WITH result <- Result, heard <- Heard

(* The client implements the service the network task relies on: OK is     *)
(* reported only for a request that was sent whole and that the server     *)
(* answered with a whole header, on this connection and not on one before. *)
UploadSpec == Upload!Spec

(* No failure, early return or refusal leaves a socket behind, which would *)
(* use up lwIP's sockets and then fail every later request.                *)
SocketsReleased ==
  lwipOpen = IF pc \in {"sendHeader", "sendBody", "receive", "close"} THEN 1 ELSE 0

(* RECEIVE_ERROR says that the connection failed: a response that fills    *)
(* the buffer is never mistaken for it (RESPONSE_TOO_LONG), because the    *)
(* transport is never asked to receive into no room or without a socket.   *)
ReceiveErrorIsReal == (pc = "idle" /\ response.status = "RECEIVE_ERROR") => broken

(* Every request ends, with a server that answers byte by byte, too much,  *)
(* without end of header, or closes in the middle.                         *)
RequestEnds == pc # "idle" ~> pc = "idle"

(* Refuted: "No Content-Length header" (checkResponseBodyComplete) is also *)
(* where responses go that have one; their body is never given out.        *)
BodylessHasNoLength ==
  (pc = "idle" /\ response.status = "OK" /\ ~response.body) => reply.lengthAt = 0
=============================================================================
