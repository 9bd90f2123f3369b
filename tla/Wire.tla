---------------------------------- MODULE Wire ----------------------------------
(***************************************************************************)
(* The frames of one TCP connection between a client (chat_client/main.cpp,*)
(* tests/) and the reader of a chat session (chat_server/chat_server.hpp): *)
(* their encoding (chat_server/msg_node.hpp), the length checks at both    *)
(* ends, the dispatch by message id (chat_server/handle_message.cpp,       *)
(* message_common.hpp), and which answer belongs to which request.         *)
(*                                                                         *)
(* A stream is a sequence of units: a header, which stands for its         *)
(* PREFIX_LEN bytes, or one byte of a body.  An async_read or read takes   *)
(* what it asked for once that much has arrived.  TCP keeps the order.     *)
(* The channel, the writer and the awaits of the handlers are ChatSession's*)
(* and are left out here, but for what they do to the stream: an answer    *)
(* goes to it at once, or is dropped because the channel is full of frames *)
(* that the client has not read.                                           *)
(***************************************************************************)
EXTENDS Integers, SequencesExt

CONSTANTS
    MAX_LENGTH,     \* 1024 in the code
    LengthRange,    \* 2^16: body lengths that HEAD_LEN bytes can carry
    EnumRange,      \* 2^16: ids that the underlying type of MessageId can hold
    LoginRequest, LoginResponse,    \* the members of MessageId that matter
    OtherRequest, OtherResponse,    \* search_user .. text_chat_msg
    Notification, InvalidRequest,   \* NotifyXxx, and the member without handler
    UnknownId,      \* an id that is no member
    Cap,            \* 64: frames that channel_ holds
    Burst,          \* requests a client sends ahead of their answers
    MaxSends,       \* bound: requests sent
    MaxNotifies     \* bound: notifications

MessageId == {LoginRequest, LoginResponse, OtherRequest, OtherResponse,
              Notification, InvalidRequest}

(* The ids that a reader tells apart: a login, another request, an id      *)
(* without handler, and one with bits above the range of MessageId.        *)
RequestIds == {LoginRequest, OtherRequest, UnknownId, EnumRange + OtherRequest}
Ids == MessageId \cup RequestIds

ASSUME WireAssumption ==
    /\ MAX_LENGTH \in Nat \ {0} /\ LengthRange \in Nat /\ MAX_LENGTH < LengthRange
    /\ EnumRange \in Nat /\ MessageId \cup {UnknownId} \subseteq 0..(EnumRange - 1)
    /\ UnknownId \notin MessageId /\ LoginRequest # OtherRequest
    /\ Cap \in Nat \ {0} /\ Burst \in Nat \ {0} /\ MaxSends \in Nat /\ MaxNotifies \in Nat

VARIABLES
    c2s, s2c,       \* the streams
    socket_,        \* "open", or "closed" by the server's stop()
    client,         \* "runs", or "ended"
    reader,         \* what the reader coroutine does
    read_msg,       \* id and body_length of the message it reads
    is_authenticated_,
    sends, got,     \* numbers of requests sent and of frames received
    notified,       \* number of notifications, for MaxNotifies
    requests,       \* history: the ids sent and not answered, of an honest client
    said,           \* history: the messages given to MsgNode and not received
    dropped,        \* history: deliver() dropped an answer
    honest          \* history: every header told the length of its body

vars == <<c2s, s2c, socket_, client, reader, read_msg, is_authenticated_,
          sends, got, notified, requests, said, dropped, honest>>
answering == <<s2c, requests, said, dropped>>
peer == <<client, sends, got, honest>>

---------------------------------------------------------------------------
(* MsgNode.                                                                *)

(* A unit of the server names the message it belongs to, for FramesIntact. *)
Header(id, length, of) == [id |-> id, length |-> length, of |-> of]
Byte(of) == [id |-> -1, length |-> 0, of |-> of]
Body(length, of) == [i \in 1..length |-> Byte(of)]

(* set_body_length leaves body_length_, which is 0 in a new node, when the *)
(* body is too long.                                                       *)
set_body_length(length) == IF length > MAX_LENGTH THEN 0 ELSE length

(* encode_header narrows body_length_ to HEAD_LEN bytes.                   *)
encode_header(id, body_length, of) == Header(id, body_length % LengthRange, of)

(* Mutant: the header is written before the body is cut.                   *)
MsgNodeCuts(id, length, of) ==
    <<encode_header(id, set_body_length(length), of)>>
        \o Body(IF length > MAX_LENGTH THEN MAX_LENGTH ELSE length, of)

(* MsgNode(id, body): the refusal of set_body_length is not looked at.     *)
MsgNode(id, length, of) ==
    LET body_length == set_body_length(length)
    IN  <<encode_header(id, body_length, of)>> \o Body(body_length, of)

(* Mutant: any length is accepted.                                         *)
decode_header_unchecked(unit) ==
    IF unit.id # -1 THEN {[ok |-> TRUE, id |-> unit.id, length |-> unit.length]}
    ELSE [ok : {TRUE}, id : RequestIds, length : 0..(LengthRange - 1)]

(* decode_header on the next PREFIX_LEN bytes.  Bytes of a body that are   *)
(* taken for a header can mean anything.                                   *)
decode_header(unit) ==
    LET decoded(id, length) ==
            [ok |-> length <= MAX_LENGTH, id |-> id,
             length |-> set_body_length(length)]
    IN  IF unit.id # -1 THEN {decoded(unit.id, unit.length)}
        ELSE {decoded(id, length) : id \in RequestIds, length \in 0..(LengthRange - 1)}

---------------------------------------------------------------------------
NoRequest == -1
NewMessage == [id |-> 0, length |-> 0]
Message == [id : Ids, text : Nat, answers : Ids \cup {NoRequest}]
Unit == [id : Ids \cup {-1}, length : 0..(LengthRange - 1), of : Nat]

(* Nothing is ever read past the end of data_.                             *)
TypeOK ==
    /\ c2s \in Seq(Unit) /\ s2c \in Seq(Unit)
    /\ socket_ \in {"open", "closed"}
    /\ client \in {"runs", "ended"}
    /\ reader \in {"prefix", "body", "handle", "done"}
    /\ reader = "done" <=> socket_ = "closed"
    /\ read_msg \in [id : Ids \cup {0}, length : 0..MAX_LENGTH]
    /\ is_authenticated_ \in BOOLEAN /\ honest \in BOOLEAN /\ dropped \in BOOLEAN
    /\ sends \in Nat /\ got \in Nat /\ notified \in Nat
    /\ requests \in Seq(Ids)
    /\ said \in Seq(Message)

Init ==
    /\ c2s = <<>> /\ s2c = <<>>
    /\ socket_ = "open" /\ client = "runs"
    /\ reader = "prefix" /\ read_msg = NewMessage
    /\ is_authenticated_ = FALSE
    /\ sends = 0 /\ got = 0 /\ notified = 0
    /\ requests = <<>> /\ said = <<>> /\ dropped = FALSE /\ honest = TRUE

---------------------------------------------------------------------------
(* The client.  chat_client sends a line and receives one frame before it  *)
(* sends the next (Burst = 1); the tests send several at once.             *)
MaySend == client = "runs" /\ sends < MaxSends /\ sends - got < Burst

Send(id, length, bytes) ==
    /\ c2s' = c2s \o <<encode_header(id, length, 0)>> \o Body(bytes, 0)
    /\ sends' = sends + 1
    /\ requests' = IF honest' THEN Append(requests, id) ELSE <<>>
    /\ UNCHANGED <<s2c, socket_, client, reader, read_msg, is_authenticated_,
                   got, notified, said, dropped>>

(* send_message.                                                           *)
send_message(id, length) ==
    /\ MaySend /\ length <= MAX_LENGTH
    /\ UNCHANGED honest
    /\ Send(id, length, length)

(* A client of another make: its header announces another length (once,    *)
(* for the size of the model).                                             *)
SendsMisleadingHeader(id, length, bytes) ==
    /\ MaySend /\ length # bytes /\ honest
    /\ honest' = FALSE
    /\ Send(id, length, bytes)

(* What was to be read is lost.                                            *)
Leaves == client' = "ended" /\ s2c' = <<>> /\ said' = <<>> /\ requests' = <<>>

(* The client leaves the loop: a line too long for set_body_length, the    *)
(* end of its input, or an error that the closed connection reports, also  *)
(* before all that the server sent has been read.                          *)
Ends ==
    /\ client = "runs"
    /\ Leaves
    /\ UNCHANGED <<c2s, socket_, reader, read_msg, is_authenticated_, sends, got,
                   notified, dropped, honest>>

(* recv_and_print: what it prints, for a header it accepts, and the units  *)
(* that this takes off the stream.                                         *)
received(header) ==
    [id |-> header.id, length |-> header.length,
     of |-> {s2c[i].of : i \in 1..(header.length + 1)}]

recv_and_print ==
    /\ client = "runs" /\ got < sends /\ s2c # <<>>
    /\ \E header \in decode_header(Head(s2c)) :
          \/ ~header.ok /\ Leaves /\ UNCHANGED got
          \/ /\ header.ok /\ Len(s2c) > header.length
             /\ s2c' = SubSeq(s2c, header.length + 2, Len(s2c))
             /\ said' = Tail(said) /\ got' = got + 1
             /\ UNCHANGED <<client, requests>>
    /\ UNCHANGED <<c2s, socket_, reader, read_msg, is_authenticated_, sends,
                   notified, dropped, honest>>

---------------------------------------------------------------------------
(* The server.  What the client has sent and nobody has read is lost.      *)
Stop ==
    /\ socket_' = "closed" /\ reader' = "done" /\ read_msg' = NewMessage
    /\ c2s' = <<>>

ReadPrefix ==
    /\ reader = "prefix" /\ c2s # <<>>
    /\ \E header \in decode_header(Head(c2s)) :
          IF ~header.ok THEN Stop
          ELSE /\ c2s' = Tail(c2s)
               /\ read_msg' = [id |-> header.id, length |-> header.length]
               /\ reader' = "body" /\ UNCHANGED socket_
    /\ UNCHANGED <<answering, is_authenticated_, notified, peer>>

(* Mutant: async_read_some, which does not complete without a byte.        *)
ReadBodySome ==
    /\ reader = "body" /\ c2s # <<>> /\ Len(c2s) >= read_msg.length
    /\ c2s' = SubSeq(c2s, read_msg.length + 1, Len(c2s))
    /\ reader' = "handle"
    /\ UNCHANGED <<answering, socket_, read_msg, is_authenticated_, notified, peer>>

(* Mutant: the body of a message without handler is not read.              *)
ReadBodyIfKnown ==
    /\ reader = "body" /\ Len(c2s) >= read_msg.length
    /\ c2s' = IF read_msg.id \in {LoginRequest, OtherRequest}
              THEN SubSeq(c2s, read_msg.length + 1, Len(c2s)) ELSE c2s
    /\ reader' = "handle"
    /\ UNCHANGED <<answering, socket_, read_msg, is_authenticated_, notified, peer>>

ReadBody ==
    /\ reader = "body" /\ Len(c2s) >= read_msg.length
    /\ c2s' = SubSeq(c2s, read_msg.length + 1, Len(c2s))
    /\ reader' = "handle"
    /\ UNCHANGED <<answering, socket_, read_msg, is_authenticated_, notified, peer>>

(* The client is gone: async_read throws.                                  *)
ReadFails ==
    /\ client = "ended" /\ reader \in {"prefix", "body"}
    /\ Stop
    /\ UNCHANGED <<answering, is_authenticated_, notified, peer>>

(* deliver() and the writer, whose bytes a client that ended does not get. *)
(* try_send fails only if Cap frames wait, none of which has been read.    *)
Deliver(id, text, answers, ok) ==
    /\ ok \/ Len(said) >= Cap
    /\ IF ok /\ client = "runs"
       THEN /\ said' = Append(said, [id |-> id, text |-> text, answers |-> answers])
            /\ s2c' = s2c \o MsgNode(id, text, got + Len(said'))
       ELSE UNCHANGED <<s2c, said>>

(* The answer to the oldest request, if requests and messages agree.       *)
Reply(id, text, ok) ==
    /\ IF requests = <<>> THEN Deliver(id, text, NoRequest, ok) /\ UNCHANGED requests
       ELSE Deliver(id, text, Head(requests), ok) /\ requests' = Tail(requests)
    /\ dropped' = (dropped \/ ~ok)

(* The reader's loop: the next message.                                    *)
Continue ==
    /\ reader' = "prefix" /\ read_msg' = NewMessage
    /\ UNCHANGED <<c2s, socket_>>

(* The JSON of an envelope; that of a login or search result may be longer *)
(* than a frame.                                                           *)
Envelope == 1
Texts == {Envelope, MAX_LENGTH + 1}

(* enum_cast takes the id as the underlying type of MessageId.             *)
enum_cast(id) == id % EnumRange

get_response_id(id) ==
    CASE id = LoginRequest -> LoginResponse
      [] id = OtherRequest -> OtherResponse
      [] OTHER -> InvalidRequest

(* Anything but a login, and login() itself when it refuses: an error with *)
(* the request's or the response's id.  The writer closes the connection   *)
(* once it has sent that frame, and so not at all if the frame is dropped. *)
HandleRefused ==
    /\ reader = "handle"
    /\ \E ok \in BOOLEAN :
          /\ \/ ~is_authenticated_ /\ read_msg.id # LoginRequest
                /\ Reply(read_msg.id, Envelope, ok)
             \/ enum_cast(read_msg.id) = LoginRequest
                /\ (is_authenticated_ \/ read_msg.id = LoginRequest)
                /\ \E id \in {read_msg.id, LoginResponse} : Reply(id, Envelope, ok)
          /\ IF ok THEN Stop ELSE Continue
    /\ UNCHANGED <<is_authenticated_, notified, peer>>

(* empty_response: no member of MessageId, or none with a handler.         *)
HandleUnknown ==
    /\ reader = "handle" /\ is_authenticated_
    /\ enum_cast(read_msg.id) \notin {LoginRequest, OtherRequest}
    /\ \E ok \in BOOLEAN : Reply(read_msg.id, 0, ok)
    /\ Continue
    /\ UNCHANGED <<is_authenticated_, notified, peer>>

(* The answer of a handler: its result, an error, or InternalError for an  *)
(* exception, before or after login() has marked the session.              *)
HandleRequest ==
    LET id == enum_cast(read_msg.id) IN
    /\ reader = "handle" /\ id \in {LoginRequest, OtherRequest}
    /\ is_authenticated_ \/ read_msg.id = LoginRequest
    /\ \E text \in Texts, ok \in BOOLEAN : Reply(get_response_id(id), text, ok)
    /\ is_authenticated_' \in {is_authenticated_, id = LoginRequest \/ is_authenticated_}
    /\ Continue
    /\ UNCHANGED <<notified, peer>>

(* RPCFailed carries the id of the request.                                *)
HandleRpcFailed ==
    /\ reader = "handle" /\ is_authenticated_
    /\ enum_cast(read_msg.id) = OtherRequest
    /\ \E ok \in BOOLEAN : Reply(read_msg.id, Envelope, ok)
    /\ Continue
    /\ UNCHANGED <<is_authenticated_, notified, peer>>

(* A notification.  Its JSON may be longer than that of its request.       *)
Notify ==
    /\ socket_ = "open" /\ is_authenticated_ /\ notified < MaxNotifies
    /\ \E text \in Texts, ok \in BOOLEAN :
          Deliver(Notification, text, Notification, ok)
    /\ notified' = notified + 1
    /\ UNCHANGED <<c2s, socket_, reader, read_msg, is_authenticated_, requests,
                   dropped, peer>>

(* The login deadline.                                                     *)
LoginTimeout ==
    /\ socket_ = "open" /\ ~is_authenticated_
    /\ Stop
    /\ UNCHANGED <<answering, is_authenticated_, notified, peer>>

---------------------------------------------------------------------------
Reader == ReadPrefix \/ ReadBody \/ ReadFails
Handler == HandleRefused \/ HandleUnknown \/ HandleRequest \/ HandleRpcFailed

Next ==
    \/ \E id \in RequestIds, length \in 0..MAX_LENGTH : send_message(id, length)
    \/ \E length, bytes \in 0..(MAX_LENGTH + 1) :
          SendsMisleadingHeader(OtherRequest, length, bytes)
    \/ recv_and_print \/ Ends
    \/ Reader \/ Handler \/ Notify \/ LoginTimeout

Spec == Init /\ [][Next]_vars

(* The reader goes on, and the client reads what it waits for, or learns   *)
(* that the connection is closed.  A handler in a synchronous stub without *)
(* a deadline may not return (ChatCluster).                                *)
Fairness ==
    /\ WF_vars(Reader) /\ WF_vars(LoginTimeout)
    /\ WF_vars(recv_and_print) /\ WF_vars(Ends /\ socket_ = "closed")
LiveSpec == Spec /\ Fairness

---------------------------------------------------------------------------
(* What a client reads next is the oldest message of the server that it    *)
(* has not read, with its id and its own body: all of it, or none when it  *)
(* exceeds MAX_LENGTH (the constructor of MsgNode goes on after            *)
(* set_body_length refused), never a part of it or bytes of another.       *)
FramesIntact ==
    /\ said = <<>> <=> s2c = <<>>
    /\ said # <<>> => LET message == Head(said) IN
          \A header \in decode_header(Head(s2c)) :
             /\ header.ok /\ header.length < Len(s2c)
             /\ received(header) = [id |-> message.id, of |-> {got + 1},
                                    length |-> set_body_length(message.text)]

(* msg_node.hpp:19: the k-th answer that the server makes is for the k-th   *)
(* request, whether deliver() then sends or drops it: every answer on the  *)
(* stream has the id of its own request or the one that belongs to it,     *)
(* also for bursts, unknown ids, ids beyond the range of MessageId and     *)
(* bodies of any length, if the headers are honest.                        *)
AnswersPaired ==
    honest =>
        \A i \in DOMAIN said : LET request == said[i].answers IN
            /\ request # NoRequest
            /\ said[i].id \in {request, get_response_id(enum_cast(request))}

(* tests/TEST_PLAN.md:132: a burst of requests is answered completely.     *)
(* deliver() drops an answer when Cap of them wait for the writer.         *)
BurstAnswered == honest => ~dropped

(* A client that waits gets a frame or the end of the connection, unless   *)
(* an answer was dropped, a handler does not return, or the client's       *)
(* headers have misled the server, which waits for more.                   *)
WaitsForMore ==
    ~honest /\ \/ reader = "prefix" /\ c2s = <<>>
               \/ reader = "body" /\ Len(c2s) < read_msg.length
AnswersUnlessMisled ==
    \A k \in 1..MaxSends :
        client = "runs" /\ got < k /\ k <= sends
            ~> \/ client = "ended" \/ got >= k
               \/ WaitsForMore \/ dropped \/ [](reader = "handle")

(* tests/TEST_PLAN.md:130: a server that was announced more than is sent   *)
(* handles it after a timeout and does not hang for ever.  Only sessions   *)
(* that have not logged in have a deadline.                                *)
BodyReadEnds == reader = "body" ~> reader # "body"
================================================================================
