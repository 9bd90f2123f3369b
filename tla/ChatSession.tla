---------------------------- MODULE ChatSession ----------------------------
(***************************************************************************)
(* The TCP sessions of one chat server: chat_server/chat_server.hpp and    *)
(* the dispatch and login handler of chat_server/handle_message.cpp.       *)
(*                                                                         *)
(* A session runs three coroutines (login deadline, reader, writer) on the *)
(* server's single-threaded main_io_context.  A step of this module is     *)
(* what a coroutine does between two suspensions (co_await); completions   *)
(* of different coroutines interleave freely.  Several awaits in a row     *)
(* that touch no state of this module in between are one suspension.       *)
(*                                                                         *)
(* Variables that end in an underscore are the members of the same name.   *)
(***************************************************************************)
EXTENDS Integers, Sequences, FiniteSets

CONSTANTS
    Sessions,     \* the ChatSession objects the listener will ever create
    Uids,         \* user ids with a login token or a user_login_server key
    NoUid,        \* a value of uid_ that is no user's id
    Tokens,       \* login tokens that the status server may issue
    WrongToken,   \* a token that was never issued
    NoToken,      \* the answer of a redis GET that finds no key or fails
    Garbage,      \* what the uninitialised uid_ of a fresh session may hold
    Cap,          \* capacity of channel_ (64 in the code)
    MaxRequests,  \* bound: requests that clients send, over all sessions
    MaxNotifies   \* bound: notifications that arrive from the peer server

ASSUME CapAssumption == Cap \in Nat
ASSUME UidAssumption == NoUid \notin Uids /\ Garbage \subseteq Uids \cup {NoUid}
ASSUME TokenAssumption ==
    NoToken \notin Tokens /\ WrongToken \notin Tokens \cup {NoToken}
ASSUME SessionsAssumption == IsFiniteSet(Sessions)

VARIABLES
    socket_,            \* "none" before accept, then "open", then "closed"
    participants_,      \* ChatServer::participants_
    uid_,
    is_authenticated_,
    login_deadline_,    \* the check_login_deadline coroutine
    reader,             \* where the reader coroutine is suspended
    request,            \* the message the reader is working on
    outbox,             \* channel_ and the writer coroutine
    received,           \* number of requests read, for MaxRequests
    notifies,           \* number of peer notifications, for MaxNotifies
    token,              \* redis user_token_<uid>
    login_server,       \* the uids whose redis user_login_server_<uid> names this server
    login_count,        \* this server's field of the redis login_count hash
    proven,             \* history: <<s, u>> when s presented u's current token
    farewell,           \* history: the sessions whose close_after_send frame was written
    refused             \* history: how the close_after_send frame of a session fared
                        \* in deliver(): "queued" or "dropped", "no" without one

vars == <<socket_, participants_, uid_, is_authenticated_, login_deadline_,
          reader, request, outbox, received, notifies, token, login_server,
          login_count, proven, farewell, refused>>

connection == <<socket_, participants_>>
identity == <<uid_, is_authenticated_>>
redis == <<token, login_server, login_count>>
history == <<proven, farewell, refused>>

---------------------------------------------------------------------------
(* A frame for the client: the addressee of a notification, NoUid for a    *)
(* response, and ChannelMessage::close_after_send.                         *)
Frame == [to : Uids \cup {NoUid}, close_after_send : BOOLEAN]

Response == [to |-> NoUid, close_after_send |-> FALSE]
ErrorAndClose == [to |-> NoUid, close_after_send |-> TRUE]
Notify(u) == [to |-> u, close_after_send |-> FALSE]

(* What a client may send.  "malformed": decode_header fails.  "garbled":  *)
(* a login whose body does not parse.  "invalid": an unknown message id, a *)
(* body that does not parse, or a uid that is not the session's.           *)
(* "query": a request of another handler that reaches its first await.     *)
Request == [kind : {"login"}, uid : Uids, token : Tokens \cup {WrongToken}]
           \cup [kind : {"malformed", "garbled", "invalid", "query"},
                 uid : {NoUid}, token : {NoToken}]

NoRequest == [kind |-> "malformed", uid |-> NoUid, token |-> NoToken]

(* channel_ holds what try_send buffered; the writer waits for a frame     *)
(* ("recv"), has one ("got"), is inside async_write ("write") or returned. *)
Outbox == [writer : {"recv", "got", "write", "done"},
           msg : Frame, channel_ : Seq(Frame)]

ReaderStages == {"none", "read", "ready", "token", "info", "count",
                 "lists", "query", "done"}
DeadlineStages == {"none", "waiting", "expired", "aborted", "done"}

TypeOK ==
    /\ socket_ \in [Sessions -> {"none", "open", "closed"}]
    /\ participants_ \subseteq Sessions
    /\ uid_ \in [Sessions -> Uids \cup {NoUid}]
    /\ is_authenticated_ \in [Sessions -> BOOLEAN]
    /\ login_deadline_ \in [Sessions -> DeadlineStages]
    /\ reader \in [Sessions -> ReaderStages]
    /\ request \in [Sessions -> Request]
    /\ \A s \in Sessions :
          reader[s] \in {"token", "info", "count"} => request[s].kind = "login"
    /\ outbox \in [Sessions -> Outbox]
    /\ received \in Nat
    /\ notifies \in Nat
    /\ token \in [Uids -> Tokens \cup {NoToken}]
    /\ login_server \subseteq Uids
    /\ login_count \in Nat
    /\ proven \subseteq Sessions \X Uids
    /\ farewell \subseteq Sessions
    /\ refused \in [Sessions -> {"no", "queued", "dropped"}]

(* Redis outlives the server: its keys are those of any earlier run.       *)
Init ==
    /\ socket_ = [s \in Sessions |-> "none"]
    /\ participants_ = {}
    /\ uid_ \in [Sessions -> Garbage]
    /\ is_authenticated_ = [s \in Sessions |-> FALSE]
    /\ login_deadline_ = [s \in Sessions |-> "none"]
    /\ reader = [s \in Sessions |-> "none"]
    /\ request = [s \in Sessions |-> NoRequest]
    /\ outbox = [s \in Sessions |->
                   [writer |-> "recv", msg |-> Response, channel_ |-> <<>>]]
    /\ received = 0
    /\ notifies = 0
    /\ token \in [Uids -> Tokens \cup {NoToken}]
    /\ login_server \in SUBSET Uids
    /\ login_count = 0
    /\ proven = {}
    /\ farewell = {}
    /\ refused = [s \in Sessions |-> "no"]

---------------------------------------------------------------------------
(* try_send fails: the writer does not wait and Cap frames are buffered.   *)
Full(box) == box.writer # "recv" /\ Len(box.channel_) >= Cap

(* deliver(): channel_.try_send hands the frame to a waiting writer,       *)
(* buffers it, or drops it.                                                *)
Delivered(box, frame) ==
    IF Full(box) THEN box
    ELSE IF box.writer = "recv" THEN [box EXCEPT !.writer = "got", !.msg = frame]
    ELSE [box EXCEPT !.channel_ = Append(@, frame)]

(* cancel() aborts a pending wait; a completion that is already queued     *)
(* keeps its result.                                                       *)
Cancelled(stage) == IF stage = "waiting" THEN "aborted" ELSE stage

CancelDeadline(s) ==
    login_deadline_' = [login_deadline_ EXCEPT ![s] = Cancelled(@)]

(* Mutant of stop(): the session does not leave participants_.             *)
DisconnectWithoutLeave(s) ==
    /\ socket_' = [socket_ EXCEPT ![s] = "closed"]
    /\ UNCHANGED participants_

(* stop() without its login_deadline_.cancel(), which the callers conjoin. *)
Disconnect(s) ==
    /\ socket_' = [socket_ EXCEPT ![s] = "closed"]
    /\ participants_' = participants_ \ {s}

Stop(s) == Disconnect(s) /\ CancelDeadline(s)

(* ChatServer::get_participant: participants_ is ordered by address, so    *)
(* any participant with this uid may come first.                           *)
get_participant(u) == {t \in participants_ : uid_[t] = u}

---------------------------------------------------------------------------
(* listener() and start().                                                 *)
Accept(s) ==
    /\ socket_[s] = "none"
    /\ socket_' = [socket_ EXCEPT ![s] = "open"]
    /\ participants_' = participants_ \cup {s}
    /\ login_deadline_' = [login_deadline_ EXCEPT ![s] = "waiting"]
    /\ reader' = [reader EXCEPT ![s] = "read"]
    /\ UNCHANGED <<identity, request, outbox, received, notifies, redis, history>>

(* The ten seconds are over: the completion of async_wait is queued.       *)
DeadlineExpires(s) ==
    /\ login_deadline_[s] = "waiting"
    /\ login_deadline_' = [login_deadline_ EXCEPT ![s] = "expired"]
    /\ UNCHANGED <<connection, identity, reader, request, outbox, received,
                   notifies, redis, history>>

DeadlineAborted(s) ==
    /\ login_deadline_[s] = "aborted"
    /\ login_deadline_' = [login_deadline_ EXCEPT ![s] = "done"]
    /\ UNCHANGED <<connection, identity, reader, request, outbox, received,
                   notifies, redis, history>>

(* Mutants of check_login_deadline after a real timeout.                   *)
LoginTimeoutUnguarded(s) ==
    /\ login_deadline_[s] = "expired"
    /\ login_deadline_' = [login_deadline_ EXCEPT ![s] = "done"]
    /\ Disconnect(s)
    /\ UNCHANGED <<identity, reader, request, outbox, received, notifies,
                   redis, history>>

LoginTimeoutOnlyLogs(s) ==
    /\ login_deadline_[s] = "expired"
    /\ login_deadline_' = [login_deadline_ EXCEPT ![s] = "done"]
    /\ UNCHANGED <<connection, identity, reader, request, outbox, received,
                   notifies, redis, history>>

LoginTimeout(s) ==
    /\ login_deadline_[s] = "expired"
    /\ login_deadline_' = [login_deadline_ EXCEPT ![s] = "done"]
    /\ IF is_authenticated_[s] THEN UNCHANGED connection ELSE Disconnect(s)
    /\ UNCHANGED <<identity, reader, request, outbox, received, notifies,
                   redis, history>>

---------------------------------------------------------------------------
(* reader(): a whole message has arrived.  The completion is queued, so    *)
(* the socket may be closed before the reader resumes.                     *)
Receive(s, r) ==
    /\ reader[s] = "read" /\ socket_[s] = "open"
    /\ received < MaxRequests
    /\ received' = received + 1
    /\ request' = [request EXCEPT ![s] = r]
    /\ reader' = [reader EXCEPT ![s] = "ready"]
    /\ UNCHANGED <<connection, identity, login_deadline_, outbox, notifies,
                   redis, history>>

ReaderReturns(s) ==
    /\ reader' = [reader EXCEPT ![s] = "done"]
    /\ request' = [request EXCEPT ![s] = NoRequest]

(* The client closes or resets the connection.                             *)
PeerCloses(s) ==
    /\ reader[s] = "read" /\ socket_[s] = "open"
    /\ Stop(s)
    /\ ReaderReturns(s)
    /\ UNCHANGED <<identity, outbox, received, notifies, redis, history>>

(* Mutant: the reader tries again after operation_aborted.                 *)
ReadAbortedRetries(s) ==
    /\ reader[s] = "read" /\ socket_[s] = "closed"
    /\ Stop(s)
    /\ UNCHANGED <<identity, reader, request, outbox, received, notifies,
                   redis, history>>

(* async_read on a socket that stop() closed throws; stop() runs again.    *)
ReadAborted(s) ==
    /\ reader[s] = "read" /\ socket_[s] = "closed"
    /\ Stop(s)
    /\ ReaderReturns(s)
    /\ UNCHANGED <<identity, outbox, received, notifies, redis, history>>

HeaderInvalid(s) ==
    /\ reader[s] = "ready" /\ request[s].kind = "malformed"
    /\ Stop(s)
    /\ ReaderReturns(s)
    /\ UNCHANGED <<identity, outbox, received, notifies, redis, history>>

(* The handler returns a frame: the reader delivers it and reads again.    *)
Reply(s, frame) ==
    /\ outbox' = [outbox EXCEPT ![s] = Delivered(@, frame)]
    /\ reader' = [reader EXCEPT ![s] = "read"]
    /\ request' = [request EXCEPT ![s] = NoRequest]

(* The handler returns an error frame with close_after_send.               *)
Refuse(s) ==
    /\ Reply(s, ErrorAndClose)
    /\ refused' = [refused EXCEPT ![s] =
                     IF @ = "queued" \/ ~Full(outbox[s]) THEN "queued" ELSE "dropped"]
    /\ UNCHANGED <<proven, farewell>>

(* handle_message refuses everything but a login before authentication.    *)
NotAuthenticated(s) ==
    /\ reader[s] = "ready" /\ request[s].kind \in {"invalid", "query"}
    /\ ~is_authenticated_[s]
    /\ Refuse(s)
    /\ UNCHANGED <<connection, identity, login_deadline_, received,
                   notifies, redis>>

(* An error or empty response before the handler's first await.            *)
RequestInvalid(s) ==
    /\ reader[s] = "ready" /\ request[s].kind = "invalid"
    /\ is_authenticated_[s]
    /\ Reply(s, Response)
    /\ UNCHANGED <<connection, identity, login_deadline_, received,
                   notifies, redis, history>>

(* search_user, add_friend, auth_friend or text_chat_msg up to its await.  *)
QueryStarts(s) ==
    /\ reader[s] = "ready" /\ request[s].kind = "query"
    /\ is_authenticated_[s]
    /\ reader' = [reader EXCEPT ![s] = "query"]
    /\ UNCHANGED <<connection, identity, login_deadline_, request, outbox,
                   received, notifies, redis, history>>

(* The handler's last step: a response, without a local notification.      *)
QueryAnswered(s) ==
    /\ reader[s] = "query"
    /\ Reply(s, Response)
    /\ UNCHANGED <<connection, identity, login_deadline_, received,
                   notifies, redis, history>>

(* The handler's last step when the addressee's user_login_server is this  *)
(* server: the notification, then the response.                            *)
QueryNotifies(s, u, t) ==
    /\ reader[s] = "query"
    /\ u \in login_server /\ u # uid_[s]
    /\ t \in get_participant(u)
    /\ LET notified == [outbox EXCEPT ![t] = Delivered(@, Notify(u))]
       IN  outbox' = [notified EXCEPT ![s] = Delivered(@, Response)]
    /\ reader' = [reader EXCEPT ![s] = "read"]
    /\ request' = [request EXCEPT ![s] = NoRequest]
    /\ UNCHANGED <<connection, identity, login_deadline_, received,
                   notifies, redis, history>>

(* notify_session(): the peer's rpc for a user whose login server is this. *)
PeerNotifies(u, t) ==
    /\ notifies < MaxNotifies
    /\ u \in login_server
    /\ t \in get_participant(u)
    /\ notifies' = notifies + 1
    /\ outbox' = [outbox EXCEPT ![t] = Delivered(@, Notify(u))]
    /\ UNCHANGED <<connection, identity, login_deadline_, reader, request,
                   received, redis, history>>

---------------------------------------------------------------------------
(* login(), await by await.                                                *)
LoginGarbled(s) ==
    /\ reader[s] = "ready" /\ request[s].kind = "garbled"
    /\ Refuse(s)
    /\ UNCHANGED <<connection, identity, login_deadline_, received,
                   notifies, redis>>

LoginStarts(s) ==
    /\ reader[s] = "ready" /\ request[s].kind = "login"
    /\ reader' = [reader EXCEPT ![s] = "token"]
    /\ UNCHANGED <<connection, identity, login_deadline_, request, outbox,
                   received, notifies, redis, history>>

(* Mutant: the token is looked up and not compared.                        *)
TokenExists(s) ==
    /\ reader[s] = "token"
    /\ token[request[s].uid] # NoToken
    /\ reader' = [reader EXCEPT ![s] = "info"]
    /\ proven' = IF token[request[s].uid] = request[s].token
                 THEN proven \cup {<<s, request[s].uid>>} ELSE proven
    /\ UNCHANGED <<connection, identity, login_deadline_, request, outbox,
                   received, notifies, redis, farewell, refused>>

TokenAccepted(s) ==
    /\ reader[s] = "token"
    /\ token[request[s].uid] = request[s].token
    /\ reader' = [reader EXCEPT ![s] = "info"]
    /\ proven' = proven \cup {<<s, request[s].uid>>}
    /\ UNCHANGED <<connection, identity, login_deadline_, request, outbox,
                   received, notifies, redis, farewell, refused>>

(* A missing key, a failed GET (both NoToken) or another token.            *)
TokenRejected(s) ==
    /\ reader[s] = "token"
    /\ \E answer \in {token[request[s].uid], NoToken} : answer # request[s].token
    /\ Refuse(s)
    /\ UNCHANGED <<connection, identity, login_deadline_, received,
                   notifies, redis>>

(* Mutant: the count leaves out the session that is logging in, which may  *)
(* have left already.                                                      *)
UserFoundCountsOthers(s) ==
    /\ reader[s] = "info"
    /\ login_count' \in {login_count, Cardinality(participants_) - 1}
    /\ reader' = [reader EXCEPT ![s] = "count"]
    /\ UNCHANGED <<connection, identity, login_deadline_, request, outbox,
                   received, notifies, token, login_server, history>>

(* search_user_by_type found the user: update_login_count sends the HSET,  *)
(* which may fail and is only logged then.                                 *)
UserFound(s) ==
    /\ reader[s] = "info"
    /\ login_count' \in {login_count, Cardinality(participants_)}
    /\ reader' = [reader EXCEPT ![s] = "count"]
    /\ UNCHANGED <<connection, identity, login_deadline_, request, outbox,
                   received, notifies, token, login_server, history>>

UserMissing(s) ==
    /\ reader[s] = "info"
    /\ Refuse(s)
    /\ UNCHANGED <<connection, identity, login_deadline_, received,
                   notifies, redis>>

(* A MySQL exception: handle_message answers InternalError and the         *)
(* connection stays open, whether or not the session is authenticated yet. *)
LoginThrows(s) ==
    /\ reader[s] \in {"info", "lists"}
    /\ Reply(s, Response)
    /\ UNCHANGED <<connection, identity, login_deadline_, received,
                   notifies, redis, history>>

(* set_uid, mark_authenticated, and set_user_login_server's SET, whose     *)
(* failure is ignored.                                                     *)
Authenticated(s) ==
    /\ reader[s] = "count"
    /\ uid_' = [uid_ EXCEPT ![s] = request[s].uid]
    /\ is_authenticated_' = [is_authenticated_ EXCEPT ![s] = TRUE]
    /\ CancelDeadline(s)
    /\ login_server' \in {login_server, login_server \cup {request[s].uid}}
    /\ reader' = [reader EXCEPT ![s] = "lists"]
    /\ UNCHANGED <<connection, request, outbox, received, notifies, token,
                   login_count, history>>

(* The friend lists are read; the success response.                        *)
LoginSucceeds(s) ==
    /\ reader[s] = "lists"
    /\ Reply(s, Response)
    /\ UNCHANGED <<connection, identity, login_deadline_, received,
                   notifies, redis, history>>

(* The status server stores a new token for u.                             *)
IssueToken(u, t) ==
    /\ token' = [token EXCEPT ![u] = t]
    /\ UNCHANGED <<connection, identity, login_deadline_, reader, request,
                   outbox, received, notifies, login_server, login_count, history>>

---------------------------------------------------------------------------
WriterReturns(s) ==
    outbox' = [outbox EXCEPT ![s].writer = "done", ![s].msg = Response]

(* writer(): the frame is passed to async_write.                           *)
StartWrite(s) ==
    /\ outbox[s].writer = "got" /\ socket_[s] = "open"
    /\ outbox' = [outbox EXCEPT ![s].writer = "write"]
    /\ UNCHANGED <<connection, login_deadline_, identity, reader, request,
                   received, notifies, redis, history>>

(* async_write throws: the connection broke while the frame was written,   *)
(* or stop() closed the socket before or meanwhile.                        *)
WriteFails(s) ==
    /\ \/ outbox[s].writer = "write"
       \/ outbox[s].writer = "got" /\ socket_[s] = "closed"
    /\ WriterReturns(s)
    /\ Stop(s)
    /\ UNCHANGED <<identity, reader, request, received, notifies, redis, history>>

(* channel_.async_receive takes a buffered frame or waits for one.         *)
NextFrame(box) ==
    IF box.channel_ = <<>> THEN [box EXCEPT !.writer = "recv", !.msg = Response]
    ELSE [writer |-> "got", msg |-> Head(box.channel_), channel_ |-> Tail(box.channel_)]

(* Mutant: the writer does not look at close_after_send.                   *)
WriteContinuesAlways(s) ==
    /\ outbox[s].writer = "write"
    /\ outbox' = [outbox EXCEPT ![s] = NextFrame(@)]
    /\ UNCHANGED <<connection, login_deadline_, identity, reader, request,
                   received, notifies, redis, history>>

(* async_write ends and the frame does not close the connection.           *)
WriteContinues(s) ==
    /\ outbox[s].writer = "write" /\ ~outbox[s].msg.close_after_send
    /\ outbox' = [outbox EXCEPT ![s] = NextFrame(@)]
    /\ UNCHANGED <<connection, login_deadline_, identity, reader, request,
                   received, notifies, redis, history>>

(* Mutant: the writer returns after the close frame without stop().        *)
WriteClosesWithoutStop(s) ==
    /\ outbox[s].writer = "write" /\ outbox[s].msg.close_after_send
    /\ WriterReturns(s)
    /\ farewell' = farewell \cup {s}
    /\ UNCHANGED <<connection, login_deadline_, identity, reader, request,
                   received, notifies, redis, proven, refused>>

(* close_after_send: stop() once the frame is written.                     *)
WriteCloses(s) ==
    /\ outbox[s].writer = "write" /\ outbox[s].msg.close_after_send
    /\ WriterReturns(s)
    /\ Stop(s)
    /\ farewell' = farewell \cup {s}
    /\ UNCHANGED <<identity, reader, request, received, notifies, redis,
                   proven, refused>>

---------------------------------------------------------------------------
Reader(s) ==
    \/ ReadAborted(s) \/ HeaderInvalid(s)
    \/ NotAuthenticated(s) \/ RequestInvalid(s)
    \/ QueryStarts(s) \/ QueryAnswered(s)
    \/ \E u \in Uids, t \in Sessions : QueryNotifies(s, u, t)
    \/ LoginGarbled(s) \/ LoginStarts(s)
    \/ TokenAccepted(s) \/ TokenRejected(s)
    \/ UserFound(s) \/ UserMissing(s) \/ LoginThrows(s)
    \/ Authenticated(s) \/ LoginSucceeds(s)

Writer(s) ==
    StartWrite(s) \/ WriteFails(s) \/ WriteContinues(s) \/ WriteCloses(s)

Deadline(s) ==
    DeadlineExpires(s) \/ DeadlineAborted(s) \/ LoginTimeout(s)

Environment ==
    \/ \E s \in Sessions : Accept(s) \/ PeerCloses(s)
    \/ \E s \in Sessions, r \in Request : Receive(s, r)
    \/ \E u \in Uids, t \in Sessions : PeerNotifies(u, t)
    \/ \E u \in Uids, t \in Tokens : IssueToken(u, t)

Next ==
    \/ \E s \in Sessions : Reader(s) \/ Writer(s) \/ Deadline(s)
    \/ Environment

Spec == Init /\ [][Next]_vars

(* The event loop runs every queued completion, timers expire, redis and   *)
(* MySQL answer or fail.  An async_write on an open socket has no limit in *)
(* time and a client need not read: nothing makes it end.  Nothing makes a *)
(* client connect, send or close.                                          *)
Fairness ==
    \A s \in Sessions :
        /\ WF_vars(Reader(s))
        /\ WF_vars(Deadline(s))
        /\ WF_vars(StartWrite(s))
        /\ WF_vars(socket_[s] = "closed" /\ WriteFails(s))

LiveSpec == Spec /\ Fairness

---------------------------------------------------------------------------
(* participants_ are exactly the sessions with an open socket, whichever   *)
(* of deadline, reader and writer stops a session and in which order:      *)
(* login_count and get_participant count and find live connections only.   *)
ParticipantsAreConnected ==
    participants_ = {s \in Sessions : socket_[s] = "open"}

(* An authenticated session carries a uid whose token it presented, also   *)
(* after further logins on the same connection, accepted or refused.       *)
AuthenticatedAsProven ==
    \A s \in Sessions : is_authenticated_[s] => <<s, uid_[s]>> \in proven

(* A request other than login is only worked on, await after await, for a  *)
(* session whose uid_, against which the handlers check the request, is    *)
(* one whose token it presented.                                           *)
ServedAsProven ==
    \A s \in Sessions : reader[s] = "query" => <<s, uid_[s]>> \in proven

(* The frame with close_after_send is the last one a client gets: once it  *)
(* is written the connection is closed and the writer has returned.        *)
CloseFrameIsLast ==
    \A s \in farewell : socket_[s] = "closed" /\ outbox[s].writer = "done"

(* The login deadline never closes a session that logged in, even when the *)
(* timer expired, its completion still queued, before mark_authenticated   *)
(* cancelled it.                                                           *)
DeadlineSparesAuthenticated ==
    [][\A s \in Sessions :
          login_deadline_[s] = "expired" /\ login_deadline_'[s] = "done"
          /\ is_authenticated_[s] => socket_'[s] = socket_[s]]_vars

(* The frames of s that are not written yet.                               *)
Queued(s) ==
    {outbox[s].channel_[i] : i \in 1..Len(outbox[s].channel_)}
    \cup (IF outbox[s].writer = "recv" THEN {} ELSE {outbox[s].msg})

(* README.md:140: a message for a user who is offline is dropped, so a     *)
(* notification only ever enters the channel of a session that logged in   *)
(* as its addressee.  Fails when the uninitialised uid_ of a connection    *)
(* that never logged in happens to hold the addressee's id.                *)
NotifiedAreLoggedIn ==
    \A s \in Sessions, u \in Uids :
        Notify(u) \in Queued(s) => <<s, u>> \in proven

(* A connection that does not log in is closed.                            *)
LoginOrClosed ==
    \A s \in Sessions :
        socket_[s] = "open" /\ ~is_authenticated_[s]
            ~> socket_[s] = "closed" \/ is_authenticated_[s]

(* A connection that was told it is closed stays open only as long as that *)
(* frame waits for the writer, unless deliver() dropped the frame: no      *)
(* later frame, write or stop() of another coroutine makes the server      *)
(* forget the refusal.                                                     *)
RefusalKept ==
    \A s \in Sessions :
        refused[s] = "queued" =>
            socket_[s] = "closed" \/ ErrorAndClose \in Queued(s)

(* An error frame with close_after_send that reached the channel closes    *)
(* the connection, unless the client never reads again: async_write has no *)
(* limit in time.                                                          *)
CloseFrameCloses ==
    \A s \in Sessions :
        ErrorAndClose \in Queued(s)
            ~> socket_[s] = "closed" \/ [](outbox[s].writer = "write")

(* README.md:141: a connection whose login is refused is closed.  Fails    *)
(* even for a client that reads on: the close frame of a second login on   *)
(* an authenticated connection is dropped while the channel is full, and   *)
(* neither the handler nor the deadline closes the connection then.        *)
RefusedIsClosed ==
    \A s \in Sessions :
        refused[s] # "no"
            ~> socket_[s] = "closed" \/ [](outbox[s].writer = "write")

(* Once a session is stopped its reader and its deadline coroutine return, *)
(* also from the middle of a handler, and its writer returns or sleeps     *)
(* in async_receive: stop() does not close channel_, and nothing else may  *)
(* keep a coroutine of a dead session busy.                                *)
StoppedSessionEnds ==
    \A s \in Sessions :
        socket_[s] = "closed" ~>
            /\ reader[s] = "done" /\ login_deadline_[s] = "done"
            /\ outbox[s].writer \in {"recv", "done"}
===========================================================================
