# A TLA+ model of chat_project

chat_project is a chat system of four C++ servers: a gate (HTTP accounts), a
verify server (mail codes), a status server (login tokens and the choice of a
chat server) and two chat servers (TCP sessions), over redis and MySQL. The
modules here model what these servers do to their shared and private state,
TLC checks them on small instances, and TLAPS proves their safety properties
for every value of their constants. Source paths below are relative to `src/`.

## 1. The system

| Component | State | Operations | Interacts with |
|---|---|---|---|
| Chat session, `chat_server/chat_server.hpp`, `handle_message.cpp` | socket, `uid_`, `is_authenticated_`, `login_deadline_`, `channel_` (64 frames), `participants_` | accept, login deadline (10 s), reader, writer, deliver, stop, login | redis (`user_token_*`, `user_login_server_*`, `login_count`), MySQL |
| Chat routing, `handle_message.cpp`, `chat_server/grpc_service.hpp` | requests in progress, outstanding rpc, notify coroutines | add_friend, auth_friend, text_chat_msg, NotifyXxx | redis, local sessions, the peer chat server |
| Friend tables, `chat_server/friend_repo.hpp`, `sql/friend.sql` | `friend_apply`, `friend` | add_friend_apply, auth_friend_apply, two list reads | pooled MySQL connections |
| User info cache, `handle_message.cpp`, `chat_server/user_repo.hpp` | `user_info_*`, `user_name_*` in redis | search_user | redis, MySQL |
| Frames, `chat_server/msg_node.hpp`, `chat_client/main.cpp` | header and 1024 bytes of body, TCP streams | encode, decode, send, receive | sessions, clients |
| Gate handlers, `gate_server/dispatcher.cpp`, `user_repo.hpp` | table `user` | get_verify_code, user_register, reset_password, user_login | redis, MySQL, verify, status (blocking stubs) |
| Gate HTTP server, `server.cpp`, `http_connection.cpp`, `context_pool.hpp` | sessions, four pool threads, per-request timer | accept, keep-alive, 30 s limit, stop | handlers |
| Verify server, `verify_server/grpc_service.hpp`, `main.cpp` | code of an email in redis (600 s) | GetVerifyCode, shutdown | redis, mail client |
| Mail client, `verify_server/mail_client.hpp` | `queue_`, `stop_`, worker thread | send_mail, worker loop, destructor | `/usr/bin/mail` |
| Status server, `status_server/grpc_service.hpp` | `user_token_<uid>` and `login_count` in redis | GetChatServer, Login, get_server_index | redis |
| Redis client, `common/redis_client.cpp` | one connection | get, set, set_expired, hset, hgetall | redis |

What is hard about it, and the source of the properties:

* **Coroutines on one thread.** Nothing runs in parallel inside a chat server,
  the status server or the gate's handlers, but every `co_await` lets any other
  coroutine run. State is read before an await and used after it throughout
  `login()` and the routing handlers.
* **Blocking calls on that thread.** The chat servers call each other and the
  gate calls verify and status by synchronous stubs without a deadline. While
  one is outstanding the whole server stands still, its timers included.
* **Bounded, lossy channels.** `deliver` drops what does not fit.
* **Partial failure.** redis or MySQL fail, before or after the statement ran;
  rpc connections break before or after the peer acted; a multi-statement
  transaction stops in the middle and its connection is pooled again.
* **Stale entries.** `user_login_server_*`, `login_count`, tokens and the user
  info cache outlive what they describe.
* **Threads.** The mail worker and its condition variable; the gate's pool
  threads; shutdown by a signal handler that blocks the event loop.
* **Crashes.** A chat server that is killed leaves its entries in redis, a caller
  in the middle of a call, and nothing of its own requests.

For each component, what makes it correct:

* sessions: only an authenticated session is served, under a uid it proved; a
  connection that does not log in ends; an error that closes, closes, and is
  the last frame; `participants_` are the open connections;
* routing: order and at-most-once delivery; success means that an addressee who
  was reachable gets the message; no server hangs, and one that is told to stop
  ends;
* friend tables: friendship is mutual, durable when reported, recorded
  together with the request's status, and needs a request;
* accounts: a code or token that was given out works; only who presents a code
  for the email sets a password; each request is answered;
* verify and mail: each queued mail is handed over once, in order, and the
  process can end;
* frames: a frame arrives whole or empty, every request is answered and the
  answer belongs to it, and no read waits for ever;
* balance: the numbers the status server compares are right at rest, and logins
  are spread;
* gate: `sessions_` keeps alive exactly the connections that run, a client that
  does nothing cannot keep one, and `stop()` ends.

## 2. The modules

| Module | Models | Implements | Proofs |
|---|---|---|---|
| `ChatSession` | sessions of one chat server | | `ChatSessionProofs` |
| `ChatCluster` | two chat servers that route notifications, killed and restarted | | `ChatClusterProofs` |
| `Wire` | frames, ids and answers between a client and a reader | | `WireProofs` |
| `Balance` | `login_count` from the chat servers to the status server | | `BalanceProofs` |
| `FriendRepo` | the friend tables under concurrent statements | `FriendGraph` | `FriendRepoProofs` |
| `Accounts` | gate handlers with verify, status, redis, table `user` | | `AccountsProofs` |
| `Gate` | accept, connections, pool and `stop()` of the gate | | `GateProofs` |
| `VerifyServer` | threads of the verify server and its mail client | `MailQueue` | `VerifyServerProofs` |

`MCChatSession`, `MCChatCluster` and `MCBalance` give constants that a
configuration file cannot write (the garbage in `uid_`, the symmetry sets, the
peer function, the order of the configured servers). `MCAccounts` starts `Accounts`
at the moment when a first request has been answered. The other modules are run as
they are.

Each module carries a few definitions marked *Mutant* in their comments: plausible
bugs in the operator that follows them. `PROJECT.json` pairs each checked
property with one that breaks it. They are not part of `Next`.

The modules cut the system where its parts share little. `ChatSession` ends at the
response of a handler, whose routing is `ChatCluster`; the frames that
`ChatSession` counts are `Wire`'s; the handlers that `Gate` calls are `Accounts`'.
What two of them share is modelled in both from the same lines: redis tokens
(`Accounts` writes, `ChatSession` reads), `login_count` (`ChatSession` writes it as
one step of `login()`, `Balance` follows it to the status server), and the blocking
stub (`Accounts` and `Gate`).

### ChatSession

A session is three coroutines. A step is what one of them does between two
suspensions. `reader[s]` names where the reader is suspended: `read` (in
`async_read`), `ready` (a message is complete, its completion queued), `token`,
`info`, `count`, `lists` (the awaits of `login()`), `query` (an await of another
handler), `done`. `login_deadline_[s]` is `waiting`, `expired` or `aborted` (the
completion is queued) or `done`: `cancel()` only reaches a timer that still
waits, which is the race of `DeadlineSparesAuthenticated`. `outbox[s]` joins
`channel_` with the writer; `Delivered` is `try_send` (hand over, buffer, or
drop) and `NextFrame` is `async_receive`. `refused[s]` is history: how the close
frame of a refusal (`Refuse`) fared in `deliver`.

`Disconnect` is `stop()` without the timer; `Stop` adds the timer. `stop()`
leaves `channel_` alone, so a writer in `recv` stays there until some frame
comes: `StoppedSessionEnds` promises an end for the deadline and the reader, and
for a writer that has a frame, and allows the sleeping one. A closed socket aborts a pending read, but a
message that is already complete is still handled, as is a login in the middle of
its awaits.

Data: a frame is its addressee and `close_after_send`. Requests fall into the
classes the dispatch distinguishes. Of `login()` the redis GET, the user lookup,
the HSET with `participant_count()`, the SET and the two list reads are separate
suspensions, each with its failure. Redis starts with any content, since it
outlives the server. `uid_` starts with anything in `Garbage`: the member has no
initialiser. Its value is chosen once per session, which is one of the outcomes
the build can have.

### ChatCluster

One `main_io_context` thread per server: every action of server `n` that runs
there has the guard `LoopRuns(n)`, false while `call[n]` is outstanding or the
signal handler is in `Shutdown()` (`stopping[n]`). The three handlers share one
shape: GET `user_login_server`, then nothing, local `get_participant`, or the
peer's rpc. They differ in database steps, which are inside the suspensions
`lookup` and `route` and fail in `HandlerFails`. An rpc is on the wire, posted as
a coroutine on the peer's `io_context` by a gRPC thread, then replied to;
`CallBreaks` ends it for the caller at any of these points and leaves a posted
coroutine where it is.

`Crash` kills a server at any point, also in a call or in `Shutdown()`; `Signal`
tells it to stop, and `Exit` ends it when no posted coroutine is left. Either way
it starts again without sessions, handlers and posted coroutines (`Restart`),
redis keeps naming it, and a call to it is `lost`, which its caller only learns
when the connection fails. The server that comes back has the old one's name.

`DeliverAt` is `get_participant` and `deliver`: it finds a session of the addressee
or, if `FreshUids` has that id, a connection without a login whose uninitialised
`uid_` holds it, and `deliver` buffers the message or drops it. The channel itself is
`ChatSession`'s; here it may be full at any time, of answers and notifications that
this module does not have. The sessions of a user on one server are one, and a user
does not log in again on a server where its earlier request is still in progress.
`handed`, `lost` and the `reachable` field of a request are history, for the
properties.

### Wire

One connection, its two byte streams, and the frame format at both ends. A unit of
a stream is a header or one byte of a body, so that a wrong length shifts what is
read: `decode_header` of a body byte may mean anything. `MsgNode` goes on after
`set_body_length` has refused a body above `MAX_LENGTH`, which gives a frame with an
empty body; `encode_header` narrows the length to 16 bits (`LengthRange`) and
`enum_cast` the id to the enum's type (`EnumRange`). `client` is `chat_client`
(one frame sent, one received) or, with `Burst` above 1, a test that sends ahead;
`SendsMisleadingHeader` is one whose header announces another length. The
handlers are the answers they may give: the response's id, the request's id (a
failed rpc, a refusal), an empty answer (no handler), each in order, with or
without `close_after_send`. Suspensions and the writer are left to `ChatSession`, but
an answer goes to the stream or is dropped: `Deliver` may drop it when the client has
at least `Cap` frames unread. `said`, `requests`, `dropped` and `honest` are history.

### Balance

`client[c]` is a user between the gate's call of GetChatServer and its place in
`participants_` of the chosen server. The count is read when the HSET is sent, and
the HSETs of one server wait in `hset[n]` for redis, which executes them in order:
the client has one connection. `get_server_index` is the code's choice: the first
configured server when the hash is empty or its read failed, otherwise the least
count with absent fields as 0 and unknown names skipped, ties by the order of the
`std::map`. Redis starts with numbers of an earlier run and a retired name.
Sessions leave and servers restart without a word to redis.

### FriendRepo and FriendGraph

`add_friend_apply` is one statement. `auth_friend_apply` sends five at once
(START TRANSACTION, UPDATE, two INSERT IGNORE, COMMIT), and each is a step that
takes row locks. Failure points: a statement fails and leaves the transaction
open, the server rolls back, or the connection is lost after COMMIT. A failed
call's connection is reset before its next use (boost::mysql's pool), a
successful one's is returned without reset. MySQL is modelled as committed
tables plus the uncommitted writes of each connection. The two list queries
read only.

`FriendGraph` is what the handlers rely on: a request is stored, or two users
become friends on both sides, at one moment, and a caller that is told so is told
the truth. The refinement maps the committed tables to it; the uncommitted writes
do not show. Its parameter `Guarded` adds the precondition of `tests/TEST_PLAN.md`,
that an authentication needs the request of the other side. The code implements the
graph without it (`ImplementsFriendGraph`) and not the one with it
(`ImplementsContract`, section 4). User ids are abstract; the range of the INT
columns is not modelled.

### Accounts

`http[r]` is an HTTP request and the coroutine that handles it; `remote[r]` is
the coroutine in verify or status that the request caused. `GateRuns` is false
while a stub call is outstanding. A code or token is the number of the request
that created it, since both are fresh UUIDs, and a client presents none before it
exists (`Presentable`). A user's name stands for its id and for the key of its token,
`user_token_<uid>`. The key of a code is the email itself
(`verify_server/grpc_service.hpp:21` has no prefix) and nothing checks what an email
looks like, so `Emails` and `Names` may share values, and then a code and a token live
under one key: each may be answered for the other, and a write of one replaces the
other. Redis compares keys exactly, the table `user` by its collation: `Same` is
equality up to the `Spellings` that the collation does not tell apart. A login
continues with the name as the row has it. `Fails` covers errors and the 30 s cancellation, before or after the statement ran.
`SetFails`, `RpcBreaks` and a GET that fails (and is taken for a miss) put their
key into `failed`, for which the two "shown" properties claim nothing.

### Gate

`conn[c]` is where the coroutine of a connection is, `op[c]` its read or write:
pending, or completed by a thread of the pool with its completion queued for the
main thread. `thread[c]` is the pool's thread that owns the socket, by the round
robin of `get_io_context`. Coroutines, timers, stub calls, the accept loop and the
signal handler share the main thread (`MainRuns`). A read or write keeps the
`io_context` of its thread at work until its completion has run on the main
thread, so `Join` waits for it (`OutOfWork`). `AcceptFails` is an `async_accept`
that throws: nothing catches it and `main` ends.

### VerifyServer and MailQueue

`rpc[c]` is a GetVerifyCode coroutine, `main` the main thread, `worker` the mail
thread. `send_mail` is two steps, push under the mutex and notify after it, twice
per call (the user's mail and the local copy). The worker's predicate check and
its going to sleep are one step, as `cv_.wait` does both under the mutex; spurious
wakeups are allowed. After a signal the main thread is inside `Shutdown()`, which
waits for calls that need the very thread it blocks. The mail client is created by
the first `send_mail` and destroyed after `main` returns.

`MailQueue` is the promise of `send_mail`: mails are taken, handed over one at a
time in the order in which they were taken, all of them before the process ends,
and each of them in the end. The refinement includes its fairness.

## 3. The runs

| Run | Checks | Distinct states |
|---|---|---|
| `session_safety` | type, `ParticipantsAreConnected`, `ServedAsProven`, `CloseFrameIsLast`, `DeadlineSparesAuthenticated` | 1.6 million |
| `session_live` | `RefusalKept`, `LoginOrClosed`, `CloseFrameCloses`, `StoppedSessionEnds` | 14 thousand |
| `session_offline` | `NotifiedAreLoggedIn`, violated | |
| `cluster_routing` | type, `InOrderAtMostOnce`, `SuccessIsHandedOver`, `HangsOnlyInCircularWait` | 713 thousand |
| `cluster_hang` | `CallEventuallyReturns`, violated | |
| `wire` | type, `FramesIntact`, `AnswersPaired`, `AnswersUnlessMisled` | 319 thousand |
| `balance` | type, `CountedAtRest`, `Spread` | 1.2 million |
| `friend` | type, `FriendSymmetric`, `AcceptedAreFriends`, `PassedAreFriends`, `ImplementsFriendGraph` | 310 thousand |
| `friend_status` | `AuthPassesRequest`, violated | |
| `accounts` | type, `ShownCodesWork`, `ShownTokensWork`, `PasswordProvedByCode`, `AnsweredOrStalled` | 783 thousand |
| `gate` | type, `SessionsKeptAlive`, `ConnectionsProgress` | 96 thousand |
| `verify_server` | type, `NoLostWakeup`, `DrainedAtExit`, `ImplementsMailQueue`, `ExitsUnlessCallPending` | 4 thousand |

Section 4 has eight more configurations, each with one property that the
documentation states and the code does not meet.

### Bounds

* `session_safety`: two sessions and two users, so that two logins and two
  deadlines interleave, one connection logs in under several uids, and two
  connections share one; a channel of one frame, so that it fills; two requests,
  so that a login is followed by a query or another login; no peer notifications,
  since local ones occur. The proofs drop these bounds.
* `session_live` and `session_offline`: one session, with two notifications and
  two requests, enough to fill the channel of one frame while the writer is busy.
* `cluster_routing`: two servers as deployed, two users that may be on either
  or both, two messages: order, duplication and mutual blocking need two. One
  server is killed or signalled once, in any state, which includes a call in
  either direction; the other is the same by symmetry. One user's id may be the
  garbage of a fresh connection. `cluster_hang` needs neither.
* `wire`: bodies of 0 and 1 bytes and an announced or intended length of 2, which
  are below, at and above the limit; three requests of which two are ahead of
  their answers; ids of a login, another request, no member, and one that narrows
  to a member; one misleading header and one notification; a channel of one frame.
* `balance`: three users and four logins over two servers, so that two logins
  overlap and a user comes again; counts 0 and 1 from an earlier run.
* `friend`: three calls let one call reuse a connection after a failure while
  another call overlaps; three users allow unrelated rows.
* `accounts`: three requests, of which the first has been answered when the run
  starts: with a code for any email, or with nothing. Every step of the second
  interleaves with every step of the third, so that a code is checked, expires, is
  given out anew and only then used, and the initial table is empty or has any one
  row. Two emails are spellings of each other, a third is the key of the one user's
  token. A second user is left to the proofs.
* `gate`: three connections on two threads, so that two share one and the round
  robin wraps; two requests make a connection read again after an answer.
* `verify_server`: three calls, up to six mails.

Deadlock checking is off in all runs: requests, connections and calls run out at
their bounds, and in `VerifyServer` and `Gate` the process ends. Hanging is instead
the subject of the liveness properties.

### Fairness

Weak fairness only, and only of what the scheduler of the code owes.

* `ChatSession`: the event loop runs every coroutine that can run, redis, MySQL and
  the ten second timer answer; nothing makes a client connect, send, read or close, so
  that an `async_write` on an open socket need not end: it has no time limit. The loop
  is assumed not to be held for ever by the synchronous stub of another session, which
  is `ChatCluster`'s subject.
* `ChatCluster`: gRPC threads, notify coroutines of a thread that is not blocked
  and the return of `Shutdown()`; a call that has its reply returns, one that was
  refused or lost with its server fails (`CallRefused`). Handlers need not be
  answered by redis, connections need not break, and nobody needs to kill a server.
* `Wire`: the reader, the login deadline, and a client that reads what it waits for
  or learns that the connection is closed. A handler need not return, since its stub
  call may not (`cluster_hang`).
* `Accounts`: just the 30 s timer, through `Fails`, once the thread is free; redis,
  MySQL, verify and status need not answer.
* `Gate`: each connection's coroutine and its timer, `Join` and `Exit`. Stubs need
  not return and sockets need not complete.
* `VerifyServer`: the worker, the main thread and coroutines that hold the thread;
  redis need not answer, no signal need come, and no spurious wakeup.

`Balance` and `FriendRepo` are checked for safety only.

## 4. What the runs found

* `session_offline`: `uid_` has no initialiser (`chat_server.hpp:227`), and every
  connection is in `participants_` from the start.
* `cluster_hang`: two servers that notify each other at once hang. By
  `HangsOnlyInCircularWait` this, and a peer whose `Shutdown()` waits for the
  coroutine that the call posted there, are the only ways in which a server hangs
  while connections work.
* `friend_status`: `auth_friend_apply` updates the row in the opposite direction
  (`friend_repo.hpp:54`); the applicant's request stays pending.

Eight further statements of the documentation do not hold either. Their properties
are next to the others, and TLC gives a counterexample with the configuration named
here (`tlc -config <cfg> <module>`).

| Configuration, module | Property | The documents | The code |
|---|---|---|---|
| `ChatSession_refused.cfg`, `MCChatSession` | `RefusedIsClosed` | `README.md:141` and `tests/TEST_PLAN.md:79`: a failed login disconnects; `docs/review/DAILY_REVIEW_0807.md:98`: at once | `chat_server.hpp:120`: `deliver` drops the close frame of a second login on an authenticated connection when its channel is full, and nothing else closes it; the client reads all the time |
| `ChatCluster_loss.cfg`, `MCChatCluster` | `NoSilentLoss` | `tests/TEST_PLAN.md:119`: a peer who is online gets the message; `README.md:140` excepts an offline one | `chat_server.hpp:112`: dropped at a full channel, and the sender is told success |
| `ChatCluster_shutdown.cfg`, `MCChatCluster` | `SignalledServerExits` | `docs/review/DAILY_REVIEW_0805.md:108` and `:22` on blocking calls and `io_context.stop()` | `chat_server/main.cpp:107`: `Shutdown()` waits, on the thread of the `io_context` and before `stop()`, for a coroutine posted to that thread |
| `FriendRepo_contract.cfg`, `FriendRepo` | `ImplementsContract` | `tests/TEST_PLAN.md:110`, `:111`: authenticating a request that does not exist, or one's own, is an error; `:148` keeps a failing test | `friend_repo.hpp:54-55`: no request is looked at |
| `FriendRepo_duplicate.cfg`, `FriendRepo` | `DuplicateRefused` | `tests/TEST_PLAN.md:102`: a second application is an error; `:147` keeps a failing test | `friend_repo.hpp:37-38`: `ON DUPLICATE KEY UPDATE`, and success |
| `Wire_burst.cfg`, `Wire` | `BurstAnswered` | `tests/TEST_PLAN.md:132`: a burst is answered completely and in order | `chat_server.hpp:120`: answers that nobody reads fill the socket buffers and the 64 frames of the channel, and further ones are dropped; 20 messages do not reach that |
| `Wire_short.cfg`, `Wire` | `BodyReadEnds` | `tests/TEST_PLAN.md:130`: a body shorter than announced is handled after a timeout | `chat_server.hpp:176`: only a session without a login has a deadline |
| `Gate_stop.cfg`, `Gate` | `StopDrainsAndExits` | `docs/review/DAILY_REVIEW_0805.md:22`: `work_guard.reset()` drains and exits | `gate_server/server.cpp:68`: `stop()` joins, on the main thread, pool threads whose reads and writes complete or time out on the main thread only; an idle keep-alive connection is enough |

What the passing properties allow is worth as much as what they exclude:

* `RefusalKept` and `CloseFrameCloses` speak of close frames that reached the
  channel, and the second one of a client that reads. A session that was never
  authenticated is closed by the deadline in any case (`LoginOrClosed`).
* `SuccessIsHandedOver` ends where `deliver` begins. It shows that routing by a value
  that was read before several suspensions, an rpc and stops of either server is
  right; what `deliver` does with the message is `NoSilentLoss`.
* `InOrderAtMostOnce` is about what `deliver` is given. Frames it drops leave gaps.
* `AnswersPaired` says that an answer on the stream belongs to the request whose turn
  it was, and `AnswersUnlessMisled` that a client waits for ever only after a dropped
  answer, in a handler that does not return, or for what it did not complete. A login
  result that is longer than a frame reaches the client as an empty one
  (`FramesIntact`), although `tests/TEST_PLAN.md:78` expects its lists.
* `ShownCodesWork` and `ShownTokensWork` speak of keys on which no step has failed and
  end with the next login under that key. Since the key of a code is the email itself,
  a code request may name the key of a token: it is then answered with that token, and
  after a failed GET it replaces it. `PasswordProvedByCode` says "a value created for
  the email": a code, or a token if the email is the key of one. It does not say that
  whoever presents it owns the email, since the gate answers codes to its caller
  (`dispatcher.cpp:232`).
* A stub call of the gate that gets no answer stops all requests and their time
  limits (`dispatcher.cpp:223`, `http_connection.cpp:30`). By `AnsweredOrStalled` it
  is the only way a request stays unanswered. A failed accept ends the gate.
* A verify server that is told to stop ends unless a call that waits for redis needs
  the blocked thread (`ExitsUnlessCallPending`); no document says how it should end.
* `StoppedSessionEnds` leaves out the writer that sleeps in `async_receive` and keeps
  its session object.
* `Spread` holds only while nobody leaves, and for clients that connect to the server
  they were given: nothing lowers `login_count` when a session ends, until the next
  login on that server (`CountedAtRest`).

## 5. The proofs

Each component has a proof module, and TLAPS checks all eight to the last leaf.
Every invariant and every action property that a passing run checks is a theorem,
and so is the refinement of `FriendGraph` and the safety part of that of
`MailQueue`. There is no bound in what is proved: sessions, users, servers,
connections, threads, requests, messages, capacities, frame lengths and redis
contents are arbitrary, as far as the assumptions below say nothing else.

### Assumptions

Named, in the module that declares the constants, and evaluated by the runs.

* `ChatSession`: a natural number as the capacity, finitely many sessions (they are
  counted), null values outside the sets they complete.
* `ChatCluster`: `Peer` maps each server to another one, null values are outside
  their sets, the garbage in `uid_` is some users' ids. `SuccessHandsOver` has a hypothesis of its own, that there are two
  servers and each is the other's peer: the code has one peer stub, so with a
  third server the rpc may go to a server that the user is not on.
* `Wire`: `0 < MAX_LENGTH < LengthRange`, so that an accepted length fits its 16
  bits; the ids of the members lie in the range of the enum, the unknown id is no
  member, and a login is told from another request; a channel that holds a frame.
* `Balance`: a configuration that is not empty, retired names outside it, finitely
  many clients, and an absent field that is no number.
* `FriendRepo`: there are two users. `Accounts`: there is an email, and equality by the
  collation is an equivalence; emails and names may coincide, so nothing is assumed
  about the keys of codes and tokens. `Gate`: a pool and a bound of requests that are
  not 0. `VerifyServer`: none.

### Arguments

Few of the invariants are inductive as they stand; what had to be added says why the
code works.

`ChatSessionProofs`

* `TypeInvariant` is inductive by itself. Its part "inside `login()` the request is a
  login" is why `request[s].uid` is a user there. `ParticipantCount` serves
  `login_count`.
* `Connected`: `ParticipantsAreConnected` is inductive. `ConnectionSteps` says that
  a step leaves the connection alone, opens one, or disconnects one.
* `Identity`: that an authenticated session carries a uid it proved is not inductive,
  because `set_uid` comes two suspensions after the token was compared.
  `IdentityInv` adds that a reader in `info` or `count` has a proven request, and a
  reader in `query` an authenticated session; `ServedAsProven` follows.
* `CloseFrame` is inductive together with the type: `farewell` grows in `WriteCloses`
  only, a closed socket stays closed, and a writer that returned gets no further frame
  (`DeliveredDone`).
* `RefusalsKept` (`RefusalKept`): `deliver` keeps what is queued (`HeldKept`), the
  writer only takes out what it has written (`HeldUnwritten`), and it stops the session
  when that is a close frame.
* `DeadlineSpares` is an action property: the only step from `expired` to `done` is
  `LoginTimeout` (`ExpiredIsChecked`).
* `InitialisedSuffices`: if no fresh `uid_` holds a user's id, the property that
  `session_offline` sees violated holds. `KnownInv` (a `uid_` that is a user's id is
  proven) makes every session that `get_participant` finds one that logged in, and
  `AllowedInv` follows the frames through channel and writer. So the missing
  initialiser is the whole cause.

`ChatClusterProofs`

* `InOrder` rests on `sent` being the number of the next message and on three orders
  at once (`HandedInv`, `PostedInv`): what was handed over and what is posted is in order, what
  was handed over precedes what is posted, and both precede what a handler has still to
  route. That a message is in one place only excludes the second delivery: a broken
  call leaves its coroutine posted, but its handler is gone. `Core` ties the call that
  blocks a server to the handler that made it.
* `SuccessHandsOver` (`SuccessIsHandedOver`) adds `Reach`: for a request whose
  addressee has stayed reachable, the server that the handler has read is still the one
  redis names, and a reply to its call means that the message was handed over.

`WireProofs`

* `Intact`: `FrameInv` says that there are offsets at which the stream to the client
  falls into the nodes of the messages not yet read, numbered from `got + 1`. The
  lemmas `FramedAppend`, `FramedTail` and `FramedHead` are delivery, receipt and what
  the client decodes next. That a refused body becomes an empty one, with a header that
  says so, is `NodeUnits`.
* `Paired`: `RequestInv` is the same for the other direction: while the headers are
  honest, what the reader has not read is the rest of one body and the frames of the
  requests not answered, so that the message being handled is the oldest of them
  (`QueuedAppend`, `QueuedHead`, `QueuedCut`). `ReplyStep` uses it for every handler.
* `Typed` includes that no more than `MAX_LENGTH` bytes are ever read into `data_`.

`BalanceProofs`

* `LastCountStays`: `CountInv` looks at the last HSET that is pending, if there is one.
* `LoadsLevel` (`Spread`): `Counts` bounds what redis and the pending HSETs say by the
  sessions online from below and by `participants_` from above, so that the least
  number the status server finds belongs to a server that is not overloaded (`Least`);
  logins going on make up the difference. `Typed` includes that
  `get_server_index` chooses a configured server whatever redis holds.

`FriendRepoProofs`: `AuthWrites` says what the open transaction of an authentication has
written before each of its statements: nothing but rows of its pair, and each friend row
either there already or among its writes. `COMMIT` then adds both rows or has both, and
`Symmetric`, `Durable` and `PassedTogether` follow; a failed call's writes are gone before
its connection is used again. `Refinement` shows each step to be one of `FriendGraph` or
to leave the committed tables and the confirmations alone.

`AccountsProofs`: `OneCall` (the blocking stub admits one outstanding call) makes a remote
coroutine that the gate does not wait for one that broke off, whose key is in `failed`.
`RemoteInv` then says that between the GET and the SETEX of a code nobody else stores one,
which is what `CodesWork` and `TokensWork` need; a write under the same key by the other
kind of call ends what was shown before (a login), or cannot come between (a code
request that finds a value answers it). `ProvedByCode` needs that every value in
redis was created under its key by a request that was sent (`CodesInv`), that a handler
which is about to write has seen such a value for the email it was given (`StageInv`),
and that the row it writes has an email the collation takes for equal (`RowsInv`).

`GateProofs`: `SessionsKeptAlive` has two halves. `sessions_ = Live` while the process
runs is preserved because a coroutine either goes on (`GoesOn`) or cleans up
(`CleansUp`). That no read or write is left when `Exit` clears `sessions_` needs
`JoinedAreIdle`: threads are joined in order, each when it has no operation, and after
the signal none begins. `RequestsLeft` serves the type of `served`.

`VerifyServerProofs`: one inductive invariant, preserved by the coroutines, the
worker and the main thread (a lemma each). It joins typing and the exclusive use
of the io_context thread with `delivered \o queue = pushed`, no lost wakeup, and
the facts that `stop` is set only once the main thread is in the destructor, that
the worker returns only after `stop` and with an empty queue, and that the main
thread exits only after the worker. `Typed`, `WakeupsNotLost`, `Drained` and
`Refinement` (`QueueStep`: every step is one of `MailQueue`'s or invisible) follow.

### Model-checked only

Liveness under fairness is outside the prover's reach: `LoginOrClosed`,
`CloseFrameCloses`, `StoppedSessionEnds`, `HangsOnlyInCircularWait`,
`AnswersUnlessMisled`, `AnsweredOrStalled`, `ConnectionsProgress`,
`ExitsUnlessCallPending` and the fairness of `MailQueue` in `ImplementsMailQueue`. The
violations are counterexamples of TLC.

## 6. Not modelled

* The user info cache: two keys per user that are filled on a miss and never
  invalidated. After its insertion only the `pwd` of a row changes, no decision of
  the code depends on it, and no document says how fresh an entry is, so there is
  no property to state. `ChatSession` takes the lookup as one await that finds the
  user, does not, or throws.
* The shutdown of the status server, which differs from that of the verify server: it
  calls `Shutdown()` first, then cancels redis, and leaves the `io_context` to run out of
  work (`status_server/main.cpp:64-67`, `ioc->stop()` is commented out); the order of destructors after the gate's
  and chat servers' `main`.
* redis reconnections, and calls that arrive before the coroutine that creates the
  redis connection has run (`verify_server/main.cpp:49`): what happens is up to a
  null pointer.
* Configuration, error categories, JSON and protobuf forms, logging, the
  Python tests.
* Statements that MySQL executes after their caller was cancelled are executed at
  the moment of the cancellation; locks on rows that do not exist are left out,
  which adds behaviours only.
* redis and MySQL do not lose data; `uid_` keeps one garbage value.

## 7. Plan

Done: all modules of section 2, two refinements, and proofs of the safety properties of
all of them. What could still be proved is safety that the liveness properties rest on:

1. `ChatCluster`: that a thread is only ever blocked by a call whose peer is in one of the
   states that `HangsOnlyInCircularWait` names or can go on.
2. `Gate`: that a connection on the stopped main thread has its operation on a thread
   that is not joined yet.
3. `Accounts`: that a pending request under a running gate can always be failed by its
   timer.
