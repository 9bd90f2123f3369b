---------------------------------- MODULE Gate ----------------------------------
(***************************************************************************)
(* The HTTP server of the gate: the accept loop and stop() of              *)
(* gate_server/server.cpp, the sessions of http_connection.cpp and the     *)
(* pool of context_pool.hpp and context_thread.hpp.                        *)
(*                                                                         *)
(* Coroutines and timers run on the main thread.  The sockets belong to    *)
(* the io_contexts of the pool, whose threads only complete reads and      *)
(* writes.  A read or write keeps its io_context from running out of work  *)
(* until its completion handler has run on the main thread (external:      *)
(* boost::asio).  What a handler does is the subject of Accounts.          *)
(***************************************************************************)
EXTENDS Integers

CONSTANTS
    Connections,    \* TCP connections
    PoolSize,       \* 4 in the code
    MaxRequests     \* bound: requests on a connection

ASSUME GateAssumption == PoolSize \in Nat \ {0} /\ MaxRequests \in Nat \ {0}

VARIABLES
    conn,               \* conn[c]: where the coroutine of c is
    op,                 \* op[c]: the async_read or async_write of c
    thread,             \* thread[c]: the pool's thread that has the socket
    served,             \* served[c]: requests answered, for MaxRequests
    sessions_,          \* the only references to HttpConnections
    sock,               \* thread of the socket to be accepted
    next_io_context_,
    main,               \* what the main thread does
    joined              \* number of pool threads that stop() has joined

vars == <<conn, op, thread, served, sessions_, sock, next_io_context_, main, joined>>
pool == <<sock, next_io_context_, main, joined>>

Threads == 0..(PoolSize - 1)

(* calling: in a synchronous stub.  called: the stub has returned.         *)
Handling == {"handling", "calling", "called"}
Waiting == {"reading", "writing"}
Live == {c \in Connections : conn[c] \in {"spawned"} \cup Handling \cup Waiting}

(* done and failed: the completion is queued for the main thread.          *)
TypeOK ==
    /\ conn \in [Connections ->
                    {"new", "spawned", "closed"} \cup Handling \cup Waiting]
    /\ op \in [Connections -> {"none", "pending", "done", "failed"}]
    /\ \A c \in Connections : op[c] # "none" <=> conn[c] \in Waiting
    /\ thread \in [Connections -> Threads]
    /\ served \in [Connections -> 0..MaxRequests]
    /\ sessions_ \subseteq Connections
    /\ sock \in Threads /\ next_io_context_ \in Threads
    /\ main \in {"runs", "stops", "exited", "failed"}
    /\ joined \in 0..PoolSize
    /\ \A c, d \in Connections : conn[c] = "calling" /\ conn[d] = "calling" => c = d

---------------------------------------------------------------------------
(* Mutant: one past the last of the pool.                                  *)
NextOf_past_end(i) == (i + 1) % (PoolSize + 1)

(* get_io_context.                                                         *)
NextOf(i) == (i + 1) % PoolSize

Init ==
    /\ conn = [c \in Connections |-> "new"]
    /\ op = [c \in Connections |-> "none"]
    /\ thread = [c \in Connections |-> 0]
    /\ served = [c \in Connections |-> 0]
    /\ sessions_ = {}
    /\ sock = 0 /\ next_io_context_ = NextOf(0)
    /\ main = "runs" /\ joined = 0

(* The main thread is not inside a stub call or stop().                    *)
MainRuns == main = "runs" /\ \A c \in Connections : conn[c] # "calling"

(* co_await async_accept, then the session and the next socket.            *)
Accept(c) ==
    /\ MainRuns /\ conn[c] = "new"
    /\ conn' = [conn EXCEPT ![c] = "spawned"]
    /\ thread' = [thread EXCEPT ![c] = sock]
    /\ sessions_' = sessions_ \cup {c}
    /\ sock' = next_io_context_ /\ next_io_context_' = NextOf(next_io_context_)
    /\ UNCHANGED <<op, served, main, joined>>

(* async_accept throws: out of run(), of io_context->run() and of main().  *)
AcceptFails ==
    /\ MainRuns
    /\ main' = "failed"
    /\ UNCHANGED <<conn, op, thread, served, sessions_, sock, next_io_context_, joined>>

---------------------------------------------------------------------------
(* HttpConnection::run.                                                    *)
Goes(c, stage) ==
    /\ conn' = [conn EXCEPT ![c] = stage]
    /\ op' = [op EXCEPT ![c] = IF stage \in Waiting THEN "pending" ELSE "none"]

(* clean_up drops the reference of sessions_: the socket is closed.        *)
clean_up(c) == Goes(c, "closed") /\ sessions_' = sessions_ \ {c}

Start(c) ==
    /\ MainRuns /\ conn[c] = "spawned"
    /\ Goes(c, "reading")
    /\ UNCHANGED <<thread, served, sessions_, pool>>

(* A thread of the pool completes the operation: a message, or the end of  *)
(* the stream, an error, or a body above the limit.                        *)
SocketReady(c) ==
    /\ main # "failed" /\ op[c] = "pending"
    /\ \E result \in {"done", "failed"} : op' = [op EXCEPT ![c] = result]
    /\ UNCHANGED <<conn, thread, served, sessions_, pool>>

(* Mutant: async_write without a time limit.                               *)
TimeoutOfReads(c) ==
    /\ MainRuns /\ conn[c] = "reading" /\ op[c] = "pending"
    /\ op' = [op EXCEPT ![c] = "failed"]
    /\ UNCHANGED <<conn, thread, served, sessions_, pool>>

(* cancel_after, 60 s.  A completion that is queued stays as it is.        *)
Timeout(c) ==
    /\ MainRuns /\ op[c] = "pending"
    /\ op' = [op EXCEPT ![c] = "failed"]
    /\ UNCHANGED <<conn, thread, served, sessions_, pool>>

ReadReturns(c) ==
    /\ MainRuns /\ conn[c] = "reading"
    /\ \/ op[c] = "done" /\ Goes(c, "handling") /\ UNCHANGED sessions_
       \/ op[c] = "failed" /\ clean_up(c)
    /\ UNCHANGED <<thread, served, pool>>

(* get_verify_code and user_login.                                         *)
CallStub(c) ==
    /\ MainRuns /\ conn[c] = "handling"
    /\ Goes(c, "calling")
    /\ UNCHANGED <<thread, served, sessions_, pool>>

StubReturns(c) ==
    /\ main = "runs" /\ conn[c] = "calling"
    /\ Goes(c, "called")
    /\ UNCHANGED <<thread, served, sessions_, pool>>

(* A response of the handler, which after 30 s is one of an exception.     *)
Respond(c) ==
    /\ MainRuns /\ conn[c] \in {"handling", "called"}
    /\ Goes(c, "writing")
    /\ UNCHANGED <<thread, served, sessions_, pool>>

(* Mutant: clean_up is only called when the client closes.                 *)
WriteReturnsWithoutCleanUp(c) ==
    /\ MainRuns /\ conn[c] = "writing"
    /\ \/ op[c] = "done" /\ served[c] < MaxRequests - 1
          /\ served' = [served EXCEPT ![c] = @ + 1]
          /\ Goes(c, "reading")
       \/ op[c] = "done" /\ served[c] < MaxRequests
          /\ served' = [served EXCEPT ![c] = @ + 1]
          /\ Goes(c, "closed")
       \/ op[c] = "failed" /\ Goes(c, "closed") /\ UNCHANGED served
    /\ UNCHANGED <<thread, sessions_, pool>>

(* keep_alive, or not; or an error.                                        *)
WriteReturns(c) ==
    /\ MainRuns /\ conn[c] = "writing"
    /\ \/ op[c] = "done" /\ served[c] < MaxRequests - 1
          /\ served' = [served EXCEPT ![c] = @ + 1]
          /\ Goes(c, "reading") /\ UNCHANGED sessions_
       \/ op[c] = "done"
          /\ served' = [served EXCEPT ![c] = @ + 1]
          /\ clean_up(c)
       \/ op[c] = "failed" /\ clean_up(c) /\ UNCHANGED served
    /\ UNCHANGED <<thread, pool>>

---------------------------------------------------------------------------
(* Server::stop, called by the signal handler.  running_ lets it run once. *)
Signal ==
    /\ MainRuns
    /\ main' = "stops"
    /\ UNCHANGED <<conn, op, thread, served, sessions_, sock, next_io_context_, joined>>

(* io_context_->run() of a pool thread returns after work_guard_.reset().  *)
OutOfWork(i) == \A c \in Connections : thread[c] = i => op[c] = "none"

(* ContextPool::stop stops and joins one thread after the other.           *)
Join ==
    /\ main = "stops" /\ joined < PoolSize
    /\ OutOfWork(joined)
    /\ joined' = joined + 1
    /\ UNCHANGED <<conn, op, thread, served, sessions_, sock, next_io_context_, main>>

(* sessions_.clear(), io_context->stop() and the end of main.              *)
Exit ==
    /\ main = "stops" /\ joined = PoolSize
    /\ sessions_' = {}
    /\ main' = "exited"
    /\ UNCHANGED <<conn, op, thread, served, sock, next_io_context_, joined>>

---------------------------------------------------------------------------
Session(c) ==
    Start(c) \/ ReadReturns(c) \/ Respond(c) \/ WriteReturns(c) \/ Timeout(c)

Next ==
    \/ \E c \in Connections :
          Accept(c) \/ Session(c) \/ SocketReady(c) \/ CallStub(c) \/ StubReturns(c)
    \/ AcceptFails \/ Signal \/ Join \/ Exit

(* The main thread runs its coroutines and timers.  Clients need not send  *)
(* or read anything, and stubs need not return.                            *)
Spec ==
    /\ Init /\ [][Next]_vars
    /\ \A c \in Connections : WF_vars(Session(c))
    /\ WF_vars(Join) /\ WF_vars(Exit)

---------------------------------------------------------------------------
(* HttpConnection::run uses this, socket_ and server_ through a plain      *)
(* pointer: while it runs, and while a read or write has the socket, the   *)
(* connection is in sessions_; and none stays there when its run has ended.*)
SessionsKeptAlive ==
    /\ main # "exited" => sessions_ = Live
    /\ \A c \in Connections : op[c] # "none" => c \in sessions_

(* http_connection.cpp:30: no client keeps a connection without a request, *)
(* or a response that it does not read, for ever, unless the main thread   *)
(* hangs in a stub call, stops or has failed.                              *)
ConnectionsProgress ==
    \/ <>[]~MainRuns
    \/ \A c \in Connections, n \in 0..(MaxRequests - 1) :
          c \in Live /\ served[c] = n ~> conn[c] = "closed" \/ served[c] > n

(* docs/review/DAILY_REVIEW_0805.md:22 calls work_guard.reset(), which is   *)
(* what stop() uses for the pool, the graceful way that drains and exits.  *)
(* Violated: a read or write that has the socket of a pool thread needs    *)
(* the main thread, its time limit included, and that one is in join().    *)
StopDrainsAndExits == main = "stops" ~> main = "exited"
================================================================================
