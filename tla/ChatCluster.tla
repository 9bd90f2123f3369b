---------------------------- MODULE ChatCluster ----------------------------
(***************************************************************************)
(* Two chat servers that route notifications for add_friend, auth_friend   *)
(* and text_chat_msg (chat_server/handle_message.cpp) through redis and    *)
(* through each other's gRPC service (chat_server/grpc_service.hpp).       *)
(*                                                                         *)
(* All sessions, redis completions and gRPC handlers of a server run on    *)
(* its one main_io_context thread (chat_server/main.cpp).  A handler that  *)
(* notifies a user of the peer calls a synchronous stub on that thread, so *)
(* while call[n] is outstanding no other step of server n happens.         *)
(*                                                                         *)
(* The three handlers differ in the database steps around the redis GET;   *)
(* those are part of the suspensions "lookup" and "route", and their       *)
(* failures are HandlerFails.  The channel of a session is ChatSession's.  *)
(*                                                                         *)
(* A server may be killed, or stopped by SIGINT or SIGTERM, and started    *)
(* again: its sessions and calls are gone, while redis still names it as   *)
(* the login server of its users.                                          *)
(***************************************************************************)
EXTENDS Integers, Sequences, FiniteSets, Functions

CONSTANTS
    Servers,    \* the chat servers
    Peer,       \* peer_grpc_server of each server's configuration
    Users,
    NoServer,   \* no user_login_server key, or a failed GET
    NoCall,
    FreshUids,  \* the users whose id the uninitialised uid_ of a connection may hold
    MaxSends,   \* bound: requests that are sent, over all sessions
    Stoppable,  \* bound: the servers that may be killed or signalled
    MaxStops    \* bound: kills and signals, over all servers

ASSUME PeerAssumption ==
    Peer \in [Servers -> Servers] /\ \A n \in Servers : Peer[n] # n
ASSUME StoppableAssumption == Stoppable \subseteq Servers
ASSUME NullAssumption == NoServer \notin Servers
ASSUME FreshAssumption == FreshUids \subseteq Users

VARIABLES
    participants,   \* participants[n]: users with an authenticated session on n
    login_server,   \* redis user_login_server_<uid>
    handler,        \* handler[n][u]: the request in progress on u's session on n
    call,           \* call[n]: the synchronous notify rpc that blocks n's thread
    posted,         \* posted[n]: notify coroutines spawned on n's io_context
    handed,         \* history: handed[n][u]: the notifications for u that deliver()
                    \* was called with on server n, in that order
    lost,           \* history: those of them that did not reach a session of u
    stopping,       \* stopping[n]: the signal handler is in server->Shutdown()
    stops,          \* number of kills and signals, for MaxStops
    sent            \* number of requests sent; the next request's number

vars == <<participants, login_server, handler, call, posted, handed, lost,
          stopping, stops, sent>>
process == <<stopping, stops>>

---------------------------------------------------------------------------
Message == [at : Servers, from : Users, to : Users, number : Nat]

(* "lookup": redis has not answered the GET yet; "route": it has, and the  *)
(* handler continues with what may be old; "rpc": the thread is blocked.   *)
(* reachable (history): since the request arrived, the addressee has had a *)
(* session on the server that login_server names.                          *)
Working == [stage : {"lookup", "route", "rpc"}, msg : Message,
            target : Servers \cup {NoServer}, reachable : BOOLEAN]
Idle == [stage |-> "idle"]

(* A call is on its way, posted on the peer's io_context, answered, or     *)
(* lost with the peer's process.                                           *)
Call == [msg : Message, stage : {"wire", "posted", "replied", "lost"}]
ASSUME NoCallAssumption == NoCall \notin Call

TypeOK ==
    /\ participants \in [Servers -> SUBSET Users]
    /\ login_server \in [Users -> Servers \cup {NoServer}]
    /\ handler \in [Servers -> [Users -> Working \cup {Idle}]]
    /\ call \in [Servers -> Call \cup {NoCall}]
    /\ \A n \in Servers, u \in Users :
          handler[n][u].stage = "rpc"
            <=> handler[n][u] # Idle /\ call[n] # NoCall
                /\ call[n].msg = handler[n][u].msg
    /\ posted \in [Servers -> Seq(Message)]
    /\ handed \in [Servers -> [Users -> Seq(Message)]]
    /\ lost \subseteq Message
    /\ stopping \in [Servers -> BOOLEAN]
    /\ stops \in Nat
    /\ sent \in Nat

Init ==
    /\ participants = [n \in Servers |-> {}]
    /\ login_server = [u \in Users |-> NoServer]
    /\ handler = [n \in Servers |-> [u \in Users |-> Idle]]
    /\ call = [n \in Servers |-> NoCall]
    /\ posted = [n \in Servers |-> <<>>]
    /\ handed = [n \in Servers |-> [u \in Users |-> <<>>]]
    /\ lost = {}
    /\ stopping = [n \in Servers |-> FALSE]
    /\ stops = 0
    /\ sent = 0

(* The io_context thread of n is neither in a stub call nor in Shutdown(), *)
(* and runs the next completion.                                           *)
LoopRuns(n) == call[n] = NoCall /\ ~stopping[n]

---------------------------------------------------------------------------
(* The addressee comes or goes: what was reachable may not be any more.    *)
AddresseeMoves(v) ==
    handler' = [n \in Servers |-> [u \in Users |->
        IF handler[n][u] # Idle /\ handler[n][u].msg.to = v
        THEN [handler[n][u] EXCEPT !.reachable = FALSE]
        ELSE handler[n][u]]]

(* login(): the session is known under u; the SET may fail.                *)
Login(n, u) ==
    /\ LoopRuns(n)
    /\ u \notin participants[n] /\ handler[n][u] = Idle
    /\ participants' = [participants EXCEPT ![n] = @ \cup {u}]
    /\ \/ login_server' = [login_server EXCEPT ![u] = n]
       \/ UNCHANGED login_server
    /\ AddresseeMoves(u)
    /\ UNCHANGED <<call, posted, handed, lost, sent, process>>

(* stop(): login_server keeps its value.                                   *)
Logout(n, u) ==
    /\ LoopRuns(n)
    /\ u \in participants[n]
    /\ participants' = [participants EXCEPT ![n] = @ \ {u}]
    /\ AddresseeMoves(u)
    /\ UNCHANGED <<login_server, call, posted, handed, lost, sent, process>>

(* A request arrives and passes the uid check; the reader of this session  *)
(* takes no other before the response.                                     *)
Request(n, u, v) ==
    /\ LoopRuns(n)
    /\ u \in participants[n] /\ handler[n][u] = Idle /\ v # u
    /\ sent < MaxSends
    /\ sent' = sent + 1
    /\ handler' = [handler EXCEPT ![n][u] =
          [stage |-> "lookup",
           msg |-> [at |-> n, from |-> u, to |-> v, number |-> sent],
           target |-> NoServer,
           reachable |-> \E m \in Servers :
                            login_server[v] = m /\ v \in participants[m]]]
    /\ UNCHANGED <<participants, login_server, call, posted, handed, lost, process>>

(* redis executes the GET of get_user_login_server.                        *)
Lookup(n, u) ==
    /\ ~stopping[n]
    /\ handler[n][u].stage = "lookup"
    /\ handler' = [handler EXCEPT ![n][u].stage = "route",
                                  ![n][u].target = login_server[handler[n][u].msg.to]]
    /\ UNCHANGED <<participants, login_server, call, posted, handed, lost, sent, process>>

(* A failed GET is answered like a missing key: no notification.           *)
LookupFails(n, u) ==
    /\ ~stopping[n]
    /\ handler[n][u].stage = "lookup"
    /\ handler' = [handler EXCEPT ![n][u].stage = "route",
                                  ![n][u].target = NoServer,
                                  ![n][u].reachable = FALSE]
    /\ UNCHANGED <<participants, login_server, call, posted, handed, lost, sent, process>>

(* The handler's response, and the reader is ready for the next request.   *)
Respond(n, u) == handler' = [handler EXCEPT ![n][u] = Idle]

(* A database error: InternalError.                                        *)
HandlerFails(n, u) ==
    /\ LoopRuns(n)
    /\ handler[n][u].stage \in {"lookup", "route"}
    /\ Respond(n, u)
    /\ UNCHANGED <<participants, login_server, call, posted, handed, lost, sent, process>>

(* The addressee has never logged in: success.                             *)
RouteNowhere(n, u) ==
    /\ LoopRuns(n)
    /\ handler[n][u].stage = "route" /\ handler[n][u].target = NoServer
    /\ Respond(n, u)
    /\ UNCHANGED <<participants, login_server, call, posted, handed, lost, sent, process>>

(* get_participant finds a session with m's addressee as its uid_: one of  *)
(* the addressee, or a connection without a login whose uninitialised uid_ *)
(* is that id.  deliver() buffers m, or drops it because the channel is    *)
(* full, for instance of answers to requests that are not modelled here.   *)
DeliverAt(n, m) ==
    \/ /\ m.to \in participants[n] \cup FreshUids
       /\ handed' = [handed EXCEPT ![n][m.to] = Append(@, m)]
       /\ \/ m.to \in participants[n] /\ UNCHANGED lost
          \/ lost' = lost \cup {m}
    \/ m.to \notin participants[n] /\ UNCHANGED <<handed, lost>>

(* The addressee is expected here: success, found or not.                  *)
RouteLocal(n, u) ==
    /\ LoopRuns(n)
    /\ handler[n][u].stage = "route" /\ handler[n][u].target = n
    /\ DeliverAt(n, handler[n][u].msg)
    /\ Respond(n, u)
    /\ UNCHANGED <<participants, login_server, call, posted, sent, process>>

(* Any other server name: the synchronous stub of ChatServiceClient.       *)
RoutePeer(n, u) ==
    /\ LoopRuns(n)
    /\ handler[n][u].stage = "route" /\ handler[n][u].target \notin {n, NoServer}
    /\ handler' = [handler EXCEPT ![n][u].stage = "rpc"]
    /\ call' = [call EXCEPT ![n] = [msg |-> handler[n][u].msg, stage |-> "wire"]]
    /\ UNCHANGED <<participants, login_server, posted, handed, lost, sent, process>>

(* The peer's gRPC thread runs NotifyXxx, which spawns a coroutine on the  *)
(* peer's io_context.  Shutdown() refuses further calls.                   *)
NotifyPosted(n) ==
    /\ call[n] # NoCall /\ call[n].stage = "wire"
    /\ ~stopping[Peer[n]]
    /\ call' = [call EXCEPT ![n].stage = "posted"]
    /\ posted' = [posted EXCEPT ![Peer[n]] = Append(@, call[n].msg)]
    /\ UNCHANGED <<participants, login_server, handler, handed, lost, sent, process>>

(* The call that waits for m's reply, if its caller has not given up.      *)
Finish(m) ==
    call' = [n \in Servers |->
        IF call[n] # NoCall /\ call[n].msg = m
        THEN [call[n] EXCEPT !.stage = "replied"] ELSE call[n]]

(* Mutant: Finish is only reached when the session exists.                 *)
NotifyFoundOnly(n) ==
    /\ LoopRuns(n)
    /\ posted[n] # <<>>
    /\ posted' = [posted EXCEPT ![n] = Tail(@)]
    /\ DeliverAt(n, Head(posted[n]))
    /\ IF Head(posted[n]).to \in participants[n]
       THEN Finish(Head(posted[n])) ELSE UNCHANGED call
    /\ UNCHANGED <<participants, login_server, handler, sent, process>>

(* Mutant: the peer answers without looking for the session.               *)
NotifyDropped(n) ==
    /\ LoopRuns(n)
    /\ posted[n] # <<>>
    /\ posted' = [posted EXCEPT ![n] = Tail(@)]
    /\ Finish(Head(posted[n]))
    /\ UNCHANGED <<participants, login_server, handler, handed, lost, sent, process>>

(* The spawned coroutine: notify_session, then reactor->Finish(OK).        *)
Notify(n) ==
    /\ LoopRuns(n)
    /\ posted[n] # <<>>
    /\ posted' = [posted EXCEPT ![n] = Tail(@)]
    /\ DeliverAt(n, Head(posted[n]))
    /\ Finish(Head(posted[n]))
    /\ UNCHANGED <<participants, login_server, handler, sent, process>>

(* The stub returns on n's thread and the handler answers success.         *)
CallReturns(n) ==
    /\ call[n] # NoCall /\ call[n].stage = "replied"
    /\ call' = [call EXCEPT ![n] = NoCall]
    /\ Respond(n, call[n].msg.from)
    /\ UNCHANGED <<participants, login_server, posted, handed, lost, sent, process>>

(* Mutant: a failed rpc is tried once more.                                *)
CallRetried(n) ==
    /\ call[n] # NoCall
    /\ call' = [call EXCEPT ![n].stage = "wire"]
    /\ UNCHANGED <<participants, login_server, handler, posted, handed, lost, sent, process>>

(* Mutant: a failed rpc returns from the handler without a response.       *)
CallUnanswered(n) ==
    /\ call[n] # NoCall
    /\ call' = [call EXCEPT ![n] = NoCall]
    /\ UNCHANGED <<participants, login_server, handler, posted, handed, lost, sent, process>>

(* The connection to the peer breaks, or the peer refuses or is gone:      *)
(* RPCFailed, although the peer may have run the notification or still     *)
(* have it posted.                                                         *)
CallBreaks(n) ==
    /\ call[n] # NoCall
    /\ call' = [call EXCEPT ![n] = NoCall]
    /\ Respond(n, call[n].msg.from)
    /\ UNCHANGED <<participants, login_server, posted, handed, lost, sent, process>>

---------------------------------------------------------------------------
(* The process of n ends and is started again.  The sessions and handlers  *)
(* are gone with their sockets, and so is what peers called for.           *)
Restart(n) ==
    /\ participants' = [participants EXCEPT ![n] = {}]
    /\ handler' = [m \in Servers |-> [u \in Users |->
          IF m = n THEN Idle
          ELSE IF handler[m][u] # Idle /\ handler[m][u].msg.to \in participants[n]
               THEN [handler[m][u] EXCEPT !.reachable = FALSE]
               ELSE handler[m][u]]]
    /\ call' = [m \in Servers |->
          IF m = n THEN NoCall
          ELSE IF Peer[m] = n /\ call[m] # NoCall /\ call[m].stage \in {"wire", "posted"}
               THEN [call[m] EXCEPT !.stage = "lost"]
               ELSE call[m]]
    /\ posted' = [posted EXCEPT ![n] = <<>>]
    /\ stopping' = [stopping EXCEPT ![n] = FALSE]
    /\ UNCHANGED <<login_server, handed, lost, sent>>

(* The process is killed.                                                  *)
Crash(n) ==
    /\ n \in Stoppable /\ stops < MaxStops
    /\ stops' = stops + 1
    /\ Restart(n)

(* SIGINT or SIGTERM: the handler runs on the io_context thread and blocks *)
(* it in server->Shutdown().                                               *)
Signal(n) ==
    /\ LoopRuns(n)
    /\ n \in Stoppable /\ stops < MaxStops
    /\ stops' = stops + 1
    /\ stopping' = [stopping EXCEPT ![n] = TRUE]
    /\ UNCHANGED <<participants, login_server, handler, call, posted, handed,
                   lost, sent>>

(* Shutdown() returns when every reactor has finished, also those of       *)
(* callers that gave up; the io_contexts are stopped and main returns.     *)
Exit(n) ==
    /\ stopping[n] /\ posted[n] = <<>>
    /\ Restart(n)
    /\ UNCHANGED stops

---------------------------------------------------------------------------
Handle(n, u) ==
    \/ Lookup(n, u) \/ LookupFails(n, u) \/ HandlerFails(n, u)
    \/ RouteNowhere(n, u) \/ RouteLocal(n, u) \/ RoutePeer(n, u)

Clients ==
    \E n \in Servers, u \in Users :
        \/ Login(n, u) \/ Logout(n, u)
        \/ \E v \in Users : Request(n, u, v)

Next ==
    \/ Clients
    \/ \E n \in Servers, u \in Users : Handle(n, u)
    \/ \E n \in Servers : NotifyPosted(n) \/ Notify(n) \/ CallReturns(n) \/ CallBreaks(n)
    \/ \E n \in Servers : Crash(n) \/ Signal(n) \/ Exit(n)

Spec == Init /\ [][Next]_vars

(* A call fails at once when the peer has refused it or its process ended. *)
CallRefused(n) ==
    /\ call[n] # NoCall
    /\ \/ call[n].stage = "lost"
       \/ call[n].stage = "wire" /\ stopping[Peer[n]]
    /\ CallBreaks(n)

(* Threads that are not blocked run, and a connection that stays up        *)
(* carries a request and its reply.  Connections need not break, redis     *)
(* need not answer, and nothing kills or signals a server.                 *)
Fairness ==
    \A n \in Servers :
          /\ WF_vars(NotifyPosted(n)) /\ WF_vars(Notify(n))
          /\ WF_vars(CallReturns(n) \/ CallRefused(n))
          /\ WF_vars(Exit(n))

LiveSpec == Spec /\ Fairness

---------------------------------------------------------------------------
Handed(n, v) == Range(handed[n][v])

(* tests/TEST_PLAN.md:132: a user's sessions are handed the messages of    *)
(* another session in the order in which they were sent, and no message is *)
(* handed over twice, whichever mix of local delivery, rpc, broken         *)
(* connection and change of server they took.  Frames that deliver() drops *)
(* leave the order of the others.                                          *)
InOrderAtMostOnce ==
    /\ \A n \in Servers, v \in Users : \A i, j \in DOMAIN handed[n][v] :
          LET a == handed[n][v][i]
              b == handed[n][v][j]
          IN  i < j /\ a.at = b.at /\ a.from = b.from => a.number < b.number
    /\ \A n, m \in Servers, v \in Users :
          n # m => Handed(n, v) \cap Handed(m, v) = {}

(* The steps that answer success.                                          *)
Succeeds(n, u) ==
    \/ RouteNowhere(n, u) \/ RouteLocal(n, u)
    \/ handler[n][u].stage = "rpc" /\ CallReturns(n)

(* A response of success means that deliver() got the message under the    *)
(* addressee's id, when redis worked and the addressee kept a session on   *)
(* the server that login_server names: the value read before the           *)
(* suspensions of the handler, the rpc and a stop of either server was     *)
(* then not stale.  What deliver() does with it is NoSilentLoss.           *)
SuccessIsHandedOver ==
    [][\A n \in Servers, u \in Users :
          LET msg == handler[n][u].msg
          IN  Succeeds(n, u) /\ handler[n][u].reachable =>
                 \E m \in Servers : msg \in Range(handed'[m][msg.to])]_vars

(* tests/TEST_PLAN.md:119: a peer who is online receives the message; only *)
(* for one who is offline does README.md:140 let it be lost with a success *)
(* response.  Fails: deliver() drops the frame at a full channel, and      *)
(* nobody looks at the result.                                             *)
NoSilentLoss ==
    [][\A n \in Servers, u \in Users :
          LET msg == handler[n][u].msg
          IN  Succeeds(n, u) /\ handler[n][u].reachable => msg \notin lost']_vars

(* Each server's thread waits for a coroutine that only the other server's *)
(* blocked thread could run.                                               *)
CircularWait ==
    \A n \in Servers : call[n] # NoCall /\ call[n].stage = "posted"

(* The signal handler of n waits for a coroutine that needs its thread.    *)
ShutdownHangs(n) == stopping[n] /\ posted[n] # <<>>

(* A blocked server resumes, unless both servers wait for each other or    *)
(* the peer is in a shutdown that never ends.                              *)
HangsOnlyInCircularWait ==
    \A n \in Servers :
        call[n] # NoCall
            ~> call[n] = NoCall \/ CircularWait \/ ShutdownHangs(Peer[n])

(* docs/review/DAILY_REVIEW_0805.md:108: a call must not block the thread  *)
(* that drives the io_context involved, or there is a deadlock.  Fails:    *)
(* two servers that notify each other at the same time hang for good.      *)
CallEventuallyReturns ==
    \A n \in Servers : call[n] # NoCall ~> call[n] = NoCall

(* The same line and docs/review/DAILY_REVIEW_0805.md:22 (io_context.stop  *)
(* interrupts at once): a server that gets SIGINT or SIGTERM ends.  Fails: *)
(* Shutdown() waits, on the io_context thread and before stop(), for a     *)
(* notify coroutine that only this thread could run.                       *)
SignalledServerExits ==
    \A n \in Servers : stopping[n] ~> ~stopping[n]
===========================================================================
