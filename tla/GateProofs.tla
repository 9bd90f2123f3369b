------------------------------- MODULE GateProofs -------------------------------
(***************************************************************************)
(* Safety of Gate for any set of connections, any size of the pool and any *)
(* number of requests.  SessionsKeptAlive is not inductive: that Exit may  *)
(* clear sessions_ rests on what Join found, thread by thread.             *)
(***************************************************************************)
EXTENDS Gate, TLAPS

(* A connection that runs may answer another request.                      *)
RequestsLeft == \A c \in Connections : conn[c] # "closed" => served[c] < MaxRequests

(* stop() joins threads, and those it has joined have no read or write.    *)
JoinedAreIdle ==
    /\ joined > 0 => main \in {"stops", "exited"}
    /\ main = "exited" => joined = PoolSize
    /\ \A c \in Connections : thread[c] < joined => op[c] = "none"

Inv == TypeOK /\ RequestsLeft /\ JoinedAreIdle /\ SessionsKeptAlive

LEMMA InitInv == Init => Inv
BY GateAssumption
DEF Init, Inv, TypeOK, RequestsLeft, JoinedAreIdle, SessionsKeptAlive, Live,
    Handling, Waiting, Threads, NextOf

---------------------------------------------------------------------------
(* The round robin of get_io_context stays in the pool.                    *)
LEMMA NextInPool == \A i \in Threads : NextOf(i) \in Threads
BY GateAssumption DEF Threads, NextOf

(* While the main thread runs coroutines nothing has been joined.          *)
LEMMA NothingJoined == ASSUME Inv, main = "runs" PROVE joined = 0
BY DEF Inv, TypeOK, JoinedAreIdle

(* A step of the coroutine of c that ends in a stage of a live connection. *)
LEMMA GoesOn ==
    ASSUME Inv, main = "runs",
           NEW c \in Connections, c \in Live,
           NEW stage \in {"spawned"} \cup Handling \cup Waiting,
           Goes(c, stage),
           stage = "calling" => \A d \in Connections : conn[d] # "calling",
           served' \in [Connections -> 0..MaxRequests],
           \A d \in Connections : d # c => served'[d] = served[d],
           served'[c] < MaxRequests,
           UNCHANGED <<thread, sessions_, pool>>
    PROVE  Inv'
  <1>1. joined = 0
    BY NothingJoined
  <1>2. TypeOK'
    BY DEF Inv, TypeOK, Goes, pool, Handling, Waiting
  <1>3. RequestsLeft'
    BY DEF Inv, TypeOK, RequestsLeft, Goes
  <1>4. JoinedAreIdle'
    BY <1>1 DEF Inv, TypeOK, JoinedAreIdle, pool, Threads
  <1>5. Live' = Live
    BY DEF Inv, TypeOK, Live, Goes, Handling, Waiting
  <1>6. SessionsKeptAlive'
    BY <1>5 DEF Inv, TypeOK, SessionsKeptAlive, Goes, pool
  <1>7. QED
    BY <1>2, <1>3, <1>4, <1>6 DEF Inv

(* clean_up takes a connection that has run out of sessions_.              *)
LEMMA CleansUp ==
    ASSUME Inv, main = "runs",
           NEW c \in Connections, c \in Live,
           clean_up(c),
           served' \in [Connections -> 0..MaxRequests],
           \A d \in Connections : d # c => served'[d] = served[d],
           UNCHANGED <<thread, pool>>
    PROVE  Inv'
  <1>1. joined = 0
    BY NothingJoined
  <1>2. TypeOK'
    BY DEF Inv, TypeOK, clean_up, Goes, pool, Handling, Waiting
  <1>3. RequestsLeft'
    BY DEF Inv, TypeOK, RequestsLeft, clean_up, Goes
  <1>4. JoinedAreIdle'
    BY <1>1 DEF Inv, TypeOK, JoinedAreIdle, pool, Threads
  <1>5. Live' = Live \ {c}
    BY DEF Inv, TypeOK, Live, clean_up, Goes, Handling, Waiting
  <1>6. SessionsKeptAlive'
    BY <1>5 DEF Inv, TypeOK, SessionsKeptAlive, clean_up, Goes, pool, Waiting
  <1>7. QED
    BY <1>2, <1>3, <1>4, <1>6 DEF Inv

(* An operation completes: nothing else moves.                             *)
LEMMA Completes ==
    ASSUME Inv,
           NEW c \in Connections, op[c] = "pending",
           NEW result \in {"done", "failed"},
           op' = [op EXCEPT ![c] = result],
           UNCHANGED <<conn, thread, served, sessions_, pool>>
    PROVE  Inv'
  <1>1. TypeOK'
    BY DEF Inv, TypeOK, pool
  <1>2. \A d \in Connections : op'[d] # "none" <=> op[d] # "none"
    BY DEF Inv, TypeOK
  <1>3. RequestsLeft' /\ JoinedAreIdle' /\ SessionsKeptAlive'
    BY <1>2 DEF Inv, TypeOK, RequestsLeft, JoinedAreIdle, SessionsKeptAlive, Live, pool
  <1>4. QED
    BY <1>1, <1>3 DEF Inv

---------------------------------------------------------------------------
LEMMA SessionStep ==
    ASSUME Inv, NEW c \in Connections, Session(c) PROVE Inv'
  <1>1. CASE Start(c)
    BY <1>1, GoesOn DEF Inv, TypeOK, RequestsLeft, Start, MainRuns, Live, Handling, Waiting
  <1>2. CASE ReadReturns(c)
    BY <1>2, GoesOn, CleansUp
    DEF Inv, TypeOK, RequestsLeft, ReadReturns, MainRuns, Live, Handling, Waiting
  <1>3. CASE Respond(c)
    BY <1>3, GoesOn DEF Inv, TypeOK, RequestsLeft, Respond, MainRuns, Live, Handling, Waiting
  <1>4. CASE WriteReturns(c)
    <2>1. c \in Live /\ main = "runs" /\ UNCHANGED <<thread, pool>>
      BY <1>4 DEF WriteReturns, MainRuns, Live, Waiting
    <2>2. served[c] \in 0..MaxRequests /\ served[c] < MaxRequests
      BY <1>4 DEF Inv, TypeOK, RequestsLeft, WriteReturns
    <2>3. CASE /\ served[c] < MaxRequests - 1
               /\ served' = [served EXCEPT ![c] = @ + 1]
               /\ Goes(c, "reading") /\ UNCHANGED sessions_
      <3>1. /\ served' \in [Connections -> 0..MaxRequests]
            /\ \A d \in Connections : d # c => served'[d] = served[d]
            /\ served'[c] < MaxRequests
        BY <2>2, <2>3, GateAssumption DEF Inv, TypeOK
      <3>2. QED
        BY <2>1, <2>3, <3>1, GoesOn DEF Waiting
    <2>4. CASE served' = [served EXCEPT ![c] = @ + 1] /\ clean_up(c)
      <3>1. /\ served' \in [Connections -> 0..MaxRequests]
            /\ \A d \in Connections : d # c => served'[d] = served[d]
        BY <2>2, <2>4, GateAssumption DEF Inv, TypeOK
      <3>2. QED
        BY <2>1, <2>4, <3>1, CleansUp
    <2>5. CASE clean_up(c) /\ UNCHANGED served
      BY <2>1, <2>5, CleansUp DEF Inv, TypeOK
    <2>6. QED
      BY <1>4, <2>3, <2>4, <2>5 DEF WriteReturns
  <1>5. CASE Timeout(c)
    BY <1>5, Completes DEF Timeout
  <1>6. QED
    BY <1>1, <1>2, <1>3, <1>4, <1>5 DEF Session

LEMMA StubStep ==
    ASSUME Inv, NEW c \in Connections, CallStub(c) \/ StubReturns(c) PROVE Inv'
BY GoesOn
DEF Inv, TypeOK, RequestsLeft, CallStub, StubReturns, MainRuns, Live, Handling, Waiting

LEMMA AcceptStep ==
    ASSUME Inv, NEW c \in Connections, Accept(c) PROVE Inv'
  <1>1. joined = 0
    BY NothingJoined DEF Accept, MainRuns
  <1>2. TypeOK'
    BY NextInPool DEF Inv, TypeOK, Accept, Handling, Waiting
  <1>3. RequestsLeft'
    BY DEF Inv, TypeOK, RequestsLeft, Accept
  <1>4. JoinedAreIdle'
    BY <1>1, <1>2 DEF Inv, TypeOK, JoinedAreIdle, Accept, MainRuns, Threads
  <1>5. Live' = Live \cup {c}
    BY DEF Inv, TypeOK, Live, Accept, Handling, Waiting
  <1>6. SessionsKeptAlive'
    BY <1>5 DEF Inv, TypeOK, SessionsKeptAlive, Accept, MainRuns
  <1>7. QED
    BY <1>2, <1>3, <1>4, <1>6 DEF Inv

(* AcceptFails and Signal change main alone.                               *)
LEMMA MainStep ==
    ASSUME Inv, AcceptFails \/ Signal PROVE Inv'
  <1>1. joined = 0 /\ main = "runs" /\ main' \in {"failed", "stops"}
    BY NothingJoined DEF AcceptFails, Signal, MainRuns
  <1>2. UNCHANGED <<conn, op, thread, served, sessions_, sock, next_io_context_, joined>>
    BY DEF AcceptFails, Signal
  <1>3. QED
    BY <1>1, <1>2
    DEF Inv, TypeOK, RequestsLeft, JoinedAreIdle, SessionsKeptAlive, Live

LEMMA JoinStep ==
    ASSUME Inv, Join PROVE Inv'
  <1>1. \A c \in Connections : thread[c] < joined' => op[c] = "none"
    BY DEF Inv, TypeOK, JoinedAreIdle, Join, OutOfWork, Threads
  <1>2. joined' \in 0..PoolSize
    BY GateAssumption DEF Inv, TypeOK, Join
  <1>3. QED
    BY <1>1, <1>2
    DEF Inv, TypeOK, RequestsLeft, JoinedAreIdle, SessionsKeptAlive, Live, Join

(* All threads are joined, so nothing reads or writes.                     *)
LEMMA ExitStep ==
    ASSUME Inv, Exit PROVE Inv'
  <1>1. \A c \in Connections : op[c] = "none"
    BY GateAssumption DEF Inv, TypeOK, JoinedAreIdle, Exit, Threads
  <1>2. QED
    BY <1>1 DEF Inv, TypeOK, RequestsLeft, JoinedAreIdle, SessionsKeptAlive, Exit

LEMMA NextInv == Inv /\ [Next]_vars => Inv'
  <1> SUFFICES ASSUME Inv, [Next]_vars PROVE Inv'
    OBVIOUS
  <1>1. ASSUME NEW c \in Connections, Accept(c) PROVE Inv'
    BY <1>1, AcceptStep
  <1>2. ASSUME NEW c \in Connections, Session(c) PROVE Inv'
    BY <1>2, SessionStep
  <1>3. ASSUME NEW c \in Connections, SocketReady(c) PROVE Inv'
    BY <1>3, Completes DEF SocketReady
  <1>4. ASSUME NEW c \in Connections, CallStub(c) \/ StubReturns(c) PROVE Inv'
    BY <1>4, StubStep
  <1>5. CASE AcceptFails \/ Signal
    BY <1>5, MainStep
  <1>6. CASE Join
    BY <1>6, JoinStep
  <1>7. CASE Exit
    BY <1>7, ExitStep
  <1>8. CASE UNCHANGED vars
    BY <1>8 DEF Inv, TypeOK, RequestsLeft, JoinedAreIdle, SessionsKeptAlive, Live,
                vars, Handling, Waiting
  <1>9. QED
    BY <1>1, <1>2, <1>3, <1>4, <1>5, <1>6, <1>7, <1>8 DEF Next

---------------------------------------------------------------------------
(* Gate is well typed, and its main thread is in at most one stub call.    *)
THEOREM Typed == Spec => []TypeOK
  <1>1. Inv => TypeOK
    BY DEF Inv
  <1>2. QED
    BY InitInv, NextInv, <1>1, PTL DEF Spec

(* server.cpp:70 clears sessions_ only when no connection reads or writes, *)
(* and until then it holds exactly the connections whose run() goes on.    *)
THEOREM KeptAlive == Spec => []SessionsKeptAlive
  <1>1. Inv => SessionsKeptAlive
    BY DEF Inv
  <1>2. QED
    BY InitInv, NextInv, <1>1, PTL DEF Spec
================================================================================
