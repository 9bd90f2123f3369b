---------------------------- MODULE VerifyServer ----------------------------
(***************************************************************************)
(* The threads of the verify server: GetVerifyCode coroutines on the one   *)
(* io_context thread (verify_server/grpc_service.hpp), the MailClient with *)
(* its worker thread (verify_server/mail_client.hpp), and the way both end *)
(* after SIGINT or SIGTERM (verify_server/main.cpp).                       *)
(*                                                                         *)
(* What the coroutines read and write in redis is the module Accounts.     *)
(* gRPC is external: Shutdown() takes no new call and waits for the calls  *)
(* that have not finished.                                                 *)
(***************************************************************************)
EXTENDS Integers, SequencesExt

CONSTANT Calls      \* the GetVerifyCode calls made

VARIABLES
    rpc,        \* rpc[c]: the coroutine of call c
    main,       \* the main thread, which runs the io_context
    queue,      \* queue_ of the MailClient
    stop,       \* stop_
    worker,     \* its worker thread
    pushed,     \* history: the mails that entered the queue
    delivered   \* history: the mails handed to /usr/bin/mail

vars == <<rpc, main, queue, stop, worker, pushed, delivered>>

---------------------------------------------------------------------------
(* redis: co_await of GET or SETEX.  push and notify: inside send_mail, to *)
(* the user (1) and to the local copy (2).                                 *)
OnThread == {"push1", "notify1", "push2", "notify2", "finish"}

(* worker: none before the first send_mail; check: it has the mutex and    *)
(* evaluates the predicate; waiting: inside cv_.wait.                      *)
TypeOK ==
    /\ rpc \in [Calls -> {"none", "redis", "done"} \cup OnThread]
    /\ \A c, d \in Calls : c # d => ~(rpc[c] \in OnThread /\ rpc[d] \in OnThread)
    /\ main \in {"run", "shutdown", "returned", "stopping", "join", "exited"}
    /\ main # "run" => \A c \in Calls : rpc[c] \notin OnThread
    /\ queue \in Seq(Calls \X {1, 2})
    /\ stop \in BOOLEAN
    /\ worker \in {"none", "check", "waiting", "deliver", "exited"}
    /\ pushed \in Seq(Calls \X {1, 2})
    /\ delivered \in Seq(Calls \X {1, 2})

Init ==
    /\ rpc = [c \in Calls |-> "none"]
    /\ main = "run"
    /\ queue = <<>> /\ stop = FALSE /\ worker = "none"
    /\ pushed = <<>> /\ delivered = <<>>

Mail == <<queue, stop, worker, pushed, delivered>>

---------------------------------------------------------------------------
(* GetVerifyCode spawns the coroutine.                                     *)
GetVerifyCode(c) ==
    /\ rpc[c] = "none" /\ main = "run"
    /\ rpc' = [rpc EXCEPT ![c] = "redis"]
    /\ UNCHANGED <<main, Mail>>

(* Mutant: the coroutines run on more than one thread.                     *)
ThreadIsAvailable == main = "run"

(* No coroutine and no handler runs on the io_context thread.              *)
ThreadIsFree == main = "run" /\ \A c \in Calls : rpc[c] \notin OnThread

RedisAnswers(c) ==
    /\ rpc[c] = "redis" /\ ThreadIsFree
    /\ \E next \in {"push1", "finish"} :    \* a code, or an error of SETEX
          rpc' = [rpc EXCEPT ![c] = next]
    /\ UNCHANGED <<main, Mail>>

(* send_mail under the mutex; the first one creates the MailClient.        *)
Push(c, i) ==
    /\ rpc[c] = <<"push1", "push2">>[i]
    /\ queue' = Append(queue, <<c, i>>)
    /\ pushed' = Append(pushed, <<c, i>>)
    /\ worker' = IF worker = "none" THEN "check" ELSE worker
    /\ rpc' = [rpc EXCEPT ![c] = <<"notify1", "notify2">>[i]]
    /\ UNCHANGED <<main, stop, delivered>>

Wake == worker' = IF worker = "waiting" THEN "check" ELSE worker

(* cv_.notify_one(), after the mutex is released.                          *)
Notify(c, i) ==
    /\ rpc[c] = <<"notify1", "notify2">>[i]
    /\ Wake
    /\ rpc' = [rpc EXCEPT ![c] = <<"push2", "finish">>[i]]
    /\ UNCHANGED <<main, queue, stop, pushed, delivered>>

(* reactor->Finish.                                                        *)
Finish(c) ==
    /\ rpc[c] = "finish"
    /\ rpc' = [rpc EXCEPT ![c] = "done"]
    /\ UNCHANGED <<main, Mail>>

---------------------------------------------------------------------------
(* Mutant: cv_.wait(lock) without a predicate.                             *)
CheckAfterWait ==
    /\ worker = "check"
    /\ worker' = "waiting"
    /\ UNCHANGED <<rpc, main, queue, stop, pushed, delivered>>

(* The predicate is false: cv_.wait releases the mutex as it goes to sleep.*)
Sleep ==
    /\ worker = "check" /\ ~stop /\ queue = <<>>
    /\ worker' = "waiting"
    /\ UNCHANGED <<rpc, main, queue, stop, pushed, delivered>>

SpuriousWakeup ==
    /\ worker = "waiting"
    /\ worker' = "check"
    /\ UNCHANGED <<rpc, main, queue, stop, pushed, delivered>>

(* Mutant: the worker returns at stop_ and leaves the queue.               *)
ReturnAtStop ==
    /\ worker = "check" /\ stop
    /\ worker' = "exited"
    /\ UNCHANGED <<rpc, main, queue, stop, pushed, delivered>>

Return ==
    /\ worker = "check" /\ stop /\ queue = <<>>
    /\ worker' = "exited"
    /\ UNCHANGED <<rpc, main, queue, stop, pushed, delivered>>

(* Mutant: the newest mail is taken.                                       *)
PopBack ==
    /\ worker = "check" /\ queue # <<>>
    /\ delivered' = Append(delivered, Last(queue))
    /\ queue' = Front(queue)
    /\ worker' = "deliver"
    /\ UNCHANGED <<rpc, main, stop, pushed>>

Pop ==
    /\ worker = "check" /\ queue # <<>>
    /\ delivered' = Append(delivered, Head(queue))
    /\ queue' = Tail(queue)
    /\ worker' = "deliver"
    /\ UNCHANGED <<rpc, main, stop, pushed>>

(* /usr/bin/mail ends, with success or not.                                *)
Deliver ==
    /\ worker = "deliver"
    /\ worker' = "check"
    /\ UNCHANGED <<rpc, main, queue, stop, pushed, delivered>>

---------------------------------------------------------------------------
MainGoes(from, to) == main = from /\ main' = to /\ UNCHANGED rpc

(* The signal handler, on the io_context thread, is inside Shutdown().     *)
Signal ==
    /\ ThreadIsFree
    /\ MainGoes("run", "shutdown")
    /\ UNCHANGED Mail

(* Shutdown() returns, ioc->stop() ends run(), and main returns.           *)
ShutdownReturns ==
    /\ MainGoes("shutdown", "returned")
    /\ \A c \in Calls : rpc[c] \in {"none", "done"}
    /\ UNCHANGED Mail

(* ~MailClient, if there is one: stop_ under the mutex, notify_one, join.  *)
SetStop ==
    /\ MainGoes("returned", IF worker = "none" THEN "exited" ELSE "stopping")
    /\ stop' = (worker # "none")
    /\ UNCHANGED <<queue, worker, pushed, delivered>>

(* Mutant: the destructor does not notify.                                 *)
StopUnnoticed ==
    /\ MainGoes("stopping", "join")
    /\ UNCHANGED Mail

NotifyStop ==
    /\ MainGoes("stopping", "join")
    /\ Wake
    /\ UNCHANGED <<queue, stop, pushed, delivered>>

Join ==
    /\ MainGoes("join", "exited")
    /\ worker = "exited"
    /\ UNCHANGED Mail

---------------------------------------------------------------------------
Coroutine(c) == (\E i \in {1, 2} : Push(c, i) \/ Notify(c, i)) \/ Finish(c)
Worker == Sleep \/ Return \/ Pop \/ Deliver
Exit == ShutdownReturns \/ SetStop \/ NotifyStop \/ Join

Next ==
    \/ \E c \in Calls : GetVerifyCode(c) \/ RedisAnswers(c) \/ Coroutine(c)
    \/ Worker \/ SpuriousWakeup
    \/ Signal \/ Exit

Spec == Init /\ [][Next]_vars

(* Threads run when they can, and /usr/bin/mail ends.  No signal has to    *)
(* come and redis has to answer nothing; cv_ need not wake spuriously.     *)
Fairness == WF_vars(Worker) /\ WF_vars(Exit) /\ \A c \in Calls : WF_vars(Coroutine(c))
LiveSpec == Spec /\ Fairness

---------------------------------------------------------------------------
(* While the worker sleeps on a condition that is true, the notification   *)
(* that will wake it is still to come: no wakeup is lost.                  *)
NoLostWakeup ==
    worker = "waiting" =>
        /\ queue # <<>> => \E c \in Calls : rpc[c] \in {"notify1", "notify2"}
        /\ stop => main = "stopping"

(* The process ends with every mail handed over, in the order of the calls *)
(* to send_mail.                                                           *)
DrainedAtExit == main = "exited" => delivered = pushed

(* The threads implement the queue that send_mail's callers rely on: every *)
(* mail that was taken is handed over once, in the order of the calls and  *)
(* through a shutdown as well, and only then does the process end.         *)
Queue == INSTANCE MailQueue WITH
            Mails <- Calls \X {1, 2},
            taken <- pushed,
            handed <- delivered,
            open <- (main # "exited")
ImplementsMailQueue == Queue!Spec

(* SIGTERM ends the process, unless a call is waiting for redis: its       *)
(* coroutine needs the thread that Shutdown() blocks.                      *)
ExitsUnlessCallPending ==
    main = "shutdown" /\ (\A c \in Calls : rpc[c] # "redis") ~> main = "exited"
=============================================================================
