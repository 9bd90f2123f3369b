------------------------- MODULE VerifyServerProofs -------------------------
(* Proofs about VerifyServer: no wakeup of the mail worker is lost and the  *)
(* process ends with an empty queue, for any number of calls.               *)
EXTENDS VerifyServer, SequenceTheorems, TLAPS

Mails == Calls \X {1, 2}

(* How the queue, the worker and the destructor depend on each other.       *)
QueueInv ==
    /\ pushed = delivered \o queue
    /\ worker = "none" => queue = <<>>
    /\ worker = "exited" => queue = <<>> /\ stop
    /\ stop => main \in {"stopping", "join", "exited"}
    /\ main = "exited" => worker \in {"none", "exited"}

IndInv == TypeOK /\ NoLostWakeup /\ QueueInv

(* Moving the head of the queue to the end of what was delivered keeps the  *)
(* sequence of all mails.                                                   *)
LEMMA MoveHead ==
    ASSUME NEW s \in Seq(Mails), NEW t \in Seq(Mails), t # <<>>
    PROVE  /\ Head(t) \in Mails /\ Tail(t) \in Seq(Mails)
           /\ Append(s, Head(t)) \o Tail(t) = s \o t
<1>1. Head(t) \in Mails /\ Tail(t) \in Seq(Mails)
  OBVIOUS
<1>2. t = <<Head(t)>> \o Tail(t)
  BY <1>1
<1>3. Append(s, Head(t)) = s \o <<Head(t)>>
  BY <1>1
<1>4. (s \o <<Head(t)>>) \o Tail(t) = s \o (<<Head(t)>> \o Tail(t))
  BY <1>1
<1>. QED  BY <1>1, <1>2, <1>3, <1>4

(* Appending to the queue is appending to the sequence of all mails.        *)
LEMMA AppendLast ==
    ASSUME NEW s \in Seq(Mails), NEW t \in Seq(Mails), NEW m \in Mails
    PROVE  Append(s \o t, m) = s \o Append(t, m)
  OBVIOUS

(* The coroutines and the main thread before the destructor: they start no  *)
(* worker but by a push, and wake it after each.                            *)
LEMMA CoroutineSteps ==
    ASSUME IndInv, NEW c \in Calls,
           GetVerifyCode(c) \/ RedisAnswers(c) \/ Coroutine(c)
    PROVE  IndInv'
<1>. USE DEF IndInv, TypeOK, QueueInv, NoLostWakeup, OnThread, Mail, Wake
<1>1. CASE GetVerifyCode(c)
  BY <1>1 DEF GetVerifyCode
<1>2. CASE RedisAnswers(c)
  <2>1. PICK next \in {"push1", "finish"} : rpc' = [rpc EXCEPT ![c] = next]
    BY <1>2 DEF RedisAnswers
  <2>. QED  BY <1>2, <2>1 DEF RedisAnswers, ThreadIsFree
<1>3. ASSUME NEW i \in {1, 2}, Push(c, i)
      PROVE  IndInv'
  <2>1. rpc[c] \in OnThread /\ main = "run" /\ worker # "exited"
    BY <1>3 DEF Push
  <2>2. /\ rpc' = [rpc EXCEPT ![c] = <<"notify1", "notify2">>[i]]
        /\ <<"notify1", "notify2">>[i] \in {"notify1", "notify2"}
    BY <1>3 DEF Push
  <2>. <<c, i>> \in Mails /\ {queue, pushed, delivered} \subseteq Seq(Mails)
    BY DEF Mails
  <2>3. queue' \in Seq(Mails) /\ pushed' \in Seq(Mails) /\ pushed' = delivered' \o queue'
    <3>1. /\ queue' = Append(queue, <<c, i>>) /\ delivered' = delivered
          /\ pushed' = Append(delivered \o queue, <<c, i>>)
          /\ pushed' = Append(pushed, <<c, i>>)
      BY <1>3 DEF Push
    <3>2. Append(delivered \o queue, <<c, i>>) = delivered \o Append(queue, <<c, i>>)
      BY AppendLast, ZenonT(60)
    <3>3. Append(queue, <<c, i>>) \in Seq(Mails) /\ Append(pushed, <<c, i>>) \in Seq(Mails)
      BY AppendProperties
    <3>. QED  BY <3>1, <3>2, <3>3
  <2>4. TypeOK'
    BY <1>3, <2>1, <2>2, <2>3 DEF Push, Mails
  <2>5. NoLostWakeup'
    BY <1>3, <2>1, <2>2 DEF Push
  <2>6. QueueInv'
    BY <1>3, <2>1, <2>3 DEF Push
  <2>. QED  BY <2>4, <2>5, <2>6
<1>4. ASSUME NEW i \in {1, 2}, Notify(c, i)
      PROVE  IndInv'
  <2>1. rpc[c] \in OnThread /\ main = "run"
    BY <1>4 DEF Notify
  <2>2. /\ rpc' = [rpc EXCEPT ![c] = <<"push2", "finish">>[i]]
        /\ <<"push2", "finish">>[i] \in OnThread
    BY <1>4 DEF Notify
  <2>. QED  BY <1>4, <2>1, <2>2 DEF Notify
<1>5. CASE Finish(c)
  BY <1>5 DEF Finish
<1>. QED  BY <1>1, <1>2, <1>3, <1>4, <1>5 DEF Coroutine

(* The worker goes to sleep, or ends, only with an empty queue.             *)
LEMMA WorkerSteps ==
    ASSUME IndInv, Worker \/ SpuriousWakeup
    PROVE  IndInv'
<1>. USE DEF IndInv, TypeOK, QueueInv, NoLostWakeup, OnThread
<1>1. CASE Sleep
  BY <1>1 DEF Sleep
<1>2. CASE Return
  BY <1>2 DEF Return
<1>3. CASE Pop
  <2>1. queue # <<>> /\ queue' = Tail(queue) /\ delivered' = Append(delivered, Head(queue))
    BY <1>3 DEF Pop
  <2>2. Head(queue) \in Mails /\ Tail(queue) \in Seq(Mails)
        /\ Append(delivered, Head(queue)) \o Tail(queue) = delivered \o queue
    BY <2>1, MoveHead DEF Mails
  <2>. QED  BY <1>3, <2>1, <2>2 DEF Pop, Mails
<1>4. CASE Deliver
  BY <1>4 DEF Deliver
<1>5. CASE SpuriousWakeup
  BY <1>5 DEF SpuriousWakeup
<1>. QED  BY <1>1, <1>2, <1>3, <1>4, <1>5 DEF Worker

(* stop_ is set when no coroutine can push any more, and the join waits for *)
(* the worker.                                                              *)
LEMMA MainSteps ==
    ASSUME IndInv, Signal \/ Exit
    PROVE  IndInv'
<1>. USE DEF IndInv, TypeOK, QueueInv, NoLostWakeup, OnThread, Mail, MainGoes
<1>1. CASE Signal
  BY <1>1 DEF Signal, ThreadIsFree
<1>2. CASE ShutdownReturns
  BY <1>2 DEF ShutdownReturns
<1>3. CASE SetStop
  BY <1>3 DEF SetStop
<1>4. CASE NotifyStop
  BY <1>4 DEF NotifyStop, Wake
<1>5. CASE Join
  BY <1>5 DEF Join
<1>. QED  BY <1>1, <1>2, <1>3, <1>4, <1>5 DEF Exit

(* The inductive invariant holds in every reachable state.                  *)
LEMMA Invariance == Spec => []IndInv
<1>1. Init => IndInv
  <2>. SUFFICES ASSUME Init PROVE IndInv
    OBVIOUS
  <2>1. <<>> \in Seq(Mails) /\ <<>> \o <<>> = <<>>
    OBVIOUS
  <2>2. TypeOK
    BY <2>1 DEF Init, TypeOK, OnThread, Mails
  <2>3. NoLostWakeup /\ QueueInv
    BY <2>1 DEF Init, NoLostWakeup, QueueInv
  <2>. QED  BY <2>2, <2>3 DEF IndInv
<1>2. IndInv /\ [Next]_vars => IndInv'
  <2>. SUFFICES ASSUME IndInv, [Next]_vars PROVE IndInv'
    OBVIOUS
  <2>1. CASE UNCHANGED vars
    BY <2>1 DEF vars, IndInv, TypeOK, QueueInv, NoLostWakeup, OnThread
  <2>2. CASE Next
    BY <2>2, CoroutineSteps, WorkerSteps, MainSteps DEF Next
  <2>. QED  BY <2>1, <2>2
<1>. QED  BY <1>1, <1>2, PTL DEF Spec

(* Type correctness: among others, at most one coroutine is on the          *)
(* io_context thread, and none once the signal handler blocks it.           *)
THEOREM Typed == Spec => []TypeOK
<1>1. IndInv => TypeOK
  BY DEF IndInv
<1>. QED  BY <1>1, Invariance, PTL

(* The worker of mail_client.hpp:57 never sleeps through a mail or through  *)
(* the destructor's stop_, for any number of concurrent calls.              *)
THEOREM WakeupsNotLost == Spec => []NoLostWakeup
<1>1. IndInv => NoLostWakeup
  BY DEF IndInv
<1>. QED  BY <1>1, Invariance, PTL

(* When the verify server exits, every mail was handed over, in the order   *)
(* in which send_mail took it.                                              *)
THEOREM Drained == Spec => []DrainedAtExit
<1>1. IndInv => DrainedAtExit
  <2>. SUFFICES ASSUME IndInv, main = "exited" PROVE delivered = pushed
    BY DEF DrainedAtExit
  <2>1. queue = <<>> /\ pushed = delivered \o queue /\ delivered \in Seq(Calls \X {1, 2})
    BY DEF IndInv, QueueInv, TypeOK
  <2>. QED  BY <2>1
<1>. QED  BY <1>1, Invariance, PTL

---------------------------------------------------------------------------
(* The head of the queue is the mail after the delivered ones.              *)
LEMMA HeadIsNext ==
    ASSUME NEW s \in Seq(Mails), NEW t \in Seq(Mails), t # <<>>
    PROVE  Len(s) < Len(s \o t) /\ (s \o t)[Len(s) + 1] = Head(t)
<1>1. Len(t) \in Nat /\ Len(t) # 0 /\ Len(s) \in Nat
  BY EmptySeq
<1>. QED  BY <1>1

(* Every step of the threads is a step of the queue that the callers of     *)
(* send_mail see, or is invisible to them.                                  *)
LEMMA QueueStep ==
    ASSUME IndInv, [Next]_vars
    PROVE  [Queue!Next]_(Queue!vars)
<1>. DEFINE Quiet == UNCHANGED <<pushed, delivered>> /\ (main' = "exited" <=> main = "exited")
<1>1. Quiet => UNCHANGED Queue!vars
  BY DEF Queue!vars
<1>2. ASSUME NEW c \in Calls, NEW i \in {1, 2}, Push(c, i)
      PROVE  Queue!Next
  <2>1. main = "run" /\ UNCHANGED main
    BY <1>2 DEF IndInv, TypeOK, OnThread, Push
  <2>2. Queue!Take(<<c, i>>)
    BY <1>2, <2>1 DEF Queue!Take, Push
  <2>. QED  BY <2>2 DEF Queue!Next
<1>3. ASSUME Pop
      PROVE  Queue!Next
  <2>1. /\ queue # <<>> /\ delivered' = Append(delivered, Head(queue))
        /\ UNCHANGED <<pushed, main>> /\ main # "exited"
    BY <1>3 DEF Pop, IndInv, QueueInv
  <2>2. /\ queue \in Seq(Mails) /\ delivered \in Seq(Mails)
        /\ pushed = delivered \o queue
    BY DEF IndInv, QueueInv, TypeOK, Mails
  <2>3. Len(delivered) < Len(pushed) /\ pushed[Len(delivered) + 1] = Head(queue)
    BY <2>1, <2>2, HeadIsNext
  <2>4. Queue!HandOver
    BY <2>1, <2>3 DEF Queue!HandOver
  <2>. QED  BY <2>4 DEF Queue!Next
<1>4. ASSUME main # "exited", main' = "exited", UNCHANGED <<pushed, delivered>>,
             queue = <<>>
      PROVE  Queue!Next
  <2>1. delivered = pushed
    <3>1. delivered \in Seq(Mails) /\ pushed = delivered \o queue
      BY DEF IndInv, QueueInv, TypeOK, Mails
    <3>. QED  BY <1>4, <3>1
  <2>2. Queue!Close
    BY <1>4, <2>1 DEF Queue!Close
  <2>. QED  BY <2>2 DEF Queue!Next
<1>5. ASSUME SetStop \/ Join
      PROVE  Quiet \/ Queue!Next
  BY <1>4, <1>5 DEF SetStop, Join, MainGoes, Mail, IndInv, QueueInv
<1>6. ASSUME NEW c \in Calls, GetVerifyCode(c) \/ RedisAnswers(c) \/ Coroutine(c)
      PROVE  Quiet \/ Queue!Next
  BY <1>2, <1>6 DEF GetVerifyCode, RedisAnswers, Coroutine, Notify, Finish, Mail
<1>7. ASSUME Worker \/ SpuriousWakeup
      PROVE  Quiet \/ Queue!Next
  BY <1>3, <1>7 DEF Worker, Sleep, Return, Deliver, SpuriousWakeup
<1>8. ASSUME Signal \/ ShutdownReturns \/ NotifyStop
      PROVE  Quiet
  BY <1>8 DEF Signal, ShutdownReturns, NotifyStop, MainGoes, Mail
<1>9. UNCHANGED vars => Quiet
  BY DEF vars
<1>. HIDE DEF Quiet
<1>. QED  BY <1>1, <1>5, <1>6, <1>7, <1>8, <1>9 DEF Next, Exit

(* The MailClient is the queue of MailQueue up to its fairness: one mail at *)
(* a time, in the order of the calls, through a shutdown as well.           *)
THEOREM Refinement == Spec => Queue!Safety
<1>1. Init => Queue!Init
  BY DEF Init, Queue!Init
<1>2. IndInv /\ [Next]_vars => [Queue!Next]_(Queue!vars)
  BY QueueStep
<1>. QED  BY <1>1, <1>2, Invariance, PTL DEF Spec, Queue!Safety
=============================================================================
