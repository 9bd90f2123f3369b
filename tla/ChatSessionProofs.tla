------------------------- MODULE ChatSessionProofs -------------------------
(* Theorems about ChatSession for every number of sessions, users, tokens  *)
(* and frames, every channel capacity and every content of a fresh uid_.   *)
EXTENDS ChatSession, FiniteSetTheorems, TLAPS

(* The frames of the model are frames, and NoRequest is a request.         *)
LEMMA FrameTypes ==
    /\ Response \in Frame
    /\ ErrorAndClose \in Frame
    /\ \A u \in Uids : Notify(u) \in Frame
    /\ NoRequest \in Request
BY DEF Response, ErrorAndClose, Notify, Frame, NoRequest, Request

(* deliver() keeps a well-formed channel, whatever it does with the frame. *)
LEMMA DeliveredType ==
    ASSUME NEW box \in Outbox, NEW frame \in Frame
    PROVE  Delivered(box, frame) \in Outbox
<1> DEFINE Buffered == [box EXCEPT !.channel_ = Append(@, frame)]
           Handed == [box EXCEPT !.writer = "got", !.msg = frame]
<1>1. Append(box.channel_, frame) \in Seq(Frame)
  BY DEF Outbox
<1>2. Buffered \in Outbox
  BY <1>1 DEF Outbox
<1>3. Handed \in Outbox
  BY DEF Outbox
<1> QED
  BY <1>2, <1>3 DEF Delivered

(* async_receive takes a frame of the channel or waits.                    *)
LEMMA NextFrameType ==
    ASSUME NEW box \in Outbox
    PROVE  NextFrame(box) \in Outbox
<1>1. CASE box.channel_ = <<>>
  BY <1>1, FrameTypes DEF NextFrame, Outbox
<1>2. CASE box.channel_ # <<>>
  <2>1. Head(box.channel_) \in Frame /\ Tail(box.channel_) \in Seq(Frame)
    BY <1>2 DEF Outbox
  <2> QED
    BY <1>2, <2>1 DEF NextFrame, Outbox
<1> QED
  BY <1>1, <1>2

(* Participants are sessions, of which there are finitely many.            *)
LEMMA ParticipantCount ==
    ASSUME NEW P \in SUBSET Sessions
    PROVE  Cardinality(P) \in Nat
BY SessionsAssumption, FS_Subset, FS_CardinalityType

(* Where stop() leaves the deadline, whatever its stage was.               *)
LEMMA CancelledType ==
    \A stage \in DeadlineStages : Cancelled(stage) \in DeadlineStages
BY DEF Cancelled, DeadlineStages

(* Type correctness.                                                       *)
THEOREM TypeInvariant == Spec => []TypeOK
<1>1. Init => TypeOK
  <2> SUFFICES ASSUME Init PROVE TypeOK
    OBVIOUS
  <2>1. [writer |-> "recv", msg |-> Response, channel_ |-> <<>>] \in Outbox
    BY FrameTypes DEF Outbox
  <2> QED
    BY <2>1, FrameTypes, UidAssumption DEF Init, TypeOK, ReaderStages, DeadlineStages
<1>2. TypeOK /\ [Next]_vars => TypeOK'
  <2> SUFFICES ASSUME TypeOK, [Next]_vars PROVE TypeOK'
    OBVIOUS
  <2> USE DEF TypeOK, connection, identity, redis, history
  <2>1. ASSUME NEW s \in Sessions, Accept(s) PROVE TypeOK'
    BY <2>1 DEF Accept, ReaderStages, DeadlineStages
  <2>2. ASSUME NEW s \in Sessions, DeadlineExpires(s) PROVE TypeOK'
    BY <2>2 DEF DeadlineExpires, DeadlineStages
  <2>3. ASSUME NEW s \in Sessions, DeadlineAborted(s) PROVE TypeOK'
    BY <2>3 DEF DeadlineAborted, DeadlineStages
  <2>4. ASSUME NEW s \in Sessions, LoginTimeout(s) PROVE TypeOK'
    BY <2>4 DEF LoginTimeout, DeadlineStages, Disconnect
  <2>5. ASSUME NEW s \in Sessions, NEW r \in Request, Receive(s, r) PROVE TypeOK'
    BY <2>5 DEF Receive, ReaderStages
  <2>6. ASSUME NEW s \in Sessions, PeerCloses(s) PROVE TypeOK'
    BY <2>6, FrameTypes, CancelledType DEF PeerCloses, Stop, Disconnect, CancelDeadline, ReaderReturns, ReaderStages
  <2>7. ASSUME NEW s \in Sessions, ReadAborted(s) PROVE TypeOK'
    BY <2>7, FrameTypes, CancelledType DEF ReadAborted, Stop, Disconnect, CancelDeadline, ReaderReturns, ReaderStages
  <2>8. ASSUME NEW s \in Sessions, HeaderInvalid(s) PROVE TypeOK'
    BY <2>8, FrameTypes, CancelledType DEF HeaderInvalid, Stop, Disconnect, CancelDeadline, ReaderReturns, ReaderStages
  <2>9. ASSUME NEW s \in Sessions, NotAuthenticated(s) PROVE TypeOK'
    BY <2>9, FrameTypes, DeliveredType DEF NotAuthenticated, Refuse, Reply, ReaderStages
  <2>10. ASSUME NEW s \in Sessions, RequestInvalid(s) PROVE TypeOK'
    BY <2>10, FrameTypes, DeliveredType DEF RequestInvalid, Reply, ReaderStages
  <2>11. ASSUME NEW s \in Sessions, QueryAnswered(s) PROVE TypeOK'
    BY <2>11, FrameTypes, DeliveredType DEF QueryAnswered, Reply, ReaderStages
  <2>12. ASSUME NEW s \in Sessions, LoginGarbled(s) PROVE TypeOK'
    BY <2>12, FrameTypes, DeliveredType DEF LoginGarbled, Refuse, Reply, ReaderStages
  <2>13. ASSUME NEW s \in Sessions, TokenRejected(s) PROVE TypeOK'
    BY <2>13, FrameTypes, DeliveredType DEF TokenRejected, Refuse, Reply, ReaderStages
  <2>14. ASSUME NEW s \in Sessions, UserMissing(s) PROVE TypeOK'
    BY <2>14, FrameTypes, DeliveredType DEF UserMissing, Refuse, Reply, ReaderStages
  <2>15. ASSUME NEW s \in Sessions, LoginThrows(s) PROVE TypeOK'
    BY <2>15, FrameTypes, DeliveredType DEF LoginThrows, Reply, ReaderStages
  <2>16. ASSUME NEW s \in Sessions, LoginSucceeds(s) PROVE TypeOK'
    BY <2>16, FrameTypes, DeliveredType DEF LoginSucceeds, Reply, ReaderStages
  <2>17. ASSUME NEW s \in Sessions, QueryStarts(s) PROVE TypeOK'
    BY <2>17 DEF QueryStarts, ReaderStages
  <2>18. ASSUME NEW s \in Sessions, LoginStarts(s) PROVE TypeOK'
    BY <2>18 DEF LoginStarts, ReaderStages
  <2>19. ASSUME NEW s \in Sessions, NEW u \in Uids, NEW t \in Sessions, QueryNotifies(s, u, t) PROVE TypeOK'
    <3> DEFINE box == [outbox EXCEPT ![t] = Delivered(@, Notify(u))]
    <3>1. box \in [Sessions -> Outbox]
      BY FrameTypes, DeliveredType
    <3>2. outbox' = [box EXCEPT ![s] = Delivered(@, Response)]
      BY <2>19 DEF QueryNotifies
    <3>3. outbox' \in [Sessions -> Outbox]
      BY <3>1, <3>2, FrameTypes, DeliveredType
    <3> QED
      BY <2>19, <3>3, FrameTypes DEF QueryNotifies, ReaderStages
  <2>20. ASSUME NEW u \in Uids, NEW t \in Sessions, PeerNotifies(u, t) PROVE TypeOK'
    BY <2>20, FrameTypes, DeliveredType DEF PeerNotifies
  <2>21. ASSUME NEW s \in Sessions, TokenAccepted(s) PROVE TypeOK'
    <3>1. request[s].uid \in Uids
      BY <2>21 DEF TokenAccepted, Request
    <3> QED
      BY <2>21, <3>1 DEF TokenAccepted, ReaderStages
  <2>22. ASSUME NEW s \in Sessions, UserFound(s) PROVE TypeOK'
    BY <2>22, ParticipantCount DEF UserFound, ReaderStages
  <2>23. ASSUME NEW s \in Sessions, Authenticated(s) PROVE TypeOK'
    BY <2>23, CancelledType DEF Authenticated, CancelDeadline, ReaderStages, Request
  <2>24. ASSUME NEW u \in Uids, NEW t \in Tokens, IssueToken(u, t) PROVE TypeOK'
    BY <2>24 DEF IssueToken
  <2>25. ASSUME NEW s \in Sessions, StartWrite(s) PROVE TypeOK'
    BY <2>25 DEF StartWrite, Outbox
  <2>26. ASSUME NEW s \in Sessions, WriteFails(s) PROVE TypeOK'
    <3>1. outbox' \in [Sessions -> Outbox]
      BY <2>26, FrameTypes, ZenonT(60) DEF WriteFails, WriterReturns, Outbox
    <3> QED
      BY <2>26, <3>1, CancelledType DEF WriteFails, Stop, Disconnect, CancelDeadline
  <2>27. ASSUME NEW s \in Sessions, WriteCloses(s) PROVE TypeOK'
    <3>1. outbox' \in [Sessions -> Outbox]
      BY <2>27, FrameTypes, ZenonT(60) DEF WriteCloses, WriterReturns, Outbox
    <3> QED
      BY <2>27, <3>1, CancelledType DEF WriteCloses, Stop, Disconnect, CancelDeadline
  <2>28. ASSUME NEW s \in Sessions, WriteContinues(s) PROVE TypeOK'
    BY <2>28, NextFrameType DEF WriteContinues
  <2>29. CASE UNCHANGED vars
    BY <2>29 DEF vars
  <2> QED
    BY <2>1, <2>2, <2>3, <2>4, <2>5, <2>6, <2>7, <2>8, <2>9, <2>10, <2>11, <2>12, <2>13, <2>14, <2>15, <2>16, <2>17, <2>18, <2>19, <2>20, <2>21, <2>22, <2>23, <2>24, <2>25, <2>26, <2>27, <2>28, <2>29
       DEF Next, Reader, Writer, Deadline, Environment
<1> QED
  BY <1>1, <1>2, PTL DEF Spec

---------------------------------------------------------------------------
(* Only listener() opens a connection and only stop() closes one: every    *)
(* other step leaves socket_ and participants_ alone.                      *)
LEMMA ConnectionSteps ==
    ASSUME Next
    PROVE  \/ UNCHANGED connection
           \/ \E s \in Sessions : Accept(s)
           \/ \E s \in Sessions : Disconnect(s)
<1> USE DEF connection
<1>1. ASSUME NEW s \in Sessions, Reader(s)
      PROVE  UNCHANGED connection \/ Disconnect(s)
  <2>1. CASE ReadAborted(s) \/ HeaderInvalid(s)
    BY <2>1 DEF ReadAborted, HeaderInvalid, Stop
  <2>2. CASE \E u \in Uids, t \in Sessions : QueryNotifies(s, u, t)
    BY <2>2 DEF QueryNotifies
  <2>3. CASE NotAuthenticated(s) \/ RequestInvalid(s) \/ QueryStarts(s)
             \/ QueryAnswered(s) \/ LoginGarbled(s) \/ LoginStarts(s)
    BY <2>3 DEF NotAuthenticated, RequestInvalid, QueryStarts, QueryAnswered,
                LoginGarbled, LoginStarts
  <2>4. CASE TokenAccepted(s) \/ TokenRejected(s) \/ UserFound(s)
             \/ UserMissing(s) \/ LoginThrows(s) \/ Authenticated(s)
             \/ LoginSucceeds(s)
    BY <2>4 DEF TokenAccepted, TokenRejected, UserFound, UserMissing,
                LoginThrows, Authenticated, LoginSucceeds
  <2> QED
    BY <1>1, <2>1, <2>2, <2>3, <2>4 DEF Reader
<1>2. ASSUME NEW s \in Sessions, Writer(s) \/ Deadline(s)
      PROVE  UNCHANGED connection \/ Disconnect(s)
  BY <1>2 DEF Writer, Deadline, StartWrite, WriteFails, WriteContinues,
              WriteCloses, DeadlineExpires, DeadlineAborted, LoginTimeout, Stop
<1>3. ASSUME Environment
      PROVE  \/ UNCHANGED connection
             \/ \E s \in Sessions : Accept(s) \/ Disconnect(s)
  BY <1>3 DEF Environment, PeerCloses, Receive, PeerNotifies, IssueToken, Stop
<1> QED
  BY <1>1, <1>2, <1>3 DEF Next

(* participants_ and the open sockets never drift apart.                   *)
THEOREM Connected == Spec => []ParticipantsAreConnected
<1>1. Init => ParticipantsAreConnected
  BY DEF Init, ParticipantsAreConnected
<1>2. TypeOK /\ ParticipantsAreConnected /\ [Next]_vars => ParticipantsAreConnected'
  <2> SUFFICES ASSUME TypeOK, ParticipantsAreConnected, [Next]_vars
               PROVE  ParticipantsAreConnected'
    OBVIOUS
  <2> USE DEF TypeOK, ParticipantsAreConnected, connection
  <2>1. CASE UNCHANGED connection
    BY <2>1
  <2>2. ASSUME NEW s \in Sessions, Accept(s) PROVE ParticipantsAreConnected'
    BY <2>2 DEF Accept
  <2>3. ASSUME NEW s \in Sessions, Disconnect(s) PROVE ParticipantsAreConnected'
    BY <2>3 DEF Disconnect
  <2>4. CASE UNCHANGED vars
    BY <2>4 DEF vars
  <2> QED
    BY <2>1, <2>2, <2>3, <2>4, ConnectionSteps
<1> QED
  BY <1>1, <1>2, TypeInvariant, PTL DEF Spec

---------------------------------------------------------------------------
(* The inductive strengthening: a handler other than login runs only for   *)
(* an authenticated session, and between the comparison of the token and   *)
(* set_uid the reader is suspended with a request whose uid is proven.     *)
IdentityInv ==
    /\ AuthenticatedAsProven
    /\ \A s \in Sessions : reader[s] = "query" => is_authenticated_[s]
    /\ \A s \in Sessions :
          reader[s] \in {"info", "count"} => <<s, request[s].uid>> \in proven

LEMMA IdentityInvariance == Spec => []IdentityInv
<1>1. Init => IdentityInv
  BY DEF Init, IdentityInv, AuthenticatedAsProven
<1>2. TypeOK /\ IdentityInv /\ [Next]_vars => IdentityInv'
  <2> SUFFICES ASSUME TypeOK, IdentityInv, [Next]_vars PROVE IdentityInv'
    OBVIOUS
  <2> USE DEF TypeOK, IdentityInv, AuthenticatedAsProven, identity, history
  <2>1. ASSUME NEW s \in Sessions, Accept(s)
        PROVE  IdentityInv'
    BY <2>1 DEF Accept
  <2>2. ASSUME NEW s \in Sessions, Deadline(s)
        PROVE  IdentityInv'
    BY <2>2 DEF Deadline, DeadlineExpires, DeadlineAborted, LoginTimeout
  <2>3. ASSUME NEW s \in Sessions, Writer(s)
        PROVE  IdentityInv'
    BY <2>3 DEF Writer, StartWrite, WriteFails, WriteContinues, WriteCloses
  <2>4. ASSUME NEW s \in Sessions, NEW r \in Request, Receive(s, r)
        PROVE  IdentityInv'
    BY <2>4 DEF Receive
  <2>5. ASSUME NEW s \in Sessions, PeerCloses(s) \/ ReadAborted(s) \/ HeaderInvalid(s)
        PROVE  IdentityInv'
    BY <2>5 DEF PeerCloses, ReadAborted, HeaderInvalid, ReaderReturns
  <2>6. ASSUME NEW s \in Sessions, NotAuthenticated(s) \/ RequestInvalid(s) \/ QueryAnswered(s)
        PROVE  IdentityInv'
    BY <2>6 DEF NotAuthenticated, RequestInvalid, QueryAnswered, Refuse, Reply
  <2>7. ASSUME NEW s \in Sessions, QueryStarts(s)
        PROVE  IdentityInv'
    BY <2>7 DEF QueryStarts
  <2>8. ASSUME NEW s \in Sessions, NEW u \in Uids, NEW t \in Sessions, QueryNotifies(s, u, t)
        PROVE  IdentityInv'
    BY <2>8 DEF QueryNotifies
  <2>9. ASSUME NEW u \in Uids, NEW t \in Sessions, PeerNotifies(u, t)
        PROVE  IdentityInv'
    BY <2>9 DEF PeerNotifies
  <2>10. ASSUME NEW s \in Sessions, LoginGarbled(s) \/ TokenRejected(s) \/ UserMissing(s)
        PROVE  IdentityInv'
    BY <2>10 DEF LoginGarbled, TokenRejected, UserMissing, Refuse, Reply
  <2>11. ASSUME NEW s \in Sessions, LoginThrows(s) \/ LoginSucceeds(s)
        PROVE  IdentityInv'
    BY <2>11 DEF LoginThrows, LoginSucceeds, Reply
  <2>12. ASSUME NEW s \in Sessions, LoginStarts(s)
        PROVE  IdentityInv'
    BY <2>12 DEF LoginStarts
  <2>13. ASSUME NEW s \in Sessions, TokenAccepted(s)
        PROVE  IdentityInv'
    BY <2>13 DEF TokenAccepted
  <2>14. ASSUME NEW s \in Sessions, UserFound(s)
        PROVE  IdentityInv'
    BY <2>14 DEF UserFound
  <2>15. ASSUME NEW s \in Sessions, Authenticated(s)
        PROVE  IdentityInv'
    BY <2>15 DEF Authenticated, Request
  <2>16. ASSUME NEW u \in Uids, NEW t \in Tokens, IssueToken(u, t)
        PROVE  IdentityInv'
    BY <2>16 DEF IssueToken
  <2>17. CASE UNCHANGED vars
    BY <2>17 DEF vars
  <2> QED
    BY <2>1, <2>2, <2>3, <2>4, <2>5, <2>6, <2>7, <2>8, <2>9, <2>10, <2>11, <2>12, <2>13, <2>14, <2>15, <2>16, <2>17
       DEF Next, Reader, Environment
<1> QED
  BY <1>1, <1>2, TypeInvariant, PTL DEF Spec

(* What every session is known as was backed by a token, and only sessions *)
(* that are known reach a handler other than login.                        *)
THEOREM Identity == Spec => [](AuthenticatedAsProven /\ ServedAsProven)
<1>1. IdentityInv => AuthenticatedAsProven /\ ServedAsProven
  BY DEF IdentityInv, AuthenticatedAsProven, ServedAsProven
<1> QED
  BY <1>1, IdentityInvariance, PTL

---------------------------------------------------------------------------
(* deliver() never wakes a writer that returned.                           *)
LEMMA DeliveredDone ==
    ASSUME NEW box \in Outbox, NEW frame \in Frame, box.writer = "done"
    PROVE  Delivered(box, frame).writer = "done"
BY DEF Delivered, Full, Outbox

(* Nothing is written to a client after its close_after_send frame:        *)
(* farewell only grows in WriteCloses, a closed socket stays closed, and a *)
(* writer that returned is never restarted.                                *)
THEOREM CloseFrame == Spec => []CloseFrameIsLast
<1>1. Init => CloseFrameIsLast
  BY DEF Init, CloseFrameIsLast
<1>2. TypeOK /\ CloseFrameIsLast /\ [Next]_vars => CloseFrameIsLast'
  <2> SUFFICES ASSUME TypeOK, CloseFrameIsLast, [Next]_vars PROVE CloseFrameIsLast'
    OBVIOUS
  <2> USE DEF TypeOK, CloseFrameIsLast, connection, history
  <2>1. ASSUME UNCHANGED <<outbox, farewell>> PROVE CloseFrameIsLast'
    <3>1. \A s \in Sessions : socket_[s] = "closed" => socket_'[s] = "closed"
      <4>1. CASE UNCHANGED vars
        BY <4>1 DEF vars
      <4>2. CASE Next
        BY <4>2, ConnectionSteps DEF Accept, Disconnect
      <4> QED
        BY <4>1, <4>2
    <3> QED
      BY <2>1, <3>1
  <2>2. ASSUME NEW s \in Sessions, NEW f \in Frame,
               outbox' = [outbox EXCEPT ![s] = Delivered(@, f)],
               UNCHANGED <<connection, farewell>>
        PROVE  CloseFrameIsLast'
    BY <2>2, DeliveredDone
  <2>3. ASSUME NEW s \in Sessions, NotAuthenticated(s) \/ RequestInvalid(s) \/ QueryAnswered(s)
               \/ LoginThrows(s) \/ LoginSucceeds(s)
        PROVE  CloseFrameIsLast'
    BY <2>2, <2>3, FrameTypes
       DEF NotAuthenticated, RequestInvalid, QueryAnswered, LoginThrows,
           LoginSucceeds, Refuse, Reply
  <2>4. ASSUME NEW s \in Sessions, LoginGarbled(s) \/ TokenRejected(s) \/ UserMissing(s)
        PROVE  CloseFrameIsLast'
    BY <2>2, <2>4, FrameTypes
       DEF LoginGarbled, TokenRejected, UserMissing, Refuse, Reply
  <2>5. ASSUME NEW s \in Sessions, NEW u \in Uids, NEW t \in Sessions, QueryNotifies(s, u, t)
        PROVE  CloseFrameIsLast'
    <3> DEFINE box == [outbox EXCEPT ![t] = Delivered(@, Notify(u))]
    <3>1. box \in [Sessions -> Outbox]
      BY FrameTypes, DeliveredType
    <3>2. \A x \in Sessions : outbox[x].writer = "done" => box[x].writer = "done"
      BY FrameTypes, DeliveredDone
    <3>3. outbox' = [box EXCEPT ![s] = Delivered(@, Response)]
      BY <2>5 DEF QueryNotifies
    <3>4. \A x \in Sessions : box[x].writer = "done" => outbox'[x].writer = "done"
      <4> HIDE DEF box
      <4> QED
        BY <3>1, <3>2, <3>3, FrameTypes, DeliveredDone
    <3> HIDE DEF box
    <3> QED
      BY <2>5, <3>2, <3>4 DEF QueryNotifies
  <2>6. ASSUME NEW u \in Uids, NEW t \in Sessions, PeerNotifies(u, t)
        PROVE  CloseFrameIsLast'
    BY <2>2, <2>6, FrameTypes DEF PeerNotifies
  <2>7. ASSUME NEW s \in Sessions, StartWrite(s)
        PROVE  CloseFrameIsLast'
    BY <2>7 DEF StartWrite, Outbox
  <2>8. ASSUME NEW s \in Sessions, WriteContinues(s)
        PROVE  CloseFrameIsLast'
    BY <2>8 DEF WriteContinues
  <2>9. ASSUME NEW s \in Sessions, WriteFails(s) \/ WriteCloses(s)
        PROVE  CloseFrameIsLast'
    <3>1. outbox' = [outbox EXCEPT ![s].writer = "done", ![s].msg = Response]
      BY <2>9 DEF WriteFails, WriteCloses, WriterReturns
    <3>3. outbox'[s].writer = "done"
      BY <3>1 DEF Outbox
    <3>4. \A x \in Sessions : outbox[x].writer = "done" => outbox'[x].writer = "done"
      BY <3>1, <3>3
    <3>5. /\ socket_' = [socket_ EXCEPT ![s] = "closed"]
          /\ farewell' \in {farewell, farewell \cup {s}}
      BY <2>9 DEF WriteFails, WriteCloses, Stop, Disconnect
    <3> QED
      BY <3>3, <3>4, <3>5
  <2>10. ASSUME NEW s \in Sessions, Accept(s) \/ Deadline(s) \/ PeerCloses(s) \/ ReadAborted(s)
               \/ HeaderInvalid(s) \/ QueryStarts(s) \/ LoginStarts(s)
               \/ TokenAccepted(s) \/ UserFound(s) \/ Authenticated(s)
        PROVE  CloseFrameIsLast'
    BY <2>1, <2>10
       DEF Accept, Deadline, DeadlineExpires, DeadlineAborted, LoginTimeout,
           PeerCloses, ReadAborted, HeaderInvalid, QueryStarts, LoginStarts,
           TokenAccepted, UserFound, Authenticated
  <2>11. ASSUME NEW s \in Sessions, NEW r \in Request, Receive(s, r)
        PROVE  CloseFrameIsLast'
    BY <2>1, <2>11 DEF Receive
  <2>12. ASSUME NEW u \in Uids, NEW t \in Tokens, IssueToken(u, t)
        PROVE  CloseFrameIsLast'
    BY <2>1, <2>12 DEF IssueToken
  <2>13. CASE UNCHANGED vars
    BY <2>13 DEF vars
  <2> QED
    BY <2>1, <2>3, <2>4, <2>5, <2>6, <2>7, <2>8, <2>9, <2>10, <2>11, <2>12, <2>13
       DEF Next, Reader, Writer, Environment
<1> QED
  BY <1>1, <1>2, TypeInvariant, PTL DEF Spec

---------------------------------------------------------------------------
(* A timer completion that is queued as expired is consumed by the check   *)
(* in check_login_deadline only: cancel() comes too late for it, and no    *)
(* other step resumes that coroutine.                                      *)
LEMMA ExpiredIsChecked ==
    ASSUME TypeOK, Next, NEW s \in Sessions,
           login_deadline_[s] = "expired", login_deadline_'[s] = "done"
    PROVE  LoginTimeout(s)
<1> USE DEF TypeOK, Cancelled
<1>1. ASSUME NEW x \in Sessions, Accept(x) PROVE FALSE
  BY <1>1 DEF Accept
<1>2. ASSUME NEW x \in Sessions, Deadline(x) PROVE LoginTimeout(s)
  BY <1>2 DEF Deadline, DeadlineExpires, DeadlineAborted, LoginTimeout
<1>3. ASSUME NEW x \in Sessions, CancelDeadline(x) PROVE FALSE
  BY <1>3 DEF CancelDeadline
<1>4. ASSUME UNCHANGED login_deadline_ PROVE FALSE
  BY <1>4
<1>5. ASSUME NEW x \in Sessions, Reader(x)
      PROVE  UNCHANGED login_deadline_ \/ CancelDeadline(x)
  <2>1. CASE ReadAborted(x) \/ HeaderInvalid(x) \/ Authenticated(x)
    BY <2>1 DEF ReadAborted, HeaderInvalid, Authenticated, Stop
  <2>2. CASE \E u \in Uids, t \in Sessions : QueryNotifies(x, u, t)
    BY <2>2 DEF QueryNotifies
  <2>3. CASE NotAuthenticated(x) \/ RequestInvalid(x) \/ QueryStarts(x)
             \/ QueryAnswered(x) \/ LoginGarbled(x) \/ LoginStarts(x)
    BY <2>3 DEF NotAuthenticated, RequestInvalid, QueryStarts, QueryAnswered,
                LoginGarbled, LoginStarts
  <2>4. CASE TokenAccepted(x) \/ TokenRejected(x) \/ UserFound(x)
             \/ UserMissing(x) \/ LoginThrows(x) \/ LoginSucceeds(x)
    BY <2>4 DEF TokenAccepted, TokenRejected, UserFound, UserMissing,
                LoginThrows, LoginSucceeds
  <2> QED
    BY <1>5, <2>1, <2>2, <2>3, <2>4 DEF Reader
<1>6. ASSUME NEW x \in Sessions, Writer(x) \/ PeerCloses(x)
      PROVE  UNCHANGED login_deadline_ \/ CancelDeadline(x)
  BY <1>6 DEF Writer, StartWrite, WriteFails, WriteContinues, WriteCloses,
              PeerCloses, Stop
<1>7. ASSUME \/ \E x \in Sessions, r \in Request : Receive(x, r)
             \/ \E u \in Uids, t \in Sessions : PeerNotifies(u, t)
             \/ \E u \in Uids, t \in Tokens : IssueToken(u, t)
      PROVE  UNCHANGED login_deadline_
  BY <1>7 DEF Receive, PeerNotifies, IssueToken
<1> QED
  BY <1>1, <1>2, <1>3, <1>4, <1>5, <1>6, <1>7 DEF Next, Environment

(* The login deadline never disconnects a session that has logged in, also *)
(* when mark_authenticated cancelled the timer too late.                   *)
THEOREM DeadlineSpares == Spec => DeadlineSparesAuthenticated
<1> DEFINE Spares ==
      \A s \in Sessions :
          login_deadline_[s] = "expired" /\ login_deadline_'[s] = "done"
          /\ is_authenticated_[s] => socket_'[s] = socket_[s]
<1>1. TypeOK /\ [Next]_vars => [Spares]_vars
  <2> SUFFICES ASSUME TypeOK, Next, NEW s \in Sessions,
                      login_deadline_[s] = "expired", login_deadline_'[s] = "done",
                      is_authenticated_[s]
               PROVE  socket_'[s] = socket_[s]
    OBVIOUS
  <2>1. LoginTimeout(s)
    BY ExpiredIsChecked
  <2> QED
    BY <2>1 DEF LoginTimeout, connection
<1>2. [][Spares]_vars => DeadlineSparesAuthenticated
  BY DEF DeadlineSparesAuthenticated
<1> QED
  BY <1>1, <1>2, TypeInvariant, PTL DEF Spec
---------------------------------------------------------------------------
(* The frames of a channel and of its writer, and how they change.         *)
Held(box) ==
    {box.channel_[i] : i \in 1..Len(box.channel_)}
    \cup (IF box.writer = "recv" THEN {} ELSE {box.msg})

LEMMA HeldDelivered ==
    ASSUME NEW box \in Outbox, NEW frame \in Frame
    PROVE  Held(Delivered(box, frame)) \subseteq Held(box) \cup {frame}
<1>1. PICK c \in Seq(Frame) : c = box.channel_
  BY DEF Outbox
<1>2. CASE box.writer = "recv"
  <2>1. /\ Delivered(box, frame).channel_ = box.channel_
        /\ Delivered(box, frame).msg = frame
    BY <1>2 DEF Delivered, Full, Outbox
  <2> QED
    BY <2>1 DEF Held
<1>3. CASE box.writer # "recv" /\ ~Full(box)
  <2>1. Delivered(box, frame) = [box EXCEPT !.channel_ = Append(@, frame)]
    BY <1>3 DEF Delivered
  <2>2. /\ Delivered(box, frame).channel_ = Append(c, frame)
        /\ Delivered(box, frame).writer = box.writer
        /\ Delivered(box, frame).msg = box.msg
    BY <1>1, <2>1 DEF Outbox
  <2>3. \A i \in 1..Len(Append(c, frame)) :
           Append(c, frame)[i] = frame \/ (i \in 1..Len(c) /\ Append(c, frame)[i] = c[i])
    BY <1>1
  <2>4. Held(Delivered(box, frame))
          = {Append(c, frame)[i] : i \in 1..Len(Append(c, frame))} \cup {box.msg}
    BY <1>3, <2>2 DEF Held
  <2>5. Held(box) = {c[i] : i \in 1..Len(c)} \cup {box.msg}
    BY <1>1, <1>3 DEF Held
  <2> QED
    BY <2>3, <2>4, <2>5
<1>4. CASE Full(box)
  BY <1>4 DEF Delivered
<1> QED
  BY <1>2, <1>3, <1>4

LEMMA HeldNextFrame ==
    ASSUME NEW box \in Outbox
    PROVE  Held(NextFrame(box)) \subseteq Held(box)
<1>1. PICK c \in Seq(Frame) : c = box.channel_
  BY DEF Outbox
<1>2. CASE c = <<>>
  <2>1. NextFrame(box).channel_ = <<>> /\ NextFrame(box).writer = "recv"
    BY <1>1, <1>2 DEF NextFrame, Outbox
  <2> QED
    BY <2>1 DEF Held
<1>3. CASE c # <<>>
  <2>1. NextFrame(box) = [writer |-> "got", msg |-> Head(c), channel_ |-> Tail(c)]
    BY <1>1, <1>3 DEF NextFrame
  <2>2. Held(NextFrame(box)) = {Tail(c)[i] : i \in 1..Len(Tail(c))} \cup {Head(c)}
    BY <2>1 DEF Held
  <2>3. /\ Head(c) = c[1] /\ 1 \in 1..Len(c)
        /\ \A i \in 1..Len(Tail(c)) : i + 1 \in 1..Len(c) /\ Tail(c)[i] = c[i + 1]
    BY <1>1, <1>3
  <2>4. {c[i] : i \in 1..Len(c)} \subseteq Held(box)
    BY <1>1 DEF Held
  <2> QED
    BY <2>2, <2>3, <2>4
<1> QED
  BY <1>2, <1>3

LEMMA HeldWriter ==
    ASSUME NEW box \in Outbox
    PROVE  /\ Held([box EXCEPT !.writer = "done", !.msg = Response])
                \subseteq Held(box) \cup {Response}
           /\ box.writer = "got" => Held([box EXCEPT !.writer = "write"]) = Held(box)
BY DEF Held, Outbox

(* deliver() keeps what is queued and adds the frame unless it drops it.   *)
LEMMA HeldKept ==
    ASSUME NEW box \in Outbox, NEW frame \in Frame
    PROVE  /\ Held(box) \subseteq Held(Delivered(box, frame))
           /\ ~Full(box) => frame \in Held(Delivered(box, frame))
<1>1. PICK c \in Seq(Frame) : c = box.channel_
  BY DEF Outbox
<1>2. CASE box.writer = "recv"
  <2>1. /\ Delivered(box, frame).channel_ = box.channel_
        /\ Delivered(box, frame).msg = frame
        /\ Delivered(box, frame).writer = "got"
    BY <1>2 DEF Delivered, Full, Outbox
  <2> QED
    BY <1>2, <2>1 DEF Held
<1>3. CASE box.writer # "recv" /\ ~Full(box)
  <2>1. Delivered(box, frame) = [box EXCEPT !.channel_ = Append(@, frame)]
    BY <1>3 DEF Delivered
  <2>2. /\ Delivered(box, frame).channel_ = Append(c, frame)
        /\ Delivered(box, frame).writer = box.writer
        /\ Delivered(box, frame).msg = box.msg
    BY <1>1, <2>1 DEF Outbox
  <2>3. /\ \A i \in 1..Len(c) :
              i \in 1..Len(Append(c, frame)) /\ Append(c, frame)[i] = c[i]
        /\ Len(c) + 1 \in 1..Len(Append(c, frame))
        /\ Append(c, frame)[Len(c) + 1] = frame
    BY <1>1
  <2>4. Held(Delivered(box, frame))
          = {Append(c, frame)[i] : i \in 1..Len(Append(c, frame))} \cup {box.msg}
    BY <1>3, <2>2 DEF Held
  <2>5. Held(box) = {c[i] : i \in 1..Len(c)} \cup {box.msg}
    BY <1>1, <1>3 DEF Held
  <2> QED
    BY <2>3, <2>4, <2>5
<1>4. CASE Full(box)
  BY <1>4 DEF Delivered
<1> QED
  BY <1>2, <1>3, <1>4

(* The writer only takes the frame that it has written out of the channel. *)
LEMMA HeldUnwritten ==
    ASSUME NEW box \in Outbox, NEW frame \in Held(box), frame # box.msg
    PROVE  frame \in Held(NextFrame(box))
<1>1. PICK c \in Seq(Frame) : c = box.channel_
  BY DEF Outbox
<1>2. PICK i \in 1..Len(c) : frame = c[i]
  BY <1>1 DEF Held
<1>3. c # <<>>
  BY <1>2
<1>4. NextFrame(box) = [writer |-> "got", msg |-> Head(c), channel_ |-> Tail(c)]
  BY <1>1, <1>3 DEF NextFrame
<1>5. Held(NextFrame(box)) = {Tail(c)[k] : k \in 1..Len(Tail(c))} \cup {Head(c)}
  BY <1>4 DEF Held
<1>6. CASE i = 1
  BY <1>2, <1>3, <1>5, <1>6
<1>7. CASE i # 1
  <2>1. i - 1 \in 1..Len(Tail(c)) /\ Tail(c)[i - 1] = c[i]
    BY <1>1, <1>3, <1>7
  <2> QED
    BY <1>2, <1>5, <2>1
<1> QED
  BY <1>6, <1>7

(* A refusal that reached the channel is kept until the connection is      *)
(* closed, for any capacity and any number of frames behind it.            *)
THEOREM RefusalsKept == Spec => []RefusalKept
<1>1. Init => RefusalKept
  BY DEF Init, RefusalKept
<1>2. TypeOK /\ RefusalKept /\ [Next]_vars => RefusalKept'
  <2> SUFFICES ASSUME TypeOK, RefusalKept, [Next]_vars, NEW x \in Sessions,
                      refused'[x] = "queued"
               PROVE  socket_'[x] = "closed" \/ ErrorAndClose \in Held(outbox'[x])
    BY DEF RefusalKept, Queued, Held
  <2> DEFINE Kept == socket_[x] = "closed" \/ ErrorAndClose \in Held(outbox[x])
             KeptNow == socket_'[x] = "closed" \/ ErrorAndClose \in Held(outbox'[x])
  <2>1. refused[x] = "queued" => Kept
    BY DEF RefusalKept, Queued, Held
  <2>2. socket_[x] = "closed" => socket_'[x] = "closed"
    BY ConnectionSteps DEF Accept, Disconnect, TypeOK, vars, connection
  <2>3. /\ ErrorAndClose \in Frame /\ Response \in Frame
        /\ \A u \in Uids : Notify(u) \in Frame
        /\ outbox \in [Sessions -> Outbox] /\ ErrorAndClose.close_after_send
    BY FrameTypes DEF TypeOK, ErrorAndClose
  <2>4. ASSUME UNCHANGED <<outbox, refused>> PROVE KeptNow
    BY <2>1, <2>2, <2>4
  <2>5. ASSUME NEW s \in Sessions, NEW f \in Frame, UNCHANGED refused,
               outbox' = [outbox EXCEPT ![s] = Delivered(@, f)]
        PROVE  KeptNow
    <3>1. Held(outbox[x]) \subseteq Held(outbox'[x])
      BY <2>3, <2>5, HeldKept
    <3> QED
      BY <2>1, <2>2, <2>5, <3>1
  <2>6. ASSUME NEW s \in Sessions, Refuse(s) PROVE KeptNow
    <3>1. /\ outbox' = [outbox EXCEPT ![s] = Delivered(@, ErrorAndClose)]
          /\ refused' = [refused EXCEPT ![s] =
                 IF @ = "queued" \/ ~Full(outbox[s]) THEN "queued" ELSE "dropped"]
      BY <2>6 DEF Refuse, Reply
    <3>2. Held(outbox[x]) \subseteq Held(outbox'[x])
      BY <2>3, <3>1, HeldKept
    <3>3. CASE refused[x] = "queued"
      BY <2>1, <2>2, <3>2, <3>3
    <3>4. CASE refused[x] # "queued"
      <4>1. x = s /\ ~Full(outbox[s])
        BY <3>1, <3>4 DEF TypeOK
      <4> QED
        BY <2>3, <3>1, <4>1, HeldKept
    <3> QED
      BY <3>3, <3>4
  <2>7. ASSUME NEW s \in Sessions, NEW u \in Uids, NEW t \in Sessions, QueryNotifies(s, u, t)
        PROVE  KeptNow
    <3>1. PICK box : box = [outbox EXCEPT ![t] = Delivered(@, Notify(u))]
      OBVIOUS
    <3>2. box \in [Sessions -> Outbox] /\ Held(outbox[x]) \subseteq Held(box[x])
      BY <2>3, <3>1, DeliveredType, HeldKept
    <3>3. outbox' = [box EXCEPT ![s] = Delivered(@, Response)] /\ UNCHANGED refused
      BY <2>7, <3>1 DEF QueryNotifies, history
    <3>4. Held(box[x]) \subseteq Held(outbox'[x])
      BY <2>3, <3>2, <3>3, HeldKept
    <3> QED
      BY <2>1, <2>2, <3>2, <3>3, <3>4
  <2>8. ASSUME NEW s \in Sessions, Writer(s) PROVE KeptNow
    <3>1. CASE StartWrite(s)
      <4>1. /\ outbox[s].writer = "got" /\ UNCHANGED refused
            /\ outbox' = [outbox EXCEPT ![s].writer = "write"]
        BY <3>1 DEF StartWrite, history
      <4>2. Held(outbox'[x]) = Held(outbox[x])
        BY <2>3, <4>1 DEF Held, Outbox
      <4> QED
        BY <2>1, <2>2, <4>1, <4>2
    <3>2. CASE WriteContinues(s)
      <4>1. /\ ~outbox[s].msg.close_after_send /\ UNCHANGED refused
            /\ outbox' = [outbox EXCEPT ![s] = NextFrame(@)]
        BY <3>2 DEF WriteContinues, history
      <4>2. ErrorAndClose \in Held(outbox[x]) => ErrorAndClose \in Held(outbox'[x])
        BY <2>3, <4>1, HeldUnwritten
      <4> QED
        BY <2>1, <2>2, <4>1, <4>2
    <3>3. CASE WriteFails(s) \/ WriteCloses(s)
      <4>1. /\ UNCHANGED refused /\ socket_' = [socket_ EXCEPT ![s] = "closed"]
            /\ outbox' = [outbox EXCEPT ![s].writer = "done", ![s].msg = Response]
        BY <3>3 DEF WriteFails, WriteCloses, WriterReturns, Stop, Disconnect, history
      <4>2. x # s => outbox'[x] = outbox[x]
        BY <2>3, <4>1
      <4> QED
        BY <2>1, <2>2, <4>1, <4>2 DEF TypeOK
    <3> QED
      BY <2>8, <3>1, <3>2, <3>3 DEF Writer
  <2>9. ASSUME NEW s \in Sessions, Reader(s) PROVE KeptNow
    <3>1. CASE NotAuthenticated(s) \/ LoginGarbled(s) \/ TokenRejected(s) \/ UserMissing(s)
      BY <2>6, <3>1 DEF NotAuthenticated, LoginGarbled, TokenRejected, UserMissing
    <3>2. CASE RequestInvalid(s) \/ QueryAnswered(s) \/ LoginThrows(s) \/ LoginSucceeds(s)
      <4>1. UNCHANGED refused /\ Reply(s, Response)
        BY <3>2 DEF RequestInvalid, QueryAnswered, LoginThrows, LoginSucceeds, history
      <4> QED
        BY <2>3, <2>5, <4>1 DEF Reply
    <3>3. CASE ReadAborted(s) \/ HeaderInvalid(s) \/ QueryStarts(s) \/ LoginStarts(s)
               \/ TokenAccepted(s) \/ UserFound(s) \/ Authenticated(s)
      BY <2>4, <3>3 DEF ReadAborted, HeaderInvalid, QueryStarts, LoginStarts,
                        TokenAccepted, UserFound, Authenticated, history
    <3> QED
      BY <2>7, <2>9, <3>1, <3>2, <3>3 DEF Reader
  <2>10. ASSUME NEW s \in Sessions, Deadline(s) PROVE KeptNow
    BY <2>4, <2>10 DEF Deadline, DeadlineExpires, DeadlineAborted, LoginTimeout, history
  <2>11. CASE Environment
    <3>1. ASSUME NEW u \in Uids, NEW t \in Sessions, PeerNotifies(u, t) PROVE KeptNow
      BY <2>3, <2>5, <3>1 DEF PeerNotifies, history
    <3> QED
      BY <2>4, <2>11, <3>1 DEF Environment, Accept, PeerCloses, Receive, IssueToken, history
  <2>12. CASE UNCHANGED vars
    BY <2>4, <2>12 DEF vars
  <2> QED
    BY <2>8, <2>9, <2>10, <2>11, <2>12 DEF Next
<1> QED
  BY <1>1, <1>2, TypeInvariant, PTL DEF Spec

(* A uid_ that is a user's id has been proven, once fresh sessions do not  *)
(* hold one.                                                               *)
KnownInv ==
    \A s \in Sessions : uid_[s] \in Uids => <<s, uid_[s]>> \in proven

(* The frames that may be in the channel of s.                             *)
Allowed(s) ==
    {Response, ErrorAndClose} \cup {Notify(u) : u \in {v \in Uids : <<s, v>> \in proven}}
AllowedInv == \A s \in Sessions : Held(outbox[s]) \subseteq Allowed(s)

(* set_uid is called by login() only, and a proof is not forgotten.        *)
LEMMA IdentitySteps ==
    ASSUME TypeOK, Next
    PROVE  /\ proven \subseteq proven'
           /\ UNCHANGED uid_ \/ \E s \in Sessions : Authenticated(s)
<1> USE DEF TypeOK, identity, history
<1>1. ASSUME NEW s \in Sessions, Reader(s)
      PROVE  proven \subseteq proven' /\ (UNCHANGED uid_ \/ Authenticated(s))
  <2>1. CASE \E u \in Uids, t \in Sessions : QueryNotifies(s, u, t)
    BY <2>1 DEF QueryNotifies
  <2>2. CASE ReadAborted(s) \/ HeaderInvalid(s) \/ NotAuthenticated(s) \/ RequestInvalid(s)
             \/ QueryStarts(s) \/ QueryAnswered(s) \/ LoginGarbled(s) \/ LoginStarts(s)
    BY <2>2 DEF ReadAborted, HeaderInvalid, NotAuthenticated, RequestInvalid, QueryStarts,
                QueryAnswered, LoginGarbled, LoginStarts, Refuse
  <2>3. CASE TokenAccepted(s) \/ TokenRejected(s) \/ UserFound(s) \/ UserMissing(s)
             \/ LoginThrows(s) \/ Authenticated(s) \/ LoginSucceeds(s)
    BY <2>3 DEF TokenAccepted, TokenRejected, UserFound, UserMissing, LoginThrows,
                Authenticated, LoginSucceeds, Refuse
  <2> QED
    BY <1>1, <2>1, <2>2, <2>3 DEF Reader
<1>2. ASSUME NEW s \in Sessions, Writer(s) \/ Deadline(s)
      PROVE  proven \subseteq proven' /\ UNCHANGED uid_
  BY <1>2 DEF Writer, StartWrite, WriteFails, WriteContinues, WriteCloses,
              Deadline, DeadlineExpires, DeadlineAborted, LoginTimeout
<1>3. CASE Environment
  BY <1>3 DEF Environment, Accept, PeerCloses, Receive, PeerNotifies, IssueToken
<1> QED
  BY <1>1, <1>2, <1>3 DEF Next

(* What enters a channel: an answer, or a notification for the uid_ of the *)
(* session.                                                                *)
LEMMA ChannelSteps ==
    ASSUME TypeOK, KnownInv, Next, NEW x \in Sessions
    PROVE  Held(outbox'[x]) \subseteq Held(outbox[x]) \cup Allowed(x)
<1> USE DEF TypeOK
<1>1. /\ Response \in Frame /\ ErrorAndClose \in Frame /\ \A u \in Uids : Notify(u) \in Frame
      /\ Response \in Allowed(x) /\ ErrorAndClose \in Allowed(x)
  BY FrameTypes DEF Allowed
<1>2. CASE UNCHANGED outbox
  BY <1>2
<1>3. ASSUME NEW s \in Sessions, NEW f \in {Response, ErrorAndClose},
             outbox' = [outbox EXCEPT ![s] = Delivered(@, f)]
      PROVE  Held(outbox'[x]) \subseteq Held(outbox[x]) \cup Allowed(x)
  BY <1>1, <1>3, HeldDelivered
<1>4. ASSUME NEW u \in Uids, NEW t \in get_participant(u)
      PROVE  t = x => Notify(u) \in Allowed(x)
  BY DEF get_participant, KnownInv, Allowed
<1>5. ASSUME NEW s \in Sessions, Reader(s)
      PROVE  Held(outbox'[x]) \subseteq Held(outbox[x]) \cup Allowed(x)
  <2>1. ASSUME NEW u \in Uids, NEW t \in Sessions, QueryNotifies(s, u, t)
        PROVE  Held(outbox'[x]) \subseteq Held(outbox[x]) \cup Allowed(x)
    <3>1. PICK box : box = [outbox EXCEPT ![t] = Delivered(@, Notify(u))]
      OBVIOUS
    <3>2. box \in [Sessions -> Outbox]
      BY <1>1, <3>1, DeliveredType
    <3>3. outbox' = [box EXCEPT ![s] = Delivered(@, Response)] /\ t \in get_participant(u)
      BY <2>1, <3>1 DEF QueryNotifies
    <3>4. Held(box[x]) \subseteq Held(outbox[x]) \cup Allowed(x)
      BY <1>1, <1>4, <3>1, <3>3, HeldDelivered
    <3>5. Held(outbox'[x]) \subseteq Held(box[x]) \cup Allowed(x)
      BY <1>1, <3>2, <3>3, HeldDelivered
    <3> QED
      BY <3>4, <3>5
  <2>2. CASE NotAuthenticated(s) \/ LoginGarbled(s) \/ TokenRejected(s) \/ UserMissing(s)
    BY <1>3, <2>2 DEF NotAuthenticated, LoginGarbled, TokenRejected, UserMissing, Refuse, Reply
  <2>3. CASE RequestInvalid(s) \/ QueryAnswered(s) \/ LoginThrows(s) \/ LoginSucceeds(s)
    BY <1>3, <2>3 DEF RequestInvalid, QueryAnswered, LoginThrows, LoginSucceeds, Refuse, Reply
  <2>4. CASE ReadAborted(s) \/ HeaderInvalid(s) \/ QueryStarts(s) \/ LoginStarts(s)
             \/ TokenAccepted(s) \/ UserFound(s) \/ Authenticated(s)
    BY <1>2, <2>4 DEF ReadAborted, HeaderInvalid, QueryStarts, LoginStarts,
                      TokenAccepted, UserFound, Authenticated
  <2> QED
    BY <1>5, <2>1, <2>2, <2>3, <2>4 DEF Reader
<1>6. ASSUME NEW s \in Sessions, Writer(s)
      PROVE  Held(outbox'[x]) \subseteq Held(outbox[x]) \cup Allowed(x)
  <2>1. CASE StartWrite(s)
    <3>1. outbox[s].writer = "got" /\ outbox' = [outbox EXCEPT ![s].writer = "write"]
      BY <2>1 DEF StartWrite
    <3>2. CASE x = s
      <4>1. outbox'[x] = [outbox[x] EXCEPT !.writer = "write"]
        BY <3>1, <3>2
      <4> QED
        BY <3>1, <3>2, <4>1, HeldWriter
    <3> QED
      BY <3>1, <3>2
  <2>2. CASE WriteContinues(s)
    BY <2>2, HeldNextFrame DEF WriteContinues
  <2>3. CASE WriteFails(s) \/ WriteCloses(s)
    <3>1. outbox' = [outbox EXCEPT ![s].writer = "done", ![s].msg = Response]
      BY <2>3 DEF WriteFails, WriteCloses, WriterReturns
    <3>2. CASE x = s
      <4>1. outbox'[x] = [outbox[x] EXCEPT !.writer = "done", !.msg = Response]
        BY <3>1, <3>2 DEF Outbox
      <4>2. PICK box \in Outbox : box = outbox[x]
        OBVIOUS
      <4>3. Held([box EXCEPT !.writer = "done", !.msg = Response])
              \subseteq Held(box) \cup {Response}
        BY <4>2, HeldWriter
      <4> QED
        BY <1>1, <4>1, <4>2, <4>3
    <3> QED
      BY <3>1, <3>2
  <2> QED
    BY <1>6, <2>1, <2>2, <2>3 DEF Writer
<1>7. ASSUME NEW s \in Sessions, Deadline(s)
      PROVE  UNCHANGED outbox
  BY <1>7 DEF Deadline, DeadlineExpires, DeadlineAborted, LoginTimeout
<1>8. ASSUME NEW u \in Uids, NEW t \in Sessions, PeerNotifies(u, t)
      PROVE  Held(outbox'[x]) \subseteq Held(outbox[x]) \cup Allowed(x)
  <2>1. outbox' = [outbox EXCEPT ![t] = Delivered(@, Notify(u))] /\ t \in get_participant(u)
    BY <1>8 DEF PeerNotifies
  <2> QED
    BY <1>1, <1>4, <2>1, HeldDelivered
<1>9. CASE Environment
  BY <1>2, <1>8, <1>9 DEF Environment, Accept, PeerCloses, Receive, IssueToken
<1> QED
  BY <1>2, <1>5, <1>6, <1>7, <1>9 DEF Next

(* README.md:140: only a session that logged in as the addressee gets a    *)
(* notification, if the uid_ of a fresh session is no user's id.  The      *)
(* missing initialiser of chat_server.hpp:227 is all that is wrong.        *)
THEOREM InitialisedSuffices ==
    ASSUME Garbage \cap Uids = {}
    PROVE  Spec => []NotifiedAreLoggedIn
<1>1. Init => KnownInv /\ AllowedInv
  BY DEF Init, KnownInv, AllowedInv, Held
<1>2. TypeOK /\ IdentityInv /\ KnownInv /\ AllowedInv /\ [Next]_vars
        => KnownInv' /\ AllowedInv'
  <2> SUFFICES ASSUME TypeOK, IdentityInv, KnownInv, AllowedInv, [Next]_vars
               PROVE  KnownInv' /\ AllowedInv'
    OBVIOUS
  <2>1. CASE Next
    <3>1. proven \subseteq proven'
      BY <2>1, IdentitySteps
    <3>2. ASSUME NEW s \in Sessions, Authenticated(s) PROVE KnownInv'
      <4>1. uid_' = [uid_ EXCEPT ![s] = request[s].uid] /\ <<s, request[s].uid>> \in proven
        BY <3>2 DEF Authenticated, IdentityInv
      <4> QED
        BY <3>1, <4>1 DEF KnownInv, TypeOK
    <3>3. ASSUME UNCHANGED uid_ PROVE KnownInv'
      BY <3>1, <3>3 DEF KnownInv
    <3>4. \A s \in Sessions : Allowed(s) \subseteq Allowed(s)'
      BY <3>1 DEF Allowed
    <3>5. AllowedInv'
      BY <2>1, <3>4, ChannelSteps DEF AllowedInv
    <3> QED
      BY <2>1, <3>2, <3>3, <3>5, IdentitySteps
  <2>2. CASE UNCHANGED vars
    BY <2>2 DEF vars, KnownInv, AllowedInv, Allowed
  <2> QED
    BY <2>1, <2>2
<1>3. AllowedInv => NotifiedAreLoggedIn
  <2> SUFFICES ASSUME AllowedInv, NEW s \in Sessions, NEW u \in Uids,
                      Notify(u) \in Queued(s)
               PROVE  <<s, u>> \in proven
    BY DEF NotifiedAreLoggedIn
  <2>1. Notify(u) \in Allowed(s)
    BY DEF AllowedInv, Queued, Held
  <2>2. Notify(u).to = u /\ Response.to = NoUid /\ ErrorAndClose.to = NoUid
        /\ \A v : Notify(v).to = v
    BY DEF Notify, Response, ErrorAndClose
  <2> QED
    BY <2>1, <2>2, UidAssumption DEF Allowed
<1> QED
  BY <1>1, <1>2, <1>3, TypeInvariant, IdentityInvariance, PTL DEF Spec
============================================================================
