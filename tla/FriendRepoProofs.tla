---------------------------- MODULE FriendRepoProofs ----------------------------
(***************************************************************************)
(* Proofs about FriendRepo, for any users, connections and calls: what is  *)
(* committed is consistent, and the statements implement FriendGraph.      *)
(*                                                                         *)
(* The invariant relates each connection's next statement to its           *)
(* uncommitted rows: COMMIT is reached with both rows of the friendship    *)
(* either committed before or written by this transaction, and whatever a  *)
(* failed call has left is rolled back before the connection is used.      *)
(***************************************************************************)
EXTENDS FriendRepo, TLAPS

(* The transaction of auth_friend_apply wrote nothing but rows of its pair,*)
(* up to its next statement, and no friend row is skipped.                 *)
AuthWrites(c) ==
    LET p == conn[c].pair
        w == conn[c].writes
        s == conn[c].step
    IN  /\ s \in 1..5
        /\ w \subseteq {<<"friend_apply", p>>, <<"friend", p>>, <<"friend", Back(p)>>}
        /\ s = 1 => w = {}
        /\ <<"friend_apply", p>> \in w => status[p] # Absent
        /\ s >= 4 => p \in friend \/ <<"friend", p>> \in w
        /\ s >= 5 => Back(p) \in friend \/ <<"friend", Back(p)>> \in w

ConnInv ==
    \A c \in Conns :
        /\ conn[c].op = "add" => ~conn[c].txn /\ conn[c].writes = {}
        /\ conn[c].op = "auth" => AuthWrites(c)

Tables == FriendSymmetric /\ AcceptedAreFriends /\ PassedAreFriends

Inv == TypeOK /\ ConnInv /\ Tables

---------------------------------------------------------------------------
LEMMA BackIsPair ==
    ASSUME NEW p \in Pairs
    PROVE  Back(p) \in Pairs /\ Back(p) # p /\ Back(Back(p)) = p
BY DEF Pairs, Back

(* The updates of a connection keep its type.                              *)
LEMMA ConnectionFields ==
    ASSUME NEW k \in Connection, NEW p \in Pairs, NEW s \in 0..5,
           NEW w \in SUBSET Row, NEW b \in BOOLEAN
    PROVE  /\ \A op \in {"add", "auth"} :
                 [k EXCEPT !.op = op, !.pair = p, !.step = s, !.applied = b] \in Connection
           /\ [k EXCEPT !.step = s, !.writes = w] \in Connection
           /\ [k EXCEPT !.step = s, !.writes = w, !.applied = b] \in Connection
BY DEF Connection

LEMMA InitInv == Init => Inv
<1>. SUFFICES ASSUME Init PROVE Inv
  OBVIOUS
<1>. DEFINE q == CHOOSE p \in Pairs : TRUE
<1>1. q \in Pairs
  <2>1. PICK u \in Users, v \in Users : u # v
    BY UsersAssumption
  <2>2. <<u, v>> \in Pairs
    BY <2>1 DEF Pairs
  <2>. QED  BY <2>2
<1>2. conn \in [Conns -> [op : {"free"}, pair : {q}, step : {0}, txn : {FALSE},
                          writes : {{}}, applied : {FALSE}]]
  BY DEF Init
<1>. HIDE DEF q
<1>3. conn \in [Conns -> Connection]
      /\ \A c \in Conns : conn[c].op = "free" /\ ~conn[c].txn /\ conn[c].writes = {}
  <2>1. ASSUME NEW c \in Conns
        PROVE  /\ conn[c].op = "free" /\ conn[c].txn = FALSE /\ conn[c].writes = {}
               /\ conn[c] \in Connection
    <3>1. conn[c] \in [op : {"free"}, pair : {q}, step : {0}, txn : {FALSE},
                       writes : {{}}, applied : {FALSE}]
      BY <1>2
    <3>2. conn[c] = [op |-> "free", pair |-> q, step |-> 0, txn |-> FALSE,
                     writes |-> {}, applied |-> FALSE]
      BY <3>1
    <3>3. [op |-> "free", pair |-> q, step |-> 0, txn |-> FALSE,
           writes |-> {}, applied |-> FALSE] \in Connection
      BY <1>1 DEF Connection
    <3>. QED  BY <3>2, <3>3
  <2>. QED  BY <1>2, <2>1
<1>4. TypeOK
  BY <1>3 DEF Init, TypeOK
<1>5. ConnInv
  BY <1>3 DEF ConnInv
<1>6. Tables
  BY DEF Init, Tables, FriendSymmetric, AcceptedAreFriends, PassedAreFriends, Absent, Passed
<1>. QED  BY <1>4, <1>5, <1>6 DEF Inv

(* Steps that touch one connection and no table.                           *)
LEMMA ConnStep ==
    ASSUME Inv, NEW c \in Conns,
           conn' \in [Conns -> Connection],
           \A d \in Conns : d # c => conn'[d] = conn[d],
           conn'[c].op \in {"free", "add"} => ~conn'[c].txn /\ conn'[c].writes = {},
           conn'[c].op = "auth" => AuthWrites(c)',
           UNCHANGED <<status, friend, accepted, repeated>>, calls' \in Nat
    PROVE  Inv'
<1>1. TypeOK'
  BY DEF Inv, TypeOK
<1>2. ConnInv'
  BY DEF Inv, TypeOK, ConnInv, AuthWrites, Connection
<1>3. Tables'
  BY DEF Inv, Tables, FriendSymmetric, AcceptedAreFriends, PassedAreFriends
<1>. QED  BY <1>1, <1>2, <1>3 DEF Inv

(* The connection of a statement that ran, and of one that failed.         *)
LEMMA CallStep ==
    ASSUME Inv, NEW c \in Conns, NEW p \in Pairs,
           add_friend_apply(c, p) \/ auth_friend_apply(c, p)
    PROVE  Inv'
<1>1. PICK op \in {"add", "auth"} : Call(c, op, p)
  BY DEF add_friend_apply, auth_friend_apply
<1>2. conn[c].op = "free" /\ ~conn[c].txn /\ conn[c].writes = {} /\ conn[c] \in Connection
  BY <1>1 DEF Inv, TypeOK, Call
<1>3. conn' \in [Conns -> Connection]
      /\ \A d \in Conns : d # c => conn'[d] = conn[d]
  <2>1. [conn[c] EXCEPT !.op = op, !.pair = p, !.step = 1, !.applied = FALSE] \in Connection
    <3>1. 1 \in 0..5 /\ FALSE \in BOOLEAN /\ {} \in SUBSET Row
      OBVIOUS
    <3>. QED  BY <1>2, <3>1, ConnectionFields, Zenon
  <2>. QED  BY <1>1, <2>1 DEF Inv, TypeOK, Call
<1>4. ~conn'[c].txn /\ conn'[c].writes = {} /\ conn'[c].step = 1
  BY <1>1, <1>2 DEF Inv, TypeOK, Call, Connection
<1>5. calls' \in Nat /\ UNCHANGED <<status, friend, accepted, repeated>>
  BY <1>1 DEF Inv, TypeOK, Call
<1>6. AuthWrites(c)'
  BY <1>4 DEF AuthWrites
<1>. QED  BY <1>3, <1>4, <1>5, <1>6, ConnStep

LEMMA StatementStep ==
    ASSUME Inv, NEW c \in Conns,
           UpdateApply(c) \/ InsertSelf(c) \/ InsertBack(c)
    PROVE  Inv'
<1>. DEFINE p == conn[c].pair
<1>1. conn[c] \in Connection /\ p \in Pairs /\ Back(p) \in Pairs /\ conn[c].op = "auth"
  BY BackIsPair DEF Inv, TypeOK, Connection, UpdateApply, InsertSelf, InsertBack,
                    InsertFriend, Running
<1>2. AuthWrites(c)
  BY <1>1 DEF Inv, ConnInv
<1>3. UNCHANGED <<status, friend, accepted, repeated>> /\ calls' \in Nat
  BY DEF Inv, TypeOK, UpdateApply, InsertSelf, InsertBack, InsertFriend
<1>4. CASE UpdateApply(c)
  <2>1. conn' \in [Conns -> Connection]
        /\ \A d \in Conns : d # c => conn'[d] = conn[d]
    <3>. DEFINE w == IF status[p] = Absent THEN conn[c].writes
                     ELSE conn[c].writes \cup {<<"friend_apply", p>>}
                b == (status[Back(p)] # Absent)
    <3>1. conn' = [conn EXCEPT ![c] = [conn[c] EXCEPT !.step = 3, !.writes = w, !.applied = b]]
      BY <1>4 DEF UpdateApply, Inv, TypeOK
    <3>2. w \in SUBSET Row /\ b \in BOOLEAN
      BY <1>1 DEF Row, Connection
    <3>. HIDE DEF w, b
    <3>3. [conn[c] EXCEPT !.step = 3, !.writes = w, !.applied = b] \in Connection
      <4>1. 3 \in 0..5 /\ TRUE \in BOOLEAN
        OBVIOUS
      <4>. QED  BY <1>1, <3>2, <4>1, ConnectionFields, Zenon
    <3>. QED  BY <3>1, <3>3 DEF Inv, TypeOK
  <2>2. /\ conn'[c].op = "auth" /\ conn'[c].pair = p /\ conn'[c].step = 3
        /\ conn'[c].writes = IF status[p] = Absent THEN conn[c].writes
                             ELSE conn[c].writes \cup {<<"friend_apply", p>>}
    BY <1>1, <1>4 DEF Inv, TypeOK, UpdateApply, Running
  <2>3. conn[c].step = 2
    BY <1>4 DEF UpdateApply, Running
  <2>4. AuthWrites(c)'
    BY <1>2, <1>3, <2>2, <2>3 DEF AuthWrites
  <2>. QED  BY <1>3, <2>1, <2>2, <2>4, ConnStep
<1>5. ASSUME NEW s \in {3, 4}, NEW r \in Pairs, r = (IF s = 3 THEN p ELSE Back(p)),
             InsertFriend(c, s, r)
      PROVE  Inv'
  <2>1. conn' \in [Conns -> Connection]
        /\ \A d \in Conns : d # c => conn'[d] = conn[d]
    <3>. DEFINE w == IF r \in friend THEN conn[c].writes
                     ELSE conn[c].writes \cup {<<"friend", r>>}
    <3>1. conn' = [conn EXCEPT ![c] = [conn[c] EXCEPT !.step = s + 1, !.writes = w]]
      BY <1>5 DEF InsertFriend, Inv, TypeOK
    <3>2. w \in SUBSET Row
      BY <1>1 DEF Row, Connection
    <3>. HIDE DEF w
    <3>3. [conn[c] EXCEPT !.step = s + 1, !.writes = w] \in Connection
      <4>1. s + 1 \in 0..5 /\ TRUE \in BOOLEAN
        OBVIOUS
      <4>. QED  BY <1>1, <3>2, <4>1, ConnectionFields, Zenon
    <3>. QED  BY <3>1, <3>3 DEF Inv, TypeOK
  <2>2. /\ conn'[c].op = "auth" /\ conn'[c].pair = p /\ conn'[c].step = s + 1
        /\ conn'[c].writes = IF r \in friend THEN conn[c].writes
                             ELSE conn[c].writes \cup {<<"friend", r>>}
    BY <1>1, <1>5 DEF Inv, TypeOK, InsertFriend, Running
  <2>3. conn[c].step = s
    BY <1>5 DEF InsertFriend, Running
  <2>4. AuthWrites(c)'
    BY <1>2, <1>3, <1>5, <2>2, <2>3 DEF AuthWrites
  <2>. QED  BY <1>3, <2>1, <2>2, <2>4, ConnStep
<1>6. InsertSelf(c) => Inv'
  BY <1>1, <1>5 DEF InsertSelf
<1>7. InsertBack(c) => Inv'
  BY <1>1, <1>5 DEF InsertBack
<1>. QED  BY <1>4, <1>6, <1>7

LEMMA FailureStep ==
    ASSUME Inv, NEW c \in Conns,
           StatementFails(c) \/ RolledBack(c) \/ Reset(c)
    PROVE  Inv'
<1>1. conn[c] \in Connection
  BY DEF Inv, TypeOK
<1>2. conn' \in [Conns -> Connection]
      /\ \A d \in Conns : d # c => conn'[d] = conn[d]
  BY <1>1 DEF Inv, TypeOK, StatementFails, RolledBack, Reset, Throws, Connection
<1>3. conn'[c].op = "failed" \/ (conn'[c].op = "free" /\ ~conn'[c].txn /\ conn'[c].writes = {})
  BY <1>1 DEF Inv, TypeOK, StatementFails, RolledBack, Reset, Throws, Connection
<1>4. UNCHANGED <<status, friend, accepted, repeated>> /\ calls' \in Nat
  BY DEF Inv, TypeOK, StatementFails, RolledBack, Reset
<1>. QED  BY <1>2, <1>3, <1>4, ConnStep

(* START TRANSACTION finds nothing to commit.                              *)
LEMMA StartStep ==
    ASSUME Inv, NEW c \in Conns, StartTransaction(c)
    PROVE  Inv' /\ UNCHANGED <<status, friend, accepted>>
<1>1. conn[c] \in Connection /\ conn[c].op = "auth" /\ conn[c].step = 1
      /\ conn[c].writes = {}
  BY DEF Inv, TypeOK, ConnInv, AuthWrites, StartTransaction, Running
<1>2. UNCHANGED <<status, friend, accepted, repeated>> /\ calls' \in Nat
  BY <1>1 DEF Inv, TypeOK, StartTransaction, Commit
<1>3. conn' \in [Conns -> Connection]
      /\ \A d \in Conns : d # c => conn'[d] = conn[d]
  BY <1>1 DEF Inv, TypeOK, StartTransaction, Connection
<1>4. conn'[c].op = "auth" /\ conn'[c].step = 2 /\ conn'[c].writes = {}
  BY <1>1 DEF Inv, TypeOK, StartTransaction
<1>5. AuthWrites(c)'
  BY <1>4 DEF AuthWrites
<1>. QED  BY <1>2, <1>3, <1>4, <1>5, ConnStep

---------------------------------------------------------------------------
(* Rows are never removed, so the statements that other connections have   *)
(* run keep their effect.                                                  *)
LEMMA TableStep ==
    ASSUME Inv, NEW c \in Conns,
           conn' \in [Conns -> Connection],
           \A d \in Conns : d # c => conn'[d] = conn[d],
           \/ conn'[c].op = "failed"
           \/ conn'[c].op = "free" /\ ~conn'[c].txn /\ conn'[c].writes = {},
           status' \in [Pairs -> {Absent, Pending, Passed}],
           \A q \in Pairs : status[q] # Absent => status'[q] # Absent,
           friend \subseteq friend', friend' \subseteq Pairs,
           accepted' \subseteq [pair : Pairs, applied : BOOLEAN],
           repeated' \subseteq Pairs, UNCHANGED calls
    PROVE  TypeOK' /\ ConnInv'
<1>1. TypeOK'
  BY DEF Inv, TypeOK
<1>2. ASSUME NEW d \in Conns, conn'[d].op = "auth"
      PROVE  AuthWrites(d)'
  <2>1. d # c /\ conn'[d] = conn[d] /\ conn[d].pair \in Pairs
    BY <1>2 DEF Inv, TypeOK, Connection
  <2>2. AuthWrites(d)
    BY <1>2, <2>1 DEF Inv, ConnInv
  <2>. QED  BY <2>1, <2>2 DEF AuthWrites
<1>3. ASSUME NEW d \in Conns, conn'[d].op = "add"
      PROVE  ~conn'[d].txn /\ conn'[d].writes = {}
  BY <1>3 DEF Inv, ConnInv
<1>. QED  BY <1>1, <1>2, <1>3 DEF ConnInv

(* INSERT .. ON DUPLICATE KEY UPDATE: a request is stored or was there.    *)
LEMMA ApplyStep ==
    ASSUME Inv, NEW c \in Conns, InsertApply(c)
    PROVE  /\ Inv'
           /\ conn[c].pair \in Pairs
           /\ status' = [status EXCEPT ![conn[c].pair] = IF @ = Absent THEN Pending ELSE @]
           /\ UNCHANGED <<friend, accepted>>
<1>1. conn[c] \in Connection /\ conn[c].pair \in Pairs /\ ~conn[c].txn /\ conn[c].writes = {}
  BY DEF Inv, TypeOK, ConnInv, Connection, InsertApply, Running
<1>2. status' = [status EXCEPT ![conn[c].pair] = IF @ = Absent THEN Pending ELSE @]
      /\ UNCHANGED <<friend, calls, accepted>>
      /\ repeated' \in {repeated, repeated \cup {conn[c].pair}}
  BY DEF InsertApply
<1>3. conn' \in [Conns -> Connection]
      /\ \A d \in Conns : d # c => conn'[d] = conn[d]
  BY <1>1 DEF Inv, TypeOK, InsertApply, ReturnToPool, Throws, Connection
<1>4. \/ conn'[c].op = "failed"
      \/ conn'[c].op = "free" /\ ~conn'[c].txn /\ conn'[c].writes = {}
  <2>1. CASE ReturnToPool(c)
    <3>1. conn'[c] = [conn[c] EXCEPT !.op = "free", !.step = 0]
      BY <2>1 DEF Inv, TypeOK, ReturnToPool
    <3>. QED  BY <1>1, <3>1 DEF Connection
  <2>2. CASE Throws(c, FALSE, {})
    BY <1>1, <2>2 DEF Inv, TypeOK, Throws, Connection
  <2>. QED  BY <2>1, <2>2 DEF InsertApply
<1>5. /\ status' \in [Pairs -> {Absent, Pending, Passed}]
      /\ \A q \in Pairs : status[q] # Absent => status'[q] = status[q]
      /\ \A q \in Pairs : status'[q] = Passed => status[q] = Passed
  BY <1>1, <1>2 DEF Inv, TypeOK, Absent, Pending, Passed
<1>6. TypeOK' /\ ConnInv'
  <2>1. repeated' \subseteq Pairs
    BY <1>1, <1>2 DEF Inv, TypeOK
  <2>. QED  BY <1>2, <1>3, <1>4, <1>5, <2>1, TableStep DEF Inv, TypeOK
<1>7. Tables'
  BY <1>2, <1>5 DEF Inv, Tables, FriendSymmetric, AcceptedAreFriends, PassedAreFriends
<1>. QED  BY <1>1, <1>2, <1>6, <1>7 DEF Inv

(* What COMMIT does: both sides become friends, and the pair's own request *)
(* is passed or left as it is.                                             *)
LEMMA CommitEffect ==
    ASSUME Inv, NEW c \in Conns, Running(c, "auth", 5), Commit(conn[c].writes)
    PROVE  /\ conn[c].pair \in Pairs
           /\ friend' = friend \cup {conn[c].pair, Back(conn[c].pair)}
           /\ status' \in [Pairs -> {Absent, Pending, Passed}]
           /\ \A q \in Pairs : q # conn[c].pair => status'[q] = status[q]
           /\ \/ status'[conn[c].pair] = status[conn[c].pair]
              \/ status'[conn[c].pair] = Passed /\ status[conn[c].pair] # Absent
<1>. DEFINE p == conn[c].pair
            w == conn[c].writes
<1>1. p \in Pairs /\ Back(p) \in Pairs /\ w \subseteq Row
  BY BackIsPair DEF Inv, TypeOK, Connection
<1>2. /\ w \subseteq {<<"friend_apply", p>>, <<"friend", p>>, <<"friend", Back(p)>>}
      /\ <<"friend_apply", p>> \in w => status[p] # Absent
      /\ p \in friend \/ <<"friend", p>> \in w
      /\ Back(p) \in friend \/ <<"friend", Back(p)>> \in w
  BY DEF Inv, ConnInv, AuthWrites, Running
<1>3. /\ status' = [q \in Pairs |->
             IF <<"friend_apply", q>> \in w THEN Passed ELSE status[q]]
      /\ friend' = friend \cup {q \in Pairs : <<"friend", q>> \in w}
  BY DEF Commit
<1>. HIDE DEF p, w
<1>4. friend' = friend \cup {p, Back(p)}
  BY <1>1, <1>2, <1>3
<1>5. \A q \in Pairs : q # p => <<"friend_apply", q>> \notin w
  BY <1>2
<1>6. /\ status' \in [Pairs -> {Absent, Pending, Passed}]
      /\ \A q \in Pairs : q # p => status'[q] = status[q]
  BY <1>3, <1>5 DEF Inv, TypeOK
<1>7. status'[p] = status[p] \/ (status'[p] = Passed /\ status[p] # Absent)
  BY <1>1, <1>2, <1>3
<1>. QED  BY <1>1, <1>4, <1>6, <1>7 DEF p

(* COMMIT, reported to the caller or not.                                  *)
LEMMA CommitStep ==
    ASSUME Inv, NEW c \in Conns, CommitAuth(c) \/ LostAfterCommit(c)
    PROVE  Inv'
<1>. DEFINE p == conn[c].pair
            a == [pair |-> conn[c].pair, applied |-> conn[c].applied]
<1>1. Running(c, "auth", 5) /\ Commit(conn[c].writes) /\ UNCHANGED <<calls, repeated>>
      /\ accepted' \in {accepted, accepted \cup {a}}
  BY DEF CommitAuth, LostAfterCommit
<1>2. conn[c] \in Connection /\ a \in [pair : Pairs, applied : BOOLEAN]
  BY DEF Inv, TypeOK, Connection
<1>3. conn' \in [Conns -> Connection]
      /\ \A d \in Conns : d # c => conn'[d] = conn[d]
  BY <1>2 DEF Inv, TypeOK, CommitAuth, LostAfterCommit, Throws, Connection
<1>4. \/ conn'[c].op = "failed"
      \/ conn'[c].op = "free" /\ ~conn'[c].txn /\ conn'[c].writes = {}
  <2>1. CASE CommitAuth(c)
    <3>1. conn'[c] = [conn[c] EXCEPT !.op = "free", !.step = 0,
                                     !.txn = FALSE, !.writes = {}]
      BY <2>1 DEF Inv, TypeOK, CommitAuth
    <3>. QED  BY <1>2, <3>1 DEF Connection
  <2>2. CASE LostAfterCommit(c)
    BY <1>2, <2>2 DEF Inv, TypeOK, LostAfterCommit, Throws, Connection
  <2>. QED  BY <2>1, <2>2
<1>5. /\ p \in Pairs /\ friend' = friend \cup {p, Back(p)}
      /\ status' \in [Pairs -> {Absent, Pending, Passed}]
      /\ \A q \in Pairs : q # p => status'[q] = status[q]
      /\ status'[p] = status[p] \/ (status'[p] = Passed /\ status[p] # Absent)
  BY <1>1, CommitEffect
<1>6. Back(p) \in Pairs /\ Back(Back(p)) = p
  BY <1>5, BackIsPair
<1>7. accepted' \subseteq [pair : Pairs, applied : BOOLEAN]
  BY <1>1, <1>2 DEF Inv, TypeOK
<1>8. friend' \subseteq Pairs /\ friend \subseteq friend'
      /\ \A q \in Pairs : status[q] # Absent => status'[q] # Absent
  BY <1>5, <1>6 DEF Inv, TypeOK, Absent, Passed
<1>9. TypeOK' /\ ConnInv'
  <2>1. repeated' \subseteq Pairs
    BY <1>1 DEF Inv, TypeOK
  <2>. QED  BY <1>1, <1>3, <1>4, <1>5, <1>7, <1>8, <2>1, TableStep
<1>10. FriendSymmetric'
  BY <1>5, <1>6 DEF Inv, Tables, FriendSymmetric
<1>11. AcceptedAreFriends'
  BY <1>1, <1>5 DEF Inv, Tables, AcceptedAreFriends
<1>12. PassedAreFriends'
  BY <1>5 DEF Inv, Tables, PassedAreFriends
<1>. QED  BY <1>9, <1>10, <1>11, <1>12 DEF Inv, Tables

LEMMA NextInv == Inv /\ [Next]_vars => Inv'
<1>. SUFFICES ASSUME Inv, [Next]_vars PROVE Inv'
  OBVIOUS
<1>1. CASE UNCHANGED vars
  BY <1>1 DEF vars, Inv, TypeOK, ConnInv, AuthWrites, Tables, FriendSymmetric,
              AcceptedAreFriends, PassedAreFriends
<1>2. CASE Next
  BY <1>2, CallStep, ApplyStep, StartStep, StatementStep, CommitStep, FailureStep
  DEF Next
<1>. QED  BY <1>1, <1>2

LEMMA Invariance == Spec => []Inv
BY InitInv, NextInv, PTL DEF Spec

---------------------------------------------------------------------------
(* The tables and the connections are well typed, and a connection in the  *)
(* pool never has an open transaction, whichever statement failed on it.   *)
THEOREM Typed == Spec => []TypeOK
<1>1. Inv => TypeOK
  BY DEF Inv
<1>. QED  BY <1>1, Invariance, PTL

(* Friendship is mutual in the committed tables (friend_repo.hpp:55-56).   *)
THEOREM Symmetric == Spec => []FriendSymmetric
<1>1. Inv => FriendSymmetric
  BY DEF Inv, Tables
<1>. QED  BY <1>1, Invariance, PTL

(* auth_friend_apply returns true only for a friendship that is stored.    *)
THEOREM Durable == Spec => []AcceptedAreFriends
<1>1. Inv => AcceptedAreFriends
  BY DEF Inv, Tables
<1>. QED  BY <1>1, Invariance, PTL

(* The status of a request is passed only together with the friendship.    *)
THEOREM PassedTogether == Spec => []PassedAreFriends
<1>1. Inv => PassedAreFriends
  BY DEF Inv, Tables
<1>. QED  BY <1>1, Invariance, PTL

---------------------------------------------------------------------------
(* Every step maps to a step of FriendGraph or to none.                    *)
LEMMA GraphStep ==
    ASSUME Inv, [Next]_vars
    PROVE  [Graph!Next]_(Graph!vars)
<1>. DEFINE Quiet == UNCHANGED <<status, friend, accepted>>
<1>1. Quiet => UNCHANGED Graph!vars
  BY DEF Graph!vars
<1>2. ASSUME NEW c \in Conns, InsertApply(c)
      PROVE  Graph!Next \/ UNCHANGED Graph!vars
  <2>. PICK p \in Pairs : p = conn[c].pair
    BY DEF Inv, TypeOK, Connection
  <2>1. /\ status' = [status EXCEPT ![p] = IF @ = Absent THEN Pending ELSE @]
        /\ UNCHANGED <<friend, accepted>>
    BY <1>2, ApplyStep
  <2>2. status \in [Pairs -> {Absent, Pending, Passed}]
    BY DEF Inv, TypeOK
  <2>3. {q \in Pairs : status'[q] # Absent} = {q \in Pairs : status[q] # Absent} \cup {p}
    BY <2>1, <2>2 DEF Absent, Pending
  <2>4. {q \in Pairs : status'[q] = Passed} = {q \in Pairs : status[q] = Passed}
    BY <2>1, <2>2 DEF Absent, Pending, Passed
  <2>5. CASE status[p] = Absent
    <3>1. Graph!Apply(p)
      BY <2>1, <2>3, <2>4, <2>5 DEF Graph!Apply
    <3>. QED  BY <3>1 DEF Graph!Next
  <2>6. CASE status[p] # Absent
    <3>1. status' = status
      BY <2>1, <2>2, <2>6
    <3>. QED  BY <2>1, <3>1 DEF Graph!vars
  <2>. QED  BY <2>5, <2>6
<1>3. ASSUME NEW c \in Conns, CommitAuth(c) \/ LostAfterCommit(c)
      PROVE  Graph!Next
  <2>. PICK p \in Pairs : p = conn[c].pair
    BY DEF Inv, TypeOK, Connection
  <2>. DEFINE a == [pair |-> conn[c].pair, applied |-> conn[c].applied]
  <2>1. Running(c, "auth", 5) /\ Commit(conn[c].writes)
        /\ accepted' \in {accepted, accepted \cup {a}}
    BY <1>3 DEF CommitAuth, LostAfterCommit
  <2>2. /\ friend' = friend \cup {p, Back(p)}
        /\ \A q \in Pairs : q # p => status'[q] = status[q]
        /\ status'[p] = status[p] \/ (status'[p] = Passed /\ status[p] # Absent)
    BY <2>1, CommitEffect
  <2>3. {x.pair : x \in accepted'} \in {{x.pair : x \in accepted},
                                         {x.pair : x \in accepted} \cup {p}}
    BY <2>1
  <2>4. {q \in Pairs : status'[q] # Absent} = {q \in Pairs : status[q] # Absent}
    BY <2>2 DEF Absent, Passed
  <2>5. {q \in Pairs : status'[q] = Passed}
           \in {{q \in Pairs : status[q] = Passed},
                {q \in Pairs : status[q] = Passed}
                    \cup ({p} \cap {q \in Pairs : status[q] # Absent})}
    BY <2>2 DEF Absent, Passed
  <2>6. Graph!Befriend(p)
    BY <2>2, <2>3, <2>4, <2>5 DEF Graph!Befriend
  <2>. QED  BY <2>6 DEF Graph!Next
<1>4. ASSUME NEW c \in Conns, NEW p \in Pairs,
             add_friend_apply(c, p) \/ auth_friend_apply(c, p)
      PROVE  Quiet
  BY <1>4 DEF add_friend_apply, auth_friend_apply, Call
<1>5. ASSUME NEW c \in Conns, StartTransaction(c)
      PROVE  Quiet
  BY <1>5, StartStep
<1>6. ASSUME NEW c \in Conns,
             UpdateApply(c) \/ InsertSelf(c) \/ InsertBack(c)
                \/ StatementFails(c) \/ RolledBack(c) \/ Reset(c)
      PROVE  Quiet
  BY <1>6 DEF UpdateApply, InsertSelf, InsertBack, InsertFriend, StatementFails,
              RolledBack, Reset
<1>7. UNCHANGED vars => Quiet
  BY DEF vars
<1>. HIDE DEF Quiet
<1>. QED  BY <1>1, <1>2, <1>3, <1>4, <1>5, <1>6, <1>7 DEF Next

(* The repositories behave as if each call of add_friend_apply and         *)
(* auth_friend_apply took effect at one moment or not at all.              *)
THEOREM Refinement == Spec => ImplementsFriendGraph
<1>1. Init => Graph!Init
  BY DEF Init, Graph!Init, Absent, Passed
<1>2. Inv /\ [Next]_vars => [Graph!Next]_(Graph!vars)
  BY GraphStep
<1>. QED  BY <1>1, <1>2, Invariance, PTL DEF Spec, ImplementsFriendGraph, Graph!Spec
=================================================================================
