---------------------------- MODULE FriendRepo ----------------------------
(***************************************************************************)
(* The tables friend_apply and friend (sql/friend.sql) under the           *)
(* concurrent statements of chat_server/friend_repo.hpp, which run on      *)
(* pooled MySQL connections.                                               *)
(*                                                                         *)
(* add_friend_apply is one statement in autocommit mode.  auth_friend_apply*)
(* sends five statements at once; the server runs them one by one and      *)
(* stops at the first error.  A connection goes back to the pool by        *)
(* return_without_reset() after a success, and otherwise by the pool's own *)
(* reset, which rolls back what is open.                                   *)
(*                                                                         *)
(* MySQL is external: committed tables, one open transaction per           *)
(* connection, exclusive locks on the rows it wrote.  Locks on rows that   *)
(* do not exist are left out, which only adds interleavings.               *)
(***************************************************************************)
EXTENDS Integers, Sequences, FiniteSets

CONSTANTS
    Users,
    Conns,      \* the connections of the pool
    MaxCalls    \* bound: calls of the repositories

(* There is somebody to befriend.                                          *)
ASSUME UsersAssumption == \E u, v \in Users : u # v

VARIABLES
    status,     \* friend_apply: status[p] for the row (from_uid, to_uid) = p
    friend,     \* friend: the rows (self_id, friend_id)
    conn,       \* the connections and the coroutines that use them
    calls,      \* calls made, for MaxCalls
    accepted,   \* history: auth_friend_apply calls that returned true
    repeated    \* history: pairs whose add_friend_apply returned true though
                \* their request was stored before

vars == <<status, friend, conn, calls, accepted, repeated>>

---------------------------------------------------------------------------
Pairs == {p \in Users \X Users : p[1] # p[2]}
Back(p) == <<p[2], p[1]>>

Absent == -1    \* no row
Pending == 0
Passed == 1

Row == {"friend_apply", "friend"} \X Pairs

(* free: in the pool.  failed: the call threw and its connection has not   *)
(* been reset yet.  step: the statement that runs next.                    *)
Connection ==
    [op : {"free", "add", "auth", "failed"},
     pair : Pairs,          \* <<req.from_uid, req.to_uid>>
     step : 0..5,
     txn : BOOLEAN,         \* a transaction is open
     writes : SUBSET Row,   \* its uncommitted rows, which it has locked
     applied : BOOLEAN]     \* history: the request of the other side was there

TypeOK ==
    /\ status \in [Pairs -> {Absent, Pending, Passed}]
    /\ friend \subseteq Pairs
    /\ conn \in [Conns -> Connection]
    /\ \A c \in Conns : conn[c].op = "free" => ~conn[c].txn /\ conn[c].writes = {}
    /\ calls \in Nat
    /\ accepted \subseteq [pair : Pairs, applied : BOOLEAN]
    /\ repeated \subseteq Pairs

Init ==
    /\ status = [p \in Pairs |-> Absent]
    /\ friend = {}
    /\ conn \in [Conns -> [op : {"free"}, pair : {CHOOSE p \in Pairs : TRUE},
                           step : {0}, txn : {FALSE}, writes : {{}},
                           applied : {FALSE}]]
    /\ calls = 0
    /\ accepted = {}
    /\ repeated = {}

---------------------------------------------------------------------------
Locked(c, row) == \E d \in Conns \ {c} : row \in conn[d].writes

(* What COMMIT makes of the tables.                                        *)
Commit(writes) ==
    /\ status' = [p \in Pairs |->
          IF <<"friend_apply", p>> \in writes THEN Passed ELSE status[p]]
    /\ friend' = friend \cup {p \in Pairs : <<"friend", p>> \in writes}

Call(c, op, p) ==
    /\ conn[c].op = "free" /\ calls < MaxCalls
    /\ calls' = calls + 1
    /\ conn' = [conn EXCEPT ![c] = [@ EXCEPT !.op = op, !.pair = p, !.step = 1,
                                             !.applied = FALSE]]
    /\ UNCHANGED <<status, friend, accepted, repeated>>

add_friend_apply(c, p) == Call(c, "add", p)
auth_friend_apply(c, p) == Call(c, "auth", p)

Running(c, op, step) == conn[c].op = op /\ conn[c].step = step

(* async_execute throws; the connection is not in the pool yet.            *)
Throws(c, txn, writes) ==
    conn' = [conn EXCEPT ![c].op = "failed", ![c].txn = txn, ![c].writes = writes]

(* return_without_reset().                                                 *)
ReturnToPool(c) == conn' = [conn EXCEPT ![c].op = "free", ![c].step = 0]

(* INSERT .. ON DUPLICATE KEY UPDATE from_uid = from_uid, to_uid = to_uid: *)
(* a row that exists keeps its status.                                     *)
InsertApply(c) ==
    LET p == conn[c].pair IN
    /\ Running(c, "add", 1) /\ ~Locked(c, <<"friend_apply", p>>)
    /\ status' = [status EXCEPT ![p] = IF @ = Absent THEN Pending ELSE @]
    /\ \/ /\ ReturnToPool(c)              \* the result arrives: true
          /\ repeated' = IF status[p] = Absent THEN repeated ELSE repeated \cup {p}
       \/ /\ Throws(c, FALSE, {})         \* it is lost
          /\ UNCHANGED repeated
    /\ UNCHANGED <<friend, calls, accepted>>

(* START TRANSACTION commits a transaction that is still open.             *)
StartTransaction(c) ==
    /\ Running(c, "auth", 1)
    /\ Commit(conn[c].writes)
    /\ conn' = [conn EXCEPT ![c].txn = TRUE, ![c].writes = {}, ![c].step = 2]
    /\ UNCHANGED <<calls, accepted, repeated>>

(* Mutant: the UPDATE runs in autocommit mode, before the transaction.     *)
UpdateOutsideTransaction(c) ==
    LET p == conn[c].pair IN
    /\ Running(c, "auth", 2) /\ ~Locked(c, <<"friend_apply", p>>)
    /\ status' = [status EXCEPT ![p] = IF @ = Absent THEN @ ELSE Passed]
    /\ conn' = [conn EXCEPT ![c].step = 3, ![c].applied = status[Back(p)] # Absent]
    /\ UNCHANGED <<friend, calls, accepted, repeated>>

(* UPDATE friend_apply SET status = 1 WHERE from_uid = .. AND to_uid = ..  *)
UpdateApply(c) ==
    LET p == conn[c].pair
        row == <<"friend_apply", p>>
    IN
    /\ Running(c, "auth", 2) /\ ~Locked(c, row)
    /\ conn' = [conn EXCEPT ![c].step = 3,
                            ![c].writes = IF status[p] = Absent THEN @ ELSE @ \cup {row},
                            ![c].applied = status[Back(p)] # Absent]
    /\ UNCHANGED <<status, friend, calls, accepted, repeated>>

(* INSERT IGNORE INTO friend.                                              *)
InsertFriend(c, step, p) ==
    LET row == <<"friend", p>> IN
    /\ Running(c, "auth", step) /\ ~Locked(c, row)
    /\ conn' = [conn EXCEPT ![c].step = step + 1,
                            ![c].writes = IF p \in friend THEN @ ELSE @ \cup {row}]
    /\ UNCHANGED <<status, friend, calls, accepted, repeated>>

InsertSelf(c) == InsertFriend(c, 3, conn[c].pair)
InsertBack(c) == InsertFriend(c, 4, Back(conn[c].pair))

(* Mutant: the COMMIT statement is missing.                                *)
NoCommit(c) ==
    /\ Running(c, "auth", 5)
    /\ conn' = [conn EXCEPT ![c].op = "failed"]
    /\ accepted' = accepted \cup {[pair |-> conn[c].pair, applied |-> conn[c].applied]}
    /\ UNCHANGED <<status, friend, calls, repeated>>

(* COMMIT, and the call returns true.                                      *)
CommitAuth(c) ==
    /\ Running(c, "auth", 5)
    /\ Commit(conn[c].writes)
    /\ conn' = [conn EXCEPT ![c].op = "free", ![c].step = 0,
                            ![c].txn = FALSE, ![c].writes = {}]
    /\ accepted' = accepted \cup {[pair |-> conn[c].pair, applied |-> conn[c].applied]}
    /\ UNCHANGED <<calls, repeated>>

(* A statement fails, for instance in a lock wait timeout: the server runs *)
(* no further statement and leaves the transaction open.                   *)
StatementFails(c) ==
    /\ conn[c].op \in {"add", "auth"}
    /\ Throws(c, conn[c].txn, conn[c].writes)
    /\ UNCHANGED <<status, friend, calls, accepted, repeated>>

(* The server picks c as the victim of a deadlock, or the connection is    *)
(* lost before COMMIT: the transaction is rolled back.                     *)
RolledBack(c) ==
    /\ conn[c].op \in {"add", "auth"}
    /\ Throws(c, FALSE, {})
    /\ UNCHANGED <<status, friend, calls, accepted, repeated>>

(* The connection is lost after COMMIT and before its result arrives.      *)
LostAfterCommit(c) ==
    /\ Running(c, "auth", 5)
    /\ Commit(conn[c].writes)
    /\ Throws(c, FALSE, {})
    /\ UNCHANGED <<calls, accepted, repeated>>

(* Mutant: return_without_reset() on the failure path as well.             *)
ReturnedDirty(c) ==
    /\ conn[c].op = "failed"
    /\ ReturnToPool(c)
    /\ UNCHANGED <<status, friend, calls, accepted, repeated>>

(* The pooled_connection is destroyed: the pool resets the connection      *)
(* before it hands it out again.                                           *)
Reset(c) ==
    /\ conn[c].op = "failed"
    /\ conn' = [conn EXCEPT ![c].op = "free", ![c].step = 0,
                            ![c].txn = FALSE, ![c].writes = {}]
    /\ UNCHANGED <<status, friend, calls, accepted, repeated>>

---------------------------------------------------------------------------
Next ==
    \E c \in Conns :
        \/ \E p \in Pairs : add_friend_apply(c, p) \/ auth_friend_apply(c, p)
        \/ InsertApply(c)
        \/ StartTransaction(c) \/ UpdateApply(c) \/ InsertSelf(c) \/ InsertBack(c)
        \/ CommitAuth(c)
        \/ StatementFails(c) \/ RolledBack(c) \/ LostAfterCommit(c) \/ Reset(c)

Spec == Init /\ [][Next]_vars

---------------------------------------------------------------------------
(* Friendship is mutual in what every reader can see, whichever statement  *)
(* of an authentication failed and whoever used the connection next.       *)
FriendSymmetric == \A p \in friend : Back(p) \in friend

(* A call that returned true is durable: both rows are committed.          *)
AcceptedAreFriends ==
    \A a \in accepted : {a.pair, Back(a.pair)} \subseteq friend

(* A row is passed only if the friendship was recorded with it.            *)
PassedAreFriends ==
    \A p \in Pairs : status[p] = Passed => p \in friend

(* The statements, connections and failures implement a graph whose calls  *)
(* take effect at once or not at all: no reader and no later call, on      *)
(* whichever connection, sees a part of an authentication.                 *)
Graph == INSTANCE FriendGraph WITH
            Guarded <- FALSE,
            requests <- {p \in Pairs : status[p] # Absent},
            passed <- {p \in Pairs : status[p] = Passed},
            friends <- friend,
            confirmed <- {a.pair : a \in accepted}
ImplementsFriendGraph == Graph!Spec

(* tests/TEST_PLAN.md:110, 111 and 148: an authentication for which there  *)
(* is no request is an error.  auth_friend_apply looks at no request and   *)
(* its UPDATE may match no row, so it makes friends all the same.          *)
Contract == INSTANCE FriendGraph WITH
            Guarded <- TRUE,
            requests <- {p \in Pairs : status[p] # Absent},
            passed <- {p \in Pairs : status[p] = Passed},
            friends <- friend,
            confirmed <- {a.pair : a \in accepted}
ImplementsContract == Contract!Spec

(* tests/TEST_PLAN.md:102 and 147: a second application to the same user   *)
(* is answered by an error.  ON DUPLICATE KEY UPDATE makes it a success.   *)
DuplicateRefused == repeated = {}

(* tests/TEST_PLAN.md:109: after an authentication the request has status  *)
(* 1.  add_friend stores (applicant, authenticator); auth_friend updates   *)
(* the row (authenticator, applicant), so the request stays pending.       *)
AuthPassesRequest ==
    \A a \in accepted : a.applied => status[Back(a.pair)] = Passed
===========================================================================
