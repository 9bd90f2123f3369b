------------------------------ MODULE FriendGraph ------------------------------
(***************************************************************************)
(* What the handlers add_friend and auth_friend rely on                    *)
(* (chat_server/handle_message.cpp): a call of the repositories takes      *)
(* effect at one moment or not at all, friendship is recorded for both     *)
(* sides at that moment, and a call that reports success has taken effect. *)
(* FriendRepo, with its pooled connections, statements, transactions and   *)
(* failures, implements this module with Guarded = FALSE.                  *)
(*                                                                         *)
(* With Guarded = TRUE the module is the contract of tests/TEST_PLAN.md:   *)
(* who has not been asked can accept nobody (lines 110, 111 and 148).      *)
(* FriendRepo does not implement that one.                                 *)
(***************************************************************************)
CONSTANTS
    Pairs, Back(_),
    Guarded     \* an authentication needs the request of the other side

VARIABLES
    requests,   \* the pairs <<from, to>> with a row of friend_apply
    passed,     \* those with status 1
    friends,    \* the rows <<self, friend>> of friend
    confirmed   \* the pairs whose authentication was reported to its caller

vars == <<requests, passed, friends, confirmed>>

Init == requests = {} /\ passed = {} /\ friends = {} /\ confirmed = {}

(* The request of a pair is stored.  A request that is there already is    *)
(* not touched: a second application changes nothing.                      *)
Apply(p) ==
    /\ p \notin requests
    /\ requests' = requests \cup {p}
    /\ UNCHANGED <<passed, friends, confirmed>>

(* Both sides become friends and the pair's own request, if it was seen,   *)
(* is passed.  The caller may not learn of it.                             *)
Befriend(p) ==
    /\ Guarded => Back(p) \in requests
    /\ friends' = friends \cup {p, Back(p)}
    /\ passed' \in {passed, passed \cup ({p} \cap requests)}
    /\ confirmed' \in {confirmed, confirmed \cup {p}}
    /\ UNCHANGED requests

Next == \E p \in Pairs : Apply(p) \/ Befriend(p)

Spec == Init /\ [][Next]_vars
================================================================================
