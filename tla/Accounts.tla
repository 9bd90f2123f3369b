------------------------------ MODULE Accounts ------------------------------
(***************************************************************************)
(* Registration, password reset and login at the gate server               *)
(* (gate_server/dispatcher.cpp, user_repo.hpp, http_connection.cpp), with  *)
(* the verify server and the status server it calls                        *)
(* (verify_server/grpc_service.hpp, status_server/grpc_service.hpp), redis *)
(* and the MySQL table user.                                               *)
(*                                                                         *)
(* All HTTP handlers of the gate run on one io_context thread.  They yield *)
(* it at redis and MySQL, but call verify and status through synchronous   *)
(* stubs without a deadline: while a request is at stage "rpc" no other     *)
(* step of the gate happens, the 30 s timers of its handlers included.     *)
(*                                                                         *)
(* A verify code or a token is the number of the request that created it,  *)
(* for it is a fresh UUID.  A user's name stands for its id and for the    *)
(* redis key user_token_<uid> of its token.  The key of a code is the      *)
(* email as the client wrote it, which nothing checks, so an email may be  *)
(* the key of a token as well.  Redis compares keys byte by byte, the      *)
(* table user by its collation.  Redis and MySQL are external.             *)
(***************************************************************************)
EXTENDS Integers, FiniteSets

CONSTANTS
    Names, Emails, Passwords,
    Spellings,      \* sets of texts that the collation takes for equal
    MaxRequests     \* bound: HTTP requests

ASSUME RequestsAssumption == MaxRequests \in Nat

(* Equality by the collation is an equivalence.                            *)
ASSUME SpellingsAssumption == \A s, t \in Spellings : s = t \/ s \cap t = {}

ASSUME EmailsAssumption == Emails # {}

Requests == 1..MaxRequests
None == 0       \* no key; a code that was never issued
Before == -1    \* a code of the time before the initial state

VARIABLES
    user,       \* MySQL: the rows of table user
    redis,      \* redis: the code of an email (written by the verify server)
                \* and the token of a user (by the status server), by key
    http,       \* http[r]: HTTP request r and the coroutine that handles it
    remote,     \* remote[r]: the coroutine of request r in verify or status
    shown,      \* history: by key, the values answered to clients since the key
                \* last expired and the last login of its user began
    failed      \* history: the keys on which a step of a remote call failed

vars == <<user, redis, http, remote, shown, failed>>

---------------------------------------------------------------------------
(* provedBy (history): the code presented by the request that set pwd.     *)
Row == [name : Names, email : Emails, pwd : Passwords,
        provedBy : {Before} \cup 0..MaxRequests]

Fields ==
    [op : {"get_verify_code"}, email : Emails]
        \cup [op : {"user_register", "reset_password"}, name : Names, email : Emails,
              pwd : Passwords, code : 0..MaxRequests]
        \cup [op : {"user_login"}, name : Names, pwd : Passwords]

Keys == Emails \cup Names

(* The default collation of utf8mb4 (sql/user.sql) ignores case.           *)
Same(a, b) == a = b \/ \E s \in Spellings : {a, b} \subseteq s

(* A request not sent, one at a stage of its handler, or its answer.       *)
Stages == {"redis_get", "insert", "update", "select", "rpc"}
Answers == {"ok", "bad_request", "invalid", "exists", "error"}
Pending(r) == http[r].stage \in Stages
Answered(r) == http[r].stage \in Answers

TypeOK ==
    /\ user \subseteq Row
    /\ \A a, b \in user : a # b => ~Same(a.name, b.name) /\ ~Same(a.email, b.email)
    /\ redis \in [Keys -> 0..MaxRequests]
    /\ http \in [Requests -> [fields : Fields, stage : Stages \cup Answers \cup {"unsent"}]]
    /\ remote \in [Requests -> {"none", "get", "set"}]
    /\ \A r \in Requests : http[r].stage = "rpc" => remote[r] # "none"
    /\ shown \in [Keys -> SUBSET Requests]
    /\ failed \subseteq Keys

Init ==
    /\ user \in {{}} \cup
         {{[name |-> n, email |-> e, pwd |-> p, provedBy |-> Before]} :
             n \in Names, e \in Emails, p \in Passwords}
    /\ redis = [k \in Keys |-> None]
    /\ http \in [Requests -> [fields : {CHOOSE f \in Fields : TRUE}, stage : {"unsent"}]]
    /\ remote = [r \in Requests |-> "none"]
    /\ shown = [k \in Keys |-> {}]
    /\ failed = {}

---------------------------------------------------------------------------
(* Mutant: the stub calls are asynchronous, as the TODOs in the code plan. *)
GateNeverBlocks == TRUE

(* The gate's thread runs handlers unless a stub call blocks it.           *)
Calling(r) == http[r].stage = "rpc"
GateRuns == \A r \in Requests : ~Calling(r)

At(r, stage) == GateRuns /\ http[r].stage = stage
Go(r, stage) == http' = [http EXCEPT ![r].stage = stage]
Sent(r, f) == http' = [http EXCEPT ![r].fields = f,
                 ![r].stage = CASE f.op \in {"user_register", "reset_password"} -> "redis_get"
                                [] f.op = "user_login" -> "select"
                                [] f.op = "get_verify_code" -> "rpc"]
F(r) == http[r].fields

Key(r) == IF F(r).op = "user_login" THEN F(r).name ELSE F(r).email

Tables == <<user, redis>>
History == <<shown, failed>>

(* A client knows no UUID before it is created.                            *)
Presentable(r, f) ==
    f.op \in {"user_register", "reset_password"} => f.code < r

(* handle_request up to the first suspension of the handler.  Requests are *)
(* numbered in the order of arrival.                                       *)
handle_request(r) ==
    /\ GateRuns
    /\ \A q \in Requests : http[q].stage = "unsent" <=> q >= r
    /\ \/ /\ Go(r, "bad_request")   \* no endpoint, verb, content type or JSON
          /\ UNCHANGED remote
       \/ \E f \in Fields :
             /\ Presentable(r, f) /\ Sent(r, f)
             /\ IF f.op = "get_verify_code" THEN remote' = [remote EXCEPT ![r] = "get"]
                                            ELSE UNCHANGED remote
    /\ UNCHANGED <<Tables, History>>

(* GET <email> of user_register and reset_password.                        *)
Match(r) == redis[F(r).email] # None /\ redis[F(r).email] = F(r).code
RedisGet(r) ==
    /\ At(r, "redis_get")
    /\ Go(r, IF ~Match(r) THEN "invalid"
             ELSE IF F(r).op = "user_register" THEN "insert" ELSE "update")
    /\ UNCHANGED <<Tables, remote, History>>

(* Mutant: the table has no unique key on name.                            *)
EmailTaken(r) == \E row \in user : Same(row.email, F(r).email)

(* The unique keys uk_name and uk_email, whose SQL error is 1062.          *)
Taken(r) ==
    \E row \in user : Same(row.name, F(r).name) \/ Same(row.email, F(r).email)

InsertRow(r) ==
    user' = user \cup {[name |-> F(r).name, email |-> F(r).email,
                        pwd |-> F(r).pwd, provedBy |-> F(r).code]}

create_user(r) ==
    /\ At(r, "insert")
    /\ \/ Taken(r) /\ Go(r, "exists") /\ UNCHANGED user
       \/ ~Taken(r) /\ Go(r, "ok") /\ InsertRow(r)
    /\ UNCHANGED <<redis, remote, History>>

(* UPDATE user SET pwd WHERE name AND email.                               *)
Reset(r, matches) ==
    user' = {IF row \in matches
             THEN [row EXCEPT !.pwd = F(r).pwd, !.provedBy = F(r).code]
             ELSE row : row \in user}

(* affected_rows counts the rows that change: a row that has this password *)
(* already is not one of them.                                             *)
UpdateRows(r, matches) ==
    /\ At(r, "update")
    /\ Go(r, IF \E row \in matches : row.pwd # F(r).pwd THEN "ok" ELSE "invalid")
    /\ Reset(r, {row \in matches : row.pwd # F(r).pwd})
    /\ UNCHANGED <<redis, remote, History>>

Matching(r) ==
    {row \in user : Same(row.name, F(r).name) /\ Same(row.email, F(r).email)}

(* Mutant: the WHERE clause names the user only.                           *)
ResetByName(r) == UpdateRows(r, {row \in user : Same(row.name, F(r).name)})

reset_password(r) == UpdateRows(r, Matching(r))

(* check_password, then the handler calls the status server with the id of *)
(* the row.                                                                *)
Checked(r) ==
    {row \in user : Same(row.name, F(r).name) /\ Same(row.pwd, F(r).pwd)}

check_password(r) ==
    /\ At(r, "select")
    /\ \/ \E row \in Checked(r) :
             /\ http' = [http EXCEPT ![r] = [fields |-> [F(r) EXCEPT !.name = row.name],
                                          stage |-> "rpc"]]
             /\ remote' = [remote EXCEPT ![r] = "set"]
             /\ shown' = [shown EXCEPT ![row.name] = {}]
       \/ Checked(r) = {} /\ Go(r, "invalid") /\ UNCHANGED <<remote, shown>>
    /\ UNCHANGED <<Tables, failed>>

(* redis or MySQL answers with an error, or the 30 s timer cancels the     *)
(* handler: status 500.  The statement may have been executed.             *)
FailsAt(r, stages) ==
    /\ GateRuns /\ http[r].stage \in stages
    /\ Go(r, "error")
    /\ \/ UNCHANGED user
       \/ http[r].stage = "insert" /\ ~Taken(r) /\ InsertRow(r)
       \/ http[r].stage = "update" /\ Reset(r, Matching(r))
    /\ UNCHANGED <<redis, remote, History>>

(* Mutant: no cancel_after, so that a GET without an answer does not end.  *)
FailsOnError(r) == FailsAt(r, {"insert", "update", "select"})

Fails(r) == FailsAt(r, {"redis_get", "insert", "update", "select"})

---------------------------------------------------------------------------
(* The remote coroutine finishes: the stub returns, unless the gate has    *)
(* given the call up.                                                      *)
Finish(r, answer) ==
    /\ remote' = [remote EXCEPT ![r] = "none"]
    /\ IF Calling(r) THEN Go(r, answer) ELSE UNCHANGED http

Succeeds(r, value) ==
    /\ Finish(r, "ok")
    /\ shown' = [shown EXCEPT ![Key(r)] = IF Calling(r) THEN @ \cup {value} ELSE @]
    /\ UNCHANGED <<user, failed>>

Store(r) == redis' = [redis EXCEPT ![Key(r)] = r]

(* get_verify_code's GET: a live code is answered again, and a failed GET  *)
(* counts as a miss.                                                       *)
GetHits(r) ==
    /\ remote[r] = "get" /\ redis[Key(r)] # None
    /\ Succeeds(r, redis[Key(r)])
    /\ UNCHANGED redis

GetMisses(r) ==
    /\ remote[r] = "get"
    /\ remote' = [remote EXCEPT ![r] = "set"]
    /\ failed' = IF redis[Key(r)] = None THEN failed ELSE failed \cup {Key(r)}
    /\ UNCHANGED <<Tables, http, shown>>

(* SETEX <email> 600 <code>.                                               *)
SetExpired(r) ==
    /\ remote[r] = "set" /\ F(r).op = "get_verify_code"
    /\ Store(r)
    /\ Succeeds(r, r)

(* GetChatServer's SET user_token_<uid>.  The HGETALL before it writes     *)
(* nothing and its failure selects the first server.                       *)
GetChatServer(r) ==
    /\ remote[r] = "set" /\ F(r).op = "user_login"
    /\ Store(r)
    /\ Succeeds(r, r)

(* SETEX or SET returns an error, before or after redis executed it.       *)
SetFails(r) ==
    /\ remote[r] = "set"
    /\ Finish(r, "error")
    /\ Store(r) \/ UNCHANGED redis
    /\ failed' = failed \cup {Key(r)}
    /\ UNCHANGED <<user, shown>>

(* The connection to the server breaks: the stub returns UNAVAILABLE, the  *)
(* coroutine in the server goes on.                                        *)
RpcBreaks(r) ==
    /\ Calling(r)
    /\ Go(r, "error")
    /\ failed' = failed \cup {Key(r)}
    /\ UNCHANGED <<Tables, remote, shown>>

(* The 600 s of a code are over.  A token does not expire, and its SET     *)
(* takes the time limit off a key that had one.                            *)
Expires(e) ==
    /\ redis[e] # None /\ F(redis[e]).op = "get_verify_code"
    /\ redis' = [redis EXCEPT ![e] = None]
    /\ shown' = [shown EXCEPT ![e] = {}]
    /\ UNCHANGED <<user, http, remote, failed>>

(* The status server's Login answers with this token, which the chat       *)
(* server compares with the client's.                                      *)
Login(n) == redis[n]

---------------------------------------------------------------------------
Gate(r) ==
    \/ handle_request(r)
    \/ RedisGet(r) \/ create_user(r) \/ reset_password(r) \/ check_password(r)
    \/ Fails(r)

Remote(r) ==
    GetHits(r) \/ GetMisses(r) \/ SetExpired(r) \/ GetChatServer(r) \/ SetFails(r)

Next ==
    \/ \E r \in Requests : Gate(r) \/ Remote(r) \/ RpcBreaks(r)
    \/ \E e \in Emails : Expires(e)

Spec == Init /\ [][Next]_vars

(* The 30 s timer fires once the thread is free.  Nothing is assumed of    *)
(* redis, MySQL, verify and status: a redis connection that is down keeps  *)
(* the commands of its users waiting.                                      *)
Fairness == \A r \in Requests : WF_vars(Fails(r))
LiveSpec == Spec /\ Fairness

---------------------------------------------------------------------------
(* A code that was answered to a client is the one its registration will   *)
(* be compared with, until it expires or a login writes the same key, if   *)
(* no step on that key failed.  It rests on the gate making one call at a  *)
(* time.                                                                   *)
ShownCodesWork ==
    \A e \in Emails \ failed : \A c \in shown[e] : redis[e] = c

(* A token that was answered to a client is the one status confirms to the *)
(* chat server, until the user logs in again, if no step on its key failed,*)
(* those of a get_verify_code that names the key as its email included.    *)
ShownTokensWork ==
    \A n \in Names \ failed : \A t \in shown[n] : Login(n) = t

(* Whoever set the password of an account presented a value that was       *)
(* created for that account's email, in some spelling of it, whatever has  *)
(* expired or changed between the check and the statement.  It was created *)
(* by get_verify_code unless the email is the key of a token.  That the    *)
(* client owns the email is not implied: the gate answers codes to anyone. *)
CreatedFor(c, e) ==
    /\ c # None /\ F(c).op \in {"get_verify_code", "user_login"}
    /\ Key(c) = e
PasswordProvedByCode ==
    \A row \in user :
        \/ row.provedBy = Before
        \/ \E e \in Emails : Same(e, row.email) /\ CreatedFor(row.provedBy, e)

(* The 30 s limit of http_connection.cpp:67 works unless a stub call has   *)
(* stopped the whole gate for good.                                        *)
AnsweredOrStalled ==
    \A r \in Requests : Pending(r) ~> (Answered(r) \/ []~GateRuns)
=============================================================================
