--------------------------- MODULE AccountsProofs ---------------------------
(* Proofs about Accounts: codes and tokens shown to clients are the stored  *)
(* ones and a password is set only with a value of the account's email, for *)
(* any users, emails, spellings and number of requests, whichever keys      *)
(* codes and tokens share.                                                  *)
EXTENDS Accounts, TLAPS

(* A request goes on with the same fields from now on.                      *)
Settled(r) == http[r].stage \notin {"unsent", "select"}

(* Value c was created by a request whose key is k.                         *)
Proved(c, k) ==
    /\ c \in Requests /\ Settled(c)
    /\ F(c).op \in {"get_verify_code", "user_login"} /\ Key(c) = k

(* The gate makes one call at a time, so a remote coroutine it no longer    *)
(* waits for is one that broke off.                                         *)
OneCall == \A q, r \in Requests : Calling(q) /\ Calling(r) => q = r

(* What the coroutine in verify or status has found before it stores.       *)
RemoteInv ==
    \A r \in Requests : remote[r] # "none" =>
        /\ Settled(r)
        /\ Calling(r) \/ Key(r) \in failed
        /\ F(r).op \in {"get_verify_code", "user_login"}
        /\ remote[r] = "get" => F(r).op = "get_verify_code"
        /\ remote[r] = "set" /\ Key(r) \notin failed =>
              IF F(r).op = "get_verify_code" THEN redis[Key(r)] = None
                                             ELSE shown[Key(r)] = {}

(* A handler writes to the table only after it has seen the code.           *)
StageInv ==
    \A r \in Requests :
        /\ http[r].stage \in {"redis_get", "insert", "update"} =>
              F(r).op \in {"user_register", "reset_password"}
        /\ http[r].stage = "select" => F(r).op = "user_login"
        /\ http[r].stage \in {"insert", "update"} => Proved(F(r).code, F(r).email)

CodesInv == \A k \in Keys : redis[k] # None => Proved(redis[k], k)

RowProved(row) ==
    \/ row.provedBy = Before
    \/ \E e \in Emails : Same(e, row.email) /\ Proved(row.provedBy, e)

RowsInv == \A row \in user : RowProved(row)

Inv ==
    /\ TypeOK /\ OneCall /\ RemoteInv /\ StageInv /\ CodesInv /\ RowsInv
    /\ ShownCodesWork /\ ShownTokensWork

Request == [fields : Fields, stage : Stages \cup Answers \cup {"unsent"}]

---------------------------------------------------------------------------
LEMMA FieldTypes ==
    ASSUME NEW f \in Fields
    PROVE  /\ f.op \in {"get_verify_code", "user_register", "reset_password", "user_login"}
           /\ f.op # "user_login" => f.email \in Emails
           /\ f.op # "get_verify_code" => f.name \in Names /\ f.pwd \in Passwords
           /\ f.op \in {"user_register", "reset_password"} => f.code \in 0..MaxRequests
BY DEF Fields

LEMMA KeyTypes ==
    ASSUME TypeOK, NEW r \in Requests
    PROVE  /\ F(r) \in Fields
           /\ F(r).op = "user_login" => Key(r) \in Names
           /\ F(r).op # "user_login" => Key(r) \in Emails /\ Key(r) = F(r).email
           /\ Key(r) \in Keys
<1>1. F(r) \in Fields
  BY DEF TypeOK, F
<1>. QED  BY <1>1, FieldTypes DEF Key, Keys

LEMMA SameSymmetric == \A a, b : Same(a, b) <=> Same(b, a)
BY DEF Same

LEMMA SameReflexive == \A a : Same(a, a)
BY DEF Same

(* Moving a handler to another stage keeps what was sent.                   *)
LEMMA GoFacts ==
    ASSUME TypeOK, NEW r \in Requests, NEW s \in Stages \cup Answers, Go(r, s)
    PROVE  /\ http' \in [Requests -> Request]
           /\ http'[r].stage = s
           /\ \A q \in Requests : q # r => http'[q] = http[q]
           /\ \A q \in Requests : F(q)' = F(q) /\ Key(q)' = Key(q)
<1>1. /\ http' \in [Requests -> Request]
      /\ http'[r].stage = s /\ http'[r].fields = http[r].fields
      /\ \A q \in Requests : q # r => http'[q] = http[q]
  BY DEF TypeOK, Go, Request
<1>2. \A q \in Requests : http'[q].fields = http[q].fields
  BY <1>1
<1>. QED  BY <1>1, <1>2 DEF F, Key

LEMMA InitInv == Init => Inv
<1>. SUFFICES ASSUME Init PROVE Inv
  OBVIOUS
<1>1. (CHOOSE f \in Fields : TRUE) \in Fields
  <2>1. PICK e \in Emails : TRUE
    BY EmailsAssumption
  <2>2. [op |-> "get_verify_code", email |-> e] \in Fields
    BY DEF Fields
  <2>. QED  BY <2>2
<1>. DEFINE g == CHOOSE f \in Fields : TRUE
<1>2. http \in [Requests -> [fields : {g}, stage : {"unsent"}]]
  BY DEF Init
<1>. HIDE DEF g
<1>3. http \in [Requests -> Request] /\ \A r \in Requests : http[r].stage = "unsent"
  BY <1>1, <1>2 DEF Request, g
<1>4. user \subseteq Row /\ (\A a, b \in user : a = b) /\ \A row \in user : row.provedBy = Before
  BY RequestsAssumption DEF Init, Row, Before
<1>5. /\ redis = [k \in Keys |-> None] /\ remote = [r \in Requests |-> "none"]
      /\ shown = [k \in Keys |-> {}] /\ failed = {}
  BY DEF Init
<1>6. TypeOK
  BY <1>3, <1>4, <1>5, RequestsAssumption DEF TypeOK, Request, None
<1>7. OneCall /\ RemoteInv /\ StageInv /\ RowsInv
  BY <1>3, <1>4, <1>5 DEF OneCall, RemoteInv, StageInv, RowsInv, RowProved, Calling
<1>8. CodesInv /\ ShownCodesWork /\ ShownTokensWork
  BY <1>5 DEF CodesInv, ShownCodesWork, ShownTokensWork, Keys
<1>. QED  BY <1>6, <1>7, <1>8 DEF Inv

---------------------------------------------------------------------------
(* What a request was sent with does not change.                            *)
LEMMA StillProved ==
    ASSUME \A q \in Requests : Settled(q) =>
               Settled(q)' /\ http'[q].fields = http[q].fields,
           NEW c, NEW e, Proved(c, e)
    PROVE  Proved(c, e)'
BY DEF Proved, F, Key

(* A handler of the gate goes on, with what it may write to the table.      *)
LEMMA HandlerStep ==
    ASSUME Inv, NEW r \in Requests, NEW s \in Answers \cup {"insert", "update"},
           At(r, http[r].stage), http[r].stage # "unsent", Go(r, s),
           s \in {"insert", "update"} =>
               /\ F(r).op \in {"user_register", "reset_password"}
               /\ Proved(F(r).code, F(r).email),
           user' \subseteq Row,
           \A a, b \in user' : a # b => ~Same(a.name, b.name) /\ ~Same(a.email, b.email),
           \A row \in user' : RowProved(row),
           UNCHANGED <<redis, remote, shown, failed>>
    PROVE  Inv'
<1>1. s \in Stages \cup Answers /\ s # "rpc" /\ s # "unsent" /\ s # "select" /\ TypeOK
  BY DEF Stages, Answers, Inv
<1>2. /\ http' \in [Requests -> Request]
      /\ http'[r].stage = s
      /\ \A q \in Requests : q # r => http'[q] = http[q]
      /\ \A q \in Requests : F(q)' = F(q) /\ Key(q)' = Key(q)
  BY <1>1, GoFacts
<1>3. \A q \in Requests : ~Calling(q) /\ ~Calling(q)'
  BY <1>1, <1>2 DEF At, GateRuns, Calling
<1>4. \A q \in Requests : Settled(q) =>
          Settled(q)' /\ http'[q].fields = http[q].fields
  BY <1>1, <1>2 DEF F, Settled
<1>5. TypeOK'
  BY <1>2, <1>3 DEF Inv, TypeOK, Request, Calling
<1>6. OneCall'
  BY <1>3 DEF OneCall
<1>7. RemoteInv'
  BY <1>2, <1>3, <1>4 DEF Inv, RemoteInv
<1>8. StageInv'
  <2>. SUFFICES ASSUME NEW q \in Requests
                PROVE  /\ http'[q].stage \in {"redis_get", "insert", "update"} =>
                             F(q).op \in {"user_register", "reset_password"}
                       /\ http'[q].stage = "select" => F(q).op = "user_login"
                       /\ http'[q].stage \in {"insert", "update"} =>
                             Proved(F(q).code, F(q).email)'
    BY <1>2 DEF StageInv
  <2>1. http'[q].stage \in {"insert", "update"} => Proved(F(q).code, F(q).email)
    BY <1>2 DEF Inv, StageInv
  <2>2. http'[q].stage \in {"insert", "update"} => Proved(F(q).code, F(q).email)'
    BY <1>2, <1>4, <2>1 DEF Proved
  <2>. QED  BY <1>1, <1>2, <2>2 DEF Inv, StageInv, Answers
<1>9. CodesInv'
  <2>. SUFFICES ASSUME NEW e \in Keys, redis[e] # None PROVE Proved(redis[e], e)'
    BY DEF CodesInv
  <2>1. Proved(redis[e], e)
    BY DEF Inv, CodesInv
  <2>. QED  BY <1>4, <2>1 DEF Proved, F, Key
<1>10. RowsInv'
  BY <1>4 DEF RowsInv, RowProved, Proved, F, Key
<1>11. ShownCodesWork' /\ ShownTokensWork'
  BY DEF Inv, ShownCodesWork, ShownTokensWork, Login
<1>. QED  BY <1>5, <1>6, <1>7, <1>8, <1>9, <1>10, <1>11 DEF Inv

(* The table keeps its keys, and the new password is one that was proved.   *)
LEMMA TableUnchanged ==
    ASSUME Inv, UNCHANGED user
    PROVE  /\ user' \subseteq Row
           /\ \A a, b \in user' : a # b => ~Same(a.name, b.name) /\ ~Same(a.email, b.email)
           /\ \A row \in user' : RowProved(row)
BY DEF Inv, TypeOK, RowsInv

LEMMA TableInsert ==
    ASSUME Inv, NEW r \in Requests, http[r].stage = "insert", ~Taken(r), InsertRow(r)
    PROVE  /\ user' \subseteq Row
           /\ \A a, b \in user' : a # b => ~Same(a.name, b.name) /\ ~Same(a.email, b.email)
           /\ \A row \in user' : RowProved(row)
<1>. DEFINE new == [name |-> F(r).name, email |-> F(r).email,
                    pwd |-> F(r).pwd, provedBy |-> F(r).code]
<1>1. F(r).op \in {"user_register", "reset_password"} /\ Proved(F(r).code, F(r).email)
  BY DEF Inv, StageInv
<1>2. F(r).name \in Names /\ F(r).email \in Emails /\ F(r).pwd \in Passwords
      /\ F(r).code \in 0..MaxRequests
  BY <1>1, KeyTypes, FieldTypes DEF Inv
<1>3. new \in Row /\ new.name = F(r).name /\ new.email = F(r).email /\ new.provedBy = F(r).code
  BY <1>2 DEF Row
<1>4. user' = user \cup {new}
  BY DEF InsertRow
<1>. HIDE DEF new
<1>5. \A row \in user :
          /\ ~Same(row.name, new.name) /\ ~Same(row.email, new.email)
          /\ ~Same(new.name, row.name) /\ ~Same(new.email, row.email)
  BY <1>3, SameSymmetric DEF Taken
<1>6. RowProved(new)
  BY <1>1, <1>2, <1>3, SameReflexive DEF RowProved
<1>. QED  BY <1>3, <1>4, <1>5, <1>6 DEF Inv, TypeOK, RowsInv

LEMMA TableReset ==
    ASSUME Inv, NEW r \in Requests, http[r].stage = "update",
           NEW matches \in SUBSET Matching(r), Reset(r, matches)
    PROVE  /\ user' \subseteq Row
           /\ \A a, b \in user' : a # b => ~Same(a.name, b.name) /\ ~Same(a.email, b.email)
           /\ \A row \in user' : RowProved(row)
<1>. DEFINE New(row) == IF row \in matches
                        THEN [row EXCEPT !.pwd = F(r).pwd, !.provedBy = F(r).code]
                        ELSE row
<1>1. F(r).op \in {"user_register", "reset_password"} /\ Proved(F(r).code, F(r).email)
  BY DEF Inv, StageInv
<1>2. F(r).pwd \in Passwords /\ F(r).code \in 0..MaxRequests /\ F(r).email \in Emails
  BY <1>1, KeyTypes, FieldTypes DEF Inv
<1>3. ASSUME NEW row \in user
      PROVE  /\ New(row) \in Row /\ New(row).name = row.name /\ New(row).email = row.email
             /\ \/ New(row).provedBy = row.provedBy
                \/ New(row).provedBy = F(r).code /\ Same(F(r).email, row.email)
  <2>1. row \in Row
    BY DEF Inv, TypeOK
  <2>2. CASE row \in matches
    <3>1. Same(F(r).email, row.email)
      BY <2>2, SameSymmetric DEF Matching
    <3>2. New(row) = [name |-> row.name, email |-> row.email, pwd |-> F(r).pwd,
                      provedBy |-> F(r).code]
      BY <2>1, <2>2 DEF Row
    <3>. QED  BY <1>2, <2>1, <3>1, <3>2 DEF Row
  <2>3. CASE row \notin matches
    BY <2>1, <2>3
  <2>. QED  BY <2>2, <2>3
<1>4. user' = {New(row) : row \in user}
  BY DEF Reset
<1>. HIDE DEF New
<1>5. user' \subseteq Row
  BY <1>3, <1>4
<1>6. \A a, b \in user' : a # b => ~Same(a.name, b.name) /\ ~Same(a.email, b.email)
  BY <1>3, <1>4 DEF Inv, TypeOK
<1>7. \A row \in user' : RowProved(row)
  <2>1. \A row \in user : RowProved(New(row))
    BY <1>1, <1>2, <1>3 DEF Inv, RowsInv, RowProved
  <2>. QED  BY <1>4, <2>1
<1>. QED  BY <1>5, <1>6, <1>7

---------------------------------------------------------------------------
(* The handlers of the gate, up to their answer or their next suspension.   *)
LEMMA RedisGetStep ==
    ASSUME Inv, NEW r \in Requests, RedisGet(r)
    PROVE  Inv'
<1>1. F(r).op \in {"user_register", "reset_password"} /\ F(r).email \in Emails
  BY KeyTypes, FieldTypes DEF Inv, StageInv, RedisGet, At
<1>2. Match(r) => Proved(F(r).code, F(r).email)
  BY <1>1 DEF Inv, CodesInv, Match, Keys
<1>3. PICK s \in {"invalid", "insert", "update"} : Go(r, s) /\ (s # "invalid" => Match(r))
  BY DEF RedisGet
<1>4. s \in Answers \cup {"insert", "update"}
  BY DEF Answers
<1>5. UNCHANGED <<user, redis, remote, shown, failed>>
      /\ At(r, http[r].stage) /\ http[r].stage # "unsent"
  BY DEF RedisGet, Tables, History, At
<1>. QED  BY <1>1, <1>2, <1>3, <1>4, <1>5, HandlerStep, TableUnchanged

LEMMA TableStep ==
    ASSUME Inv, NEW r \in Requests, create_user(r) \/ reset_password(r) \/ Fails(r)
    PROVE  Inv'
<1>1. PICK s \in Answers : Go(r, s)
  BY DEF create_user, reset_password, UpdateRows, Fails, FailsAt, Answers
<1>2. UNCHANGED <<redis, remote, shown, failed>>
      /\ At(r, http[r].stage) /\ http[r].stage # "unsent"
  BY DEF create_user, reset_password, UpdateRows, Fails, FailsAt, At, History
<1>3. \/ UNCHANGED user
      \/ http[r].stage = "insert" /\ ~Taken(r) /\ InsertRow(r)
      \/ http[r].stage = "update" /\ \E m \in SUBSET Matching(r) : Reset(r, m)
  <2>1. CASE create_user(r)
    BY <2>1 DEF create_user, At
  <2>2. CASE reset_password(r)
    <3>1. {row \in Matching(r) : row.pwd # F(r).pwd} \in SUBSET Matching(r)
      OBVIOUS
    <3>. QED  BY <2>2, <3>1 DEF reset_password, UpdateRows, At
  <2>3. CASE Fails(r)
    <3>1. Matching(r) \in SUBSET Matching(r)
      OBVIOUS
    <3>. QED  BY <2>3, <3>1 DEF Fails, FailsAt
  <2>. QED  BY <2>1, <2>2, <2>3
<1>4. /\ user' \subseteq Row
      /\ \A a, b \in user' : a # b => ~Same(a.name, b.name) /\ ~Same(a.email, b.email)
      /\ \A row \in user' : RowProved(row)
  BY <1>3, TableUnchanged, TableInsert, TableReset
<1>5. s \notin {"insert", "update"}
  BY DEF Answers
<1>. QED  BY <1>1, <1>2, <1>4, <1>5, HandlerStep

(* What changes in the other conjuncts when only history, redis, remote and *)
(* the stages of sent requests do.                                          *)
LEMMA SentKept ==
    ASSUME Inv, http' \in [Requests -> Request],
           \A q \in Requests : Settled(q) =>
               Settled(q)' /\ http'[q].fields = http[q].fields,
           \A q \in Requests :
               \/ http'[q].stage = http[q].stage /\ http'[q].fields = http[q].fields
               \/ http'[q].stage \in Answers \cup {"rpc"}
               \/ /\ http'[q].stage = "redis_get"
                  /\ http'[q].fields.op \in {"user_register", "reset_password"}
               \/ http'[q].stage = "select" /\ http'[q].fields.op = "user_login",
           UNCHANGED user
    PROVE  /\ StageInv' /\ RowsInv'
           /\ \A c, e : Proved(c, e) => Proved(c, e)'
<1>1. \A c, e : Proved(c, e) => Proved(c, e)'
  BY StillProved
<1>2. RowsInv'
  BY <1>1 DEF Inv, RowsInv, RowProved
<1>3. StageInv'
  <2>. SUFFICES ASSUME NEW q \in Requests
                PROVE  /\ http'[q].stage \in {"redis_get", "insert", "update"} =>
                             http'[q].fields.op \in {"user_register", "reset_password"}
                       /\ http'[q].stage = "select" => http'[q].fields.op = "user_login"
                       /\ http'[q].stage \in {"insert", "update"} =>
                             Proved(F(q).code, F(q).email)'
    BY DEF StageInv, F
  <2>1. CASE http'[q].stage = http[q].stage /\ http'[q].fields = http[q].fields
    <3>1. http'[q].stage \in {"insert", "update"} => Proved(F(q).code, F(q).email)
      BY <2>1 DEF Inv, StageInv
    <3>2. http'[q].stage \in {"insert", "update"} => Proved(F(q).code, F(q).email)'
      BY <1>1, <2>1, <3>1 DEF F
    <3>. QED  BY <2>1, <3>2 DEF Inv, StageInv, F
  <2>2. CASE ~(http'[q].stage = http[q].stage /\ http'[q].fields = http[q].fields)
    BY <2>2 DEF Answers
  <2>. QED  BY <2>1, <2>2
<1>. QED  BY <1>1, <1>2, <1>3

LEMMA CheckPasswordStep ==
    ASSUME Inv, NEW r \in Requests, check_password(r)
    PROVE  Inv'
<1>1. /\ GateRuns /\ http[r].stage = "select" /\ F(r).op = "user_login"
      /\ F(r) \in Fields
  BY KeyTypes DEF Inv, StageInv, check_password, At
<1>2. CASE Go(r, "invalid") /\ UNCHANGED <<remote, shown>>
  <2>1. "invalid" \in Answers /\ At(r, http[r].stage)
    BY <1>1 DEF Answers, At
  <2>. QED  BY <1>1, <1>2, <2>1, HandlerStep, TableUnchanged DEF check_password, Tables
<1>3. ASSUME NEW n \in Names,
             http' = [http EXCEPT ![r] = [fields |-> [F(r) EXCEPT !.name = n],
                                          stage |-> "rpc"]],
             remote' = [remote EXCEPT ![r] = "set"],
             shown' = [shown EXCEPT ![n] = {}]
      PROVE  Inv'
  <2>1. UNCHANGED <<user, redis, failed>> /\ n \in Keys
    BY DEF check_password, Tables, Keys
  <2>2. /\ http' \in [Requests -> Request] /\ http'[r].stage = "rpc"
        /\ \A q \in Requests : q # r => http'[q] = http[q]
        /\ F(r)'.op = "user_login" /\ Key(r)' = n
    <3>1. [F(r) EXCEPT !.name = n] \in Fields
          /\ [F(r) EXCEPT !.name = n].op = "user_login" /\ [F(r) EXCEPT !.name = n].name = n
      BY <1>1 DEF Fields
    <3>2. "rpc" \in Stages
      BY DEF Stages
    <3>. QED  BY <1>3, <3>1, <3>2 DEF Request, Inv, TypeOK, F, Key
  <2>3. \A q \in Requests : ~Calling(q) /\ (Calling(q)' <=> q = r)
    BY <1>1, <2>2 DEF GateRuns, Calling
  <2>4. StageInv' /\ RowsInv' /\ \A c, e : Proved(c, e) => Proved(c, e)'
    <3>1. \A q \in Requests : Settled(q) =>
              Settled(q)' /\ http'[q].fields = http[q].fields
      BY <1>1, <2>2 DEF Settled
    <3>. QED  BY <2>1, <2>2, <3>1, SentKept
  <2>5. /\ remote' \in [Requests -> {"none", "get", "set"}] /\ remote'[r] = "set"
        /\ \A q \in Requests : q # r => remote'[q] = remote[q]
    BY <1>3 DEF Inv, TypeOK
  <2>6. /\ shown' \in [Keys -> SUBSET Requests]
        /\ shown'[n] = {}
        /\ \A k \in Keys : k # n => shown'[k] = shown[k]
    BY <1>3, <2>1 DEF Inv, TypeOK
  <2>7. TypeOK'
    BY <2>1, <2>2, <2>3, <2>5, <2>6 DEF Inv, TypeOK, Request, Calling
  <2>8. OneCall'
    BY <2>3 DEF OneCall
  <2>9. RemoteInv'
    <3>1. ASSUME NEW q \in Requests, q # r, remote[q] # "none"
          PROVE  /\ Settled(q)' /\ Key(q) \in failed /\ Key(q)' = Key(q)
                 /\ F(q)' = F(q) /\ F(q).op \in {"get_verify_code", "user_login"}
                 /\ remote[q] = "get" => F(q).op = "get_verify_code"
      BY <2>2, <2>3, <3>1 DEF Inv, RemoteInv, Settled, F, Key
    <3>2. Settled(r)'
      BY <2>2 DEF Settled
    <3>. QED  BY <2>1, <2>2, <2>3, <2>5, <2>6, <3>1, <3>2 DEF RemoteInv
  <2>10. CodesInv'
    BY <2>1, <2>4 DEF Inv, CodesInv, Proved, F, Key
  <2>11. ShownCodesWork' /\ ShownTokensWork'
    BY <2>1, <2>6 DEF Inv, ShownCodesWork, ShownTokensWork, Login, Keys
  <2>. QED  BY <2>4, <2>7, <2>8, <2>9, <2>10, <2>11 DEF Inv
<1>4. \A row \in Checked(r) : row.name \in Names
  BY DEF Inv, TypeOK, Checked, Row
<1>. QED  BY <1>2, <1>3, <1>4 DEF check_password

(* The stage at which a handler first waits.                                *)
Start(f, s) ==
    \/ s = "bad_request"
    \/ s = "redis_get" /\ f.op \in {"user_register", "reset_password"}
    \/ s = "select" /\ f.op = "user_login"
    \/ s = "rpc" /\ f.op = "get_verify_code"

LEMMA HandleRequestStarts ==
    ASSUME Inv, NEW r \in Requests, handle_request(r)
    PROVE  \E f \in Fields, s \in {"bad_request", "redis_get", "select", "rpc"} :
               /\ Start(f, s)
               /\ http' = [http EXCEPT ![r].fields = f, ![r].stage = s]
               /\ remote' = IF s = "rpc" THEN [remote EXCEPT ![r] = "get"] ELSE remote
<1>1. CASE Go(r, "bad_request") /\ UNCHANGED remote
  <2>1. F(r) \in Fields
    BY KeyTypes DEF Inv
  <2>2. http' = [http EXCEPT ![r].fields = F(r), ![r].stage = "bad_request"]
    <3>1. http[r] = [fields |-> http[r].fields, stage |-> http[r].stage]
      BY DEF Inv, TypeOK
    <3>2. [http[r] EXCEPT !.stage = "bad_request"]
            = [http[r] EXCEPT !.fields = http[r].fields, !.stage = "bad_request"]
      BY <3>1
    <3>. QED  BY <1>1, <3>2 DEF Go, F
  <2>. QED  BY <1>1, <2>1, <2>2 DEF Start
<1>2. ASSUME NEW f \in Fields, Sent(r, f),
             IF f.op = "get_verify_code" THEN remote' = [remote EXCEPT ![r] = "get"]
                                         ELSE UNCHANGED remote
      PROVE  \E s \in {"bad_request", "redis_get", "select", "rpc"} :
               /\ Start(f, s)
               /\ http' = [http EXCEPT ![r].fields = f, ![r].stage = s]
               /\ remote' = IF s = "rpc" THEN [remote EXCEPT ![r] = "get"] ELSE remote
  <2>1. f.op \in {"get_verify_code", "user_register", "reset_password", "user_login"}
    BY FieldTypes
  <2>2. CASE f.op \in {"user_register", "reset_password"}
    BY <1>2, <2>2 DEF Sent, Start
  <2>3. CASE f.op = "user_login"
    BY <1>2, <2>3 DEF Sent, Start
  <2>4. CASE f.op = "get_verify_code"
    BY <1>2, <2>4 DEF Sent, Start
  <2>. QED  BY <2>1, <2>2, <2>3, <2>4
<1>. QED  BY <1>1, <1>2 DEF handle_request

LEMMA HandleRequestStep ==
    ASSUME Inv, NEW r \in Requests, handle_request(r)
    PROVE  Inv'
<1>1. GateRuns /\ http[r].stage = "unsent" /\ UNCHANGED <<user, redis, shown, failed>>
  BY DEF handle_request, Requests, Tables, History
<1>2. PICK f \in Fields, s \in {"bad_request", "redis_get", "select", "rpc"} :
               /\ Start(f, s)
               /\ http' = [http EXCEPT ![r].fields = f, ![r].stage = s]
               /\ remote' = IF s = "rpc" THEN [remote EXCEPT ![r] = "get"] ELSE remote
  BY HandleRequestStarts
<1>3. s \in Stages \cup Answers /\ s # "unsent" /\ (s = "bad_request" => s \in Answers)
  BY DEF Stages, Answers
<1>4. /\ http' \in [Requests -> Request]
      /\ http'[r].stage = s /\ http'[r].fields = f
      /\ \A q \in Requests : q # r => http'[q] = http[q]
  BY <1>2, <1>3 DEF Inv, TypeOK, Request
<1>5. remote[r] = "none" /\ remote \in [Requests -> {"none", "get", "set"}]
  BY <1>1 DEF Inv, RemoteInv, Settled, TypeOK
<1>6. /\ remote' \in [Requests -> {"none", "get", "set"}]
      /\ remote'[r] = IF s = "rpc" THEN "get" ELSE "none"
      /\ \A q \in Requests : q # r => remote'[q] = remote[q]
  BY <1>2, <1>5
<1>7. \A q \in Requests : q # r => F(q)' = F(q) /\ Key(q)' = Key(q)
  BY <1>4 DEF F, Key
<1>8. \A q \in Requests : ~Calling(q) /\ (Calling(q)' <=> q = r /\ s = "rpc")
  BY <1>1, <1>4 DEF GateRuns, Calling
<1>9. StageInv' /\ RowsInv' /\ \A c, e : Proved(c, e) => Proved(c, e)'
  BY <1>1, <1>2, <1>3, <1>4, SentKept DEF Start, Settled
<1>10. TypeOK'
  BY <1>1, <1>4, <1>6, <1>8 DEF Inv, TypeOK, Request, Calling
<1>11. OneCall'
  BY <1>8 DEF OneCall
<1>12. RemoteInv'
  <2>1. ASSUME NEW q \in Requests, q # r, remote[q] # "none"
        PROVE  Key(q) \in failed
    BY <1>8, <2>1 DEF Inv, RemoteInv
  <2>2. s = "rpc" => f.op = "get_verify_code"
    BY <1>2 DEF Start
  <2>3. F(r)' = f
    BY <1>4 DEF F
  <2>. QED  BY <1>1, <1>3, <1>4, <1>6, <1>7, <1>8, <2>1, <2>2, <2>3 DEF Inv, RemoteInv, Settled
<1>13. CodesInv'
  BY <1>1, <1>9 DEF Inv, CodesInv, Proved, F
<1>14. ShownCodesWork' /\ ShownTokensWork'
  BY <1>1 DEF Inv, ShownCodesWork, ShownTokensWork, Login
<1>. QED  BY <1>9, <1>10, <1>11, <1>12, <1>13, <1>14 DEF Inv

---------------------------------------------------------------------------
(* A remote coroutine whose key has seen no failure is the one the gate     *)
(* waits for.                                                               *)
LEMMA OneRemote ==
    ASSUME Inv, NEW q \in Requests, NEW r \in Requests,
           remote[q] # "none", remote[r] # "none",
           Key(q) \notin failed, Key(r) \notin failed
    PROVE  q = r
BY DEF Inv, RemoteInv, OneCall

LEMMA FinishFacts ==
    ASSUME Inv, NEW r \in Requests, NEW a \in Answers, Finish(r, a)
    PROVE  /\ http' \in [Requests -> Request]
           /\ \A q \in Requests : F(q)' = F(q) /\ Key(q)' = Key(q)
           /\ \A q \in Requests : Calling(q)' <=> Calling(q) /\ q # r
           /\ \A q \in Requests : \/ http'[q].stage = http[q].stage
                                   \/ /\ http'[q].stage \in Answers
                                      /\ http[q].stage # "unsent"
           /\ remote' \in [Requests -> {"none", "get", "set"}]
           /\ remote'[r] = "none"
           /\ \A q \in Requests : q # r => remote'[q] = remote[q]
<1>1. /\ remote' \in [Requests -> {"none", "get", "set"}]
      /\ remote'[r] = "none"
      /\ \A q \in Requests : q # r => remote'[q] = remote[q]
  BY DEF Inv, TypeOK, Finish
<1>2. CASE Calling(r)
  <2>1. Go(r, a) /\ a \in Stages \cup Answers /\ a # "rpc"
    BY <1>2 DEF Finish, Answers
  <2>. QED  BY <1>1, <1>2, <2>1, GoFacts DEF Inv, Calling
<1>3. CASE ~Calling(r)
  BY <1>1, <1>3 DEF Finish, F, Key, Calling, Inv, TypeOK, Request
<1>. QED  BY <1>2, <1>3

(* A remote coroutine ends: it may have stored its value, its key may have  *)
(* failed, and what clients were shown for the key is what is stored.       *)
LEMMA FinishStep ==
    ASSUME Inv, NEW r \in Requests, NEW a \in Answers, Finish(r, a),
           remote[r] # "none",
           (remote[r] = "set" /\ Store(r)) \/ UNCHANGED redis,
           failed' \in {failed, failed \cup {Key(r)}},
           shown' \in [Keys -> SUBSET Requests],
           \A k \in Keys : k # Key(r) => shown'[k] = shown[k],
           Key(r) \notin failed' => \A c \in shown'[Key(r)] : redis'[Key(r)] = c,
           UNCHANGED user
    PROVE  Inv'
<1>1. /\ http' \in [Requests -> Request]
      /\ \A q \in Requests : F(q)' = F(q) /\ Key(q)' = Key(q)
      /\ \A q \in Requests : Calling(q)' <=> Calling(q) /\ q # r
      /\ \A q \in Requests : \/ http'[q].stage = http[q].stage
                              \/ /\ http'[q].stage \in Answers
                                 /\ http[q].stage # "unsent"
      /\ remote' \in [Requests -> {"none", "get", "set"}]
      /\ remote'[r] = "none"
      /\ \A q \in Requests : q # r => remote'[q] = remote[q]
  BY FinishFacts
<1>2. /\ F(r) \in Fields /\ Key(r) \in Keys
      /\ F(r).op = "user_login" => Key(r) \in Names
      /\ F(r).op # "user_login" => Key(r) \in Emails /\ Key(r) = F(r).email
      /\ F(r).op \in {"get_verify_code", "user_login"} /\ Settled(r)
  BY KeyTypes DEF Inv, RemoteInv
<1>3. /\ redis' \in [Keys -> 0..MaxRequests]
      /\ redis'[Key(r)] \in {redis[Key(r)], r}
      /\ \A k \in Keys : k # Key(r) => redis'[k] = redis[k]
  BY <1>2, SMTT(30) DEF Inv, TypeOK, Store, Requests
<1>4. /\ "unsent" \notin Answers /\ "select" \notin Answers
      /\ \A q \in Requests : Settled(q) => Settled(q)'
  BY <1>1 DEF Answers, Settled
<1>5. StageInv' /\ RowsInv' /\ \A c, e : Proved(c, e) => Proved(c, e)'
  BY <1>1, <1>4, SentKept DEF F
<1>6. TypeOK'
  BY <1>1, <1>2, <1>3 DEF Inv, TypeOK, Request, Calling
<1>7. OneCall'
  BY <1>1 DEF Inv, OneCall
<1>8. RemoteInv'
  <2>. SUFFICES ASSUME NEW q \in Requests, remote'[q] # "none"
                PROVE  /\ Settled(q)'
                       /\ Calling(q)' \/ Key(q) \in failed'
                       /\ F(q).op \in {"get_verify_code", "user_login"}
                       /\ remote'[q] = "get" => F(q).op = "get_verify_code"
                       /\ remote'[q] = "set" /\ Key(q) \notin failed' =>
                             IF F(q).op = "get_verify_code" THEN redis'[Key(q)] = None
                                                            ELSE shown'[Key(q)] = {}
    BY <1>1 DEF RemoteInv
  <2>1. q # r /\ remote[q] = remote'[q] /\ remote[q] # "none"
    BY <1>1
  <2>2. /\ Settled(q)
        /\ Calling(q) \/ Key(q) \in failed
        /\ F(q).op \in {"get_verify_code", "user_login"}
        /\ remote[q] = "get" => F(q).op = "get_verify_code"
        /\ remote[q] = "set" /\ Key(q) \notin failed =>
              IF F(q).op = "get_verify_code" THEN redis[Key(q)] = None
                                             ELSE shown[Key(q)] = {}
    BY <2>1 DEF Inv, RemoteInv
  <2>3. ASSUME Key(q) \notin failed'
        PROVE  Key(q) # Key(r) /\ Key(q) \in Keys
    BY <2>1, <2>3, OneRemote, KeyTypes DEF Inv
  <2>. QED  BY <1>1, <1>3, <1>4, <2>1, <2>2, <2>3
<1>9. CodesInv'
  <2>. SUFFICES ASSUME NEW k \in Keys, redis'[k] # None
                PROVE  Proved(redis[k], k)'
    BY DEF CodesInv
  <2>1. CASE redis'[k] = redis[k]
    <3>1. Proved(redis[k], k)
      BY <2>1 DEF Inv, CodesInv
    <3>. QED  BY <1>5, <2>1, <3>1 DEF Proved, F, Key
  <2>2. CASE redis'[k] # redis[k]
    <3>1. k = Key(r) /\ redis'[k] = r
      BY <1>3, <2>2
    <3>2. Proved(r, k)
      BY <1>2, <3>1 DEF Proved
    <3>. QED  BY <1>5, <3>1, <3>2 DEF Proved, F, Key
  <2>. QED  BY <2>1, <2>2
<1>10. \A k \in Keys : k \notin failed' => \A c \in shown'[k] : redis'[k] = c
  BY <1>3 DEF Inv, ShownCodesWork, ShownTokensWork, Login, Keys
<1>11. ShownCodesWork' /\ ShownTokensWork'
  BY <1>10 DEF ShownCodesWork, ShownTokensWork, Login, Keys
<1>. QED  BY <1>5, <1>6, <1>7, <1>8, <1>9, <1>11 DEF Inv

(* The coroutines in verify and status that answer.                         *)
LEMMA RemoteStep ==
    ASSUME Inv, NEW r \in Requests,
           GetHits(r) \/ SetExpired(r) \/ GetChatServer(r) \/ SetFails(r)
    PROVE  Inv'
<1>1. Key(r) \in Keys /\ "ok" \in Answers /\ "error" \in Answers
  BY KeyTypes DEF Inv, Answers
<1>2. CASE SetFails(r)
  <2>1. shown' = shown /\ UNCHANGED user /\ remote[r] = "set" /\ Finish(r, "error")
        /\ (Store(r) \/ UNCHANGED redis) /\ failed' = failed \cup {Key(r)}
    BY <1>2 DEF SetFails
  <2>2. shown' \in [Keys -> SUBSET Requests]
    BY <2>1 DEF Inv, TypeOK
  <2>. QED  BY <1>1, <2>1, <2>2, FinishStep
<1>3. ASSUME NEW v \in Requests, Succeeds(r, v), remote[r] # "none",
             (remote[r] = "set" /\ Store(r)) \/ UNCHANGED redis,
             Key(r) \notin failed =>
                 redis'[Key(r)] = v /\ \A c \in shown[Key(r)] : c = v
      PROVE  Inv'
  <2>1. Finish(r, "ok") /\ UNCHANGED <<user, failed>>
        /\ shown' = [shown EXCEPT ![Key(r)] = IF Calling(r) THEN @ \cup {v} ELSE @]
    BY <1>3 DEF Succeeds
  <2>2. /\ shown' \in [Keys -> SUBSET Requests]
        /\ \A k \in Keys : k # Key(r) => shown'[k] = shown[k]
        /\ shown'[Key(r)] \subseteq shown[Key(r)] \cup {v}
    BY <1>1, <2>1 DEF Inv, TypeOK
  <2>3. Key(r) \notin failed' => \A c \in shown'[Key(r)] : redis'[Key(r)] = c
    BY <1>3, <2>1, <2>2
  <2>. QED  BY <1>1, <1>3, <2>1, <2>2, <2>3, FinishStep
<1>4. CASE GetHits(r)
  <2>1. Key(r) \in Emails
    BY <1>4, KeyTypes DEF GetHits, Inv, RemoteInv
  <2>2. redis[Key(r)] \in Requests /\ Succeeds(r, redis[Key(r)]) /\ UNCHANGED redis
        /\ remote[r] # "none"
    BY <1>1, <1>4, RequestsAssumption DEF GetHits, Inv, TypeOK, Requests, None
  <2>3. Key(r) \notin failed => \A c \in shown[Key(r)] : c = redis[Key(r)]
    BY <2>1 DEF Inv, ShownCodesWork
  <2>. QED  BY <1>3, <2>2, <2>3
<1>5. CASE SetExpired(r) \/ GetChatServer(r)
  <2>1. remote[r] = "set" /\ Store(r) /\ Succeeds(r, r)
    BY <1>5 DEF SetExpired, GetChatServer
  <2>2. redis'[Key(r)] = r
    BY <1>1, <2>1 DEF Store, Inv, TypeOK
  <2>3. Key(r) \notin failed => shown[Key(r)] = {}
    <3>. SUFFICES ASSUME Key(r) \notin failed, NEW c \in shown[Key(r)] PROVE FALSE
      OBVIOUS
    <3>1. F(r).op = "get_verify_code" /\ redis[Key(r)] = None
      BY <2>1 DEF Inv, RemoteInv
    <3>2. c \in Requests /\ redis[Key(r)] = c
      BY <1>1, <3>1, KeyTypes DEF Inv, TypeOK, ShownCodesWork
    <3>. QED  BY <3>1, <3>2, RequestsAssumption DEF Requests, None
  <2>. QED  BY <1>3, <2>1, <2>2, <2>3
<1>. QED  BY <1>2, <1>4, <1>5

(* The verify server goes on to SETEX after a miss or an error of GET.      *)
LEMMA GetMissesStep ==
    ASSUME Inv, NEW r \in Requests, GetMisses(r)
    PROVE  Inv'
<1>1. /\ remote[r] = "get" /\ remote' = [remote EXCEPT ![r] = "set"]
      /\ failed' = IF redis[Key(r)] = None THEN failed ELSE failed \cup {Key(r)}
      /\ UNCHANGED <<user, redis, http, shown>>
  BY DEF GetMisses, Tables
<1>2. /\ remote' \in [Requests -> {"none", "get", "set"}] /\ remote'[r] = "set"
      /\ \A q \in Requests : q # r => remote'[q] = remote[q]
  BY <1>1 DEF Inv, TypeOK
<1>3. Key(r) \in Keys /\ F(r).op = "get_verify_code"
  BY <1>1, KeyTypes DEF Inv, RemoteInv
<1>4. /\ failed \subseteq failed' /\ failed' \subseteq Keys
      /\ Key(r) \notin failed' => redis[Key(r)] = None
  BY <1>1, <1>3 DEF Inv, TypeOK
<1>5. \A q \in Requests : F(q)' = F(q) /\ Key(q)' = Key(q) /\ (Calling(q)' <=> Calling(q))
  BY <1>1 DEF F, Key, Calling
<1>6. TypeOK' /\ OneCall'
  BY <1>1, <1>2, <1>4, <1>5 DEF Inv, TypeOK, OneCall
<1>7. RemoteInv'
  BY <1>1, <1>2, <1>3, <1>4, <1>5 DEF Inv, RemoteInv, Settled
<1>8. StageInv' /\ CodesInv' /\ RowsInv'
  BY <1>1, <1>5 DEF Inv, StageInv, CodesInv, RowsInv, RowProved, Proved, Settled
<1>9. ShownCodesWork' /\ ShownTokensWork'
  BY <1>1, <1>4 DEF Inv, ShownCodesWork, ShownTokensWork, Login
<1>. QED  BY <1>6, <1>7, <1>8, <1>9 DEF Inv

(* The gate gives a call up; its key counts as failed from then on.         *)
LEMMA RpcBreaksStep ==
    ASSUME Inv, NEW r \in Requests, RpcBreaks(r)
    PROVE  Inv'
<1>1. /\ Calling(r) /\ Go(r, "error") /\ failed' = failed \cup {Key(r)}
      /\ UNCHANGED <<user, redis, remote, shown>>
      /\ "error" \in Answers /\ "error" \in Stages \cup Answers
  BY DEF RpcBreaks, Tables, Answers
<1>2. /\ http' \in [Requests -> Request]
      /\ http'[r].stage = "error"
      /\ \A q \in Requests : q # r => http'[q] = http[q]
      /\ \A q \in Requests : F(q)' = F(q) /\ Key(q)' = Key(q)
  BY <1>1, GoFacts DEF Inv
<1>3. \A q \in Requests : Calling(q)' <=> Calling(q) /\ q # r
  BY <1>2 DEF Calling
<1>4. StageInv' /\ RowsInv' /\ \A c, e : Proved(c, e) => Proved(c, e)'
  BY <1>1, <1>2, SentKept DEF F, Settled, Answers
<1>5. failed' \subseteq Keys /\ failed \subseteq failed' /\ Key(r) \in failed'
  BY <1>1, KeyTypes DEF Inv, TypeOK
<1>6. TypeOK' /\ OneCall'
  BY <1>1, <1>2, <1>3, <1>5 DEF Inv, TypeOK, OneCall, Request, Calling
<1>7. RemoteInv'
  BY <1>1, <1>2, <1>3, <1>5 DEF Inv, RemoteInv, Settled
<1>8. CodesInv'
  BY <1>1, <1>4 DEF Inv, CodesInv, Proved, F
<1>9. ShownCodesWork' /\ ShownTokensWork'
  BY <1>1, <1>5 DEF Inv, ShownCodesWork, ShownTokensWork, Login
<1>. QED  BY <1>4, <1>6, <1>7, <1>8, <1>9 DEF Inv

LEMMA ExpiresStep ==
    ASSUME Inv, NEW e \in Emails, Expires(e)
    PROVE  Inv'
<1>1. /\ redis' = [redis EXCEPT ![e] = None] /\ shown' = [shown EXCEPT ![e] = {}]
      /\ UNCHANGED <<user, http, remote, failed>>
  BY DEF Expires
<1>2. /\ redis' \in [Keys -> 0..MaxRequests] /\ redis'[e] = None
      /\ shown' \in [Keys -> SUBSET Requests] /\ shown'[e] = {}
      /\ \A k \in Keys : k # e => redis'[k] = redis[k] /\ shown'[k] = shown[k]
  BY <1>1, RequestsAssumption DEF Inv, TypeOK, Keys, None
<1>3. \A q \in Requests : /\ F(q)' = F(q) /\ Key(q)' = Key(q) /\ Key(q) \in Keys
                          /\ Calling(q)' <=> Calling(q)
  BY <1>1, KeyTypes DEF F, Key, Calling, Inv
<1>4. TypeOK' /\ OneCall'
  BY <1>1, <1>2, <1>3 DEF Inv, TypeOK, OneCall
<1>5. RemoteInv'
  BY <1>1, <1>2, <1>3 DEF Inv, RemoteInv, Settled
<1>6. StageInv' /\ RowsInv'
  BY <1>1, <1>3 DEF Inv, StageInv, RowsInv, RowProved, Proved, Settled
<1>7. CodesInv'
  BY <1>1, <1>2, <1>3 DEF Inv, CodesInv, Proved, Settled, Keys
<1>8. ShownCodesWork' /\ ShownTokensWork'
  BY <1>1, <1>2 DEF Inv, ShownCodesWork, ShownTokensWork, Login, Keys
<1>. QED  BY <1>4, <1>5, <1>6, <1>7, <1>8 DEF Inv

---------------------------------------------------------------------------
LEMMA NextInv == Inv /\ [Next]_vars => Inv'
<1>. SUFFICES ASSUME Inv, [Next]_vars PROVE Inv'
  OBVIOUS
<1>1. CASE UNCHANGED vars
  <2>. USE <1>1 DEF vars, Inv
  <2>1. TypeOK' /\ OneCall' /\ RemoteInv'
    BY DEF TypeOK, OneCall, RemoteInv, Calling, Key, F, Settled
  <2>2. StageInv' /\ CodesInv' /\ RowsInv'
    BY DEF StageInv, CodesInv, RowsInv, RowProved, Proved, Settled, F, Key
  <2>3. ShownCodesWork' /\ ShownTokensWork'
    BY DEF ShownCodesWork, ShownTokensWork, Login
  <2>. QED  BY <2>1, <2>2, <2>3
<1>2. ASSUME NEW r \in Requests, Gate(r) PROVE Inv'
  BY <1>2, HandleRequestStep, RedisGetStep, TableStep, CheckPasswordStep DEF Gate
<1>3. ASSUME NEW r \in Requests, Remote(r) PROVE Inv'
  BY <1>3, RemoteStep, GetMissesStep DEF Remote
<1>. QED  BY <1>1, <1>2, <1>3, RpcBreaksStep, ExpiresStep DEF Next

LEMMA Invariance == Spec => []Inv
BY InitInv, NextInv, PTL DEF Spec

(* The gate's requests and tables are well typed; names and emails stay     *)
(* unique in table user under concurrent registrations.                     *)
THEOREM Typed == Spec => []TypeOK
<1>1. Inv => TypeOK
  BY DEF Inv
<1>. QED  BY <1>1, Invariance, PTL

(* A code answered by get_verify_code is the one redis keeps until it       *)
(* expires (verify_server/grpc_service.hpp), if no step for it failed.      *)
THEOREM CodesWork == Spec => []ShownCodesWork
<1>1. Inv => ShownCodesWork
  BY DEF Inv
<1>. QED  BY <1>1, Invariance, PTL

(* A token answered by user_login is the one the status server's Login will *)
(* confirm, if no step for that user failed.                                *)
THEOREM TokensWork == Spec => []ShownTokensWork
<1>1. Inv => ShownTokensWork
  BY DEF Inv
<1>. QED  BY <1>1, Invariance, PTL

(* user_register and reset_password set a password only for a request that  *)
(* presented a value created for the email of the account, in some spelling.*)
THEOREM ProvedByCode == Spec => []PasswordProvedByCode
<1>1. \A c, e : Proved(c, e) => CreatedFor(c, e)
  BY RequestsAssumption DEF Proved, CreatedFor, Requests, None
<1>2. Inv => PasswordProvedByCode
  BY <1>1 DEF Inv, RowsInv, RowProved, PasswordProvedByCode
<1>. QED  BY <1>2, Invariance, PTL
=============================================================================
