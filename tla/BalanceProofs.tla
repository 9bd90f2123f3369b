----------------------------- MODULE BalanceProofs -----------------------------
(* Theorems about Balance: what redis knows of a server at rest, and how    *)
(* far the loads of two servers may differ.                                 *)
EXTENDS Balance, FiniteSetTheorems, SequenceTheorems, TLAPS

---------------------------------------------------------------------------
(* What the status server takes a field for.                                *)
Known(n) == IF login_count[n] = NoField THEN 0 ELSE login_count[n]

(* The last count that server n has sent, or that redis has, is current.    *)
Current(n) ==
    IF hset[n] = <<>>
    THEN \/ login_count[n] = Cardinality(participants[n])
         \/ participants[n] = {} /\ login_count[n] = NoField
    ELSE hset[n][Len(hset[n])].count = Cardinality(participants[n])

CountInv == \A n \in Servers \ stale : Current(n)

In(n, stage) == {c \in Clients : client[c] = [stage |-> stage, at |-> n]}
Busy == {c \in Clients : client[c].stage \in LoggingIn}

(* Each HSET stands for a login that has not gone on: its number includes   *)
(* the sessions that are online and those whose HSETs are before it.        *)
Counts(n) ==
    /\ Len(hset[n]) <= Cardinality(In(n, "counting"))
    /\ Cardinality(In(n, "online")) <= Known(n)
    /\ Known(n) <= Cardinality(participants[n])
    /\ \A i \in DOMAIN hset[n] :
          /\ Cardinality(In(n, "online")) + i <= hset[n][i].count
          /\ hset[n][i].count <= Cardinality(participants[n])

(* Spread with the connections of the other server in place of its load,    *)
(* which a client that gives up lessens.                                    *)
Level ==
    /\ Cardinality(Busy) <= peak
    /\ \A n \in Servers : Counts(n)
    /\ \A n, m \in Servers : Load(n) <= Cardinality(participants[m]) + peak

SpreadInv == ~disturbed => Level

---------------------------------------------------------------------------
LEMMA Least ==
    ASSUME NEW T, T \subseteq Nat, T # {}
    PROVE  \E x \in T : \A y \in T : x <= y
<1>1. PICK x \in T : \A y \in T : <<y, x>> \notin OpToRel(<, Nat)
  BY NatLessThanWellFounded, WFMin
<1>2. \A y \in T : ~(y < x)
  BY <1>1 DEF OpToRel
<1>. QED  BY <1>2

LEMMA ServerNames ==
    /\ Servers \subseteq Nat /\ Servers \subseteq Names
    /\ NoField \notin Servers /\ Head(chat_servers) \in Servers
<1>1. /\ chat_servers \in Seq(Nat) /\ chat_servers # <<>> /\ NoField \notin Nat
  BY ConfigAssumption
<1>2. Len(chat_servers) \in Nat /\ DOMAIN chat_servers = 1..Len(chat_servers)
      /\ 1 \in DOMAIN chat_servers /\ Head(chat_servers) = chat_servers[1]
      /\ \A i \in DOMAIN chat_servers : chat_servers[i] \in Nat
  BY <1>1
<1>3. Servers \subseteq Nat /\ Head(chat_servers) \in Servers
  BY <1>2 DEF Servers, ToSet
<1>. QED  BY <1>1, <1>3 DEF Names

(* The choice of the status server exists, and nobody has less.             *)
Field(result, n) == IF result[n] = NoField THEN 0 ELSE result[n]

LEMMA ChosenIsLeast ==
    ASSUME NEW result \in [Names -> Nat \cup {NoField}]
    PROVE  /\ get_server_index(result) \in Servers
           /\ \A m \in Servers :
                 Field(result, get_server_index(result)) <= Field(result, m)
<1>1. \A n \in Servers : Field(result, n) \in Nat
  BY ServerNames DEF Field
<1>2. CASE \A n \in Names : result[n] = NoField
  <2>1. get_server_index(result) = Head(chat_servers)
    BY <1>2 DEF get_server_index
  <2>2. \A n \in Servers : Field(result, n) = 0
    BY <1>2, ServerNames DEF Field
  <2>3. PICK a \in Servers : a = get_server_index(result)
    BY <2>1, ServerNames
  <2>4. \A m \in Servers : Field(result, a) <= Field(result, m)
    BY <2>2
  <2>. QED  BY <2>3, <2>4
<1>3. CASE ~(\A n \in Names : result[n] = NoField)
  <2>. DEFINE F == {Field(result, n) : n \in Servers}
  <2>1. F \subseteq Nat /\ F # {}
    BY <1>1, ServerNames
  <2>2. PICK k \in F : \A j \in F : k <= j
    BY <2>1, Least
  <2>. DEFINE T == {n \in Servers : Field(result, n) = k}
  <2>3. T \subseteq Nat /\ T # {}
    BY ServerNames
  <2>4. PICK n \in T : \A m \in T : n <= m
    BY <2>3, Least
  <2>5. \A m \in Servers :
           \/ Field(result, n) < Field(result, m)
           \/ Field(result, n) = Field(result, m) /\ n <= m
    BY <1>1, <2>2, <2>4
  <2>. DEFINE Best(a) == \A m \in Servers :
           \/ Field(result, a) < Field(result, m)
           \/ Field(result, a) = Field(result, m) /\ a <= m
  <2>6. get_server_index(result) = CHOOSE a \in Servers : Best(a)
    BY <1>3 DEF get_server_index, Field
  <2>7. n \in Servers /\ Best(n)
    BY <2>5
  <2>8. get_server_index(result) \in Servers /\ Best(get_server_index(result))
    <3>. HIDE DEF Best
    <3>. QED  BY <2>6, <2>7
  <2>. QED  BY <1>1, <2>8
<1>. QED  BY <1>2, <1>3

LEMMA Finite ==
    ASSUME NEW S \in SUBSET Clients
    PROVE  IsFiniteSet(S) /\ Cardinality(S) \in Nat
BY ConfigAssumption, FS_Subset, FS_CardinalityType

LEMMA Smaller ==
    ASSUME NEW S \in SUBSET Clients, NEW T \in SUBSET S
    PROVE  Cardinality(T) <= Cardinality(S) /\ Cardinality(T) \in Nat
           /\ Cardinality(S) \in Nat
BY Finite, FS_Subset

---------------------------------------------------------------------------
Placed == [stage : {"assigned", "connected", "counting", "online"}, at : Servers]
Asking == [stage |-> "asking", at |-> NoField]
Inside == {"connected", "counting", "online"}
Write == [by : Clients, count : Nat]

(* TypeOK, part by part.                                                    *)
Joined ==
    \A n \in Servers : participants[n] =
        {c \in Clients : client[c].at = n /\ client[c].stage \in Inside}
Shape ==
    /\ client \in [Clients -> {Away, Asking} \cup Placed]
    /\ participants \in [Servers -> SUBSET Clients] /\ Joined
    /\ hset \in [Servers -> Seq(Write)]
    /\ login_count \in [Names -> Nat \cup {NoField}]
    /\ logins \in Nat
    /\ stale \subseteq Servers /\ peak \in Nat /\ disturbed \in BOOLEAN

LEMMA Kinds ==
    {Away} \cup {[stage |-> "asking", at |-> NoField]}
        \cup [stage : (LoggingIn \ {"asking"}) \cup {"online"}, at : Servers]
      = {Away, Asking} \cup Placed
<1>1. (LoggingIn \ {"asking"}) \cup {"online"}
        = {"assigned", "connected", "counting", "online"}
  BY DEF LoggingIn
<1>. QED  BY <1>1 DEF Asking, Placed

LEMMA ClientTypes == TypeOK <=> Shape
BY Kinds, Zenon DEF TypeOK, Shape, Joined, Inside, Write

LEMMA ClientTypesNext == TypeOK' <=> Shape'
BY Kinds, Zenon DEF TypeOK, Shape, Joined, Inside, Write

LEMMA PlacedAt ==
    ASSUME NEW s \in {"assigned", "connected", "counting", "online"}, NEW n \in Servers
    PROVE  /\ [stage |-> s, at |-> n] \in Placed
           /\ [stage |-> s, at |-> n].stage = s /\ [stage |-> s, at |-> n].at = n
BY DEF Placed

LEMMA ClientAt ==
    ASSUME NEW d \in {Away, Asking} \cup Placed
    PROVE  /\ d.stage \in {"away", "asking", "assigned", "connected", "counting", "online"}
           /\ d.stage = "away" <=> d = Away
           /\ d.stage = "asking" <=> d = Asking
           /\ d.stage \notin {"away", "asking"} => d.at \in Servers
           /\ d.at \in Servers => d.stage \notin {"away", "asking"}
           /\ d = [stage |-> d.stage, at |-> d.at]
BY ServerNames DEF Away, Asking, Placed

(* A client that goes to another stage at the place it is at, or to a place *)
(* from none, without connecting or leaving.                                *)
LEMMA GoesTyped ==
    ASSUME TypeOK, NEW c \in Clients, NEW d \in {Away, Asking} \cup Placed,
           client' = [client EXCEPT ![c] = d],
           d.stage \in Inside => client[c].at = d.at /\ client[c].stage \in Inside,
           client[c].stage \in Inside => d.stage \in Inside,
           UNCHANGED participants
    PROVE  /\ client' \in [Clients -> {Away, Asking} \cup Placed]
           /\ Joined'
<1>1. client \in [Clients -> {Away, Asking} \cup Placed]
  BY ClientTypes DEF Shape
<1>2. /\ client' \in [Clients -> {Away, Asking} \cup Placed] /\ client'[c] = d
      /\ \A b \in Clients : b # c => client'[b] = client[b]
  BY <1>1
<1>3. \A b \in Clients, n \in Servers :
         client'[b].at = n /\ client'[b].stage \in Inside
            <=> client[b].at = n /\ client[b].stage \in Inside
  BY <1>2
<1>4. Joined
  BY ClientTypes DEF Shape
<1>. QED  BY <1>2, <1>3, <1>4 DEF Joined

LEMMA GateTyped ==
    ASSUME TypeOK, NEW c \in Clients,
           GetChatServer(c) \/ Choose(c) \/ HgetallFails(c) \/ GivesUp(c)
    PROVE  TypeOK'
<1>1. client \in [Clients -> {Away, Asking} \cup Placed]
  BY ClientTypes DEF Shape
<1>2. \E d \in {Away, Asking} \cup Placed :
         /\ client' = [client EXCEPT ![c] = d]
         /\ d.stage \notin Inside /\ client[c].stage \notin Inside
  <2>1. CASE GetChatServer(c)
    <3>1. client' = [client EXCEPT ![c] = Asking] /\ client[c] = Away
      BY <2>1 DEF GetChatServer, Goes, Asking
    <3>2. Asking.stage \notin Inside /\ Away.stage \notin Inside
      BY DEF Asking, Away, Inside
    <3>. QED  BY <3>1, <3>2
  <2>2. ASSUME NEW f \in [Names -> Nat \cup {NoField}], client[c].stage = "asking",
               Goes(c, "assigned", get_server_index(f))
        PROVE  \E d \in {Away, Asking} \cup Placed :
                 /\ client' = [client EXCEPT ![c] = d]
                 /\ d.stage \notin Inside /\ client[c].stage \notin Inside
    <3>1. PICK n \in Servers : n = get_server_index(f)
      BY ChosenIsLeast
    <3>. QED  BY <2>2, <3>1, PlacedAt DEF Goes, Inside
  <2>3. CASE Choose(c)
    BY <2>2, <2>3, ClientTypes DEF Choose, Shape
  <2>4. CASE HgetallFails(c)
    <3>1. [n \in Names |-> NoField] \in [Names -> Nat \cup {NoField}]
      OBVIOUS
    <3>. QED  BY <2>2, <2>4, <3>1 DEF HgetallFails
  <2>5. CASE GivesUp(c)
    BY <2>5 DEF GivesUp, Away, Inside
  <2>. QED  BY <2>1, <2>3, <2>4, <2>5
<1>3. PICK d \in {Away, Asking} \cup Placed :
         /\ client' = [client EXCEPT ![c] = d]
         /\ d.stage \notin Inside /\ client[c].stage \notin Inside
  BY <1>2
<1>4. UNCHANGED <<participants, hset, login_count, stale>> /\ logins' \in Nat
      /\ disturbed' \in BOOLEAN
  <2>1. UNCHANGED <<participants, hset, login_count, stale>>
        /\ logins' \in {logins, logins + 1}
    BY DEF GetChatServer, Choose, HgetallFails, GivesUp, history
  <2>2. disturbed' = disturbed \/ disturbed' = TRUE
    BY DEF GetChatServer, Choose, HgetallFails, GivesUp, history
  <2>3. disturbed' \in BOOLEAN
    BY <2>2, ClientTypes, Zenon DEF Shape
  <2>4. logins' \in Nat
    BY <2>1, ClientTypes DEF Shape
  <2>. QED  BY <2>1, <2>3, <2>4
<1>5. peak' \in Nat
  <2>1. CASE GetChatServer(c)
    <3>1. PICK k : k = Cardinality({b \in Clients : client'[b].stage \in LoggingIn})
      OBVIOUS
    <3>2. k \in Nat /\ peak \in Nat /\ peak' = Max({peak, k})
      BY <2>1, <3>1, Finite, ClientTypes DEF GetChatServer, Shape
    <3>. QED  BY <3>2 DEF Max
  <2>. QED  BY <2>1, ClientTypes DEF Choose, HgetallFails, GivesUp, history, Shape
<1>6. participants' = participants
  BY <1>4
<1>7. client' \in [Clients -> {Away, Asking} \cup Placed] /\ Joined'
  BY <1>3, <1>6, GoesTyped
<1>. QED  BY <1>4, <1>5, <1>7, ClientTypes, ClientTypesNext DEF Shape

LEMMA ConnectTyped ==
    ASSUME TypeOK, NEW c \in Clients, Connect(c)
    PROVE  TypeOK'
<1>1. client \in [Clients -> {Away, Asking} \cup Placed] /\ client[c].stage = "assigned"
      /\ participants \in [Servers -> SUBSET Clients] /\ Joined
  BY ClientTypes DEF Shape, Connect
<1>2. PICK n \in Servers : n = client[c].at
  BY <1>1, ClientAt
<1>3. PICK d \in Placed : d = [stage |-> "connected", at |-> n] /\ d.stage = "connected"
                          /\ d.at = n
  BY PlacedAt, ZenonT(60)
<1>4. client' = [client EXCEPT ![c] = d]
      /\ participants' = [participants EXCEPT ![n] = @ \cup {c}]
  BY <1>2, <1>3 DEF Connect, Goes
<1>5. Joined'
  BY <1>1, <1>2, <1>3, <1>4 DEF Joined, Inside
<1>6. UNCHANGED <<hset, login_count, logins, peak, disturbed>> /\ stale' = stale \cup {n}
  BY <1>2 DEF Connect
<1>. QED  BY <1>1, <1>4, <1>5, <1>6, ClientTypes, ClientTypesNext DEF Shape

LEMMA SendCountTyped ==
    ASSUME TypeOK, NEW c \in Clients, SendCount(c)
    PROVE  TypeOK'
<1>1. client \in [Clients -> {Away, Asking} \cup Placed] /\ client[c].stage = "connected"
      /\ participants \in [Servers -> SUBSET Clients] /\ Joined
      /\ hset \in [Servers -> Seq(Write)]
  BY ClientTypes DEF Shape, SendCount
<1>2. PICK n \in Servers : n = client[c].at
  BY <1>1, ClientAt
<1>3. PICK d \in Placed : d = [stage |-> "counting", at |-> n] /\ d.stage = "counting"
                          /\ d.at = n
  BY PlacedAt, ZenonT(60)
<1>4. client' = [client EXCEPT ![c] = d] /\ UNCHANGED participants
  BY <1>2, <1>3 DEF SendCount, Goes
<1>5. client' \in [Clients -> {Away, Asking} \cup Placed] /\ Joined'
  BY <1>1, <1>2, <1>3, <1>4, GoesTyped DEF Inside
<1>6. PICK k \in Nat : k = Cardinality(participants[n])
  BY <1>1, Finite
<1>7. hset' \in [Servers -> Seq(Write)]
  <2>1. PICK e \in Write : e = [by |-> c, count |-> k]
    BY DEF Write
  <2>2. hset' = [hset EXCEPT ![n] = Append(hset[n], e)]
    BY <1>2, <1>6, <2>1 DEF SendCount
  <2>3. Append(hset[n], e) \in Seq(Write)
    BY <1>1
  <2>. QED  BY <1>1, <2>2, <2>3
<1>8. UNCHANGED <<login_count, logins, peak, disturbed>> /\ stale' = stale \ {n}
  BY <1>2 DEF SendCount
<1>. QED  BY <1>1, <1>4, <1>5, <1>7, <1>8, ClientTypes, ClientTypesNext DEF Shape

LEMMA LeaveTyped ==
    ASSUME TypeOK, NEW c \in Clients, Leave(c)
    PROVE  TypeOK'
<1>1. client \in [Clients -> {Away, Asking} \cup Placed] /\ client[c].stage \in Inside
      /\ participants \in [Servers -> SUBSET Clients] /\ Joined
  BY ClientTypes DEF Shape, Leave, Inside
<1>2. PICK n \in Servers : n = client[c].at
  BY <1>1, ClientAt DEF Inside
<1>3. Away.stage \notin Inside
  BY DEF Away, Inside
<1>4. client' = [client EXCEPT ![c] = Away]
      /\ participants' = [participants EXCEPT ![n] = @ \ {c}]
  BY <1>2 DEF Leave
<1>5. Joined'
  BY <1>1, <1>2, <1>3, <1>4 DEF Joined
<1>6. UNCHANGED <<hset, login_count, logins, peak>> /\ stale' = stale \cup {n}
      /\ disturbed' = TRUE
  BY <1>2, SMTT(30) DEF Leave
<1>. QED  BY <1>1, <1>4, <1>5, <1>6, ClientTypes, ClientTypesNext DEF Shape

LEMMA FirstRemoved ==
    ASSUME NEW X, NEW s \in Seq(X), s # <<>>
    PROVE  /\ RemoveAt(s, 1) = Tail(s) /\ Tail(s) \in Seq(X)
           /\ Head(s) = s[1] /\ s[1] \in X /\ 1 \in DOMAIN s
           /\ Len(s) \in Nat \ {0} /\ Len(Tail(s)) = Len(s) - 1
           /\ \A i \in DOMAIN Tail(s) : Tail(s)[i] = s[i + 1] /\ i + 1 \in DOMAIN s
<1>1. /\ Tail(s) \in Seq(X) /\ Len(s) \in Nat \ {0} /\ Len(Tail(s)) = Len(s) - 1
      /\ Head(s) = s[1] /\ s[1] \in X /\ 1 \in DOMAIN s
      /\ \A i \in DOMAIN Tail(s) : Tail(s)[i] = s[i + 1] /\ i + 1 \in DOMAIN s
  OBVIOUS
<1>2. PICK a \in Seq(X) : a = SubSeq(s, 1, 0) /\ Len(a) = 0
  <2>1. SubSeq(s, 1, 0) \in Seq(X) /\ Len(SubSeq(s, 1, 0)) = 0
    OBVIOUS
  <2>. QED  BY <2>1
<1>3. PICK b \in Seq(X) : b = SubSeq(s, 2, Len(s)) /\ Len(b) = Len(s) - 1
                          /\ \A i \in 1..(Len(s) - 1) : b[i] = s[i + 1]
  <2>1. /\ SubSeq(s, 2, Len(s)) \in Seq(X)
        /\ Len(SubSeq(s, 2, Len(s))) = Len(s) - 1
        /\ \A i \in 1..(Len(s) - 1) : SubSeq(s, 2, Len(s))[i] = s[i + 1]
    BY <1>1
  <2>. QED  BY <2>1
<1>4. a \o b \in Seq(X) /\ Len(a \o b) = Len(s) - 1
      /\ \A i \in 1..(Len(s) - 1) : (a \o b)[i] = s[i + 1]
  BY <1>1, <1>2, <1>3
<1>5. RemoveAt(s, 1) = a \o b
  BY <1>2, <1>3 DEF RemoveAt
<1>6. a \o b = Tail(s)
  <2>1. PICK r \in Seq(X) : r = Tail(s)
    BY <1>1
  <2>2. PICK q \in Seq(X) : q = a \o b
    BY <1>4
  <2>3. Len(q) = Len(r) /\ \A i \in 1..Len(q) : q[i] = r[i]
    <3>1. Len(r) = Len(s) - 1 /\ \A i \in 1..Len(r) : r[i] = s[i + 1]
      BY <1>1, <2>1
    <3>2. Len(q) = Len(s) - 1 /\ \A i \in 1..(Len(s) - 1) : q[i] = s[i + 1]
      BY <1>4, <2>2
    <3>. QED  BY <3>1, <3>2
  <2>4. q = r
    BY <2>3, SeqEqual
  <2>. QED  BY <2>1, <2>2, <2>4
<1>. QED  BY <1>1, <1>5, <1>6

LEMMA WriteTypes ==
    ASSUME NEW s \in Seq(Write)
    PROVE  \A i \in DOMAIN s : s[i].count \in Nat /\ i \in Nat
<1>1. \A i \in DOMAIN s : s[i] \in Write /\ i \in Nat
  OBVIOUS
<1>. QED  BY <1>1 DEF Write

(* What the answer to the first HSET changes.                               *)
LEMMA AnsweredStep ==
    ASSUME TypeOK, NEW n \in Servers, hset[n] # <<>>, Answered(n, 1)
    PROVE  /\ hset' = [hset EXCEPT ![n] = Tail(hset[n])]
           /\ \/ client' = client
              \/ \E c \in Clients :
                    /\ client[c] = [stage |-> "counting", at |-> n]
                    /\ client' = [client EXCEPT ![c] = [stage |-> "online", at |-> n]]
<1>1. PICK s \in Seq(Write) : s = hset[n]
  BY ClientTypes DEF Shape
<1>2. RemoveAt(s, 1) = Tail(s) /\ s[1] \in Write
  BY <1>1, FirstRemoved
<1>3. PICK c \in Clients : c = hset[n][1].by
  BY <1>1, <1>2 DEF Write
<1>4. client \in [Clients -> {Away, Asking} \cup Placed]
  BY ClientTypes DEF Shape
<1>5. \/ client' = client
      \/ client[c] = [stage |-> "counting", at |-> n]
         /\ client' = [client EXCEPT ![c].stage = "online"]
  BY <1>3 DEF Answered
<1>6. CASE client[c] = [stage |-> "counting", at |-> n]
           /\ client' = [client EXCEPT ![c].stage = "online"]
  <2>1. [client[c] EXCEPT !.stage = "online"] = [stage |-> "online", at |-> n]
    BY <1>6
  <2>2. client' = [client EXCEPT ![c] = [stage |-> "online", at |-> n]]
    BY <1>4, <1>6, <2>1
  <2>. QED  BY <1>1, <1>2, <1>6, <2>2 DEF Answered
<1>. QED  BY <1>1, <1>2, <1>5, <1>6 DEF Answered

LEMMA HsetTyped ==
    ASSUME TypeOK, NEW n \in Servers, Hset(n) \/ HsetFails(n)
    PROVE  TypeOK'
<1>1. hset[n] # <<>> /\ Answered(n, 1) /\ UNCHANGED <<participants, logins, peak>>
      /\ (\/ login_count' = login_count
          \/ login_count' = [login_count EXCEPT ![n] = Head(hset[n]).count])
      /\ stale' \in {stale, stale \cup {n}}
  BY DEF Hset, HsetFails, history
<1>2. PICK s \in Seq(Write) : s = hset[n]
  BY ClientTypes DEF Shape
<1>3. PICK k \in Nat : k = Head(hset[n]).count
  <2>1. Head(s) \in Write
    BY <1>1, <1>2, FirstRemoved
  <2>. QED  BY <1>2, <2>1 DEF Write
<1>4. login_count' \in [Names -> Nat \cup {NoField}]
  BY <1>1, <1>3, ClientTypes DEF Shape
<1>5. hset' \in [Servers -> Seq(Write)]
  <2>1. Tail(s) \in Seq(Write) /\ hset' = [hset EXCEPT ![n] = Tail(s)]
    BY <1>1, <1>2, FirstRemoved, AnsweredStep
  <2>. QED  BY <2>1, ClientTypes DEF Shape
<1>6. client' \in [Clients -> {Away, Asking} \cup Placed] /\ Joined'
  <2>1. CASE client' = client
    BY <1>1, <2>1, ClientTypes DEF Shape, Joined
  <2>2. ASSUME NEW c \in Clients, client[c] = [stage |-> "counting", at |-> n],
               client' = [client EXCEPT ![c] = [stage |-> "online", at |-> n]]
        PROVE  client' \in [Clients -> {Away, Asking} \cup Placed] /\ Joined'
    <3>1. PICK d \in Placed : d = [stage |-> "online", at |-> n] /\ d.stage = "online"
                              /\ d.at = n
      BY PlacedAt
    <3>2. client' = [client EXCEPT ![c] = d] /\ client[c].stage = "counting"
          /\ client[c].at = n
      BY <2>2, <3>1
    <3>. QED  BY <1>1, <3>1, <3>2, GoesTyped DEF Inside
  <2>. QED  BY <1>1, <2>1, <2>2, AnsweredStep
<1>7. disturbed' \in BOOLEAN
  <2>1. disturbed' = disturbed \/ disturbed' = TRUE
    BY DEF Hset, HsetFails, history
  <2>. QED  BY <2>1, ClientTypes, Zenon DEF Shape
<1>. QED  BY <1>1, <1>4, <1>5, <1>6, <1>7, ClientTypes, ClientTypesNext DEF Shape

LEMMA RestartTyped ==
    ASSUME TypeOK, NEW n \in Servers, Restart(n)
    PROVE  TypeOK'
<1>1. client \in [Clients -> {Away, Asking} \cup Placed]
      /\ participants \in [Servers -> SUBSET Clients] /\ Joined
      /\ hset \in [Servers -> Seq(Write)]
      /\ login_count \in [Names -> Nat \cup {NoField}]
  BY ClientTypes DEF Shape
<1>2. client' \in [Clients -> {Away, Asking} \cup Placed]
      /\ \A c \in Clients : client'[c] = IF c \in participants[n] THEN Away ELSE client[c]
  BY <1>1 DEF Restart
<1>3. Away.stage \notin Inside
  BY DEF Away, Inside
<1>4. participants' \in [Servers -> SUBSET Clients] /\ participants'[n] = {}
      /\ \A m \in Servers : m # n => participants'[m] = participants[m]
  BY <1>1 DEF Restart
<1>5. Joined'
  <2>. SUFFICES ASSUME NEW m \in Servers
                PROVE  participants'[m] = {c \in Clients : client'[c].at = m
                                                           /\ client'[c].stage \in Inside}
    BY DEF Joined
  <2>1. CASE m = n
    <3>1. \A c \in Clients : ~(client'[c].at = n /\ client'[c].stage \in Inside)
      BY <1>1, <1>2, <1>3, SMTT(30) DEF Joined
    <3>. QED  BY <1>4, <2>1, <3>1
  <2>2. CASE m # n
    <3>1. \A c \in participants[m] : c \notin participants[n]
      BY <1>1, <2>2 DEF Joined
    <3>2. \A c \in Clients : c \in participants[m]
             <=> client'[c].at = m /\ client'[c].stage \in Inside
      BY <1>1, <1>2, <1>3, <3>1 DEF Joined
    <3>. QED  BY <1>1, <1>4, <2>2, <3>2
  <2>. QED  BY <2>1, <2>2
<1>6. hset' \in [Servers -> Seq(Write)]
  BY <1>1 DEF Restart
<1>7. login_count' \in [Names -> Nat \cup {NoField}]
  <2>1. PICK k \in 0..Len(hset[n]) :
           login_count' = IF k = 0 THEN login_count
                          ELSE [login_count EXCEPT ![n] = hset[n][k].count]
    BY DEF Restart
  <2>2. k # 0 => hset[n][k].count \in Nat
    <3>1. PICK s \in Seq(Write) : s = hset[n]
      BY <1>1
    <3>2. k # 0 => s[k] \in Write
      BY <2>1, <3>1
    <3>. QED  BY <3>1, <3>2 DEF Write
  <2>. QED  BY <1>1, <2>1, <2>2
<1>8. UNCHANGED <<logins, peak>> /\ stale' = stale \cup {n} /\ disturbed' = TRUE
  BY DEF Restart
<1>. QED  BY <1>2, <1>4, <1>5, <1>6, <1>7, <1>8, ClientTypes, ClientTypesNext DEF Shape

LEMMA InitTyped == Init => TypeOK
<1>. SUFFICES ASSUME Init PROVE Shape
  BY ClientTypes
<1>1. client \in [Clients -> {Away, Asking} \cup Placed]
      /\ participants \in [Servers -> SUBSET Clients]
      /\ hset \in [Servers -> Seq(Write)]
      /\ logins \in Nat /\ peak \in Nat
  BY DEF Init
<1>2. Joined
  BY DEF Init, Joined, Away, Inside
<1>3. login_count \in [Names -> Nat \cup {NoField}]
  BY ConfigAssumption DEF Init
<1>4. stale \subseteq Servers /\ disturbed \in BOOLEAN
  BY DEF Init
<1>. QED  BY <1>1, <1>2, <1>3, <1>4 DEF Shape

LEMMA NextTyped == TypeOK /\ [Next]_vars => TypeOK'
<1>. SUFFICES ASSUME TypeOK, [Next]_vars PROVE TypeOK'
  OBVIOUS
<1>1. CASE UNCHANGED vars
  BY <1>1 DEF vars, TypeOK
<1>2. CASE Next
  BY <1>2, GateTyped, ConnectTyped, SendCountTyped, LeaveTyped, HsetTyped, RestartTyped
     DEF Next
<1>. QED  BY <1>1, <1>2

(* The books are well typed: among others participants_ holds exactly the   *)
(* clients that are connected to the server, and the status server's choice *)
(* is a configured server whatever redis holds.                             *)
THEOREM Typed == Spec => []TypeOK
BY InitTyped, NextTyped, PTL DEF Spec

---------------------------------------------------------------------------
(* What a step that leaves the counts alone, or marks the server, keeps.    *)
LEMMA CountKept ==
    ASSUME CountInv, NEW n \in Servers,
           stale \subseteq stale',
           \A m \in Servers : m \notin stale' =>
               /\ participants'[m] = participants[m] /\ hset'[m] = hset[m]
               /\ login_count'[m] = login_count[m]
    PROVE  CountInv'
BY DEF CountInv, Current

LEMMA CountSends ==
    ASSUME TypeOK, CountInv, NEW c \in Clients, SendCount(c)
    PROVE  CountInv'
<1>1. PICK n \in Servers : n = client[c].at
  BY ClientTypes, ClientAt DEF Shape, SendCount
<1>2. PICK s \in Seq(Write) : s = hset[n]
  BY ClientTypes DEF Shape
<1>3. PICK k : k = Cardinality(participants[n])
  OBVIOUS
<1>4. PICK e \in Write : e.count = k /\ hset'[n] = Append(s, e)
  <2>1. [by |-> c, count |-> k] \in Write
    BY <1>3, Finite, ClientTypes DEF Shape, Write
  <2>. QED  BY <1>1, <1>2, <1>3, <2>1, ClientTypes DEF SendCount, Shape
<1>5. /\ UNCHANGED <<participants, login_count>> /\ stale' = stale \ {n}
      /\ \A m \in Servers : m # n => hset'[m] = hset[m]
  BY <1>1, ClientTypes DEF SendCount, Shape
<1>6. Append(s, e) # <<>> /\ Append(s, e)[Len(Append(s, e))] = e
  BY <1>2, <1>4
<1>7. Current(n)'
  BY <1>3, <1>4, <1>5, <1>6 DEF Current
<1>. QED  BY <1>5, <1>7 DEF CountInv, Current

LEMMA CountExecuted ==
    ASSUME TypeOK, CountInv, NEW n \in Servers, Hset(n)
    PROVE  CountInv'
<1>1. hset[n] # <<>> /\ Answered(n, 1) /\ UNCHANGED <<participants, stale>>
      /\ login_count' = [login_count EXCEPT ![n] = Head(hset[n]).count]
  BY DEF Hset, history
<1>2. PICK s \in Seq(Write) : s = hset[n]
  BY ClientTypes DEF Shape
<1>3. /\ hset'[n] = Tail(s) /\ login_count'[n] = s[1].count
      /\ \A m \in Servers : m # n =>
            hset'[m] = hset[m] /\ login_count'[m] = login_count[m]
  <2>1. hset' = [hset EXCEPT ![n] = Tail(s)] /\ Head(s) = s[1]
    BY <1>1, <1>2, FirstRemoved, AnsweredStep
  <2>2. login_count' = [login_count EXCEPT ![n] = s[1].count]
    BY <1>1, <1>2, <2>1
  <2>. QED  BY <2>1, <2>2, ClientTypes, ServerNames DEF Shape
<1>4. ASSUME n \notin stale PROVE Current(n)'
  <2>1. s[Len(s)].count = Cardinality(participants[n]) /\ Len(s) \in Nat \ {0}
    BY <1>1, <1>2, <1>4, FirstRemoved DEF CountInv, Current
  <2>2. CASE Len(s) = 1
    <3>1. Tail(s) = <<>>
      BY <1>1, <1>2, <2>2, FirstRemoved
    <3>. QED  BY <1>1, <1>3, <2>1, <2>2, <3>1 DEF Current
  <2>3. CASE Len(s) # 1
    <3>1. Tail(s) # <<>> /\ Tail(s)[Len(Tail(s))] = s[Len(s)]
      <4>1. PICK r \in Seq(Write) : r = Tail(s)
        BY <1>1, <1>2, FirstRemoved
      <4>2. Len(r) = Len(s) - 1 /\ \A i \in DOMAIN r : r[i] = s[i + 1]
        BY <1>1, <1>2, <4>1, FirstRemoved
      <4>3. Len(r) \in DOMAIN r /\ Len(r) + 1 = Len(s)
        BY <2>1, <2>3, <4>1, <4>2
      <4>4. r[Len(r)] = s[Len(s)] /\ r # <<>>
        BY <4>2, <4>3
      <4>. QED  BY <4>1, <4>4
    <3>. QED  BY <1>1, <1>3, <2>1, <3>1 DEF Current
  <2>. QED  BY <2>2, <2>3
<1>. QED  BY <1>1, <1>3, <1>4 DEF CountInv, Current

LEMMA InitCount == Init => CountInv
BY FS_EmptySet DEF Init, CountInv, Current

LEMMA NextCount == TypeOK /\ CountInv /\ [Next]_vars => CountInv'
<1>. SUFFICES ASSUME TypeOK, CountInv, [Next]_vars PROVE CountInv'
  OBVIOUS
<1>1. CASE UNCHANGED vars
  BY <1>1 DEF vars, CountInv, Current
<1>2. ASSUME NEW c \in Clients,
             GetChatServer(c) \/ Choose(c) \/ HgetallFails(c) \/ GivesUp(c)
      PROVE  CountInv'
  <2>1. UNCHANGED <<participants, hset, login_count, stale>>
    BY <1>2 DEF GetChatServer, Choose, HgetallFails, GivesUp, history
  <2>. QED  BY <2>1 DEF CountInv, Current
<1>3. ASSUME NEW c \in Clients, Connect(c) \/ Leave(c)
      PROVE  CountInv'
  <2>1. PICK n \in Servers : n = client[c].at
    BY <1>3, ClientTypes, ClientAt DEF Shape, Connect, Leave
  <2>2. UNCHANGED <<hset, login_count>> /\ stale' = stale \cup {n}
        /\ \A m \in Servers : m # n => participants'[m] = participants[m]
    BY <1>3, <2>1, ClientTypes DEF Connect, Leave, Shape
  <2>. QED  BY <2>2, CountKept
<1>4. ASSUME NEW n \in Servers, HsetFails(n) \/ Restart(n)
      PROVE  CountInv'
  <2>1. stale' = stale \cup {n}
        /\ \A m \in Servers : m # n =>
              /\ participants'[m] = participants[m] /\ hset'[m] = hset[m]
              /\ login_count'[m] = login_count[m]
    <3>1. CASE HsetFails(n)
      <4>1. hset' = [hset EXCEPT ![n] = Tail(hset[n])]
        BY <3>1, AnsweredStep DEF HsetFails
      <4>2. stale' = stale \cup {n} /\ UNCHANGED participants
            /\ login_count' \in {login_count, [login_count EXCEPT ![n] = Head(hset[n]).count]}
        BY <3>1 DEF HsetFails
      <4>. QED  BY <4>1, <4>2, ClientTypes, ServerNames DEF Shape
    <3>2. CASE Restart(n)
      BY <3>2, ClientTypes, ServerNames DEF Restart, Shape
    <3>. QED  BY <1>4, <3>1, <3>2
  <2>. QED  BY <2>1, CountKept
<1>. QED  BY <1>1, <1>2, <1>3, <1>4, CountSends, CountExecuted DEF Next

(* Overlapping logins leave the last number: a server whose connections     *)
(* have not changed since its last HSET is known with the number it has.    *)
THEOREM LastCountStays == Spec => []CountedAtRest
<1>1. CountInv => CountedAtRest
  BY DEF CountInv, Current, CountedAtRest
<1>2. TypeOK /\ CountInv /\ [Next]_vars => CountInv'
  BY NextCount
<1>. QED  BY <1>1, <1>2, InitCount, Typed, PTL DEF Spec

---------------------------------------------------------------------------
At(n) == {c \in Clients : client[c].at = n}

(* Nobody comes to a server and nobody starts a login.                      *)
LEMMA LevelKept ==
    ASSUME TypeOK, TypeOK', Level, peak' = peak, Busy' \subseteq Busy,
           UNCHANGED <<hset, login_count>>,
           \A n \in Servers :
              /\ In(n, "counting")' = In(n, "counting")
              /\ In(n, "online")' = In(n, "online")
              /\ participants[n] \subseteq participants'[n]
              /\ At(n)' \subseteq At(n)
    PROVE  Level'
<1>1. Busy \subseteq Clients /\ peak \in Nat
  BY ClientTypes DEF Busy, Shape
<1>2. Cardinality(Busy)' <= peak'
  <2>1. PICK S \in SUBSET Clients : S = Busy
    BY <1>1
  <2>2. PICK T \in SUBSET S : T = Busy'
    BY <2>1
  <2>3. Cardinality(T) <= Cardinality(S) /\ Cardinality(T) \in Nat /\ Cardinality(S) \in Nat
    BY Smaller
  <2>. QED  BY <1>1, <2>1, <2>2, <2>3 DEF Level
<1>3. ASSUME NEW n \in Servers
      PROVE  /\ Cardinality(participants[n]) <= Cardinality(participants'[n])
             /\ Cardinality(participants[n]) \in Nat /\ Cardinality(participants'[n]) \in Nat
  <2>1. PICK S \in SUBSET Clients : S = participants'[n]
    BY ClientTypesNext DEF Shape
  <2>2. PICK T \in SUBSET S : T = participants[n]
    BY <2>1
  <2>. QED  BY <2>1, <2>2, Smaller
<1>4. ASSUME NEW n \in Servers
      PROVE  Load(n)' <= Load(n) /\ Load(n) \in Nat /\ Load(n)' \in Nat
  <2>1. PICK S \in SUBSET Clients : S = At(n)
    BY DEF At
  <2>2. PICK T \in SUBSET S : T = At(n)'
    BY <2>1
  <2>3. Cardinality(T) <= Cardinality(S) /\ Cardinality(T) \in Nat /\ Cardinality(S) \in Nat
    BY Smaller
  <2>. QED  BY <2>1, <2>2, <2>3 DEF Load, At
<1>5. ASSUME NEW n \in Servers
      PROVE  Counts(n)'
  <2>1. PICK o \in Nat : o = Cardinality(In(n, "online"))
    BY Finite DEF In
  <2>2. PICK p \in Nat : p = Cardinality(participants[n])
    BY <1>3
  <2>3. PICK q \in Nat : q = Cardinality(participants'[n]) /\ p <= q
    BY <1>3, <2>2
  <2>4. PICK s \in Seq(Write) : s = hset[n]
    BY ClientTypes DEF Shape
  <2>5. PICK k \in Nat : k = Known(n)
    BY ClientTypes, ServerNames DEF Shape, Known
  <2>6. \A i \in DOMAIN s : s[i].count \in Nat /\ i \in Nat
    BY WriteTypes
  <2>7. Counts(n)
    BY DEF Level
  <2>8. /\ Cardinality(In(n, "online"))' = o /\ Known(n)' = k
        /\ Len(hset'[n]) <= Cardinality(In(n, "counting"))'
    BY <2>1, <2>4, <2>5, <2>7 DEF Counts, Known
  <2>9. o <= k /\ k <= q
    BY <2>1, <2>2, <2>3, <2>5, <2>7 DEF Counts
  <2>10. \A i \in DOMAIN s : o + i <= s[i].count /\ s[i].count <= q
    BY <2>1, <2>2, <2>3, <2>4, <2>6, <2>7 DEF Counts
  <2>. QED  BY <2>3, <2>4, <2>8, <2>9, <2>10 DEF Counts
<1>6. ASSUME NEW n \in Servers, NEW m \in Servers
      PROVE  Load(n)' <= Cardinality(participants'[m]) + peak'
  BY <1>1, <1>3, <1>4 DEF Level
<1>. QED  BY <1>2, <1>5, <1>6 DEF Level

LEMMA GivesUpLevel ==
    ASSUME TypeOK, TypeOK', Level, NEW c \in Clients, GivesUp(c)
    PROVE  Level'
<1>1. /\ client \in [Clients -> {Away, Asking} \cup Placed]
      /\ client[c].stage = "assigned" /\ client'[c] = Away
      /\ \A b \in Clients : b # c => client'[b] = client[b]
      /\ UNCHANGED <<participants, hset, login_count, peak>>
  BY ClientTypes DEF GivesUp, Shape, history
<1>2. Away.stage = "away" /\ Away.at \notin Servers
  BY ServerNames DEF Away
<1>3. Busy' \subseteq Busy
  BY <1>1, <1>2 DEF Busy, LoggingIn
<1>4. \A n \in Servers :
         /\ In(n, "counting")' = In(n, "counting") /\ In(n, "online")' = In(n, "online")
         /\ participants[n] \subseteq participants'[n]
  BY <1>1, <1>2 DEF In
<1>5. \A n \in Servers : At(n)' \subseteq At(n)
  BY <1>1, <1>2 DEF At
<1>. QED  BY <1>1, <1>3, <1>4, <1>5, LevelKept

LEMMA ConnectLevel ==
    ASSUME TypeOK, TypeOK', Level, NEW c \in Clients, Connect(c)
    PROVE  Level'
<1>1. client \in [Clients -> {Away, Asking} \cup Placed] /\ client[c].stage = "assigned"
      /\ participants \in [Servers -> SUBSET Clients]
  BY ClientTypes DEF Connect, Shape
<1>2. PICK n \in Servers : n = client[c].at
  BY <1>1, ClientAt
<1>3. /\ client'[c] = [stage |-> "connected", at |-> n]
      /\ \A b \in Clients : b # c => client'[b] = client[b]
      /\ participants' = [participants EXCEPT ![n] = @ \cup {c}]
      /\ UNCHANGED <<hset, login_count, peak>>
  BY <1>1, <1>2 DEF Connect, Goes
<1>4. client'[c].stage = "connected" /\ client'[c].at = n
  BY <1>3
<1>5. Busy' \subseteq Busy
  BY <1>1, <1>3, <1>4 DEF Busy, LoggingIn
<1>6. \A m \in Servers :
         In(m, "counting")' = In(m, "counting") /\ In(m, "online")' = In(m, "online")
  BY <1>1, <1>3, <1>4 DEF In
<1>7. \A m \in Servers : participants[m] \subseteq participants'[m]
  BY <1>1, <1>3
<1>8. \A m \in Servers : At(m)' \subseteq At(m)
  BY <1>2, <1>3, <1>4 DEF At
<1>. QED  BY <1>3, <1>5, <1>6, <1>7, <1>8, LevelKept

(* A login begins: the peak is at least the logins that are going on.       *)
LEMMA GetChatServerLevel ==
    ASSUME TypeOK, TypeOK', Level, NEW c \in Clients, GetChatServer(c)
    PROVE  Level'
<1>1. /\ client \in [Clients -> {Away, Asking} \cup Placed]
      /\ client[c] = Away /\ client'[c] = Asking
      /\ \A b \in Clients : b # c => client'[b] = client[b]
      /\ UNCHANGED <<participants, hset, login_count>>
  BY ClientTypes DEF GetChatServer, Goes, Asking, Shape
<1>2. /\ Away.stage = "away" /\ Away.at = NoField
      /\ Asking.stage = "asking" /\ Asking.at = NoField
  BY DEF Away, Asking
<1>3. \A n \in Servers :
         In(n, "counting")' = In(n, "counting") /\ In(n, "online")' = In(n, "online")
  BY <1>1, <1>2 DEF In
<1>4. \A n \in Servers : At(n)' = At(n)
  BY <1>1, <1>2 DEF At
<1>5. peak \in Nat /\ peak' \in Nat /\ peak <= peak' /\ Cardinality(Busy)' <= peak'
  <2>1. Cardinality(Busy)' \in Nat /\ peak \in Nat
    <3>1. PICK S \in SUBSET Clients : S = Busy'
      BY DEF Busy
    <3>. QED  BY <3>1, Finite, ClientTypes DEF Shape
  <2>2. PICK k \in Nat : k = Cardinality(Busy)'
    BY <2>1
  <2>3. peak' = Max({peak, k})
    BY <2>2 DEF GetChatServer, Busy
  <2>. QED  BY <2>1, <2>2, <2>3 DEF Max
<1>6. \A n \in Servers : Counts(n)'
  BY <1>1, <1>3 DEF Level, Counts, Known
<1>7. ASSUME NEW n \in Servers, NEW m \in Servers
      PROVE  Load(n)' <= Cardinality(participants'[m]) + peak'
  <2>1. Load(n)' = Load(n) /\ Load(n) <= Cardinality(participants[m]) + peak
    BY <1>4 DEF Load, At, Level
  <2>2. Load(n) \in Nat /\ Cardinality(participants[m]) \in Nat
    BY Finite, ClientTypes DEF Load, Shape
  <2>. QED  BY <1>1, <1>5, <2>1, <2>2
<1>. QED  BY <1>5, <1>6, <1>7 DEF Level

(* The chosen server is known with no more sessions than any other, and has *)
(* besides those that are online only clients whose login is going on.      *)
LEMMA ChooseLevel ==
    ASSUME TypeOK, TypeOK', Level, NEW c \in Clients, Choose(c)
    PROVE  Level'
<1>1. PICK l \in Servers : l = get_server_index(login_count)
  BY ChosenIsLeast, ClientTypes DEF Shape
<1>2. \A m \in Servers : Known(l) <= Known(m)
  <2>1. PICK f \in [Names -> Nat \cup {NoField}] : f = login_count
    BY ClientTypes DEF Shape
  <2>2. \A m \in Servers : Field(f, l) <= Field(f, m)
    BY <1>1, <2>1, ChosenIsLeast
  <2>. QED  BY <2>1, <2>2 DEF Known, Field
<1>3. /\ client \in [Clients -> {Away, Asking} \cup Placed]
      /\ client[c] = Asking /\ client'[c] = [stage |-> "assigned", at |-> l]
      /\ \A b \in Clients : b # c => client'[b] = client[b]
      /\ UNCHANGED <<participants, hset, login_count, peak>>
  BY <1>1, ClientTypes, ClientAt DEF Choose, Goes, Shape, history
<1>4. /\ Asking.stage = "asking" /\ Asking.at = NoField
      /\ client'[c].stage = "assigned" /\ client'[c].at = l
  BY <1>3 DEF Asking
<1>5. \A n \in Servers :
         In(n, "counting")' = In(n, "counting") /\ In(n, "online")' = In(n, "online")
  BY <1>3, <1>4 DEF In
<1>6. Busy' = Busy
  BY <1>3, <1>4 DEF Busy, LoggingIn
<1>7. \A n \in Servers : n # l => At(n)' = At(n)
  BY <1>3, <1>4, ServerNames DEF At
<1>8. \A n \in Servers : Counts(n)'
  BY <1>3, <1>5 DEF Level, Counts, Known
<1>9. At(l)' \subseteq In(l, "online") \cup Busy
  <2>. SUFFICES ASSUME NEW b \in At(l)' PROVE b \in In(l, "online") \cup Busy
    OBVIOUS
  <2>1. CASE b = c
    BY <1>3, <1>4, <2>1 DEF At, Busy, LoggingIn
  <2>2. CASE b # c
    <3>1. PICK d \in {Away, Asking} \cup Placed : d = client[b]
      BY <1>3 DEF At
    <3>2. b \in Clients /\ d.at = l
      BY <1>3, <2>2, <3>1 DEF At
    <3>3. d = [stage |-> "online", at |-> l] \/ d.stage \in LoggingIn
      BY <3>2, ClientAt DEF LoggingIn
    <3>. QED  BY <3>1, <3>2, <3>3 DEF In, Busy
  <2>. QED  BY <2>1, <2>2
<1>10. ASSUME NEW m \in Servers
       PROVE  Load(l)' <= Cardinality(participants[m]) + peak
  <2>1. PICK A \in SUBSET Clients : A = In(l, "online")
    BY DEF In
  <2>2. PICK B \in SUBSET Clients : B = Busy
    BY DEF Busy
  <2>3. PICK T \in SUBSET (A \cup B) : T = At(l)'
    BY <1>9, <2>1, <2>2
  <2>4. /\ Cardinality(T) <= Cardinality(A \cup B)
        /\ Cardinality(A \cup B) <= Cardinality(A) + Cardinality(B)
        /\ Cardinality(T) \in Nat /\ Cardinality(A) \in Nat /\ Cardinality(B) \in Nat
        /\ Cardinality(A \cup B) \in Nat
    <3>1. IsFiniteSet(A) /\ IsFiniteSet(B) /\ A \cup B \in SUBSET Clients
          /\ A \cap B \in SUBSET Clients
      BY Finite
    <3>2. Cardinality(A \cup B) = Cardinality(A) + Cardinality(B) - Cardinality(A \cap B)
      BY <3>1, FS_Union
    <3>3. Cardinality(A) \in Nat /\ Cardinality(B) \in Nat /\ Cardinality(A \cap B) \in Nat
      BY <3>1, Finite
    <3>4. Cardinality(T) <= Cardinality(A \cup B) /\ Cardinality(T) \in Nat
          /\ Cardinality(A \cup B) \in Nat
      BY <3>1, Smaller
    <3>. QED  BY <3>2, <3>3, <3>4
  <2>5. /\ Cardinality(A) <= Known(l) /\ Cardinality(B) <= peak
        /\ Known(m) <= Cardinality(participants[m])
    BY <2>1, <2>2 DEF Level, Counts
  <2>6. Known(l) \in Nat /\ Known(m) \in Nat /\ peak \in Nat
        /\ Cardinality(participants[m]) \in Nat
    BY Finite, ClientTypes, ServerNames DEF Shape, Known
  <2>7. Load(l)' = Cardinality(T)
    BY <2>3 DEF Load, At
  <2>. QED  BY <1>2, <2>4, <2>5, <2>6, <2>7
<1>11. ASSUME NEW n \in Servers, NEW m \in Servers
       PROVE  Load(n)' <= Cardinality(participants'[m]) + peak'
  BY <1>3, <1>7, <1>10 DEF Level, Load, At
<1>. QED  BY <1>3, <1>6, <1>8, <1>11 DEF Level

(* A number that is sent counts the client that sends it, those that are    *)
(* online, and as many others as there are HSETs before it.                 *)
LEMMA SendCountLevel ==
    ASSUME TypeOK, TypeOK', Level, NEW c \in Clients, SendCount(c)
    PROVE  Level'
<1>1. client \in [Clients -> {Away, Asking} \cup Placed] /\ client[c].stage = "connected"
      /\ participants \in [Servers -> SUBSET Clients] /\ Joined
      /\ hset \in [Servers -> Seq(Write)]
  BY ClientTypes DEF SendCount, Shape
<1>2. PICK n \in Servers : n = client[c].at
  BY <1>1, ClientAt
<1>3. /\ client'[c] = [stage |-> "counting", at |-> n]
      /\ \A b \in Clients : b # c => client'[b] = client[b]
      /\ \A m \in Servers : m # n => hset'[m] = hset[m]
      /\ UNCHANGED <<participants, login_count, peak>>
  BY <1>1, <1>2 DEF SendCount, Goes
<1>4. client'[c].stage = "counting" /\ client'[c].at = n
  BY <1>3
<1>5. Busy' = Busy
  BY <1>1, <1>3, <1>4 DEF Busy, LoggingIn
<1>6. \A m \in Servers : In(m, "online")' = In(m, "online")
  BY <1>1, <1>3, <1>4 DEF In
<1>7. In(n, "counting")' = In(n, "counting") \cup {c} /\ c \notin In(n, "counting")
      /\ \A m \in Servers : m # n => In(m, "counting")' = In(m, "counting")
  BY <1>1, <1>3, <1>4 DEF In
<1>8. \A m \in Servers : At(m)' = At(m)
  BY <1>2, <1>3, <1>4 DEF At
<1>9. Counts(n)'
  <2>1. PICK s \in Seq(Write) : s = hset[n]
    BY <1>1
  <2>2. PICK p \in Nat : p = Cardinality(participants[n])
    BY <1>1, Finite
  <2>3. PICK e \in Write : e.count = p /\ hset'[n] = Append(s, e)
    <3>1. [by |-> c, count |-> p] \in Write
      BY DEF Write
    <3>. QED  BY <1>1, <1>2, <2>1, <2>2, <3>1 DEF SendCount
  <2>4. PICK A \in SUBSET Clients : A = In(n, "online")
    BY DEF In
  <2>5. PICK B \in SUBSET Clients : B = In(n, "counting")
    BY DEF In
  <2>6. A \cap B = {} /\ c \notin A \cup B /\ c \in participants[n]
        /\ A \cup B \cup {c} \subseteq participants[n]
    <3>1. \A b \in A : client[b].stage = "online" /\ client[b].at = n
      BY <2>4 DEF In
    <3>2. \A b \in B : client[b].stage = "counting" /\ client[b].at = n
      BY <2>5 DEF In
    <3>3. participants[n] = {b \in Clients : client[b].at = n /\ client[b].stage \in Inside}
      BY <1>1 DEF Joined
    <3>. QED  BY <1>1, <1>2, <3>1, <3>2, <3>3 DEF Inside
  <2>7. /\ Cardinality(A) \in Nat /\ Cardinality(B) \in Nat
        /\ Cardinality(B \cup {c}) = Cardinality(B) + 1
        /\ Cardinality(A) + Cardinality(B) + 1 <= p
    <3>1. IsFiniteSet(A) /\ IsFiniteSet(B) /\ IsFiniteSet(A \cup B)
          /\ Cardinality(A) \in Nat /\ Cardinality(B) \in Nat
      BY Finite
    <3>2. Cardinality(A \cup B) = Cardinality(A) + Cardinality(B)
      <4>1. Cardinality(A \cup B)
              = Cardinality(A) + Cardinality(B) - Cardinality(A \cap B)
        BY <3>1, FS_Union
      <4>2. Cardinality(A \cap B) = 0
        BY <2>6, FS_EmptySet
      <4>. QED  BY <3>1, <4>1, <4>2
    <3>3. Cardinality(A \cup B \cup {c}) = Cardinality(A \cup B) + 1
          /\ Cardinality(B \cup {c}) = Cardinality(B) + 1
      BY <2>6, <3>1, FS_AddElement
    <3>4. PICK S \in SUBSET Clients : S = participants[n]
      BY <1>1
    <3>5. PICK T \in SUBSET S : T = A \cup B \cup {c}
      BY <2>6, <3>4
    <3>6. Cardinality(T) <= p
      BY <2>2, <3>4, Smaller
    <3>. QED  BY <3>1, <3>2, <3>3, <3>5, <3>6
  <2>8. Counts(n)
    BY DEF Level
  <2>9. Len(s) <= Cardinality(B)
    BY <2>1, <2>5, <2>8 DEF Counts
  <2>10. Len(s) \in Nat /\ Len(Append(s, e)) = Len(s) + 1
         /\ DOMAIN Append(s, e) = 1..(Len(s) + 1) /\ DOMAIN s = 1..Len(s)
         /\ Append(s, e)[Len(s) + 1] = e
         /\ \A i \in 1..Len(s) : Append(s, e)[i] = s[i]
    BY <2>1, <2>3
  <2>11. Len(hset'[n]) <= Cardinality(In(n, "counting"))'
    <3>1. Cardinality(In(n, "counting"))' = Cardinality(B \cup {c})
      BY <1>7, <2>5
    <3>. QED  BY <2>3, <2>7, <2>9, <2>10, <3>1
  <2>12. ASSUME NEW i \in DOMAIN Append(s, e)
         PROVE  Cardinality(A) + i <= Append(s, e)[i].count /\ Append(s, e)[i].count <= p
    <3>1. CASE i = Len(s) + 1
      BY <2>3, <2>7, <2>9, <2>10, <3>1
    <3>2. CASE i \in 1..Len(s)
      <4>1. Cardinality(A) + i <= s[i].count /\ s[i].count <= p
        BY <2>1, <2>2, <2>4, <2>8, <2>10, <3>2 DEF Counts
      <4>. QED  BY <2>10, <3>2, <4>1
    <3>. QED  BY <2>10, <3>1, <3>2
  <2>13. Cardinality(A) <= Known(n)' /\ Known(n)' <= p
    BY <1>3, <2>2, <2>4, <2>8 DEF Counts, Known
  <2>14. Cardinality(In(n, "online"))' = Cardinality(A) /\ Cardinality(participants[n])' = p
    BY <1>3, <1>6, <2>2, <2>4
  <2>. QED  BY <2>3, <2>11, <2>12, <2>13, <2>14 DEF Counts
<1>10. ASSUME NEW m \in Servers, m # n
       PROVE  Counts(m)'
  BY <1>3, <1>6, <1>7, <1>10 DEF Level, Counts, Known
<1>11. ASSUME NEW l \in Servers, NEW m \in Servers
       PROVE  Load(l)' <= Cardinality(participants'[m]) + peak'
  BY <1>3, <1>8 DEF Level, Load, At
<1>. QED  BY <1>3, <1>5, <1>9, <1>10, <1>11 DEF Level

(* An HSET is executed: one login less waits, and at most one more session  *)
(* is online.                                                               *)
LEMMA HsetLevel ==
    ASSUME TypeOK, TypeOK', Level, NEW n \in Servers, Hset(n)
    PROVE  Level'
<1>1. client \in [Clients -> {Away, Asking} \cup Placed]
      /\ participants \in [Servers -> SUBSET Clients] /\ hset \in [Servers -> Seq(Write)]
      /\ login_count \in [Names -> Nat \cup {NoField}] /\ peak \in Nat
  BY ClientTypes DEF Shape
<1>2. hset[n] # <<>> /\ Answered(n, 1) /\ UNCHANGED <<participants, peak>>
      /\ login_count' = [login_count EXCEPT ![n] = Head(hset[n]).count]
  BY DEF Hset, history
<1>3. PICK s \in Seq(Write) : s = hset[n]
  BY <1>1
<1>4. hset' = [hset EXCEPT ![n] = Tail(s)] /\ Head(s) = s[1] /\ 1 \in DOMAIN s
  BY <1>2, <1>3, AnsweredStep, FirstRemoved
<1>5. /\ hset'[n] = Tail(s) /\ login_count'[n] = s[1].count
      /\ \A m \in Servers : m # n =>
            hset'[m] = hset[m] /\ login_count'[m] = login_count[m]
  BY <1>1, <1>2, <1>3, <1>4, ServerNames
<1>6. /\ Busy' \subseteq Busy
      /\ \A m \in Servers : At(m)' = At(m)
      /\ \A m \in Servers : m # n =>
            In(m, "online")' = In(m, "online") /\ In(m, "counting")' = In(m, "counting")
      /\ \E b : In(n, "online")' \subseteq In(n, "online") \cup {b}
                /\ In(n, "counting") \ {b} \subseteq In(n, "counting")'
  <2>1. CASE client' = client
    BY <2>1 DEF Busy, At, In
  <2>2. ASSUME NEW b \in Clients, client[b] = [stage |-> "counting", at |-> n],
               client' = [client EXCEPT ![b] = [stage |-> "online", at |-> n]]
        PROVE  /\ Busy' \subseteq Busy
               /\ \A m \in Servers : At(m)' = At(m)
               /\ \A m \in Servers : m # n =>
                     In(m, "online")' = In(m, "online") /\ In(m, "counting")' = In(m, "counting")
               /\ In(n, "online")' \subseteq In(n, "online") \cup {b}
               /\ In(n, "counting") \ {b} \subseteq In(n, "counting")'
    <3>1. /\ client[b].stage = "counting" /\ client[b].at = n
          /\ client'[b].stage = "online" /\ client'[b].at = n
          /\ client'[b] = [stage |-> "online", at |-> n]
          /\ \A a \in Clients : a # b => client'[a] = client[a]
      BY <1>1, <2>2
    <3>2. Busy' \subseteq Busy
      BY <3>1 DEF Busy, LoggingIn
    <3>3. \A m \in Servers : At(m)' = At(m)
      BY <3>1 DEF At
    <3>4. ASSUME NEW m \in Servers, m # n
          PROVE  In(m, "online")' = In(m, "online") /\ In(m, "counting")' = In(m, "counting")
      <4>1. \A a \in Clients, t \in {"online", "counting"} :
               client'[a] = [stage |-> t, at |-> m] <=> client[a] = [stage |-> t, at |-> m]
        <5>1. \A t : [stage |-> t, at |-> m].at = m
          OBVIOUS
        <5>. QED  BY <3>1, <3>4, <5>1
      <4>. QED  BY <4>1 DEF In
    <3>5. /\ In(n, "online")' \subseteq In(n, "online") \cup {b}
          /\ In(n, "counting") \ {b} \subseteq In(n, "counting")'
      BY <3>1 DEF In
    <3>. QED  BY <3>2, <3>3, <3>4, <3>5
  <2>. QED  BY <1>2, <2>1, <2>2, AnsweredStep
<1>7. Cardinality(Busy)' <= peak'
  <2>1. PICK S \in SUBSET Clients : S = Busy
    BY DEF Busy
  <2>2. PICK T \in SUBSET S : T = Busy'
    BY <1>6, <2>1
  <2>3. Cardinality(T) <= Cardinality(S) /\ Cardinality(T) \in Nat /\ Cardinality(S) \in Nat
    BY Smaller
  <2>4. Cardinality(S) <= peak
    BY <2>1 DEF Level
  <2>. QED  BY <1>1, <1>2, <2>2, <2>3, <2>4
<1>8. Counts(n)'
  <2>1. PICK b : In(n, "online")' \subseteq In(n, "online") \cup {b}
                 /\ In(n, "counting") \ {b} \subseteq In(n, "counting")'
    BY <1>6
  <2>2. PICK o \in Nat, u \in Nat : o = Cardinality(In(n, "online"))
                                    /\ u = Cardinality(In(n, "online"))' /\ u <= o + 1
    <3>1. PICK A \in SUBSET Clients : A = In(n, "online")
      BY DEF In
    <3>2. PICK C \in SUBSET Clients : C = In(n, "online")'
      BY DEF In
    <3>3. C \subseteq A \cup {b}
      BY <2>1, <3>1, <3>2
    <3>4. IsFiniteSet(A) /\ Cardinality(A) \in Nat /\ Cardinality(C) \in Nat
      BY Finite
    <3>5. IsFiniteSet(A \cup {b})
          /\ Cardinality(A \cup {b}) \in {Cardinality(A), Cardinality(A) + 1}
      BY <3>4, FS_AddElement
    <3>6. Cardinality(C) <= Cardinality(A \cup {b})
      BY <3>3, <3>5, FS_Subset
    <3>. QED  BY <3>1, <3>2, <3>4, <3>5, <3>6
  <2>3. PICK g \in Nat, h \in Nat : g = Cardinality(In(n, "counting"))
                                    /\ h = Cardinality(In(n, "counting"))' /\ g <= h + 1
    <3>1. PICK A \in SUBSET Clients : A = In(n, "counting")
      BY DEF In
    <3>2. PICK C \in SUBSET Clients : C = In(n, "counting")'
      BY DEF In
    <3>3. A \ {b} \in SUBSET C
      BY <2>1, <3>1, <3>2
    <3>4. IsFiniteSet(A) /\ IsFiniteSet(C) /\ Cardinality(A) \in Nat /\ Cardinality(C) \in Nat
      BY Finite
    <3>5. Cardinality(A \ {b}) \in {Cardinality(A), Cardinality(A) - 1}
      BY <3>4, FS_RemoveElement
    <3>6. Cardinality(A \ {b}) <= Cardinality(C)
      BY <3>3, <3>4, FS_Subset
    <3>. QED  BY <3>1, <3>2, <3>4, <3>5, <3>6
  <2>4. PICK p \in Nat : p = Cardinality(participants[n])
    BY <1>1, Finite
  <2>5. PICK r \in Seq(Write) : r = Tail(s)
    BY <1>2, <1>3, FirstRemoved
  <2>6. /\ Len(s) \in Nat \ {0} /\ Len(r) = Len(s) - 1
        /\ \A i \in DOMAIN r : r[i] = s[i + 1] /\ i + 1 \in DOMAIN s /\ i \in Nat
    BY <1>2, <1>3, <2>5, FirstRemoved, WriteTypes
  <2>7. /\ Len(s) <= g
        /\ \A i \in DOMAIN s : o + i <= s[i].count /\ s[i].count <= p
    BY <1>3, <2>2, <2>3, <2>4 DEF Level, Counts
  <2>8. \A i \in DOMAIN s : s[i].count \in Nat
    BY WriteTypes
  <2>9. Known(n)' = s[1].count
    <3>1. s[1].count # NoField
      BY <1>4, <2>8, ConfigAssumption
    <3>. QED  BY <1>5, <3>1 DEF Known
  <2>10. Len(r) <= h
    BY <2>3, <2>6, <2>7
  <2>11. u <= s[1].count /\ s[1].count <= p
    BY <1>4, <2>2, <2>7, <2>8
  <2>12. ASSUME NEW i \in DOMAIN r
         PROVE  u + i <= r[i].count /\ r[i].count <= p
    <3>1. r[i] = s[i + 1] /\ i + 1 \in DOMAIN s /\ i \in Nat /\ s[i + 1].count \in Nat
      BY <2>6, <2>8
    <3>2. o + (i + 1) <= s[i + 1].count /\ s[i + 1].count <= p
      BY <2>7, <3>1
    <3>. QED  BY <2>2, <3>1, <3>2, SMTT(30)
  <2>. QED  BY <1>2, <1>5, <2>2, <2>3, <2>4, <2>5, <2>9, <2>10, <2>11, <2>12 DEF Counts
<1>9. ASSUME NEW m \in Servers, m # n
      PROVE  Counts(m)'
  BY <1>2, <1>5, <1>6, <1>9 DEF Level, Counts, Known
<1>10. ASSUME NEW l \in Servers, NEW m \in Servers
       PROVE  Load(l)' <= Cardinality(participants'[m]) + peak'
  BY <1>2, <1>6 DEF Level, Load, At
<1>. QED  BY <1>7, <1>8, <1>9, <1>10 DEF Level

LEMMA InitSpread == Init => SpreadInv
<1>. SUFFICES ASSUME Init, ~disturbed PROVE Level
  BY DEF SpreadInv
<1>1. /\ \A c \in Clients : client[c] = Away
      /\ \A n \in Servers : /\ participants[n] = {} /\ hset[n] = <<>>
                            /\ login_count[n] \in {0, NoField}
      /\ peak = 0
  BY DEF Init
<1>2. Away.stage = "away" /\ Away.at \notin Servers
  BY ServerNames DEF Away
<1>3. Busy = {}
  BY <1>1, <1>2 DEF Busy, LoggingIn
<1>4. \A n \in Servers : At(n) = {} /\ In(n, "online") = {} /\ In(n, "counting") = {}
  BY <1>1, <1>2 DEF At, In
<1>5. \A n \in Servers : Load(n) = 0
  BY <1>4, FS_EmptySet DEF At, Load
<1>6. ASSUME NEW n \in Servers PROVE Counts(n)
  <2>1. Cardinality(In(n, "online")) = 0 /\ Cardinality(In(n, "counting")) = 0
        /\ Cardinality(participants[n]) = 0
    BY <1>1, <1>4, FS_EmptySet
  <2>2. Known(n) = 0 /\ Len(hset[n]) = 0 /\ DOMAIN hset[n] = {}
    BY <1>1 DEF Known
  <2>. QED  BY <2>1, <2>2 DEF Counts
<1>7. Cardinality(Busy) = 0 /\ \A n \in Servers : Cardinality(participants[n]) = 0
  BY <1>1, <1>3, FS_EmptySet
<1>. QED  BY <1>1, <1>5, <1>6, <1>7 DEF Level

LEMMA NextSpread == TypeOK /\ TypeOK' /\ SpreadInv /\ [Next]_vars => SpreadInv'
<1>. SUFFICES ASSUME TypeOK, TypeOK', SpreadInv, [Next]_vars, ~disturbed' PROVE Level'
  BY DEF SpreadInv
<1>1. ASSUME ~disturbed, UNCHANGED vars PROVE Level'
  BY <1>1 DEF SpreadInv, vars, Level, Counts, Known, In, Busy, Load
<1>2. ASSUME NEW c \in Clients,
             GetChatServer(c) \/ Choose(c) \/ GivesUp(c) \/ Connect(c) \/ SendCount(c)
      PROVE  Level'
  <2>1. disturbed' = disturbed
    BY <1>2 DEF GetChatServer, Choose, GivesUp, Connect, SendCount, history
  <2>2. Level
    BY <2>1 DEF SpreadInv
  <2>. QED  BY <1>2, <2>2, GetChatServerLevel, ChooseLevel, GivesUpLevel, ConnectLevel,
               SendCountLevel
<1>3. ASSUME NEW n \in Servers, Hset(n) PROVE Level'
  <2>1. disturbed' = disturbed
    BY <1>3 DEF Hset, history
  <2>. QED  BY <1>3, <2>1, HsetLevel DEF SpreadInv
<1>4. ASSUME NEW c \in Clients, HgetallFails(c) \/ Leave(c) PROVE FALSE
  BY <1>4 DEF HgetallFails, Leave
<1>5. ASSUME NEW n \in Servers, HsetFails(n) \/ Restart(n) PROVE FALSE
  BY <1>5 DEF HsetFails, Restart
<1>. QED  BY <1>1, <1>2, <1>3, <1>4, <1>5 DEF Next, vars

(* Logins are spread by load: while nobody leaves and redis works, no       *)
(* server has more clients than another by more than the number of logins   *)
(* that were going on at once, for any number of servers and clients.       *)
THEOREM LoadsLevel == Spec => []Spread
<1>1. TypeOK /\ SpreadInv => Spread
  <2>. SUFFICES ASSUME TypeOK, SpreadInv, ~disturbed, NEW n \in Servers, NEW m \in Servers
                PROVE  Load(n) <= Load(m) + peak
    BY DEF Spread
  <2>1. PICK S \in SUBSET Clients : S = {c \in Clients : client[c].at = m}
    OBVIOUS
  <2>2. PICK T \in SUBSET S : T = participants[m]
    BY <2>1, ClientTypes DEF Shape, Joined
  <2>3. Cardinality(T) <= Cardinality(S) /\ Cardinality(T) \in Nat /\ Cardinality(S) \in Nat
    BY Smaller
  <2>4. Load(n) <= Cardinality(T) + peak /\ Load(m) = Cardinality(S)
    BY <2>1, <2>2 DEF SpreadInv, Level, Load
  <2>5. Load(n) \in Nat /\ peak \in Nat
    BY Finite, ClientTypes DEF Load, Shape
  <2>. QED  BY <2>3, <2>4, <2>5
<1>2. TypeOK /\ TypeOK' /\ SpreadInv /\ [Next]_vars => SpreadInv'
  BY NextSpread
<1>. QED  BY <1>1, <1>2, InitSpread, Typed, PTL DEF Spec
================================================================================
