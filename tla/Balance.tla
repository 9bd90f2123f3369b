-------------------------------- MODULE Balance --------------------------------
(***************************************************************************)
(* How logins are spread over the chat servers.  The status server         *)
(* (status_server/grpc_service.hpp) chooses by the redis hash login_count, *)
(* which each chat server writes while a login is handled                  *)
(* (update_login_count in chat_server/handle_message.cpp) from the size of *)
(* its participants_ (chat_server/chat_server.hpp).                        *)
(*                                                                         *)
(* Redis is external: it executes each server's HSETs in the order in      *)
(* which they were sent on that server's only connection.                  *)
(***************************************************************************)
EXTENDS Integers, SequencesExt, FiniteSetsExt

CONSTANTS
    Clients,        \* users that ask for a chat server, log in and leave
    chat_servers,   \* the status server's configuration, by server name
    Retired,        \* names that only redis still has
    NoField,        \* the hash has no field of that name
    MaxOld,         \* bound: numbers that redis has from an earlier run
    MaxLogins       \* bound: logins at the gate

(* Names are numbers, for the order of the std::map by name.               *)
Servers == ToSet(chat_servers)
Names == Servers \cup Retired

ASSUME ConfigAssumption ==
    /\ chat_servers \in Seq(Nat) \ {<<>>}
    /\ Retired \subseteq Nat /\ Servers \cap Retired = {}
    /\ IsFiniteSet(Clients)
    /\ MaxOld \in Nat /\ NoField \notin Nat

VARIABLES
    client,         \* client[c]: how far c's login is, and at which server
    participants,   \* participants[n]: connections of server n
    hset,           \* hset[n]: HSETs of server n that redis has not executed
    login_count,    \* redis login_count
    logins,         \* number of logins at the gate, for MaxLogins
    stale,          \* history: servers that changed, or failed to write their
                    \* field, since they last sent it
    peak,           \* history: the most logins that were going on at once
    disturbed       \* history: numbers of an earlier run, a connection that
                    \* ended, a server that was killed, or a redis error

vars == <<client, participants, hset, login_count, logins, stale, peak, disturbed>>
history == <<stale, peak, disturbed>>

---------------------------------------------------------------------------
(* asking: HGETALL is pending.  assigned: a server is chosen, its SET of   *)
(* the token and the answer are under way, or the client is.  connected:   *)
(* not logged in.  counting: HSET is pending.                              *)
LoggingIn == {"asking", "assigned", "connected", "counting"}
Away == [stage |-> "away", at |-> NoField]

TypeOK ==
    /\ client \in [Clients -> {Away} \cup {[stage |-> "asking", at |-> NoField]}
                              \cup [stage : (LoggingIn \ {"asking"}) \cup {"online"},
                                    at : Servers]]
    /\ participants \in [Servers -> SUBSET Clients]
    /\ \A n \in Servers : participants[n] =
          {c \in Clients : client[c].at = n
              /\ client[c].stage \in {"connected", "counting", "online"}}
    /\ hset \in [Servers -> Seq([by : Clients, count : Nat])]
    /\ login_count \in [Names -> Nat \cup {NoField}]
    /\ logins \in Nat
    /\ stale \subseteq Servers /\ peak \in Nat /\ disturbed \in BOOLEAN

Init ==
    /\ client = [c \in Clients |-> Away]
    /\ participants = [n \in Servers |-> {}]
    /\ hset = [n \in Servers |-> <<>>]
    /\ login_count \in [Names -> 0..MaxOld \cup {NoField}]
    /\ logins = 0
    /\ stale = {n \in Servers : login_count[n] \notin {0, NoField}}
    /\ peak = 0
    /\ disturbed = (stale # {})

Goes(c, stage, at) == client' = [client EXCEPT ![c] = [stage |-> stage, at |-> at]]

---------------------------------------------------------------------------
(* Status server.                                                          *)

(* A client logs in at the gate, which calls GetChatServer.                *)
GetChatServer(c) ==
    /\ client[c] = Away /\ logins < MaxLogins
    /\ logins' = logins + 1
    /\ Goes(c, "asking", NoField)
    /\ peak' = Max({peak, Cardinality({d \in Clients :
                               client'[d].stage \in LoggingIn})})
    /\ UNCHANGED <<participants, hset, login_count, stale, disturbed>>

(* Mutant: only the servers with a field are compared.                     *)
get_server_index_of_fields(result) ==
    LET found == {n \in Servers : result[n] # NoField}
    IN  IF found = {} THEN Head(chat_servers)
        ELSE CHOOSE n \in found : \A m \in found :
                result[n] < result[m] \/ (result[n] = result[m] /\ n <= m)

(* Mutant: names that are not configured are compared as well.             *)
get_server_index_of_all(result) ==
    IF \A n \in Names : result[n] = NoField THEN Head(chat_servers)
    ELSE LET count(n) == IF result[n] = NoField THEN 0 ELSE result[n]
         IN  CHOOSE n \in Names : \A m \in Names :
                count(n) < count(m) \/ (count(n) = count(m) /\ n <= m)

(* No field at all, or a failed HGETALL: the first of the configuration.   *)
(* Otherwise the first in the order of the names of those with the least   *)
(* count; a server without a field has 0, other names are skipped.         *)
get_server_index(result) ==
    IF \A n \in Names : result[n] = NoField THEN Head(chat_servers)
    ELSE LET count(n) == IF result[n] = NoField THEN 0 ELSE result[n]
         IN  CHOOSE n \in Servers : \A m \in Servers :
                count(n) < count(m) \/ (count(n) = count(m) /\ n <= m)

Choose(c) ==
    /\ client[c].stage = "asking"
    /\ Goes(c, "assigned", get_server_index(login_count))
    /\ UNCHANGED <<participants, hset, login_count, logins, history>>

HgetallFails(c) ==
    /\ client[c].stage = "asking"
    /\ Goes(c, "assigned", get_server_index([n \in Names |-> NoField]))
    /\ disturbed' = TRUE
    /\ UNCHANGED <<participants, hset, login_count, logins, stale, peak>>

(* The SET of the token fails and the answer is an error, or the client    *)
(* does not come.                                                          *)
GivesUp(c) ==
    /\ client[c].stage = "assigned"
    /\ client' = [client EXCEPT ![c] = Away]
    /\ UNCHANGED <<participants, hset, login_count, logins, history>>

---------------------------------------------------------------------------
(* Chat servers.                                                           *)

(* start(): a connection joins participants_ before it logs in.            *)
Connect(c) ==
    /\ client[c].stage = "assigned"
    /\ Goes(c, "connected", client[c].at)
    /\ participants' = [participants EXCEPT ![client[c].at] = @ \cup {c}]
    /\ stale' = stale \cup {client[c].at}
    /\ UNCHANGED <<hset, login_count, logins, peak, disturbed>>

(* update_login_count: participant_count() is read as the HSET is sent.    *)
SendCount(c) ==
    LET n == client[c].at IN
    /\ client[c].stage = "connected"
    /\ Goes(c, "counting", n)
    /\ hset' = [hset EXCEPT ![n] =
                   Append(@, [by |-> c, count |-> Cardinality(participants[n])])]
    /\ stale' = stale \ {n}
    /\ UNCHANGED <<participants, login_count, logins, peak, disturbed>>

(* The client of the i-th HSET goes on with its login, if it still waits   *)
(* for this one: it may have left, and come again.                         *)
Answered(n, i) ==
    LET c == hset[n][i].by IN
    /\ hset' = [hset EXCEPT ![n] = RemoveAt(@, i)]
    /\ client' = IF client[c] = [stage |-> "counting", at |-> n]
                    /\ \A j \in (i + 1)..Len(hset[n]) : hset[n][j].by # c
                 THEN [client EXCEPT ![c].stage = "online"] ELSE client

(* Mutant: pooled redis connections, on which an HSET overtakes another.   *)
HsetOvertakes(n) ==
    \E i \in DOMAIN hset[n] :
        /\ Answered(n, i)
        /\ login_count' = [login_count EXCEPT ![n] = hset[n][i].count]
        /\ UNCHANGED <<participants, logins, history>>

Hset(n) ==
    /\ hset[n] # <<>>
    /\ Answered(n, 1)
    /\ login_count' = [login_count EXCEPT ![n] = Head(hset[n]).count]
    /\ UNCHANGED <<participants, logins, history>>

(* hset() returns -1, before or after redis executed the command.          *)
HsetFails(n) ==
    /\ hset[n] # <<>>
    /\ Answered(n, 1)
    /\ login_count' \in {login_count, [login_count EXCEPT ![n] = Head(hset[n]).count]}
    /\ stale' = stale \cup {n}
    /\ disturbed' = TRUE
    /\ UNCHANGED <<participants, logins, peak>>

(* stop(): leave() takes the session out and tells redis nothing.          *)
Leave(c) ==
    LET n == client[c].at IN
    /\ client[c].stage \in {"connected", "counting", "online"}
    /\ client' = [client EXCEPT ![c] = Away]
    /\ participants' = [participants EXCEPT ![n] = @ \ {c}]
    /\ stale' = stale \cup {n}
    /\ disturbed' = TRUE
    /\ UNCHANGED <<hset, login_count, logins, peak>>

(* The server is killed and started again.  Redis executes those of its    *)
(* commands that have arrived.                                             *)
Restart(n) ==
    /\ client' = [c \in Clients |->
                     IF c \in participants[n] THEN Away ELSE client[c]]
    /\ participants' = [participants EXCEPT ![n] = {}]
    /\ \E k \in 0..Len(hset[n]) :
          login_count' = IF k = 0 THEN login_count
                         ELSE [login_count EXCEPT ![n] = hset[n][k].count]
    /\ hset' = [hset EXCEPT ![n] = <<>>]
    /\ stale' = stale \cup {n}
    /\ disturbed' = TRUE
    /\ UNCHANGED <<logins, peak>>

---------------------------------------------------------------------------
Next ==
    \/ \E c \in Clients :
          \/ GetChatServer(c) \/ Choose(c) \/ HgetallFails(c)
          \/ GivesUp(c) \/ Connect(c) \/ SendCount(c) \/ Leave(c)
    \/ \E n \in Servers : Hset(n) \/ HsetFails(n) \/ Restart(n)

Spec == Init /\ [][Next]_vars

---------------------------------------------------------------------------
(* A server whose connections have not changed since it last sent a count, *)
(* and which has no HSET pending, is known to the status server with the   *)
(* number of connections it really has: overlapping logins leave the last  *)
(* number, not a smaller one.                                              *)
CountedAtRest ==
    \A n \in Servers \ stale :
        hset[n] = <<>> =>
            \/ login_count[n] = Cardinality(participants[n])
            \/ participants[n] = {} /\ login_count[n] = NoField

(* The clients that n serves or is going to serve.                         *)
Load(n) == Cardinality({c \in Clients : client[c].at = n})

(* README.md:34 and tests/TEST_PLAN.md:68: logins are spread by load.      *)
(* While nobody leaves and redis works, two servers differ by at most the  *)
(* number of logins that were going on at once, by 1 when the users log in *)
(* one after the other.                                                    *)
Spread ==
    ~disturbed => \A n, m \in Servers : Load(n) <= Load(m) + peak
================================================================================
