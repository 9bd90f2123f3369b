-------------------------- MODULE ChatClusterProofs --------------------------
(* Proofs about ChatCluster: notifications of a session are handed over in  *)
(* order and at most once, and a success that was reported for a reachable  *)
(* addressee means that deliver() got the message, for any users and any    *)
(* number of requests and stops.                                            *)
EXTENDS ChatCluster, SequenceTheorems, TLAPS

(* The requests of one session are numbered in the order of arrival.        *)
Before(a, b) == a.at = b.at /\ a.from = b.from => a.number < b.number

Ordered(s) == \A i, j \in DOMAIN s : i < j => Before(s[i], s[j])

(* What holds of the handlers of server n and of the call that blocks it.   *)
Core(n) ==
    /\ \A u \in Users :
          /\ handler[n][u].stage = "rpc"
                <=> handler[n][u] # Idle /\ call[n] # NoCall
                    /\ call[n].msg = handler[n][u].msg
          /\ handler[n][u] # Idle =>
                /\ handler[n][u].msg.at = n /\ handler[n][u].msg.from = u
                /\ handler[n][u].msg.number < sent
    /\ call[n] # NoCall =>
          /\ handler[n][call[n].msg.from] # Idle
          /\ handler[n][call[n].msg.from].msg = call[n].msg

(* A notification that may still be delivered or posted.                    *)
Unrouted(n, u) ==
    \/ handler[n][u].stage \in {"lookup", "route"}
    \/ handler[n][u].stage = "rpc" /\ call[n].stage = "wire"

(* Everything delivered or posted for a session was sent before what its    *)
(* handler still has to route, and delivered before what is still posted.   *)
HandedInv ==
    \A n \in Servers, v \in Users :
        /\ Ordered(handed[n][v])
        /\ \A y \in Range(handed[n][v]) :
              /\ y.number < sent
              /\ \A k \in Servers : y \notin Range(posted[k])
              /\ \A k \in Servers : k # n => y \notin Range(handed[k][v])
              /\ \A x \in Range(posted[n]) : Before(y, x)
              /\ \A k \in Servers, u \in Users :
                    Unrouted(k, u) => Before(y, handler[k][u].msg)

PostedInv ==
    \A n \in Servers :
        /\ Ordered(posted[n])
        /\ \A x \in Range(posted[n]) :
              /\ x.number < sent /\ Peer[x.at] = n
              /\ \A k \in Servers, u \in Users :
                    Unrouted(k, u) => Before(x, handler[k][u].msg)

(* Messages are delivered under their addressee.                            *)
AddressInv ==
    \A n \in Servers, v \in Users : \A y \in Range(handed[n][v]) : y.to = v

Inv ==
    /\ TypeOK /\ \A n \in Servers : Core(n)
    /\ HandedInv /\ PostedInv /\ AddressInv

---------------------------------------------------------------------------
LEMMA AppendOrdered ==
    ASSUME NEW s \in Seq(Message), NEW m \in Message
    PROVE  /\ Append(s, m) \in Seq(Message)
           /\ Range(Append(s, m)) = Range(s) \cup {m}
           /\ Ordered(s) /\ (\A y \in Range(s) : Before(y, m)) => Ordered(Append(s, m))
<1>1. /\ Append(s, m) \in Seq(Message) /\ Len(s) \in Nat
      /\ DOMAIN s = 1..Len(s) /\ DOMAIN Append(s, m) = 1..(Len(s) + 1)
      /\ \A i \in 1..Len(s) : Append(s, m)[i] = s[i]
      /\ Append(s, m)[Len(s) + 1] = m
  OBVIOUS
<1>2. Range(Append(s, m)) = Range(s) \cup {m}
  BY <1>1 DEF Range
<1>3. ASSUME Ordered(s), \A y \in Range(s) : Before(y, m),
             NEW i \in DOMAIN Append(s, m), NEW j \in DOMAIN Append(s, m), i < j
      PROVE  Before(Append(s, m)[i], Append(s, m)[j])
  <2>1. i \in 1..Len(s) /\ Append(s, m)[i] = s[i] /\ s[i] \in Range(s)
    BY <1>1, <1>3 DEF Range
  <2>2. CASE j = Len(s) + 1
    BY <1>1, <1>3, <2>1, <2>2
  <2>3. CASE j \in 1..Len(s)
    BY <1>1, <1>3, <2>1, <2>3 DEF Ordered
  <2>. QED  BY <1>1, <2>2, <2>3
<1>. QED  BY <1>1, <1>2, <1>3 DEF Ordered

LEMMA TailOrdered ==
    ASSUME NEW s \in Seq(Message), s # <<>>, Ordered(s)
    PROVE  /\ Head(s) \in Message /\ Head(s) \in Range(s)
           /\ Tail(s) \in Seq(Message) /\ Range(Tail(s)) \subseteq Range(s)
           /\ Ordered(Tail(s))
           /\ \A x \in Range(Tail(s)) : Before(Head(s), x)
<1>1. /\ Len(s) \in Nat /\ Len(s) # 0 /\ Head(s) = s[1] /\ Head(s) \in Message
      /\ Tail(s) \in Seq(Message) /\ DOMAIN s = 1..Len(s)
      /\ DOMAIN Tail(s) = 1..(Len(s) - 1)
      /\ \A i \in 1..(Len(s) - 1) : Tail(s)[i] = s[i + 1]
  OBVIOUS
<1>2. \A i \in DOMAIN Tail(s) : i + 1 \in DOMAIN s /\ 1 \in DOMAIN s /\ Tail(s)[i] = s[i + 1]
                                /\ 1 < i + 1
  BY <1>1
<1>3. Head(s) \in Range(s) /\ Range(Tail(s)) \subseteq Range(s)
  BY <1>1, <1>2 DEF Range
<1>4. Ordered(Tail(s))
  <2>. SUFFICES ASSUME NEW i \in DOMAIN Tail(s), NEW j \in DOMAIN Tail(s), i < j
                PROVE  Before(Tail(s)[i], Tail(s)[j])
    BY DEF Ordered
  <2>1. i + 1 < j + 1
    BY <1>1
  <2>. QED  BY <1>2, <2>1 DEF Ordered
<1>5. \A x \in Range(Tail(s)) : Before(Head(s), x)
  BY <1>1, <1>2 DEF Range, Ordered
<1>. QED  BY <1>1, <1>3, <1>4, <1>5

LEMMA Irreflexive == \A m \in Message : ~Before(m, m)
BY DEF Before, Message

---------------------------------------------------------------------------
(* Record facts.                                                            *)
LEMMA WorkingTypes ==
    ASSUME NEW w \in Working
    PROVE  /\ w # Idle /\ w.stage \in {"lookup", "route", "rpc"} /\ w.msg \in Message
           /\ w.msg.at \in Servers /\ w.msg.from \in Users /\ w.msg.to \in Users
           /\ w.msg.number \in Nat
           /\ w.target \in Servers \cup {NoServer}
BY DEF Working, Message, Idle

LEMMA WorkingStage ==
    ASSUME NEW w \in Working, NEW s \in {"lookup", "route", "rpc"}
    PROVE  /\ [w EXCEPT !.stage = s] \in Working
           /\ [w EXCEPT !.stage = s].stage = s
           /\ [w EXCEPT !.stage = s].msg = w.msg
           /\ [w EXCEPT !.stage = s].target = w.target
           /\ [w EXCEPT !.stage = s].reachable = w.reachable
BY Zenon DEF Working

LEMMA WorkingTarget ==
    ASSUME NEW w \in Working, NEW t \in Servers \cup {NoServer}
    PROVE  /\ [w EXCEPT !.target = t] \in Working
           /\ [w EXCEPT !.target = t].stage = w.stage
           /\ [w EXCEPT !.target = t].msg = w.msg
           /\ [w EXCEPT !.target = t].target = t
           /\ [w EXCEPT !.target = t].reachable = w.reachable
BY Zenon DEF Working

LEMMA WorkingUnreachable ==
    ASSUME NEW w \in Working
    PROVE  /\ [w EXCEPT !.reachable = FALSE] \in Working
           /\ [w EXCEPT !.reachable = FALSE].stage = w.stage
           /\ [w EXCEPT !.reachable = FALSE].msg = w.msg
           /\ [w EXCEPT !.reachable = FALSE].target = w.target
           /\ [w EXCEPT !.reachable = FALSE].reachable = FALSE
BY DEF Working

LEMMA HandlerSet ==
    ASSUME handler \in [Servers -> [Users -> Working \cup {Idle}]],
           NEW n \in Servers, NEW u \in Users, NEW w \in Working \cup {Idle},
           handler' = [handler EXCEPT ![n][u] = w]
    PROVE  /\ handler' \in [Servers -> [Users -> Working \cup {Idle}]]
           /\ handler'[n][u] = w
           /\ \A k \in Servers, x \in Users :
                 k # n \/ x # u => handler'[k][x] = handler[k][x]
OBVIOUS

LEMMA CallTypes ==
    ASSUME NEW c \in Call
    PROVE  c # NoCall /\ c.msg \in Message /\ c.msg.from \in Users /\ c.msg.at \in Servers
BY NoCallAssumption DEF Call, Message

LEMMA CallStage ==
    ASSUME NEW c \in Call, NEW s \in {"wire", "posted", "replied", "lost"}
    PROVE  /\ [c EXCEPT !.stage = s] \in Call
           /\ [c EXCEPT !.stage = s].stage = s
           /\ [c EXCEPT !.stage = s].msg = c.msg
BY DEF Call

---------------------------------------------------------------------------
(* Server n goes on with the same requests and the same call.               *)
SameShape(n) ==
    /\ \A u \in Users :
          /\ handler'[n][u] = Idle <=> handler[n][u] = Idle
          /\ handler'[n][u].stage = "rpc" <=> handler[n][u].stage = "rpc"
          /\ handler[n][u] # Idle => handler'[n][u].msg = handler[n][u].msg
    /\ call'[n] = NoCall <=> call[n] = NoCall
    /\ call[n] # NoCall => call'[n].msg = call[n].msg

LEMMA CoreKept ==
    ASSUME TypeOK, NEW n \in Servers, Core(n), SameShape(n), sent' \in {sent, sent + 1}
    PROVE  Core(n)'
<1>1. call[n] # NoCall => call[n].msg.from \in Users
  BY CallTypes DEF TypeOK
<1>2. \A u \in Users : handler[n][u] # Idle => handler[n][u].msg.number \in Nat
  BY WorkingTypes DEF TypeOK
<1>3. sent \in Nat
  BY DEF TypeOK
<1>. QED  BY <1>1, <1>2, <1>3 DEF Core, SameShape

(* Nothing is delivered or posted, and no request becomes unrouted but a    *)
(* new one.                                                                 *)
LEMMA OrderKept ==
    ASSUME Inv, UNCHANGED handed, sent' \in {sent, sent + 1},
           \A k \in Servers :
               \/ posted'[k] = posted[k] \/ posted'[k] = <<>>
               \/ Range(posted'[k]) \subseteq Range(posted[k]) /\ Ordered(posted'[k]),
           \A k \in Servers, x \in Users :
               Unrouted(k, x)' =>
                   \/ Unrouted(k, x) /\ handler'[k][x].msg = handler[k][x].msg
                   \/ handler'[k][x].msg.number = sent
    PROVE  HandedInv' /\ PostedInv' /\ AddressInv'
<1>1. /\ \A k \in Servers : Range(posted'[k]) \subseteq Range(posted[k])
      /\ \A k \in Servers : Ordered(posted[k]) => Ordered(posted'[k])
  <2>1. Range(<<>>) = {} /\ Ordered(<<>>)
    BY DEF Range, Ordered
  <2>. QED  BY <2>1, Zenon
<1>2. /\ sent \in Nat
      /\ \A n \in Servers, v \in Users : Range(handed[n][v]) \subseteq Message
      /\ \A n \in Servers : Range(posted[n]) \subseteq Message
  BY DEF Inv, TypeOK, Range
<1>3. \A m \in Message : m.number \in Nat
  BY DEF Message
<1>4. HandedInv'
  <2>. SUFFICES ASSUME NEW n \in Servers, NEW v \in Users, NEW y \in Range(handed[n][v])
                PROVE  /\ y.number < sent'
                       /\ \A k \in Servers : y \notin Range(posted'[k])
                       /\ \A x \in Range(posted'[n]) : Before(y, x)
                       /\ \A k \in Servers, u \in Users :
                             Unrouted(k, u)' => Before(y, handler'[k][u].msg)
    BY DEF Inv, HandedInv
  <2>1. y.number < sent /\ y.number \in Nat
    BY <1>2, <1>3 DEF Inv, HandedInv
  <2>2. \A k \in Servers, u \in Users : Unrouted(k, u)' => Before(y, handler'[k][u].msg)
    BY <2>1 DEF Inv, HandedInv, Before
  <2>3. /\ \A k \in Servers : y \notin Range(posted[k])
        /\ \A x \in Range(posted[n]) : Before(y, x)
    BY DEF Inv, HandedInv
  <2>4. y.number < sent'
    BY <1>2, <2>1
  <2>. QED  BY <1>1, <2>2, <2>3, <2>4
<1>5. PostedInv'
  <2>. SUFFICES ASSUME NEW n \in Servers, NEW x \in Range(posted'[n])
                PROVE  /\ x.number < sent' /\ Peer[x.at] = n
                       /\ \A k \in Servers, u \in Users :
                             Unrouted(k, u)' => Before(x, handler'[k][u].msg)
    BY <1>1 DEF Inv, PostedInv
  <2>1. x \in Range(posted[n]) /\ x.number < sent /\ x.number \in Nat /\ Peer[x.at] = n
    BY <1>1, <1>2, <1>3 DEF Inv, PostedInv
  <2>2. \A k \in Servers, u \in Users : Unrouted(k, u)' => Before(x, handler'[k][u].msg)
    BY <2>1 DEF Inv, PostedInv, Before
  <2>. QED  BY <1>2, <2>1, <2>2
<1>6. AddressInv'
  BY DEF Inv, AddressInv
<1>. QED  BY <1>4, <1>5, <1>6

(* One handler of server n changes and its requests and call stay.          *)
LEMMA SuspendStep ==
    ASSUME Inv, NEW n \in Servers, NEW u \in Users, NEW w \in Working,
           handler[n][u].stage \in {"lookup", "route"},
           handler' = [handler EXCEPT ![n][u] = w],
           w.stage \in {"lookup", "route"}, w.msg = handler[n][u].msg,
           UNCHANGED <<participants, login_server, call, posted, handed, lost, sent, process>>
    PROVE  Inv'
<1>1. /\ handler' \in [Servers -> [Users -> Working \cup {Idle}]]
      /\ handler'[n][u] = w
      /\ \A k \in Servers, x \in Users :
            k # n \/ x # u => handler'[k][x] = handler[k][x]
  BY HandlerSet DEF Inv, TypeOK
<1>2. handler[n][u] # Idle /\ w # Idle
  BY WorkingTypes DEF Idle
<1>3. \A k \in Servers : SameShape(k)
  BY <1>1, <1>2 DEF SameShape
<1>4. \A k \in Servers : Core(k)'
  BY <1>3, CoreKept DEF Inv
<1>5. TypeOK'
  BY <1>1, <1>4 DEF Inv, TypeOK, Core, process
<1>6. \A k \in Servers, x \in Users :
          Unrouted(k, x)' => Unrouted(k, x) /\ handler'[k][x].msg = handler[k][x].msg
  BY <1>1 DEF Unrouted
<1>. QED  BY <1>4, <1>5, <1>6, OrderKept DEF Inv

LEMMA LookupStep ==
    ASSUME Inv, NEW n \in Servers, NEW u \in Users, Lookup(n, u) \/ LookupFails(n, u)
    PROVE  Inv'
<1>1. handler[n][u] \in Working /\ handler[n][u].stage = "lookup"
  BY DEF Lookup, LookupFails, Inv, TypeOK, Idle
<1>. PICK h \in Working : h = handler[n][u]
  BY <1>1
<1>. PICK l \in Working : /\ l = [h EXCEPT !.stage = "route"] /\ l.stage = "route"
                         /\ l.msg = h.msg
  BY WorkingStage, ZenonT(60)
<1>2. CASE Lookup(n, u)
  <2>. PICK t \in Servers \cup {NoServer} : t = login_server[h.msg.to]
    BY WorkingTypes DEF Inv, TypeOK
  <2>. PICK w : w = [l EXCEPT !.target = t]
    OBVIOUS
  <2>1. w \in Working /\ w.stage = l.stage /\ w.msg = l.msg
    BY WorkingTarget, ZenonT(60)
  <2>2. handler' = [handler EXCEPT ![n][u] = w]
    BY <1>2 DEF Lookup, Inv, TypeOK
  <2>3. /\ handler[n][u].stage \in {"lookup", "route"} /\ w.stage \in {"lookup", "route"}
        /\ w.msg = handler[n][u].msg /\ w \in Working
    BY <1>1, <2>1
  <2>4. UNCHANGED <<participants, login_server, call, posted, handed, lost, sent, process>>
    BY <1>2 DEF Lookup
  <2>. QED  BY <2>2, <2>3, <2>4, SuspendStep
<1>3. CASE LookupFails(n, u)
  <2>. PICK t : t = [l EXCEPT !.target = NoServer]
    OBVIOUS
  <2>1. t \in Working /\ t.stage = l.stage /\ t.msg = l.msg
    BY WorkingTarget, Zenon
  <2>. PICK w : w = [t EXCEPT !.reachable = FALSE]
    OBVIOUS
  <2>2. w \in Working /\ w.stage = t.stage /\ w.msg = t.msg
    BY <2>1, WorkingUnreachable, Zenon
  <2>3. handler' = [handler EXCEPT ![n][u] = w]
    BY <1>3 DEF LookupFails, Inv, TypeOK
  <2>4. /\ handler[n][u].stage \in {"lookup", "route"} /\ w.stage \in {"lookup", "route"}
        /\ w.msg = handler[n][u].msg /\ w \in Working
    BY <1>1, <2>1, <2>2
  <2>5. UNCHANGED <<participants, login_server, call, posted, handed, lost, sent, process>>
    BY <1>3 DEF LookupFails
  <2>. QED  BY <2>3, <2>4, <2>5, SuspendStep
<1>. QED  BY <1>2, <1>3

---------------------------------------------------------------------------
(* A handler that loses its addressee keeps its request.                    *)
LEMMA Unreach ==
    ASSUME NEW h \in Working \cup {Idle}, NEW g,
           g = h \/ (h # Idle /\ g = [h EXCEPT !.reachable = FALSE])
    PROVE  /\ g \in Working \cup {Idle} /\ (g = Idle <=> h = Idle)
           /\ g.stage = h.stage
           /\ h # Idle => g.msg = h.msg /\ g.target = h.target
<1>1. CASE g = h
  BY <1>1
<1>2. CASE h # Idle /\ g = [h EXCEPT !.reachable = FALSE]
  BY <1>2, WorkingUnreachable, WorkingTypes
<1>. QED  BY <1>1, <1>2

(* The steps that change what is known of the addressees only.              *)
LEMMA MovesStep ==
    ASSUME Inv,
           DOMAIN handler' = Servers,
           \A k \in Servers : handler'[k] = [u \in Users |-> handler'[k][u]],
           handler' = [k \in Servers |-> handler'[k]],
           \A k \in Servers, u \in Users :
               \/ handler'[k][u] = handler[k][u]
               \/ /\ handler[k][u] # Idle
                  /\ handler'[k][u] = [handler[k][u] EXCEPT !.reachable = FALSE],
           participants' \in [Servers -> SUBSET Users],
           login_server' \in [Users -> Servers \cup {NoServer}],
           UNCHANGED <<call, posted, handed, lost, sent, process>>
    PROVE  Inv'
<1>1. \A k \in Servers, u \in Users :
         /\ handler'[k][u] \in Working \cup {Idle}
         /\ handler'[k][u] = Idle <=> handler[k][u] = Idle
         /\ handler'[k][u].stage = handler[k][u].stage
         /\ handler[k][u] # Idle => handler'[k][u].msg = handler[k][u].msg
  <2>. TAKE k \in Servers, u \in Users
  <2>. PICK h \in Working \cup {Idle} : h = handler[k][u]
    BY DEF Inv, TypeOK
  <2>. PICK g : g = handler'[k][u]
    OBVIOUS
  <2>1. g = h \/ (h # Idle /\ g = [h EXCEPT !.reachable = FALSE])
    OBVIOUS
  <2>2. /\ g \in Working \cup {Idle} /\ (g = Idle <=> h = Idle)
        /\ g.stage = h.stage
        /\ h # Idle => g.msg = h.msg /\ g.target = h.target
    BY <2>1, Unreach
  <2>. QED  BY <2>2
<1>2. handler' \in [Servers -> [Users -> Working \cup {Idle}]]
  <2>1. \A k \in Servers : handler'[k] \in [Users -> Working \cup {Idle}]
    BY <1>1
  <2>. QED  BY <2>1
<1>3. \A k \in Servers : SameShape(k)
  BY <1>1 DEF SameShape
<1>4. \A k \in Servers : Core(k)'
  BY <1>3, CoreKept DEF Inv
<1>5. TypeOK'
  BY <1>2, <1>4 DEF Inv, TypeOK, Core, process
<1>6. \A k \in Servers, x \in Users :
          Unrouted(k, x)' => Unrouted(k, x) /\ handler'[k][x].msg = handler[k][x].msg
  BY <1>1 DEF Unrouted, Idle
<1>. QED  BY <1>4, <1>5, <1>6, OrderKept DEF Inv

LEMMA LoginStep ==
    ASSUME Inv, NEW n \in Servers, NEW u \in Users, Login(n, u) \/ Logout(n, u)
    PROVE  Inv'
<1>1. AddresseeMoves(u) /\ UNCHANGED <<call, posted, handed, lost, sent, process>>
  BY DEF Login, Logout
<1>2. /\ DOMAIN handler' = Servers
      /\ \A k \in Servers : handler'[k] = [x \in Users |-> handler'[k][x]]
      /\ handler' = [k \in Servers |-> handler'[k]]
  BY <1>1 DEF AddresseeMoves
<1>3. \A k \in Servers, x \in Users :
         \/ handler'[k][x] = handler[k][x]
         \/ /\ handler[k][x] # Idle
            /\ handler'[k][x] = [handler[k][x] EXCEPT !.reachable = FALSE]
  <2>. TAKE k \in Servers, x \in Users
  <2>1. handler'[k][x] = IF handler[k][x] # Idle /\ handler[k][x].msg.to = u
                         THEN [handler[k][x] EXCEPT !.reachable = FALSE]
                         ELSE handler[k][x]
    BY <1>1 DEF AddresseeMoves
  <2>. QED  BY <2>1, Zenon
<1>4. participants' \in [Servers -> SUBSET Users]
  <2>1. PICK users \in SUBSET Users : participants' = [participants EXCEPT ![n] = users]
    <3>1. participants[n] \cup {u} \in SUBSET Users /\ participants[n] \ {u} \in SUBSET Users
      BY DEF Inv, TypeOK
    <3>. QED  BY <3>1 DEF Login, Logout
  <2>. QED  BY <2>1 DEF Inv, TypeOK
<1>5. login_server' \in [Users -> Servers \cup {NoServer}]
  BY DEF Login, Logout, Inv, TypeOK
<1>. QED  BY <1>1, <1>2, <1>3, <1>4, <1>5, MovesStep

LEMMA RequestStep ==
    ASSUME Inv, NEW n \in Servers, NEW u \in Users, NEW v \in Users, Request(n, u, v)
    PROVE  Inv'
<1>. PICK m : m = [at |-> n, from |-> u, to |-> v, number |-> sent]
  OBVIOUS
<1>1. m \in Message /\ m.at = n /\ m.from = u /\ m.number = sent
  BY DEF Inv, TypeOK, Message
<1>. PICK b \in BOOLEAN : b = (\E k \in Servers : login_server[v] = k /\ v \in participants[k])
  OBVIOUS
<1>. PICK w : w = [stage |-> "lookup", msg |-> m, target |-> NoServer, reachable |-> b]
  OBVIOUS
<1>2. w \in Working /\ w.stage = "lookup" /\ w.msg = m
  BY <1>1 DEF Working
<1>3. handler' = [handler EXCEPT ![n][u] = w] /\ sent' = sent + 1
      /\ UNCHANGED <<participants, login_server, call, posted, handed, lost, process>>
      /\ call[n] = NoCall /\ handler[n][u] = Idle
  BY DEF Request, LoopRuns
<1>4. /\ handler' \in [Servers -> [Users -> Working \cup {Idle}]]
      /\ handler'[n][u] = w
      /\ \A k \in Servers, x \in Users :
            k # n \/ x # u => handler'[k][x] = handler[k][x]
  BY <1>2, <1>3, HandlerSet DEF Inv, TypeOK
<1>5. \A k \in Servers \ {n} : SameShape(k)
  BY <1>3, <1>4 DEF SameShape
<1>6. Core(n)'
  <2>1. \A x \in Users : handler[n][x] # Idle => handler[n][x].msg.number \in Nat
    BY WorkingTypes DEF Inv, TypeOK
  <2>2. sent \in Nat
    BY DEF Inv, TypeOK
  <2>. QED  BY <1>1, <1>2, <1>3, <1>4, <2>1, <2>2 DEF Inv, Core
<1>7. \A k \in Servers : Core(k)'
  BY <1>3, <1>5, <1>6, CoreKept DEF Inv
<1>8. TypeOK'
  BY <1>3, <1>4, <1>7 DEF Inv, TypeOK, Core, process
<1>9. \A k \in Servers, x \in Users :
          Unrouted(k, x)' =>
              \/ Unrouted(k, x) /\ handler'[k][x].msg = handler[k][x].msg
              \/ handler'[k][x].msg.number = sent
  BY <1>1, <1>2, <1>3, <1>4 DEF Unrouted
<1>. QED  BY <1>3, <1>7, <1>8, <1>9, OrderKept DEF Inv

(* The handler of u on n ends, and with it the call that blocked n.         *)
LEMMA EndsStep ==
    ASSUME Inv, NEW n \in Servers, NEW u \in Users,
           handler' = [handler EXCEPT ![n][u] = Idle],
           \/ call[n] = NoCall /\ UNCHANGED call
           \/ /\ call[n] # NoCall /\ u = call[n].msg.from
              /\ call' = [call EXCEPT ![n] = NoCall],
           UNCHANGED <<participants, login_server, sent, process>>
    PROVE  /\ \A k \in Servers : Core(k)'
           /\ \A k \in Servers, x \in Users :
                 Unrouted(k, x)' => Unrouted(k, x) /\ handler'[k][x] = handler[k][x]
           /\ posted' \in [Servers -> Seq(Message)]
              /\ handed' \in [Servers -> [Users -> Seq(Message)]] /\ lost' \subseteq Message => TypeOK'
<1>1. Idle \in Working \cup {Idle}
  OBVIOUS
<1>2. /\ handler' \in [Servers -> [Users -> Working \cup {Idle}]]
      /\ handler'[n][u] = Idle
      /\ \A k \in Servers, x \in Users :
            k # n \/ x # u => handler'[k][x] = handler[k][x]
  BY <1>1, HandlerSet DEF Inv, TypeOK
<1>3. /\ call' \in [Servers -> Call \cup {NoCall}] /\ call'[n] = NoCall
      /\ \A k \in Servers : k # n => call'[k] = call[k]
  BY DEF Inv, TypeOK
<1>4. \A k \in Servers \ {n} : SameShape(k)
  BY <1>2, <1>3 DEF SameShape
<1>5. \A x \in Users : x # u => handler[n][x].stage # "rpc"
  BY DEF Inv, Core
<1>6. Core(n)'
  BY <1>2, <1>3, <1>5 DEF Inv, Core, Idle
<1>7. \A k \in Servers : Core(k)'
  BY <1>4, <1>6, CoreKept DEF Inv
<1>8. \A k \in Servers, x \in Users :
          Unrouted(k, x)' => Unrouted(k, x) /\ handler'[k][x] = handler[k][x]
  BY <1>2, <1>3, <1>5 DEF Unrouted, Idle
<1>9. posted' \in [Servers -> Seq(Message)]
      /\ handed' \in [Servers -> [Users -> Seq(Message)]] /\ lost' \subseteq Message => TypeOK'
  BY <1>2, <1>3, <1>7 DEF Inv, TypeOK, Core, process
<1>. QED  BY <1>7, <1>8, <1>9

(* Responses that deliver nothing.                                          *)
LEMMA RespondStep ==
    ASSUME Inv, NEW n \in Servers,
           \/ \E u \in Users : HandlerFails(n, u) \/ RouteNowhere(n, u)
           \/ CallReturns(n) \/ CallBreaks(n)
    PROVE  Inv'
<1>1. PICK u \in Users :
         /\ handler' = [handler EXCEPT ![n][u] = Idle]
         /\ \/ call[n] = NoCall /\ UNCHANGED call
            \/ /\ call[n] # NoCall /\ u = call[n].msg.from
               /\ call' = [call EXCEPT ![n] = NoCall]
  <2>1. CASE CallReturns(n) \/ CallBreaks(n)
    <3>1. call[n] # NoCall /\ Respond(n, call[n].msg.from)
          /\ call' = [call EXCEPT ![n] = NoCall]
      BY <2>1 DEF CallReturns, CallBreaks
    <3>2. call[n].msg.from \in Users
      BY <3>1, CallTypes DEF Inv, TypeOK
    <3>. QED  BY <3>1, <3>2 DEF Respond
  <2>2. CASE \E u \in Users : HandlerFails(n, u) \/ RouteNowhere(n, u)
    BY <2>2 DEF HandlerFails, RouteNowhere, Respond, LoopRuns
  <2>. QED  BY <2>1, <2>2
<1>2. UNCHANGED <<participants, login_server, posted, handed, lost, sent, process>>
  BY DEF HandlerFails, RouteNowhere, CallReturns, CallBreaks
<1>3. /\ \A k \in Servers : Core(k)'
      /\ \A k \in Servers, x \in Users :
            Unrouted(k, x)' => Unrouted(k, x) /\ handler'[k][x] = handler[k][x]
      /\ TypeOK'
  BY <1>1, <1>2, EndsStep DEF Inv, TypeOK
<1>. QED  BY <1>2, <1>3, OrderKept DEF Inv

LEMMA RoutePeerStep ==
    ASSUME Inv, NEW n \in Servers, NEW u \in Users, RoutePeer(n, u)
    PROVE  Inv'
<1>1. handler[n][u] \in Working /\ handler[n][u].stage = "route" /\ call[n] = NoCall
      /\ UNCHANGED <<participants, login_server, posted, handed, lost, sent, process>>
  BY DEF RoutePeer, LoopRuns, Inv, TypeOK, Idle
<1>2. PICK h \in Working : h = handler[n][u]
  BY <1>1
<1>3. PICK w : w = [h EXCEPT !.stage = "rpc"]
  OBVIOUS
<1>4. w \in Working /\ w.stage = "rpc" /\ w.msg = h.msg /\ w # Idle
  BY <1>3, WorkingStage, WorkingTypes
<1>5. handler' = [handler EXCEPT ![n][u] = w]
  BY <1>2, <1>3 DEF RoutePeer, Inv, TypeOK
<1>6. w \in Working \cup {Idle} /\ handler \in [Servers -> [Users -> Working \cup {Idle}]]
  BY <1>4 DEF Inv, TypeOK
<1>7. /\ handler' \in [Servers -> [Users -> Working \cup {Idle}]]
      /\ handler'[n][u] = w
      /\ \A k \in Servers, x \in Users :
            k # n \/ x # u => handler'[k][x] = handler[k][x]
  BY <1>5, <1>6, HandlerSet
<1>8. PICK c : c = [msg |-> h.msg, stage |-> "wire"]
  OBVIOUS
<1>9. c \in Call /\ c.msg = h.msg /\ c # NoCall
  BY <1>8, WorkingTypes, NoCallAssumption DEF Call
<1>10. /\ call' \in [Servers -> Call \cup {NoCall}] /\ call'[n] = c
       /\ \A k \in Servers : k # n => call'[k] = call[k]
  BY <1>2, <1>8, <1>9 DEF RoutePeer, Inv, TypeOK
<1>11. \A k \in Servers \ {n} : SameShape(k)
  BY <1>7, <1>10 DEF SameShape
<1>12. h.msg.at = n /\ h.msg.from = u /\ h.msg.number < sent
  BY <1>1, <1>2, WorkingTypes DEF Inv, Core
<1>13. \A x \in Users : x # u => /\ handler[n][x].stage # "rpc"
                                 /\ handler[n][x] # Idle => handler[n][x].msg # h.msg
  BY <1>1, <1>12 DEF Inv, Core
<1>14. Core(n)'
  <2>1. \A x \in Users : x # u /\ handler[n][x] # Idle =>
            /\ handler[n][x].msg.at = n /\ handler[n][x].msg.from = x
            /\ handler[n][x].msg.number < sent
    BY DEF Inv, Core
  <2>. QED  BY <1>1, <1>4, <1>7, <1>9, <1>10, <1>12, <1>13, <2>1 DEF Core
<1>15. \A k \in Servers : Core(k)'
  BY <1>1, <1>11, <1>14, CoreKept DEF Inv
<1>16. TypeOK'
  BY <1>1, <1>7, <1>10, <1>15 DEF Inv, TypeOK, Core, process
<1>17. \A k \in Servers, x \in Users :
          Unrouted(k, x)' => Unrouted(k, x) /\ handler'[k][x].msg = handler[k][x].msg
  BY <1>1, <1>2, <1>4, <1>7, <1>10, <1>13 DEF Unrouted
<1>. QED  BY <1>1, <1>15, <1>16, <1>17, OrderKept DEF Inv

LEMMA SignalStep ==
    ASSUME Inv, NEW n \in Servers, Signal(n)
    PROVE  Inv'
<1>1. stops' = stops + 1 /\ stopping' = [stopping EXCEPT ![n] = TRUE]
      /\ UNCHANGED <<participants, login_server, handler, call, posted, handed, lost, sent>>
  BY DEF Signal
<1>2. \A k \in Servers : Core(k)'
  BY <1>1 DEF Inv, Core
<1>3. stopping' \in [Servers -> BOOLEAN] /\ stops' \in Nat
  BY <1>1 DEF Inv, TypeOK
<1>4. TypeOK'
  BY <1>1, <1>2, <1>3 DEF Inv, TypeOK, Core
<1>5. HandedInv' /\ PostedInv' /\ AddressInv'
  BY <1>1, ZenonT(60) DEF Inv, HandedInv, PostedInv, AddressInv, Unrouted
<1>. QED  BY <1>2, <1>4, <1>5 DEF Inv

LEMMA RestartStep ==
    ASSUME Inv, NEW n \in Servers, Crash(n) \/ Exit(n)
    PROVE  Inv'
<1>1. Restart(n) /\ stops' \in Nat
  BY DEF Crash, Exit, Inv, TypeOK
<1>2. /\ participants' = [participants EXCEPT ![n] = {}]
      /\ posted' = [posted EXCEPT ![n] = <<>>]
      /\ stopping' = [stopping EXCEPT ![n] = FALSE]
      /\ UNCHANGED <<login_server, handed, lost, sent>>
  BY <1>1 DEF Restart
<1>3. \A u \in Users : handler'[n][u] = Idle
  BY <1>1 DEF Restart
<1>4. \A k \in Servers \ {n}, u \in Users :
         /\ handler'[k][u] \in Working \cup {Idle}
         /\ handler'[k][u] = Idle <=> handler[k][u] = Idle
         /\ handler'[k][u].stage = handler[k][u].stage
         /\ handler[k][u] # Idle => handler'[k][u].msg = handler[k][u].msg
  <2>. TAKE k \in Servers \ {n}, u \in Users
  <2>. PICK h \in Working \cup {Idle} : h = handler[k][u]
    BY DEF Inv, TypeOK
  <2>. PICK g : g = handler'[k][u]
    OBVIOUS
  <2>1. g = IF h # Idle /\ h.msg.to \in participants[n]
            THEN [h EXCEPT !.reachable = FALSE] ELSE h
    BY <1>1 DEF Restart
  <2>2. g = h \/ (h # Idle /\ g = [h EXCEPT !.reachable = FALSE])
    BY <2>1, Zenon
  <2>3. /\ g \in Working \cup {Idle} /\ (g = Idle <=> h = Idle)
        /\ g.stage = h.stage
        /\ h # Idle => g.msg = h.msg /\ g.target = h.target
    BY <2>2, Unreach
  <2>. QED  BY <2>3
<1>5. handler' \in [Servers -> [Users -> Working \cup {Idle}]]
  <2>1. /\ handler' = [k \in Servers |-> handler'[k]]
        /\ \A k \in Servers : handler'[k] = [u \in Users |-> handler'[k][u]]
    BY <1>1 DEF Restart
  <2>2. \A k \in Servers : handler'[k] \in [Users -> Working \cup {Idle}]
    BY <1>3, <1>4, <2>1
  <2>. QED  BY <2>1, <2>2
<1>6. /\ call'[n] = NoCall
      /\ \A k \in Servers \ {n} :
            \/ call'[k] = call[k]
            \/ call[k] # NoCall /\ call'[k] = [call[k] EXCEPT !.stage = "lost"]
      /\ DOMAIN call' = Servers /\ call' = [k \in Servers |-> call'[k]]
  BY <1>1 DEF Restart
<1>7. \A k \in Servers \ {n} :
         /\ call'[k] \in Call \cup {NoCall}
         /\ call'[k] = NoCall <=> call[k] = NoCall
         /\ call[k] # NoCall => call'[k].msg = call[k].msg
         /\ call'[k] = call[k] \/ call'[k].stage = "lost"
  <2>. TAKE k \in Servers \ {n}
  <2>1. call[k] \in Call \cup {NoCall}
    BY DEF Inv, TypeOK
  <2>2. CASE call'[k] = call[k]
    BY <2>1, <2>2
  <2>3. CASE call[k] # NoCall /\ call'[k] = [call[k] EXCEPT !.stage = "lost"]
    BY <2>1, <2>3, CallTypes, CallStage, ZenonT(60)
  <2>. QED  BY <1>6, <2>2, <2>3
<1>8. call' \in [Servers -> Call \cup {NoCall}]
  BY <1>6, <1>7
<1>9. \A k \in Servers \ {n} : SameShape(k)
  BY <1>4, <1>7 DEF SameShape
<1>10. Core(n)'
  BY <1>3, <1>6 DEF Core, Idle
<1>11. \A k \in Servers : Core(k)'
  BY <1>2, <1>9, <1>10, CoreKept DEF Inv
<1>12. TypeOK'
  <2>1. participants' \in [Servers -> SUBSET Users]
    BY <1>2 DEF Inv, TypeOK
  <2>2. stopping' \in [Servers -> BOOLEAN] /\ posted' \in [Servers -> Seq(Message)]
    BY <1>2 DEF Inv, TypeOK
  <2>. QED  BY <1>1, <1>2, <1>5, <1>8, <1>11, <2>1, <2>2 DEF Inv, TypeOK, Core
<1>13. \A k \in Servers, x \in Users :
          Unrouted(k, x)' => Unrouted(k, x) /\ handler'[k][x].msg = handler[k][x].msg
  <2>. SUFFICES ASSUME NEW k \in Servers, NEW x \in Users, Unrouted(k, x)'
                PROVE  Unrouted(k, x) /\ handler'[k][x].msg = handler[k][x].msg
    OBVIOUS
  <2>1. k # n /\ handler[k][x] # Idle
    BY <1>3, <1>4 DEF Unrouted, Idle
  <2>. QED  BY <1>4, <1>7, <2>1 DEF Unrouted
<1>14. \A k \in Servers : posted'[k] = posted[k] \/ posted'[k] = <<>>
  BY <1>2 DEF Inv, TypeOK
<1>. QED  BY <1>2, <1>11, <1>12, <1>13, <1>14, OrderKept DEF Inv

---------------------------------------------------------------------------
LEMMA HandedTypes ==
    ASSUME TypeOK
    PROVE  /\ sent \in Nat
           /\ \A n \in Servers, v \in Users : Range(handed[n][v]) \subseteq Message
           /\ \A n \in Servers : Range(posted[n]) \subseteq Message
BY DEF TypeOK, Range

(* Message m is delivered to the session of its addressee on server n.      *)
LEMMA DeliverOrder ==
    ASSUME Inv, NEW n \in Servers, NEW m \in Message,
           handed' = [handed EXCEPT ![n][m.to] = Append(@, m)],
           m.number < sent, UNCHANGED sent,
           \A k \in Servers : Range(posted'[k]) \subseteq Range(posted[k])
                              /\ Ordered(posted'[k]) /\ m \notin Range(posted'[k]),
           \A k \in Servers, v \in Users : m \notin Range(handed[k][v]),
           \A y \in Range(handed[n][m.to]) : Before(y, m),
           \A x \in Range(posted'[n]) : Before(m, x),
           \A k \in Servers, x \in Users :
               Unrouted(k, x)' => /\ Unrouted(k, x)
                                  /\ handler'[k][x].msg = handler[k][x].msg
                                  /\ Before(m, handler[k][x].msg)
    PROVE  /\ HandedInv' /\ PostedInv' /\ AddressInv'
           /\ handed' \in [Servers -> [Users -> Seq(Message)]]
<1>1. m.to \in Users /\ m.number \in Nat
  BY DEF Message
<1>2. handed \in [Servers -> [Users -> Seq(Message)]]
  BY DEF Inv, TypeOK
<1>3. PICK s \in Seq(Message) : s = handed[n][m.to]
  BY <1>1, <1>2
<1>4. PICK t : t = Append(s, m)
  OBVIOUS
<1>5. t \in Seq(Message) /\ Range(t) = Range(s) \cup {m} /\ Ordered(t)
  <2>1. Ordered(s)
    BY <1>1, <1>3 DEF Inv, HandedInv
  <2>. QED  BY <1>3, <1>4, <2>1, AppendOrdered
<1>6. /\ handed' \in [Servers -> [Users -> Seq(Message)]]
      /\ handed'[n][m.to] = t
      /\ \A k \in Servers, v \in Users :
            k # n \/ v # m.to => handed'[k][v] = handed[k][v]
  <2>1. handed' = [handed EXCEPT ![n][m.to] = t]
    BY <1>3, <1>4
  <2>. QED  BY <1>1, <1>2, <1>5, <2>1
<1>7. \A k \in Servers, v \in Users :
         /\ Ordered(handed'[k][v])
         /\ \A y \in Range(handed'[k][v]) :
               y \in Range(handed[k][v]) \/ (y = m /\ k = n /\ v = m.to)
  <2>. SUFFICES ASSUME NEW k \in Servers, NEW v \in Users
                PROVE  /\ Ordered(handed'[k][v])
                       /\ \A y \in Range(handed'[k][v]) :
                             y \in Range(handed[k][v]) \/ (y = m /\ k = n /\ v = m.to)
    OBVIOUS
  <2>1. CASE k = n /\ v = m.to
    <3>1. handed'[k][v] = t /\ Range(handed[k][v]) = Range(s)
      BY <1>3, <1>6, <2>1
    <3>. QED  BY <1>5, <2>1, <3>1
  <2>2. CASE ~(k = n /\ v = m.to)
    <3>1. handed'[k][v] = handed[k][v]
      BY <1>6, <2>2
    <3>2. Ordered(handed[k][v])
      BY DEF Inv, HandedInv
    <3>. QED  BY <3>1, <3>2
  <2>. QED  BY <2>1, <2>2
<1>8. HandedInv'
  <2>. SUFFICES ASSUME NEW k \in Servers, NEW v \in Users, NEW y \in Range(handed'[k][v])
                PROVE  /\ y.number < sent
                       /\ \A l \in Servers : y \notin Range(posted'[l])
                       /\ \A l \in Servers : l # k => y \notin Range(handed'[l][v])
                       /\ \A x \in Range(posted'[k]) : Before(y, x)
                       /\ \A l \in Servers, u \in Users :
                             Unrouted(l, u)' => Before(y, handler'[l][u].msg)
    BY <1>7, SMTT(30) DEF HandedInv
  <2>1. CASE y = m /\ k = n /\ v = m.to
    <3>1. \A l \in Servers : l # k => y \notin Range(handed'[l][v])
      BY <1>6, <2>1
    <3>. QED  BY <2>1, <3>1
  <2>2. CASE y \in Range(handed[k][v])
    <3>1. /\ y.number < sent
          /\ \A l \in Servers : y \notin Range(posted[l])
          /\ \A l \in Servers : l # k => y \notin Range(handed[l][v])
          /\ \A x \in Range(posted[k]) : Before(y, x)
          /\ \A l \in Servers, u \in Users :
                Unrouted(l, u) => Before(y, handler[l][u].msg)
      BY <2>2 DEF Inv, HandedInv
    <3>2. y # m
      BY <2>2
    <3>3. \A l \in Servers : l # k => y \notin Range(handed'[l][v])
      BY <1>7, <3>1, <3>2
    <3>. QED  BY <3>1, <3>3
  <2>. QED  BY <1>7, <2>1, <2>2
<1>9. PostedInv'
  <2>. SUFFICES ASSUME NEW k \in Servers, NEW x \in Range(posted'[k])
                PROVE  /\ x.number < sent /\ Peer[x.at] = k
                       /\ \A l \in Servers, u \in Users :
                             Unrouted(l, u)' => Before(x, handler'[l][u].msg)
    BY DEF PostedInv
  <2>1. x \in Range(posted[k])
    OBVIOUS
  <2>2. /\ x.number < sent /\ Peer[x.at] = k
        /\ \A l \in Servers, u \in Users : Unrouted(l, u) => Before(x, handler[l][u].msg)
    BY <2>1 DEF Inv, PostedInv
  <2>. QED  BY <2>2
<1>10. AddressInv'
  <2>. SUFFICES ASSUME NEW k \in Servers, NEW v \in Users, NEW y \in Range(handed'[k][v])
                PROVE  y.to = v
    BY DEF AddressInv
  <2>1. y \in Range(handed[k][v]) => y.to = v
    BY DEF Inv, AddressInv
  <2>2. y \in Range(handed[k][v]) \/ (v = m.to /\ y = m)
    BY <1>7
  <2>. QED  BY <2>1, <2>2
<1>. QED  BY <1>6, <1>8, <1>9, <1>10

(* Everything settled in the session of an unrouted message is older.       *)
LEMMA UnroutedIsNew ==
    ASSUME Inv, NEW n \in Servers, NEW u \in Users, Unrouted(n, u),
           NEW m \in Message, m = handler[n][u].msg
    PROVE  /\ \A k \in Servers, v \in Users :
                 m \notin Range(handed[k][v]) /\ \A y \in Range(handed[k][v]) : Before(y, m)
           /\ \A k \in Servers :
                 m \notin Range(posted[k]) /\ \A y \in Range(posted[k]) : Before(y, m)
<1>1. /\ \A k \in Servers, v \in Users : \A y \in Range(handed[k][v]) : Before(y, m)
      /\ \A k \in Servers : \A y \in Range(posted[k]) : Before(y, m)
  BY SMTT(30) DEF Inv, HandedInv, PostedInv
<1>. QED  BY <1>1, Irreflexive

(* deliver() is called with m or no session is found, and what is lost is   *)
(* a message.                                                               *)
LEMMA DeliverCases ==
    ASSUME Inv, NEW n \in Servers, NEW m \in Message, DeliverAt(n, m)
    PROVE  /\ lost' \subseteq Message
           /\ \/ UNCHANGED handed /\ m.to \notin participants[n]
              \/ handed' = [handed EXCEPT ![n][m.to] = Append(@, m)]
BY DEF DeliverAt, Inv, TypeOK

LEMMA RouteLocalStep ==
    ASSUME Inv, NEW n \in Servers, NEW u \in Users, RouteLocal(n, u)
    PROVE  Inv'
<1>1. /\ handler[n][u] \in Working /\ handler[n][u].stage = "route" /\ call[n] = NoCall
      /\ handler' = [handler EXCEPT ![n][u] = Idle]
      /\ UNCHANGED <<participants, login_server, call, posted, sent, process>>
  BY DEF RouteLocal, LoopRuns, Respond, Inv, TypeOK, Idle
<1>2. PICK m \in Message : m = handler[n][u].msg
  BY <1>1, WorkingTypes
<1>3. m.at = n /\ m.from = u /\ m.number < sent /\ m.to \in Users
  BY <1>1, <1>2, WorkingTypes DEF Inv, Core
<1>4. Unrouted(n, u)
  BY <1>1 DEF Unrouted
<1>5. /\ \A k \in Servers : Core(k)'
      /\ \A k \in Servers, x \in Users :
            Unrouted(k, x)' => Unrouted(k, x) /\ handler'[k][x] = handler[k][x]
      /\ handed' \in [Servers -> [Users -> Seq(Message)]] /\ lost' \subseteq Message => TypeOK'
  BY <1>1, EndsStep DEF Inv, TypeOK
<1>0. /\ lost' \subseteq Message
      /\ \/ UNCHANGED handed
         \/ handed' = [handed EXCEPT ![n][m.to] = Append(@, m)]
  BY <1>2, DeliverCases DEF RouteLocal
<1>6. CASE UNCHANGED handed
  <2>1. TypeOK'
    BY <1>0, <1>5, <1>6 DEF Inv, TypeOK
  <2>. QED  BY <1>1, <1>5, <1>6, <2>1, OrderKept DEF Inv
<1>7. CASE handed' = [handed EXCEPT ![n][m.to] = Append(@, m)]
  <2>1. /\ \A k \in Servers, v \in Users :
              m \notin Range(handed[k][v]) /\ \A y \in Range(handed[k][v]) : Before(y, m)
        /\ \A k \in Servers : m \notin Range(posted[k])
    BY <1>2, <1>4, UnroutedIsNew
  <2>2. \A k \in Servers, x \in Users :
            Unrouted(k, x)' => /\ Unrouted(k, x)
                               /\ handler'[k][x].msg = handler[k][x].msg
                               /\ Before(m, handler[k][x].msg)
    <3>. SUFFICES ASSUME NEW k \in Servers, NEW x \in Users, Unrouted(k, x)'
                  PROVE  Before(m, handler[k][x].msg)
      BY <1>5
    <3>1. ~Unrouted(n, u)'
      BY <1>1 DEF Inv, TypeOK, Unrouted, Idle
    <3>2. handler[k][x] # Idle
      BY <1>5 DEF Unrouted, Idle
    <3>. QED  BY <1>3, <3>1, <3>2 DEF Inv, Core, Before
  <2>3. \A k \in Servers : /\ Range(posted'[k]) \subseteq Range(posted[k])
                           /\ Ordered(posted'[k]) /\ m \notin Range(posted'[k])
    BY <1>1, <2>1 DEF Inv, PostedInv
  <2>4. \A x \in Range(posted'[n]) : Before(m, x)
    BY <1>1, <1>3, PeerAssumption DEF Inv, PostedInv, Before
  <2>5. /\ HandedInv' /\ PostedInv' /\ AddressInv'
        /\ handed' \in [Servers -> [Users -> Seq(Message)]]
    BY <1>1, <1>3, <1>7, <2>1, <2>2, <2>3, <2>4, DeliverOrder, ZenonT(60)
  <2>. QED  BY <1>0, <1>5, <2>5 DEF Inv
<1>. QED  BY <1>0, <1>6, <1>7

(* A call changes its stage only.                                           *)
LEMMA CallMoves ==
    ASSUME Inv, UNCHANGED <<participants, login_server, handler, sent, process>>,
           call' = [k \in Servers |-> call'[k]],
           \A k \in Servers : \/ call'[k] = call[k]
                              \/ /\ call[k] # NoCall
                                 /\ \E s \in {"posted", "replied"} :
                                       call'[k] = [call[k] EXCEPT !.stage = s]
    PROVE  /\ \A k \in Servers : Core(k)'
           /\ \A k \in Servers, x \in Users :
                 Unrouted(k, x)' => Unrouted(k, x) /\ handler'[k][x] = handler[k][x]
           /\ posted' \in [Servers -> Seq(Message)]
              /\ handed' \in [Servers -> [Users -> Seq(Message)]] /\ lost' \subseteq Message => TypeOK'
<1>1. \A k \in Servers :
         /\ call'[k] \in Call \cup {NoCall}
         /\ call'[k] = NoCall <=> call[k] = NoCall
         /\ call[k] # NoCall => call'[k].msg = call[k].msg
         /\ call'[k] = call[k] \/ call'[k].stage \in {"posted", "replied"}
  <2>. TAKE k \in Servers
  <2>1. call[k] \in Call \cup {NoCall}
    BY DEF Inv, TypeOK
  <2>2. CASE call'[k] = call[k]
    BY <2>1, <2>2
  <2>3. ASSUME call[k] # NoCall, NEW s \in {"posted", "replied"},
               call'[k] = [call[k] EXCEPT !.stage = s]
        PROVE  /\ call'[k] \in Call \cup {NoCall}
               /\ call'[k] = NoCall <=> call[k] = NoCall
               /\ call[k] # NoCall => call'[k].msg = call[k].msg
               /\ call'[k] = call[k] \/ call'[k].stage \in {"posted", "replied"}
    <3>1. PICK c \in Call : c = call[k]
      BY <2>1, <2>3
    <3>2. [c EXCEPT !.stage = s] \in Call /\ [c EXCEPT !.stage = s].stage = s
          /\ [c EXCEPT !.stage = s].msg = c.msg
      <4>1. s \in {"wire", "posted", "replied", "lost"}
        OBVIOUS
      <4>. QED  BY <4>1, CallStage, Zenon
    <3>3. [c EXCEPT !.stage = s] # NoCall
      BY <3>2, CallTypes
    <3>. QED  BY <2>3, <3>1, <3>2, <3>3
  <2>. QED  BY <2>2, <2>3
<1>2. call' \in [Servers -> Call \cup {NoCall}]
  BY <1>1
<1>3. \A k \in Servers : SameShape(k)
  BY <1>1 DEF SameShape
<1>4. \A k \in Servers : Core(k)'
  BY <1>3, CoreKept DEF Inv
<1>5. \A k \in Servers, x \in Users :
          Unrouted(k, x)' => Unrouted(k, x) /\ handler'[k][x] = handler[k][x]
  BY <1>1 DEF Unrouted
<1>6. posted' \in [Servers -> Seq(Message)]
      /\ handed' \in [Servers -> [Users -> Seq(Message)]] /\ lost' \subseteq Message => TypeOK'
  BY <1>2, <1>4 DEF Inv, TypeOK, Core, process
<1>. QED  BY <1>4, <1>5, <1>6

LEMMA NotifyPostedStep ==
    ASSUME Inv, NEW n \in Servers, NotifyPosted(n)
    PROVE  Inv'
<1>1. /\ call[n] \in Call /\ call[n] # NoCall /\ call[n].stage = "wire"
      /\ call' = [call EXCEPT ![n].stage = "posted"]
      /\ posted' = [posted EXCEPT ![Peer[n]] = Append(@, call[n].msg)]
      /\ UNCHANGED <<participants, login_server, handler, handed, lost, sent, process>>
  BY DEF NotifyPosted, Inv, TypeOK
<1>2. PICK m \in Message : m = call[n].msg
  BY <1>1, CallTypes
<1>3. PICK u \in Users : u = m.from
  BY DEF Message
<1>4. handler[n][u] # Idle /\ handler[n][u].msg = m /\ handler[n][u].stage = "rpc"
      /\ m.at = n /\ m.number < sent
  BY <1>1, <1>2, <1>3 DEF Inv, Core
<1>5. Unrouted(n, u)
  BY <1>1, <1>4 DEF Unrouted
<1>6. /\ \A k \in Servers, v \in Users :
            m \notin Range(handed[k][v]) /\ \A y \in Range(handed[k][v]) : Before(y, m)
      /\ \A k \in Servers :
            m \notin Range(posted[k]) /\ \A y \in Range(posted[k]) : Before(y, m)
  BY <1>4, <1>5, UnroutedIsNew
<1>7. PICK p \in Servers : p = Peer[n]
  BY PeerAssumption
<1>8. PICK s \in Seq(Message) : s = posted[p]
  BY DEF Inv, TypeOK
<1>9. PICK t : t = Append(s, m)
  OBVIOUS
<1>10. t \in Seq(Message) /\ Range(t) = Range(s) \cup {m} /\ Ordered(t)
  <2>1. Ordered(s)
    BY <1>8 DEF Inv, PostedInv
  <2>. QED  BY <1>6, <1>8, <1>9, <2>1, AppendOrdered
<1>11. /\ posted' \in [Servers -> Seq(Message)] /\ posted'[p] = t
       /\ \A k \in Servers : k # p => posted'[k] = posted[k]
  <2>1. posted' = [posted EXCEPT ![p] = t]
    BY <1>1, <1>2, <1>7, <1>8, <1>9
  <2>. QED  BY <1>10, <2>1 DEF Inv, TypeOK
<1>12. \A k \in Servers :
          /\ Ordered(posted'[k])
          /\ \A x \in Range(posted'[k]) : x \in Range(posted[k]) \/ (x = m /\ k = p)
  BY <1>8, <1>10, <1>11 DEF Inv, PostedInv
<1>13. /\ call' = [k \in Servers |-> call'[k]]
       /\ call'[n] = [call[n] EXCEPT !.stage = "posted"]
       /\ \A k \in Servers : k # n => call'[k] = call[k]
  BY <1>1 DEF Inv, TypeOK
<1>14. /\ \A k \in Servers : Core(k)'
       /\ \A k \in Servers, x \in Users :
             Unrouted(k, x)' => Unrouted(k, x) /\ handler'[k][x] = handler[k][x]
       /\ TypeOK'
  <2>1. \A k \in Servers : \/ call'[k] = call[k]
                           \/ /\ call[k] # NoCall
                              /\ \E z \in {"posted", "replied"} :
                                    call'[k] = [call[k] EXCEPT !.stage = z]
    BY <1>1, <1>13, Zenon
  <2>2. handed' \in [Servers -> [Users -> Seq(Message)]] /\ lost' \subseteq Message
    BY <1>1, SMTT(30) DEF Inv, TypeOK
  <2>. QED  BY <1>1, <1>11, <1>13, <2>1, <2>2, CallMoves
<1>15. \A k \in Servers, x \in Users : Unrouted(k, x)' => Before(m, handler[k][x].msg)
  <2>. SUFFICES ASSUME NEW k \in Servers, NEW x \in Users, Unrouted(k, x)'
                PROVE  Before(m, handler[k][x].msg)
    OBVIOUS
  <2>1. call'[n].stage = "posted"
    BY <1>1, <1>13, CallStage
  <2>2. ~Unrouted(n, u)'
    BY <1>1, <1>4, <2>1 DEF Unrouted
  <2>3. handler[k][x] # Idle
    BY <1>14 DEF Unrouted, Idle
  <2>. QED  BY <1>3, <1>4, <2>2, <2>3 DEF Inv, Core, Before
<1>16. PostedInv'
  <2>. SUFFICES ASSUME NEW k \in Servers, NEW x \in Range(posted'[k])
                PROVE  /\ x.number < sent /\ Peer[x.at] = k
                       /\ \A l \in Servers, v \in Users :
                             Unrouted(l, v)' => Before(x, handler[l][v].msg)
    BY <1>1, <1>12 DEF PostedInv
  <2>1. CASE x = m /\ k = p
    BY <1>4, <1>7, <1>15, <2>1
  <2>2. CASE x \in Range(posted[k])
    BY <1>14, <2>2 DEF Inv, PostedInv
  <2>. QED  BY <1>12, <2>1, <2>2
<1>17. HandedInv'
  <2>. SUFFICES ASSUME NEW k \in Servers, NEW v \in Users, NEW y \in Range(handed[k][v])
                PROVE  /\ \A l \in Servers : y \notin Range(posted'[l])
                       /\ \A x \in Range(posted'[k]) : Before(y, x)
                       /\ \A l \in Servers, x \in Users :
                             Unrouted(l, x)' => Before(y, handler[l][x].msg)
    BY <1>1, ZenonT(60) DEF Inv, HandedInv
  <2>1. y # m /\ Before(y, m)
    BY <1>6
  <2>2. /\ \A l \in Servers : y \notin Range(posted[l])
        /\ \A x \in Range(posted[k]) : Before(y, x)
        /\ \A l \in Servers, x \in Users : Unrouted(l, x) => Before(y, handler[l][x].msg)
    BY DEF Inv, HandedInv
  <2>. QED  BY <1>12, <1>14, <2>1, <2>2
<1>18. AddressInv'
  BY <1>1 DEF Inv, AddressInv
<1>. QED  BY <1>14, <1>16, <1>17, <1>18 DEF Inv

LEMMA NotifyStep ==
    ASSUME Inv, NEW n \in Servers, Notify(n)
    PROVE  Inv'
<1>1. /\ posted[n] # <<>> /\ posted' = [posted EXCEPT ![n] = Tail(@)]
      /\ DeliverAt(n, Head(posted[n])) /\ Finish(Head(posted[n]))
      /\ UNCHANGED <<participants, login_server, handler, sent, process>>
  BY DEF Notify
<1>2. PICK s \in Seq(Message) : s = posted[n]
  BY DEF Inv, TypeOK
<1>3. s # <<>> /\ Ordered(s)
  BY <1>1, <1>2 DEF Inv, PostedInv
<1>4. PICK m \in Message : m = Head(posted[n])
  BY <1>2, <1>3, TailOrdered
<1>5. /\ m \in Range(posted[n])
      /\ Tail(s) \in Seq(Message) /\ Range(Tail(s)) \subseteq Range(s)
      /\ Ordered(Tail(s)) /\ \A x \in Range(Tail(s)) : Before(m, x)
  BY <1>2, <1>3, <1>4, TailOrdered
<1>6. /\ posted' \in [Servers -> Seq(Message)] /\ posted'[n] = Tail(s)
      /\ \A k \in Servers : k # n => posted'[k] = posted[k]
  BY <1>1, <1>2, <1>5 DEF Inv, TypeOK
<1>7. \A k \in Servers : /\ Range(posted'[k]) \subseteq Range(posted[k])
                         /\ Ordered(posted'[k]) /\ m \notin Range(posted'[k])
  <2>. TAKE k \in Servers
  <2>1. CASE k = n
    BY <1>2, <1>5, <1>6, <2>1, Irreflexive
  <2>2. CASE k # n
    <3>1. Peer[m.at] = n /\ Ordered(posted[k])
      BY <1>5 DEF Inv, PostedInv
    <3>2. \A x \in Range(posted[k]) : Peer[x.at] = k
      BY DEF Inv, PostedInv
    <3>. QED  BY <1>6, <2>2, <3>1, <3>2
  <2>. QED  BY <2>1, <2>2
<1>8. /\ call' = [k \in Servers |-> call'[k]]
      /\ \A k \in Servers : \/ call'[k] = call[k]
                             \/ /\ call[k] # NoCall
                                /\ \E z \in {"posted", "replied"} :
                                      call'[k] = [call[k] EXCEPT !.stage = z]
  BY <1>1 DEF Finish
<1>9. /\ \A k \in Servers : Core(k)'
      /\ \A k \in Servers, x \in Users :
            Unrouted(k, x)' => Unrouted(k, x) /\ handler'[k][x] = handler[k][x]
      /\ handed' \in [Servers -> [Users -> Seq(Message)]] /\ lost' \subseteq Message => TypeOK'
  BY <1>1, <1>6, <1>8, CallMoves
<1>0. /\ lost' \subseteq Message
      /\ \/ UNCHANGED handed
         \/ handed' = [handed EXCEPT ![n][m.to] = Append(@, m)]
  BY <1>1, <1>4, DeliverCases
<1>10. CASE UNCHANGED handed
  <2>1. TypeOK'
    BY <1>0, <1>9, <1>10 DEF Inv, TypeOK
  <2>2. HandedInv' /\ PostedInv' /\ AddressInv'
    BY <1>1, <1>7, <1>9, <1>10, OrderKept
  <2>. QED  BY <1>9, <2>1, <2>2 DEF Inv
<1>11. CASE handed' = [handed EXCEPT ![n][m.to] = Append(@, m)]
  <2>1. m.number < sent
        /\ \A k \in Servers, x \in Users : Unrouted(k, x) => Before(m, handler[k][x].msg)
    BY <1>5 DEF Inv, PostedInv
  <2>2. \A k \in Servers, v \in Users : m \notin Range(handed[k][v])
    BY <1>5 DEF Inv, HandedInv
  <2>3. \A y \in Range(handed[n][m.to]) : Before(y, m)
    BY <1>5 DEF Inv, HandedInv, Message
  <2>4. \A x \in Range(posted'[n]) : Before(m, x)
    BY <1>5, <1>6
  <2>5. \A k \in Servers, x \in Users :
            Unrouted(k, x)' => /\ Unrouted(k, x)
                               /\ handler'[k][x].msg = handler[k][x].msg
                               /\ Before(m, handler[k][x].msg)
    BY <1>9, <2>1
  <2>6. /\ HandedInv' /\ PostedInv' /\ AddressInv'
        /\ handed' \in [Servers -> [Users -> Seq(Message)]]
    BY <1>1, <1>7, <1>11, <2>1, <2>2, <2>3, <2>4, <2>5, DeliverOrder
  <2>. QED  BY <1>0, <1>9, <2>6 DEF Inv
<1>. QED  BY <1>0, <1>10, <1>11

---------------------------------------------------------------------------
LEMMA InitInv == Init => Inv
<1>. SUFFICES ASSUME Init PROVE Inv
  OBVIOUS
<1>1. <<>> \in Seq(Message) /\ Range(<<>>) = {} /\ Ordered(<<>>)
  BY DEF Range, Ordered
<1>2. /\ \A n \in Servers, u \in Users : handler[n][u] = Idle /\ handed[n][u] = <<>>
      /\ \A n \in Servers : call[n] = NoCall /\ posted[n] = <<>>
  BY DEF Init
<1>3. \A n \in Servers : Core(n)
  BY <1>2 DEF Core, Idle
<1>4. TypeOK
  <2>1. participants \in [Servers -> SUBSET Users] /\ stopping \in [Servers -> BOOLEAN]
    BY DEF Init
  <2>2. handler \in [Servers -> [Users -> Working \cup {Idle}]]
        /\ call \in [Servers -> Call \cup {NoCall}]
    BY DEF Init
  <2>3. posted \in [Servers -> Seq(Message)]
        /\ handed \in [Servers -> [Users -> Seq(Message)]]
    BY <1>1 DEF Init
  <2>. QED  BY <1>3, <2>1, <2>2, <2>3 DEF Init, TypeOK, Core
<1>5. HandedInv /\ PostedInv /\ AddressInv
  BY <1>1, <1>2 DEF HandedInv, PostedInv, AddressInv
<1>. QED  BY <1>3, <1>4, <1>5 DEF Inv

LEMMA NextInv == Inv /\ [Next]_vars => Inv'
<1>. SUFFICES ASSUME Inv, [Next]_vars PROVE Inv'
  OBVIOUS
<1>1. CASE UNCHANGED vars
  <2>. USE <1>1 DEF vars, Inv
  <2>1. TypeOK'
    BY DEF TypeOK
  <2>2. \A n \in Servers : Core(n)'
    BY DEF Core
  <2>3. HandedInv' /\ PostedInv' /\ AddressInv'
    BY DEF HandedInv, PostedInv, AddressInv, Unrouted
  <2>. QED  BY <2>1, <2>2, <2>3
<1>2. CASE Clients
  BY <1>2, LoginStep, RequestStep DEF Clients
<1>3. ASSUME NEW n \in Servers, NEW u \in Users, Handle(n, u) PROVE Inv'
  BY <1>3, LookupStep, RespondStep, RouteLocalStep, RoutePeerStep DEF Handle
<1>4. ASSUME NEW n \in Servers,
             NotifyPosted(n) \/ Notify(n) \/ CallReturns(n) \/ CallBreaks(n)
      PROVE  Inv'
  BY <1>4, NotifyPostedStep, NotifyStep, RespondStep
<1>5. ASSUME NEW n \in Servers, Crash(n) \/ Signal(n) \/ Exit(n) PROVE Inv'
  BY <1>5, SignalStep, RestartStep
<1>. QED  BY <1>1, <1>2, <1>3, <1>4, <1>5 DEF Next

LEMMA Invariance == Spec => []Inv
BY InitInv, NextInv, PTL DEF Spec

(* The servers are well typed: among others a handler is in its rpc exactly *)
(* when its message is the one whose call blocks the server's thread.       *)
THEOREM Typed == Spec => []TypeOK
<1>1. Inv => TypeOK
  BY DEF Inv
<1>. QED  BY <1>1, Invariance, PTL

(* A session receives the notifications of another in the order of the      *)
(* requests and nobody receives one twice, for any number of servers, users *)
(* and requests, and whichever calls break and servers stop.                *)
THEOREM InOrder == Spec => []InOrderAtMostOnce
<1>1. Inv => InOrderAtMostOnce
  <2>. SUFFICES ASSUME Inv PROVE InOrderAtMostOnce
    OBVIOUS
  <2>1. \A n \in Servers, v \in Users : Ordered(handed[n][v])
    BY DEF Inv, HandedInv
  <2>2. \A n, m \in Servers, v \in Users :
           n # m => Handed(n, v) \cap Handed(m, v) = {}
    BY SMTT(30) DEF Inv, HandedInv, Handed
  <2>. QED  BY <2>1, <2>2 DEF InOrderAtMostOnce, Ordered, Before
<1>. QED  BY <1>1, Invariance, PTL

---------------------------------------------------------------------------
(* What a handler relies on when its addressee has stayed reachable: the    *)
(* login server it has read is not stale, and a reply means delivery.       *)
Reach(n, u) ==
    handler[n][u] # Idle =>
        LET to == handler[n][u].msg.to IN
        /\ handler[n][u].stage = "rpc" => handler[n][u].target \notin {n, NoServer}
        /\ handler[n][u].reachable =>
              /\ login_server[to] \in Servers /\ to \in participants[login_server[to]]
              /\ handler[n][u].stage \in {"route", "rpc"} =>
                    handler[n][u].target = login_server[to]
              /\ handler[n][u].stage = "rpc" /\ call[n].stage = "replied" =>
                    handler[n][u].msg \in Range(handed[Peer[n]][to])

ReachInv == \A n \in Servers, u \in Users : Reach(n, u)

(* A request that goes on as it was.                                        *)
LEMMA ReachKept ==
    ASSUME NEW k \in Servers, NEW x \in Users, Reach(k, x),
           handler'[k][x] # Idle =>
               /\ handler[k][x] # Idle
               /\ handler'[k][x].stage = handler[k][x].stage
               /\ handler'[k][x].msg = handler[k][x].msg
               /\ handler'[k][x].target = handler[k][x].target
               /\ handler'[k][x].reachable =>
                     LET to == handler[k][x].msg.to IN
                     /\ handler[k][x].reachable
                     /\ login_server'[to] = login_server[to]
                     /\ to \in participants[login_server[to]] =>
                           to \in participants'[login_server[to]]
                     /\ handler[k][x].stage = "rpc" /\ call'[k].stage = "replied" =>
                           \/ /\ call[k].stage = "replied"
                              /\ Range(handed[Peer[k]][to]) \subseteq Range(handed'[Peer[k]][to])
                           \/ handler[k][x].msg \in Range(handed'[Peer[k]][to])
    PROVE  Reach(k, x)'
BY DEF Reach

(* Most steps leave what a handler relies on alone.                         *)
LEMMA ReachSame ==
    ASSUME NEW k \in Servers, NEW x \in Users, Reach(k, x),
           handler'[k][x] = handler[k][x],
           UNCHANGED <<participants, login_server, handed>>,
           handler[k][x].stage = "rpc" => call'[k] = call[k]
    PROVE  Reach(k, x)'
BY DEF Reach

LEMMA LoginReach ==
    ASSUME Inv, ReachInv, NEW n \in Servers, NEW u \in Users, Login(n, u) \/ Logout(n, u)
    PROVE  ReachInv'
<1>. SUFFICES ASSUME NEW k \in Servers, NEW x \in Users PROVE Reach(k, x)'
  BY DEF ReachInv
<1>1. AddresseeMoves(u) /\ UNCHANGED <<call, handed>> /\ Reach(k, x)
  BY DEF Login, Logout, ReachInv
<1>2. handler'[k][x] = IF handler[k][x] # Idle /\ handler[k][x].msg.to = u
                       THEN [handler[k][x] EXCEPT !.reachable = FALSE]
                       ELSE handler[k][x]
  BY <1>1 DEF AddresseeMoves
<1>3. PICK h \in Working \cup {Idle} : h = handler[k][x]
  BY DEF Inv, TypeOK
<1>4. CASE handler[k][x] # Idle /\ handler[k][x].msg.to = u
  <2>1. PICK g : g = [h EXCEPT !.reachable = FALSE]
    OBVIOUS
  <2>2. g.stage = h.stage /\ g.msg = h.msg /\ g.target = h.target /\ g.reachable = FALSE
    BY <1>3, <1>4, <2>1, WorkingUnreachable
  <2>3. handler'[k][x] = g
    BY <1>2, <1>3, <1>4, <2>1
  <2>. QED  BY <1>1, <1>3, <1>4, <2>2, <2>3 DEF Reach
<1>5. CASE handler[k][x] # Idle /\ handler[k][x].msg.to # u
  <2>1. handler'[k][x] = handler[k][x] /\ handler[k][x].msg.to \in Users
    BY <1>2, <1>3, <1>5, WorkingTypes
  <2>2. \A v \in Users : v # u =>
           /\ login_server'[v] = login_server[v]
           /\ \A l \in Servers : v \in participants[l] => v \in participants'[l]
    BY ZenonT(60) DEF Login, Logout, Inv, TypeOK
  <2>. QED  BY <1>1, <1>5, <2>1, <2>2 DEF Reach
<1>6. CASE handler[k][x] = Idle
  BY <1>2, <1>6 DEF Reach
<1>. QED  BY <1>4, <1>5, <1>6

LEMMA RequestReach ==
    ASSUME Inv, ReachInv, NEW n \in Servers, NEW u \in Users, NEW v \in Users,
           Request(n, u, v)
    PROVE  ReachInv'
<1>1. /\ UNCHANGED <<participants, login_server, call, handed>>
      /\ \A k \in Servers, x \in Users :
            k # n \/ x # u => handler'[k][x] = handler[k][x]
  BY DEF Request, Inv, TypeOK
<1>2. PICK b \in BOOLEAN : b = (\E k \in Servers : login_server[v] = k /\ v \in participants[k])
  OBVIOUS
<1>3. handler'[n][u].stage = "lookup" /\ handler'[n][u].msg.to = v
      /\ handler'[n][u].reachable = b
  BY <1>2 DEF Request, Inv, TypeOK
<1>4. Reach(n, u)'
  BY <1>1, <1>2, <1>3 DEF Reach
<1>. QED  BY <1>1, <1>4, ReachSame DEF ReachInv

LEMMA LookupReach ==
    ASSUME Inv, ReachInv, NEW n \in Servers, NEW u \in Users,
           Lookup(n, u) \/ LookupFails(n, u)
    PROVE  ReachInv'
<1>1. /\ UNCHANGED <<participants, login_server, call, handed>>
      /\ handler[n][u] \in Working /\ handler[n][u].stage = "lookup"
      /\ \A k \in Servers, x \in Users :
            k # n \/ x # u => handler'[k][x] = handler[k][x]
  BY SMTT(30) DEF Lookup, LookupFails, Inv, TypeOK, Idle
<1>2. PICK h \in Working : h = handler[n][u]
  BY <1>1
<1>3. CASE Lookup(n, u)
  <2>1. PICK g : g = [[h EXCEPT !.stage = "route"] EXCEPT !.target = login_server[h.msg.to]]
    OBVIOUS
  <2>2. g.stage = "route" /\ g.msg = h.msg /\ g.target = login_server[h.msg.to]
        /\ g.reachable = h.reachable
    BY <2>1, Zenon DEF Working
  <2>3. handler'[n][u] = g
    BY <1>2, <1>3, <2>1 DEF Lookup, Inv, TypeOK
  <2>4. Reach(n, u)'
    BY <1>1, <1>2, <2>2, <2>3, WorkingTypes DEF ReachInv, Reach
  <2>. QED  BY <1>1, <2>4, ReachSame DEF ReachInv
<1>4. CASE LookupFails(n, u)
  <2>1. handler'[n][u].stage = "route" /\ handler'[n][u].reachable = FALSE
    BY <1>1, <1>4 DEF LookupFails, Inv, TypeOK, Working
  <2>2. Reach(n, u)'
    BY <2>1 DEF Reach
  <2>. QED  BY <1>1, <2>2, ReachSame DEF ReachInv
<1>. QED  BY <1>3, <1>4

LEMMA HandedGrows ==
    ASSUME Inv, NEW n \in Servers, NEW m \in Message, DeliverAt(n, m)
    PROVE  /\ \A k \in Servers, v \in Users : Range(handed[k][v]) \subseteq Range(handed'[k][v])
           /\ m.to \in participants[n] => m \in Range(handed'[n][m.to])
<1>1. CASE UNCHANGED handed /\ m.to \notin participants[n]
  BY <1>1
<1>2. CASE handed' = [handed EXCEPT ![n][m.to] = Append(@, m)]
  <2>1. m.to \in Users /\ handed \in [Servers -> [Users -> Seq(Message)]]
    BY DEF Message, Inv, TypeOK
  <2>2. PICK s \in Seq(Message) : s = handed[n][m.to]
    BY <2>1
  <2>3. Range(Append(s, m)) = Range(s) \cup {m}
    BY AppendOrdered
  <2>4. /\ handed'[n][m.to] = Append(s, m)
        /\ \A k \in Servers, v \in Users :
              k # n \/ v # m.to => handed'[k][v] = handed[k][v]
    BY <1>2, <2>1, <2>2
  <2>. QED  BY <2>2, <2>3, <2>4
<1>. QED  BY <1>1, <1>2, DeliverCases

(* A handler that has ended relies on nothing, and the others on what they  *)
(* did.                                                                     *)
LEMMA RespondReach ==
    ASSUME Inv, ReachInv, NEW n \in Servers,
           \/ \E u \in Users : HandlerFails(n, u) \/ RouteNowhere(n, u) \/ RouteLocal(n, u)
           \/ CallReturns(n) \/ CallBreaks(n)
    PROVE  ReachInv'
<1>1. PICK u \in Users :
         /\ handler' = [handler EXCEPT ![n][u] = Idle]
         /\ \/ call[n] = NoCall /\ UNCHANGED call
            \/ /\ call[n] # NoCall /\ u = call[n].msg.from
               /\ call' = [call EXCEPT ![n] = NoCall]
  <2>1. CASE CallReturns(n) \/ CallBreaks(n)
    <3>1. call[n] # NoCall /\ Respond(n, call[n].msg.from)
          /\ call' = [call EXCEPT ![n] = NoCall]
      BY <2>1 DEF CallReturns, CallBreaks
    <3>2. call[n].msg.from \in Users
      BY <3>1, CallTypes DEF Inv, TypeOK
    <3>. QED  BY <3>1, <3>2 DEF Respond
  <2>2. CASE \E u \in Users : HandlerFails(n, u) \/ RouteNowhere(n, u) \/ RouteLocal(n, u)
    BY <2>2 DEF HandlerFails, RouteNowhere, RouteLocal, Respond, LoopRuns
  <2>. QED  BY <2>1, <2>2
<1>2. UNCHANGED <<participants, login_server>>
      /\ \A k \in Servers, v \in Users : Range(handed[k][v]) \subseteq Range(handed'[k][v])
  <2>1. CASE UNCHANGED handed
    BY <2>1 DEF HandlerFails, RouteNowhere, RouteLocal, CallReturns, CallBreaks
  <2>2. ASSUME NEW x \in Users, RouteLocal(n, x)
        PROVE  UNCHANGED <<participants, login_server>>
               /\ \A k \in Servers, v \in Users :
                     Range(handed[k][v]) \subseteq Range(handed'[k][v])
    <3>1. handler[n][x] \in Working
      BY <2>2 DEF RouteLocal, Inv, TypeOK, Idle
    <3>2. PICK m \in Message : m = handler[n][x].msg
      BY <3>1, WorkingTypes
    <3>. QED  BY <2>2, <3>2, HandedGrows DEF RouteLocal
  <2>. QED  BY <2>1, <2>2 DEF HandlerFails, RouteNowhere, CallReturns, CallBreaks
<1>3. ASSUME NEW k \in Servers, NEW x \in Users
      PROVE  Reach(k, x)'
  <2>1. CASE k = n /\ x = u
    BY <1>1, <2>1, SMTT(30) DEF Reach, Inv, TypeOK
  <2>2. CASE ~(k = n /\ x = u)
    <3>1. handler'[k][x] = handler[k][x]
      BY <1>1, <2>2 DEF Inv, TypeOK
    <3>2. handler[k][x].stage = "rpc" => call'[k] = call[k]
      <4>1. CASE k # n
        BY <1>1, <4>1 DEF Inv, TypeOK
      <4>2. CASE k = n /\ handler[n][x].stage = "rpc"
        <5>1. call[n] # NoCall /\ call[n].msg = handler[n][x].msg
              /\ handler[n][x].msg.from = x
          BY <4>2 DEF Inv, Core, TypeOK
        <5>. QED  BY <1>1, <2>2, <4>2, <5>1
      <4>. QED  BY <4>1, <4>2
    <3>3. handler[k][x] # Idle => handler[k][x].msg.to \in Users /\ Peer[k] \in Servers
      BY WorkingTypes, PeerAssumption DEF Inv, TypeOK
    <3>4. handler'[k][x] # Idle =>
             Range(handed[Peer[k]][handler[k][x].msg.to])
               \subseteq Range(handed'[Peer[k]][handler[k][x].msg.to])
      BY <1>2, <3>1, <3>3
    <3>. QED  BY <1>2, <3>1, <3>2, <3>4, ReachKept DEF ReachInv
  <2>. QED  BY <2>1, <2>2
<1>. QED  BY <1>3 DEF ReachInv

LEMMA RoutePeerReach ==
    ASSUME Inv, ReachInv, NEW n \in Servers, NEW u \in Users, RoutePeer(n, u)
    PROVE  ReachInv'
<1>1. /\ handler[n][u] \in Working /\ handler[n][u].stage = "route" /\ call[n] = NoCall
      /\ handler[n][u].target \notin {n, NoServer}
      /\ UNCHANGED <<participants, login_server, handed>>
      /\ call'[n].stage = "wire"
      /\ \A k \in Servers : k # n => call'[k] = call[k]
      /\ \A k \in Servers, x \in Users :
            k # n \/ x # u => handler'[k][x] = handler[k][x]
  BY DEF RoutePeer, LoopRuns, Inv, TypeOK, Idle
<1>2. PICK h \in Working : h = handler[n][u]
  BY <1>1
<1>3. PICK g : g = [h EXCEPT !.stage = "rpc"]
  OBVIOUS
<1>4. g.stage = "rpc" /\ g.msg = h.msg /\ g.target = h.target /\ g.reachable = h.reachable
  BY <1>3, WorkingStage, Zenon
<1>5. handler'[n][u] = g
  BY <1>2, <1>3 DEF RoutePeer, Inv, TypeOK
<1>6. Reach(n, u)'
  BY <1>1, <1>2, <1>4, <1>5, WorkingTypes DEF ReachInv, Reach
<1>7. \A x \in Users : handler[n][x].stage # "rpc"
  BY <1>1 DEF Inv, Core
<1>. QED  BY <1>1, <1>6, <1>7, ReachSame DEF ReachInv

LEMMA NotifyPostedReach ==
    ASSUME Inv, ReachInv, NEW n \in Servers, NotifyPosted(n)
    PROVE  ReachInv'
<1>1. /\ UNCHANGED <<participants, login_server, handler, handed>>
      /\ \A k \in Servers : k # n => call'[k] = call[k]
      /\ call[n] \in Call /\ call'[n] = [call[n] EXCEPT !.stage = "posted"]
  BY DEF NotifyPosted, Inv, TypeOK
<1>2. call'[n].stage = "posted"
  BY <1>1, CallStage
<1>3. \A k \in Servers : call'[k].stage = "replied" => call[k].stage = "replied"
  BY <1>1, <1>2
<1>. QED  BY <1>1, <1>3 DEF ReachInv, Reach

(* The coroutine that answers a call has looked for the session where the   *)
(* caller expects it.                                                       *)
LEMMA NotifyReach ==
    ASSUME Inv, ReachInv, NEW n \in Servers, Notify(n),
           \A k \in Servers : Servers = {k, Peer[k]}
    PROVE  ReachInv'
<1>1. /\ posted[n] # <<>> /\ DeliverAt(n, Head(posted[n])) /\ Finish(Head(posted[n]))
      /\ UNCHANGED <<participants, login_server, handler>>
  BY DEF Notify
<1>2. PICK s \in Seq(Message) : s = posted[n]
  BY DEF Inv, TypeOK
<1>3. s # <<>> /\ Ordered(s)
  BY <1>1, <1>2 DEF Inv, PostedInv
<1>4. PICK m \in Message : m = Head(posted[n])
  BY <1>2, <1>3, TailOrdered
<1>5. m \in Range(posted[n]) /\ Peer[m.at] = n
  BY <1>2, <1>3, <1>4, TailOrdered DEF Inv, PostedInv
<1>6. /\ \A k \in Servers, v \in Users : Range(handed[k][v]) \subseteq Range(handed'[k][v])
      /\ m.to \in participants[n] => m \in Range(handed'[n][m.to])
  BY <1>1, <1>4, HandedGrows
<1>7. ASSUME NEW k \in Servers, NEW x \in Users
      PROVE  Reach(k, x)'
  <2>. SUFFICES ASSUME handler[k][x] # Idle, handler[k][x].reachable,
                       handler[k][x].stage = "rpc", call'[k].stage = "replied"
                PROVE  handler[k][x].msg \in Range(handed'[Peer[k]][handler[k][x].msg.to])
    BY <1>1 DEF ReachInv, Reach
  <2>1. handler[k][x].msg.to \in Users /\ Peer[k] \in Servers
    BY WorkingTypes, PeerAssumption DEF Inv, TypeOK
  <2>2. CASE call'[k] = call[k]
    <3>1. handler[k][x].msg \in Range(handed[Peer[k]][handler[k][x].msg.to])
      BY <2>2 DEF ReachInv, Reach
    <3>. QED  BY <1>6, <2>1, <3>1
  <2>3. CASE call'[k] # call[k]
    <3>1. call[k].msg = m
      BY <1>1, <1>4, <2>3 DEF Finish
    <3>2. handler[k][x].msg = m /\ m.at = k
      BY <3>1 DEF Inv, Core
    <3>3. handler[k][x].target = login_server[m.to] /\ login_server[m.to] \in Servers
          /\ m.to \in participants[login_server[m.to]] /\ handler[k][x].target # k
      BY <3>2 DEF ReachInv, Reach
    <3>4. login_server[m.to] = n
      BY <1>5, <3>2, <3>3
    <3>. QED  BY <1>5, <1>6, <3>2, <3>3, <3>4
  <2>. QED  BY <2>2, <2>3
<1>. QED  BY <1>7 DEF ReachInv

LEMMA RestartReach ==
    ASSUME Inv, ReachInv, NEW n \in Servers, Crash(n) \/ Exit(n)
    PROVE  ReachInv'
<1>1. Restart(n)
  BY DEF Crash, Exit
<1>2. UNCHANGED <<login_server, handed>>
      /\ \A k \in Servers : k # n => participants'[k] = participants[k]
  BY <1>1 DEF Restart, Inv, TypeOK
<1>3. ASSUME NEW u \in Users
      PROVE  Reach(n, u)'
  BY <1>1 DEF Restart, Reach
<1>4. ASSUME NEW k \in Servers \ {n}, NEW x \in Users
      PROVE  Reach(k, x)'
  <2>1. handler'[k][x] = IF handler[k][x] # Idle /\ handler[k][x].msg.to \in participants[n]
                         THEN [handler[k][x] EXCEPT !.reachable = FALSE]
                         ELSE handler[k][x]
    BY <1>1 DEF Restart
  <2>2. PICK h \in Working \cup {Idle} : h = handler[k][x]
    BY DEF Inv, TypeOK
  <2>3. CASE handler[k][x] # Idle /\ handler[k][x].msg.to \in participants[n]
    <3>1. PICK g : g = [h EXCEPT !.reachable = FALSE]
      OBVIOUS
    <3>2. g.stage = h.stage /\ g.msg = h.msg /\ g.target = h.target /\ g.reachable = FALSE
      BY <2>2, <2>3, <3>1, WorkingUnreachable
    <3>3. handler'[k][x] = g
      BY <2>1, <2>2, <2>3, <3>1
    <3>. QED  BY <2>2, <2>3, <3>2, <3>3 DEF ReachInv, Reach
  <2>4. CASE handler[k][x] # Idle /\ handler[k][x].msg.to \notin participants[n]
    <3>1. handler'[k][x] = handler[k][x]
      BY <2>1, <2>4
    <3>2. call'[k] = call[k] \/ call'[k].stage # "replied"
      <4>1. call[k] \in Call \cup {NoCall}
        BY DEF Inv, TypeOK
      <4>2. \/ call'[k] = call[k]
            \/ call[k] # NoCall /\ call'[k] = [call[k] EXCEPT !.stage = "lost"]
        BY <1>1 DEF Restart
      <4>. QED  BY <4>1, <4>2, CallStage
    <3>. QED  BY <1>2, <2>4, <3>1, <3>2 DEF ReachInv, Reach
  <2>5. CASE handler[k][x] = Idle
    BY <2>1, <2>5 DEF Reach
  <2>. QED  BY <2>3, <2>4, <2>5
<1>. QED  BY <1>3, <1>4 DEF ReachInv

LEMMA ReachInvariance ==
    ASSUME \A n \in Servers : Servers = {n, Peer[n]}
    PROVE  Spec => []ReachInv
<1>1. Init => ReachInv
  BY DEF Init, ReachInv, Reach
<1>2. Inv /\ ReachInv /\ [Next]_vars => ReachInv'
  <2>. SUFFICES ASSUME Inv, ReachInv, [Next]_vars PROVE ReachInv'
    OBVIOUS
  <2>1. CASE UNCHANGED vars
    BY <2>1 DEF vars, ReachInv, Reach
  <2>2. CASE Clients
    BY <2>2, LoginReach, RequestReach DEF Clients
  <2>3. ASSUME NEW n \in Servers, NEW u \in Users, Handle(n, u) PROVE ReachInv'
    BY <2>3, LookupReach, RespondReach, RoutePeerReach DEF Handle
  <2>4. ASSUME NEW n \in Servers,
               NotifyPosted(n) \/ Notify(n) \/ CallReturns(n) \/ CallBreaks(n)
        PROVE  ReachInv'
    BY <2>4, NotifyPostedReach, NotifyReach, RespondReach
  <2>5. ASSUME NEW n \in Servers, Signal(n) PROVE ReachInv'
    BY <2>5 DEF Signal, ReachInv, Reach
  <2>6. ASSUME NEW n \in Servers, Crash(n) \/ Exit(n) PROVE ReachInv'
    BY <2>6, RestartReach
  <2>. QED  BY <2>1, <2>2, <2>3, <2>4, <2>5, <2>6 DEF Next
<1>. QED  BY <1>1, <1>2, Invariance, PTL DEF Spec

(* With two servers that are each other's peer, as in the repository's      *)
(* configurations, a response of success to a request whose addressee kept  *)
(* a session where redis says means that deliver() got the notification.    *)
THEOREM SuccessHandsOver ==
    ASSUME \A n \in Servers : Servers = {n, Peer[n]}
    PROVE  Spec => SuccessIsHandedOver
<1>. DEFINE HandsOver ==
       \A n \in Servers, u \in Users :
          LET msg == handler[n][u].msg
          IN  Succeeds(n, u) /\ handler[n][u].reachable =>
                 \E m \in Servers : msg \in Range(handed'[m][msg.to])
<1>1. ASSUME Inv, ReachInv, NEW n \in Servers, NEW u \in Users, Succeeds(n, u),
             handler[n][u].reachable
      PROVE  \E m \in Servers : handler[n][u].msg \in Range(handed'[m][handler[n][u].msg.to])
  <2>1. handler[n][u] \in Working /\ handler[n][u].stage \in {"route", "rpc"}
    BY <1>1 DEF Succeeds, RouteNowhere, RouteLocal, Inv, TypeOK, Idle
  <2>2. handler[n][u] # Idle /\ handler[n][u].msg \in Message
    BY <2>1, WorkingTypes
  <2>3. PICK msg \in Message : msg = handler[n][u].msg
    BY <2>2
  <2>4. /\ login_server[msg.to] \in Servers
        /\ msg.to \in participants[login_server[msg.to]]
        /\ handler[n][u].target = login_server[msg.to]
        /\ handler[n][u].stage = "rpc" /\ call[n].stage = "replied" =>
              msg \in Range(handed[Peer[n]][msg.to])
    BY <1>1, <2>1, <2>2, <2>3 DEF ReachInv, Reach
  <2>5. CASE RouteNowhere(n, u)
    BY <2>4, <2>5, NullAssumption DEF RouteNowhere
  <2>6. CASE RouteLocal(n, u)
    <3>1. DeliverAt(n, msg) /\ msg.to \in participants[n]
      BY <2>3, <2>4, <2>6, SMTT(30) DEF RouteLocal
    <3>. QED  BY <1>1, <2>3, <3>1, HandedGrows
  <2>7. CASE handler[n][u].stage = "rpc" /\ CallReturns(n)
    BY <2>3, <2>4, <2>7, PeerAssumption DEF CallReturns
  <2>. QED  BY <1>1, <2>5, <2>6, <2>7 DEF Succeeds
<1>2. Inv /\ ReachInv => [HandsOver]_vars
  BY <1>1
<1>3. [][HandsOver]_vars => SuccessIsHandedOver
  BY DEF SuccessIsHandedOver
<1>. QED  BY <1>2, <1>3, Invariance, ReachInvariance, PTL
==============================================================================
