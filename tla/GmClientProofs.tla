--------------------------- MODULE GmClientProofs ---------------------------
(***************************************************************************)
(* No request runs twice and none is lost track of, for any number of      *)
(* requests, pages and failures.  The inductive invariant says where a     *)
(* request may be: scheduled or on its way to the server, if the server    *)
(* has not run it; or on its way back or called back, if it has.  A        *)
(* request may be pending under more than one id (the exception of a send  *)
(* leaves it scheduled), but it is sent under one only.                    *)
(***************************************************************************)
EXTENDS GmClient, FiniteSetTheorems, TLAPS

\* The messages on their way in one direction, q being sent or answers.
Messages(q) == UNION {Elements(q[s]) : s \in Socket}
Requests(q) == {m[2] : m \in Messages(q)}

\* No request is there twice.
OnceOn(q) ==
  \A s, t \in Socket : \A i \in DOMAIN q[s], j \in DOMAIN q[t] :
    q[s][i][2] = q[t][j][2] => s = t /\ i = j

\* What is scheduled was asked for, and is scheduled once.
ScheduledInv ==
  /\ \A i, j \in DOMAIN scheduled : scheduled[i] = scheduled[j] => i = j
  /\ Elements(scheduled) \subseteq made

\* A message keeps the id that its request is pending under.
IdInv ==
  /\ \A m \in pending \cup Messages(sent) \cup Messages(answers) : m[1] <= msgID
  /\ \A m \in Messages(sent) \cup Messages(answers), n \in pending :
       m[1] = n[1] => m = n

\* Before the server runs a request, it is made, scheduled and sent, in this order.
BeforeRun ==
  /\ OnceOn(sent)
  /\ Requests(sent) \subseteq made
  /\ \A r \in Elements(scheduled) : r \notin Requests(sent)
  /\ \A r \in Request : r \notin made \/ r \in Elements(scheduled) \/ r \in Requests(sent)
       => handled[r] = 0

\* Afterwards it is answered, then called back.
AfterRun ==
  /\ OnceOn(answers)
  /\ \A r \in Requests(answers) : called[r] = <<>>
  /\ \A r \in Request : r \in Requests(answers) \/ called[r] # <<>> => handled[r] = 1

\* What Accounted says besides the types.
Traced ==
  \A r \in made : \/ r \in Elements(scheduled)
                  \/ \E m \in pending : m[2] = r
                  \/ called[r] # <<>>

RequestInv == Traced /\ CalledBackRight /\ ScheduledInv /\ IdInv /\ BeforeRun /\ AfterRun

IInv == TypeOK /\ RequestInv

-----------------------------------------------------------------------------
(* Messages on their way: one is taken from the front, some are added at   *)
(* the end, a connection loses them all.                                   *)

Wire == [Socket -> Seq(Message)]

LEMMA MessageOnWire ==
  ASSUME NEW q \in Wire
  PROVE  /\ \A s \in Socket : \A i \in DOMAIN q[s] :
              q[s][i] \in Message /\ q[s][i] \in Messages(q) /\ q[s][i][2] \in Requests(q)
         /\ \A m \in Messages(q) : \E s \in Socket : \E i \in DOMAIN q[s] : m = q[s][i]
         /\ Messages(q) \subseteq Message
         /\ \A m \in Messages(q) : m[2] \in Requests(q) /\ m[2] \in Request
         /\ \A r \in Requests(q) : \E s \in Socket : \E i \in DOMAIN q[s] : r = q[s][i][2]
<1>1. \A s \in Socket : \A i \in DOMAIN q[s] : q[s][i] \in Message
  BY DEF Wire
<1>2. \A s \in Socket : \A i \in DOMAIN q[s] : q[s][i] \in Messages(q)
  BY DEF Messages, Elements
<1>3. \A m \in Messages(q) : \E s \in Socket : \E i \in DOMAIN q[s] : m = q[s][i]
  BY DEF Messages, Elements
<1>4. \A m \in Messages(q) : m[2] \in Requests(q)
  BY DEF Requests
<1> QED
  BY <1>1, <1>2, <1>3, <1>4 DEF Requests, Message

\* The first message of s is taken.
Taken(q, s, q2) == q[s] # <<>> /\ q2 = [q EXCEPT ![s] = Tail(@)]

LEMMA WireTail ==
  ASSUME NEW q \in Wire, NEW s \in Socket, NEW q2, Taken(q, s, q2)
  PROVE  /\ q2 \in Wire /\ Head(q[s]) \in Messages(q)
         /\ Messages(q2) \subseteq Messages(q)
         /\ OnceOn(q) => OnceOn(q2) /\ Head(q[s])[2] \notin Requests(q2)
<1>1. /\ q2 \in Wire /\ 1 \in DOMAIN q[s] /\ Head(q[s]) = q[s][1]
      /\ \A t \in Socket \ {s} : q2[t] = q[t]
      /\ \A i \in DOMAIN q2[s] : i + 1 \in DOMAIN q[s] /\ q2[s][i] = q[s][i + 1] /\ i \in Nat
      /\ \A i \in DOMAIN q2[s] : i + 1 # 1
  BY DEF Wire, Taken
<1>2. Head(q[s]) \in Messages(q)
  BY <1>1, MessageOnWire
<1>3. \A t \in Socket : \A i \in DOMAIN q2[t] : \E j \in DOMAIN q[t] :
         /\ q2[t][i] = q[t][j]
         /\ j = IF t = s THEN i + 1 ELSE i
  BY <1>1
<1>4. Messages(q2) \subseteq Messages(q)
  <2> SUFFICES ASSUME NEW m \in Messages(q2) PROVE m \in Messages(q)
    OBVIOUS
  <2>1. PICK t \in Socket : \E i \in DOMAIN q2[t] : m = q2[t][i]
    BY <1>1, MessageOnWire
  <2> QED
    BY <1>3, <2>1, MessageOnWire
<1>5. ASSUME OnceOn(q) PROVE OnceOn(q2)
  <2> SUFFICES ASSUME NEW t \in Socket, NEW u \in Socket,
                      NEW i \in DOMAIN q2[t], NEW j \in DOMAIN q2[u],
                      q2[t][i][2] = q2[u][j][2]
               PROVE  t = u /\ i = j
    BY DEF OnceOn
  <2>1. PICK i1 \in DOMAIN q[t] : q2[t][i] = q[t][i1] /\ i1 = IF t = s THEN i + 1 ELSE i
    BY <1>3
  <2>2. PICK j1 \in DOMAIN q[u] : q2[u][j] = q[u][j1] /\ j1 = IF u = s THEN j + 1 ELSE j
    BY <1>3
  <2>3. t = u /\ i1 = j1
    BY <1>5, <2>1, <2>2 DEF OnceOn
  <2>4. i \in Int /\ j \in Int
    BY <1>1 DEF Wire
  <2> QED
    BY <2>1, <2>2, <2>3, <2>4
<1>6. ASSUME OnceOn(q), Head(q[s])[2] \in Requests(q2) PROVE FALSE
  <2>1. PICK t \in Socket : \E i \in DOMAIN q2[t] : Head(q[s])[2] = q2[t][i][2]
    BY <1>1, <1>6, MessageOnWire
  <2>2. PICK i \in DOMAIN q2[t] : Head(q[s])[2] = q2[t][i][2]
    BY <2>1
  <2>3. PICK j \in DOMAIN q[t] : q2[t][i] = q[t][j] /\ j = IF t = s THEN i + 1 ELSE i
    BY <1>3
  <2>4. t = s /\ j = 1
    BY <1>1, <1>6, <2>2, <2>3 DEF OnceOn
  <2> QED
    BY <1>1, <2>3, <2>4
<1> QED
  BY <1>1, <1>2, <1>4, <1>5, <1>6

\* What is on s is lost.
LEMMA WireLost ==
  ASSUME NEW q \in Wire, NEW s \in Socket, NEW q2, q2 = [q EXCEPT ![s] = <<>>]
  PROVE  /\ q2 \in Wire
         /\ Messages(q2) \subseteq Messages(q)
         /\ OnceOn(q) => OnceOn(q2)
<1>1. /\ q2 \in Wire /\ q2[s] = <<>> /\ DOMAIN q2[s] = {}
      /\ \A t \in Socket \ {s} : q2[t] = q[t]
  BY DEF Wire
<1>2. Messages(q2) \subseteq Messages(q)
  BY <1>1 DEF Messages, Elements
<1>3. OnceOn(q) => OnceOn(q2)
  BY <1>1 DEF OnceOn
<1> QED
  BY <1>1, <1>2, <1>3

\* The messages ms are added to those on s; none of their requests is on its way.
Fresh(ms, q) ==
  /\ \A i, j \in DOMAIN ms : ms[i][2] = ms[j][2] => i = j
  /\ \A i \in DOMAIN ms : ms[i][2] \notin Requests(q)
Added(q, s, ms, q2) ==
  q2 \in Wire /\ q2[s] = q[s] \o ms /\ \A t \in Socket \ {s} : q2[t] = q[t]

LEMMA WireMore ==
  ASSUME NEW q \in Wire, NEW s \in Socket, NEW ms \in Seq(Message), NEW q2,
         Added(q, s, ms, q2), Fresh(ms, q)
  PROVE  /\ Messages(q2) \subseteq Messages(q) \cup Elements(ms)
         /\ OnceOn(q) => OnceOn(q2)
<1> DEFINE n == Len(q[s])
<1>1. /\ q2 \in Wire /\ n \in Nat
      /\ \A t \in Socket \ {s} : q2[t] = q[t]
      /\ \A i \in DOMAIN q2[s] :
           \/ i \in DOMAIN q[s] /\ q2[s][i] = q[s][i]
           \/ i - n \in DOMAIN ms /\ q2[s][i] = ms[i - n]
  BY DEF Wire, Added
<1>2. ASSUME NEW t \in Socket, NEW i \in DOMAIN q2[t]
      PROVE  \/ i \in DOMAIN q[t] /\ q2[t][i] = q[t][i]
             \/ t = s /\ i - n \in DOMAIN ms /\ q2[t][i] = ms[i - n]
  BY <1>1
<1>3. Messages(q2) \subseteq Messages(q) \cup Elements(ms)
  <2> SUFFICES ASSUME NEW m \in Messages(q2) PROVE m \in Messages(q) \cup Elements(ms)
    OBVIOUS
  <2>1. PICK t \in Socket : \E i \in DOMAIN q2[t] : m = q2[t][i]
    BY <1>1, MessageOnWire
  <2>2. PICK i \in DOMAIN q2[t] : m = q2[t][i]
    BY <2>1
  <2> QED
    BY <1>2, <2>2, MessageOnWire DEF Elements
<1>4. ASSUME OnceOn(q) PROVE OnceOn(q2)
  <2> SUFFICES ASSUME NEW t \in Socket, NEW u \in Socket,
                      NEW i \in DOMAIN q2[t], NEW j \in DOMAIN q2[u],
                      q2[t][i][2] = q2[u][j][2]
               PROVE  t = u /\ i = j
    BY DEF OnceOn
  <2>0. i \in Int /\ j \in Int
    BY <1>1 DEF Wire
  <2>1. CASE i \in DOMAIN q[t] /\ q2[t][i] = q[t][i] /\ j \in DOMAIN q[u] /\ q2[u][j] = q[u][j]
    BY <1>4, <2>1 DEF OnceOn
  <2>2. CASE /\ t = s /\ i - n \in DOMAIN ms /\ q2[t][i] = ms[i - n]
             /\ u = s /\ j - n \in DOMAIN ms /\ q2[u][j] = ms[j - n]
    <3>1. i - n = j - n
      BY <2>2 DEF Fresh
    <3> QED
      BY <1>1, <2>0, <2>2, <3>1
  <2>3. CASE /\ i \in DOMAIN q[t] /\ q2[t][i] = q[t][i]
             /\ j - n \in DOMAIN ms /\ q2[u][j] = ms[j - n]
    BY <2>3, MessageOnWire DEF Fresh
  <2>4. CASE /\ i - n \in DOMAIN ms /\ q2[t][i] = ms[i - n]
             /\ j \in DOMAIN q[u] /\ q2[u][j] = q[u][j]
    BY <2>4, MessageOnWire DEF Fresh
  <2> QED
    BY <1>2, <2>1, <2>2, <2>3, <2>4
<1> QED
  BY <1>1, <1>3, <1>4

-----------------------------------------------------------------------------
(* Transmit *)

\* Transmit numbers the first requests of rs, all of them unless it throws.
LEMMA TransmitNumbers ==
  ASSUME TypeOK, NEW rs \in Seq(Request), NEW ph, Transmit(rs, ph)
  PROVE  \E ms \in Seq(Message) :
           /\ Len(ms) <= Len(rs)
           /\ \A i \in DOMAIN ms : ms[i] = <<msgID + i, rs[i]>> /\ i \in DOMAIN rs
           /\ rs # <<>> => 1 \in DOMAIN ms
           /\ ~WsThrows(ph) => DOMAIN ms = DOMAIN rs
           /\ msgID' = msgID + Len(ms)
           /\ pending' = pending \cup Elements(ms)
           /\ \/ sent' = sent
              \/ /\ ~WsThrows(ph) /\ ws \in Socket
                 /\ sent' = [sent EXCEPT ![ws] = @ \o ms]
<1> DEFINE tried == IF WsThrows(ph) THEN DOMAIN rs \cap {1} ELSE DOMAIN rs
           ms == [i \in tried |-> Numbered(rs)[i]]
<1>1. DOMAIN rs = 1..Len(rs) /\ Len(rs) \in Nat /\ msgID \in Nat
  BY DEF TypeOK
<1>2. PICK n \in 0..Len(rs) : /\ tried = 1..n /\ (rs # <<>> => n >= 1)
                              /\ (~WsThrows(ph) => n = Len(rs))
  <2>1. CASE ~WsThrows(ph)
    <3>1. tried = 1..Len(rs) /\ Len(rs) \in 0..Len(rs) /\ (rs # <<>> => Len(rs) >= 1)
      BY <1>1, <2>1
    <3> QED
      BY <3>1
  <2>2. CASE WsThrows(ph) /\ rs = <<>>
    <3>1. tried = 1..0 /\ 0 \in 0..Len(rs)
      BY <1>1, <2>2
    <3> QED
      BY <2>2, <3>1
  <2>3. CASE WsThrows(ph) /\ rs # <<>>
    <3>1. tried = 1..1 /\ 1 \in 0..Len(rs) /\ 1 >= 1
      BY <1>1, <2>3
    <3> QED
      BY <2>3, <3>1
  <2> QED
    BY <2>1, <2>2, <2>3
<1>3. \A i \in tried : /\ i \in DOMAIN rs /\ ms[i] = <<msgID + i, rs[i]>>
                       /\ ms[i] \in Message
  <2> SUFFICES ASSUME NEW i \in tried
               PROVE  /\ i \in DOMAIN rs /\ ms[i] = <<msgID + i, rs[i]>>
                      /\ ms[i] \in Message
    OBVIOUS
  <2>1. i \in DOMAIN rs /\ i \in Nat
    BY <1>1
  <2>2. ms[i] = Numbered(rs)[i]
    OBVIOUS
  <2>3. Numbered(rs)[i] = <<msgID + i, rs[i]>>
    BY <2>1 DEF Numbered
  <2>4. rs[i] \in Request /\ msgID + i \in Nat
    BY <1>1, <2>1
  <2> HIDE DEF tried, ms
  <2> QED
    BY <2>1, <2>2, <2>3, <2>4 DEF Message
<1>4. ms \in Seq(Message) /\ Len(ms) = n /\ DOMAIN ms = 1..n
  <2>1. ms = [i \in 1..n |-> Numbered(rs)[i]]
    BY <1>2
  <2>2. \A i \in 1..n : Numbered(rs)[i] \in Message
    BY <1>2, <1>3
  <2> HIDE DEF tried, ms
  <2> QED
    BY <2>1, <2>2
<1>5. /\ msgID' = msgID + Len(ms)
      /\ pending' = pending \cup Elements(ms)
      /\ sent' = IF WsSends(ph) THEN [sent EXCEPT ![ws] = @ \o ms] ELSE sent
  BY DEF Transmit
<1>6. WsSends(ph) => ~WsThrows(ph) /\ ws \in Socket
  BY DEF WsSends, WsThrows, TypeOK
<1> HIDE DEF tried, ms
<1>4a. ms \in Seq(Message)
  BY <1>4
<1>7. Len(ms) <= Len(rs) /\ (rs # <<>> => 1 \in DOMAIN ms)
  BY <1>2, <1>4
<1>8. ~WsThrows(ph) => DOMAIN ms = DOMAIN rs
  BY <1>1, <1>2, <1>4
<1>9. \A i \in DOMAIN ms : ms[i] = <<msgID + i, rs[i]>> /\ i \in DOMAIN rs
  BY <1>2, <1>3, <1>4
<1> WITNESS ms \in Seq(Message)
<1> QED
  BY <1>5, <1>6, <1>7, <1>8, <1>9

\* Requests that were never sent stay sent at most once.
LEMMA TransmitKeeps ==
  ASSUME IInv, NEW rs \in Seq(Request), NEW ph, Transmit(rs, ph), UNCHANGED answers,
         \A i, j \in DOMAIN rs : rs[i] = rs[j] => i = j,
         \A r \in Elements(rs) : r \notin Requests(sent)
  PROVE  /\ msgID' \in Nat /\ pending' \subseteq Message /\ sent' \in Wire
         /\ \A m, n \in pending' : m[1] = n[1] => m = n
         /\ IdInv'
         /\ OnceOn(sent')
         /\ Requests(sent') \subseteq Requests(sent) \cup Elements(rs)
         /\ WsThrows(ph) => sent' = sent
         /\ pending \subseteq pending'
         /\ rs # <<>> => \E m \in pending' : m[2] = rs[1]
         /\ ~WsThrows(ph) => \A r \in Elements(rs) : \E m \in pending' : m[2] = r
<1>1. TypeOK /\ IdInv /\ OnceOn(sent) /\ sent \in Wire /\ answers \in Wire /\ msgID \in Nat
  BY DEF IInv, RequestInv, TypeOK, BeforeRun, Wire
<1>2. PICK ms \in Seq(Message) :
           /\ Len(ms) <= Len(rs)
           /\ \A i \in DOMAIN ms : ms[i] = <<msgID + i, rs[i]>> /\ i \in DOMAIN rs
           /\ rs # <<>> => 1 \in DOMAIN ms
           /\ ~WsThrows(ph) => DOMAIN ms = DOMAIN rs
           /\ msgID' = msgID + Len(ms)
           /\ pending' = pending \cup Elements(ms)
           /\ \/ sent' = sent
              \/ /\ ~WsThrows(ph) /\ ws \in Socket
                 /\ sent' = [sent EXCEPT ![ws] = @ \o ms]
  BY <1>1, TransmitNumbers
<1>3. DOMAIN ms = 1..Len(ms) /\ Len(ms) \in Nat /\ msgID' \in Nat
  BY <1>1, <1>2
<1>4. \A m \in Elements(ms) : /\ m \in Message /\ m[1] > msgID /\ m[1] <= msgID'
                              /\ m[2] \in Elements(rs)
  <2> SUFFICES ASSUME NEW i \in DOMAIN ms
               PROVE  /\ ms[i] \in Message /\ ms[i][1] > msgID /\ ms[i][1] <= msgID'
                      /\ ms[i][2] \in Elements(rs)
    BY DEF Elements
  <2>1. i \in 1..Len(ms) /\ ms[i] = <<msgID + i, rs[i]>> /\ i \in DOMAIN rs
    BY <1>2, <1>3
  <2>2. rs[i] \in Request /\ i \in Nat /\ i >= 1 /\ i <= Len(ms)
    BY <1>3, <2>1
  <2>3. ms[i][1] = msgID + i /\ ms[i][2] = rs[i] /\ ms[i] \in Message
    BY <2>1
  <2>4. msgID + i > msgID /\ msgID + i <= msgID'
    BY <1>1, <1>2, <1>3, <2>2
  <2> QED
    BY <2>1, <2>3, <2>4 DEF Elements
<1>5. \A m, n \in Elements(ms) : m[1] = n[1] => m = n
  <2> SUFFICES ASSUME NEW i \in DOMAIN ms, NEW j \in DOMAIN ms, ms[i][1] = ms[j][1]
               PROVE  ms[i] = ms[j]
    BY DEF Elements
  <2>1. ms[i][1] = msgID + i /\ ms[j][1] = msgID + j
    BY <1>2
  <2>1a. msgID + i = msgID + j
    BY <2>1
  <2>2. i \in Int /\ j \in Int /\ msgID + i = msgID + j
    BY <1>3, <2>1a
  <2>3. i = j
    BY <1>1, <2>2
  <2> QED
    BY <2>3
<1>6. \A i, j \in DOMAIN ms : ms[i][2] = ms[j][2] => i = j
  BY <1>2
<1>7. \A i \in DOMAIN ms : ms[i][2] \notin Requests(sent)
  BY <1>4 DEF Elements
<1>8. sent' \in Wire /\ OnceOn(sent') /\ Messages(sent') \subseteq Messages(sent) \cup Elements(ms)
  <2>1. CASE sent' = sent
    BY <1>1, <2>1
  <2>2. CASE ws \in Socket /\ sent' = [sent EXCEPT ![ws] = @ \o ms]
    <3>1. Added(sent, ws, ms, sent') /\ sent' \in Wire
      BY <1>1, <2>2 DEF Wire, Added
    <3>1a. Fresh(ms, sent)
      BY <1>6, <1>7 DEF Fresh
    <3>2. /\ Messages(sent') \subseteq Messages(sent) \cup Elements(ms)
          /\ OnceOn(sent) => OnceOn(sent')
      BY <1>1, <2>2, <3>1, <3>1a, WireMore
    <3> QED
      BY <1>1, <3>1, <3>2
  <2> QED
    BY <1>2, <2>1, <2>2
<1>9. Requests(sent') \subseteq Requests(sent) \cup Elements(rs)
  BY <1>4, <1>8 DEF Requests
<1>10. pending \subseteq Message /\ \A m, n \in pending : m[1] = n[1] => m = n
  BY <1>1 DEF TypeOK
<1>11. \A m \in pending \cup Messages(sent) \cup Messages(answers) :
          m \in Message /\ m[1] \in Nat /\ m[1] <= msgID
  BY <1>1, <1>10, MessageOnWire DEF IdInv, Message
<1>12. \A m, n \in pending' : m[1] = n[1] => m = n
  BY <1>1, <1>2, <1>4, <1>5, <1>10, <1>11 DEF Message
<1>13. IdInv'
  <2>1. Messages(answers)' = Messages(answers) /\ Messages(sent)' = Messages(sent')
    BY DEF Messages
  <2>2. \A m \in pending' \cup Messages(sent') \cup Messages(answers) : m[1] <= msgID'
    BY <1>1, <1>2, <1>3, <1>4, <1>8, <1>11
  <2>3. ASSUME NEW m \in Messages(sent') \cup Messages(answers), NEW n \in pending',
               m[1] = n[1]
        PROVE  m = n
    <3>1. CASE m \in Elements(ms) /\ n \in Elements(ms)
      BY <1>5, <2>3, <3>1
    <3>2. CASE m \in Messages(sent) \cup Messages(answers) /\ n \in pending
      BY <1>1, <2>3, <3>2 DEF IdInv
    <3>3. CASE m \in Messages(sent) \cup Messages(answers) /\ n \in Elements(ms)
      BY <1>1, <1>4, <1>11, <2>3, <3>3 DEF Message
    <3>4. CASE m \in Elements(ms) /\ n \in pending
      BY <1>1, <1>4, <1>11, <2>3, <3>4 DEF Message
    <3> QED
      BY <1>2, <1>8, <3>1, <3>2, <3>3, <3>4
  <2> QED
    BY <2>1, <2>2, <2>3 DEF IdInv
<1>14. WsThrows(ph) => sent' = sent
  BY <1>2
<1>15. rs # <<>> => \E m \in pending' : m[2] = rs[1]
  BY <1>2 DEF Elements
<1>16. ~WsThrows(ph) => \A r \in Elements(rs) : \E m \in pending' : m[2] = r
  <2> SUFFICES ASSUME ~WsThrows(ph), NEW i \in DOMAIN rs PROVE \E m \in pending' : m[2] = rs[i]
    BY DEF Elements
  <2>1. ms[i] \in pending' /\ ms[i][2] = rs[i]
    BY <1>2 DEF Elements
  <2> QED
    BY <2>1
<1> QED
  BY <1>2, <1>3, <1>4, <1>8, <1>9, <1>10, <1>12, <1>13, <1>14, <1>15, <1>16

-----------------------------------------------------------------------------
(* The handlers                                                            *)

LEMMA InitIInv == Init => IInv
<1> SUFFICES ASSUME Init PROVE IInv
  OBVIOUS
<1>1. TypeOK
  <2>1. 1 \in Socket
    BY RequestAssumption, MaxFailuresAssumption, FS_CardinalityType DEF Socket
  <2>2. <<>> \in Seq(Message) /\ <<>> \in Seq(Request)
    OBVIOUS
  <2>4. sent \in [Socket -> Seq(Message)] /\ answers \in [Socket -> Seq(Message)]
    BY <2>2 DEF Init
  <2>5. handled \in [Request -> Nat] /\ called \in [Request -> Seq(Request)]
    BY <2>2 DEF Init
  <2>6. /\ phase \in [Socket -> {"none", "connecting", "open", "closing", "closed"}]
        /\ reconnect \in [Socket -> BOOLEAN] /\ ws \in Socket
    BY <2>1 DEF Init
  <2>7. failures \in 0..MaxFailures /\ timers \in Nat /\ msgID \in Nat
    BY MaxFailuresAssumption DEF Init
  <2>8. scheduled \in Seq(Request) /\ pending \subseteq Message /\ made \subseteq Request
    BY <2>2 DEF Init
  <2> QED
    BY <2>4, <2>5, <2>6, <2>7, <2>8 DEF Init, TypeOK
<1>2. Messages(sent) = {} /\ Messages(answers) = {} /\ Elements(scheduled) = {}
  BY DEF Init, Messages, Elements
<1>3. Requests(sent) = {} /\ Requests(answers) = {}
  BY <1>2 DEF Requests
<1>4. Traced /\ CalledBackRight /\ ScheduledInv /\ IdInv
  BY <1>2 DEF Init, Traced, CalledBackRight, ScheduledInv, IdInv
<1>5. BeforeRun /\ AfterRun
  BY <1>2, <1>3 DEF Init, BeforeRun, AfterRun, OnceOn
<1> QED
  BY <1>1, <1>4, <1>5 DEF IInv, RequestInv

LEMMA WiresTyped == TypeOK => sent \in Wire /\ answers \in Wire
BY DEF TypeOK, Wire

\* Steps that move no request.
LEMMA NoRequestMoves ==
  ASSUME RequestInv, UNCHANGED <<requestVars, wireVars>>
  PROVE  RequestInv'
BY DEF RequestInv, requestVars, wireVars, Traced, CalledBackRight, ScheduledInv, IdInv,
       BeforeRun, AfterRun, OnceOn, Messages, Requests

LEMMA OpenTyped ==
  ASSUME TypeOK, NEW isReconnect \in BOOLEAN, Open(isReconnect)
  PROVE  /\ phase' \in [Socket -> {"none", "connecting", "open", "closing", "closed"}]
         /\ reconnect' \in [Socket -> BOOLEAN]
         /\ ws' \in Socket \cup {Null}
BY DEF TypeOK, Open

\* A request made while the client takes itself for connected is sent or lost; it
\* stays pending.
LEMMA SendConnected ==
  ASSUME IInv, NEW r \in Request, Send(r), isConnected
  PROVE  IInv'
<1> DEFINE rs == <<r>>
<1>1. /\ r \notin made /\ made' = made \cup {r} /\ Transmit(rs, phase)
      /\ UNCHANGED <<scheduled, connVars, isConnected, pageVars, answers, handled, called>>
  BY DEF Send
<1>2. /\ rs \in Seq(Request) /\ rs # <<>> /\ Elements(rs) = {r} /\ rs[1] = r
      /\ \A i, j \in DOMAIN rs : rs[i] = rs[j] => i = j
  BY DEF Elements
<1>3. /\ TypeOK /\ Traced /\ CalledBackRight /\ ScheduledInv /\ IdInv /\ BeforeRun /\ AfterRun
  BY DEF IInv, RequestInv
<1>4. r \notin Requests(sent) /\ r \notin Elements(scheduled) /\ handled[r] = 0
  BY <1>1, <1>3 DEF BeforeRun, ScheduledInv
<1>5. /\ msgID' \in Nat /\ pending' \subseteq Message /\ sent' \in Wire
      /\ \A m, n \in pending' : m[1] = n[1] => m = n
      /\ IdInv' /\ OnceOn(sent')
      /\ Requests(sent') \subseteq Requests(sent) \cup {r}
      /\ pending \subseteq pending'
      /\ \E m \in pending' : m[2] = r
  <2>1. \A x \in Elements(rs) : x \notin Requests(sent)
    BY <1>2, <1>4
  <2>2. UNCHANGED answers
    BY <1>1
  <2> HIDE DEF rs
  <2> QED
    BY <1>1, <1>2, <2>1, <2>2, TransmitKeeps
<1>6. TypeOK'
  BY <1>1, <1>3, <1>5 DEF TypeOK, Wire, connVars, pageVars
<1>7. Traced'
  BY <1>1, <1>3, <1>5 DEF Traced
<1>8. ScheduledInv' /\ CalledBackRight'
  BY <1>1, <1>3 DEF ScheduledInv, CalledBackRight
<1>9. BeforeRun'
  <2>1. OnceOn(sent)' = OnceOn(sent') /\ Requests(sent)' = Requests(sent')
    BY DEF OnceOn, Requests, Messages
  <2> QED
    BY <1>1, <1>3, <1>4, <1>5, <2>1 DEF BeforeRun, Elements
<1>10. AfterRun'
  BY <1>1, <1>3 DEF AfterRun, OnceOn, Requests, Messages
<1> QED
  BY <1>5, <1>6, <1>7, <1>8, <1>9, <1>10 DEF IInv, RequestInv

\* A request made while it does not is scheduled.
LEMMA SendDisconnected ==
  ASSUME IInv, NEW r \in Request, Send(r), ~isConnected
  PROVE  IInv'
<1>1. /\ r \notin made /\ made' = made \cup {r} /\ scheduled' = Append(scheduled, r)
      /\ Open(FALSE)
      /\ UNCHANGED <<msgID, pending, timers, failures, isConnected, pageVars, wireVars>>
  BY DEF Send, wireVars
<1>2. /\ TypeOK /\ Traced /\ CalledBackRight /\ ScheduledInv /\ IdInv /\ BeforeRun /\ AfterRun
  BY DEF IInv, RequestInv
<1>3. TypeOK'
  <2>1. scheduled' \in Seq(Request)
    BY <1>1, <1>2 DEF TypeOK
  <2> QED
    BY <1>1, <1>2, <2>1, OpenTyped DEF TypeOK, wireVars, pageVars
<1>4. r \notin Elements(scheduled) /\ handled[r] = 0 /\ r \notin Requests(sent)
  BY <1>1, <1>2 DEF BeforeRun, ScheduledInv
<1>5. /\ scheduled \in Seq(Request) /\ Len(scheduled) \in Nat
      /\ DOMAIN scheduled = 1..Len(scheduled)
      /\ DOMAIN scheduled' = 1..(Len(scheduled) + 1)
      /\ \A i \in DOMAIN scheduled' :
           \/ i \in DOMAIN scheduled /\ scheduled'[i] = scheduled[i]
           \/ i = Len(scheduled) + 1 /\ scheduled'[i] = r
      /\ \A i \in DOMAIN scheduled : i \in DOMAIN scheduled' /\ scheduled'[i] = scheduled[i]
      /\ scheduled'[Len(scheduled) + 1] = r /\ Len(scheduled) + 1 \in DOMAIN scheduled'
  BY <1>1, <1>2, SMTT(30) DEF TypeOK
<1>6. Elements(scheduled') = Elements(scheduled) \cup {r}
  BY <1>5 DEF Elements
<1>7. ScheduledInv'
  <2>1. \A i, j \in DOMAIN scheduled' : scheduled'[i] = scheduled'[j] => i = j
    BY <1>2, <1>4, <1>5 DEF ScheduledInv, Elements
  <2> QED
    BY <1>1, <1>2, <1>6, <2>1 DEF ScheduledInv
<1>8. Traced'
  BY <1>1, <1>2, <1>6 DEF Traced, wireVars
<1>9. IdInv' /\ CalledBackRight' /\ AfterRun'
  BY <1>1, <1>2 DEF wireVars, IdInv, CalledBackRight, AfterRun, OnceOn, Messages, Requests
<1>10. BeforeRun'
  <2>1. OnceOn(sent)' = OnceOn(sent) /\ Requests(sent)' = Requests(sent)
    BY <1>1 DEF wireVars, OnceOn, Requests, Messages
  <2> QED
    BY <1>1, <1>2, <1>4, <1>6, <2>1 DEF BeforeRun, wireVars
<1> QED
  BY <1>3, <1>7, <1>8, <1>9, <1>10 DEF IInv, RequestInv

\* ws.onopen sends what was scheduled, unless the callback before it throws or there
\* is a newer socket that is still connecting.
LEMMA OpenedKeeps ==
  ASSUME IInv, NEW s \in Socket, Opened(s)
  PROVE  IInv'
<1>1. /\ TypeOK /\ Traced /\ CalledBackRight /\ ScheduledInv /\ IdInv /\ BeforeRun /\ AfterRun
  BY DEF IInv, RequestInv
<1>2. /\ phase' \in [Socket -> {"none", "connecting", "open", "closing", "closed"}]
      /\ UNCHANGED <<ws, timers, failures, answers, handled, called>>
  BY <1>1 DEF Opened, TypeOK
<1>3. CASE ws = Null
  <2>1. UNCHANGED <<reconnect, isConnected, pageVars, requestVars, wireVars>>
    BY <1>3 DEF Opened, wireVars
  <2>2. TypeOK'
    BY <1>1, <1>2, <2>1 DEF TypeOK, pageVars, requestVars, wireVars
  <2> QED
    BY <1>1, <2>1, <2>2, NoRequestMoves DEF IInv, RequestInv
<1>4. CASE ws # Null /\ onConnectedCB \in closed
  <2>1. /\ UNCHANGED <<pageVars, requestVars, wireVars>>
        /\ isConnected' = TRUE /\ reconnect' = [reconnect EXCEPT ![s] = FALSE]
    BY <1>4 DEF Opened, OnOpen, pageVars, requestVars, wireVars
  <2>2. TypeOK'
    BY <1>1, <1>2, <2>1 DEF TypeOK, pageVars, requestVars, wireVars
  <2> QED
    BY <1>1, <2>1, <2>2, NoRequestMoves DEF IInv, RequestInv
<1>5. CASE ws # Null /\ onConnectedCB \notin closed
  <2>1. /\ Transmit(scheduled, phase') /\ scheduled' = LeftAfterFlush(phase')
        /\ onConnectedCB' = Nobody /\ UNCHANGED <<asked, closed, made>>
        /\ isConnected' = TRUE /\ reconnect' = [reconnect EXCEPT ![s] = FALSE]
    BY <1>5 DEF Opened, OnOpen
  <2>2. /\ scheduled \in Seq(Request) /\ UNCHANGED answers
        /\ \A i, j \in DOMAIN scheduled : scheduled[i] = scheduled[j] => i = j
        /\ \A r \in Elements(scheduled) : r \notin Requests(sent)
    BY <1>1, <1>2 DEF TypeOK, ScheduledInv, BeforeRun
  <2>3. /\ msgID' \in Nat /\ pending' \subseteq Message /\ sent' \in Wire
        /\ \A m, n \in pending' : m[1] = n[1] => m = n
        /\ IdInv' /\ OnceOn(sent')
        /\ Requests(sent') \subseteq Requests(sent) \cup Elements(scheduled)
        /\ WsThrows(phase') => sent' = sent
        /\ pending \subseteq pending'
        /\ ~WsThrows(phase') => \A r \in Elements(scheduled) : \E m \in pending' : m[2] = r
    BY <2>1, <2>2, TransmitKeeps
  <2>4. /\ WsThrows(phase') => scheduled' = scheduled
        /\ ~WsThrows(phase') => scheduled' = <<>>
    BY <2>1 DEF LeftAfterFlush
  <2>5. scheduled' \in Seq(Request) /\ (~WsThrows(phase') => Elements(scheduled') = {})
    <3>1. CASE WsThrows(phase')
      BY <2>2, <2>4, <3>1
    <3>2. CASE ~WsThrows(phase')
      <4>1. scheduled' = <<>> /\ DOMAIN scheduled' = {}
        BY <2>4, <3>2
      <4> QED
        BY <4>1 DEF Elements
    <3> QED
      BY <3>1, <3>2
  <2>6. TypeOK'
    BY <1>1, <1>2, <2>1, <2>3, <2>5 DEF TypeOK, Wire
  <2>7. Traced'
    <3>1. CASE WsThrows(phase')
      BY <1>1, <1>2, <2>1, <2>3, <2>4, <3>1 DEF Traced
    <3>2. CASE ~WsThrows(phase')
      BY <1>1, <1>2, <2>1, <2>3, <2>4, <3>2 DEF Traced
    <3> QED
      BY <3>1, <3>2
  <2>8. ScheduledInv'
    BY <1>1, <2>1, <2>4, <2>5 DEF ScheduledInv
  <2>9. BeforeRun'
    <3>1. OnceOn(sent)' = OnceOn(sent') /\ Requests(sent)' = Requests(sent')
      BY DEF OnceOn, Requests, Messages
    <3>2. Elements(scheduled) \subseteq made
      BY <1>1 DEF ScheduledInv
    <3>3. CASE WsThrows(phase')
      BY <1>1, <1>2, <2>1, <2>3, <2>4, <3>1, <3>3 DEF BeforeRun
    <3>4. CASE ~WsThrows(phase')
      BY <1>1, <1>2, <2>1, <2>3, <2>5, <3>1, <3>2, <3>4 DEF BeforeRun
    <3> QED
      BY <3>3, <3>4
  <2>10. CalledBackRight' /\ AfterRun'
    BY <1>1, <1>2 DEF CalledBackRight, AfterRun, OnceOn, Requests, Messages
  <2> QED
    BY <2>3, <2>6, <2>7, <2>8, <2>9, <2>10 DEF IInv, RequestInv
<1> QED
  BY <1>3, <1>4, <1>5

\* What is on a connection that goes down never comes back.
LEMMA GoesDownKeeps ==
  ASSUME IInv, NEW s \in Socket, GoesDown(s)
  PROVE  IInv'
<1>1. /\ TypeOK /\ Traced /\ CalledBackRight /\ ScheduledInv /\ IdInv /\ BeforeRun /\ AfterRun
  BY DEF IInv, RequestInv
<1>2. /\ answers' = [answers EXCEPT ![s] = <<>>] /\ answers \in Wire
      /\ UNCHANGED <<reconnect, ws, timers, isConnected, pageVars, requestVars, sent,
                     handled, called>>
  BY <1>1, WiresTyped DEF GoesDown
<1>3. /\ answers' \in Wire /\ Messages(answers') \subseteq Messages(answers)
      /\ OnceOn(answers')
  BY <1>1, <1>2, WireLost DEF AfterRun
<1>4. TypeOK'
  <2>1. failures' \in 0..MaxFailures
    BY <1>1, MaxFailuresAssumption DEF GoesDown, TypeOK
  <2>2. phase' \in [Socket -> {"none", "connecting", "open", "closing", "closed"}]
    BY <1>1 DEF GoesDown, TypeOK
  <2> QED
    BY <1>1, <1>2, <1>3, <2>1, <2>2 DEF TypeOK, Wire, pageVars, requestVars
<1>5. /\ Messages(sent)' = Messages(sent) /\ Messages(answers)' = Messages(answers')
      /\ OnceOn(sent)' = OnceOn(sent) /\ OnceOn(answers)' = OnceOn(answers')
      /\ Requests(sent)' = Requests(sent) /\ Requests(answers)' = Requests(answers')
  BY <1>2 DEF OnceOn, Requests, Messages
<1>6. Requests(answers') \subseteq Requests(answers)
  BY <1>3 DEF Requests
<1>7. Traced' /\ CalledBackRight' /\ ScheduledInv'
  BY <1>1, <1>2 DEF requestVars, Traced, CalledBackRight, ScheduledInv
<1>8. IdInv'
  BY <1>1, <1>2, <1>3, <1>5 DEF requestVars, IdInv
<1>9. BeforeRun' /\ AfterRun'
  BY <1>1, <1>2, <1>3, <1>5, <1>6 DEF requestVars, BeforeRun, AfterRun
<1> QED
  BY <1>4, <1>7, <1>8, <1>9 DEF IInv, RequestInv

\* The server gives up a connection: what it has not run it never will.
LEMMA ServerLeavesKeeps ==
  ASSUME IInv, NEW s \in Socket, ServerLeaves(s)
  PROVE  IInv'
<1>1. /\ TypeOK /\ Traced /\ CalledBackRight /\ ScheduledInv /\ IdInv /\ BeforeRun /\ AfterRun
  BY DEF IInv, RequestInv
<1>2. /\ sent' = [sent EXCEPT ![s] = <<>>] /\ sent \in Wire
      /\ UNCHANGED <<connVars, isConnected, pageVars, requestVars, answers, handled, called>>
  BY <1>1, WiresTyped DEF ServerLeaves
<1>3. /\ sent' \in Wire /\ Messages(sent') \subseteq Messages(sent) /\ OnceOn(sent')
  BY <1>1, <1>2, WireLost DEF BeforeRun
<1>4. TypeOK'
  BY <1>1, <1>2, <1>3 DEF TypeOK, Wire, connVars, pageVars, requestVars
<1>5. /\ Messages(sent)' = Messages(sent') /\ Messages(answers)' = Messages(answers)
      /\ OnceOn(sent)' = OnceOn(sent') /\ OnceOn(answers)' = OnceOn(answers)
      /\ Requests(sent)' = Requests(sent') /\ Requests(answers)' = Requests(answers)
  BY <1>2 DEF OnceOn, Requests, Messages
<1>6. Requests(sent') \subseteq Requests(sent)
  BY <1>3 DEF Requests
<1>7. Traced' /\ CalledBackRight' /\ ScheduledInv'
  BY <1>1, <1>2 DEF requestVars, Traced, CalledBackRight, ScheduledInv
<1>8. IdInv'
  BY <1>1, <1>2, <1>3, <1>5 DEF requestVars, IdInv
<1>9. BeforeRun' /\ AfterRun'
  BY <1>1, <1>2, <1>3, <1>5, <1>6 DEF requestVars, BeforeRun, AfterRun
<1> QED
  BY <1>4, <1>7, <1>8, <1>9 DEF IInv, RequestInv

\* The server runs the first message of s: its request leaves sent, so it is not run
\* again; its answer is on its way if the connection is up.
LEMMA ServeKeeps ==
  ASSUME IInv, NEW s \in Socket, Serve(s)
  PROVE  IInv'
<1> DEFINE msg == Head(sent[s])
<1>1. /\ TypeOK /\ Traced /\ CalledBackRight /\ ScheduledInv /\ IdInv /\ BeforeRun /\ AfterRun
      /\ sent \in Wire /\ answers \in Wire
  BY WiresTyped DEF IInv, RequestInv
<1>2. /\ sent[s] # <<>> /\ sent' = [sent EXCEPT ![s] = Tail(@)]
      /\ handled' = [handled EXCEPT ![msg[2]] = @ + 1]
      /\ answers' = IF phase[s] = "open" THEN [answers EXCEPT ![s] = Append(@, msg)] ELSE answers
      /\ UNCHANGED <<connVars, isConnected, pageVars, requestVars, called>>
  BY DEF Serve
<1>3. /\ sent' \in Wire /\ msg \in Messages(sent) /\ Messages(sent') \subseteq Messages(sent)
      /\ OnceOn(sent') /\ msg[2] \notin Requests(sent')
  <2>1. Taken(sent, s, sent')
    BY <1>2 DEF Taken
  <2> QED
    BY <1>1, <2>1, WireTail DEF BeforeRun
<1> HIDE DEF msg
<1>4. msg \in Message /\ msg[2] \in Request /\ msg[2] \in Requests(sent)
  BY <1>1, <1>3, MessageOnWire
<1>5. /\ handled[msg[2]] = 0 /\ msg[2] \notin Requests(answers) /\ called[msg[2]] = <<>>
      /\ msg[2] \in made /\ msg[2] \notin Elements(scheduled)
  BY <1>1, <1>4 DEF BeforeRun, AfterRun
<1>6. /\ handled' \in [Request -> Nat] /\ handled'[msg[2]] = 1
      /\ \A r \in Request \ {msg[2]} : handled'[r] = handled[r]
  BY <1>1, <1>2, <1>4, <1>5 DEF TypeOK
<1>7. /\ answers' \in Wire /\ Messages(answers') \subseteq Messages(answers) \cup {msg}
      /\ OnceOn(answers')
  <2>1. CASE answers' = answers
    BY <1>1, <2>1 DEF AfterRun
  <2>2. CASE answers' = [answers EXCEPT ![s] = Append(@, msg)]
    <3>1. /\ answers[s] \in Seq(Message) /\ <<msg>> \in Seq(Message)
          /\ Append(answers[s], msg) = answers[s] \o <<msg>>
          /\ Append(answers[s], msg) \in Seq(Message)
      BY <1>1, <1>4, SMTT(30) DEF Wire
    <3>2. answers' \in Wire
      BY <1>1, <2>2, <3>1 DEF Wire
    <3>3. Added(answers, s, <<msg>>, answers')
      BY <1>1, <2>2, <3>1, <3>2 DEF Added, Wire
    <3>4. Fresh(<<msg>>, answers) /\ Elements(<<msg>>) = {msg}
      BY <1>5 DEF Fresh, Elements
    <3>5. /\ Messages(answers') \subseteq Messages(answers) \cup Elements(<<msg>>)
          /\ OnceOn(answers) => OnceOn(answers')
      BY <1>1, <3>1, <3>3, <3>4, WireMore
    <3> QED
      BY <1>1, <3>2, <3>4, <3>5 DEF AfterRun
  <2> QED
    BY <1>2, <2>1, <2>2
<1>8. Requests(sent') \subseteq Requests(sent) /\ Requests(answers') \subseteq Requests(answers) \cup {msg[2]}
  BY <1>3, <1>7 DEF Requests
<1>9. /\ Messages(sent)' = Messages(sent') /\ Messages(answers)' = Messages(answers')
      /\ OnceOn(sent)' = OnceOn(sent') /\ OnceOn(answers)' = OnceOn(answers')
      /\ Requests(sent)' = Requests(sent') /\ Requests(answers)' = Requests(answers')
  BY DEF OnceOn, Requests, Messages
<1>10. TypeOK'
  BY <1>1, <1>2, <1>3, <1>6, <1>7 DEF TypeOK, Wire, connVars, pageVars, requestVars
<1>11. Traced' /\ ScheduledInv'
  BY <1>1, <1>2 DEF requestVars, Traced, ScheduledInv
<1>12. CalledBackRight'
  BY <1>1, <1>2, <1>6 DEF CalledBackRight
<1>13. IdInv'
  BY <1>1, <1>2, <1>3, <1>7, <1>9 DEF requestVars, IdInv
<1>14. BeforeRun'
  BY <1>1, <1>2, <1>3, <1>5, <1>6, <1>8, <1>9 DEF requestVars, BeforeRun
<1>15. AfterRun'
  <2>1. \A r \in Requests(answers') : called'[r] = <<>>
    BY <1>1, <1>2, <1>5, <1>8 DEF AfterRun
  <2>2. \A r \in Request : r \in Requests(answers') \/ called'[r] # <<>> => handled'[r] = 1
    BY <1>1, <1>2, <1>6, <1>8 DEF AfterRun
  <2> QED
    BY <1>7, <1>9, <2>1, <2>2 DEF AfterRun
<1> QED
  BY <1>10, <1>11, <1>12, <1>13, <1>14, <1>15 DEF IInv, RequestInv

\* The first answer of s finds the callback of its own request or, after an exception
\* has cost the client that entry, none.
LEMMA ReceiveKeeps ==
  ASSUME IInv, NEW s \in Socket, Receive(s)
  PROVE  IInv'
<1> DEFINE msg == Head(answers[s])
           owners == {r \in Request : <<msg[1], r>> \in pending}
<1>1. /\ TypeOK /\ Traced /\ CalledBackRight /\ ScheduledInv /\ IdInv /\ BeforeRun /\ AfterRun
      /\ sent \in Wire /\ answers \in Wire
  BY WiresTyped DEF IInv, RequestInv
<1>2. /\ answers[s] # <<>> /\ answers' = [answers EXCEPT ![s] = Tail(@)]
      /\ called' = [r \in Request |-> IF r \in owners THEN Append(called[r], msg[2])
                                      ELSE called[r]]
      /\ pending' = {m \in pending : m[1] # msg[1]}
      /\ UNCHANGED <<connVars, isConnected, pageVars, scheduled, msgID, made, sent, handled>>
  BY DEF Receive
<1>3. /\ answers' \in Wire /\ msg \in Messages(answers)
      /\ Messages(answers') \subseteq Messages(answers)
      /\ OnceOn(answers') /\ msg[2] \notin Requests(answers')
  <2>1. Taken(answers, s, answers')
    BY <1>2 DEF Taken
  <2> QED
    BY <1>1, <2>1, WireTail DEF AfterRun
<1> HIDE DEF msg
<1>4. msg \in Message /\ msg[2] \in Request /\ msg[2] \in Requests(answers)
  BY <1>1, <1>3, MessageOnWire
<1>5. called[msg[2]] = <<>> /\ handled[msg[2]] = 1
  BY <1>1, <1>4 DEF AfterRun
<1>6. \A r \in owners : r = msg[2]
  <2> SUFFICES ASSUME NEW r \in owners PROVE r = msg[2]
    OBVIOUS
  <2>1. <<msg[1], r>> \in pending /\ <<msg[1], r>>[1] = msg[1] /\ <<msg[1], r>>[2] = r
    OBVIOUS
  <2>2. msg = <<msg[1], r>>
    BY <1>1, <1>3, <2>1 DEF IdInv
  <2> QED
    BY <2>2
<1> HIDE DEF owners
<1>7. /\ \A r \in owners : called'[r] = <<r>> /\ called'[r] # <<>>
      /\ \A r \in Request \ owners : called'[r] = called[r]
      /\ owners \subseteq Request
  <2>1. ASSUME NEW r \in owners PROVE called'[r] = <<r>>
    <3>1. r = msg[2] /\ called'[r] = Append(called[r], r)
      BY <1>2, <1>4, <1>6
    <3>2. called[r] = <<>>
      BY <1>5, <3>1
    <3>3. Append(<<>>, r) = <<r>>
      OBVIOUS
    <3> QED
      BY <3>1, <3>2, <3>3
  <2>2. \A r \in owners : <<r>> # <<>>
    OBVIOUS
  <2>3. owners \subseteq Request
    BY DEF owners
  <2> QED
    BY <1>2, <2>1, <2>2, <2>3
<1>8. TypeOK'
  <2>1. called' \in [Request -> Seq(Request)]
    <3>0. \A r \in Request : <<r>> \in Seq(Request)
      OBVIOUS
    <3>1. \A r \in Request : called'[r] \in Seq(Request)
      BY <1>1, <1>7, <3>0 DEF TypeOK
    <3> QED
      BY <1>2, <3>1
  <2> QED
    BY <1>1, <1>2, <1>3, <2>1 DEF TypeOK, Wire, connVars, pageVars
<1>9. Traced'
  <2> SUFFICES ASSUME NEW r \in made
               PROVE  \/ r \in Elements(scheduled)
                      \/ \E m \in pending' : m[2] = r
                      \/ called'[r] # <<>>
    BY <1>2 DEF Traced
  <2>1. r \in Request
    BY <1>1 DEF TypeOK
  <2>2. CASE r \in Elements(scheduled)
    BY <2>2
  <2>3. CASE called[r] # <<>>
    BY <1>7, <2>1, <2>3
  <2>4. ASSUME NEW m \in pending, m[2] = r
        PROVE  (\E n \in pending' : n[2] = r) \/ called'[r] # <<>>
    <3>1. CASE m[1] # msg[1]
      BY <1>2, <2>4, <3>1
    <3>2. CASE m[1] = msg[1]
      <4>1. m \in Message /\ m = <<m[1], m[2]>>
        BY <1>1 DEF TypeOK, Message
      <4>2. r \in owners
        BY <2>1, <2>4, <3>2, <4>1 DEF owners
      <4> QED
        BY <1>7, <2>1, <4>2
    <3> QED
      BY <3>1, <3>2
  <2> QED
    BY <1>1, <2>2, <2>3, <2>4 DEF Traced
<1>10. CalledBackRight'
  BY <1>1, <1>2, <1>7 DEF CalledBackRight
<1>11. /\ Messages(sent)' = Messages(sent) /\ Messages(answers)' = Messages(answers')
      /\ OnceOn(sent)' = OnceOn(sent) /\ OnceOn(answers)' = OnceOn(answers')
      /\ Requests(sent)' = Requests(sent) /\ Requests(answers)' = Requests(answers')
  BY <1>2 DEF OnceOn, Requests, Messages
<1>12. Requests(answers') \subseteq Requests(answers)
  BY <1>3 DEF Requests
<1>13. ScheduledInv'
  BY <1>1, <1>2 DEF ScheduledInv
<1>14. IdInv'
  <2>1. msgID' = msgID /\ pending' \subseteq pending
    BY <1>2
  <2> QED
    BY <1>1, <1>3, <1>11, <2>1 DEF IdInv
<1>15. BeforeRun'
  BY <1>1, <1>2, <1>11 DEF BeforeRun
<1>16. AfterRun'
  <2>1. \A r \in Requests(answers') : r \in Request /\ r # msg[2]
    BY <1>1, <1>3, MessageOnWire
  <2>2. \A r \in Requests(answers') : called'[r] = <<>>
    BY <1>1, <1>6, <1>7, <1>12, <2>1 DEF AfterRun
  <2>3. \A r \in Request : r \in Requests(answers') \/ called'[r] # <<>> => handled'[r] = 1
    BY <1>1, <1>2, <1>5, <1>6, <1>7, <1>12 DEF AfterRun
  <2> QED
    BY <1>3, <1>11, <2>2, <2>3 DEF AfterRun
<1> QED
  BY <1>8, <1>9, <1>10, <1>13, <1>14, <1>15, <1>16 DEF IInv, RequestInv

LEMMA IInvStep == IInv /\ [Next]_vars => IInv'
<1> SUFFICES ASSUME IInv, [Next]_vars PROVE IInv'
  OBVIOUS
<1>0. TypeOK /\ RequestInv
  BY DEF IInv
<1>1. ASSUME NEW r \in Request, Send(r) PROVE IInv'
  BY <1>1, SendConnected, SendDisconnected
<1>2. ASSUME NEW p \in Page, OnConnected(p) \/ ClosePage(p) PROVE IInv'
  <2>1. UNCHANGED <<connVars, isConnected, requestVars, wireVars>>
    BY <1>2 DEF OnConnected, ClosePage
  <2>2. onConnectedCB' \in Page \cup {Nobody} /\ asked' \subseteq Page /\ closed' \subseteq Page
    BY <1>0, <1>2 DEF OnConnected, ClosePage, TypeOK
  <2>3. TypeOK'
    BY <1>0, <2>1, <2>2 DEF TypeOK, connVars, requestVars, wireVars
  <2> QED
    BY <1>0, <2>1, <2>3, NoRequestMoves DEF IInv
<1>3. ASSUME NEW s \in Socket, Closed(s) \/ ConnectFails(s) PROVE IInv'
  <2>1. CloseSocket(s) /\ failures' \in 0..MaxFailures
    BY <1>0, <1>3, MaxFailuresAssumption DEF Closed, ConnectFails, TypeOK
  <2>2. TypeOK'
    BY <1>0, <2>1 DEF CloseSocket, TimersAfterClose, TypeOK, pageVars, requestVars, wireVars
  <2> QED
    BY <1>0, <2>1, <2>2, NoRequestMoves DEF IInv, CloseSocket
<1>4. CASE Reconnect
  <2>1. Open(TRUE) /\ UNCHANGED <<failures, isConnected, pageVars, requestVars, wireVars>>
    BY <1>4 DEF Reconnect
  <2>2. timers' \in Nat
    BY <1>0, <1>4 DEF Reconnect, TypeOK
  <2>3. TypeOK'
    BY <1>0, <2>1, <2>2, OpenTyped DEF TypeOK, pageVars, requestVars, wireVars
  <2> QED
    BY <1>0, <2>1, <2>3, NoRequestMoves DEF IInv
<1>5. CASE UNCHANGED vars
  <2>1. TypeOK'
    BY <1>0, <1>5 DEF TypeOK, vars, connVars, pageVars, requestVars, wireVars
  <2> QED
    BY <1>0, <1>5, <2>1, NoRequestMoves DEF IInv, vars
<1>6. ASSUME NEW s \in Socket, SocketEvent(s) \/ Serve(s) \/ ServerLeaves(s) PROVE IInv'
  BY <1>3, <1>6, OpenedKeeps, GoesDownKeeps, ReceiveKeeps, ServeKeeps, ServerLeavesKeeps
     DEF SocketEvent
<1> QED
  BY <1>1, <1>2, <1>4, <1>5, <1>6 DEF Next

LEMMA IInvInvariance == Spec => []IInv
BY InitIInv, IInvStep, PTL DEF Spec

-----------------------------------------------------------------------------
\* Over any connections, however often they fail, the server runs a request at
\* most once, and a callback is called at most once and with the answer to its
\* own request (gmclient.js and websocket.go).
THEOREM RunOnceAnsweredOnce == Spec => []CalledBackRight
<1>1. IInv => CalledBackRight
  BY DEF IInv, RequestInv
<1> QED
  BY <1>1, IInvInvariance, PTL

\* No request is lost track of by send, ws.onopen and ws.onmessage: it is
\* scheduled, pending under an id of its own, or called back.
THEOREM NoneForgotten == Spec => []Accounted
<1>1. IInv => Accounted
  BY DEF IInv, RequestInv, Traced, Accounted
<1> QED
  BY <1>1, IInvInvariance, PTL
=============================================================================
