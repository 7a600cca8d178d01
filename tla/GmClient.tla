------------------------------ MODULE GmClient ------------------------------
(***************************************************************************)
(* gmclient.js: requests of the extension's pages over a WebSocket that    *)
(* reconnects (reconnecting-websocket.js), and the server's goroutine for  *)
(* each connection (websocket.go).  JavaScript runs one event handler at a *)
(* time, so each handler, the calls it makes included, is a step.          *)
(*                                                                         *)
(* ReconnectingWebSocket.open makes a new WebSocket whatever the old one   *)
(* does, and the variable ws holds the last one made; the others live on   *)
(* with their handlers.  Sockets are numbered in the order they are made.  *)
(***************************************************************************)
EXTENDS Integers, Sequences, FiniteSets

CONSTANTS
  Request,        \* calls of getTagsTree, addTag, ...: each is made once
  Page,           \* pages of the extension that call onConnected
  Nobody,         \* no callback in onConnectedCB
  MaxFailures     \* bound: connections that fail or are lost

ASSUME NobodyAssumption == Nobody \notin Page
ASSUME MaxFailuresAssumption == MaxFailures \in Nat
ASSUME RequestAssumption == IsFiniteSet(Request)

\* One socket is made at the start, one by a call of send while disconnected,
\* one after each failure: there are no more than these.
Socket == 1..(1 + Cardinality(Request) + MaxFailures)
Null == 0

VARIABLES
  phase,         \* of each socket: "none" or its readyState
  reconnect,     \* the variable reconnectAttempt of its handlers
  ws,            \* the last socket made, or Null
  timers,        \* number of reconnection timers that run
  failures,      \* number of connections that have failed
  isConnected,
  onConnectedCB, \* the page whose callback it is
  asked,         \* pages that have called onConnected
  closed,        \* pages that are gone: the port of such a page throws
  scheduled,     \* scheduledRequests
  msgID,
  pending,       \* pendingRequests as pairs <<id, request>>
  made,          \* requests made
  sent,          \* messages to the server, by socket
  answers,       \* messages to the client, by socket
  handled,       \* how often the server has run a request
  called         \* what the callback of a request was called with

connVars == <<phase, reconnect, ws, timers, failures>>
pageVars == <<onConnectedCB, asked, closed>>
requestVars == <<scheduled, msgID, pending, made>>
wireVars == <<sent, answers, handled, called>>
vars == <<connVars, isConnected, pageVars, requestVars, wireVars>>

Message == Nat \X Request

TypeOK ==
  /\ phase \in [Socket -> {"none", "connecting", "open", "closing", "closed"}]
  /\ reconnect \in [Socket -> BOOLEAN]
  /\ ws \in Socket \cup {Null}
  /\ timers \in Nat /\ failures \in 0..MaxFailures
  /\ isConnected \in BOOLEAN
  /\ onConnectedCB \in Page \cup {Nobody}
  /\ asked \subseteq Page /\ closed \subseteq Page
  /\ scheduled \in Seq(Request)
  /\ msgID \in Nat
  /\ pending \subseteq Message
  /\ \A m, n \in pending : m[1] = n[1] => m = n
  /\ made \subseteq Request
  /\ sent \in [Socket -> Seq(Message)] /\ answers \in [Socket -> Seq(Message)]
  /\ handled \in [Request -> Nat]
  /\ called \in [Request -> Seq(Request)]

Init ==
  /\ phase = [s \in Socket |-> IF s = 1 THEN "connecting" ELSE "none"]
  /\ reconnect = [s \in Socket |-> FALSE]
  /\ ws = 1
  /\ timers = 0 /\ failures = 0
  /\ isConnected = FALSE
  /\ onConnectedCB = Nobody
  /\ asked = {} /\ closed = {}
  /\ scheduled = <<>>
  /\ msgID = 0
  /\ pending = {}
  /\ made = {}
  /\ sent = [s \in Socket |-> <<>>] /\ answers = [s \in Socket |-> <<>>]
  /\ handled = [r \in Request |-> 0]
  /\ called = [r \in Request |-> <<>>]

-----------------------------------------------------------------------------
(* ReconnectingWebSocket *)

\* open: a new socket takes the place of the one in ws.
Open(isReconnect) ==
  \E s \in Socket :
    /\ phase[s] = "none"
    /\ \A t \in Socket : t < s => phase[t] # "none"
    /\ phase' = [phase EXCEPT ![s] = "connecting"]
    /\ reconnect' = [reconnect EXCEPT ![s] = isReconnect]
    /\ ws' = s

\* What WebSocket.send does in the state of ws: it throws while there is no
\* socket or it is connecting, and drops the data when the socket is closing.
WsThrows(ph) == ws = Null \/ ph[ws] = "connecting"
WsSends(ph) == ws # Null /\ ph[ws] = "open"

\* The messages for the requests rs with the next ids.
Numbered(rs) == [i \in DOMAIN rs |-> <<msgID + i, rs[i]>>]
Elements(seq) == {seq[i] : i \in DOMAIN seq}

\* send while isConnected, for the requests rs in turn: a request gets an id
\* and is pending before WebSocket.send is called; when that throws, the rest
\* of rs is not looked at.
Transmit(rs, ph) ==
  LET tried == IF WsThrows(ph) THEN DOMAIN rs \cap {1} ELSE DOMAIN rs
      msgs  == [i \in tried |-> Numbered(rs)[i]]
  IN  /\ msgID' = msgID + Len(msgs)
      /\ pending' = pending \cup Elements(msgs)
      /\ sent' = IF WsSends(ph) THEN [sent EXCEPT ![ws] = @ \o msgs] ELSE sent

-----------------------------------------------------------------------------
(* The API *)

\* send
Send(r) ==
  /\ r \in Request \ made
  /\ made' = made \cup {r}
  /\ \/ /\ isConnected
        /\ Transmit(<<r>>, phase)
        /\ UNCHANGED <<scheduled, connVars>>
     \/ /\ ~isConnected
        /\ scheduled' = Append(scheduled, r)
        /\ Open(FALSE)
        /\ UNCHANGED <<msgID, pending, sent, timers, failures>>
  /\ UNCHANGED <<isConnected, pageVars, answers, handled, called>>

\* onConnected(true, cb) takes the place of a callback that waits.
OnConnected(p) ==
  /\ p \in Page \ (asked \cup closed)
  /\ asked' = asked \cup {p}
  /\ onConnectedCB' = IF isConnected THEN Nobody ELSE p
  /\ UNCHANGED <<connVars, isConnected, closed, requestVars, wireVars>>

\* The page goes, and the port its callback would write to.
ClosePage(p) ==
  /\ p \in Page \ closed
  /\ closed' = closed \cup {p}
  /\ UNCHANGED <<connVars, isConnected, onConnectedCB, asked, requestVars, wireVars>>

-----------------------------------------------------------------------------
(* Events of the sockets *)

\* (variants: the list is not cleared; it is cleared even if a send has thrown)
LeftAfterFlush_NotCleared(ph) == scheduled
LeftAfterFlush_AlwaysCleared(ph) == <<>>

\* The scheduled requests when ws.onopen is over, or has been left by the
\* exception of a send.
LeftAfterFlush(ph) == IF WsThrows(ph) THEN scheduled ELSE <<>>

\* ws.onopen: a callback that throws ends it at once, and stays registered.
OnOpen(ph) ==
  /\ isConnected' = TRUE
  /\ IF onConnectedCB \in closed
       THEN UNCHANGED <<onConnectedCB, scheduled, msgID, pending, sent>>
       ELSE /\ onConnectedCB' = Nobody
            /\ Transmit(scheduled, ph)
            /\ scheduled' = LeftAfterFlush(ph)
  /\ UNCHANGED <<asked, closed, made>>

\* A socket is open.  Its handler reads ws.protocol, which throws if there is no
\* ws by now; then no event is dispatched.
Opened(s) ==
  /\ phase[s] = "connecting"
  /\ phase' = [phase EXCEPT ![s] = "open"]
  /\ IF ws = Null
       THEN UNCHANGED <<reconnect, isConnected, pageVars, requestVars, sent>>
       ELSE reconnect' = [reconnect EXCEPT ![s] = FALSE] /\ OnOpen(phase')
  /\ UNCHANGED <<ws, timers, failures, answers, handled, called>>

\* The connection goes down: nothing is sent or received on the socket.
GoesDown(s) ==
  /\ phase[s] = "open"
  /\ failures < MaxFailures
  /\ phase' = [phase EXCEPT ![s] = "closing"]
  /\ failures' = failures + 1
  /\ answers' = [answers EXCEPT ![s] = <<>>]
  /\ UNCHANGED <<reconnect, ws, timers, isConnected, pageVars, requestVars, sent,
                 handled, called>>

\* (variant: no timer is started, as "TODO: reconnect" in gmclient.js has it)
TimersAfterClose_None(s) == timers

\* ws.onclose starts a timer to reconnect, whichever socket has closed.
TimersAfterClose(s) == timers + 1

\* ws.onclose clears ws, which all sockets share.  The client hears of it unless
\* this was a reconnection attempt that has not succeeded.
CloseSocket(s) ==
  /\ phase' = [phase EXCEPT ![s] = "closed"]
  /\ ws' = Null
  /\ timers' = TimersAfterClose(s)
  /\ isConnected' = (isConnected /\ reconnect[s])
  /\ UNCHANGED <<reconnect, pageVars, requestVars, wireVars>>

Closed(s) ==
  /\ phase[s] = "closing"
  /\ CloseSocket(s)
  /\ UNCHANGED failures

\* The server is not reached, or not within timeoutInterval.
ConnectFails(s) ==
  /\ phase[s] = "connecting"
  /\ failures < MaxFailures
  /\ CloseSocket(s)
  /\ failures' = failures + 1

Reconnect ==
  /\ timers > 0
  /\ timers' = timers - 1
  /\ Open(TRUE)
  /\ UNCHANGED <<failures, isConnected, pageVars, requestVars, wireVars>>

\* (variant: only the socket in ws is listened to)
Listens_LastOnly(s) == phase[s] = "open" /\ ws = s

\* Messages are taken from any open socket, in ws or not.
Listens(s) == phase[s] = "open"

\* ws.onmessage
Receive(s) ==
  /\ Listens(s)
  /\ answers[s] # <<>>
  /\ LET msg == Head(answers[s])
         owners == {r \in Request : <<msg[1], r>> \in pending}
     IN  /\ called' = [r \in Request |-> IF r \in owners THEN Append(called[r], msg[2])
                                         ELSE called[r]]
         /\ pending' = {m \in pending : m[1] # msg[1]}
  /\ answers' = [answers EXCEPT ![s] = Tail(@)]
  /\ UNCHANGED <<connVars, isConnected, pageVars, scheduled, msgID, made, sent,
                 handled>>

-----------------------------------------------------------------------------
(* The goroutine of a connection runs one request after the other.  What was *)
(* sent before the client saw the connection go down may still be run.        *)

Serve(s) ==
  /\ sent[s] # <<>>
  /\ LET msg == Head(sent[s])
     IN  /\ handled' = [handled EXCEPT ![msg[2]] = @ + 1]
         /\ answers' = IF phase[s] = "open"
                         THEN [answers EXCEPT ![s] = Append(@, msg)] ELSE answers
  /\ sent' = [sent EXCEPT ![s] = Tail(@)]
  /\ UNCHANGED <<connVars, isConnected, pageVars, requestVars, called>>

\* conn.NextReader or NextWriter fails: the goroutine ends.
ServerLeaves(s) ==
  /\ phase[s] \in {"closing", "closed"}
  /\ sent[s] # <<>>
  /\ sent' = [sent EXCEPT ![s] = <<>>]
  /\ UNCHANGED <<connVars, isConnected, pageVars, requestVars, answers, handled,
                 called>>

-----------------------------------------------------------------------------
SocketEvent(s) ==
  Opened(s) \/ GoesDown(s) \/ Closed(s) \/ ConnectFails(s) \/ Receive(s)

Next ==
  \/ \E r \in Request : Send(r)
  \/ \E p \in Page : OnConnected(p) \/ ClosePage(p)
  \/ \E s \in Socket : SocketEvent(s) \/ Serve(s) \/ ServerLeaves(s)
  \/ Reconnect

Spec == Init /\ [][Next]_vars

\* Connections fail a bounded number of times; then the server can be reached,
\* and an attempt to connect, a timer, a message and its answer come to an end.
FairSpec ==
  /\ Spec
  /\ WF_vars(Reconnect)
  /\ \A s \in Socket : /\ WF_vars(Opened(s)) /\ WF_vars(Closed(s))
                       /\ WF_vars(Serve(s)) /\ WF_vars(Receive(s))

-----------------------------------------------------------------------------
\* The server runs no request twice, whatever connections came and went in between,
\* so that what is sent again when a socket opens has not been sent before; and its
\* callback is called at most once, with the answer to that request ("should never
\* happen", as send says of an id in use).
CalledBackRight ==
  \A r \in Request : handled[r] <= 1 /\ called[r] \in {<<>>, <<r>>}

\* The client loses track of no request: it is scheduled, pending or answered, and
\* pending under an id of its own.
Accounted ==
  /\ TypeOK
  /\ \A r \in made :
       \/ r \in Elements(scheduled)
       \/ \E m \in pending : m[2] = r
       \/ called[r] # <<>>

\* A request that was scheduled while the connection was down is sent in the
\* end, if the page whose callback waits is still there.
ScheduledAreSent ==
  \A r \in Request :
    r \in Elements(scheduled) ~>
      (r \notin Elements(scheduled) \/ onConnectedCB \in closed)

\* A request on a connection that stays up is answered.
OnTheWay(r, s) == \E m \in Elements(sent[s]) \cup Elements(answers[s]) : m[2] = r
AnsweredWhileUp ==
  \A r \in Request, s \in Socket :
    OnTheWay(r, s) ~> (called[r] # <<>> \/ phase[s] # "open")

=============================================================================
