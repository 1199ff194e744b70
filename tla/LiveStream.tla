------------------------------ MODULE LiveStream -------------------------------
(***************************************************************************)
(* The stream of the dashboard: api/websocket.py, a handler for each        *)
(* connection and a manager that broadcasts to all of them, and the client, *)
(* dashboard/lib/websocket.ts, which reconnects.  A client makes sockets    *)
(* one after the other; the events of all of them change the same fields.   *)
(* Nothing calls the broadcast or the client yet: the callers are any.      *)
(* What is sent after the first message of a socket is left out.            *)
(***************************************************************************)
EXTENDS Integers, FiniteSets

CONSTANTS MaxSockets,    (* bound: sockets ever made                         *)
          MaxAttempts,   (* maxReconnectAttempts: 5                          *)
          MaxConnects    (* bound: calls of connect from outside that make one *)

ASSUME StreamAssumption == {MaxSockets, MaxAttempts, MaxConnects} \subseteq Nat

VARIABLES socket,        (* what the client, the line and the handler make   *)
                         (* of a socket                                      *)
          ws,            (* the client's current socket, or NoSocket         *)
          tries,         (* reconnectAttempts                                *)
          timers,        (* pending setTimeouts                              *)
          pinging,       (* intervals that run, by the socket they began at  *)
          pingInterval,  (* the one it can clear, or NoSocket                *)
          active,        (* active_connections                               *)
          broadcast,     (* the broadcast under way, or NoBroadcast          *)
          greeted,       (* history: the first message of a socket           *)
          connects       (* history: calls from outside that made a socket   *)

clientVars == <<ws, tries, timers, pinging, pingInterval, connects>>
serverVars == <<active, broadcast, greeted>>
streamVars == <<socket, clientVars, serverVars>>

Socket == 1..MaxSockets
NoSocket == 0
NoBroadcast == [to |-> {}, done |-> {}, failed |-> {}, size |-> 0]

Made == {s \in Socket : socket[s].client # "none"}
Live == {s \in Socket : socket[s].client \in {"connecting", "open", "closing"}}

-------------------------------------------------------------------------------
(* websocket.ts.  A socket that is not open yet does not keep connect from  *)
(* making another.                                                          *)
Opens == ws \notin {s \in Socket : socket[s].client = "open"}

NewSocket ==
  LET s == Cardinality(Made) + 1
  IN  /\ s \in Socket
      /\ socket' = [socket EXCEPT ![s] = [client |-> "connecting", up |-> TRUE, handler |-> "accepting"]]
      /\ ws' = s

Connect ==
  /\ connects < MaxConnects /\ Opens /\ NewSocket
  /\ connects' = connects + 1
  /\ UNCHANGED <<tries, timers, pinging, pingInterval, serverVars>>

TimerFires ==
  /\ timers > 0
  /\ timers' = timers - 1
  /\ IF Opens THEN NewSocket ELSE UNCHANGED <<socket, ws>>
  /\ UNCHANGED <<tries, pinging, pingInterval, connects, serverVars>>

OnOpen(s) ==
  /\ socket[s].client = "connecting" /\ socket[s].up /\ socket[s].handler # "accepting"
  /\ socket' = [socket EXCEPT ![s].client = "open"]
  /\ tries' = 0
  /\ pinging' = pinging \cup {s} /\ pingInterval' = s
  /\ UNCHANGED <<ws, timers, connects, serverVars>>

StopPing == pinging' = pinging \ {pingInterval} /\ pingInterval' = NoSocket

AttemptReconnect ==
  IF tries < MaxAttempts THEN tries' = tries + 1 /\ timers' = timers + 1
  ELSE UNCHANGED <<tries, timers>>

(* Mutation of OnClose: an error, which comes before the close, reconnects  *)
(* as well.                                                                 *)
OnCloseAndError(s) ==
  /\ s \in Live /\ ~socket[s].up
  /\ socket' = [socket EXCEPT ![s].client = "closed"]
  /\ StopPing
  /\ tries' = tries + 2 /\ timers' = timers + 2
  /\ UNCHANGED <<ws, connects, serverVars>>

OnClose(s) ==
  /\ s \in Live /\ ~socket[s].up
  /\ socket' = [socket EXCEPT ![s].client = "closed"]
  /\ StopPing /\ AttemptReconnect
  /\ UNCHANGED <<ws, connects, serverVars>>

(* close() is followed by onclose, as any end of a connection is.           *)
Disconnect ==
  /\ StopPing
  /\ ws' = NoSocket
  /\ socket' = IF ws \in Live
               THEN [socket EXCEPT ![ws].client = "closing", ![ws].up = FALSE]
               ELSE socket
  /\ UNCHANGED <<tries, timers, connects, serverVars>>

LineDrops(s) ==
  /\ s \in Live /\ socket[s].up
  /\ socket' = [socket EXCEPT ![s].up = FALSE]
  /\ UNCHANGED <<clientVars, serverVars>>

-------------------------------------------------------------------------------
(* websocket.py.  Between joining the manager and the first message there   *)
(* is no await.                                                             *)
Accept(s) ==
  /\ socket[s].handler = "accepting"
  /\ IF socket[s].up
     THEN /\ socket' = [socket EXCEPT ![s].handler = "serving"]
          /\ active' = active \cup {s}
          /\ greeted' = [greeted EXCEPT ![s] = "initial"]
     ELSE /\ socket' = [socket EXCEPT ![s].handler = "ended"]
          /\ UNCHANGED <<active, greeted>>
  /\ UNCHANGED <<broadcast, clientVars>>

(* The handler hears of the end of the connection when it receives or       *)
(* sends; or it raises, and its end is the end of the connection.           *)
HandlerEnds(s) ==
  /\ socket[s].handler = "serving"
  /\ socket' = [socket EXCEPT ![s].handler = "ended", ![s].up = FALSE]
  /\ active' = active \ {s}
  /\ UNCHANGED <<broadcast, greeted, clientVars>>

BroadcastBegins ==
  /\ broadcast = NoBroadcast /\ active # {}
  /\ broadcast' = [to |-> active, done |-> {}, failed |-> {}, size |-> Cardinality(active)]
  /\ UNCHANGED <<socket, active, greeted, clientVars>>

(* The set being iterated over must not change its size at any await; then  *)
(* the broadcast raises, and the connections that failed stay.  Sending     *)
(* over a broken line may or may not fail.                                  *)
SizeChanged == Cardinality(active) # broadcast.size

SendTo(s) ==
  /\ broadcast # NoBroadcast /\ ~SizeChanged /\ s \in active \ broadcast.done
  /\ \E lost \in (IF socket[s].up THEN {{}} ELSE {{}, {s}}) :
       broadcast' = [broadcast EXCEPT !.done = @ \cup {s}, !.failed = @ \cup lost]
  /\ greeted' = [greeted EXCEPT ![s] = IF @ = "nothing" THEN "event" ELSE @]
  /\ UNCHANGED <<socket, active, clientVars>>

BroadcastRaises ==
  /\ broadcast # NoBroadcast /\ SizeChanged
  /\ broadcast' = NoBroadcast
  /\ UNCHANGED <<socket, active, greeted, clientVars>>

BroadcastEnds ==
  /\ broadcast # NoBroadcast /\ ~SizeChanged
  /\ (active \cap broadcast.to) \subseteq broadcast.done
  /\ active' = active \ broadcast.failed
  /\ broadcast' = NoBroadcast
  /\ UNCHANGED <<socket, greeted, clientVars>>

-------------------------------------------------------------------------------
StreamInit ==
  /\ socket = [s \in Socket |-> [client |-> "none", up |-> FALSE, handler |-> "none"]]
  /\ ws = NoSocket /\ tries = 0 /\ timers = 0
  /\ pinging = {} /\ pingInterval = NoSocket
  /\ active = {} /\ broadcast = NoBroadcast
  /\ greeted = [s \in Socket |-> "nothing"] /\ connects = 0

StreamNext ==
  \/ Connect \/ TimerFires \/ Disconnect
  \/ BroadcastBegins \/ BroadcastRaises \/ BroadcastEnds
  \/ \E s \in Socket : OnOpen(s) \/ OnClose(s) \/ LineDrops(s) \/ Accept(s) \/ HandlerEnds(s) \/ SendTo(s)

-------------------------------------------------------------------------------
(* The manager knows the connections that have a handler, but for those a   *)
(* broadcast found broken first, and every connection is greeted before     *)
(* anything else reaches it.  Reconnecting never multiplies connections: a  *)
(* call from outside leads to one socket or one timer at a time.  A client  *)
(* connected once pings over the connection it has and over no other; one   *)
(* connected twice may leave intervals behind that nothing ever clears.     *)
StreamSound ==
  /\ \A s \in active : socket[s].handler = "serving"
  /\ \A s \in Socket \ active : socket[s].handler = "serving" => ~socket[s].up
  /\ \A s \in Socket : greeted[s] \in {"nothing", "initial"}
  /\ Cardinality(Live) + timers <= connects
  /\ connects = 1 => pinging = {s \in Socket : socket[s].client = "open"}
===============================================================================
