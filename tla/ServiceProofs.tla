------------------------------ MODULE ServiceProofs ----------------------------
(***************************************************************************)
(* Proofs about the services around the engine, each for any value of its   *)
(* constants.                                                               *)
(*                                                                          *)
(* LiveStream.  The inductive invariant is StreamInv.  That a reconnection  *)
(* does not multiply connections rests on the sockets being made one after  *)
(* the other (Counting), and that pings go where the connection is, on      *)
(* there being one: a socket that is not closing is the current one, and    *)
(* the interval that can be cleared is its own (Alone).                     *)
(*                                                                          *)
(* Reconciler.  ReconcileInv: failures counted in a row are those of the    *)
(* last looks, and drift that nothing explains was counted when it was      *)
(* looked for.                                                              *)
(*                                                                          *)
(* TradeRecords.  RecordsInv: a row and the steps its tasks have still to   *)
(* do add up to what happened, unless one of the named errors struck it.    *)
(*                                                                          *)
(* OptimizerSession, ParameterSearch.  SessionInv: what each reason for     *)
(* figures that are not of the candidate promises all the same.  SearchInv: *)
(* the types.  WindowsInv: where the next window begins.                    *)
(*                                                                          *)
(* BacktestEngine, SimpleBacktester.  EngineInv and SimpleInv: the account  *)
(* is balanced (Balanced, Booked), with what is invested as a sum that a    *)
(* position enters and leaves, and what is open has been seen at a price.   *)
(* That a score refuses nothing is arithmetic on its conditions.            *)
(*                                                                          *)
(* MarketData.  ListInv: the rounds begin at the same places again, and no  *)
(* symbol has more rounds behind it and before it than there are symbols.   *)
(* BufferInv: a buffer in order that holds the newest of what it was given, *)
(* of answers that may be in any order.                                     *)
(*                                                                          *)
(* CandleHistory.  HistoryInv: what was asked for is stored, lost, or still *)
(* to come in a request at work, and a page that leaves out anything it was *)
(* asked for is full and newer than that.                                   *)
(*                                                                          *)
(* RegimeSwitch.  RegimeSettles is inductive, given the types (RegimeInv).  *)
(***************************************************************************)
EXTENDS MCServices, SetProofs, SequenceTheorems

-------------------------------------------------------------------------------
(* LiveStream                                                               *)

SocketState ==
  [client : {"none", "connecting", "open", "closing", "closed"}, up : BOOLEAN,
   handler : {"none", "accepting", "serving", "ended"}]

StreamTypeOK ==
  /\ socket \in [Socket -> SocketState]
  /\ ws \in Socket \cup {NoSocket}
  /\ tries \in Nat /\ timers \in Nat /\ connects \in Nat
  /\ pinging \subseteq Socket
  /\ active \subseteq Socket
  /\ broadcast \in [to : SUBSET Socket, done : SUBSET Socket, failed : SUBSET Socket, size : Nat]

Open == {s \in Socket : socket[s].client = "open"}

Counting ==
  /\ \E n \in 0..MaxSockets : Made = 1..n
  /\ Cardinality(Live) + timers <= connects

Serving ==
  /\ \A s \in active : socket[s].handler = "serving"
  /\ \A s \in Socket \ active : socket[s].handler = "serving" => ~socket[s].up
  /\ \A s \in broadcast.failed : ~socket[s].up /\ s \in Made
  /\ greeted \in [Socket -> {"nothing", "initial"}]
  /\ \A s \in active : greeted[s] = "initial"
  /\ \A s \in Socket : s \notin Made => socket[s].handler = "none"

Alone ==
  connects <= 1 =>
    /\ pinging = Open
    /\ \A s \in Open : pingInterval = s
    /\ \A s \in Socket : socket[s].client \in {"connecting", "open"} => ws = s

StreamInv == StreamTypeOK /\ Counting /\ Serving /\ Alone

(* There are finitely many sockets.                                         *)
LEMMA SocketsFinite ==
  /\ IsFiniteSet(Socket) /\ NoSocket \notin Socket
  /\ \A S : S \subseteq Socket => IsFiniteSet(S) /\ Cardinality(S) \in Nat
<1>1. MaxSockets \in Nat  BY StreamAssumption
<1>2. IsFiniteSet(Socket)  BY <1>1, FS_Interval DEF Socket
<1>3. QED  BY <1>1, <1>2, FS_Subset, FS_CardinalityType DEF Socket, NoSocket
(* A new socket is the next one.                                            *)
LEMMA NewSocketFacts ==
  ASSUME StreamInv, NewSocket
  PROVE  \E s \in Socket :
           /\ s \notin Made /\ ws' = s
           /\ socket' = [socket EXCEPT ![s] = [client |-> "connecting", up |-> TRUE, handler |-> "accepting"]]
           /\ socket' \in [Socket -> SocketState]
           /\ Made' = Made \cup {s} /\ Live' = Live \cup {s} /\ Open' = Open
           /\ Cardinality(Live)' = Cardinality(Live) + 1
           /\ \E n \in 0..MaxSockets : Made' = 1..n
<1> DEFINE s == Cardinality(Made) + 1
<1>1. /\ s \in Socket /\ ws' = s
      /\ socket' = [socket EXCEPT ![s] = [client |-> "connecting", up |-> TRUE, handler |-> "accepting"]]
  BY DEF NewSocket
<1>2. PICK n \in 0..MaxSockets : Made = 1..n
  BY DEF StreamInv, Counting
<1>3. MaxSockets \in Nat /\ n \in Nat
  BY StreamAssumption
<1>4. Cardinality(Made) = n
  BY <1>2, <1>3, FS_Interval
<1>5. s \notin Made /\ n + 1 \in 0..MaxSockets
  BY <1>1, <1>2, <1>3, <1>4 DEF Socket
<1>6. socket \in [Socket -> SocketState]
  BY DEF StreamInv, StreamTypeOK
<1>7. [client |-> "connecting", up |-> TRUE, handler |-> "accepting"] \in SocketState
  BY DEF SocketState
<1> HIDE DEF s
<1>8. socket' \in [Socket -> SocketState]
  BY <1>1, <1>6, <1>7
<1>9. /\ socket'[s].client = "connecting"
      /\ \A t \in Socket \ {s} : socket'[t] = socket[t]
  BY <1>1, <1>6
<1>10. socket[s].client = "none"
  BY <1>1, <1>5 DEF Made
<1>11. Made' = Made \cup {s} /\ Live' = Live \cup {s} /\ Open' = Open /\ s \notin Live
  BY <1>1, <1>9, <1>10 DEF Made, Live, Open
<1>12. Cardinality(Live)' = Cardinality(Live) + 1
  <2>1. IsFiniteSet(Live)  BY SocketsFinite DEF Live
  <2>2. Cardinality(Live \cup {s}) = Cardinality(Live) + 1
    BY <1>11, <2>1, FS_AddElement
  <2>3. QED  BY <1>11, <2>2
<1>13. Made' = 1..(n + 1)
  BY <1>2, <1>3, <1>4, <1>11 DEF s
<1>14. QED
  BY <1>1, <1>5, <1>8, <1>11, <1>12, <1>13

(* A socket that changes for the worse.                                     *)
LEMMA SocketFalls ==
  ASSUME StreamInv, NEW s \in Socket, s \in Live, NEW client \in {"closing", "closed"},
         socket' \in [Socket -> SocketState],
         socket'[s].client = client, socket'[s].handler = socket[s].handler, ~socket'[s].up,
         \A t \in Socket \ {s} : socket'[t] = socket[t]
  PROVE  /\ Made' = Made /\ Open' = Open \ {s}
         /\ client = "closing" => Live' = Live
         /\ client = "closed" => /\ Live' = Live \ {s}
                                 /\ Cardinality(Live)' = Cardinality(Live) - 1
<1>1. socket[s].client \in {"connecting", "open", "closing"}
  BY DEF Live
<1>2. Made' = Made /\ Open' = Open \ {s}
  BY <1>1 DEF Made, Open
<1>3. client = "closing" => Live' = Live
  BY <1>1 DEF Live
<1>4. ASSUME client = "closed"
      PROVE  Live' = Live \ {s} /\ Cardinality(Live)' = Cardinality(Live) - 1
  <2>1. Live' = Live \ {s}  BY <1>4 DEF Live
  <2>2. IsFiniteSet(Live)  BY SocketsFinite DEF Live
  <2>3. Cardinality(Live \ {s}) = Cardinality(Live) - 1  BY <2>2, FS_RemoveElement
  <2>4. QED  BY <2>1, <2>3
<1>5. QED  BY <1>2, <1>3, <1>4

(* While a client was told to connect once, it has one socket that lives.    *)
LEMMA OneLives ==
  ASSUME StreamInv, connects <= 1, NEW s \in Live
  PROVE  Live = {s} /\ timers = 0 /\ connects = 1
<1>1. IsFiniteSet(Live) /\ Cardinality(Live) \in Nat /\ timers \in Nat /\ connects \in Nat
  BY SocketsFinite DEF Live, StreamInv, StreamTypeOK
<1>2. Cardinality(Live) + timers <= connects
  BY DEF StreamInv, Counting
<1>3. Cardinality(Live) # 0
  BY <1>1, FS_EmptySet
<1>4. Cardinality(Live) = 1 /\ timers = 0 /\ connects = 1
  BY <1>1, <1>2, <1>3
<1>5. \E x : Live = {x}
  BY <1>1, <1>4, FS_Singleton
<1>6. QED  BY <1>4, <1>5
(* Initially there is no socket.                                            *)
LEMMA InitStream == StreamInit => StreamInv
<1> SUFFICES ASSUME StreamInit PROVE StreamInv
  OBVIOUS
<1>1. \A s \in Socket : socket[s] = [client |-> "none", up |-> FALSE, handler |-> "none"]
  BY DEF StreamInit
<1>2. StreamTypeOK
  BY <1>1 DEF StreamInit, StreamTypeOK, SocketState, NoBroadcast
<1>3. Made = {} /\ Live = {} /\ Open = {}
  BY <1>1 DEF Made, Live, Open
<1>4. Counting
  <2>1. 0 \in 0..MaxSockets /\ 1..0 = {}  BY StreamAssumption
  <2>2. Cardinality(Live) = 0  BY <1>3, FS_EmptySet
  <2>3. QED  BY <1>3, <2>1, <2>2 DEF Counting, StreamInit
<1>5. Serving
  BY <1>1 DEF Serving, StreamInit, NoBroadcast
<1>6. Alone
  BY <1>1, <1>3 DEF Alone, StreamInit
<1>7. QED  BY <1>2, <1>4, <1>5, <1>6 DEF StreamInv

(* A new socket is known to nobody yet.                                     *)
LEMMA NewSocketServed ==
  ASSUME StreamInv, NewSocket, UNCHANGED serverVars
  PROVE  Serving'
<1>1. PICK s \in Socket :
        /\ s \notin Made
        /\ socket' = [socket EXCEPT ![s] = [client |-> "connecting", up |-> TRUE, handler |-> "accepting"]]
        /\ Made' = Made \cup {s}
  BY NewSocketFacts
<1>2. socket \in [Socket -> SocketState] /\ active \subseteq Socket /\ broadcast.failed \subseteq Socket
  BY DEF StreamInv, StreamTypeOK
<1>3. socket'[s].handler = "accepting" /\ \A t \in Socket \ {s} : socket'[t] = socket[t]
  BY <1>1, <1>2
<1>4. socket[s].handler = "none" /\ s \notin active /\ s \notin broadcast.failed
  BY <1>1 DEF StreamInv, Serving
<1>5. active' = active /\ broadcast' = broadcast /\ greeted' = greeted
  BY DEF serverVars
<1>6. QED
  BY <1>1, <1>2, <1>3, <1>4, <1>5 DEF StreamInv, Serving

(* A call from outside makes one socket.                                    *)
LEMMA ConnectKeeps == ASSUME StreamInv, Connect PROVE StreamInv'
<1>1. PICK s \in Socket :
        /\ s \notin Made /\ ws' = s
        /\ socket' = [socket EXCEPT ![s] = [client |-> "connecting", up |-> TRUE, handler |-> "accepting"]]
        /\ socket' \in [Socket -> SocketState]
        /\ Made' = Made \cup {s} /\ Live' = Live \cup {s} /\ Open' = Open
        /\ Cardinality(Live)' = Cardinality(Live) + 1
        /\ \E n \in 0..MaxSockets : Made' = 1..n
  BY NewSocketFacts DEF Connect
<1>2. /\ connects' = connects + 1 /\ timers' = timers /\ tries' = tries
      /\ pinging' = pinging /\ pingInterval' = pingInterval
      /\ active' = active /\ broadcast' = broadcast
  BY DEF Connect, serverVars
<1>3. /\ connects \in Nat /\ timers \in Nat /\ Cardinality(Live) \in Nat
      /\ Cardinality(Live) + timers <= connects
      /\ socket \in [Socket -> SocketState]
  BY SocketsFinite DEF StreamInv, StreamTypeOK, Counting, Live
<1>4. StreamTypeOK'
  BY <1>1, <1>2, <1>3 DEF StreamInv, StreamTypeOK
<1>5. Counting'
  BY <1>1, <1>2, <1>3 DEF Counting
<1>6. Serving'
  BY NewSocketServed DEF Connect
<1>7. Alone'
  <2> SUFFICES ASSUME connects' <= 1 PROVE Alone'
    BY DEF Alone
  <2>1. connects = 0 /\ Cardinality(Live) = 0
    BY <1>2, <1>3
  <2>2. Live = {}
    BY <2>1, SocketsFinite, FS_EmptySet DEF Live
  <2>3. Open = {} /\ pinging = {}
    <3>1. Open = {}  BY <2>2 DEF Open, Live
    <3>2. QED  BY <2>1, <3>1 DEF StreamInv, Alone
  <2>4. \A t \in Socket \ {s} : socket'[t].client \notin {"connecting", "open"}
    <3>1. \A t \in Socket \ {s} : socket'[t] = socket[t]  BY <1>1, <1>3
    <3>2. \A t \in Socket : socket[t].client \notin {"connecting", "open"}  BY <2>2 DEF Live
    <3>3. QED  BY <3>1, <3>2
  <2>5. QED  BY <1>1, <1>2, <2>3, <2>4 DEF Alone
<1>8. QED  BY <1>4, <1>5, <1>6, <1>7 DEF StreamInv

(* A timer makes one socket at most, and is gone.                            *)
LEMMA TimerKeeps == ASSUME StreamInv, TimerFires PROVE StreamInv'
<1>1. /\ timers > 0 /\ timers' = timers - 1 /\ connects' = connects /\ tries' = tries
      /\ pinging' = pinging /\ pingInterval' = pingInterval
      /\ active' = active /\ broadcast' = broadcast /\ greeted' = greeted
  BY DEF TimerFires, serverVars
<1>2. /\ connects \in Nat /\ timers \in Nat /\ Cardinality(Live) \in Nat
      /\ Cardinality(Live) + timers <= connects
      /\ socket \in [Socket -> SocketState]
  BY SocketsFinite DEF StreamInv, StreamTypeOK, Counting, Live
<1>3. CASE NewSocket
  <2>1. PICK s \in Socket :
          /\ s \notin Made /\ ws' = s
          /\ socket' = [socket EXCEPT ![s] = [client |-> "connecting", up |-> TRUE, handler |-> "accepting"]]
          /\ socket' \in [Socket -> SocketState]
          /\ Made' = Made \cup {s} /\ Live' = Live \cup {s} /\ Open' = Open
          /\ Cardinality(Live)' = Cardinality(Live) + 1
          /\ \E n \in 0..MaxSockets : Made' = 1..n
    BY <1>3, NewSocketFacts
  <2>2. StreamTypeOK'
    BY <1>1, <1>2, <2>1 DEF StreamInv, StreamTypeOK
  <2>3. Counting'
    BY <1>1, <1>2, <2>1 DEF Counting
  <2>4. Serving'
    BY <1>3, NewSocketServed DEF TimerFires
  <2>5. Alone'
    <3> SUFFICES ASSUME connects' <= 1 PROVE Alone'
      BY DEF Alone
    <3>1. Cardinality(Live) = 0 /\ connects <= 1
      BY <1>1, <1>2
    <3>2. Live = {}
      BY <3>1, SocketsFinite, FS_EmptySet DEF Live
    <3>3. Open = {} /\ pinging = {}
      <4>1. Open = {}  BY <3>2 DEF Open, Live
      <4>2. QED  BY <3>1, <4>1 DEF StreamInv, Alone
    <3>4. \A t \in Socket \ {s} : socket'[t].client \notin {"connecting", "open"}
      <4>1. \A t \in Socket \ {s} : socket'[t] = socket[t]  BY <1>2, <2>1
      <4>2. \A t \in Socket : socket[t].client \notin {"connecting", "open"}  BY <3>2 DEF Live
      <4>3. QED  BY <4>1, <4>2
    <3>5. QED  BY <1>1, <2>1, <3>3, <3>4 DEF Alone
  <2>6. QED  BY <2>2, <2>3, <2>4, <2>5 DEF StreamInv
<1>4. CASE UNCHANGED <<socket, ws>>
  <2>1. socket' = socket /\ ws' = ws
    BY <1>4
  <2>2. Made' = Made /\ Live' = Live /\ Open' = Open
    BY <2>1 DEF Made, Live, Open
  <2>3. StreamTypeOK'
    BY <1>1, <1>2, <2>1 DEF StreamInv, StreamTypeOK
  <2>4. Counting'
    BY <1>1, <1>2, <2>2 DEF Counting, StreamInv
  <2>5. Serving' /\ Alone'
    BY <1>1, <2>1, <2>2 DEF StreamInv, Serving, Alone
  <2>6. QED  BY <2>3, <2>4, <2>5 DEF StreamInv
<1>5. QED  BY <1>3, <1>4 DEF TimerFires

(* A socket that opens begins its interval.                                 *)
LEMMA OpenKeeps == ASSUME StreamInv, NEW s \in Socket, OnOpen(s) PROVE StreamInv'
<1>1. /\ socket[s].client = "connecting" /\ socket[s].up
      /\ socket' = [socket EXCEPT ![s].client = "open"]
      /\ tries' = 0 /\ pinging' = pinging \cup {s} /\ pingInterval' = s
      /\ ws' = ws /\ timers' = timers /\ connects' = connects
      /\ active' = active /\ broadcast' = broadcast /\ greeted' = greeted
  BY DEF OnOpen, serverVars
<1>2. socket \in [Socket -> SocketState]
  BY DEF StreamInv, StreamTypeOK
<1>3. /\ socket'[s].client = "open" /\ socket'[s].up = socket[s].up
      /\ socket'[s].handler = socket[s].handler
      /\ \A t \in Socket \ {s} : socket'[t] = socket[t]
  BY <1>1, <1>2 DEF SocketState
<1>4. socket' \in [Socket -> SocketState]
  BY <1>1, <1>2 DEF SocketState
<1>5. Made' = Made /\ Live' = Live /\ Open' = Open \cup {s} /\ s \in Live
  BY <1>1, <1>3 DEF Made, Live, Open
<1>6. StreamTypeOK'
  BY <1>1, <1>4 DEF StreamInv, StreamTypeOK
<1>7. Counting'
  BY <1>1, <1>5 DEF StreamInv, Counting
<1>8. Serving'
  BY <1>1, <1>3, <1>5 DEF StreamInv, StreamTypeOK, Serving
<1>9. Alone'
  <2> SUFFICES ASSUME connects <= 1 PROVE Alone'
    BY <1>1 DEF Alone
  <2>1. Live = {s}  BY <1>5, OneLives
  <2>2. Open = {} /\ pinging = {}
    <3>1. Open = {}  BY <1>1, <2>1 DEF Open, Live
    <3>2. QED  BY <3>1 DEF StreamInv, Alone
  <2>3. \A t \in Socket : socket'[t].client \in {"connecting", "open"} => t = s
    BY <1>5, <2>1 DEF Live
  <2>4. ws = s  BY <1>1 DEF StreamInv, Alone
  <2>5. QED  BY <1>1, <1>5, <2>2, <2>3, <2>4 DEF Alone
<1>10. QED  BY <1>6, <1>7, <1>8, <1>9 DEF StreamInv

(* A socket that closes leaves one timer behind at most.                     *)
LEMMA CloseKeeps == ASSUME StreamInv, NEW s \in Socket, OnClose(s) PROVE StreamInv'
<1>1. /\ s \in Live /\ ~socket[s].up
      /\ socket' = [socket EXCEPT ![s].client = "closed"]
      /\ pinging' = pinging \ {pingInterval} /\ pingInterval' = NoSocket
      /\ ws' = ws /\ connects' = connects
      /\ active' = active /\ broadcast' = broadcast /\ greeted' = greeted
  BY DEF OnClose, StopPing, serverVars
<1>2. /\ socket \in [Socket -> SocketState] /\ tries \in Nat /\ timers \in Nat /\ connects \in Nat
      /\ Cardinality(Live) \in Nat /\ Cardinality(Live) + timers <= connects
  BY SocketsFinite DEF StreamInv, StreamTypeOK, Counting, Live
<1>3. /\ socket'[s].client = "closed" /\ socket'[s].up = socket[s].up
      /\ socket'[s].handler = socket[s].handler
      /\ \A t \in Socket \ {s} : socket'[t] = socket[t]
      /\ socket' \in [Socket -> SocketState]
  BY <1>1, <1>2 DEF SocketState
<1>4. /\ Made' = Made /\ Open' = Open \ {s} /\ Live' = Live \ {s}
      /\ Cardinality(Live)' = Cardinality(Live) - 1
  BY <1>1, <1>3, SocketFalls
<1>5. tries' \in Nat /\ timers' \in Nat /\ timers' <= timers + 1
  BY <1>2 DEF OnClose, AttemptReconnect
<1>6. StreamTypeOK'
  BY <1>1, <1>3, <1>5 DEF StreamInv, StreamTypeOK
<1>7. Counting'
  BY <1>1, <1>2, <1>4, <1>5 DEF StreamInv, Counting
<1>8. Serving'
  BY <1>1, <1>3, <1>4 DEF StreamInv, StreamTypeOK, Serving
<1>9. Alone'
  <2> SUFFICES ASSUME connects <= 1 PROVE Alone'
    BY <1>1 DEF Alone
  <2>1. Live = {s}  BY <1>1, OneLives
  <2>2. \A t \in Socket : socket'[t].client \notin {"connecting", "open"}
    BY <1>4, <2>1 DEF Live
  <2>3. Open' = {} /\ Open \subseteq {s}
    BY <2>1, <2>2 DEF Open, Live
  <2>4. pinging = Open /\ \A t \in Open : pingInterval = t
    BY DEF StreamInv, Alone
  <2>5. pinging' = {}
    BY <1>1, <2>3, <2>4
  <2>6. QED  BY <1>1, <2>2, <2>3, <2>5 DEF Alone
<1>10. QED  BY <1>6, <1>7, <1>8, <1>9 DEF StreamInv

(* A socket that is told to close stops its interval.                        *)
LEMMA DisconnectKeeps == ASSUME StreamInv, Disconnect PROVE StreamInv'
<1>1. /\ pinging' = pinging \ {pingInterval} /\ pingInterval' = NoSocket /\ ws' = NoSocket
      /\ socket' = IF ws \in Live THEN [socket EXCEPT ![ws].client = "closing", ![ws].up = FALSE]
                                  ELSE socket
      /\ tries' = tries /\ timers' = timers /\ connects' = connects
      /\ active' = active /\ broadcast' = broadcast /\ greeted' = greeted
  BY DEF Disconnect, StopPing, serverVars
<1>2. socket \in [Socket -> SocketState]
  BY DEF StreamInv, StreamTypeOK
<1>3. CASE ws \in Live
  <2>1. ws \in Socket
    BY <1>3 DEF Live
  <2>2. /\ socket'[ws].client = "closing" /\ ~socket'[ws].up
        /\ socket'[ws].handler = socket[ws].handler
        /\ \A t \in Socket \ {ws} : socket'[t] = socket[t]
        /\ socket' \in [Socket -> SocketState]
    BY <1>1, <1>2, <1>3, <2>1 DEF SocketState
  <2>3. Made' = Made /\ Open' = Open \ {ws} /\ Live' = Live
    BY <1>3, <2>1, <2>2, SocketFalls
  <2>4. StreamTypeOK'
    BY <1>1, <2>2 DEF StreamInv, StreamTypeOK
  <2>5. Counting'
    BY <1>1, <2>3 DEF StreamInv, Counting
  <2>6. Serving'
    BY <1>1, <2>2, <2>3 DEF StreamInv, StreamTypeOK, Serving
  <2>7. Alone'
    <3> SUFFICES ASSUME connects <= 1 PROVE Alone'
      BY <1>1 DEF Alone
    <3>1. Live = {ws}  BY <1>3, OneLives
    <3>2. \A t \in Socket : socket'[t].client \notin {"connecting", "open"}
      BY <2>2, <3>1 DEF Live
    <3>3. Open' = {} /\ Open \subseteq {ws}
      BY <3>1, <3>2 DEF Open, Live
    <3>4. pinging = Open /\ \A t \in Open : pingInterval = t
      BY DEF StreamInv, Alone
    <3>5. pinging' = {}
      BY <1>1, <3>3, <3>4
    <3>6. QED  BY <1>1, <3>2, <3>3, <3>5 DEF Alone
  <2>8. QED  BY <2>4, <2>5, <2>6, <2>7 DEF StreamInv
<1>4. CASE ws \notin Live
  <2>1. socket' = socket
    BY <1>1, <1>4
  <2>2. Made' = Made /\ Live' = Live /\ Open' = Open
    BY <2>1 DEF Made, Live, Open
  <2>3. StreamTypeOK'
    BY <1>1, <2>1 DEF StreamInv, StreamTypeOK
  <2>4. Counting' /\ Serving'
    BY <1>1, <2>1, <2>2 DEF StreamInv, Counting, Serving
  <2>5. Alone'
    <3> SUFFICES ASSUME connects <= 1 PROVE Alone'
      BY <1>1 DEF Alone
    <3>1. \A t \in Socket : socket[t].client \notin {"connecting", "open"}
      BY <1>4 DEF StreamInv, Alone, Live
    <3>2. Open = {} /\ pinging = {}
      BY <3>1 DEF Open, StreamInv, Alone
    <3>3. QED  BY <1>1, <2>1, <2>2, <3>1, <3>2 DEF Alone
  <2>6. QED  BY <2>3, <2>4, <2>5 DEF StreamInv
<1>5. QED  BY <1>3, <1>4

(* What the line and the handler do to a socket is nothing to the client.    *)
LEMMA ClientUnmoved ==
  ASSUME StreamInv, UNCHANGED clientVars, NEW s \in Socket,
         socket' \in [Socket -> SocketState],
         socket'[s].client = socket[s].client,
         \A t \in Socket \ {s} : socket'[t] = socket[t]
  PROVE  /\ Made' = Made /\ Counting' /\ Alone'
         /\ active' \subseteq Socket /\ broadcast' = broadcast => StreamTypeOK'
<1>1. \A t \in Socket : socket'[t].client = socket[t].client
  OBVIOUS
<1>2. /\ ws' = ws /\ tries' = tries /\ timers' = timers /\ connects' = connects
      /\ pinging' = pinging /\ pingInterval' = pingInterval
  BY DEF clientVars
<1>3. Made' = Made /\ Live' = Live /\ Open' = Open
  BY <1>1 DEF Made, Live, Open
<1>4. Counting'
  BY <1>2, <1>3 DEF StreamInv, Counting
<1>5. Alone'
  BY <1>1, <1>2, <1>3 DEF StreamInv, Alone
<1>6. active' \subseteq Socket /\ broadcast' = broadcast => StreamTypeOK'
  BY <1>2 DEF StreamInv, StreamTypeOK
<1>7. QED  BY <1>3, <1>4, <1>5, <1>6

(* A line that drops.                                                       *)
LEMMA LineKeeps == ASSUME StreamInv, NEW s \in Socket, LineDrops(s) PROVE StreamInv'
<1>1. /\ socket' = [socket EXCEPT ![s].up = FALSE]
      /\ active' = active /\ broadcast' = broadcast /\ greeted' = greeted
      /\ socket \in [Socket -> SocketState] /\ active \subseteq Socket
  BY DEF LineDrops, serverVars, StreamInv, StreamTypeOK
<1>2. /\ socket'[s].client = socket[s].client /\ ~socket'[s].up
      /\ socket'[s].handler = socket[s].handler
      /\ \A t \in Socket \ {s} : socket'[t] = socket[t]
      /\ socket' \in [Socket -> SocketState]
  BY <1>1 DEF SocketState
<1>3. UNCHANGED clientVars
  BY DEF LineDrops
<1>4. Made' = Made /\ Counting' /\ Alone' /\ StreamTypeOK'
  BY <1>1, <1>2, <1>3, ClientUnmoved
<1>5. Serving'
  BY <1>1, <1>2, <1>4 DEF StreamInv, StreamTypeOK, Serving
<1>6. QED  BY <1>4, <1>5 DEF StreamInv

(* A handler that accepts joins the manager and greets.                     *)
LEMMA AcceptKeeps == ASSUME StreamInv, NEW s \in Socket, Accept(s) PROVE StreamInv'
<1>1. /\ socket[s].handler = "accepting"
      /\ broadcast' = broadcast
      /\ socket \in [Socket -> SocketState] /\ active \subseteq Socket
      /\ broadcast.failed \subseteq Socket
  BY DEF Accept, StreamInv, StreamTypeOK
<1>2. UNCHANGED clientVars
  BY DEF Accept
<1>3. s \in Made /\ s \notin active
  BY <1>1 DEF StreamInv, Serving
<1>4. CASE socket[s].up
  <2>1. /\ socket' = [socket EXCEPT ![s].handler = "serving"]
        /\ active' = active \cup {s} /\ greeted' = [greeted EXCEPT ![s] = "initial"]
    BY <1>4 DEF Accept
  <2>2. /\ socket'[s].client = socket[s].client /\ socket'[s].up = socket[s].up
        /\ socket'[s].handler = "serving"
        /\ \A t \in Socket \ {s} : socket'[t] = socket[t]
        /\ socket' \in [Socket -> SocketState]
    BY <1>1, <2>1 DEF SocketState
  <2>3. Made' = Made /\ Counting' /\ Alone' /\ StreamTypeOK'
    BY <1>1, <1>2, <2>1, <2>2, ClientUnmoved
  <2>4. /\ greeted' \in [Socket -> {"nothing", "initial"}]
        /\ \A t \in Socket : greeted'[t] = IF t = s THEN "initial" ELSE greeted[t]
    BY <2>1 DEF StreamInv, Serving
  <2>5. Serving'
    BY <1>1, <1>3, <2>1, <2>2, <2>3, <2>4 DEF StreamInv, Serving
  <2>6. QED  BY <2>3, <2>5 DEF StreamInv
<1>5. CASE ~socket[s].up
  <2>1. /\ socket' = [socket EXCEPT ![s].handler = "ended"]
        /\ active' = active /\ greeted' = greeted
    BY <1>5 DEF Accept
  <2>2. /\ socket'[s].client = socket[s].client /\ socket'[s].up = socket[s].up
        /\ socket'[s].handler = "ended"
        /\ \A t \in Socket \ {s} : socket'[t] = socket[t]
        /\ socket' \in [Socket -> SocketState]
    BY <1>1, <2>1 DEF SocketState
  <2>3. Made' = Made /\ Counting' /\ Alone' /\ StreamTypeOK'
    BY <1>1, <1>2, <2>1, <2>2, ClientUnmoved
  <2>4. Serving'
    BY <1>1, <1>3, <2>1, <2>2, <2>3 DEF StreamInv, Serving
  <2>5. QED  BY <2>3, <2>4 DEF StreamInv
<1>6. QED  BY <1>4, <1>5

(* A handler that ends leaves the manager, and its connection is down.      *)
LEMMA HandlerKeeps == ASSUME StreamInv, NEW s \in Socket, HandlerEnds(s) PROVE StreamInv'
<1>1. /\ socket[s].handler = "serving"
      /\ socket' = [socket EXCEPT ![s].handler = "ended", ![s].up = FALSE]
      /\ active' = active \ {s} /\ broadcast' = broadcast /\ greeted' = greeted
      /\ socket \in [Socket -> SocketState] /\ active \subseteq Socket
      /\ broadcast.failed \subseteq Socket
  BY DEF HandlerEnds, StreamInv, StreamTypeOK
<1>2. UNCHANGED clientVars
  BY DEF HandlerEnds
<1>3. /\ socket'[s].client = socket[s].client /\ ~socket'[s].up
      /\ socket'[s].handler = "ended"
      /\ \A t \in Socket \ {s} : socket'[t] = socket[t]
      /\ socket' \in [Socket -> SocketState]
  BY <1>1 DEF SocketState
<1>4. Made' = Made /\ Counting' /\ Alone' /\ StreamTypeOK'
  BY <1>1, <1>2, <1>3, ClientUnmoved
<1>5. s \in Made
  BY <1>1 DEF StreamInv, Serving
<1>6. Serving'
  BY <1>1, <1>3, <1>4, <1>5 DEF StreamInv, Serving
<1>7. QED  BY <1>4, <1>6 DEF StreamInv

(* The steps of a broadcast leave every socket as it is.                    *)
LEMMA SocketsUnmoved ==
  ASSUME StreamInv, UNCHANGED <<socket, clientVars>>
  PROVE  /\ socket' = socket /\ Made' = Made /\ Counting' /\ Alone'
         /\ active' \subseteq Socket
            /\ broadcast' \in [to : SUBSET Socket, done : SUBSET Socket, failed : SUBSET Socket, size : Nat]
            => StreamTypeOK'
<1>1. /\ socket' = socket /\ ws' = ws /\ tries' = tries /\ timers' = timers
      /\ connects' = connects /\ pinging' = pinging /\ pingInterval' = pingInterval
  BY DEF clientVars
<1>2. Made' = Made /\ Live' = Live /\ Open' = Open
  BY <1>1 DEF Made, Live, Open
<1>3. Counting' /\ Alone'
  BY <1>1, <1>2 DEF StreamInv, Counting, Alone
<1>4. QED  BY <1>1, <1>2, <1>3 DEF StreamInv, StreamTypeOK

(* A broadcast begins, raises or ends: what failed leaves the manager, and   *)
(* is down.                                                                 *)
LEMMA BroadcastKeeps ==
  ASSUME StreamInv, BroadcastBegins \/ BroadcastRaises \/ BroadcastEnds
  PROVE  StreamInv'
<1>1. /\ active \subseteq Socket /\ IsFiniteSet(active) /\ Cardinality(active) \in Nat
      /\ broadcast.failed \subseteq Socket
  BY SocketsFinite DEF StreamInv, StreamTypeOK
<1>2. /\ UNCHANGED <<socket, clientVars>> /\ greeted' = greeted
      /\ active' = active \/ active' = active \ broadcast.failed
      /\ broadcast'.failed = {}
      /\ broadcast' \in [to : SUBSET Socket, done : SUBSET Socket, failed : SUBSET Socket, size : Nat]
  BY <1>1 DEF BroadcastBegins, BroadcastRaises, BroadcastEnds, NoBroadcast
<1>3. socket' = socket /\ Made' = Made /\ Counting' /\ Alone' /\ StreamTypeOK'
  BY <1>1, <1>2, SocketsUnmoved
<1>4. Serving'
  BY <1>1, <1>2, <1>3 DEF StreamInv, Serving
<1>5. QED  BY <1>3, <1>4 DEF StreamInv

(* A message is sent to who was greeted, and fails over a line that is down. *)
LEMMA SendKeeps == ASSUME StreamInv, NEW s \in Socket, SendTo(s) PROVE StreamInv'
<1>1. /\ s \in active /\ UNCHANGED <<socket, clientVars>> /\ active' = active
      /\ greeted' = [greeted EXCEPT ![s] = IF @ = "nothing" THEN "event" ELSE @]
  BY DEF SendTo
<1>2. PICK missed \in (IF socket[s].up THEN {{}} ELSE {{}, {s}}) :
        broadcast' = [broadcast EXCEPT !.done = @ \cup {s}, !.failed = @ \cup missed]
  BY DEF SendTo
<1>3. /\ active \subseteq Socket
      /\ broadcast \in [to : SUBSET Socket, done : SUBSET Socket, failed : SUBSET Socket, size : Nat]
  BY DEF StreamInv, StreamTypeOK
<1>4. missed = {} \/ (missed = {s} /\ ~socket[s].up)
  OBVIOUS
<1>5. /\ broadcast'.failed = broadcast.failed \cup missed
      /\ broadcast' \in [to : SUBSET Socket, done : SUBSET Socket, failed : SUBSET Socket, size : Nat]
  BY <1>2, <1>3, <1>4
<1>6. socket' = socket /\ Made' = Made /\ Counting' /\ Alone' /\ StreamTypeOK'
  BY <1>1, <1>3, <1>5, SocketsUnmoved
<1>7. socket[s].handler = "serving" /\ greeted[s] = "initial" /\ s \in Made
  BY <1>1 DEF StreamInv, Serving
<1>8. greeted' = greeted
  BY <1>1, <1>7 DEF StreamInv, Serving
<1>9. Serving'
  BY <1>1, <1>3, <1>4, <1>5, <1>6, <1>7, <1>8 DEF StreamInv, Serving
<1>10. QED  BY <1>6, <1>9 DEF StreamInv

(* No step of the client, of a line, of a handler or of a broadcast breaks   *)
(* the invariant.                                                           *)
LEMMA StreamStep == StreamInv /\ [StreamNext]_streamVars => StreamInv'
<1> SUFFICES ASSUME StreamInv, [StreamNext]_streamVars PROVE StreamInv'
  OBVIOUS
<1>1. CASE UNCHANGED streamVars
  <2>1. /\ UNCHANGED <<socket, clientVars>> /\ socket' = socket
        /\ active' = active /\ broadcast' = broadcast /\ greeted' = greeted
    BY <1>1 DEF streamVars, serverVars
  <2>2. Made' = Made /\ Counting' /\ Alone' /\ StreamTypeOK'
    BY <2>1, SocketsUnmoved DEF StreamInv, StreamTypeOK
  <2>3. Serving'
    BY <2>1, <2>2 DEF StreamInv, Serving
  <2>4. QED  BY <2>2, <2>3 DEF StreamInv
<1>2. CASE Connect  BY <1>2, ConnectKeeps
<1>3. CASE TimerFires  BY <1>3, TimerKeeps
<1>4. CASE Disconnect  BY <1>4, DisconnectKeeps
<1>5. CASE BroadcastBegins \/ BroadcastRaises \/ BroadcastEnds  BY <1>5, BroadcastKeeps
<1>6. ASSUME NEW s \in Socket,
             OnOpen(s) \/ OnClose(s) \/ LineDrops(s) \/ Accept(s) \/ HandlerEnds(s) \/ SendTo(s)
      PROVE  StreamInv'
  BY <1>6, OpenKeeps, CloseKeeps, LineKeeps, AcceptKeeps, HandlerKeeps, SendKeeps
<1>7. QED  BY <1>1, <1>2, <1>3, <1>4, <1>5, <1>6 DEF StreamNext

(* Whatever a client does, and however its connections break: the manager    *)
(* has the connections that have a handler, none is sent an event before it  *)
(* was greeted, and there are never more sockets and timers than calls that  *)
(* asked for one; one call alone leads to pings over its connection only.    *)
THEOREM StreamSoundAlways ==
  StreamInit /\ [][StreamNext]_streamVars => []StreamSound
<1>1. StreamInv => StreamSound
  <2> SUFFICES ASSUME StreamInv PROVE StreamSound
    OBVIOUS
  <2>1. connects = 1 => pinging = {s \in Socket : socket[s].client = "open"}
    BY DEF StreamInv, Alone, Open
  <2>2. QED  BY <2>1 DEF StreamInv, Counting, Serving, StreamSound
<1>2. QED  BY InitStream, StreamStep, <1>1, PTL

-------------------------------------------------------------------------------
(* Reconciler                                                               *)

Stages == {"spot", "perp", "positions", "orders"}
DayState ==
  [start : Int, current : Int, max : Int, min : Int, pnl : Int, trades : Int, split : Int, since : Int]

ReconcileTypeOK ==
  /\ actual \in Balances /\ expected \in Balances
  /\ stage \in Stages /\ cycle \in 0..OrdersEvery - 1
  /\ spotRead \in Nat /\ ok \in BOOLEAN
  /\ failures \in 0..MaxFailures /\ standing \in -1..MaxFailures
  /\ balanceBad \in BOOLEAN \X BOOLEAN
  /\ books \in [equity : Int, today : DayState]

(* A failure that the balance of the last cycle does not explain comes from  *)
(* a cycle with more checks, and the next one has none of them.             *)
FailuresExplained ==
  /\ failures >= 2 => balanceBad[1] \/ balanceBad[2]
  /\ stage \in {"spot", "perp"} /\ failures >= 1 => balanceBad[2] \/ cycle % PositionsEvery # 0
  /\ stage \in {"positions", "orders"} =>
       cycle % PositionsEvery = 0 /\ (failures >= 1 => balanceBad[1])

(* Whatever has stood since the cycle began is found by it.                  *)
DriftFound ==
  /\ failures >= standing
  /\ stage = "perp" /\ standing >= 0 => spotRead = actual["spot"]
  /\ stage \in {"positions", "orders"} /\ standing >= 0 /\ Off => ~ok

ReconcileInv == ReconcileTypeOK /\ FailuresExplained /\ DriftFound /\ DayAddsUp

(* After a cycle that checks the positions comes one that does not.          *)
LEMMA NextCycle ==
  ASSUME NEW c \in 0..OrdersEvery - 1, c % PositionsEvery = 0
  PROVE  ((c + 1) % OrdersEvery) % PositionsEvery # 0
<1>1. /\ PositionsEvery \in Nat /\ PositionsEvery >= 2 /\ OrdersEvery \in Nat /\ OrdersEvery >= 1
      /\ OrdersEvery % PositionsEvery = 0 /\ c \in Nat /\ c < OrdersEvery
  BY ReconcilerAssumption
<1>2. (c + 1) % PositionsEvery = 1
  BY <1>1
<1>3. c + 1 < OrdersEvery
  BY <1>1, <1>2
<1>4. (c + 1) % OrdersEvery = c + 1
  BY <1>1, <1>3
<1>5. QED  BY <1>2, <1>4

(* The numbers of the cycles.                                               *)
LEMMA CycleFacts ==
  ASSUME NEW c \in 0..OrdersEvery - 1
  PROVE  /\ (c + 1) % OrdersEvery \in 0..OrdersEvery - 1
         /\ c % OrdersEvery = 0 => c % PositionsEvery = 0
<1>1. /\ PositionsEvery \in Nat /\ PositionsEvery >= 2 /\ OrdersEvery \in Nat /\ OrdersEvery >= 1
      /\ c \in Nat /\ c < OrdersEvery
  BY ReconcilerAssumption
<1>2. (c + 1) % OrdersEvery \in 0..OrdersEvery - 1
  BY <1>1
<1>3. c % OrdersEvery = c
  BY <1>1
<1>4. 0 % PositionsEvery = 0
  BY <1>1
<1>5. QED  BY <1>2, <1>3, <1>4

(* The drift the loop computes is a difference where something is expected.  *)
LEMMA DriftIsOff ==
  ASSUME actual \in Balances, expected \in Balances
  PROVE  Drift(actual, expected) = 0 <=> ~Off
<1>1. /\ actual["spot"] \in Nat /\ actual["perp"] \in Nat
      /\ expected["spot"] \in Nat /\ expected["perp"] \in Nat
  BY ReconcilerAssumption DEF Balances, Accounts
<1>2. Off <=> \/ expected["spot"] > 0 /\ actual["spot"] # expected["spot"]
              \/ expected["perp"] > 0 /\ actual["perp"] # expected["perp"]
  BY DEF Off, Accounts
<1>3. \A a, b \in Nat : (IF b > 0 THEN Abs(a - b) ELSE 0) \in Nat
  BY DEF Abs
<1>4. \A a, b \in Nat : (IF b > 0 THEN Abs(a - b) ELSE 0) = 0 <=> ~(b > 0 /\ a # b)
  BY DEF Abs
<1> DEFINE of(a) == IF expected[a] > 0 THEN Abs(actual[a] - expected[a]) ELSE 0
<1>5. /\ of("spot") \in Nat /\ of("perp") \in Nat
      /\ of("spot") = 0 <=> ~(expected["spot"] > 0 /\ actual["spot"] # expected["spot"])
      /\ of("perp") = 0 <=> ~(expected["perp"] > 0 /\ actual["perp"] # expected["perp"])
  BY <1>1, <1>3, <1>4
<1>6. Drift(actual, expected) = of("spot") + of("perp")  BY DEF Drift
<1> HIDE DEF of
<1>7. Drift(actual, expected) = 0 <=> of("spot") = 0 /\ of("perp") = 0  BY <1>5, <1>6
<1>8. QED  BY <1>2, <1>5, <1>7

(* What the end of a stage does to the counters.                            *)
LEMMA GoFacts ==
  ASSUME ReconcileTypeOK, NEW next \in Stages, NEW good \in BOOLEAN, Go(next, good)
  PROVE  /\ stage' = next /\ cycle' \in 0..OrdersEvery - 1 /\ ok' \in BOOLEAN
         /\ failures' \in 0..MaxFailures /\ standing' \in -1..MaxFailures
         /\ next # "spot" => /\ ok' = good /\ failures' = failures /\ cycle' = cycle
                             /\ standing' = standing
         /\ next = "spot" /\ good => failures' = 0
         /\ next = "spot" => /\ cycle' = (cycle + 1) % OrdersEvery /\ ok' = TRUE
                             /\ ~good => failures' <= failures + 1 /\ (failures >= standing => failures' >= standing')
                             /\ (standing = -1 \/ ~Off) => standing' = 0
<1> USE DEF ReconcileTypeOK
<1>1. MaxFailures \in Nat /\ failures \in 0..MaxFailures /\ standing \in -1..MaxFailures
  BY ReconcilerAssumption
<1>2. stage' = next
  BY DEF Go
<1>3. CASE next # "spot"
  BY <1>1, <1>2, <1>3 DEF Go
<1>4. CASE next = "spot"
  <2>1. /\ failures' = IF good THEN 0 ELSE Lower(failures + 1, MaxFailures)
        /\ cycle' = (cycle + 1) % OrdersEvery /\ ok' = TRUE
        /\ standing' = IF Off THEN Lower(standing + 1, MaxFailures) ELSE 0
    BY <1>4 DEF Go, Failures
  <2>2. cycle' \in 0..OrdersEvery - 1
    BY <2>1, CycleFacts
  <2>3. failures' \in 0..MaxFailures /\ standing' \in 0..MaxFailures
    BY <1>1, <2>1 DEF Lower
  <2>4. (standing = -1 \/ ~Off) => standing' = 0
    BY <1>1, <2>1 DEF Lower
  <2>5. QED  BY <1>1, <1>2, <1>4, <2>1, <2>2, <2>3, <2>4 DEF Lower
<1>5. QED  BY <1>3, <1>4

(* A day whose numbers change is a day.                                     *)
LEMMA DayChanges ==
  ASSUME NEW day \in DayState, NEW c \in Int, NEW p \in Int, NEW x \in Int, NEW m \in Int,
         NEW n \in Int, NEW u \in Int
  PROVE  /\ [day EXCEPT !.current = c, !.pnl = p, !.max = x, !.min = m, !.since = u] \in DayState
         /\ [day EXCEPT !.trades = n, !.pnl = p, !.since = u] \in DayState
<1>1. [day EXCEPT !.current = c, !.pnl = p, !.max = x, !.min = m, !.since = u] \in DayState
  BY DEF DayState
<1>2. [day EXCEPT !.trades = n, !.pnl = p, !.since = u] \in DayState
  BY DEF DayState
<1>3. QED  BY <1>1, <1>2

(* The books stay in order under everything that is done to them.            *)
LEMMA BooksKept ==
  ASSUME books \in [equity : Int, today : DayState], DayAddsUp
  PROVE  /\ \A e \in Int : UpdateEquity(e) \/ NewDay(e) =>
              books' \in [equity : Int, today : DayState] /\ DayAddsUp'
         /\ \A p \in Int : BookTrade(p) => books' \in [equity : Int, today : DayState] /\ DayAddsUp'
         /\ DayBegins => books' \in [equity : Int, today : DayState] /\ DayAddsUp'
<1> DEFINE t == books.today
           T == books'.today
<1>1. /\ books.equity \in Int /\ t \in DayState
      /\ t.start \in Int /\ t.current \in Int /\ t.max \in Int /\ t.min \in Int /\ t.pnl \in Int
      /\ t.trades \in Int /\ t.split \in Int /\ t.since \in Int
  BY DEF DayState
<1>2. /\ t.pnl = t.current - t.start + t.since
      /\ t.min <= t.current /\ t.current <= t.max /\ t.min <= t.start /\ t.start <= t.max
  BY DEF DayAddsUp
<1>3. ASSUME NEW e \in Int, UpdateEquity(e)
      PROVE  books' \in [equity : Int, today : DayState] /\ DayAddsUp'
  <2>1. books' = [equity |-> e,
                  today |-> [t EXCEPT !.current = e, !.pnl = e - t.start,
                                      !.max = Larger(t.max, e), !.min = Lower(t.min, e), !.since = 0]]
    BY <1>3 DEF UpdateEquity, Updated
  <2>2. Larger(t.max, e) \in Int /\ Lower(t.min, e) \in Int
    BY <1>1 DEF Larger, Lower
  <2>3. books' \in [equity : Int, today : DayState]
    <3>1. PICK x \in Int, m \in Int, n \in Int, u \in Int :
            x = Larger(t.max, e) /\ m = Lower(t.min, e) /\ n = e - t.start /\ u = 0
      BY <1>1, <2>2
    <3>2. [t EXCEPT !.current = e, !.pnl = n, !.max = x, !.min = m, !.since = u] \in DayState
      BY <1>1, DayChanges, Zenon
    <3>3. PICK day \in DayState :
            day = [t EXCEPT !.current = e, !.pnl = e - t.start, !.max = Larger(t.max, e),
                            !.min = Lower(t.min, e), !.since = 0]
      BY <3>1, <3>2, Zenon
    <3>4. QED  BY <2>1, <3>3
  <2>4. /\ T.current = e /\ T.pnl = e - t.start /\ T.max = Larger(t.max, e)
        /\ T.min = Lower(t.min, e) /\ T.since = 0 /\ T.start = t.start
    BY <1>1, <2>1 DEF DayState
  <2>5. /\ T.pnl = T.current - T.start + T.since
        /\ T.min <= T.current /\ T.current <= T.max /\ T.min <= T.start /\ T.start <= T.max
    BY <1>1, <1>2, <2>4 DEF Larger, Lower
  <2>6. QED  BY <2>3, <2>5 DEF DayAddsUp
<1>4. ASSUME NEW e \in Int, books' = [books EXCEPT !.today = Today(e)]
      PROVE  books' \in [equity : Int, today : DayState] /\ DayAddsUp'
  <2>1. Today(e) \in DayState
    BY DEF Today, DayState
  <2>2. books' \in [equity : Int, today : DayState] /\ T = Today(e)
    BY <1>1, <1>4, <2>1
  <2>3. QED  BY <2>2 DEF Today, DayAddsUp
<1>5. ASSUME NEW p \in Int, BookTrade(p)
      PROVE  books' \in [equity : Int, today : DayState] /\ DayAddsUp'
  <2>1. books' = [books EXCEPT !.today.trades = t.trades + 1, !.today.pnl = t.pnl + p,
                               !.today.since = t.since + p]
    BY <1>5 DEF BookTrade, Recorded
  <2>2. /\ books'.equity = books.equity
        /\ T = [t EXCEPT !.trades = t.trades + 1, !.pnl = t.pnl + p, !.since = t.since + p]
    BY <1>1, <2>1
  <2>3. T \in DayState
    <3>1. PICK n \in Int, m \in Int, x \in Int :
            n = t.trades + 1 /\ m = t.pnl + p /\ x = t.since + p
      BY <1>1
    <3>2. [t EXCEPT !.trades = n, !.pnl = m, !.since = x] \in DayState
      BY <1>1, DayChanges
    <3>3. QED  BY <2>2, <3>1, <3>2
  <2>4. books' \in [equity : Int, today : DayState]
    BY <1>1, <2>1, <2>2, <2>3
  <2>5. /\ T.current = t.current /\ T.pnl = t.pnl + p /\ T.max = t.max /\ T.min = t.min
        /\ T.since = t.since + p /\ T.start = t.start
    BY <1>1, <2>2 DEF DayState
  <2>6. QED  BY <1>1, <1>2, <2>4, <2>5 DEF DayAddsUp
<1>6. QED  BY <1>1, <1>3, <1>4, <1>5 DEF NewDay, DayBegins

(* The loop begins with nothing expected and nothing failed.                 *)
LEMMA InitReconcile == ReconcileInit => ReconcileInv
<1> SUFFICES ASSUME ReconcileInit PROVE ReconcileInv
  OBVIOUS
<1>1. books = [equity |-> 1, today |-> Today(1)]
  BY DEF ReconcileInit
<1>2. books \in [equity : Int, today : DayState] /\ DayAddsUp
  BY <1>1 DEF Today, DayState, DayAddsUp
<1>3. expected \in Balances
  BY ReconcilerAssumption DEF ReconcileInit, Balances
<1>4. ReconcileTypeOK
  <2>1. /\ actual \in Balances /\ stage = "spot" /\ cycle = 0 /\ spotRead = 0 /\ ok = TRUE
        /\ failures = 0 /\ balanceBad = <<FALSE, FALSE>> /\ standing = 0
    BY DEF ReconcileInit
  <2>2. 0 \in 0..OrdersEvery - 1 /\ 0 \in 0..MaxFailures /\ 0 \in -1..MaxFailures
    BY ReconcilerAssumption
  <2>3. QED  BY <1>2, <1>3, <2>1, <2>2 DEF ReconcileTypeOK, Stages
<1>5. FailuresExplained /\ DriftFound
  BY DEF ReconcileInit, FailuresExplained, DriftFound
<1>6. QED  BY <1>2, <1>4, <1>5 DEF ReconcileInv

(* The balances are read one after the other, and compared.                  *)
LEMMA ReadSpotKeeps == ASSUME ReconcileInv, ReadSpot PROVE ReconcileInv'
<1>1. /\ stage = "spot" /\ stage' = "perp" /\ spotRead' = actual["spot"]
      /\ actual' = actual /\ expected' = expected /\ cycle' = cycle /\ ok' = ok
      /\ failures' = failures /\ balanceBad' = balanceBad /\ standing' = standing /\ books' = books
  BY DEF ReadSpot
<1>2. actual["spot"] \in Nat
  BY ReconcilerAssumption DEF ReconcileInv, ReconcileTypeOK, Balances, Accounts
<1>3. ReconcileTypeOK'
  BY <1>1, <1>2 DEF ReconcileInv, ReconcileTypeOK, Stages
<1>4. FailuresExplained'
  BY <1>1 DEF ReconcileInv, FailuresExplained
<1>5. DriftFound'
  BY <1>1 DEF ReconcileInv, DriftFound
<1>6. DayAddsUp'
  BY <1>1 DEF ReconcileInv, DayAddsUp
<1>7. QED  BY <1>3, <1>4, <1>5, <1>6 DEF ReconcileInv

(* A drift that has stood since the cycle began fails the comparison.        *)
LEMMA ReadPerpKeeps ==
  ASSUME ReconcileInv, NEW answered \in BOOLEAN, ReadPerp(answered) PROVE ReconcileInv'
<1> DEFINE read == [actual EXCEPT !["spot"] = spotRead]
           good == answered /\ Drift(read, expected) = 0
<1>1. /\ stage = "perp" /\ Go(AfterBalance, good) /\ balanceBad' = <<balanceBad[2], ~good>>
      /\ spotRead' = 0 /\ actual' = actual /\ expected' = expected
      /\ (IF good THEN UpdateEquity(Total(read)) ELSE UNCHANGED books)
  BY DEF ReadPerp
<1>2. ReconcileTypeOK
  BY DEF ReconcileInv
<1>3. /\ actual \in Balances /\ expected \in Balances /\ spotRead \in Nat
      /\ actual["spot"] \in Nat /\ actual["perp"] \in Nat
  BY <1>2, ReconcilerAssumption DEF ReconcileTypeOK, Balances, Accounts
<1>4. Total(read) \in Int
  <2>1. read["spot"] = spotRead /\ read["perp"] = actual["perp"]
    BY <1>3 DEF Balances, Accounts
  <2>2. QED  BY <1>3, <2>1 DEF Total
<1>5. standing >= 0 /\ Off => ~good
  <2> SUFFICES ASSUME standing >= 0, Off PROVE ~good
    OBVIOUS
  <2>1. spotRead = actual["spot"]
    BY <1>1 DEF ReconcileInv, DriftFound
  <2>2. read = actual
    BY <1>3, <2>1 DEF Balances, Accounts
  <2>3. QED  BY <1>3, <2>2, DriftIsOff
<1>6. books' \in [equity : Int, today : DayState] /\ DayAddsUp'
  <2>1. books \in [equity : Int, today : DayState] /\ DayAddsUp
    BY DEF ReconcileInv, ReconcileTypeOK
  <2>2. CASE good  BY <1>1, <1>4, <2>1, <2>2, BooksKept
  <2>3. CASE ~good  BY <1>1, <2>1, <2>3 DEF DayAddsUp
  <2>4. QED  BY <2>2, <2>3
<1>7. good \in BOOLEAN
  OBVIOUS
<1> HIDE DEF good
<1>8. /\ AfterBalance \in {"spot", "positions", "orders"}
      /\ AfterBalance # "spot" => cycle % PositionsEvery = 0
      /\ AfterBalance = "spot" => cycle % PositionsEvery # 0
  BY <1>2, CycleFacts DEF AfterBalance, ReconcileTypeOK
<1>9. /\ stage' = AfterBalance /\ cycle' \in 0..OrdersEvery - 1 /\ ok' \in BOOLEAN
      /\ failures' \in 0..MaxFailures /\ standing' \in -1..MaxFailures
      /\ stage' # "spot" => /\ ok' = good /\ failures' = failures /\ cycle' = cycle
                            /\ standing' = standing
      /\ stage' = "spot" /\ good => failures' = 0
      /\ stage' = "spot" =>
           /\ ~good => failures' <= failures + 1 /\ (failures >= standing => failures' >= standing')
           /\ (standing = -1 \/ ~Off) => standing' = 0
  BY <1>1, <1>2, <1>7, <1>8, GoFacts DEF Stages
<1>10. /\ balanceBad[2] \in BOOLEAN /\ balanceBad'[1] = balanceBad[2] /\ balanceBad'[2] = ~good
       /\ balanceBad' \in BOOLEAN \X BOOLEAN
  BY <1>1, <1>2, <1>7 DEF ReconcileTypeOK
<1>11. ReconcileTypeOK'
  BY <1>1, <1>3, <1>6, <1>8, <1>9, <1>10 DEF ReconcileTypeOK, Stages
<1>12. /\ failures \in Int /\ failures' \in Int /\ standing \in Int /\ standing' \in Int
       /\ standing >= -1 /\ failures >= 0 /\ failures' >= 0
  BY <1>2, <1>9, ReconcilerAssumption DEF ReconcileTypeOK
<1>13. FailuresExplained'
  <2>1. failures >= 1 => balanceBad[2] \/ cycle % PositionsEvery # 0
    BY <1>1 DEF ReconcileInv, FailuresExplained
  <2>2. CASE AfterBalance = "spot"
    BY <1>8, <1>9, <1>10, <1>12, <2>2 DEF FailuresExplained
  <2>3. CASE AfterBalance # "spot"
    <3>1. cycle' % PositionsEvery = 0 /\ (failures' >= 1 => balanceBad'[1])
      BY <1>8, <1>9, <1>10, <2>1, <2>3
    <3>2. QED  BY <1>8, <1>9, <1>12, <2>3, <3>1 DEF FailuresExplained
  <2>4. QED  BY <2>2, <2>3
<1>14. DriftFound'
  <2>1. Off' = Off
    BY <1>1 DEF Off
  <2>2. failures >= standing
    BY DEF ReconcileInv, DriftFound
  <2>3. CASE AfterBalance = "spot"
    <3>1. failures' >= standing'
      BY <1>5, <1>9, <1>12, <2>2, <2>3
    <3>2. QED  BY <1>9, <2>3, <3>1 DEF DriftFound
  <2>4. CASE AfterBalance # "spot"
    BY <1>5, <1>8, <1>9, <2>1, <2>2, <2>4 DEF DriftFound
  <2>5. QED  BY <2>3, <2>4
<1>15. QED  BY <1>6, <1>11, <1>13, <1>14 DEF ReconcileInv

(* The checks of positions and orders end a cycle that has them.             *)
LEMMA LaterChecksKeep ==
  ASSUME ReconcileInv, NEW next \in {"spot", "orders"}, NEW good \in BOOLEAN,
         stage \in {"positions", "orders"}, Go(next, good), good => ok,
         UNCHANGED <<actual, expected, spotRead, balanceBad, books>>
  PROVE  ReconcileInv'
<1>1. ReconcileTypeOK /\ Off' = Off
  BY DEF ReconcileInv, Off
<1>2. /\ stage' = next /\ cycle' \in 0..OrdersEvery - 1 /\ ok' \in BOOLEAN
      /\ failures' \in 0..MaxFailures /\ standing' \in -1..MaxFailures
      /\ next # "spot" => /\ ok' = good /\ failures' = failures /\ cycle' = cycle
                          /\ standing' = standing
      /\ next = "spot" /\ good => failures' = 0
      /\ next = "spot" =>
           /\ cycle' = (cycle + 1) % OrdersEvery
           /\ ~good => failures' <= failures + 1 /\ (failures >= standing => failures' >= standing')
           /\ (standing = -1 \/ ~Off) => standing' = 0
  BY <1>1, GoFacts DEF Stages
<1>3. /\ failures \in Int /\ failures' \in Int /\ standing \in Int /\ standing' \in Int
      /\ standing >= -1 /\ failures >= 0 /\ failures' >= 0
  BY <1>1, <1>2, ReconcilerAssumption DEF ReconcileTypeOK
<1>4. ReconcileTypeOK'
  BY <1>1, <1>2 DEF ReconcileTypeOK, Stages
<1>5. cycle % PositionsEvery = 0 /\ (failures >= 1 => balanceBad[1])
  BY DEF ReconcileInv, FailuresExplained
<1>6. FailuresExplained'
  <2>1. CASE next = "spot"
    <3>1. cycle' % PositionsEvery # 0
      BY <1>1, <1>2, <1>5, <2>1, NextCycle DEF ReconcileTypeOK
    <3>2. failures' >= 2 => balanceBad[1]
      BY <1>2, <1>3, <1>5, <2>1
    <3>3. QED  BY <1>2, <2>1, <3>1, <3>2 DEF FailuresExplained
  <2>2. CASE next = "orders"
    BY <1>2, <1>3, <1>5, <2>2 DEF FailuresExplained
  <2>3. QED  BY <2>1, <2>2
<1>7. DriftFound'
  <2>1. failures >= standing /\ (standing >= 0 /\ Off => ~good)
    BY DEF ReconcileInv, DriftFound
  <2>2. CASE next = "spot"
    <3>1. failures' >= standing'
      BY <1>2, <1>3, <2>1, <2>2
    <3>2. QED  BY <1>2, <2>2, <3>1 DEF DriftFound
  <2>3. CASE next = "orders"
    BY <1>1, <1>2, <2>1, <2>3 DEF DriftFound
  <2>4. QED  BY <2>2, <2>3
<1>8. DayAddsUp'
  BY DEF ReconcileInv, DayAddsUp
<1>9. QED  BY <1>4, <1>6, <1>7, <1>8 DEF ReconcileInv

(* A balance that moves, or another that is expected, begins a drift anew.   *)
LEMMA BalancesMoveKeep ==
  ASSUME ReconcileInv, NEW b \in Balances, BalanceMoves(b) \/ UpdateExpectedBalances(b)
  PROVE  ReconcileInv'
<1>1. /\ standing' = (IF stage = "spot" THEN 0 ELSE -1)
      /\ actual' \in Balances /\ expected' \in Balances
      /\ stage' = stage /\ cycle' = cycle /\ spotRead' = spotRead /\ ok' = ok
      /\ failures' = failures /\ balanceBad' = balanceBad /\ books' = books
  BY DEF ReconcileInv, ReconcileTypeOK, BalanceMoves, UpdateExpectedBalances, Changed
<1>2. failures \in Nat /\ 0 \in -1..MaxFailures /\ -1 \in -1..MaxFailures
  BY ReconcilerAssumption DEF ReconcileInv, ReconcileTypeOK
<1>3. ReconcileTypeOK'
  BY <1>1, <1>2 DEF ReconcileInv, ReconcileTypeOK
<1>4. FailuresExplained' /\ DayAddsUp'
  BY <1>1 DEF ReconcileInv, FailuresExplained, DayAddsUp
<1>5. DriftFound'
  <2>1. failures' >= standing' /\ (stage' # "spot" => ~(standing' >= 0))
    BY <1>1, <1>2
  <2>2. QED  BY <2>1 DEF DriftFound
<1>6. QED  BY <1>3, <1>4, <1>5 DEF ReconcileInv

(* No step of the loop, of an exchange or of a caller breaks the invariant.   *)
LEMMA ReconcileStep == ReconcileInv /\ [ReconcileNext \/ BooksNext]_reconcileVars => ReconcileInv'
<1> SUFFICES ASSUME ReconcileInv, [ReconcileNext \/ BooksNext]_reconcileVars PROVE ReconcileInv'
  OBVIOUS
<1>1. CASE ReadSpot  BY <1>1, ReadSpotKeeps
<1>2. ASSUME NEW answered \in BOOLEAN,
             ReadPerp(answered) \/ ReadPositions(answered) \/ ReadOrders(answered)
      PROVE  ReconcileInv'
  <2>1. CASE ReadPerp(answered)  BY <2>1, ReadPerpKeeps
  <2>2. CASE ReadPositions(answered)
    <3> DEFINE good == ok /\ answered /\ position.here = position.there
    <3>1. /\ stage = "positions" /\ Go(AfterPositions, good)
          /\ UNCHANGED <<actual, expected, spotRead, balanceBad, books>>
      BY <2>2 DEF ReadPositions
    <3>2. AfterPositions \in {"spot", "orders"} /\ good \in BOOLEAN /\ (good => ok)
      BY DEF AfterPositions
    <3> HIDE DEF good
    <3>3. QED  BY <3>1, <3>2, LaterChecksKeep
  <2>3. CASE ReadOrders(answered)
    <3> DEFINE good == ok /\ answered /\ ~OrderMismatch
    <3>1. /\ stage = "orders" /\ Go("spot", good)
          /\ UNCHANGED <<actual, expected, spotRead, balanceBad, books>>
      BY <2>3 DEF ReadOrders
    <3>2. good \in BOOLEAN /\ (good => ok)
      OBVIOUS
    <3> HIDE DEF good
    <3>3. QED  BY <3>1, <3>2, LaterChecksKeep
  <2>4. QED  BY <1>2, <2>1, <2>2, <2>3
<1>3. ASSUME NEW b \in Balances, BalanceMoves(b) \/ UpdateExpectedBalances(b) PROVE ReconcileInv'
  BY <1>3, BalancesMoveKeep
<1>4. CASE UNCHANGED <<actual, expected, stage, cycle, spotRead, ok, failures, balanceBad, standing, books>>
  <2>1. Off' = Off
    BY <1>4 DEF Off
  <2>2. ReconcileTypeOK'
    BY <1>4 DEF ReconcileInv, ReconcileTypeOK
  <2>3. FailuresExplained' /\ DriftFound' /\ DayAddsUp'
    BY <1>4, <2>1 DEF ReconcileInv, FailuresExplained, DriftFound, DayAddsUp
  <2>4. QED  BY <2>2, <2>3 DEF ReconcileInv
<1>5. CASE BooksNext
  <2>1. UNCHANGED <<actual, expected, stage, cycle, spotRead, ok, failures, balanceBad, standing>>
    BY <1>5 DEF BooksNext, loopVars
  <2>2. books' \in [equity : Int, today : DayState] /\ DayAddsUp'
    <3>1. books \in [equity : Int, today : DayState] /\ DayAddsUp
      BY DEF ReconcileInv, ReconcileTypeOK
    <3>2. \A e \in 0..2 * MaxTotal : e \in Int
      BY ReconcilerAssumption
    <3>3. QED  BY <1>5, <3>1, <3>2, BooksKept DEF BooksNext
  <2>3. Off' = Off
    BY <2>1 DEF Off
  <2>4. ReconcileTypeOK'
    BY <2>1, <2>2 DEF ReconcileInv, ReconcileTypeOK
  <2>5. FailuresExplained' /\ DriftFound'
    BY <2>1, <2>3 DEF ReconcileInv, FailuresExplained, DriftFound
  <2>6. QED  BY <2>2, <2>4, <2>5 DEF ReconcileInv
<1>6. QED
  <2>1. CASE ReconcileNext
    BY <1>1, <1>2, <1>3, <1>4, <2>1
       DEF ReconcileNext, PositionMoves, OrderChanges, OrderMoves
  <2>2. CASE UNCHANGED reconcileVars
    BY <1>4, <2>2 DEF reconcileVars, loopVars
  <2>3. QED  BY <1>5, <2>1, <2>2

(* What the invariant says of the failures and of the day.                   *)
LEMMA ReconcileSound == ReconcileInv => DriftEscalates /\ DayAddsUp
<1> SUFFICES ASSUME ReconcileInv PROVE DriftEscalates /\ DayAddsUp
  OBVIOUS
<1>1. MaxFailures \in Nat /\ failures \in 0..MaxFailures /\ standing \in -1..MaxFailures
  BY ReconcilerAssumption DEF ReconcileInv, ReconcileTypeOK
<1>2. DriftEscalates
  BY <1>1 DEF ReconcileInv, FailuresExplained, DriftFound, DriftEscalates
<1>3. QED  BY <1>2 DEF ReconcileInv

-------------------------------------------------------------------------------
(* TradeRecords                                                             *)

Steps == {"order", "trade", "read day", "write day", "read position", "write position", "done"}
OrderEntry ==
  [kind : {"BUY", "SELL", "SYNCED"}, coin : Coins, id : Int \X Int, step : Steps,
   read : SUBSET Nat, count : Int]

RecordsTypeOK ==
  /\ orders \in Seq(OrderEntry)
  /\ \A i \in Orders : orders[i].kind = "SYNCED" => orders[i].step \in {"order", "done"}
  /\ cached \in Int /\ second \in Int
  /\ orderRows \subseteq {0} \cup Orders
  /\ trades \in Nat /\ daily \in Int /\ snapshot \in Int
  /\ openRows \in [Coins -> SUBSET Nat]
  /\ failed \in BOOLEAN

(* The orders whose task is past a table.                                   *)
Traded == {i \in Filled : orders[i].step \in Steps \ {"order", "trade"}}
Counted == {i \in Filled : orders[i].step \in {"read position", "write position", "done"}}
Writing == {i \in Orders : orders[i].step = "write day"}
DoneOf(s) == {i \in Filled : orders[i].coin = s /\ orders[i].step = "done"}

TradesCounted ==
  /\ trades <= Cardinality(Traded)
  /\ ~failed => trades = Cardinality(Traded)

OrdersListed == ~failed /\ ~Clash => orderRows \ {0} = {i \in Orders : orders[i].step # "order"}

(* A writer that nobody joined has read the row as it is.                    *)
DayCounted ==
  /\ daily <= Cardinality(Counted)
  /\ \A i \in Writing : orders[i].count <= Cardinality(Counted)
  /\ ~failed /\ "day" \notin overlap =>
       /\ \A i, j \in Writing : i = j
       /\ \A i \in Writing : orders[i].count = daily /\ snapshot = NothingRead
       /\ snapshot \in {NothingRead, daily}
       /\ daily = Cardinality(Counted) \/ (daily = NoRow /\ Counted = {})

(* The tasks of a coin end one after the other, and the row is open when     *)
(* the last that ended was a buy.                                           *)
RowsFollow(s) ==
  /\ \A i, j \in Orders : orders[i].coin = s /\ orders[j].coin = s /\ i < j => orders[i].step = "done"
  /\ \A x, y \in openRows[s] : x = y
  /\ openRows[s] # {} <=> \E i \in DoneOf(s) : orders[i].kind = "BUY" /\ \A j \in DoneOf(s) : j <= i
  /\ \A i \in Orders : orders[i].coin = s /\ orders[i].step = "write position" =>
       orders[i].read = openRows[s]

RecordsInv ==
  /\ RecordsTypeOK /\ TradesCounted /\ OrdersListed /\ DayCounted
  /\ ~failed => \A s \in Coins \ overlap : RowsFollow(s)

(* The orders are numbered, and there are finitely many.                     *)
LEMMA OrdersNumbered ==
  ASSUME RecordsTypeOK
  PROVE  /\ Len(orders) \in Nat /\ Orders = 1..Len(orders) /\ 0 \notin Orders
         /\ orders \in [Orders -> OrderEntry]
         /\ \A S : S \subseteq Orders => IsFiniteSet(S) /\ Cardinality(S) \in Nat
         /\ Filled \subseteq Orders /\ Traded \subseteq Filled /\ Counted \subseteq Filled
         /\ \A s \in Coins : DoneOf(s) \subseteq Filled
<1>1. /\ Len(orders) \in Nat /\ DOMAIN orders = 1..Len(orders)
      /\ orders \in [1..Len(orders) -> OrderEntry]
  BY LenProperties DEF RecordsTypeOK
<1>2. IsFiniteSet(Orders)
  BY <1>1, FS_Interval DEF Orders
<1>3. \A S : S \subseteq Orders => IsFiniteSet(S) /\ Cardinality(S) \in Nat
  BY <1>2, FS_Subset, FS_CardinalityType
<1>4. Filled \subseteq Orders /\ Traded \subseteq Filled /\ Counted \subseteq Filled
  BY DEF Filled, Traded, Counted
<1>5. \A s \in Coins : DoneOf(s) \subseteq Filled
  BY DEF DoneOf
<1>6. /\ Orders = 1..Len(orders) /\ 0 \notin Orders /\ orders \in [Orders -> OrderEntry]
  BY <1>1 DEF Orders
<1>7. QED  BY <1>1, <1>3, <1>4, <1>5, <1>6

(* Initially there is no order.                                             *)
LEMMA InitRecords == RecordsInit => RecordsInv
<1> SUFFICES ASSUME RecordsInit PROVE RecordsInv
  OBVIOUS
<1>1. orders = <<>> /\ Orders = {}
  BY DEF RecordsInit, Orders
<1>2. cached \in Int
  <2>1. Cardinality({}) = 0 /\ Cardinality({0}) = 1
    BY FS_EmptySet, FS_Singleton
  <2>2. orderRows = {} \/ orderRows = {0}
    BY DEF RecordsInit
  <2>3. cached = Cardinality(orderRows)
    BY DEF RecordsInit
  <2>4. QED  BY <2>1, <2>2, <2>3
<1>3. RecordsTypeOK
  <2>1. /\ second = 0 /\ trades = 0 /\ daily = -1 /\ snapshot = -2 /\ failed = FALSE
        /\ orderRows \in {{}, {0}} /\ openRows = [s \in Coins |-> {}]
    BY DEF RecordsInit, NoRow, NothingRead
  <2>2. orders \in Seq(OrderEntry)
    BY <1>1, EmptySeq
  <2>3. openRows \in [Coins -> SUBSET Nat]
    BY <2>1
  <2>4. orderRows \subseteq {0} \cup Orders
    BY <2>1
  <2>5. failed \in BOOLEAN
    BY <2>1
  <2>6. \A i \in Orders : orders[i].kind = "SYNCED" => orders[i].step \in {"order", "done"}
    BY <1>1
  <2>7. QED  BY <1>2, <2>1, <2>2, <2>3, <2>4, <2>5, <2>6 DEF RecordsTypeOK
<1>4. Filled = {} /\ Traded = {} /\ Counted = {} /\ Writing = {} /\ \A s \in Coins : DoneOf(s) = {}
  BY <1>1 DEF Filled, Traded, Counted, Writing, DoneOf
<1>5. Cardinality(Traded) = 0 /\ Cardinality(Counted) = 0
  BY <1>4, FS_EmptySet
<1>6. TradesCounted /\ DayCounted
  BY <1>4, <1>5 DEF TradesCounted, DayCounted, RecordsInit, NoRow, NothingRead
<1>7. OrdersListed
  BY <1>1 DEF OrdersListed, RecordsInit
<1>8. \A s \in Coins : RowsFollow(s)
  BY <1>1, <1>4 DEF RowsFollow, RecordsInit
<1>9. QED  BY <1>3, <1>6, <1>7, <1>8 DEF RecordsInv

(* What one step of a task does to the orders.                               *)
LEMMA TaskSteps ==
  ASSUME RecordsTypeOK, NEW i \in Orders, NEW e \in OrderEntry,
         orders' = [orders EXCEPT ![i] = e],
         e.kind = orders[i].kind, e.coin = orders[i].coin, e.id = orders[i].id,
         e.kind = "SYNCED" => e.step \in {"order", "done"}
  PROVE  /\ orders' \in Seq(OrderEntry) /\ Orders' = Orders /\ Filled' = Filled /\ Clash' = Clash
         /\ orders'[i] = e /\ \A j \in Orders \ {i} : orders'[j] = orders[j]
         /\ \A j \in Orders : /\ orders'[j].kind = orders[j].kind /\ orders'[j].coin = orders[j].coin
                              /\ orders'[j].kind = "SYNCED" => orders'[j].step \in {"order", "done"}
<1>1. /\ Len(orders) \in Nat /\ Orders = 1..Len(orders) /\ orders \in [Orders -> OrderEntry]
  BY OrdersNumbered
<1>2. orders' \in Seq(OrderEntry) /\ Len(orders') = Len(orders)
  BY <1>1, ExceptSeq DEF RecordsTypeOK
<1>3. Orders' = Orders
  BY <1>1, <1>2, LenProperties DEF Orders
<1>4. orders'[i] = e /\ \A j \in Orders \ {i} : orders'[j] = orders[j]
  BY <1>1
<1>5. \A j \in Orders : orders'[j].kind = orders[j].kind /\ orders'[j].coin = orders[j].coin
                        /\ orders'[j].id = orders[j].id
  BY <1>4
<1>6. \A j \in Orders : orders'[j].kind = "SYNCED" => orders'[j].step \in {"order", "done"}
  BY <1>4 DEF RecordsTypeOK
<1>7. Filled' = Filled /\ Clash' = Clash
  BY <1>3, <1>5 DEF Filled, Clash
<1>8. QED  BY <1>2, <1>3, <1>4, <1>5, <1>6, <1>7

(* A task that does not come to the rows of its coin leaves them as they     *)
(* were.                                                                    *)
LEMMA RowsStay ==
  ASSUME NEW i \in Orders, Orders' = Orders, Filled' = Filled, Filled \subseteq Orders,
         \A j \in Orders : orders'[j].kind = orders[j].kind /\ orders'[j].coin = orders[j].coin,
         \A j \in Orders \ {i} : orders'[j] = orders[j],
         orders[i].step # "done", orders'[i].step # "write position",
         orders'[i].step = "done" => i \notin Filled,
         openRows' = openRows, NEW s \in Coins, RowsFollow(s)
  PROVE  RowsFollow(s)'
<1>1. DoneOf(s)' = DoneOf(s)
  BY DEF DoneOf
<1>2. \A j \in DoneOf(s) : j \in Orders
  BY DEF DoneOf
<1>3. \A j, k \in Orders : orders'[j].coin = s /\ orders'[k].coin = s /\ j < k => orders'[j].step = "done"
  BY DEF RowsFollow
<1>4. (\E j \in DoneOf(s) : orders[j].kind = "BUY" /\ \A k \in DoneOf(s) : k <= j)
      <=> (\E j \in DoneOf(s) : orders'[j].kind = "BUY" /\ \A k \in DoneOf(s) : k <= j)
  BY <1>2
<1>5. \A j \in Orders : orders'[j].coin = s /\ orders'[j].step = "write position" =>
        orders'[j].read = openRows'[s]
  BY DEF RowsFollow
<1>6. QED  BY <1>1, <1>3, <1>4, <1>5 DEF RowsFollow

(* The table of orders, and of trades.                                      *)
LEMMA RecordOrderKeeps ==
  ASSUME RecordsInv, NEW i \in Orders, NEW good \in BOOLEAN, RecordOrder(i, good) PROVE RecordsInv'
<1> DEFINE next == IF orders[i].kind = "SYNCED" THEN "done" ELSE "trade"
           e == [orders[i] EXCEPT !.step = next]
<1>1. /\ orders[i].step = "order" /\ orders' = [orders EXCEPT ![i] = e]
      /\ orderRows' = IF good /\ \A j \in orderRows \ {0} : orders[j].id # orders[i].id
                      THEN orderRows \cup {i} ELSE orderRows
      /\ failed' = (failed \/ ~good)
      /\ cached' = cached /\ second' = second /\ trades' = trades /\ daily' = daily
      /\ openRows' = openRows /\ snapshot' = snapshot /\ overlap' = overlap
  BY DEF RecordOrder, Step
<1>2. RecordsTypeOK
  BY DEF RecordsInv
<1>3. /\ Orders = 1..Len(orders) /\ 0 \notin Orders /\ orders \in [Orders -> OrderEntry]
      /\ Filled \subseteq Orders
  BY <1>2, OrdersNumbered
<1>4. /\ e \in OrderEntry /\ e.step = next /\ e.kind = orders[i].kind /\ e.coin = orders[i].coin
      /\ e.id = orders[i].id /\ e.count = orders[i].count /\ e.read = orders[i].read
  BY <1>3 DEF OrderEntry, Steps
<1>5. /\ orders' \in Seq(OrderEntry) /\ Orders' = Orders /\ Filled' = Filled /\ Clash' = Clash
      /\ orders'[i] = e /\ \A j \in Orders \ {i} : orders'[j] = orders[j]
      /\ \A j \in Orders : /\ orders'[j].kind = orders[j].kind /\ orders'[j].coin = orders[j].coin
                           /\ orders'[j].kind = "SYNCED" => orders'[j].step \in {"order", "done"}
  <2> HIDE DEF e
  <2>1. QED  BY <1>1, <1>2, <1>4, TaskSteps
<1>6. i \notin Traded /\ i \notin Counted /\ i \notin Writing /\ \A s \in Coins : i \notin DoneOf(s)
  BY <1>1 DEF Traded, Counted, Writing, DoneOf
<1>7. orders'[i].step \in {"trade", "done"} /\ (orders'[i].step = "done" => i \notin Filled)
  BY <1>4, <1>5 DEF Filled
<1> HIDE DEF e, next
<1>8. Traded' = Traded /\ Counted' = Counted /\ Writing' = Writing
  <2>1. Traded' = Traded  BY <1>3, <1>5, <1>6, <1>7 DEF Traded
  <2>2. Counted' = Counted  BY <1>3, <1>5, <1>6, <1>7 DEF Counted
  <2>3. Writing' = Writing  BY <1>3, <1>5, <1>6, <1>7 DEF Writing
  <2>4. QED  BY <2>1, <2>2, <2>3
<1>9. RecordsTypeOK'
  <2>1. failed' \in BOOLEAN  BY <1>1
  <2>2. QED  BY <1>1, <1>2, <1>5, <2>1 DEF RecordsTypeOK
<1>10. failed => failed'
  BY <1>1
<1>11. TradesCounted'
  BY <1>1, <1>8, <1>10 DEF RecordsInv, TradesCounted
<1>12. DayCounted'
  <2>1. \A j \in Writing : orders'[j] = orders[j]
    BY <1>5, <1>6 DEF Writing
  <2>2. QED  BY <1>1, <1>8, <1>10, <2>1 DEF RecordsInv, DayCounted
<1>13. OrdersListed'
  <2> SUFFICES ASSUME ~failed', ~Clash PROVE OrdersListed'
    BY <1>5 DEF OrdersListed
  <2>1. ~failed /\ good
    BY <1>1
  <2>2. orderRows \ {0} = {j \in Orders : orders[j].step # "order"}
    BY <2>1 DEF RecordsInv, OrdersListed
  <2>3. \A j \in orderRows \ {0} : orders[j].id # orders[i].id
    BY <1>1, <2>2 DEF Clash
  <2>4. orderRows' = orderRows \cup {i}
    BY <1>1, <2>1, <2>3
  <2>5. QED  BY <1>3, <1>5, <1>7, <2>2, <2>4 DEF OrdersListed
<1>14. ~failed' => \A s \in Coins \ overlap' : RowsFollow(s)'
  BY <1>1, <1>3, <1>5, <1>7, <1>10, RowsStay DEF RecordsInv
<1>15. QED  BY <1>9, <1>11, <1>12, <1>13, <1>14 DEF RecordsInv

(* One more order is past a table.                                          *)
LEMMA OnePast ==
  ASSUME RecordsTypeOK, NEW S, S \subseteq Orders, NEW i \in Orders, i \notin S
  PROVE  Cardinality(S) \in Nat /\ Cardinality(S \cup {i}) = Cardinality(S) + 1
<1>1. IsFiniteSet(S) /\ Cardinality(S) \in Nat
  BY OrdersNumbered
<1>2. QED  BY <1>1, FS_AddElement

(* What the table of orders lists does not depend on the later steps.         *)
LEMMA ListStays ==
  ASSUME NEW i \in Orders, Orders' = Orders, Clash' = Clash, OrdersListed,
         orders[i].step # "order", orders'[i].step # "order",
         \A j \in Orders \ {i} : orders'[j] = orders[j],
         orderRows' = orderRows, failed => failed'
  PROVE  OrdersListed'
<1>1. {j \in Orders : orders'[j].step # "order"} = {j \in Orders : orders[j].step # "order"}
  OBVIOUS
<1>2. QED  BY <1>1 DEF OrdersListed

(* The table of trades.                                                     *)
LEMMA RecordTradeKeeps ==
  ASSUME RecordsInv, NEW i \in Orders, NEW good \in BOOLEAN, RecordTrade(i, good) PROVE RecordsInv'
<1> DEFINE e == [orders[i] EXCEPT !.step = "read day"]
<1>1. /\ orders[i].step = "trade" /\ orders' = [orders EXCEPT ![i] = e]
      /\ trades' = IF good THEN trades + 1 ELSE trades
      /\ failed' = (failed \/ ~good)
      /\ cached' = cached /\ second' = second /\ orderRows' = orderRows /\ daily' = daily
      /\ openRows' = openRows /\ snapshot' = snapshot /\ overlap' = overlap
  BY DEF RecordTrade, Step
<1>2. RecordsTypeOK
  BY DEF RecordsInv
<1>3. /\ Orders = 1..Len(orders) /\ orders \in [Orders -> OrderEntry]
      /\ Filled \subseteq Orders /\ Traded \subseteq Orders
  BY <1>2, OrdersNumbered
<1>4. orders[i].kind # "SYNCED" /\ i \in Filled
  BY <1>1, <1>2 DEF RecordsTypeOK, Filled
<1>5. /\ e \in OrderEntry /\ e.step = "read day" /\ e.kind = orders[i].kind /\ e.coin = orders[i].coin
      /\ e.id = orders[i].id
  BY <1>3 DEF OrderEntry, Steps
<1>6. /\ orders' \in Seq(OrderEntry) /\ Orders' = Orders /\ Filled' = Filled /\ Clash' = Clash
      /\ orders'[i] = e /\ \A j \in Orders \ {i} : orders'[j] = orders[j]
      /\ \A j \in Orders : /\ orders'[j].kind = orders[j].kind /\ orders'[j].coin = orders[j].coin
                           /\ orders'[j].kind = "SYNCED" => orders'[j].step \in {"order", "done"}
  <2> HIDE DEF e
  <2>1. QED  BY <1>1, <1>2, <1>4, <1>5, TaskSteps
<1>7. orders'[i].step = "read day"
  BY <1>5, <1>6
<1> HIDE DEF e
<1>8. Traded' = Traded \cup {i} /\ i \notin Traded
  BY <1>1, <1>3, <1>4, <1>6, <1>7, ZenonT(40) DEF Traded, Steps
<1>9. Counted' = Counted
  BY <1>1, <1>3, <1>6, <1>7, ZenonT(40) DEF Counted
<1>10. Writing' = Writing
  BY <1>1, <1>3, <1>6, <1>7 DEF Writing
<1>11. failed => failed'
  BY <1>1
<1>12. RecordsTypeOK'
  <2>1. failed' \in BOOLEAN  BY <1>1
  <2>2. trades' \in Nat  BY <1>1, <1>2 DEF RecordsTypeOK
  <2>3. QED  BY <1>1, <1>2, <1>6, <2>1, <2>2 DEF RecordsTypeOK
<1>13. TradesCounted'
  <2>1. Cardinality(Traded) \in Nat /\ Cardinality(Traded)' = Cardinality(Traded) + 1
    BY <1>2, <1>3, <1>8, OnePast
  <2>2. trades \in Nat  BY <1>2 DEF RecordsTypeOK
  <2>3. trades <= Cardinality(Traded) /\ (~failed => trades = Cardinality(Traded))
    BY DEF RecordsInv, TradesCounted
  <2>4. trades' <= Cardinality(Traded)'
    BY <1>1, <2>1, <2>2, <2>3
  <2>5. ~failed' => trades' = Cardinality(Traded)'
    BY <1>1, <2>1, <2>2, <2>3
  <2>6. QED  BY <2>4, <2>5 DEF TradesCounted
<1>14. DayCounted'
  <2>1. \A j \in Writing : orders'[j] = orders[j]
    BY <1>1, <1>6 DEF Writing
  <2>2. QED  BY <1>1, <1>9, <1>10, <1>11, <2>1 DEF RecordsInv, DayCounted
<1>15. OrdersListed'
  BY <1>1, <1>6, <1>7, <1>11, ListStays DEF RecordsInv
<1>16. ~failed' => \A s \in Coins \ overlap' : RowsFollow(s)'
  BY <1>1, <1>3, <1>6, <1>7, <1>11, RowsStay DEF RecordsInv
<1>17. QED  BY <1>12, <1>13, <1>14, <1>15, <1>16 DEF RecordsInv

(* Reading the day's row: who joins another writer is noted.                 *)
LEMMA ReadDayKeeps == ASSUME RecordsInv, NEW i \in Orders, ReadDay(i) PROVE RecordsInv'
<1> DEFINE e == [orders[i] EXCEPT !.step = "write day", !.count = daily]
<1>1. /\ orders[i].step = "read day" /\ orders' = [orders EXCEPT ![i] = e]
      /\ overlap' = IF snapshot # NothingRead \/ \E j \in Orders : orders[j].step = "write day"
                    THEN overlap \cup {"day"} ELSE overlap
      /\ cached' = cached /\ second' = second /\ orderRows' = orderRows /\ daily' = daily
      /\ openRows' = openRows /\ snapshot' = snapshot /\ trades' = trades /\ failed' = failed
  BY DEF ReadDay
<1>2. RecordsTypeOK
  BY DEF RecordsInv
<1>3. /\ Orders = 1..Len(orders) /\ orders \in [Orders -> OrderEntry] /\ Filled \subseteq Orders
  BY <1>2, OrdersNumbered
<1>4. orders[i].kind # "SYNCED"
  BY <1>1, <1>2 DEF RecordsTypeOK
<1>5. /\ e \in OrderEntry /\ e.step = "write day" /\ e.kind = orders[i].kind /\ e.coin = orders[i].coin
      /\ e.id = orders[i].id /\ e.count = daily
  <2>1. orders[i] \in OrderEntry  BY <1>3
  <2>2. daily \in Int  BY <1>2 DEF RecordsTypeOK
  <2>3. QED  BY <2>1, <2>2 DEF OrderEntry, Steps
<1>6. /\ orders' \in Seq(OrderEntry) /\ Orders' = Orders /\ Filled' = Filled /\ Clash' = Clash
      /\ orders'[i] = e /\ \A j \in Orders \ {i} : orders'[j] = orders[j]
      /\ \A j \in Orders : /\ orders'[j].kind = orders[j].kind /\ orders'[j].coin = orders[j].coin
                           /\ orders'[j].kind = "SYNCED" => orders'[j].step \in {"order", "done"}
  <2> HIDE DEF e
  <2>1. QED  BY <1>1, <1>2, <1>4, <1>5, TaskSteps
<1>7. orders'[i].step = "write day" /\ orders'[i].count = daily
  BY <1>5, <1>6
<1> HIDE DEF e
<1>8. Traded' = Traded
  BY <1>1, <1>3, <1>6, <1>7 DEF Traded, Steps
<1>9. Counted' = Counted
  BY <1>1, <1>3, <1>6, <1>7 DEF Counted
<1>10. Writing' = Writing \cup {i} /\ i \notin Writing /\ \A j \in Writing : orders'[j] = orders[j]
  BY <1>1, <1>3, <1>6, <1>7 DEF Writing
<1>11. overlap \subseteq overlap'
  BY <1>1
<1>12. RecordsTypeOK'
  BY <1>1, <1>2, <1>6 DEF RecordsTypeOK
<1>13. TradesCounted'
  BY <1>1, <1>8 DEF RecordsInv, TradesCounted
<1>14. DayCounted'
  <2>1. daily' <= Cardinality(Counted)' /\ \A j \in Writing' : orders'[j].count <= Cardinality(Counted)'
    BY <1>1, <1>7, <1>9, <1>10 DEF RecordsInv, DayCounted
  <2>2. ASSUME ~failed', "day" \notin overlap'
        PROVE  /\ Writing = {} /\ snapshot = NothingRead
               /\ daily = Cardinality(Counted) \/ (daily = NoRow /\ Counted = {})
    <3>1. Writing = {} /\ snapshot = NothingRead
      BY <1>1, <2>2 DEF Writing
    <3>2. QED  BY <1>1, <1>11, <2>2, <3>1 DEF RecordsInv, DayCounted
  <2>3. QED  BY <1>1, <1>7, <1>9, <1>10, <2>1, <2>2 DEF DayCounted
<1>15. OrdersListed'
  BY <1>1, <1>6, <1>7, ListStays DEF RecordsInv
<1>16. ~failed' => \A s \in Coins \ overlap' : RowsFollow(s)'
  BY <1>1, <1>3, <1>6, <1>7, <1>11, RowsStay DEF RecordsInv
<1>17. QED  BY <1>12, <1>13, <1>14, <1>15, <1>16 DEF RecordsInv

(* What is written counts one more at most.                                 *)
LEMMA OneWritten ==
  ASSUME NEW c \in Int, daily \in Int, NEW n \in Nat
  PROVE  /\ Written(c, 1) \in Int
         /\ c <= n /\ daily <= n => Written(c, 1) <= n + 1
         /\ c = daily /\ (daily = n \/ (daily = NoRow /\ n = 0)) => Written(c, 1) = n + 1
<1>1. NoRow = -1
  BY DEF NoRow
<1>2. CASE c = NoRow /\ daily = NoRow
  <2>1. Written(c, 1) = 1  BY <1>2 DEF Written
  <2>2. QED  BY <1>1, <1>2, <2>1
<1>3. CASE c = NoRow /\ daily # NoRow
  <2>1. Written(c, 1) = daily  BY <1>3 DEF Written
  <2>2. QED  BY <1>1, <1>3, <2>1
<1>4. CASE c # NoRow
  <2>1. Written(c, 1) = c + 1  BY <1>4 DEF Written
  <2>2. QED  BY <1>1, <1>4, <2>1
<1>5. QED  BY <1>2, <1>3, <1>4

(* Writing the day's row: a writer that was alone counts its own.            *)
LEMMA WriteDayKeeps ==
  ASSUME RecordsInv, NEW i \in Orders, NEW good \in BOOLEAN, WriteDay(i, good) PROVE RecordsInv'
<1> DEFINE e == [orders[i] EXCEPT !.step = "read position", !.count = NothingRead]
<1>1. /\ orders[i].step = "write day" /\ orders' = [orders EXCEPT ![i] = e]
      /\ daily' = IF good THEN Written(orders[i].count, 1) ELSE daily
      /\ failed' = (failed \/ ~good)
      /\ cached' = cached /\ second' = second /\ orderRows' = orderRows /\ overlap' = overlap
      /\ openRows' = openRows /\ snapshot' = snapshot /\ trades' = trades
  BY DEF WriteDay
<1>2. RecordsTypeOK /\ daily \in Int
  BY DEF RecordsInv, RecordsTypeOK
<1>3. /\ Orders = 1..Len(orders) /\ orders \in [Orders -> OrderEntry] /\ Filled \subseteq Orders
      /\ Counted \subseteq Orders
  BY <1>2, OrdersNumbered
<1>4. orders[i].kind # "SYNCED" /\ i \in Filled /\ i \in Writing /\ orders[i].count \in Int
  BY <1>1, <1>2, <1>3 DEF RecordsTypeOK, Filled, Writing, OrderEntry
<1>5. /\ e \in OrderEntry /\ e.step = "read position" /\ e.kind = orders[i].kind
      /\ e.coin = orders[i].coin /\ e.id = orders[i].id
  <2>1. PICK n \in Int : n = NothingRead  BY DEF NothingRead
  <2>2. orders[i] \in OrderEntry  BY <1>3
  <2>3. e = [orders[i] EXCEPT !.step = "read position", !.count = n]  BY <2>1
  <2>4. QED  BY <2>2, <2>3 DEF OrderEntry, Steps
<1>6. /\ orders' \in Seq(OrderEntry) /\ Orders' = Orders /\ Filled' = Filled /\ Clash' = Clash
      /\ orders'[i] = e /\ \A j \in Orders \ {i} : orders'[j] = orders[j]
      /\ \A j \in Orders : /\ orders'[j].kind = orders[j].kind /\ orders'[j].coin = orders[j].coin
                           /\ orders'[j].kind = "SYNCED" => orders'[j].step \in {"order", "done"}
  <2> HIDE DEF e
  <2>1. QED  BY <1>1, <1>2, <1>4, <1>5, TaskSteps
<1>7. orders'[i].step = "read position"
  BY <1>5, <1>6
<1> HIDE DEF e
<1>8. Traded' = Traded
  BY <1>1, <1>3, <1>6, <1>7, ZenonT(40) DEF Traded, Steps
<1>9. Counted' = Counted \cup {i} /\ i \notin Counted
  BY <1>1, <1>3, <1>4, <1>6, <1>7, ZenonT(40) DEF Counted
<1>10. Writing' = Writing \ {i} /\ \A j \in Writing' : orders'[j] = orders[j]
  BY <1>1, <1>3, <1>6, <1>7 DEF Writing
<1>11. failed => failed'
  BY <1>1
<1>12. daily' = daily \/ daily' = Written(orders[i].count, 1)
  BY <1>1
<1>13. RecordsTypeOK'
  <2>1. failed' \in BOOLEAN  BY <1>1
  <2>2. daily' \in Int  BY <1>2, <1>4, <1>12, OneWritten
  <2>3. QED  BY <1>1, <1>2, <1>6, <2>1, <2>2 DEF RecordsTypeOK
<1>14. TradesCounted'
  BY <1>1, <1>8, <1>11 DEF RecordsInv, TradesCounted
<1>15. DayCounted'
  <2> DEFINE n == Cardinality(Counted)
  <2>1. n \in Nat /\ Cardinality(Counted)' = n + 1
    BY <1>2, <1>3, <1>9, OnePast
  <2>2. daily <= n /\ \A j \in Writing : orders[j].count <= n
    BY DEF RecordsInv, DayCounted
  <2>3. \A j \in Writing : orders[j].count \in Int
    BY <1>3 DEF Writing, OrderEntry
  <2> HIDE DEF n
  <2>4. daily' <= n + 1
    <3>1. daily <= n + 1  BY <1>2, <2>1, <2>2
    <3>2. orders[i].count <= n  BY <1>4, <2>2
    <3>3. Written(orders[i].count, 1) <= n + 1  BY <1>2, <1>4, <2>1, <2>2, <3>2, OneWritten
    <3>4. QED  BY <1>12, <3>1, <3>3
  <2>5. \A j \in Writing' : orders'[j].count <= n + 1
    BY <1>10, <2>1, <2>2, <2>3
  <2>6. ASSUME ~failed', "day" \notin overlap'
        PROVE  Writing' = {} /\ snapshot' = NothingRead /\ daily' = n + 1
    <3>1. ~failed /\ good
      BY <1>1, <2>6
    <3>2. /\ Writing = {i} /\ orders[i].count = daily /\ snapshot = NothingRead
          /\ daily = n \/ (daily = NoRow /\ Counted = {})
      BY <1>1, <1>4, <2>6, <3>1 DEF RecordsInv, DayCounted, n
    <3>3. Counted = {} => n = 0
      BY FS_EmptySet DEF n
    <3>4. daily' = n + 1
      <4>1. daily' = Written(orders[i].count, 1)  BY <1>1, <3>1
      <4>2. daily = n \/ (daily = NoRow /\ n = 0)  BY <3>2, <3>3
      <4>3. QED  BY <1>2, <1>4, <2>1, <3>2, <4>1, <4>2, OneWritten
    <3>5. QED  BY <1>1, <1>10, <3>2, <3>4
  <2>7. QED  BY <2>1, <2>4, <2>5, <2>6 DEF DayCounted
<1>16. OrdersListed'
  BY <1>1, <1>6, <1>7, <1>11, ListStays DEF RecordsInv
<1>17. ~failed' => \A s \in Coins \ overlap' : RowsFollow(s)'
  BY <1>1, <1>3, <1>6, <1>7, <1>11, RowsStay DEF RecordsInv
<1>18. QED  BY <1>13, <1>14, <1>15, <1>16, <1>17 DEF RecordsInv

(* The tasks of the other coins do not touch the rows of this one.            *)
LEMMA OtherCoins ==
  ASSUME NEW i \in Orders, Orders' = Orders, Filled' = Filled, Filled \subseteq Orders,
         \A j \in Orders : orders'[j].kind = orders[j].kind /\ orders'[j].coin = orders[j].coin,
         \A j \in Orders \ {i} : orders'[j] = orders[j],
         NEW s \in Coins, s # orders[i].coin, openRows'[s] = openRows[s], RowsFollow(s)
  PROVE  RowsFollow(s)'
<1>1. DoneOf(s)' = DoneOf(s)
  BY DEF DoneOf
<1>2. \A j \in DoneOf(s) : j \in Orders
  BY DEF DoneOf
<1>3. \A j, k \in Orders : orders'[j].coin = s /\ orders'[k].coin = s /\ j < k => orders'[j].step = "done"
  BY DEF RowsFollow
<1>4. (\E j \in DoneOf(s) : orders[j].kind = "BUY" /\ \A k \in DoneOf(s) : k <= j)
      <=> (\E j \in DoneOf(s) : orders'[j].kind = "BUY" /\ \A k \in DoneOf(s) : k <= j)
  BY <1>2
<1>5. \A j \in Orders : orders'[j].coin = s /\ orders'[j].step = "write position" =>
        orders'[j].read = openRows'[s]
  BY DEF RowsFollow
<1>6. QED  BY <1>1, <1>3, <1>4, <1>5 DEF RowsFollow

(* The task that has not ended is the last of its coin.                      *)
LEMMA LastOfCoin ==
  ASSUME RecordsTypeOK, NEW s \in Coins, NEW i \in Orders, orders[i].coin = s,
         orders[i].step # "done", RowsFollow(s)
  PROVE  /\ \A j \in Orders : orders[j].coin = s => j <= i
         /\ \A j \in DoneOf(s) : j \in Orders /\ j < i
         /\ \A j \in Orders : orders[j].coin = s /\ j # i => orders[j].step = "done"
<1>1. Orders = 1..Len(orders) /\ Len(orders) \in Nat
  BY OrdersNumbered
<1>2. \A j, k \in Orders : orders[j].coin = s /\ orders[k].coin = s /\ j < k => orders[j].step = "done"
  BY DEF RowsFollow
<1>3. \A j \in Orders : orders[j].coin = s => j <= i
  BY <1>1, <1>2
<1>4. \A j \in DoneOf(s) : j \in Orders /\ j # i /\ orders[j].coin = s
  BY DEF DoneOf, Filled
<1>5. \A j \in DoneOf(s) : j < i
  BY <1>1, <1>3, <1>4
<1>6. \A j \in Orders : orders[j].coin = s /\ j # i => orders[j].step = "done"
  BY <1>1, <1>2, <1>3
<1>7. QED  BY <1>3, <1>4, <1>5, <1>6

(* When the last task of a coin ends, it decides whether a row is open.       *)
LEMMA LastEnds ==
  ASSUME RecordsTypeOK, NEW s \in Coins, NEW i \in Orders, orders[i].coin = s,
         Orders' = Orders, Filled' = Filled, i \in Filled,
         \A j \in Orders : orders'[j].kind = orders[j].kind /\ orders'[j].coin = orders[j].coin,
         \A j \in Orders \ {i} : orders'[j] = orders[j],
         orders[i].step # "done", orders'[i].step = "done", RowsFollow(s),
         \A x, y \in openRows'[s] : x = y,
         openRows'[s] # {} <=> orders[i].kind = "BUY"
  PROVE  RowsFollow(s)'
<1>1. Orders = 1..Len(orders) /\ Len(orders) \in Nat /\ Filled \subseteq Orders
  BY OrdersNumbered
<1>2. /\ \A j \in Orders : orders[j].coin = s => j <= i
      /\ \A j \in DoneOf(s) : j \in Orders /\ j < i
      /\ \A j \in Orders : orders[j].coin = s /\ j # i => orders[j].step = "done"
  BY LastOfCoin
<1>3. DoneOf(s)' = DoneOf(s) \cup {i}
  BY <1>1 DEF DoneOf
<1>4. \A j \in Orders : orders'[j].coin = s => orders'[j].step = "done"
  BY <1>2
<1>5. (\E j \in DoneOf(s) \cup {i} : orders'[j].kind = "BUY" /\ \A k \in DoneOf(s) \cup {i} : k <= j)
      <=> orders[i].kind = "BUY"
  <2>1. \A j \in DoneOf(s) \cup {i} : j \in Nat /\ j <= i
    BY <1>1, <1>2
  <2>2. \A j \in DoneOf(s) : ~(i <= j)
    BY <1>1, <1>2
  <2>3. \A j \in DoneOf(s) \cup {i} : (\A k \in DoneOf(s) \cup {i} : k <= j) <=> j = i
    BY <2>1, <2>2
  <2>4. QED  BY <2>3
<1>6. QED
  BY <1>3, <1>4, <1>5 DEF RowsFollow

(* Reading the rows of a coin: one is open at most, so that a task goes no    *)
(* further only where there is nothing to close.                             *)
LEMMA ReadPositionKeeps == ASSUME RecordsInv, NEW i \in Orders, ReadPosition(i) PROVE RecordsInv'
<1> DEFINE c == orders[i].coin
           found == openRows[c]
           next == IF Cardinality(found) > 1 \/ (orders[i].kind = "SELL" /\ found = {})
                   THEN "done" ELSE "write position"
           e == [orders[i] EXCEPT !.read = found, !.step = next]
<1>1. /\ orders[i].step = "read position" /\ orders' = [orders EXCEPT ![i] = e]
      /\ cached' = cached /\ second' = second /\ orderRows' = orderRows /\ overlap' = overlap
      /\ daily' = daily /\ failed' = failed
      /\ openRows' = openRows /\ snapshot' = snapshot /\ trades' = trades
  BY DEF ReadPosition
<1>2. RecordsTypeOK
  BY DEF RecordsInv
<1>3. /\ Orders = 1..Len(orders) /\ orders \in [Orders -> OrderEntry] /\ Filled \subseteq Orders
  BY <1>2, OrdersNumbered
<1>4. orders[i].kind # "SYNCED" /\ i \in Filled /\ c \in Coins /\ found \in SUBSET Nat
  BY <1>1, <1>2, <1>3 DEF RecordsTypeOK, Filled, OrderEntry
<1> HIDE DEF c, found
<1>5. /\ e \in OrderEntry /\ e.step = next /\ e.kind = orders[i].kind /\ e.coin = orders[i].coin
      /\ e.id = orders[i].id /\ e.read = found
  <2>1. next \in Steps  BY DEF Steps
  <2> HIDE DEF next
  <2>2. QED  BY <1>3, <1>4, <2>1 DEF OrderEntry
<1>6. /\ orders' \in Seq(OrderEntry) /\ Orders' = Orders /\ Filled' = Filled /\ Clash' = Clash
      /\ orders'[i] = e /\ \A j \in Orders \ {i} : orders'[j] = orders[j]
      /\ \A j \in Orders : /\ orders'[j].kind = orders[j].kind /\ orders'[j].coin = orders[j].coin
                           /\ orders'[j].kind = "SYNCED" => orders'[j].step \in {"order", "done"}
  <2> HIDE DEF e
  <2>1. QED  BY <1>1, <1>2, <1>4, <1>5, TaskSteps
<1>7. orders'[i].step = next /\ orders'[i].read = found /\ next \in {"write position", "done"}
  BY <1>5, <1>6
<1> HIDE DEF e
<1>8. Traded' = Traded
  BY <1>1, <1>3, <1>6, <1>7 DEF Traded, Steps
<1>9. Counted' = Counted
  BY <1>1, <1>3, <1>6, <1>7 DEF Counted
<1>10. Writing' = Writing /\ \A j \in Writing : orders'[j] = orders[j]
  BY <1>1, <1>3, <1>6, <1>7 DEF Writing
<1>11. RecordsTypeOK'
  BY <1>1, <1>2, <1>6 DEF RecordsTypeOK
<1>12. TradesCounted'
  BY <1>1, <1>8 DEF RecordsInv, TradesCounted
<1>13. DayCounted'
  BY <1>1, <1>9, <1>10 DEF RecordsInv, DayCounted
<1>14. OrdersListed'
  BY <1>1, <1>6, <1>7, ListStays DEF RecordsInv
<1>15. ASSUME ~failed', NEW s \in Coins \ overlap'
       PROVE  RowsFollow(s)'
  <2>1. RowsFollow(s)
    BY <1>1, <1>15 DEF RecordsInv
  <2>2. CASE s # c
    BY <1>1, <1>3, <1>6, <2>1, <2>2, OtherCoins DEF c
  <2>3. CASE s = c
    <3>1. orders[i].coin = s /\ found = openRows[s] /\ openRows'[s] = found
      BY <1>1, <2>3 DEF c, found
    <3>2. \A x, y \in found : x = y
      BY <2>1, <3>1 DEF RowsFollow
    <3>3. Cardinality(found) \in {0, 1}
      <4>1. CASE found = {}
        BY <4>1, FS_EmptySet
      <4>2. CASE found # {}
        <5>1. PICK x : found = {x}  BY <3>2, <4>2
        <5>2. QED  BY <5>1, FS_Singleton
      <4>3. QED  BY <4>1, <4>2
    <3>4. CASE next = "done"
      <4>1. orders[i].kind = "SELL" /\ found = {}
        BY <3>3, <3>4 DEF next
      <4>2. /\ \A x, y \in openRows'[s] : x = y
            /\ openRows'[s] # {} <=> orders[i].kind = "BUY"
        BY <3>1, <4>1
      <4>3. orders[i].step # "done" /\ orders'[i].step = "done" /\ i \in Filled
        BY <1>1, <1>4, <1>7, <3>4
      <4>4. /\ Orders' = Orders /\ Filled' = Filled
            /\ \A j \in Orders : orders'[j].kind = orders[j].kind /\ orders'[j].coin = orders[j].coin
            /\ \A j \in Orders \ {i} : orders'[j] = orders[j]
        BY <1>6
      <4>5. QED  BY <1>2, <2>1, <3>1, <4>2, <4>3, <4>4, LastEnds
    <3>5. CASE next = "write position"
      <4>1. DoneOf(s)' = DoneOf(s) /\ \A j \in DoneOf(s) : j \in Orders
        BY <1>1, <1>3, <1>6, <1>7, <3>5 DEF DoneOf
      <4>2. \A j \in Orders : orders[j].coin = s /\ j # i => orders[j].step = "done"
        BY <1>1, <1>2, <2>1, <3>1, LastOfCoin
      <4>3. \A j, k \in Orders : orders'[j].coin = s /\ orders'[k].coin = s /\ j < k => orders'[j].step = "done"
        <5>1. \A j, k \in Orders : orders[j].coin = s /\ orders[k].coin = s /\ j < k => j # i
          BY <1>1, <2>1 DEF RowsFollow
        <5>2. QED  BY <1>6, <4>2, <5>1
      <4>4. (\E j \in DoneOf(s) : orders[j].kind = "BUY" /\ \A k \in DoneOf(s) : k <= j)
            <=> (\E j \in DoneOf(s) : orders'[j].kind = "BUY" /\ \A k \in DoneOf(s) : k <= j)
        BY <1>6, <4>1
      <4>5. \A j \in Orders : orders'[j].coin = s /\ orders'[j].step = "write position" =>
              orders'[j].read = openRows'[s]
        BY <1>6, <1>7, <3>1, <4>2
      <4>6. /\ \A x, y \in openRows'[s] : x = y
            /\ openRows'[s] # {} <=> \E j \in DoneOf(s) : orders'[j].kind = "BUY" /\ \A k \in DoneOf(s) : k <= j
        <5>1. openRows[s] # {} <=> \E j \in DoneOf(s) : orders[j].kind = "BUY" /\ \A k \in DoneOf(s) : k <= j
          BY <2>1 DEF RowsFollow
        <5>2. openRows'[s] = openRows[s]
          BY <3>1
        <5>3. \A x, y \in openRows'[s] : x = y
          BY <3>1, <3>2
        <5>4. QED  BY <4>4, <5>1, <5>2, <5>3
      <4>7. QED  BY <1>6, <4>1, <4>3, <4>5, <4>6 DEF RowsFollow
    <3>6. QED  BY <1>7, <3>4, <3>5
  <2>4. QED  BY <2>2, <2>3
<1>16. QED  BY <1>11, <1>12, <1>13, <1>14, <1>15 DEF RecordsInv

(* Writing the rows of a coin: what was read is still so.                    *)
LEMMA WritePositionKeeps ==
  ASSUME RecordsInv, NEW i \in Orders, NEW good \in BOOLEAN, WritePosition(i, good) PROVE RecordsInv'
<1> DEFINE c == orders[i].coin
           e == [orders[i] EXCEPT !.step = "done", !.read = {}]
<1>1. /\ orders[i].step = "write position" /\ orders' = [orders EXCEPT ![i] = e]
      /\ openRows' = IF good THEN [openRows EXCEPT ![c] = PositionRows(i)] ELSE openRows
      /\ failed' = (failed \/ ~good)
      /\ cached' = cached /\ second' = second /\ orderRows' = orderRows /\ overlap' = overlap
      /\ daily' = daily /\ snapshot' = snapshot /\ trades' = trades
  BY DEF WritePosition
<1>2. RecordsTypeOK
  BY DEF RecordsInv
<1>3. /\ Orders = 1..Len(orders) /\ Len(orders) \in Nat
      /\ orders \in [Orders -> OrderEntry] /\ Filled \subseteq Orders
  BY <1>2, OrdersNumbered
<1>4. /\ orders[i].kind # "SYNCED" /\ orders[i].kind \in {"BUY", "SELL", "SYNCED"} /\ i \in Filled
      /\ c \in Coins /\ openRows[c] \in SUBSET Nat /\ i \in Nat
      /\ openRows \in [Coins -> SUBSET Nat]
  <2>1. orders[i] \in OrderEntry /\ i \in Nat
    BY <1>3
  <2>2. orders[i].kind # "SYNCED"
    BY <1>1, <1>2 DEF RecordsTypeOK
  <2>3. orders[i].kind \in {"BUY", "SELL", "SYNCED"} /\ c \in Coins
    BY <2>1 DEF OrderEntry
  <2>4. i \in Filled
    BY <2>2 DEF Filled
  <2>5. openRows \in [Coins -> SUBSET Nat] /\ openRows[c] \in SUBSET Nat
    BY <1>2, <2>3 DEF RecordsTypeOK
  <2>6. QED  BY <2>1, <2>2, <2>3, <2>4, <2>5
<1> HIDE DEF c
<1>5. /\ e \in OrderEntry /\ e.step = "done" /\ e.kind = orders[i].kind /\ e.coin = orders[i].coin
      /\ e.id = orders[i].id
  <2>1. orders[i] \in OrderEntry  BY <1>3
  <2>2. QED  BY <2>1 DEF OrderEntry, Steps
<1>6. /\ orders' \in Seq(OrderEntry) /\ Orders' = Orders /\ Filled' = Filled /\ Clash' = Clash
      /\ orders'[i] = e /\ \A j \in Orders \ {i} : orders'[j] = orders[j]
      /\ \A j \in Orders : /\ orders'[j].kind = orders[j].kind /\ orders'[j].coin = orders[j].coin
                           /\ orders'[j].kind = "SYNCED" => orders'[j].step \in {"order", "done"}
  <2> HIDE DEF e
  <2>1. QED  BY <1>1, <1>2, <1>4, <1>5, TaskSteps
<1>7. orders'[i].step = "done"
  BY <1>5, <1>6
<1> HIDE DEF e
<1>8. Traded' = Traded
  BY <1>1, <1>3, <1>6, <1>7 DEF Traded, Steps
<1>9. Counted' = Counted
  BY <1>1, <1>3, <1>6, <1>7 DEF Counted
<1>10. Writing' = Writing /\ \A j \in Writing : orders'[j] = orders[j]
  BY <1>1, <1>3, <1>6, <1>7 DEF Writing
<1>11. failed => failed'
  BY <1>1
<1>12. PositionRows(i) \in SUBSET Nat /\ openRows' \in [Coins -> SUBSET Nat]
  <2>1. PositionRows(i) \in SUBSET Nat
    BY <1>4 DEF PositionRows, c
  <2>2. QED  BY <1>1, <1>4, <2>1
<1>13. RecordsTypeOK'
  <2>1. failed' \in BOOLEAN  BY <1>1
  <2>2. QED  BY <1>1, <1>2, <1>6, <1>12, <2>1 DEF RecordsTypeOK
<1>14. TradesCounted'
  BY <1>1, <1>8, <1>11 DEF RecordsInv, TradesCounted
<1>15. DayCounted'
  BY <1>1, <1>9, <1>10, <1>11 DEF RecordsInv, DayCounted
<1>16. OrdersListed'
  BY <1>1, <1>6, <1>7, <1>11, ListStays DEF RecordsInv
<1>17. ASSUME ~failed', NEW s \in Coins \ overlap'
       PROVE  RowsFollow(s)'
  <2>1. RowsFollow(s) /\ good
    BY <1>1, <1>11, <1>17 DEF RecordsInv
  <2>2. openRows' = [openRows EXCEPT ![c] = PositionRows(i)]
    BY <1>1, <2>1
  <2>3. CASE s # c
    <3>1. openRows'[s] = openRows[s]
      BY <1>4, <2>2, <2>3
    <3>2. QED  BY <1>3, <1>6, <2>1, <2>3, <3>1, OtherCoins DEF c
  <2>4. CASE s = c
    <3>1. orders[i].coin = s /\ openRows'[s] = PositionRows(i) /\ orders[i].read = openRows[s]
      BY <1>1, <1>4, <2>1, <2>2, <2>4 DEF c, RowsFollow
    <3>2. \A x, y \in openRows[s] : x = y
      BY <2>1 DEF RowsFollow
    <3>3. PositionRows(i) = IF orders[i].kind = "SELL" THEN {}
                            ELSE IF openRows[s] = {} THEN {i} ELSE openRows[s]
      BY <3>1 DEF PositionRows
    <3>4. /\ \A x, y \in openRows'[s] : x = y
          /\ openRows'[s] # {} <=> orders[i].kind = "BUY"
      <4>1. CASE orders[i].kind = "SELL"
        <5>1. openRows'[s] = {} /\ orders[i].kind # "BUY"  BY <3>1, <3>3, <4>1
        <5>2. QED  BY <5>1
      <4>2. CASE orders[i].kind = "BUY"
        <5>1. openRows'[s] = IF openRows[s] = {} THEN {i} ELSE openRows[s]  BY <3>1, <3>3, <4>2
        <5>2. QED  BY <3>2, <4>2, <5>1
      <4>3. QED  BY <1>4, <4>1, <4>2
    <3>5. orders[i].step # "done" /\ i \in Filled /\ orders[i].coin = s
      BY <1>1, <1>4, <3>1
    <3>6. QED
      BY <1>2, <1>6, <1>7, <2>1, <3>4, <3>5, LastEnds
  <2>5. QED  BY <2>3, <2>4
<1>18. QED  BY <1>13, <1>14, <1>15, <1>16, <1>17 DEF RecordsInv

(* A new order is in no table yet; a coin with a task under way is noted.     *)
LEMMA AddOrderKeeps ==
  ASSUME RecordsInv, NEW kind \in {"BUY", "SELL", "SYNCED"}, NEW c \in Coins, NEW t \in {second, second + 1},
         AddOrder(kind, c, t)
  PROVE  RecordsInv'
<1> DEFINE e == [kind |-> kind, coin |-> c, id |-> <<cached + 1, t>>,
                 step |-> "order", read |-> {}, count |-> NothingRead]
           n == Len(orders) + 1
<1>1. /\ orders' = Append(orders, e)
      /\ cached' = IF cached < CacheLimit THEN cached + 1 ELSE CacheLimit
      /\ second' = t
      /\ overlap' = IF \E j \in Orders : orders[j].coin = c /\ orders[j].step # "done"
                    THEN overlap \cup {c} ELSE overlap
      /\ orderRows' = orderRows /\ daily' = daily /\ failed' = failed
      /\ openRows' = openRows /\ snapshot' = snapshot /\ trades' = trades
  BY DEF AddOrder
<1>2. RecordsTypeOK
  BY DEF RecordsInv
<1>3. /\ Orders = 1..Len(orders) /\ Len(orders) \in Nat /\ Filled \subseteq Orders
      /\ orders \in Seq(OrderEntry)
  BY <1>2, OrdersNumbered DEF RecordsTypeOK
<1>4. cached' \in Int /\ second' \in Int
  BY <1>1, <1>2, RecordsAssumption DEF RecordsTypeOK
<1>5. /\ e \in OrderEntry /\ e.step = "order" /\ e.coin = c /\ e.kind = kind
  <2>1. PICK d \in Int \X Int : d = <<cached + 1, t>>
    <3>1. cached \in Int /\ second \in Int  BY <1>2 DEF RecordsTypeOK
    <3>2. cached + 1 \in Int /\ t \in Int  BY <3>1
    <3>3. QED  BY <3>2
  <2>2. PICK m \in Int : m = NothingRead
    BY DEF NothingRead
  <2>3. e = [kind |-> kind, coin |-> c, id |-> d, step |-> "order", read |-> {}, count |-> m]
    BY <2>1, <2>2
  <2>4. QED  BY <2>3 DEF OrderEntry, Steps
<1> HIDE DEF e
<1>6. /\ orders' \in Seq(OrderEntry) /\ Len(orders') = n
      /\ orders'[n] = e /\ \A j \in Orders : orders'[j] = orders[j]
  BY <1>1, <1>3, <1>5, AppendProperties
<1>7. Orders' = Orders \cup {n} /\ n \notin Orders /\ \A j \in Orders : j < n
  <2>1. Orders' = 1..n
    BY <1>6, LenProperties DEF Orders
  <2>2. QED  BY <1>3, <2>1
<1> HIDE DEF n
<1>8. /\ orders'[n].step = "order" /\ orders'[n].coin = c /\ orders'[n].kind = kind
  BY <1>5, <1>6
<1>9. Filled' = (IF kind = "SYNCED" THEN Filled ELSE Filled \cup {n})
  BY <1>6, <1>7, <1>8 DEF Filled
<1>10. Traded' = Traded
  BY <1>3, <1>6, <1>7, <1>8, <1>9 DEF Traded
<1>11. Counted' = Counted
  BY <1>3, <1>6, <1>7, <1>8, <1>9 DEF Counted
<1>12. Writing' = Writing /\ \A j \in Writing : orders'[j] = orders[j]
  BY <1>6, <1>7, <1>8 DEF Writing
<1>13. \A s \in Coins : DoneOf(s)' = DoneOf(s) /\ \A j \in DoneOf(s) : j \in Orders
  BY <1>3, <1>6, <1>7, <1>8, <1>9 DEF DoneOf
<1>14. Clash => Clash'
  BY <1>6, <1>7 DEF Clash
<1>15. overlap \subseteq overlap'
  BY <1>1
<1>16. RecordsTypeOK'
  <2>1. \A j \in Orders' : orders'[j].kind = "SYNCED" => orders'[j].step \in {"order", "done"}
    BY <1>2, <1>6, <1>7, <1>8 DEF RecordsTypeOK
  <2>2. orderRows' \subseteq {0} \cup Orders'
    BY <1>1, <1>2, <1>7 DEF RecordsTypeOK
  <2>3. QED  BY <1>1, <1>2, <1>4, <1>6, <2>1, <2>2 DEF RecordsTypeOK
<1>17. TradesCounted'
  BY <1>1, <1>10 DEF RecordsInv, TradesCounted
<1>18. DayCounted'
  BY <1>1, <1>11, <1>12, <1>15 DEF RecordsInv, DayCounted
<1>19. OrdersListed'
  <2>1. {j \in Orders' : orders'[j].step # "order"} = {j \in Orders : orders[j].step # "order"}
    BY <1>6, <1>7, <1>8
  <2>2. QED  BY <1>1, <1>14, <2>1 DEF RecordsInv, OrdersListed
<1>20. ASSUME ~failed', NEW s \in Coins \ overlap'
       PROVE  RowsFollow(s)'
  <2>1. RowsFollow(s)
    BY <1>1, <1>15, <1>20 DEF RecordsInv
  <2>2. s = c => \A j \in Orders : orders[j].coin = s => orders[j].step = "done"
    BY <1>1, <1>20
  <2>3. \A j, k \in Orders' : orders'[j].coin = s /\ orders'[k].coin = s /\ j < k => orders'[j].step = "done"
    <3>1. \A j, k \in Orders : orders'[j].coin = s /\ orders'[k].coin = s /\ j < k => orders'[j].step = "done"
      BY <1>6, <2>1 DEF RowsFollow
    <3>2. \A j \in Orders : orders'[j].coin = s /\ orders'[n].coin = s => orders'[j].step = "done"
      BY <1>6, <1>8, <2>2
    <3>3. \A k \in Orders' : ~(n < k)
      BY <1>3, <1>7 DEF n
    <3>4. QED  BY <1>7, <3>1, <3>2, <3>3
  <2>4. openRows[s] # {} <=> \E j \in DoneOf(s) : orders[j].kind = "BUY" /\ \A k \in DoneOf(s) : k <= j
    BY <2>1 DEF RowsFollow
  <2>5. openRows'[s] # {} <=> \E j \in DoneOf(s) : orders'[j].kind = "BUY" /\ \A k \in DoneOf(s) : k <= j
    BY <1>1, <1>6, <1>13, <2>4
  <2>6. \A j \in Orders' : orders'[j].coin = s /\ orders'[j].step = "write position" =>
          orders'[j].read = openRows'[s]
    BY <1>1, <1>6, <1>7, <1>8, <2>1, ZenonT(40) DEF RowsFollow
  <2>7. \A x, y \in openRows'[s] : x = y
    BY <1>1, <2>1, ZenonT(40) DEF RowsFollow
  <2>8. DoneOf(s)' = DoneOf(s)
    BY <1>13
  <2>9. QED  BY <2>3, <2>5, <2>6, <2>7, <2>8 DEF RowsFollow
<1>21. QED  BY <1>16, <1>17, <1>18, <1>19, <1>20 DEF RecordsInv

(* The snapshot counts nothing: it writes the row only where there is none.   *)
LEMMA SnapshotKeeps == ASSUME RecordsInv, SnapshotDay PROVE RecordsInv'
<1>1. /\ orders' = orders /\ cached' = cached /\ second' = second /\ orderRows' = orderRows
      /\ trades' = trades /\ openRows' = openRows
  BY DEF SnapshotDay
<1>2. /\ Orders' = Orders /\ Filled' = Filled /\ Traded' = Traded /\ Counted' = Counted
      /\ Writing' = Writing /\ Clash' = Clash
  BY <1>1 DEF Orders, Filled, Traded, Counted, Writing, Clash
<1>3. \A s \in Coins : RowsFollow(s) => RowsFollow(s)'
  <2> SUFFICES ASSUME NEW s \in Coins, RowsFollow(s) PROVE RowsFollow(s)'
    OBVIOUS
  <2>1. DoneOf(s)' = DoneOf(s)  BY <1>1, <1>2 DEF DoneOf
  <2>2. QED  BY <1>1, <1>2, <2>1 DEF RowsFollow
<1>4. /\ RecordsTypeOK /\ Cardinality(Counted) \in Nat /\ daily \in Int /\ snapshot \in Int
      /\ failed \in BOOLEAN
  <2>1. RecordsTypeOK /\ daily \in Int /\ snapshot \in Int /\ failed \in BOOLEAN
    BY DEF RecordsInv, RecordsTypeOK
  <2>2. Counted \subseteq Orders  BY <2>1, OrdersNumbered
  <2>3. QED  BY <2>1, <2>2, OrdersNumbered
<1>5. CASE /\ snapshot = NothingRead /\ snapshot' = daily
           /\ overlap' = IF \E i \in Orders : orders[i].step = "write day"
                         THEN overlap \cup {"day"} ELSE overlap
           /\ daily' = daily /\ failed' = failed
  <2>1. overlap \subseteq overlap'
    BY <1>5
  <2>2. "day" \notin overlap' => Writing = {}
    BY <1>5 DEF Writing
  <2>3. DayCounted'
    BY <1>1, <1>2, <1>5, <2>1, <2>2 DEF RecordsInv, DayCounted
  <2>4. RecordsTypeOK'
    BY <1>1, <1>2, <1>4, <1>5 DEF RecordsTypeOK
  <2>5. TradesCounted' /\ OrdersListed'
    BY <1>1, <1>2, <1>5 DEF RecordsInv, TradesCounted, OrdersListed
  <2>6. ~failed' => \A s \in Coins \ overlap' : RowsFollow(s)'
    BY <1>3, <1>5, <2>1 DEF RecordsInv
  <2>7. QED  BY <2>3, <2>4, <2>5, <2>6 DEF RecordsInv
<1>6. ASSUME snapshot # NothingRead, snapshot' = NothingRead, NEW good \in {TRUE, failed},
             daily' = (IF good /\ snapshot = NoRow /\ daily = NoRow THEN 0 ELSE daily),
             failed' = (failed \/ ~good), overlap' = overlap
      PROVE  RecordsInv'
  <2>1. (failed => failed') /\ failed' \in BOOLEAN
    BY <1>4, <1>6
  <2>2. daily' = daily \/ (daily = NoRow /\ daily' = 0)
    BY <1>6
  <2>3. daily' <= Cardinality(Counted) /\ daily' \in Int
    BY <1>4, <2>2 DEF RecordsInv, DayCounted
  <2>4. ASSUME ~failed', "day" \notin overlap
        PROVE  Writing = {} /\ (daily' = Cardinality(Counted) \/ (daily' = NoRow /\ Counted = {}))
    <3>1. /\ Writing = {}
          /\ daily = Cardinality(Counted) \/ (daily = NoRow /\ Counted = {})
      BY <1>6, <2>1, <2>4 DEF RecordsInv, DayCounted
    <3>2. Counted = {} => Cardinality(Counted) = 0
      BY FS_EmptySet
    <3>3. Cardinality(Counted) # NoRow
      BY <1>4 DEF NoRow
    <3>4. QED  BY <2>2, <3>1, <3>2, <3>3
  <2>5. DayCounted'
    BY <1>1, <1>2, <1>6, <2>1, <2>3, <2>4 DEF RecordsInv, DayCounted
  <2>6. RecordsTypeOK'
    <3>1. snapshot' \in Int  BY <1>6 DEF NothingRead
    <3>2. QED  BY <1>1, <1>2, <1>4, <2>1, <2>3, <3>1 DEF RecordsTypeOK
  <2>7. TradesCounted' /\ OrdersListed'
    BY <1>1, <1>2, <2>1 DEF RecordsInv, TradesCounted, OrdersListed
  <2>8. ~failed' => \A s \in Coins \ overlap' : RowsFollow(s)'
    BY <1>3, <1>6, <2>1 DEF RecordsInv
  <2>9. QED  BY <2>5, <2>6, <2>7, <2>8 DEF RecordsInv
<1>7. QED  BY <1>5, <1>6 DEF SnapshotDay, Snapshot

(* A restart ends every task; unless one was under way, it changes nothing.   *)
LEMMA RestartKeeps == ASSUME RecordsInv, Restart PROVE RecordsInv'
<1>1. /\ orders' = [i \in Orders |-> [orders[i] EXCEPT !.step = "done", !.read = {}, !.count = NothingRead]]
      /\ second' = second + 1 /\ snapshot' = NothingRead
      /\ failed' = (failed \/ \E i \in Orders : orders[i].step # "done")
      /\ cached' = (IF Cardinality(orderRows) < CacheLimit THEN Cardinality(orderRows) ELSE CacheLimit)
      /\ orderRows' = orderRows /\ trades' = trades /\ daily' = daily /\ openRows' = openRows
      /\ overlap' = overlap
  BY DEF Restart
<1> DEFINE size == Cardinality(orderRows)
<1>1a. /\ second' = second + 1 /\ snapshot' = -2 /\ trades' = trades /\ daily' = daily
      /\ cached' = (IF size < CacheLimit THEN size ELSE CacheLimit)
  BY <1>1 DEF NothingRead
<1>1b. second \in Int /\ daily \in Int /\ trades \in Nat
  BY DEF RecordsInv, RecordsTypeOK
<1> HIDE DEF size
<1>2. /\ RecordsTypeOK /\ failed \in BOOLEAN /\ daily \in Int /\ trades \in Nat
      /\ orderRows \subseteq {0} \cup Orders /\ second \in Int
  BY DEF RecordsInv, RecordsTypeOK
<1>3. /\ Orders = 1..Len(orders) /\ Len(orders) \in Nat /\ orders \in [Orders -> OrderEntry]
      /\ Filled \subseteq Orders /\ Traded \subseteq Filled /\ Counted \subseteq Filled
      /\ IsFiniteSet(Orders) /\ IsFiniteSet(Filled)
      /\ Cardinality(Filled) \in Nat /\ Cardinality(Traded) \in Nat /\ Cardinality(Counted) \in Nat
  <2>1. Traded \subseteq Orders /\ Counted \subseteq Orders  BY <1>2, OrdersNumbered
  <2>2. QED  BY <1>2, <2>1, OrdersNumbered
<1>4. \A i \in Orders : /\ orders'[i] \in OrderEntry /\ orders'[i].step = "done"
                        /\ orders'[i].kind = orders[i].kind /\ orders'[i].coin = orders[i].coin
                        /\ orders'[i].id = orders[i].id
  <2> TAKE i \in Orders
  <2>1. PICK m \in Int : m = NothingRead  BY DEF NothingRead
  <2>2. orders'[i] = [orders[i] EXCEPT !.step = "done", !.read = {}, !.count = m]
    BY <1>1, <2>1
  <2>3. orders[i] \in OrderEntry  BY <1>3
  <2>4. QED  BY <2>2, <2>3 DEF OrderEntry, Steps
<1>5. orders' \in Seq(OrderEntry) /\ Orders' = Orders
  <2>1. orders' \in [1..Len(orders) -> OrderEntry]
    BY <1>1, <1>3, <1>4
  <2>2. QED  BY <1>3, <2>1, SeqDef DEF Orders
<1>6. Filled' = Filled /\ Clash' = Clash
  BY <1>4, <1>5 DEF Filled, Clash
<1>7. Traded' = Filled /\ Counted' = Filled /\ Writing' = {}
  <2>1. Traded' = Filled  BY <1>3, <1>4, <1>6 DEF Traded, Steps
  <2>2. Counted' = Filled  BY <1>3, <1>4, <1>6 DEF Counted
  <2>3. Writing' = {}  BY <1>4, <1>5 DEF Writing
  <2>4. QED  BY <2>1, <2>2, <2>3
<1>8. Cardinality(Traded) <= Cardinality(Filled) /\ Cardinality(Counted) <= Cardinality(Filled)
  BY <1>3, FS_Subset
<1>9. ~failed' => ~failed /\ \A i \in Orders : orders[i].step = "done"
  BY <1>1
<1>10. ~failed' => Traded = Filled /\ Counted = Filled
  <2>1. ~failed' => Traded = Filled  BY <1>3, <1>9 DEF Traded, Steps
  <2>2. ~failed' => Counted = Filled  BY <1>3, <1>9 DEF Counted
  <2>3. QED  BY <2>1, <2>2
<1>11. RecordsTypeOK'
  <2>1. size \in Nat
    <3>1. IsFiniteSet(Orders \cup {0})  BY <1>3, FS_AddElement
    <3>2. QED  BY <1>2, <3>1, FS_Subset, FS_CardinalityType DEF size
  <2>2. cached' \in Int  BY <1>1a, <2>1, RecordsAssumption
  <2>3. failed' \in BOOLEAN  BY <1>1, <1>2
  <2>4. snapshot' \in Int  BY <1>1a
  <2>5. second' \in Int  BY <1>1a, <1>1b
  <2>6. QED  BY <1>1, <1>2, <1>4, <1>5, <2>2, <2>3, <2>4, <2>5 DEF RecordsTypeOK
<1>12. TradesCounted'
  <2>1. trades <= Cardinality(Traded) /\ (~failed => trades = Cardinality(Traded))
    BY DEF RecordsInv, TradesCounted
  <2>1a. Cardinality(Traded) \in Nat /\ Cardinality(Filled) \in Nat /\ trades <= Cardinality(Traded)
    BY <1>3, <2>1
  <2>2. trades' <= Cardinality(Filled)  BY <1>1a, <1>1b, <1>8, <2>1a
  <2>3. ~failed' => trades' = Cardinality(Filled)  BY <1>1, <1>9, <1>10, <2>1
  <2>4. QED  BY <1>7, <2>2, <2>3 DEF TradesCounted
<1>13. DayCounted'
  <2>1. daily <= Cardinality(Counted)  BY DEF RecordsInv, DayCounted
  <2>1a. Cardinality(Counted) \in Nat /\ Cardinality(Filled) \in Nat
    BY <1>3
  <2>2. daily' <= Cardinality(Filled)  BY <1>1a, <1>1b, <1>8, <2>1, <2>1a
  <2>3. ~failed' /\ "day" \notin overlap => daily = Cardinality(Filled) \/ (daily = NoRow /\ Filled = {})
    BY <1>9, <1>10 DEF RecordsInv, DayCounted
  <2>4. QED  BY <1>1, <1>7, <2>2, <2>3 DEF DayCounted
<1>14. OrdersListed'
  <2>1. ~failed' => {i \in Orders : orders[i].step # "order"} = Orders
    BY <1>9
  <2>2. {i \in Orders' : orders'[i].step # "order"} = Orders
    BY <1>4, <1>5
  <2>3. ~failed' => ~failed
    BY <1>9
  <2>4. QED  BY <1>1, <1>6, <2>1, <2>2, <2>3 DEF RecordsInv, OrdersListed
<1>15. ASSUME ~failed', NEW s \in Coins \ overlap'
       PROVE  RowsFollow(s)'
  <2>1. RowsFollow(s) /\ \A j \in Orders : orders[j].step = "done"
    BY <1>1, <1>9, <1>15 DEF RecordsInv
  <2>2. DoneOf(s)' = DoneOf(s) /\ \A j \in DoneOf(s) : j \in Orders
    BY <1>3, <1>4, <1>6, <2>1 DEF DoneOf
  <2>3. openRows[s] # {} <=> \E j \in DoneOf(s) : orders[j].kind = "BUY" /\ \A k \in DoneOf(s) : k <= j
    BY <2>1 DEF RowsFollow
  <2>4. openRows'[s] # {} <=> \E j \in DoneOf(s) : orders'[j].kind = "BUY" /\ \A k \in DoneOf(s) : k <= j
    BY <1>1, <1>4, <2>2, <2>3
  <2>5. \A x, y \in openRows'[s] : x = y
    BY <1>1, <2>1 DEF RowsFollow
  <2>6. QED  BY <1>4, <1>5, <2>2, <2>4, <2>5 DEF RowsFollow
<1>16. QED  BY <1>11, <1>12, <1>13, <1>14, <1>15 DEF RecordsInv

(* No step of a task, of the main loop or of a restart breaks the invariant.  *)
LEMMA RecordsStep == RecordsInv /\ [RecordsNext]_recordVars => RecordsInv'
<1> SUFFICES ASSUME RecordsInv, [RecordsNext]_recordVars PROVE RecordsInv'
  OBVIOUS
<1>1. ASSUME NEW kind \in {"BUY", "SELL", "SYNCED"}, NEW s \in Coins, NEW t \in {second, second + 1},
             AddOrder(kind, s, t)
      PROVE  RecordsInv'
  BY <1>1, AddOrderKeeps
<1>2. ASSUME NEW i \in Orders, ReadDay(i) \/ ReadPosition(i) PROVE RecordsInv'
  BY <1>2, ReadDayKeeps, ReadPositionKeeps
<1>3. ASSUME NEW i \in Orders, NEW good \in {TRUE, failed},
             RecordOrder(i, good) \/ RecordTrade(i, good) \/ WriteDay(i, good) \/ WritePosition(i, good)
      PROVE  RecordsInv'
  <2>1. good \in BOOLEAN  BY DEF RecordsInv, RecordsTypeOK
  <2>2. QED  BY <1>3, <2>1, RecordOrderKeeps, RecordTradeKeeps, WriteDayKeeps, WritePositionKeeps
<1>4. CASE SnapshotDay  BY <1>4, SnapshotKeeps
<1>5. CASE Restart  BY <1>5, RestartKeeps
<1>6. CASE UNCHANGED recordVars
  <2>1. /\ orders' = orders /\ cached' = cached /\ second' = second /\ orderRows' = orderRows
        /\ trades' = trades /\ daily' = daily /\ openRows' = openRows /\ snapshot' = snapshot
        /\ failed' = failed /\ overlap' = overlap
    BY <1>6 DEF recordVars
  <2>2. /\ Orders' = Orders /\ Filled' = Filled /\ Traded' = Traded /\ Counted' = Counted
        /\ Writing' = Writing /\ Clash' = Clash
    BY <2>1 DEF Orders, Filled, Traded, Counted, Writing, Clash
  <2>3. RecordsTypeOK' /\ TradesCounted' /\ OrdersListed'
    BY <2>1, <2>2 DEF RecordsInv, RecordsTypeOK, TradesCounted, OrdersListed
  <2>4. DayCounted'
    BY <2>1, <2>2 DEF RecordsInv, DayCounted
  <2>5. \A s \in Coins : RowsFollow(s) => RowsFollow(s)'
    <3> SUFFICES ASSUME NEW s \in Coins, RowsFollow(s) PROVE RowsFollow(s)'
      OBVIOUS
    <3>1. DoneOf(s)' = DoneOf(s)  BY <2>1, <2>2 DEF DoneOf
    <3>2. QED  BY <2>1, <2>2, <3>1 DEF RowsFollow
  <2>6. QED  BY <2>1, <2>3, <2>4, <2>5 DEF RecordsInv
<1>7. QED  BY <1>1, <1>2, <1>3, <1>4, <1>5, <1>6 DEF RecordsNext

(* What the invariant says once the tasks have ended.                        *)
LEMMA RecordsSound == RecordsInv => RecordsExact
<1> SUFFICES ASSUME RecordsInv, Quiet PROVE RecordsExact
  BY DEF RecordsExact
<1>1. /\ RecordsTypeOK /\ Filled \subseteq Orders /\ \A i \in Orders : orders[i].step = "done"
  BY OrdersNumbered DEF RecordsInv, Quiet
<1>2. Traded = Filled /\ Counted = Filled
  <2>1. Traded = Filled  BY <1>1 DEF Traded, Steps
  <2>2. Counted = Filled  BY <1>1 DEF Counted
  <2>3. QED  BY <2>1, <2>2
<1>3. daily <= Cardinality(Filled) /\ trades <= Cardinality(Filled)
  BY <1>2 DEF RecordsInv, DayCounted, TradesCounted
<1>4. ~failed => Clash \/ orderRows \ {0} = Orders
  BY <1>1 DEF RecordsInv, OrdersListed
<1>5. ~failed => trades = Cardinality(Filled)
  BY <1>2 DEF RecordsInv, TradesCounted
<1>6. ~failed => "day" \in overlap \/ Filled = {} \/ daily = Cardinality(Filled)
  BY <1>2 DEF RecordsInv, DayCounted
<1>7. ASSUME ~failed, NEW s \in Coins \ overlap
      PROVE  /\ Cardinality(openRows[s]) <= 1
             /\ openRows[s] # {} <=> \E i \in LastOf(s) : orders[i].kind = "BUY"
  <2>1. RowsFollow(s)
    BY <1>7 DEF RecordsInv
  <2>2. Cardinality(openRows[s]) \in {0, 1}
    <3>1. CASE openRows[s] = {}
      BY <3>1, FS_EmptySet
    <3>2. CASE openRows[s] # {}
      <4>1. \A x, y \in openRows[s] : x = y  BY <2>1 DEF RowsFollow
      <4>2. PICK x : openRows[s] = {x}  BY <3>2, <4>1
      <4>3. QED  BY <4>2, FS_Singleton
    <3>3. QED  BY <3>1, <3>2
  <2>3. \A i : i \in LastOf(s) <=> i \in DoneOf(s) /\ \A j \in DoneOf(s) : j <= i
    BY <1>1 DEF LastOf, DoneOf
  <2>4. openRows[s] # {} <=> \E j \in DoneOf(s) : orders[j].kind = "BUY" /\ \A k \in DoneOf(s) : k <= j
    BY <2>1 DEF RowsFollow
  <2>5. QED  BY <2>2, <2>3, <2>4
<1>8. QED  BY <1>3, <1>4, <1>5, <1>6, <1>7 DEF RecordsExact

(* Once the tasks that record the orders have ended, the tables hold what     *)
(* was traded, but for the losses the code allows; the reconciler counts a    *)
(* drift in every cycle it stands in; and the profit of a day is what the     *)
(* equity and the trades made of it.                                         *)
THEOREM BooksAgreeAlways ==
  /\ RecordsInit /\ ReconcileInit
  /\ [][RecordsNext]_recordVars /\ [][ReconcileNext \/ BooksNext]_reconcileVars
  => []BooksAgree
<1>1. RecordsInv /\ ReconcileInv => BooksAgree
  BY RecordsSound, ReconcileSound DEF BooksAgree
<1>2. QED  BY InitRecords, RecordsStep, InitReconcile, ReconcileStep, <1>1, PTL

-------------------------------------------------------------------------------
(* OptimizerSession                                                         *)

Reasons == {"none", "generation", "code kept", "raised", "final parameters"}

Candidate ==
  [there : {TRUE}, type : {"TREND", "VOLUME"}, active : BOOLEAN, code : Codes, params : Versions,
   return : Int, of : Codes \X (0..2), walk : BOOLEAN, excuse : Reasons]

SessionTypeOK ==
  /\ cands \in [Ids -> Candidate \cup {NoCandidate}]
  /\ rnd \in Nat /\ applied \in Int /\ queue \in Seq(Ids)

(* What the figures of a candidate are of, whichever way it came by them.     *)
FiguresOf(c) ==
  /\ c.return = NotRun => c.of = <<NoCode, 0>>
  /\ c.excuse = "none" /\ c.return # NotRun => c.of = <<c.code, c.params>>
  /\ c.excuse = "code kept" => c.of[1] # c.code /\ (c.return # NotRun => c.of[2] = c.params)

(* Work that is begun belongs to the phase the session is in.                *)
InPhase ==
  /\ queue # <<>> => Discovered < rnd /\ rnd <= Generated
  /\ applied >= 0 => Generated < rnd /\ rnd <= Optimized

Reported ==
  \/ report = NoReport
  \/ /\ report.done /\ rnd > LastRound
     /\ \A c \in report.selected : c \in Found /\ cands[c].return # NotRun
     /\ \A c, d \in report.ensemble : cands[c].type = cands[d].type => c = d

SessionInv == SessionTypeOK /\ (\A c \in Found : FiguresOf(cands[c])) /\ InPhase /\ Reported

(* What is said of the parts of an empty or of a full sequence.              *)
LEMMA SetAsSequence ==
  ASSUME NEW S, IsFiniteSet(S)
  PROVE  SetToSeq(S) \in Seq(S)
<1> DEFINE n == Cardinality(S)
<1>1. n \in Nat  BY FS_CardinalityType
<1>2. PICK f : f \in Bijection(1..n, S)
  BY <1>1, FS_CardinalityType DEF ExistsBijection
<1>3. f \in [1..n -> S] /\ IsInjective(f)
  BY <1>2 DEF Bijection, Injection, IsInjective
<1>4. SetToSeq(S) \in [1..n -> S]
  <2> HIDE DEF n
  <2>1. \E g \in [1..n -> S] : IsInjective(g)  BY <1>3
  <2>2. SetToSeq(S) = CHOOSE g \in [1..n -> S] : IsInjective(g)  BY DEF SetToSeq, n
  <2>3. QED  BY <2>1, <2>2
<1>5. QED  BY <1>1, <1>4

(* A change that is kept for any other reason than that the code was kept.   *)
LEMMA KeptFigures ==
  ASSUME NEW c \in Candidate, c.return = NotRun => c.of = <<NoCode, 0>>,
         NEW why \in {"generation", "raised", "final parameters"}
  PROVE  Kept(c, why) \in Candidate /\ FiguresOf(Kept(c, why))
<1> DEFINE k == Kept(c, why)
<1>1. /\ k.there = c.there /\ k.type = c.type /\ k.active = c.active /\ k.code = c.code
      /\ k.params = c.params /\ k.return = c.return /\ k.of = c.of /\ k.walk = c.walk
      /\ k.excuse = IF c.of = <<c.code, c.params>> THEN "none" ELSE why
  BY DEF Kept, Candidate
<1>2. k \in Candidate
  BY DEF Kept, Candidate, Reasons
<1>3. FiguresOf(k)
  <2> HIDE DEF k
  <2>1. QED  BY <1>1 DEF FiguresOf
<1>4. QED  BY <1>2, <1>3

(* A result belongs to what it was measured of.                              *)
LEMMA ResultFigures ==
  ASSUME NEW c \in Candidate, NEW r \in Int, r # NotRun
  PROVE  WithResult(c, r) \in Candidate /\ FiguresOf(WithResult(c, r))
<1> DEFINE k == WithResult(c, r)
<1>1. c.code \in Codes /\ c.params \in 0..2  BY DEF Candidate, Versions
<1>2. <<c.code, c.params>> \in Codes \X (0..2)  BY <1>1
<1>3. /\ k.return = r /\ k.of = <<c.code, c.params>> /\ k.excuse = "none"
      /\ k.code = c.code /\ k.params = c.params
  BY DEF WithResult, Candidate
<1>4. k \in Candidate
  BY <1>2 DEF WithResult, Candidate, Reasons
<1>5. FiguresOf(k)
  <2> HIDE DEF k
  <2>1. QED  BY <1>3 DEF FiguresOf
<1>6. QED  BY <1>4, <1>5

(* An optimization that is taken back.                                       *)
LEMMA RevertedFigures ==
  ASSUME NEW old \in Candidate, FiguresOf(old), NEW code \in Codes \ {NoCode}, NEW params \in Versions
  PROVE  LET back == Reverted([old EXCEPT !.code = code, !.params = params], old)
         IN  back \in Candidate /\ FiguresOf(back)
<1> DEFINE d == [old EXCEPT !.code = code, !.params = params]
           b == [d EXCEPT !.params = old.params]
           why == IF old.excuse = "none" THEN "code kept" ELSE old.excuse
           k == Kept(b, why)
<1>1. /\ b \in Candidate /\ b.code = code /\ b.params = old.params /\ b.return = old.return
      /\ b.of = old.of /\ d.code = code
  BY DEF Candidate
<1>2. CASE code = old.code
  <2>1. b = old  BY <1>2 DEF Candidate
  <2>2. Reverted(d, old) = old  BY <1>1, <1>2, <2>1 DEF Reverted
  <2>3. QED  BY <2>2
<1>3. CASE code # old.code
  <2>1. Reverted(d, old) = k  BY <1>1, <1>3 DEF Reverted
  <2>2. why \in Reasons  BY DEF Candidate, Reasons
  <2>3. /\ k.code = code /\ k.params = old.params /\ k.return = old.return /\ k.of = old.of
        /\ k.excuse = IF old.of = <<code, old.params>> THEN "none" ELSE why
    <3> HIDE DEF b, why
    <3>1. QED  BY <1>1 DEF Kept, Candidate
  <2>4. k \in Candidate
    <3> HIDE DEF b, why
    <3>1. QED  BY <1>1, <2>2 DEF Kept, Candidate, Reasons
  <2>5. ASSUME k.excuse = "code kept"
        PROVE  old.of[1] # code /\ (old.return # NotRun => old.of[2] = old.params)
    <3> HIDE DEF k
    <3>1. old.of # <<code, old.params>> /\ why = "code kept"  BY <2>3, <2>5
    <3>2. old.excuse \in {"none", "code kept"}  BY <3>1
    <3>3. CASE old.return = NotRun
      <4>1. old.of = <<NoCode, 0>>  BY <3>3 DEF FiguresOf
      <4>2. old.of[1] = NoCode  BY <4>1
      <4>3. QED  BY <3>3, <4>2
    <3>4. CASE old.return # NotRun /\ old.excuse = "none"
      <4>1. old.of = <<old.code, old.params>>  BY <3>4 DEF FiguresOf
      <4>2. old.of[1] = old.code /\ old.of[2] = old.params  BY <4>1
      <4>3. QED  BY <1>3, <4>2
    <3>5. CASE old.return # NotRun /\ old.excuse = "code kept"
      <4>1. old.of[2] = old.params  BY <3>5 DEF FiguresOf
      <4>2. old.of = <<old.of[1], old.of[2]>>  BY DEF Candidate
      <4>3. old.of[1] # code  BY <3>1, <4>1, <4>2
      <4>4. QED  BY <4>1, <4>3
    <3>6. QED  BY <3>2, <3>3, <3>4, <3>5
  <2>6. ASSUME k.excuse = "none", old.return # NotRun
        PROVE  old.of = <<code, old.params>>
    <3> HIDE DEF k
    <3>1. QED  BY <2>3, <2>6
  <2>7. FiguresOf(k)
    <3>1. old.return = NotRun => old.of = <<NoCode, 0>>  BY DEF FiguresOf
    <3> HIDE DEF k, why
    <3>2. QED  BY <2>3, <2>5, <2>6, <3>1 DEF FiguresOf
  <2>8. QED  BY <2>1, <2>4, <2>7
<1>4. QED  BY <1>2, <1>3

(* A step that gives every candidate figures of its own, before the report.  *)
LEMMA CandidatesKeep ==
  ASSUME SessionInv, NEW h \in [Ids -> Candidate \cup {NoCandidate}], cands' = h, rnd <= LastRound, report' = report,
         \A c \in Ids : h[c] = cands[c] \/ (h[c] \in Candidate /\ FiguresOf(h[c]))
  PROVE  /\ cands' \in [Ids -> Candidate \cup {NoCandidate}]
         /\ (\A c \in Found : FiguresOf(cands[c]))' /\ Reported'
<1>1. report = NoReport
  <2>1. LastRound \in Nat /\ rnd \in Nat  BY SessionAssumption DEF SessionInv, SessionTypeOK
  <2>2. QED  BY <2>1 DEF SessionInv, Reported
<1>2. Reported'
  BY <1>1 DEF Reported
<1>3. ASSUME NEW c \in Ids, cands'[c].there
      PROVE  FiguresOf(cands'[c])
  <2>1. CASE h[c] = cands[c]
    <3>1. c \in Found  BY <1>3, <2>1 DEF Found
    <3>2. FiguresOf(cands[c])  BY <3>1 DEF SessionInv
    <3>3. QED  BY <2>1, <3>2
  <2>2. CASE h[c] \in Candidate /\ FiguresOf(h[c])
    BY <2>2
  <2>3. QED  BY <2>1, <2>2
<1>4. QED  BY <1>2, <1>3 DEF Found

(* A candidate of the session, or nobody.                                    *)
LEMMA CandidateOrNone ==
  ASSUME SessionInv, NEW c \in Ids
  PROVE  \/ cands[c] = NoCandidate
         \/ cands[c] \in Candidate /\ FiguresOf(cands[c]) /\ cands[c].there
<1>1. CASE cands[c] = NoCandidate
  BY <1>1
<1>2. CASE cands[c] \in Candidate
  <2>1. cands[c].there  BY <1>2 DEF Candidate
  <2>2. c \in Found  BY <2>1 DEF Found
  <2>3. QED  BY <1>2, <2>1, <2>2 DEF SessionInv
<1>3. QED  BY <1>1, <1>2 DEF SessionInv, SessionTypeOK

(* There is no candidate at the start.                                      *)
LEMMA SessionStarts == SessionInit => SessionInv
<1> SUFFICES ASSUME SessionInit PROVE SessionInv
  OBVIOUS
<1>1. SessionTypeOK  BY DEF SessionInit, SessionTypeOK
<1>2. Found = {}  BY DEF SessionInit, Found, NoCandidate
<1>3. InPhase /\ Reported  BY DEF SessionInit, InPhase, Reported
<1>4. QED  BY <1>1, <1>2, <1>3 DEF SessionInv

(* A round that fails leaves the candidates as they are.                    *)
LEMMA RoundFailsKeeps == ASSUME SessionInv, RoundFails PROVE SessionInv'
<1>1. /\ cands' = cands /\ report' = report /\ queue' = <<>> /\ applied' = -1 /\ rnd' = rnd + 1
      /\ rnd <= LastRound
  BY DEF RoundFails, Waiting, NextRound
<1>2. SessionTypeOK'  BY <1>1 DEF SessionInv, SessionTypeOK
<1>3. InPhase'  BY <1>1 DEF InPhase
<1>4. rnd \in Nat /\ LastRound \in Nat  BY SessionAssumption DEF SessionInv, SessionTypeOK
<1>5. Reported'  BY <1>1, <1>4 DEF SessionInv, Reported, Found
<1>6. QED  BY <1>1, <1>2, <1>3, <1>5 DEF SessionInv, Found

(* A candidate that is discovered has not been measured.                    *)
LEMMA DiscoverKeeps ==
  ASSUME SessionInv, NEW known \in SUBSET Ids, NEW types \in [known -> {"TREND", "VOLUME"}], Discover(types, 1)
  PROVE  SessionInv'
<1> DEFINE h == [c \in Ids |-> IF ~cands[c].there /\ c \in DOMAIN types THEN New(types[c], 1) ELSE cands[c]]
<1>1. /\ cands' = h /\ rnd' = rnd + 1 /\ rnd <= LastRound /\ rnd <= Discovered
      /\ queue' = queue /\ applied' = applied /\ report' = report
  BY DEF Discover, NextRound, Phase
<1>2. /\ rnd \in Nat /\ Discovered \in Nat /\ Generated \in Nat /\ Optimized \in Nat
      /\ Discovered <= Generated /\ applied \in Int
  BY SessionAssumption DEF SessionInv, SessionTypeOK
<1>3. ASSUME NEW t \in {"TREND", "VOLUME"}
      PROVE  New(t, 1) \in Candidate /\ FiguresOf(New(t, 1))
  <2>1. <<NoCode, 0>> \in Codes \X (0..2)  BY DEF NoCode, Codes
  <2>2. NotRun \in Int /\ NoCode \in Codes /\ 1 \in Versions  BY DEF NotRun, NoCode, Codes, Versions
  <2>3. New(t, 1) \in Candidate  BY <1>3, <2>1, <2>2 DEF New, Candidate, Reasons
  <2>4. FiguresOf(New(t, 1))  BY DEF New, FiguresOf
  <2>5. QED  BY <2>3, <2>4
<1>4. ASSUME NEW c \in Ids
      PROVE  h[c] = cands[c] \/ (h[c] \in Candidate /\ FiguresOf(h[c]))
  <2>1. CASE ~cands[c].there /\ c \in DOMAIN types
    <3>1. h[c] = New(types[c], 1) /\ types[c] \in {"TREND", "VOLUME"}  BY <2>1
    <3>2. QED  BY <3>1, <1>3
  <2>2. CASE ~(~cands[c].there /\ c \in DOMAIN types)
    BY <2>2
  <2>3. QED  BY <2>1, <2>2
<1>5. h \in [Ids -> Candidate \cup {NoCandidate}]
  BY <1>4 DEF SessionInv, SessionTypeOK
<1>6. /\ cands' \in [Ids -> Candidate \cup {NoCandidate}]
      /\ (\A c \in Found : FiguresOf(cands[c]))' /\ Reported'
  <2> HIDE DEF h
  <2>1. QED  BY <1>1, <1>4, <1>5, CandidatesKeep
<1>7. InPhase'
  <2> HIDE DEF h
  <2>1. queue = <<>> /\ ~(applied >= 0)  BY <1>1, <1>2 DEF SessionInv, InPhase
  <2>2. QED  BY <1>1, <2>1 DEF InPhase
<1>8. rnd' \in Nat /\ applied' \in Int /\ queue' \in Seq(Ids)
  <2> HIDE DEF h
  <2>1. QED  BY <1>1, <1>2 DEF SessionInv, SessionTypeOK
<1>9. QED  BY <1>6, <1>7, <1>8 DEF SessionInv, SessionTypeOK

(* The generation begins with a queue of candidates of the session.         *)
LEMMA StartGenerationKeeps == ASSUME SessionInv, StartGeneration PROVE SessionInv'
<1> DEFINE bare == {c \in ActiveIds : cands[c].code = NoCode}
           worst == {c \in ActiveIds : \A d \in ActiveIds \ {c} : Ranked(d, c)}
           next == IF bare # {} THEN bare ELSE worst
<1>1. /\ cands' = cands /\ report' = report /\ applied' = -1
      /\ queue' = IF bare = Ids THEN <<"c1", "c2">> ELSE SetToSeq(next)
      /\ Discovered < rnd /\ rnd <= Generated
      /\ IF queue' = <<>> THEN rnd' = rnd + 1 ELSE rnd' = rnd
  <2>1. /\ cands' = cands /\ report' = report /\ applied' = applied /\ applied = -1
        /\ queue' = IF bare = Ids THEN <<"c1", "c2">> ELSE SetToSeq(next)
        /\ Phase = "generation"
        /\ IF queue' = <<>> THEN rnd' = rnd + 1 ELSE rnd' = rnd
    BY DEF StartGeneration, Waiting, NextRound
  <2>2. rnd \in Nat /\ Discovered \in Nat /\ Generated \in Nat
    BY SessionAssumption DEF SessionInv, SessionTypeOK
  <2>3. Discovered < rnd /\ rnd <= Generated  BY <2>1, <2>2 DEF Phase
  <2>4. QED  BY <2>1, <2>3
<1>2. next \subseteq Ids  BY DEF ActiveIds
<1>3. /\ rnd \in Nat /\ Generated \in Nat /\ LastRound \in Nat /\ Generated <= LastRound
  BY SessionAssumption DEF SessionInv, SessionTypeOK
<1>4. queue' \in Seq(Ids)
  <2>1. <<"c1", "c2">> \in Seq(Ids)  BY DEF Ids
  <2>2. IsFiniteSet(Ids)  BY FewAreFinite DEF Ids
  <2>3. IsFiniteSet(next)  BY <1>2, <2>2, FS_Subset
  <2> HIDE DEF next
  <2>4. SetToSeq(next) \in Seq(next)  BY <2>3, SetAsSequence
  <2>5. SetToSeq(next) \in Seq(Ids)  BY <1>2, <2>4
  <2>6. QED  BY <1>1, <2>1, <2>5
<1> HIDE DEF next, bare
<1>5. rnd' \in Nat /\ (queue' # <<>> => rnd' = rnd)  BY <1>1, <1>3
<1>6. SessionTypeOK'  BY <1>1, <1>4, <1>5 DEF SessionInv, SessionTypeOK
<1>7. InPhase'  BY <1>1, <1>5 DEF InPhase
<1>8. report = NoReport  BY <1>1, <1>3 DEF SessionInv, Reported
<1>9. Reported'  BY <1>1, <1>8 DEF Reported
<1>10. QED  BY <1>1, <1>6, <1>7, <1>9 DEF SessionInv, Found

(* What is generated is measured, or kept for a reason.                     *)
LEMMA GenerateKeeps == ASSUME SessionInv, Generate PROVE SessionInv'
<1> DEFINE id == Head(queue)
           c == cands[id]
<1>1. /\ queue # <<>> /\ queue \in Seq(Ids) /\ applied' = applied /\ report' = report
  BY DEF Generate, SessionInv, SessionTypeOK
<1>2. id \in Ids /\ Tail(queue) \in Seq(Ids) /\ (Len(queue) = 1 => Tail(queue) = <<>>)
  <2>1. id \in Ids /\ Tail(queue) \in Seq(Ids) /\ Len(Tail(queue)) = Len(queue) - 1
    BY <1>1, HeadTailProperties
  <2>2. Len(Tail(queue)) = 0 => Tail(queue) = <<>>
    BY <2>1, EmptySeq
  <2>3. QED  BY <2>1, <2>2
<1>3. /\ rnd \in Nat /\ Discovered \in Nat /\ Generated \in Nat /\ LastRound \in Nat /\ Generated <= LastRound
      /\ Discovered < rnd /\ rnd <= Generated
  BY <1>1, SessionAssumption DEF SessionInv, SessionTypeOK, InPhase
<1>4. \/ queue' = Tail(queue) /\ rnd' = IF Len(queue) = 1 THEN rnd + 1 ELSE rnd
      \/ queue' = queue /\ rnd' = rnd
  BY DEF Generate, NextInQueue, NextRound
<1>5. PICK k : /\ cands' = [cands EXCEPT ![id] = k]
               /\ \/ k = Kept(c, "generation")
                  \/ \E code \in Codes, params \in Versions :
                       LET d == [c EXCEPT !.code = code, !.params = params]
                       IN  \/ k = Kept(d, "generation")
                           \/ k = [Kept(d, "generation") EXCEPT !.active = FALSE]
                           \/ \E r \in Results(d) : r # NotRun /\ k = WithResult(d, r)
  BY DEF Generate
<1>6. k = c \/ (k \in Candidate /\ FiguresOf(k))
  <2>1. CASE c = NoCandidate
    <3>1. \A why : Kept(c, why) = c  BY <2>1 DEF Kept, NoCandidate
    <3>2. ASSUME NEW code \in Codes, NEW params \in Versions
          PROVE  [c EXCEPT !.code = code, !.params = params] = c
      BY <2>1 DEF NoCandidate
    <3>3. [c EXCEPT !.active = FALSE] = c  BY <2>1 DEF NoCandidate
    <3>4. \A r : WithResult(c, r) = c  BY <2>1 DEF WithResult, NoCandidate
    <3> HIDE DEF c
    <3>5. QED  BY <1>5, <3>1, <3>2, <3>3, <3>4
  <2>2. CASE c \in Candidate /\ FiguresOf(c)
    <3>1. c.return = NotRun => c.of = <<NoCode, 0>>  BY <2>2 DEF FiguresOf
    <3>2. ASSUME NEW code \in Codes, NEW params \in Versions
          PROVE  LET d == [c EXCEPT !.code = code, !.params = params]
                 IN  d \in Candidate /\ (d.return = NotRun => d.of = <<NoCode, 0>>)
      <4> HIDE DEF c
      <4>1. QED  BY <2>2, <3>1 DEF Candidate
    <3>3. ASSUME NEW d \in Candidate, FiguresOf(d)
          PROVE  [d EXCEPT !.active = FALSE] \in Candidate /\ FiguresOf([d EXCEPT !.active = FALSE])
      BY <3>3 DEF Candidate, FiguresOf
    <3>4. ASSUME NEW d, NEW r \in Results(d)
          PROVE  r \in Int
      BY <3>4 DEF Results, Returns, NotRun
    <3> HIDE DEF c
    <3>5. CASE k = Kept(c, "generation")
      BY <2>2, <3>1, <3>5, KeptFigures
    <3>6. ASSUME NEW code \in Codes, NEW params \in Versions, NEW d, d = [c EXCEPT !.code = code, !.params = params],
                 \/ k = Kept(d, "generation")
                 \/ k = [Kept(d, "generation") EXCEPT !.active = FALSE]
                 \/ \E r \in Results(d) : r # NotRun /\ k = WithResult(d, r)
          PROVE  k \in Candidate /\ FiguresOf(k)
      <4>1. d \in Candidate /\ (d.return = NotRun => d.of = <<NoCode, 0>>)  BY <3>2, <3>6
      <4>2. Kept(d, "generation") \in Candidate /\ FiguresOf(Kept(d, "generation"))
        BY <4>1, KeptFigures
      <4>3. CASE \E r \in Results(d) : r # NotRun /\ k = WithResult(d, r)
        <5>1. PICK r \in Results(d) : r # NotRun /\ k = WithResult(d, r)  BY <4>3
        <5>2. r \in Int  BY <3>4
        <5>3. QED  BY <4>1, <5>1, <5>2, ResultFigures
      <4>4. QED  BY <3>3, <3>6, <4>2, <4>3
    <3>7. QED  BY <1>5, <3>5, <3>6
  <2>3. QED  BY <1>2, <2>1, <2>2, CandidateOrNone
<1> DEFINE h == [cands EXCEPT ![id] = k]
<1>7. ASSUME NEW e \in Ids
      PROVE  h[e] = cands[e] \/ (h[e] \in Candidate /\ FiguresOf(h[e]))
  <2>1. cands \in [Ids -> Candidate \cup {NoCandidate}]  BY DEF SessionInv, SessionTypeOK
  <2> HIDE DEF id
  <2>2. QED  BY <1>2, <1>6, <2>1
<1>8. h \in [Ids -> Candidate \cup {NoCandidate}]
  <2>1. cands \in [Ids -> Candidate \cup {NoCandidate}]  BY DEF SessionInv, SessionTypeOK
  <2>2. QED  BY <1>7, <2>1
<1>9. /\ cands' \in [Ids -> Candidate \cup {NoCandidate}]
      /\ (\A e \in Found : FiguresOf(cands[e]))' /\ Reported'
  <2>1. cands' = h  BY <1>5
  <2>2. rnd <= LastRound  BY <1>3
  <2> HIDE DEF h
  <2>3. QED  BY <1>1, <1>7, <1>8, <2>1, <2>2, CandidatesKeep
<1>10. InPhase'
  <2>1. \/ queue' = <<>>
        \/ rnd' = rnd
    BY <1>2, <1>4
  <2>2. ~(applied >= 0)
    <3>1. applied \in Int  BY DEF SessionInv, SessionTypeOK
    <3>2. QED  BY <1>3, <3>1 DEF SessionInv, InPhase
  <2>3. QED  BY <1>1, <1>3, <2>1, <2>2 DEF InPhase
<1>11. queue' \in Seq(Ids) /\ rnd' \in Nat
  BY <1>1, <1>2, <1>3, <1>4
<1>12. QED  BY <1>1, <1>9, <1>10, <1>11 DEF SessionInv, SessionTypeOK

(* What is measured again at the start of an optimization.                   *)
LEMMA StartOptimizationKeeps == ASSUME SessionInv, StartOptimization PROVE SessionInv'
<1>1. PICK r \in [Ids -> Returns \cup {NotRun}] :
        /\ \A c \in Ids : r[c] \in IF c \in ActiveIds THEN Results(cands[c]) ELSE {NotRun}
        /\ cands' = [c \in Ids |-> IF r[c] = NotRun THEN cands[c] ELSE WithResult(cands[c], r[c])]
  BY DEF StartOptimization
<1> DEFINE h == [c \in Ids |-> IF r[c] = NotRun THEN cands[c] ELSE WithResult(cands[c], r[c])]
<1>2. /\ rnd' = rnd /\ queue' = queue /\ queue = <<>> /\ report' = report /\ applied' = 0
      /\ Phase = "optimization"
  BY DEF StartOptimization, Waiting
<1>3. /\ rnd \in Nat /\ Discovered \in Nat /\ Generated \in Nat /\ Optimized \in Nat /\ LastRound \in Nat
      /\ Discovered <= Generated /\ Optimized <= LastRound
  BY SessionAssumption DEF SessionInv, SessionTypeOK
<1>4. Generated < rnd /\ rnd <= Optimized
  BY <1>2, <1>3 DEF Phase
<1>5. ASSUME NEW c \in Ids
      PROVE  h[c] = cands[c] \/ (h[c] \in Candidate /\ FiguresOf(h[c]))
  <2>1. CASE r[c] = NotRun
    BY <2>1
  <2>2. CASE r[c] # NotRun
    <3>1. c \in ActiveIds /\ h[c] = WithResult(cands[c], r[c])  BY <1>1, <2>2
    <3>2. cands[c] \in Candidate
      BY <3>1, CandidateOrNone DEF ActiveIds, NoCandidate
    <3>3. r[c] \in Int  BY DEF Returns, NotRun
    <3> HIDE DEF h
    <3>4. QED  BY <2>2, <3>1, <3>2, <3>3, ResultFigures
  <2>3. QED  BY <2>1, <2>2
<1>6. h \in [Ids -> Candidate \cup {NoCandidate}]
  BY <1>5 DEF SessionInv, SessionTypeOK
<1>7. cands' = h  BY <1>1
<1>8. rnd <= LastRound  BY <1>3, <1>4
<1>9. /\ cands' \in [Ids -> Candidate \cup {NoCandidate}]
      /\ (\A c \in Found : FiguresOf(cands[c]))' /\ Reported'
  <2> HIDE DEF h
  <2>1. QED  BY <1>2, <1>5, <1>6, <1>7, <1>8, CandidatesKeep
<1>10. InPhase'  BY <1>2, <1>4 DEF InPhase
<1>11. QED  BY <1>2, <1>9, <1>10 DEF SessionInv, SessionTypeOK

(* One candidate changes while an answer is worked through.                  *)
LEMMA OptimizeKeeps == ASSUME SessionInv, Optimize PROVE SessionInv'
<1>1. /\ queue' = queue /\ report' = report /\ applied \in 0..MaxOptimized - 1
      /\ \/ applied' = applied + 1 /\ rnd' = rnd
         \/ applied' = -1 /\ rnd' = rnd + 1
  BY DEF Optimize, NextRound
<1>2. PICK id \in Found, params \in Versions, code \in Codes \ {NoCode} :
       LET old == cands[id]
           keeps == code = old.code
           d == [old EXCEPT !.code = IF keeps THEN old.code ELSE code, !.params = params]
       IN  \/ /\ IF ~Compiles(d) THEN cands' = [cands EXCEPT ![id] = Reverted(d, old)]
                 ELSE \E r \in Results(d) :
                        cands' = [cands EXCEPT ![id] =
                          IF r # NotRun /\ r > old.return THEN WithResult(d, r) ELSE Reverted(d, old)]
           \/ cands' = [cands EXCEPT ![id] = Kept(d, "raised")]
  BY ZenonT(40) DEF Optimize
<1> DEFINE old == cands[id]
           d == [old EXCEPT !.code = code, !.params = params]
<1>3. /\ rnd \in Nat /\ Discovered \in Nat /\ Generated \in Nat /\ Optimized \in Nat /\ LastRound \in Nat
      /\ Discovered <= Generated /\ Optimized <= LastRound /\ applied \in Int
      /\ (applied >= 0 => Generated < rnd /\ rnd <= Optimized)
      /\ (queue # <<>> => Discovered < rnd /\ rnd <= Generated)
  BY SessionAssumption DEF SessionInv, SessionTypeOK, InPhase
<1>4. applied >= 0  BY <1>1, <1>3
<1>5. id \in Ids /\ old \in Candidate /\ FiguresOf(old)
  <2>1. id \in Ids /\ old.there  BY DEF Found
  <2>2. QED  BY <2>1, CandidateOrNone DEF NoCandidate
<1>6. PICK k : /\ cands' = [cands EXCEPT ![id] = k]
               /\ \/ k = Reverted(d, old)
                  \/ \E r \in Results(d) : r # NotRun /\ k = WithResult(d, r)
                  \/ k = Kept(d, "raised")
  <2>1. code = (IF code = old.code THEN old.code ELSE code)  OBVIOUS
  <2>2. \/ cands' = [cands EXCEPT ![id] = Reverted(d, old)]
        \/ \E r \in Results(d) : r # NotRun /\ cands' = [cands EXCEPT ![id] = WithResult(d, r)]
        \/ cands' = [cands EXCEPT ![id] = Kept(d, "raised")]
    BY <1>2, <2>1
  <2> HIDE DEF old, d
  <2>3. QED  BY <2>2
<1> DEFINE h == [cands EXCEPT ![id] = k]
<1>7. k \in Candidate /\ FiguresOf(k)
  <2>1. d \in Candidate /\ d.return = old.return /\ d.of = old.of  BY <1>5 DEF Candidate
  <2>2. d.return = NotRun => d.of = <<NoCode, 0>>  BY <1>5, <2>1 DEF FiguresOf
  <2>3. CASE k = Reverted(d, old)
    <3> HIDE DEF old
    <3>1. QED  BY <1>5, <2>3, RevertedFigures
  <2>4. CASE \E r \in Results(d) : r # NotRun /\ k = WithResult(d, r)
    <3> HIDE DEF d
    <3>1. PICK r \in Results(d) : r # NotRun /\ k = WithResult(d, r)  BY <2>4
    <3>2. r \in Int  BY DEF Results, Returns, NotRun
    <3>3. QED  BY <2>1, <3>1, <3>2, ResultFigures
  <2>5. CASE k = Kept(d, "raised")
    <3> HIDE DEF d
    <3>1. QED  BY <2>1, <2>2, <2>5, KeptFigures
  <2>6. QED  BY <1>6, <2>3, <2>4, <2>5
<1>8. cands \in [Ids -> Candidate \cup {NoCandidate}]  BY DEF SessionInv, SessionTypeOK
<1>9. /\ h \in [Ids -> Candidate \cup {NoCandidate}]
      /\ \A c \in Ids : h[c] = cands[c] \/ (h[c] \in Candidate /\ FiguresOf(h[c]))
  BY <1>5, <1>7, <1>8
<1>10. cands' = h  BY <1>6
<1>11. rnd <= LastRound  BY <1>3, <1>4
<1>12. /\ cands' \in [Ids -> Candidate \cup {NoCandidate}]
       /\ (\A c \in Found : FiguresOf(cands[c]))' /\ Reported'
  <2> HIDE DEF h
  <2>1. QED  BY <1>1, <1>9, <1>10, <1>11, CandidatesKeep
<1>13. queue' = <<>> /\ queue' \in Seq(Ids) /\ rnd' \in Nat /\ applied' \in Int
  <2>1. queue = <<>>  BY <1>3, <1>4
  <2>2. rnd' \in Nat /\ applied' \in Int  BY <1>1, <1>3
  <2>3. queue \in Seq(Ids)  BY DEF SessionInv, SessionTypeOK
  <2>4. QED  BY <1>1, <2>1, <2>2, <2>3
<1>14. InPhase'
  <2>1. applied' >= 0 => rnd' = rnd  BY <1>1
  <2>2. QED  BY <1>3, <1>4, <1>13, <2>1 DEF InPhase
<1>15. QED  BY <1>12, <1>13, <1>14 DEF SessionInv, SessionTypeOK

(* The end of the optimization changes no candidate.                        *)
LEMMA EndOptimizationKeeps == ASSUME SessionInv, EndOptimization PROVE SessionInv'
<1>1. /\ cands' = cands /\ report' = report /\ queue' = queue /\ applied' = -1 /\ rnd' = rnd + 1
      /\ applied >= 0
  BY DEF EndOptimization, NextRound
<1>2. /\ rnd \in Nat /\ Generated < rnd /\ Discovered \in Nat /\ Generated \in Nat
      /\ LastRound \in Nat /\ queue = <<>>
  BY <1>1, SessionAssumption DEF SessionInv, SessionTypeOK, InPhase
<1>3. SessionTypeOK'  BY <1>1, <1>2 DEF SessionInv, SessionTypeOK
<1>4. InPhase'  BY <1>1, <1>2 DEF InPhase
<1>5. Reported'  BY <1>1, <1>2 DEF SessionInv, Reported, Found
<1>6. QED  BY <1>1, <1>3, <1>4, <1>5 DEF SessionInv, Found

(* Final parameters are kept for that reason.                               *)
LEMMA ValidateKeeps == ASSUME SessionInv, Validate PROVE SessionInv'
<1>1. /\ rnd' = rnd + 1 /\ queue' = queue /\ applied' = applied /\ report' = report
      /\ queue = <<>> /\ applied = -1 /\ rnd <= LastRound
  BY DEF Validate, Waiting, NextRound
<1>2. PICK passed \in SUBSET {c \in ActiveIds : Runs(cands[c])}, final \in SUBSET Found, params \in Versions :
        cands' = [c \in Ids |->
                   LET w == IF c \in ActiveIds /\ cands[c].code # NoCode
                            THEN [cands[c] EXCEPT !.walk = c \in passed] ELSE cands[c]
                   IN  IF c \in final THEN Kept([w EXCEPT !.params = params], "final parameters") ELSE w]
  BY DEF Validate
<1> DEFINE walk(c) == IF c \in ActiveIds /\ cands[c].code # NoCode
                      THEN [cands[c] EXCEPT !.walk = c \in passed] ELSE cands[c]
           h == [c \in Ids |-> IF c \in final THEN Kept([walk(c) EXCEPT !.params = params], "final parameters")
                               ELSE walk(c)]
<1>3. cands' = h  BY <1>2
<1>4. ASSUME NEW c \in Ids
      PROVE  h[c] = cands[c] \/ (h[c] \in Candidate /\ FiguresOf(h[c]))
  <2>1. CASE cands[c] = NoCandidate
    <3>1. c \notin ActiveIds /\ c \notin Found  BY <2>1 DEF NoCandidate, ActiveIds, Found
    <3>2. QED  BY <3>1
  <2>2. CASE cands[c] \in Candidate /\ FiguresOf(cands[c])
    <3> DEFINE w == walk(c)
    <3>1. /\ w \in Candidate /\ w.return = cands[c].return /\ w.of = cands[c].of
          /\ w.code = cands[c].code /\ w.params = cands[c].params /\ w.excuse = cands[c].excuse
      <4>1. PICK x \in Candidate : x = cands[c]  BY <2>2
      <4>2. (c \in passed) = TRUE \/ (c \in passed) = FALSE  OBVIOUS
      <4>3. w = x \/ w = [x EXCEPT !.walk = TRUE] \/ w = [x EXCEPT !.walk = FALSE]
        BY <4>1, <4>2
      <4> HIDE DEF w
      <4>4. QED  BY <4>1, <4>3 DEF Candidate
    <3>2. FiguresOf(w)
      <4> HIDE DEF w
      <4>1. QED  BY <2>2, <3>1 DEF FiguresOf
    <3>3. h[c] = IF c \in final THEN Kept([w EXCEPT !.params = params], "final parameters") ELSE w
      OBVIOUS
    <3> HIDE DEF w, h
    <3> DEFINE v == [w EXCEPT !.params = params]
    <3>4. v \in Candidate /\ v.return = w.return /\ v.of = w.of  BY <3>1 DEF Candidate
    <3>5. v.return = NotRun => v.of = <<NoCode, 0>>  BY <3>2, <3>4 DEF FiguresOf
    <3> HIDE DEF v
    <3>6. Kept(v, "final parameters") \in Candidate /\ FiguresOf(Kept(v, "final parameters"))
      BY <3>4, <3>5, KeptFigures
    <3>7. QED  BY <3>1, <3>2, <3>3, <3>6 DEF v
  <2>3. QED  BY <2>1, <2>2, CandidateOrNone
<1>5. h \in [Ids -> Candidate \cup {NoCandidate}]
  <2> DEFINE value(c) == IF c \in final THEN Kept([walk(c) EXCEPT !.params = params], "final parameters")
                         ELSE walk(c)
  <2>1. ASSUME NEW c \in Ids PROVE value(c) \in Candidate \cup {NoCandidate}
    <3>1. h[c] \in Candidate \cup {NoCandidate}  BY <1>4 DEF SessionInv, SessionTypeOK
    <3>2. h[c] = value(c)  OBVIOUS
    <3>3. QED  BY <3>1, <3>2
  <2>2. h = [c \in Ids |-> value(c)]  OBVIOUS
  <2> HIDE DEF value, h
  <2>3. QED  BY <2>1, <2>2
<1>6. /\ cands' \in [Ids -> Candidate \cup {NoCandidate}]
      /\ (\A c \in Found : FiguresOf(cands[c]))' /\ Reported'
  <2> HIDE DEF h
  <2>1. QED  BY <1>1, <1>3, <1>4, <1>5, CandidatesKeep
<1>7. InPhase'  BY <1>1 DEF InPhase
<1>8. rnd' \in Nat  BY <1>1 DEF SessionInv, SessionTypeOK
<1>9. QED  BY <1>1, <1>6, <1>7, <1>8 DEF SessionInv, SessionTypeOK

(* Only what was measured can have earned enough, and of two of a type one   *)
(* is ranked before the other.                                              *)
LEMMA ReportKeeps == ASSUME SessionInv, Report PROVE SessionInv'
<1>1. /\ cands' = cands /\ rnd' = rnd /\ queue' = queue /\ applied' = applied
      /\ rnd = LastRound + 1
      /\ report' = [done |-> TRUE, selected |-> Selected, ensemble |-> Ensemble(Selected)]
  BY DEF Report
<1>2. LastRound \in Nat  BY SessionAssumption
<1>3. report'.done /\ report'.selected = Selected /\ report'.ensemble = Ensemble(Selected)
  BY <1>1
<1>4. \A c \in Selected : c \in Found /\ c \in Ids /\ cands[c].return >= MinReturn
  BY DEF Selected, ActiveIds, Found
<1>5. ASSUME NEW c \in Selected PROVE cands[c].return # NotRun /\ cands[c].return \in Int
  <2>1. cands[c] \in Candidate  BY <1>4, CandidateOrNone DEF Found, NoCandidate
  <2>2. cands[c].return \in Int /\ cands[c].return >= MinReturn  BY <1>4, <2>1 DEF Candidate
  <2>3. QED  BY <2>2 DEF MinReturn, NotRun
<1>6. ASSUME NEW c \in Ensemble(Selected), NEW d \in Ensemble(Selected), cands[c].type = cands[d].type
      PROVE  c = d
  <2>1. /\ c \in Selected /\ d \in Selected
        /\ ~Ranked(c, d) /\ ~Ranked(d, c)
    BY <1>6 DEF Ensemble
  <2>2. c \in {"c1", "c2"} /\ d \in {"c1", "c2"}  BY <1>4, <2>1 DEF Ids
  <2>3. cands[c].return \in Int /\ cands[d].return \in Int  BY <1>5, <2>1
  <2>4. QED  BY <2>1, <2>2, <2>3 DEF Ranked
<1>7. rnd > LastRound  BY <1>1, <1>2
<1>8. Reported'  BY <1>1, <1>3, <1>4, <1>5, <1>6, <1>7 DEF Reported, Found
<1>9. SessionTypeOK' /\ InPhase'  BY <1>1 DEF SessionInv, SessionTypeOK, InPhase
<1>10. QED  BY <1>1, <1>8, <1>9 DEF SessionInv, Found

(* No step of a session gives a candidate figures of another.               *)
LEMMA SessionStep == SessionInv /\ [SessionNext]_sessionVars => SessionInv'
<1> SUFFICES ASSUME SessionInv, [SessionNext]_sessionVars PROVE SessionInv'
  OBVIOUS
<1>1. ASSUME NEW known \in SUBSET Ids, NEW types \in [known -> {"TREND", "VOLUME"}], Discover(types, 1)
      PROVE  SessionInv'
  BY <1>1, DiscoverKeeps
<1>2. CASE UNCHANGED sessionVars
  <2>1. /\ cands' = cands /\ rnd' = rnd /\ queue' = queue /\ applied' = applied /\ report' = report
    BY <1>2 DEF sessionVars
  <2>2. QED  BY <2>1 DEF SessionInv, SessionTypeOK, InPhase, Reported, Found
<1>3. CASE RoundFails \/ StartGeneration \/ Generate \/ StartOptimization \/ Optimize
  BY <1>3, RoundFailsKeeps, StartGenerationKeeps, GenerateKeeps, StartOptimizationKeeps, OptimizeKeeps
<1>4. CASE EndOptimization \/ Validate \/ Report
  BY <1>4, EndOptimizationKeeps, ValidateKeeps, ReportKeeps
<1>5. QED  BY <1>1, <1>2, <1>3, <1>4 DEF SessionNext

(* What the invariant says of the candidates and of the report.             *)
LEMMA SessionSound == SessionInv => SessionMeasured
<1> SUFFICES ASSUME SessionInv PROVE SessionMeasured
  OBVIOUS
<1>1. ASSUME NEW c \in Found PROVE FiguresOf(cands[c]) /\ cands[c].excuse \in Reasons
  <2>1. cands[c] \in Candidate  BY CandidateOrNone DEF Found, NoCandidate
  <2>2. QED  BY <2>1 DEF SessionInv, Candidate
<1>2. report.done => /\ \A c \in report.selected : cands[c].return # NotRun
                     /\ \A c, d \in report.ensemble : cands[c].type = cands[d].type => c = d
  BY DEF SessionInv, Reported, NoReport
<1>3. QED  BY <1>1, <1>2 DEF SessionMeasured, FiguresOf, Reasons

-------------------------------------------------------------------------------
(* ParameterSearch: the rounds.                                             *)

Parameters == Proposals \cup {Original}

SearchState ==
  [stage : {"run", "ask", "dead", "saved"}, round : Int, current : Parameters, bestParams : Parameters,
   best : Yields \cup {Unknown}]

SearchTypeOK ==
  /\ search \in SearchState
  /\ baseline \in Yields \cup {Unknown}

SearchInv ==
  /\ SearchTypeOK /\ SearchMeasured
  /\ search.best = Unknown <=> baseline = Unknown
  /\ search.stage = "ask" => search.best # Unknown

(* The next round begins with what the last one left.                       *)
LEMMA NextRoundTyped ==
  ASSUME NEW s \in SearchState
  PROVE  /\ NextRoundOf(s) \in SearchState /\ NextRoundOf(s).stage = "run"
         /\ NextRoundOf(s).current = s.current /\ NextRoundOf(s).bestParams = s.bestParams
         /\ NextRoundOf(s).best = s.best
<1>1. PICK n \in Int : n = s.round  BY DEF SearchState
<1>2. NextRoundOf(s) = [s EXCEPT !.stage = "run", !.round = n + 1]  BY <1>1 DEF NextRoundOf
<1>3. PICK m \in Int : m = n + 1  OBVIOUS
<1>4. NextRoundOf(s) = [s EXCEPT !.stage = "run", !.round = m]  BY <1>2, <1>3
<1>5. QED  BY <1>4 DEF SearchState

(* The search starts with the original parameters, which nothing has measured.*)
LEMMA SearchStarts == SearchInit => SearchInv
<1> SUFFICES ASSUME SearchInit PROVE SearchInv
  OBVIOUS
<1>1. SearchTypeOK  BY DEF SearchInit, SearchTypeOK, SearchState, Parameters, Unknown
<1>2. SearchMeasured  BY DEF SearchInit, SearchMeasured
<1>3. QED  BY <1>1, <1>2 DEF SearchInv, SearchInit

(* No round keeps a best return that nothing had.                           *)
LEMMA SearchStep == SearchInv /\ [RoundNext]_roundVars => SearchInv'
<1> SUFFICES ASSUME SearchInv, [RoundNext]_roundVars PROVE SearchInv'
  OBVIOUS
<1> USE DEF SearchInv, SearchTypeOK
<1>1. ASSUME NEW r \in Yields, StartRound(r) PROVE SearchInv'
  <2>1. /\ search'.best = IF search.best = Unknown THEN r ELSE search.best
        /\ search'.stage = "ask" /\ search'.current = search.current
        /\ search'.bestParams = search.bestParams
        /\ measured' = measured \cup {<<search.current, r>>}
        /\ baseline' = IF baseline = Unknown THEN r ELSE baseline
    BY <1>1 DEF StartRound
  <2>2. SearchTypeOK'  BY <1>1 DEF StartRound, SearchState
  <2>3. r \in Int /\ r # Unknown  BY DEF Yields, Unknown
  <2>4. SearchMeasured'  BY <2>1, <2>3 DEF SearchMeasured
  <2>5. QED  BY <2>1, <2>2, <2>3, <2>4
<1>2. ASSUME NEW new \in Proposals, NEW r \in Yields, Try(new, r) PROVE SearchInv'
  <2>1. /\ measured' = measured \cup {<<new, r>>} /\ baseline' = baseline
        /\ search.stage = "ask" /\ search'.stage = "run"
        /\ IF r > search.best
           THEN search'.best = r /\ search'.bestParams = new /\ search'.current = new
           ELSE /\ search'.best = search.best /\ search'.bestParams = search.bestParams
                /\ search'.current = search.bestParams
    BY <1>2 DEF Try, NextRoundOf, After
  <2>2. SearchTypeOK'
    <3>1. After(new, r) \in SearchState  BY DEF After, Parameters, SearchState
    <3>2. search' = NextRoundOf(After(new, r))  BY <1>2 DEF Try
    <3>3. search' \in SearchState  BY <3>1, <3>2, NextRoundTyped
    <3>4. QED  BY <2>1, <3>3
  <2>3. r \in Int /\ r # Unknown /\ search.best \in Int /\ search.best # Unknown /\ baseline \in Int
    BY <2>1 DEF Yields, Unknown, SearchState
  <2>4. SearchMeasured'  BY <2>1, <2>3 DEF SearchMeasured
  <2>5. QED  BY <2>1, <2>2, <2>3, <2>4
<1>3. ASSUME NEW new \in Proposals, Skip(new) PROVE SearchInv'
  <2>1. search' = NextRoundOf(search) /\ measured' = measured /\ baseline' = baseline
    BY <1>3 DEF Skip
  <2>2. /\ search' \in SearchState /\ search'.stage = "run" /\ search'.current = search.current
        /\ search'.bestParams = search.bestParams /\ search'.best = search.best
    BY <2>1, NextRoundTyped
  <2>3. SearchMeasured'  BY <2>1, <2>2 DEF SearchMeasured
  <2>4. QED  BY <2>1, <2>2, <2>3
<1>4. CASE Raise
  BY <1>4 DEF Raise, SearchMeasured, SearchState
<1>5. CASE Save
  BY <1>5 DEF Save, SearchMeasured, SearchState
<1>6. CASE UNCHANGED roundVars
  BY <1>6 DEF roundVars, SearchMeasured
<1>7. QED  BY <1>1, <1>2, <1>3, <1>4, <1>5, <1>6 DEF RoundNext

-------------------------------------------------------------------------------
(* ParameterSearch: the windows.                                            *)

Combined == {"a", "b", "c"}

(* What is kept of those tried is one of them, and none is better.           *)
LEMMA BestIsTried ==
  ASSUME NEW tried \in Seq(Combined), tried # <<>>, NEW score \in [Combined -> -1..1]
  PROVE  /\ BestOf(tried, score) \in ToSet(tried)
         /\ \A p \in ToSet(tried) : score[p] <= score[BestOf(tried, score)]
<1> DEFINE n == Len(tried)
           S == 1..n
           better(v, i) == IF score[tried[i]] > score[v] THEN tried[i] ELSE v
           Eq(g) == g = [s \in SUBSET S |-> IF s = {} THEN tried[1] ELSE better(g[s \ {Max(s)}], Max(s))]
           ch == [s \in SUBSET S |-> Max(s)]
           step == [x \in S \X Combined |-> better(x[2], x[1])]
<1>1. n \in Nat /\ n > 0 /\ DOMAIN tried = S /\ \A i \in S : tried[i] \in Combined
  BY EmptySeq
<1>2. IsFiniteSet(S)  BY <1>1, FS_Interval
<1>3. ASSUME NEW s \in SUBSET S, s # {} PROVE Max(s) \in s
  <2>1. S \subseteq Int  OBVIOUS
  <2> HIDE DEF S
  <2>2. IsFiniteSet(s) /\ s \subseteq Int  BY <1>2, <2>1, FS_Subset
  <2>3. QED  BY <1>3, <2>2, MaxOfSet
<1>4. BestOf(tried, score) = (CHOOSE g : Eq(g))[S]
  <2>1. BestOf(tried, score) =
          LET iter[s \in SUBSET DOMAIN tried] ==
                IF s = {} THEN tried[1]
                ELSE LET x == Max(s)
                     IN  IF score[tried[x]] > score[iter[s \ {x}]] THEN tried[x] ELSE iter[s \ {x}]
          IN  iter[DOMAIN tried]
    BY DEF BestOf, FoldLeft, MapThenFoldSet
  <2>2. QED  BY <1>1, <2>1
<1>5. \E g : Eq(g)
  <2>1. step \in [S \X Combined -> Combined]  BY <1>1
  <2>2. \A s \in SUBSET S : s # {} => ch[s] \in s  BY <1>3
  <2>3. tried[1] \in Combined  BY <1>1
  <2> HIDE DEF step, ch
  <2>4. HasFold(S, Combined, tried[1], step, ch)
    <3> HIDE DEF S
    <3>1. QED  BY <1>2, <2>1, <2>2, <2>3, FoldExists
  <2>5. PICK g \in [SUBSET S -> Combined] :
          \A s \in SUBSET S : g[s] = IF s = {} THEN tried[1] ELSE step[<<ch[s], g[s \ {ch[s]}]>>]
    BY <2>4 DEF HasFold
  <2>6. ASSUME NEW s \in SUBSET S, s # {}
        PROVE  g[s] = better(g[s \ {Max(s)}], Max(s))
    <3>1. ch[s] = Max(s) /\ Max(s) \in S /\ g[s \ {Max(s)}] \in Combined
      BY <1>3, <2>6 DEF ch
    <3>2. step[<<Max(s), g[s \ {Max(s)}]>>] = better(g[s \ {Max(s)}], Max(s))
      BY <3>1 DEF step
    <3>3. QED  BY <2>5, <2>6, <3>1, <3>2
  <2>7. g = [s \in SUBSET S |-> IF s = {} THEN tried[1] ELSE better(g[s \ {Max(s)}], Max(s))]
    BY <2>5, <2>6
  <2>8. QED  BY <2>7
<1>6. PICK g : Eq(g) /\ BestOf(tried, score) = g[S]
  <2> HIDE DEF Eq
  <2>1. QED  BY <1>4, <1>5
<1> DEFINE Good(s) == /\ g[s] \in ToSet(tried)
                      /\ \A i \in s : score[tried[i]] <= score[g[s]]
           T == {s \in SUBSET S : Good(s)}
<1>7. \A i \in S : tried[i] \in ToSet(tried) /\ tried[i] \in Combined
  BY <1>1 DEF ToSet
<1>8. ToSet(tried) \subseteq Combined  BY <1>1 DEF ToSet
<1>9. ASSUME NEW s \in SUBSET S, \A t \in SUBSET s : t # s => t \in T
      PROVE  Good(s)
  <2>1. CASE s = {}
    <3>1. g[s] = tried[1]  BY <1>6, <2>1
    <3>2. QED  BY <1>1, <1>7, <2>1, <3>1
  <2>2. CASE s # {}
    <3> DEFINE m == Max(s)
               t == s \ {m}
    <3>1. m \in s /\ t \in SUBSET s /\ t # s  BY <1>3, <2>2
    <3>2. Good(t)  BY <1>9, <3>1
    <3>3. g[s] = IF score[tried[m]] > score[g[t]] THEN tried[m] ELSE g[t]
      BY <1>6, <2>2
    <3>4. \A i \in s : i = m \/ i \in t  OBVIOUS
    <3>5. \A p \in Combined : score[p] \in Int  OBVIOUS
    <3> HIDE DEF m, t, Eq
    <3>6. g[s] \in ToSet(tried)  BY <1>7, <3>1, <3>2, <3>3
    <3>7. ASSUME NEW i \in s PROVE score[tried[i]] <= score[g[s]]
      <4>1. /\ score[tried[i]] \in Int /\ score[tried[m]] \in Int /\ score[g[t]] \in Int
        BY <1>7, <1>8, <3>1, <3>2, <3>5
      <4>2. i = m \/ score[tried[i]] <= score[g[t]]  BY <3>2, <3>4
      <4>3. QED  BY <3>3, <4>1, <4>2
    <3>8. QED  BY <3>6, <3>7
  <2>3. QED  BY <2>1, <2>2
<1>10. Good(S)
  <2>1. \A s \in SUBSET S : (\A t \in SUBSET s : t # s => t \in T) => s \in T  BY <1>9
  <2>2. S \in T
    <3> HIDE DEF T, S
    <3>1. QED  BY <1>2, <2>1, SetInduction
  <2>3. QED  BY <2>2
<1>11. \A p \in ToSet(tried) : \E i \in S : p = tried[i]  BY <1>1 DEF ToSet
<1>12. QED  BY <1>6, <1>10, <1>11

(* Every window begins a step after the one before it.                       *)
WindowRecord ==
  [from : Nat, to : Int, score : [Combined -> -1..1], tried : Seq(Combined), best : Combined \cup {"none"}]

WindowsInv ==
  /\ window \in Nat /\ windows \in Seq(WindowRecord)
  /\ windows # <<>> => window = windows[Len(windows)].from + StepDays
  /\ WindowsMeasured

(* No window has been searched at the start.                                 *)
LEMMA WindowsStart == SearchInit => WindowsInv
<1> SUFFICES ASSUME SearchInit PROVE WindowsInv
  OBVIOUS
<1>1. window = 0 /\ windows = <<>>  BY DEF SearchInit
<1>2. QED  BY <1>1 DEF WindowsInv, WindowsMeasured

(* The next window follows the last, and names the best of those tried.      *)
LEMMA WindowsStep == WindowsInv /\ [WindowNext]_windowVars => WindowsInv'
<1> SUFFICES ASSUME WindowsInv, [WindowNext]_windowVars PROVE WindowsInv'
  OBVIOUS
<1>1. CASE UNCHANGED windowVars
  BY <1>1 DEF windowVars, WindowsInv, WindowsMeasured
<1>2. ASSUME NEW score \in [Combined -> -1..1], NEW tried \in Seq(Combined), SearchWindow(tried, score)
      PROVE  WindowsInv'
  <2> DEFINE best == IF tried = <<>> THEN "none" ELSE BestOf(tried, score)
             w == [from |-> window, to |-> window + WindowDays, score |-> score, tried |-> tried, best |-> best]
             n == Len(windows)
  <2>1. /\ windows' = Append(windows, w) /\ window' = window + StepDays
        /\ window + WindowDays <= SearchDays
    BY <1>2 DEF SearchWindow
  <2>2. /\ window \in Nat /\ windows \in Seq(WindowRecord) /\ n \in Nat
        /\ StepDays \in Nat /\ WindowDays \in Nat /\ SearchDays \in Nat
    BY SearchAssumption DEF WindowsInv
  <2>3. ASSUME tried # <<>>
        PROVE  /\ best \in ToSet(tried) /\ best \in Combined
               /\ \A p \in ToSet(tried) : score[p] <= score[best]
    <3>1. /\ BestOf(tried, score) \in ToSet(tried)
          /\ \A p \in ToSet(tried) : score[p] <= score[BestOf(tried, score)]
      BY <2>3, BestIsTried
    <3>2. ToSet(tried) \subseteq Combined  BY DEF ToSet
    <3>3. QED  BY <2>3, <3>1, <3>2
  <2> HIDE DEF best
  <2>4. w \in WindowRecord
    <3>1. best \in Combined \cup {"none"}
      <4>1. CASE tried = <<>>  BY <4>1 DEF best
      <4>2. CASE tried # <<>>  BY <2>3, <4>2
      <4>3. QED  BY <4>1, <4>2
    <3>2. QED  BY <2>2, <3>1 DEF WindowRecord
  <2>5. /\ w.from = window /\ w.to = window + WindowDays /\ w.score = score /\ w.tried = tried /\ w.best = best
    OBVIOUS
  <2> HIDE DEF w
  <2>6. /\ windows' \in Seq(WindowRecord) /\ Len(windows') = n + 1 /\ DOMAIN windows' = 1..(n + 1)
        /\ windows'[n + 1] = w /\ \A i \in 1..n : windows'[i] = windows[i]
    BY <2>1, <2>2, <2>4, AppendProperties
  <2>7. DOMAIN windows = 1..n  BY <2>2
  <2>8. n > 0 => window = windows[n].from + StepDays
    BY <2>2, EmptySeq DEF WindowsInv
  <2> DEFINE Sound(list, i) ==
        /\ 0 <= list[i].from /\ list[i].to <= SearchDays
        /\ (i > 1 => list[i].from = list[i - 1].from + StepDays)
        /\ list[i].tried # <<>> => /\ list[i].best \in ToSet(list[i].tried)
                                 /\ \A p \in ToSet(list[i].tried) : list[i].score[p] <= list[i].score[list[i].best]
  <2>9. \A i \in 1..n : Sound(windows, i)
    BY <2>7 DEF WindowsInv, WindowsMeasured
  <2>10. ASSUME NEW i \in 1..(n + 1) PROVE Sound(windows', i)
    <3>1. CASE i = n + 1
      <4>1. windows'[i] = w  BY <2>6, <3>1
      <4>2. 0 <= w.from /\ w.to <= SearchDays  BY <2>1, <2>2, <2>5
      <4>3. i > 1 => n > 0 /\ n \in 1..n /\ i - 1 = n /\ windows'[i - 1] = windows[n]
        BY <2>2, <2>6, <3>1
      <4>4. i > 1 => w.from = windows'[i - 1].from + StepDays  BY <2>5, <2>8, <4>3
      <4>5. w.tried # <<>> => /\ w.best \in ToSet(w.tried)
                              /\ \A p \in ToSet(w.tried) : w.score[p] <= w.score[w.best]
        BY <2>3, <2>5
      <4>6. QED  BY <4>1, <4>2, <4>4, <4>5
    <3>2. CASE i # n + 1
      <4>1. i \in 1..n /\ (i > 1 => i - 1 \in 1..n)  BY <2>2, <3>2
      <4>2. windows'[i] = windows[i] /\ (i > 1 => windows'[i - 1] = windows[i - 1])  BY <2>6, <4>1
      <4>3. Sound(windows, i)  BY <2>9, <4>1
      <4>4. QED  BY <4>2, <4>3
    <3>3. QED  BY <3>1, <3>2
  <2>11. WindowsMeasured'
    BY <2>6, <2>10 DEF WindowsMeasured
  <2>12. window' \in Nat /\ window' = windows'[Len(windows')].from + StepDays
    BY <2>1, <2>2, <2>5, <2>6
  <2>13. QED  BY <2>6, <2>11, <2>12 DEF WindowsInv
<1>3. \A tried \in {Combinations, <<"b", "a">>, <<>>} : tried \in Seq(Combined)
  <2>1. Combinations \in Seq(Combined)  BY DEF Combinations, Combined
  <2>2. <<"b", "a">> \in Seq(Combined)  BY DEF Combined
  <2>3. <<>> \in Seq(Combined)  OBVIOUS
  <2>4. QED  BY <2>1, <2>2, <2>3
<1>4. QED  BY <1>1, <1>2, <1>3 DEF WindowNext, Combined

(* What a session of the optimizer and a search report of a candidate was    *)
(* measured of it, but for the ways in which the code lets the two part; the *)
(* best parameters really had the best return; and no window names one that  *)
(* another of those it tried beats.                                          *)
THEOREM BestIsMeasuredAlways ==
  /\ SessionInit /\ SearchInit
  /\ [][SessionNext]_sessionVars /\ [][RoundNext]_roundVars /\ [][WindowNext]_windowVars
  => []BestIsMeasured
<1>1. SessionInv /\ SearchInv /\ WindowsInv => BestIsMeasured
  BY SessionSound DEF BestIsMeasured, SearchInv, WindowsInv
<1>2. QED
  BY SessionStarts, SessionStep, SearchStarts, SearchStep, WindowsStart, WindowsStep, <1>1, PTL

-------------------------------------------------------------------------------
(* BacktestEngine                                                           *)

Closes == {100, 102, 110}
Held ==
  [key : {"any", "S1", "S2"} \X Pairs, symbol : Pairs, entry : {101, 103, 111}, quantity : Nat,
   value : Nat, at : Int, best : Int]
Account == [cash : Int, open : SUBSET Held, pnl : Int, fees : Int]
ValueOf == [p \in Held |-> p.value]

(* The equation of EngineBalances, for an account on its way through a step.  *)
Balanced(acc) ==
  /\ acc \in Account /\ IsFiniteSet(acc.open)
  /\ \A p, q \in acc.open : p.key = q.key => p = q
  /\ acc.cash = Capital + acc.pnl - acc.fees - Invested(acc)
  /\ ~setup.margin => acc.cash >= 0

(* What is invested is a sum of values.                                      *)
LEMMA InvestedIs ==
  ASSUME NEW S, S \subseteq Held, IsFiniteSet(S)
  PROVE  /\ MapThenSumSet(LAMBDA p : p.value, S) = SumOf(ValueOf, S)
         /\ SumOf(ValueOf, S) \in Int
         /\ \A p \in S : ValueOf[p] = p.value /\ p.value \in Int
<1>1. \A p \in S : ValueOf[p] = p.value /\ p.value \in Int
  BY DEF ValueOf, Held
<1>2. MapThenSumSet(LAMBDA p : p.value, S) = SumOf(ValueOf, S)
  BY <1>1, ValuesSum
<1>3. \A p \in S : ValueOf[p] \in Int
  BY <1>1
<1>4. SumOf(ValueOf, S) \in Int
  BY <1>3, SumInt
<1>5. QED  BY <1>1, <1>2, <1>4

(* The parts of a balanced account.                                          *)
LEMMA BalancedFacts ==
  ASSUME NEW acc, Balanced(acc)
  PROVE  /\ acc.cash \in Int /\ acc.pnl \in Int /\ acc.fees \in Int
         /\ acc.open \subseteq Held /\ IsFiniteSet(acc.open)
         /\ Invested(acc) = SumOf(ValueOf, acc.open) /\ SumOf(ValueOf, acc.open) \in Int
         /\ acc.cash = Capital + acc.pnl - acc.fees - SumOf(ValueOf, acc.open)
<1>1. /\ acc.cash \in Int /\ acc.pnl \in Int /\ acc.fees \in Int
      /\ acc.open \subseteq Held /\ IsFiniteSet(acc.open)
      /\ acc.cash = Capital + acc.pnl - acc.fees - Invested(acc)
  BY DEF Balanced, Account
<1>2. Invested(acc) = SumOf(ValueOf, acc.open) /\ SumOf(ValueOf, acc.open) \in Int
  BY <1>1, InvestedIs DEF Invested
<1>3. QED  BY <1>1, <1>2

(* An account is balanced if its parts are.                                  *)
LEMMA BalancedBy ==
  ASSUME NEW acc \in Account, IsFiniteSet(acc.open), \A p, q \in acc.open : p.key = q.key => p = q,
         acc.cash = Capital + acc.pnl - acc.fees - SumOf(ValueOf, acc.open),
         ~setup.margin => acc.cash >= 0
  PROVE  Balanced(acc)
<1>1. Invested(acc) = SumOf(ValueOf, acc.open)
  BY InvestedIs DEF Invested, Account
<1>2. QED  BY <1>1 DEF Balanced

(* A sale at any price comes to a natural number.                            *)
LEMMA GrossIs ==
  ASSUME NEW n \in Nat, NEW price \in Closes
  PROVE  /\ (n * (price - 1)) \div 100 \in Nat
         /\ (n * price) \div 100 \in Nat
<1>1. CASE price = 100
  <2>1. n * (price - 1) = n * 99 /\ n * price = n * 100  BY <1>1
  <2>2. QED  BY <2>1
<1>2. CASE price = 102
  <2>1. n * (price - 1) = n * 101 /\ n * price = n * 102  BY <1>2
  <2>2. QED  BY <2>1
<1>3. CASE price = 110
  <2>1. n * (price - 1) = n * 109 /\ n * price = n * 110  BY <1>3
  <2>2. QED  BY <2>1
<1>4. QED  BY <1>1, <1>2, <1>3 DEF Closes

(* What is closed brings its proceeds and takes its value with it.            *)
LEMMA ClosedFields ==
  ASSUME NEW acc \in Account, NEW p \in Held, NEW price \in Closes
  PROVE  LET c == ClosePosition(acc, p, price)
         IN  \E got \in Nat, pnl \in Int :
               /\ c \in Account /\ c.fees = acc.fees /\ c.open = acc.open \ {p}
               /\ c.cash = acc.cash + got /\ c.pnl = acc.pnl + pnl /\ pnl = got - p.value
<1> DEFINE c == ClosePosition(acc, p, price)
<1>1. /\ acc.cash \in Int /\ acc.pnl \in Int /\ acc.fees \in Int /\ acc.open \subseteq Held
      /\ p.quantity \in Nat /\ p.value \in Nat
  BY DEF Account, Held
<1>2. PICK gross \in Nat : gross = (p.quantity * (price - 1)) \div 100
  BY <1>1, GrossIs
<1>3. PICK fee \in Nat : fee = gross \div 100 /\ fee <= gross
  BY <1>2
<1>4. PICK pnl \in Int : pnl = gross - p.value - fee
  BY <1>1
<1>5. PICK got \in Nat : got = gross - fee
  BY <1>3
<1>6. PICK cash2 \in Int, pnl2 \in Int : cash2 = acc.cash + gross - fee /\ pnl2 = acc.pnl + pnl
  BY <1>1
<1>7. c = [acc EXCEPT !.cash = cash2, !.pnl = pnl2, !.open = acc.open \ {p}]
  BY <1>2, <1>3, <1>4, <1>6 DEF ClosePosition, Commission
<1>8. /\ c \in Account /\ c.fees = acc.fees /\ c.open = acc.open \ {p}
      /\ c.cash = cash2 /\ c.pnl = pnl2
  BY <1>1, <1>7 DEF Account
<1>9. cash2 = acc.cash + got /\ pnl2 = acc.pnl + pnl /\ pnl = got - p.value
  BY <1>1, <1>4, <1>5, <1>6
<1> HIDE DEF c
<1>10. QED  BY <1>8, <1>9 DEF c

(* A position that is closed leaves the account balanced.                    *)
LEMMA PositionCloses ==
  ASSUME NEW acc, Balanced(acc), NEW p \in acc.open, NEW price \in Closes
  PROVE  /\ Balanced(ClosePosition(acc, p, price))
         /\ ClosePosition(acc, p, price).open = acc.open \ {p}
<1> DEFINE c == ClosePosition(acc, p, price)
<1>1. acc \in Account /\ p \in Held  BY BalancedFacts DEF Balanced
<1>2. PICK got \in Nat, pnl \in Int :
        /\ c \in Account /\ c.fees = acc.fees /\ c.open = acc.open \ {p}
        /\ c.cash = acc.cash + got /\ c.pnl = acc.pnl + pnl /\ pnl = got - p.value
  BY <1>1, ClosedFields
<1> HIDE DEF c
<1>3. SumOf(ValueOf, acc.open) = p.value + SumOf(ValueOf, c.open) /\ p.value \in Int
  <2>1. \A q \in acc.open : ValueOf[q] = q.value /\ q.value \in Int
    BY BalancedFacts, InvestedIs
  <2>2. \A q \in acc.open : ValueOf[q] \in Int
    BY <2>1
  <2>3. SumOf(ValueOf, acc.open) = ValueOf[p] + SumOf(ValueOf, acc.open \ {p})
    BY <2>2, BalancedFacts, SumTakeOut
  <2>4. QED  BY <1>2, <2>1, <2>3
<1>4. IsFiniteSet(c.open) /\ c.open \subseteq Held
  BY <1>2, BalancedFacts, FS_Subset
<1>5. SumOf(ValueOf, c.open) \in Int  BY <1>4, InvestedIs
<1>6. Capital \in Int  BY EngineAssumption
<1>7. c.cash = Capital + c.pnl - c.fees - SumOf(ValueOf, c.open)
  <2>1. /\ acc.cash \in Int /\ acc.pnl \in Int /\ acc.fees \in Int
        /\ acc.cash = Capital + acc.pnl - acc.fees - SumOf(ValueOf, acc.open)
    BY BalancedFacts
  <2>2. QED  BY <1>2, <1>3, <1>5, <1>6, <2>1
<1>8. ~setup.margin => c.cash >= 0
  BY <1>2, BalancedFacts DEF Balanced
<1>9. \A q, u \in c.open : q.key = u.key => q = u
  BY <1>2 DEF Balanced
<1>10. Balanced(c)
  BY <1>2, <1>4, <1>7, <1>8, <1>9, BalancedBy
<1>11. QED  BY <1>2, <1>10 DEF c

(* What the strategies may say.                                              *)
Signal == [symbol : Pairs, strategy : {"S1", "S2"}, action : {"buy", "sell"}, percent : {0, 50, 100}]

WorthOf == [p \in Held |-> (p.quantity * p.entry) \div 100]

(* The worth of positions at their entries is a sum, too.                    *)
LEMMA WorthIs ==
  ASSUME NEW S, S \subseteq Held, IsFiniteSet(S)
  PROVE  MapThenSumSet(LAMBDA p : (p.quantity * p.entry) \div 100, S) \in Nat
<1> DEFINE W(p) == (p.quantity * p.entry) \div 100
           Eq(g) == g = [s \in SUBSET S |-> IF s = {} THEN 0
                                          ELSE W(FirstOf(s)) + g[s \ {FirstOf(s)}]]
<1>1. \A p \in S : WorthOf[p] = W(p) /\ W(p) \in Nat
  <2>1. SUFFICES ASSUME NEW p \in S PROVE W(p) \in Nat
    BY DEF WorthOf
  <2>2. p.quantity \in Nat /\ p.entry \in {101, 103, 111}  BY DEF Held
  <2>3. CASE p.entry = 101
    <3>1. p.quantity * p.entry = p.quantity * 101  BY <2>3
    <3>2. QED  BY <2>2, <3>1
  <2>4. CASE p.entry = 103
    <3>1. p.quantity * p.entry = p.quantity * 103  BY <2>4
    <3>2. QED  BY <2>2, <3>1
  <2>5. CASE p.entry = 111
    <3>1. p.quantity * p.entry = p.quantity * 111  BY <2>5
    <3>2. QED  BY <2>2, <3>1
  <2>6. QED  BY <2>2, <2>3, <2>4, <2>5
<1>2. MapThenSumSet(LAMBDA p : (p.quantity * p.entry) \div 100, S) = (CHOOSE g : Eq(g))[S]
  BY DEF MapThenSumSet, MapThenFoldSet, FirstOf
<1> HIDE DEF W
<1>3. \A s \in SUBSET S : s # {} => WorthOf[FirstOf(s)] = W(FirstOf(s))
  BY <1>1 DEF FirstOf
<1>4. Eq(Summer(WorthOf, S))
  <2>1. IsSum(WorthOf, Summer(WorthOf, S), S)
    BY SummerExists
  <2> DEFINE h == Summer(WorthOf, S)
  <2>2. h = [s \in SUBSET S |-> IF s = {} THEN 0 ELSE WorthOf[FirstOf(s)] + h[s \ {FirstOf(s)}]]
    BY <2>1 DEF IsSum, StepOf, RestOf
  <2> HIDE DEF h
  <2>3. Eq(h)  BY <1>3, <2>2
  <2>4. QED  BY <2>3 DEF h
<1>5. PICK g : Eq(g) /\ MapThenSumSet(LAMBDA p : (p.quantity * p.entry) \div 100, S) = g[S]
  <2> HIDE DEF Eq
  <2>1. QED  BY <1>2, <1>4
<1>6. \A s \in SUBSET S : g[s] = IF s = {} THEN 0 ELSE WorthOf[FirstOf(s)] + g[s \ {FirstOf(s)}]
  BY <1>3, <1>5
<1>7. g = [s \in SUBSET S |-> g[s]]  BY <1>5
<1> HIDE DEF Eq
<1>8. g[S] = SumOf(WorthOf, S)  BY <1>6, <1>7, SumUnfolded
<1>9. \A p \in S : WorthOf[p] \in Nat  BY <1>1
<1>10. SumOf(WorthOf, S) \in Nat  BY <1>9, SumType
<1>11. QED  BY <1>5, <1>8, <1>10

(* Without margin no position is larger than most of the cash.               *)
LEMMA SizeIs ==
  ASSUME NEW acc, Balanced(acc), NEW percent \in {0, 50, 100}, setup.margin \in BOOLEAN
  PROVE  /\ SizeOf(acc, percent) \in Nat
         /\ ~setup.margin => SizeOf(acc, percent) + SizeOf(acc, percent) \div 100 <= acc.cash
<1>1. acc.cash \in Int /\ acc.open \subseteq Held /\ IsFiniteSet(acc.open)  BY BalancedFacts
<1>2. CASE setup.margin
  <2>1. SizeOf(acc, percent) = (Capital * percent) \div 100  BY <1>2 DEF SizeOf
  <2>2. Capital \in Nat  BY EngineAssumption
  <2>3. (Capital * 0) \div 100 \in Nat /\ (Capital * 50) \div 100 \in Nat /\ (Capital * 100) \div 100 \in Nat
    BY <2>2
  <2>4. QED  BY <1>2, <2>1, <2>3
<1>3. CASE ~setup.margin
  <2>1. PICK money \in Nat : money = acc.cash  BY <1>1, <1>3 DEF Balanced
  <2>2. PICK worth \in Nat : worth = MapThenSumSet(LAMBDA p : (p.quantity * p.entry) \div 100, acc.open)
    BY <1>1, WorthIs
  <2>3. PICK equity \in Nat : equity = money + worth  OBVIOUS
  <2>4. EquityOf(acc) = equity
    <3> DEFINE w == MapThenSumSet(LAMBDA p : (p.quantity * p.entry) \div 100, acc.open)
    <3>1. EquityOf(acc) = acc.cash + w  BY DEF EquityOf
    <3>2. w = worth  BY <2>2
    <3> HIDE DEF w
    <3>3. QED  BY <2>1, <2>3, <3>1, <3>2
  <2>5. PICK part \in Nat : part = (equity * percent) \div 100
    <3>1. (equity * 0) \div 100 \in Nat /\ (equity * 50) \div 100 \in Nat /\ (equity * 100) \div 100 \in Nat
      OBVIOUS
    <3>2. QED  BY <3>1
  <2>6. PICK most \in Nat : most = (money * 95) \div 100  OBVIOUS
  <2>7. SizeOf(acc, percent) = Min({part, most})
    BY <1>3, <2>1, <2>4, <2>5, <2>6 DEF SizeOf
  <2>8. SizeOf(acc, percent) \in Nat /\ SizeOf(acc, percent) <= most
    BY <2>7, MinMaxOfTwo
  <2>9. \A n \in Nat : n <= most => n + n \div 100 <= money
    BY <2>6
  <2>10. QED  BY <2>1, <2>8, <2>9
<1>4. QED  BY <1>2, <1>3

(* A position that is opened leaves the account balanced.                    *)
LEMMA PositionOpens ==
  ASSUME NEW acc, Balanced(acc), NEW signal \in Signal, NEW price \in Closes,
         setup \in [margin : BOOLEAN, multi : BOOLEAN], clock \in Int
  PROVE  /\ Balanced(OpenPosition(acc, signal, price))
         /\ \A p \in OpenPosition(acc, signal, price).open : p \in acc.open \/ p.symbol = signal.symbol
<1> DEFINE c == OpenPosition(acc, signal, price)
           size == SizeOf(acc, signal.percent)
           full == \/ \E p \in acc.open : p.key = KeyOf(signal)
                   \/ Cardinality(acc.open) >= MaxOpen
                   \/ ~setup.margin /\ acc.cash < size
           exec == price + 1
           amount == (size * 100) \div exec
           new == [key |-> KeyOf(signal), symbol |-> signal.symbol, entry |-> exec,
                   quantity |-> amount, value |-> size, at |-> clock + 1, best |-> 0]
<1>1. CASE full
  BY <1>1 DEF OpenPosition
<1>2. CASE ~full
  <2>1. signal.percent \in {0, 50, 100} /\ signal.symbol \in Pairs /\ KeyOf(signal) \in {"any", "S1", "S2"} \X Pairs
    BY DEF Signal, KeyOf
  <2>2. size \in Nat /\ (~setup.margin => size + size \div 100 <= acc.cash)
    <3>1. setup.margin \in BOOLEAN  OBVIOUS
    <3>2. QED  BY <2>1, <3>1, SizeIs
  <2>3. exec \in {101, 103, 111}  BY DEF Closes
  <2>4. c = [acc EXCEPT !.cash = acc.cash - size - Commission(size), !.fees = acc.fees + Commission(size),
                        !.open = acc.open \cup {new}]
    BY <1>2 DEF OpenPosition
  <2>5. \A p \in acc.open : p.key # new.key  BY <1>2
  <2> HIDE DEF c, size, full
  <2>6. amount \in Nat
    <3>1. (size * 100) \div 101 \in Nat /\ (size * 100) \div 103 \in Nat /\ (size * 100) \div 111 \in Nat
      BY <2>2
    <3>2. QED  BY <2>3, <3>1
  <2> HIDE DEF exec, amount
  <2>7. new \in Held  BY <2>1, <2>2, <2>3, <2>6 DEF Held
  <2>8. new.value = size /\ new.symbol = signal.symbol  OBVIOUS
  <2> HIDE DEF new
  <2>9. PICK fee \in Nat : fee = size \div 100  BY <2>2
  <2>10. /\ acc.cash \in Int /\ acc.pnl \in Int /\ acc.fees \in Int /\ acc.open \subseteq Held
         /\ IsFiniteSet(acc.open) /\ acc \in Account
         /\ acc.cash = Capital + acc.pnl - acc.fees - SumOf(ValueOf, acc.open)
         /\ SumOf(ValueOf, acc.open) \in Int
    BY BalancedFacts DEF Balanced
  <2>11. PICK cash2 \in Int, fees2 \in Int : cash2 = acc.cash - size - fee /\ fees2 = acc.fees + fee
    BY <2>2, <2>9, <2>10
  <2>12. c = [acc EXCEPT !.cash = cash2, !.fees = fees2, !.open = acc.open \cup {new}]
    BY <2>4, <2>9, <2>11 DEF Commission
  <2>13. /\ c \in Account /\ c.cash = cash2 /\ c.fees = fees2 /\ c.pnl = acc.pnl
         /\ c.open = acc.open \cup {new}
    BY <2>7, <2>10, <2>12 DEF Account
  <2>14. IsFiniteSet(c.open) /\ SumOf(ValueOf, c.open) = size + SumOf(ValueOf, acc.open)
    <3>1. c.open \subseteq Held  BY <2>7, <2>10, <2>13
    <3>2. \A q \in c.open : ValueOf[q] = q.value /\ q.value \in Int  BY <3>1 DEF ValueOf, Held
    <3>3. new \notin acc.open /\ \A q \in acc.open \cup {new} : ValueOf[q] \in Int
      BY <2>5, <2>13, <3>2
    <3>4. /\ SumOf(ValueOf, acc.open \cup {new}) = ValueOf[new] + SumOf(ValueOf, acc.open)
          /\ IsFiniteSet(acc.open \cup {new})
      BY <2>10, <3>3, SumPutIn
    <3>5. QED  BY <2>8, <2>13, <3>2, <3>4
  <2>15. Capital \in Int  BY EngineAssumption
  <2>16. c.cash = Capital + c.pnl - c.fees - SumOf(ValueOf, c.open)
    BY <2>2, <2>9, <2>10, <2>11, <2>13, <2>14, <2>15
  <2>17. ~setup.margin => c.cash >= 0
    BY <2>2, <2>9, <2>10, <2>11, <2>13
  <2>18. \A q, u \in c.open : q.key = u.key => q = u
    BY <2>5, <2>13 DEF Balanced
  <2>19. Balanced(c)
    BY <2>13, <2>14, <2>16, <2>17, <2>18, BalancedBy
  <2>20. \A p \in c.open : p \in acc.open \/ p.symbol = signal.symbol
    BY <2>8, <2>13
  <2>21. QED  BY <2>19, <2>20 DEF c
<1>3. QED  BY <1>1, <1>2

(* A signal leaves the account balanced.                                     *)
LEMMA SignalKeeps ==
  ASSUME NEW acc, Balanced(acc), NEW signal \in Signal, NEW price \in Closes \cup {NoPrice},
         setup \in [margin : BOOLEAN, multi : BOOLEAN], clock \in Int
  PROVE  /\ Balanced(ProcessSignal(acc, signal, price))
         /\ \A p \in ProcessSignal(acc, signal, price).open :
              p \in acc.open \/ (price \in Closes /\ p.symbol = signal.symbol)
<1> DEFINE c == ProcessSignal(acc, signal, price)
           held == {p \in acc.open : p.key = <<"any", signal.symbol>>}
<1>1. CASE price = NoPrice
  BY <1>1 DEF ProcessSignal
<1>2. CASE price \in Closes /\ signal.action = "buy"
  <2>1. c = OpenPosition(acc, signal, price)
    BY <1>2 DEF ProcessSignal, Closes, NoPrice
  <2>2. QED  BY <1>2, <2>1, PositionOpens
<1>3. CASE price \in Closes /\ signal.action # "buy" /\ held = {}
  <2>1. c = acc  BY <1>3 DEF ProcessSignal, Closes, NoPrice
  <2>2. QED  BY <2>1
<1>4. CASE price \in Closes /\ signal.action # "buy" /\ held # {}
  <2> DEFINE p == CHOOSE q \in held : TRUE
  <2>1. c = ClosePosition(acc, p, price)
    BY <1>4 DEF ProcessSignal, Closes, NoPrice
  <2>2. p \in acc.open
    <3>1. p \in held
      <4> HIDE DEF held
      <4>1. QED  BY <1>4
    <3>2. QED  BY <3>1
  <2> HIDE DEF p
  <2>3. Balanced(c) /\ c.open = acc.open \ {p}
    BY <1>4, <2>1, <2>2, PositionCloses
  <2> HIDE DEF c
  <2>4. \A q \in c.open : q \in acc.open  BY <2>3
  <2>5. QED  BY <2>3, <2>4 DEF c
<1>5. QED  BY <1>1, <1>2, <1>3, <1>4

(* Closing one position after the other, each at its price.                  *)
Closing(acc, price, S, g) ==
  g = [s \in SUBSET S |-> IF s = {} THEN acc
                          ELSE ClosePosition(g[s \ {FirstOf(s)}], FirstOf(s), price[FirstOf(s).symbol])]

(* There is a function that does so.                                         *)
LEMMA ClosingExists ==
  ASSUME NEW acc \in Account, NEW S, S \subseteq Held, IsFiniteSet(S), NEW price,
         \A p \in S : price[p.symbol] \in Closes
  PROVE  \E g : Closing(acc, price, S, g)
<1> DEFINE step == [x \in S \X Account |-> ClosePosition(x[2], x[1], price[x[1].symbol])]
           ch == [s \in SUBSET S |-> FirstOf(s)]
<1>1. step \in [S \X Account -> Account]
  <2>1. ASSUME NEW p \in S, NEW a \in Account
        PROVE  ClosePosition(a, p, price[p.symbol]) \in Account
    BY ClosedFields
  <2>2. QED  BY <2>1
<1>2. \A s \in SUBSET S : s # {} => ch[s] = FirstOf(s) /\ FirstOf(s) \in s
  BY DEF FirstOf
<1>3. HasFold(S, Account, acc, step, ch)
  <2>1. \A s \in SUBSET S : s # {} => ch[s] \in s  BY <1>2
  <2> HIDE DEF step, ch
  <2>2. QED  BY <1>1, <2>1, FoldExists
<1>4. PICK g \in [SUBSET S -> Account] :
        \A s \in SUBSET S : g[s] = IF s = {} THEN acc ELSE step[<<ch[s], g[s \ {ch[s]}]>>]
  <2> HIDE DEF step, ch
  <2>1. QED  BY <1>3 DEF HasFold
<1>5. ASSUME NEW s \in SUBSET S, s # {}
      PROVE  g[s] = ClosePosition(g[s \ {FirstOf(s)}], FirstOf(s), price[FirstOf(s).symbol])
  <2>1. ch[s] = FirstOf(s) /\ FirstOf(s) \in S /\ g[s \ {FirstOf(s)}] \in Account
    BY <1>2, <1>5
  <2>2. g[s] = step[<<FirstOf(s), g[s \ {FirstOf(s)}]>>]
    <3> HIDE DEF step, ch
    <3>1. QED  BY <1>4, <1>5, <2>1
  <2>3. step[<<FirstOf(s), g[s \ {FirstOf(s)}]>>]
          = ClosePosition(g[s \ {FirstOf(s)}], FirstOf(s), price[FirstOf(s).symbol])
    BY <2>1
  <2>4. QED  BY <2>2, <2>3
<1>6. g = [s \in SUBSET S |-> IF s = {} THEN acc
                              ELSE ClosePosition(g[s \ {FirstOf(s)}], FirstOf(s), price[FirstOf(s).symbol])]
  <2> HIDE DEF step, ch
  <2>1. g = [s \in SUBSET S |-> g[s]]  OBVIOUS
  <2>2. g[{}] = acc  BY <1>4
  <2>3. QED  BY <1>5, <2>1, <2>2
<1>7. QED  BY <1>6 DEF Closing

(* All of them closed, the account is balanced and holds the others.         *)
LEMMA AllClosed ==
  ASSUME NEW acc, Balanced(acc), NEW S, S \subseteq acc.open, NEW price,
         \A p \in S : price[p.symbol] \in Closes, NEW g, Closing(acc, price, S, g)
  PROVE  Balanced(g[S]) /\ g[S].open = acc.open \ S
<1> DEFINE Good(s) == Balanced(g[s]) /\ g[s].open = acc.open \ s
           T == {s \in SUBSET S : Good(s)}
<1>1. \A s \in SUBSET S :
        g[s] = IF s = {} THEN acc
               ELSE ClosePosition(g[s \ {FirstOf(s)}], FirstOf(s), price[FirstOf(s).symbol])
  BY DEF Closing
<1>2. ASSUME NEW s \in SUBSET S, \A t \in SUBSET s : t # s => t \in T
      PROVE  Good(s)
  <2>1. CASE s = {}
    BY <1>1, <2>1
  <2>2. CASE s # {}
    <3> DEFINE p == FirstOf(s)
               t == s \ {p}
    <3>1. p \in s /\ t \in SUBSET s /\ t # s /\ p \in acc.open
      BY <2>2, FirstRest
    <3>2. g[s] = ClosePosition(g[t], p, price[p.symbol]) /\ price[p.symbol] \in Closes
      BY <1>1, <2>2, <3>1
    <3> HIDE DEF p
    <3>3. Good(t)
      <4>1. t \in T
        <5> HIDE DEF T, t
        <5>1. QED  BY <1>2, <3>1
      <4> HIDE DEF Good, t
      <4>2. QED  BY <4>1
    <3>4. p \in g[t].open  BY <3>1, <3>3
    <3>5. Balanced(g[s]) /\ g[s].open = g[t].open \ {p}
      <4> HIDE DEF t
      <4>1. QED  BY <3>2, <3>3, <3>4, PositionCloses
    <3>6. QED  BY <3>1, <3>3, <3>5
  <2>3. QED  BY <2>1, <2>2
<1>3. \A s \in SUBSET S : (\A t \in SUBSET s : t # s => t \in T) => s \in T
  <2> HIDE DEF Good
  <2>1. QED  BY <1>2
<1>4. S \in T
  <2>1. IsFiniteSet(S)  BY BalancedFacts, FS_Subset
  <2> HIDE DEF T
  <2>2. QED  BY <1>3, <2>1, SetInduction
<1>5. QED  BY <1>4

(* What has a candle has a price.                                            *)
CandlesOf(candles) ==
  /\ candles = [s \in Pairs |-> candles[s]]
  /\ \A s \in Pairs : candles[s] \in [close : Closes \cup {NoPrice}, low : Int, high : Int]

(* The change of a position is a number.                                     *)
LEMMA ChangeIs ==
  ASSUME NEW p \in Held, NEW price \in Int
  PROVE  Change(p, price) \in Int
<1>1. p.entry \in {101, 103, 111}  BY DEF Held
<1>2. PICK n \in Int : n = (price - p.entry) * 1000  BY <1>1
<1>3. n \div 101 \in Int /\ n \div 103 \in Int /\ n \div 111 \in Int  OBVIOUS
<1>4. n \div p.entry \in Int  BY <1>1, <1>3
<1>5. QED  BY <1>2, <1>4 DEF Change

(* The best closes of some positions are noted.                              *)
NotedAs(P, best) == {[p EXCEPT !.best = best[p]] : p \in P}
Noted(acc, P, best) == [acc EXCEPT !.open = (acc.open \ P) \cup NotedAs(P, best)]

(* Nothing else changes.                                                     *)
LEMMA NotedKeeps ==
  ASSUME NEW acc, Balanced(acc), NEW P, P \subseteq acc.open, NEW best,
         \A p \in P : best[p] \in Int
  PROVE  /\ Balanced(Noted(acc, P, best))
         /\ Noted(acc, P, best).open = (acc.open \ P) \cup NotedAs(P, best)
<1> DEFINE f == [p \in P |-> [p EXCEPT !.best = best[p]]]
           noted == NotedAs(P, best)
           rest == acc.open \ P
           c == Noted(acc, P, best)
<1>1. /\ acc \in Account /\ acc.cash \in Int /\ acc.pnl \in Int /\ acc.fees \in Int
      /\ acc.open \subseteq Held /\ IsFiniteSet(acc.open) /\ P \subseteq Held
      /\ acc.cash = Capital + acc.pnl - acc.fees - SumOf(ValueOf, acc.open)
      /\ \A p, q \in acc.open : p.key = q.key => p = q
  BY BalancedFacts DEF Balanced
<1>2. \A p \in P : f[p] \in Held /\ f[p].key = p.key /\ f[p].value = p.value
  BY <1>1 DEF Held
<1>2A. \A p, q \in acc.open : p.key = q.key => p = q  BY <1>1
<1>2B. P \subseteq acc.open /\ rest = acc.open \ P /\ rest \subseteq Held /\ P \subseteq Held  BY <1>1
<1>3. noted = {f[p] : p \in P}  BY DEF NotedAs
<1> HIDE DEF f, noted
<1> HIDE DEF rest, c
<1>4. \A p, q \in P : f[p] = f[q] => p = q
  <2>1. ASSUME NEW p \in P, NEW q \in P, f[p] = f[q] PROVE p = q
    <3>1. p.key = q.key  BY <1>2, <2>1
    <3>2. QED  BY <1>2A, <1>2B, <3>1
  <2>2. QED  BY <2>1
<1>5. IsFiniteSet(P) /\ IsFiniteSet(rest)  BY <1>1, <1>2B, FS_Subset
<1>6. noted \subseteq Held /\ noted \cap rest = {}
  <2>1. noted \subseteq Held  BY <1>2, <1>3
  <2>2. ASSUME NEW p \in P, f[p] \in rest PROVE FALSE
    <3>1. f[p].key = p.key  BY <1>2
    <3>2. f[p] \in acc.open /\ p \in acc.open /\ f[p] \notin P  BY <1>2B, <2>2
    <3>3. f[p] = p  BY <1>2A, <3>1, <3>2
    <3>4. QED  BY <3>2, <3>3
  <2>3. QED  BY <1>3, <2>1, <2>2
<1>7. SumOf(ValueOf, noted) = SumOf(ValueOf, P) /\ IsFiniteSet(noted)
  <2>1. \A p \in P : ValueOf[p] \in Int /\ ValueOf[f[p]] = ValueOf[p]
    <3>1. \A p \in Held : ValueOf[p] = p.value /\ p.value \in Int  BY DEF ValueOf, Held
    <3>2. QED  BY <1>2, <1>2B, <3>1
  <2>2. /\ SumOf(ValueOf, {f[p] : p \in P}) = SumOf(ValueOf, P)
        /\ IsFiniteSet({f[p] : p \in P})
    BY <1>4, <1>5, <2>1, SumImage
  <2>3. QED  BY <1>3, <2>2
<1>8. SumOf(ValueOf, acc.open) = SumOf(ValueOf, P) + SumOf(ValueOf, rest)
  <2>1. \A p \in acc.open : ValueOf[p] \in Int  BY <1>1 DEF ValueOf, Held
  <2>2. QED  BY <1>1, <1>2B, <2>1, SumSplit
<1> DEFINE all == rest \cup noted
<1>9. IsFiniteSet(all) /\ all \subseteq Held /\ noted \subseteq all /\ all \ noted = rest
  <2>1. all \subseteq Held /\ noted \subseteq all /\ all \ noted = rest
    BY <1>2B, <1>6
  <2> HIDE DEF rest
  <2>2. IsFiniteSet(all)  BY <1>5, <1>7, FS_Union
  <2>3. QED  BY <2>1, <2>2
<1>10. SumOf(ValueOf, all) = SumOf(ValueOf, noted) + SumOf(ValueOf, rest)
  <2>1. \A p \in all : ValueOf[p] \in Int  BY <1>9 DEF ValueOf, Held
  <2> HIDE DEF all, rest
  <2>2. SumOf(ValueOf, all) = SumOf(ValueOf, noted) + SumOf(ValueOf, all \ noted)
    BY <1>9, <2>1, SumSplit
  <2>3. QED  BY <1>9, <2>2
<1>11. c = [acc EXCEPT !.open = all]  BY DEF c, rest, noted, Noted
<1>12. \A p, q \in all : p.key = q.key => p = q
  <2>1. \A p \in all : \E u \in acc.open : p.key = u.key /\ (IF u \in P THEN p = f[u] ELSE p = u)
    <3>1. \A p \in rest : p \in acc.open /\ p \notin P  BY <1>2B
    <3>2. \A p \in noted : \E u \in P : p = f[u] /\ p.key = u.key /\ u \in acc.open  BY <1>2, <1>2B, <1>3
    <3>3. QED  BY <3>1, <3>2
  <2> HIDE DEF all
  <2>2. QED  BY <1>2A, <2>1
<1> HIDE DEF all, c
<1>13. /\ c \in Account /\ c.cash = acc.cash /\ c.pnl = acc.pnl /\ c.fees = acc.fees /\ c.open = all
  BY <1>1, <1>9, <1>11 DEF Account
<1>14. c.cash = Capital + c.pnl - c.fees - SumOf(ValueOf, c.open)
  <2>1. SumOf(ValueOf, acc.open) = SumOf(ValueOf, all)
    <3> HIDE DEF rest
    <3>1. QED  BY <1>7, <1>8, <1>10
  <2>2. QED  BY <1>1, <1>13, <2>1
<1>15. Balanced(c)
  <2>1. ~setup.margin => c.cash >= 0  BY <1>13 DEF Balanced
  <2>2. \A p, q \in c.open : p.key = q.key => p = q  BY <1>12, <1>13
  <2>3. IsFiniteSet(c.open)  BY <1>9, <1>13
  <2>4. QED  BY <1>13, <1>14, <2>1, <2>2, <2>3, BalancedBy
<1>16. QED  BY <1>13, <1>15 DEF all, rest, c, noted

(* The exits of a time stamp.                                                *)
LEMMA ExitsKeep ==
  ASSUME NEW acc, Balanced(acc), NEW candles, CandlesOf(candles)
  PROVE  /\ Balanced(CheckExits(acc, candles))
         /\ \A p \in CheckExits(acc, candles).open : \E q \in acc.open : p.symbol = q.symbol
<1> DEFINE priced == {p \in acc.open : candles[p.symbol].close # NoPrice}
           best == [p \in priced |-> Max({p.best, Change(p, candles[p.symbol].close)})]
           noted == {[p EXCEPT !.best = Max({p.best, Change(p, candles[p.symbol].close)})] : p \in priced}
           leaving == {p \in noted : ExitReason(p, candles[p.symbol]) # "none"}
           c == [acc EXCEPT !.open = (acc.open \ priced) \cup noted]
           price == [s \in Pairs |-> candles[s].close]
           Eq(g) == g = [s \in SUBSET leaving |->
                           IF s = {} THEN c
                           ELSE ClosePosition(g[s \ {FirstOf(s)}], FirstOf(s), candles[FirstOf(s).symbol].close)]
           r == CheckExits(acc, candles)
<1>1. r = (CHOOSE g : Eq(g))[leaving]
  BY DEF CheckExits, FoldSet, MapThenFoldSet, FirstOf
<1>2. acc.open \subseteq Held  BY BalancedFacts
<1>3. \A p \in priced : /\ p \in acc.open /\ p.symbol \in Pairs /\ candles[p.symbol].close \in Closes
  BY <1>2 DEF CandlesOf, Held
<1>4. \A p \in priced : best[p] \in Int
  <2>1. ASSUME NEW p \in priced PROVE Max({p.best, Change(p, candles[p.symbol].close)}) \in Int
    <3>1. p.best \in Int /\ p \in Held  BY <1>2, <1>3 DEF Held
    <3>2. candles[p.symbol].close \in Int  BY <1>3 DEF Closes
    <3>3. Change(p, candles[p.symbol].close) \in Int  BY <3>1, <3>2, ChangeIs
    <3>4. QED  BY <3>1, <3>3, MinMaxOfTwo
  <2>2. QED  BY <2>1
<1>5. noted = NotedAs(priced, best)  BY DEF NotedAs
<1> HIDE DEF best, noted
<1>6. Balanced(c) /\ c.open = (acc.open \ priced) \cup noted
  <2>1. priced \subseteq acc.open  OBVIOUS
  <2>2. c = Noted(acc, priced, best)  BY <1>5 DEF Noted
  <2> HIDE DEF c, priced
  <2>3. QED  BY <1>4, <1>5, <2>1, <2>2, NotedKeeps
<1>7. \A p \in noted : \E q \in priced : p.symbol = q.symbol
  <2>1. ASSUME NEW q \in priced PROVE [q EXCEPT !.best = best[q]].symbol = q.symbol
    BY <1>2, <1>3 DEF Held
  <2>2. QED  BY <1>5, <2>1 DEF NotedAs
<1>8. /\ leaving \subseteq c.open /\ c.open \subseteq Held /\ IsFiniteSet(c.open)
      /\ \A p \in leaving : p.symbol \in Pairs /\ candles[p.symbol].close \in Closes /\ price[p.symbol] \in Closes
  <2>1. leaving \subseteq c.open  BY <1>6
  <2>2. c.open \subseteq Held /\ IsFiniteSet(c.open)
    <3> HIDE DEF c
    <3>1. QED  BY <1>6, BalancedFacts
  <2>3. QED  BY <1>3, <1>7, <2>1, <2>2
<1> HIDE DEF c, priced
<1>9. \A g : Closing(c, price, leaving, g) <=> Eq(g)
  <2>1. ASSUME NEW s \in SUBSET leaving, s # {}
        PROVE  price[FirstOf(s).symbol] = candles[FirstOf(s).symbol].close
    <3>1. FirstOf(s) \in leaving  BY <2>1 DEF FirstOf
    <3> HIDE DEF leaving
    <3>2. QED  BY <1>8, <3>1
  <2> HIDE DEF leaving, price
  <2>2. QED  BY <2>1 DEF Closing
<1>10. PICK g : Closing(c, price, leaving, g) /\ r = g[leaving]
  <2>1. \E g : Closing(c, price, leaving, g)
    <3>1. c \in Account  BY <1>6 DEF Balanced
    <3>2. leaving \subseteq Held /\ IsFiniteSet(leaving) /\ \A p \in leaving : price[p.symbol] \in Closes
      BY <1>8, FS_Subset
    <3> HIDE DEF leaving, price
    <3>3. QED  BY <3>1, <3>2, ClosingExists
  <2> HIDE DEF Eq, leaving, price, r
  <2>2. QED  BY <1>1, <1>9, <2>1
<1> HIDE DEF leaving, price, r
<1>11. Balanced(r) /\ r.open = c.open \ leaving
  <2>1. leaving \subseteq c.open /\ \A p \in leaving : price[p.symbol] \in Closes  BY <1>8
  <2>2. QED  BY <1>6, <1>10, <2>1, AllClosed
<1>12. \A p \in c.open : \E q \in acc.open : p.symbol = q.symbol
  BY <1>6, <1>7 DEF priced
<1>13. QED  BY <1>11, <1>12 DEF r

(* Balanced, and everything that is open has a price.                        *)
Sound(acc, prices) == Balanced(acc) /\ \A p \in acc.open : prices[p.symbol] \in Closes

(* Strategies say sequences of signals.                                      *)
LEMMA SignalsAre == Signals \subseteq Seq(Signal)
<1>1. /\ [symbol |-> "A", strategy |-> "S1", action |-> "buy", percent |-> 50] \in Signal
      /\ [symbol |-> "A", strategy |-> "S1", action |-> "buy", percent |-> 100] \in Signal
      /\ [symbol |-> "A", strategy |-> "S2", action |-> "buy", percent |-> 100] \in Signal
      /\ [symbol |-> "B", strategy |-> "S1", action |-> "buy", percent |-> 50] \in Signal
      /\ [symbol |-> "A", strategy |-> "S1", action |-> "sell", percent |-> 0] \in Signal
  BY DEF Signal, Pairs
<1> HIDE DEF Signal
<1>2. <<>> \in Seq(Signal)  OBVIOUS
<1>3. \A a, b \in Signal : <<a>> \in Seq(Signal) /\ <<a, b>> \in Seq(Signal)  OBVIOUS
<1>4. QED  BY <1>1, <1>2, <1>3 DEF Signals

(* The signals of a time stamp, one after the other.                         *)
Signalled(acc, signals, candles) ==
  FoldLeft(LAMBDA a, g : ProcessSignal(a, g, candles[g.symbol].close), acc, signals)

(* They leave the account balanced, and what they open has a price.          *)
LEMMA SignalsKeep ==
  ASSUME NEW acc, NEW prices, Sound(acc, prices), NEW candles, CandlesOf(candles),
         \A s \in Pairs : candles[s].close # NoPrice => prices[s] \in Closes,
         NEW signals \in Signals, setup \in [margin : BOOLEAN, multi : BOOLEAN], clock \in Int
  PROVE  Sound(Signalled(acc, signals, candles), prices)
<1> DEFINE S == 1..Len(signals)
           V == {a \in Account : Sound(a, prices)}
           after(a, i) == ProcessSignal(a, signals[i], candles[signals[i].symbol].close)
           Eq(g) == g = [s \in SUBSET S |-> IF s = {} THEN acc ELSE after(g[s \ {Max(s)}], Max(s))]
           ch == [s \in SUBSET S |-> Max(s)]
           step == [x \in S \X V |-> after(x[2], x[1])]
           r == Signalled(acc, signals, candles)
<1>1. signals \in Seq(Signal)  BY SignalsAre
<1>2. Len(signals) \in Nat /\ DOMAIN signals = S /\ \A i \in S : signals[i] \in Signal
  BY <1>1
<1>3. IsFiniteSet(S)  BY <1>2, FS_Interval
<1>4. ASSUME NEW s \in SUBSET S, s # {} PROVE Max(s) \in s
  <2>1. S \subseteq Int  OBVIOUS
  <2> HIDE DEF S
  <2>2. IsFiniteSet(s) /\ s \subseteq Int  BY <1>3, <2>1, FS_Subset
  <2>3. QED  BY <1>4, <2>2, MaxOfSet
<1>5. ASSUME NEW a \in V, NEW i \in S PROVE after(a, i) \in V
  <2> DEFINE signal == signals[i]
             price == candles[signal.symbol].close
  <2>1. signal \in Signal /\ signal.symbol \in Pairs  BY <1>2 DEF Signal
  <2>2. price \in Closes \cup {NoPrice} /\ (price \in Closes => prices[signal.symbol] \in Closes)
    BY <2>1 DEF CandlesOf, Closes, NoPrice
  <2>3. Balanced(a) /\ \A p \in a.open : prices[p.symbol] \in Closes  BY DEF Sound
  <2>4. after(a, i) = ProcessSignal(a, signal, price)  OBVIOUS
  <2> HIDE DEF signal, price, after
  <2>5. /\ Balanced(after(a, i))
        /\ \A p \in after(a, i).open : p \in a.open \/ (price \in Closes /\ p.symbol = signal.symbol)
    BY <2>1, <2>2, <2>3, <2>4, SignalKeeps
  <2>6. \A p \in after(a, i).open : prices[p.symbol] \in Closes
    BY <2>2, <2>3, <2>5
  <2>7. QED  BY <2>5, <2>6 DEF Sound, Balanced
<1>6. r = (CHOOSE g : Eq(g))[S]
  <2>1. r = (CHOOSE g : g = [s \in SUBSET DOMAIN signals |->
                IF s = {} THEN acc
                ELSE ProcessSignal(g[s \ {Max(s)}], signals[Max(s)], candles[signals[Max(s)].symbol].close)])
              [DOMAIN signals]
    BY DEF Signalled, FoldLeft, MapThenFoldSet
  <2>2. QED  BY <1>2, <2>1
<1>7. \E g \in [SUBSET S -> V] : Eq(g)
  <2>1. step \in [S \X V -> V]
    <3> HIDE DEF after, V, S
    <3>1. QED  BY <1>5
  <2>2. \A s \in SUBSET S : s # {} => ch[s] \in s  BY <1>4
  <2>3. acc \in V  BY DEF Sound, Balanced
  <2> HIDE DEF step, ch
  <2>4. HasFold(S, V, acc, step, ch)
    <3> HIDE DEF S, V
    <3>1. QED  BY <1>3, <2>1, <2>2, <2>3, FoldExists
  <2> HIDE DEF V, after
  <2>5. PICK g \in [SUBSET S -> V] :
          \A s \in SUBSET S : g[s] = IF s = {} THEN acc ELSE step[<<ch[s], g[s \ {ch[s]}]>>]
    BY <2>4 DEF HasFold
  <2>6. ASSUME NEW s \in SUBSET S, s # {}
        PROVE  g[s] = after(g[s \ {Max(s)}], Max(s))
    <3>1. ch[s] = Max(s) /\ Max(s) \in S /\ g[s \ {Max(s)}] \in V
      BY <1>4, <2>6 DEF ch
    <3>2. step[<<Max(s), g[s \ {Max(s)}]>>] = after(g[s \ {Max(s)}], Max(s))
      BY <3>1 DEF step
    <3>3. QED  BY <2>5, <2>6, <3>1, <3>2
  <2>7. g = [s \in SUBSET S |-> IF s = {} THEN acc ELSE after(g[s \ {Max(s)}], Max(s))]
    BY <2>5, <2>6
  <2>8. QED  BY <2>7
<1> HIDE DEF V, after, r
<1>8. PICK g : Eq(g) /\ r = g[S]
  <2>1. \E g : Eq(g)  BY <1>7
  <2> HIDE DEF Eq
  <2>2. QED  BY <1>6, <2>1
<1> DEFINE T == {s \in SUBSET S : g[s] \in V}
<1>9. ASSUME NEW s \in SUBSET S, \A t \in SUBSET s : t # s => t \in T
      PROVE  g[s] \in V
  <2>1. CASE s = {}
    BY <1>8, <2>1 DEF V, Sound, Balanced
  <2>2. CASE s # {}
    <3> DEFINE i == Max(s)
    <3>1. i \in s /\ i \in S  BY <1>4, <2>2
    <3>2. g[s] = after(g[s \ {i}], i)  BY <1>8, <2>2
    <3> HIDE DEF i
    <3>3. g[s \ {i}] \in V
      <4>1. s \ {i} \in SUBSET s /\ s \ {i} # s  BY <3>1
      <4>2. s \ {i} \in T
        <5> HIDE DEF T
        <5>1. QED  BY <1>9, <4>1
      <4>3. QED  BY <4>2
    <3>4. QED  BY <1>5, <3>1, <3>2, <3>3
  <2>3. QED  BY <2>1, <2>2
<1>10. \A s \in SUBSET S : (\A t \in SUBSET s : t # s => t \in T) => s \in T
  BY <1>9
<1>11. S \in T
  <2> HIDE DEF T, S, Eq
  <2>1. QED  BY <1>3, <1>10, SetInduction
<1>12. QED  BY <1>8, <1>11 DEF r, V

(* What is open has been seen at a price.                                     *)
EngineInv ==
  /\ Sound(account, lastClose) /\ setup \in [margin : BOOLEAN, multi : BOOLEAN]
  /\ clock \in Int /\ lastClose \in [Pairs -> Closes \cup {NoPrice}]
  /\ clock > LastCandle => account.open = {}

(* The account starts with its capital and nothing open.                     *)
LEMMA InitEngine == EngineInit => EngineInv
<1> SUFFICES ASSUME EngineInit PROVE EngineInv
  OBVIOUS
<1>1. account.open = {} /\ IsFiniteSet(account.open) /\ account.cash = Capital /\ account.pnl = 0 /\ account.fees = 0
  BY FS_EmptySet DEF EngineInit
<1>2. Capital \in Nat /\ LastCandle \in Nat  BY EngineAssumption
<1>3. account \in Account
  BY <1>2 DEF EngineInit, Account
<1>4. SumOf(ValueOf, account.open) = 0  BY <1>1, SumStep
<1>5. Balanced(account)
  <2>1. account.cash = Capital + account.pnl - account.fees - SumOf(ValueOf, account.open) /\ account.cash >= 0
    BY <1>1, <1>2, <1>4
  <2>2. QED  BY <1>1, <1>3, <2>1, BalancedBy
<1>6. Sound(account, lastClose)  BY <1>1, <1>5 DEF Sound
<1>7. QED  BY <1>2, <1>6 DEF EngineInit, EngineInv

(* One time stamp.                                                           *)
LEMMA AdvanceKeeps ==
  ASSUME EngineInv, NEW shape \in [Pairs -> UNION {Shapes[s] : s \in Pairs}], NEW signals \in Signals,
         \A s \in Pairs : shape[s] \in Shapes[s], Advance(shape, signals)
  PROVE  EngineInv'
<1> DEFINE candles == [s \in Pairs |-> Candle[shape[s]]]
           left == CheckExits(account, candles)
           traded == Signalled(left, signals, candles)
           seen == [s \in Pairs |-> IF candles[s].close = NoPrice THEN lastClose[s] ELSE candles[s].close]
<1>1. /\ clock < LastCandle /\ clock' = clock + 1 /\ setup' = setup
      /\ account' = traded /\ lastClose' = seen
  BY DEF Advance, Signalled
<1>2. CandlesOf(candles)
  <2>1. \A s \in Pairs : shape[s] \in {"none", "quiet", "higher", "much", "dip"}
    BY DEF Shapes, Pairs
  <2>2. \A x \in {"none", "quiet", "higher", "much", "dip"} :
          Candle[x] \in [close : Closes \cup {NoPrice}, low : Int, high : Int]
    BY DEF Candle, Closes, NoPrice
  <2>3. QED  BY <2>1, <2>2 DEF CandlesOf
<1>3. /\ Balanced(account) /\ clock \in Int /\ setup \in [margin : BOOLEAN, multi : BOOLEAN]
      /\ lastClose \in [Pairs -> Closes \cup {NoPrice}]
      /\ \A p \in account.open : lastClose[p.symbol] \in Closes
      /\ account.open \subseteq Held
  BY BalancedFacts DEF EngineInv, Sound
<1> HIDE DEF candles
<1>4. /\ seen \in [Pairs -> Closes \cup {NoPrice}]
      /\ \A s \in Pairs : /\ candles[s].close # NoPrice => seen[s] \in Closes
                          /\ lastClose[s] \in Closes => seen[s] \in Closes
  <2>1. \A s \in Pairs : candles[s].close \in Closes \cup {NoPrice}  BY <1>2 DEF CandlesOf
  <2>2. QED  BY <1>3, <2>1 DEF NoPrice, Closes
<1> HIDE DEF seen, left
<1>5. Sound(left, seen)
  <2>1. Balanced(left) /\ \A p \in left.open : \E q \in account.open : p.symbol = q.symbol
    BY <1>2, <1>3, ExitsKeep DEF left
  <2>2. \A q \in account.open : q.symbol \in Pairs  BY <1>3 DEF Held
  <2>3. \A p \in left.open : seen[p.symbol] \in Closes
    BY <1>3, <1>4, <2>1, <2>2
  <2>4. QED  BY <2>1, <2>3 DEF Sound
<1>6. Sound(traded, seen)
  BY <1>2, <1>3, <1>4, <1>5, SignalsKeep
<1> HIDE DEF traded
<1>7. Sound(account, lastClose)'
  BY <1>1, <1>6 DEF Sound, Balanced
<1>8. ~(clock' > LastCandle)
  BY <1>1, <1>3, EngineAssumption
<1>9. QED  BY <1>1, <1>3, <1>4, <1>7, <1>8 DEF EngineInv

(* In the end everything is closed.                                          *)
LEMMA FinishKeeps ==
  ASSUME EngineInv, Finish
  PROVE  EngineInv'
<1> DEFINE Eq(g) == g = [s \in SUBSET account.open |->
                           IF s = {} THEN account
                           ELSE ClosePosition(g[s \ {FirstOf(s)}], FirstOf(s), lastClose[FirstOf(s).symbol])]
           r == FoldSet(LAMBDA p, a : ClosePosition(a, p, lastClose[p.symbol]), account, account.open)
<1>1. /\ clock = LastCandle /\ clock' = clock + 1 /\ setup' = setup
      /\ account' = r /\ lastClose' = lastClose
  BY DEF Finish
<1>2. /\ Balanced(account) /\ clock \in Int /\ setup \in [margin : BOOLEAN, multi : BOOLEAN]
      /\ lastClose \in [Pairs -> Closes \cup {NoPrice}]
      /\ \A p \in account.open : lastClose[p.symbol] \in Closes
      /\ account.open \subseteq Held /\ IsFiniteSet(account.open) /\ account \in Account
  BY BalancedFacts DEF EngineInv, Sound, Balanced
<1>3. r = (CHOOSE g : Eq(g))[account.open]
  BY DEF FoldSet, MapThenFoldSet, FirstOf
<1>4. \A g : Closing(account, lastClose, account.open, g) <=> Eq(g)
  BY DEF Closing
<1>5. PICK g : Closing(account, lastClose, account.open, g) /\ r = g[account.open]
  <2>1. \E g : Closing(account, lastClose, account.open, g)
    BY <1>2, ClosingExists
  <2> HIDE DEF Eq, r
  <2>2. QED  BY <1>3, <1>4, <2>1
<1> HIDE DEF r
<1>6. Balanced(r) /\ r.open = {}
  <2> DEFINE H == account.open
  <2>1. H \subseteq account.open /\ \A p \in H : lastClose[p.symbol] \in Closes
    BY <1>2
  <2>2. Balanced(account) /\ Closing(account, lastClose, H, g) /\ r = g[H]
    BY <1>2, <1>5
  <2> HIDE DEF H, Eq
  <2>3. Balanced(g[H]) /\ g[H].open = account.open \ H
    BY <2>1, <2>2, AllClosed
  <2>4. account.open \ H = {}  BY DEF H
  <2>5. QED  BY <2>2, <2>3, <2>4
<1>7. Sound(account, lastClose)'
  BY <1>1, <1>6 DEF Sound, Balanced
<1>8. QED  BY <1>1, <1>2, <1>6, <1>7 DEF EngineInv

(* Every step.                                                               *)
LEMMA EngineStep == EngineInv /\ [EngineNext]_engineVars => EngineInv'
<1> SUFFICES ASSUME EngineInv, [EngineNext]_engineVars PROVE EngineInv'
  OBVIOUS
<1>1. CASE Finish  BY <1>1, FinishKeeps
<1>2. CASE \E shape \in [Pairs -> UNION {Shapes[s] : s \in Pairs}], signals \in Signals :
             (\A s \in Pairs : shape[s] \in Shapes[s]) /\ Advance(shape, signals)
  BY <1>2, AdvanceKeeps
<1>3. CASE UNCHANGED engineVars
  BY <1>3 DEF EngineInv, Sound, Balanced, engineVars
<1>4. QED  BY <1>1, <1>2, <1>3 DEF EngineNext

(* What the invariant says of the account.                                    *)
LEMMA EngineSound == EngineInv => EngineBalances
<1> SUFFICES ASSUME EngineInv PROVE EngineBalances
  OBVIOUS
<1>1. Balanced(account)  BY DEF EngineInv, Sound
<1>2. IsFiniteSet(account.open) /\ \A p, q \in account.open : p.key = q.key => p = q
  BY <1>1 DEF Balanced
<1> DEFINE keys == {p.key : p \in account.open}
           f == [p \in account.open |-> p.key]
<1>3. ExistsBijection(account.open, keys)
  <2>1. f \in Bijection(account.open, keys)
    BY <1>2 DEF Bijection, Injection, Surjection, IsInjective
  <2>2. QED  BY <2>1 DEF ExistsBijection
<1>4. Cardinality(keys) = Cardinality(account.open)
  <2> HIDE DEF keys
  <2>1. QED  BY <1>2, <1>3, FS_Bijection
<1>5. QED  BY <1>1, <1>4 DEF EngineInv, EngineBalances, Balanced

-------------------------------------------------------------------------------
(* SimpleBacktester                                                         *)

Chosen == {"PULLBACK", "REBOUND", "ATTACK", "SHORT_BREAKDOWN", "SHORT_RALLY_FADE"}
Marks == {990, 1000, 1010, 1016}
Taken ==
  [market : Markets, entry : Marks, at : Int, value : Int, best : Int, short : BOOLEAN]
CostOf == [p \in Taken |-> p.value]

(* What is held at most once per symbol, and paid from a total.               *)
Booked(acc, total) ==
  /\ acc.cash \in Int /\ acc.holding \subseteq Taken /\ IsFiniteSet(acc.holding)
  /\ \A p, q \in acc.holding : p.market = q.market => p = q
  /\ acc.cash = total - SumOf(CostOf, acc.holding)

SimpleInv ==
  /\ chosen.strategy \in Chosen
  /\ stamp \in Int /\ earned \in Int /\ last \in [Markets -> Marks \cup {0}]
  /\ Booked([cash |-> cash, holding |-> holding], Cash + earned)
  /\ stamp > LastStamp => \A p \in holding : last[p.market] = 0
  /\ refused \subseteq {"PULLBACK"}

(* What positions cost is a sum.                                             *)
LEMMA CostIs ==
  ASSUME NEW S, S \subseteq Taken, IsFiniteSet(S)
  PROVE  /\ Value(S) = SumOf(CostOf, S)
         /\ SumOf(CostOf, S) \in Int
         /\ \A p \in S : CostOf[p] = p.value /\ CostOf[p] \in Int
<1>1. \A p \in S : CostOf[p] = p.value /\ CostOf[p] \in Int
  BY DEF CostOf, Taken
<1>2. Value(S) = SumOf(CostOf, S)
  BY <1>1, ValuesSum DEF Value
<1>3. SumOf(CostOf, S) \in Int
  BY <1>1, SumInt
<1>4. QED  BY <1>1, <1>2, <1>3

(* A number divided by an entry is a number.                                 *)
LEMMA ByEntry ==
  ASSUME NEW n \in Int, NEW e \in Marks
  PROVE  n \div e \in Int
<1>1. n \div 990 \in Int /\ n \div 1000 \in Int /\ n \div 1010 \in Int /\ n \div 1016 \in Int
  OBVIOUS
<1>2. QED  BY <1>1 DEF Marks

(* Gains and proceeds are numbers.                                           *)
LEMMA GainIs ==
  ASSUME NEW p \in Taken, NEW price \in Marks \cup {0}
  PROVE  Gain(p, price) \in Int /\ Proceeds(p, price) \in Int
<1>1. p.entry \in Marks /\ p.entry \in Int /\ p.value \in Int /\ price \in Int /\ p.short \in BOOLEAN
  BY DEF Taken, Marks
<1>2. Gain(p, price) \in Int
  <2>1. (p.entry - price) * 1000 \in Int /\ (price - p.entry) * 1000 \in Int  BY <1>1
  <2>2. ((p.entry - price) * 1000) \div p.entry \in Int /\ ((price - p.entry) * 1000) \div p.entry \in Int
    BY <1>1, <2>1, ByEntry
  <2>3. QED  BY <1>1, <2>2 DEF Gain
<1>3. Proceeds(p, price) \in Int
  <2>1. p.value * (p.entry - price) \in Int /\ p.value * price \in Int  BY <1>1
  <2>2. (p.value * (p.entry - price)) \div p.entry \in Int /\ (p.value * price) \div p.entry \in Int
    BY <1>1, <2>1, ByEntry
  <2>3. QED  BY <1>1, <2>2 DEF Proceeds
<1>4. QED  BY <1>2, <1>3

(* A profit is a sum of numbers.                                             *)
LEMMA ProfitIs ==
  ASSUME NEW S, S \subseteq Taken, IsFiniteSet(S), NEW price,
         \A p \in S : price[p.market] \in Marks \cup {0}
  PROVE  Profit(S, price) \in Int
<1> DEFINE W(p) == Proceeds(p, price[p.market]) - p.value
           r == [p \in S |-> W(p)]
           Eq(g) == g = [s \in SUBSET S |-> IF s = {} THEN 0
                                          ELSE W(FirstOf(s)) + g[s \ {FirstOf(s)}]]
<1>1. \A p \in S : r[p] = W(p) /\ r[p] \in Int
  <2>1. SUFFICES ASSUME NEW p \in S PROVE W(p) \in Int
    OBVIOUS
  <2>2. p \in Taken /\ p.value \in Int  BY DEF Taken
  <2>3. Proceeds(p, price[p.market]) \in Int  BY <2>2, GainIs
  <2>4. QED  BY <2>2, <2>3
<1>2. Profit(S, price) = (CHOOSE g : Eq(g))[S]
  BY DEF Profit, MapThenSumSet, MapThenFoldSet, FirstOf
<1> HIDE DEF W, r
<1>3. \A s \in SUBSET S : s # {} => r[FirstOf(s)] = W(FirstOf(s))
  BY <1>1 DEF FirstOf
<1>4. Eq(Summer(r, S))
  <2>1. IsSum(r, Summer(r, S), S)
    BY SummerExists
  <2> DEFINE h == Summer(r, S)
  <2>2. h = [s \in SUBSET S |-> IF s = {} THEN 0 ELSE r[FirstOf(s)] + h[s \ {FirstOf(s)}]]
    BY <2>1 DEF IsSum, StepOf, RestOf
  <2> HIDE DEF h
  <2>3. Eq(h)  BY <1>3, <2>2
  <2>4. QED  BY <2>3 DEF h
<1>5. PICK g : Eq(g) /\ Profit(S, price) = g[S]
  <2> HIDE DEF Eq
  <2>1. QED  BY <1>2, <1>4
<1>6. \A s \in SUBSET S : g[s] = IF s = {} THEN 0 ELSE r[FirstOf(s)] + g[s \ {FirstOf(s)}]
  BY <1>3, <1>5
<1>7. g = [s \in SUBSET S |-> g[s]]  BY <1>5
<1> HIDE DEF Eq
<1>8. g[S] = SumOf(r, S)  BY <1>6, <1>7, SumUnfolded
<1>9. \A p \in S : r[p] \in Int  BY <1>1
<1>10. SumOf(r, S) \in Int  BY <1>9, SumInt
<1>11. QED  BY <1>5, <1>8, <1>10

(* A symbol is given its share of what cash there is.                        *)
OpenOne(acc, s, signals, price) ==
  LET value == (acc.cash * Setting[chosen.strategy].percent) \div 100
  IN  IF s \notin signals \/ price[s] = 0 \/ acc.cash < value THEN acc
      ELSE [cash |-> acc.cash - value,
            holding |-> acc.holding \cup
              {[market |-> s, entry |-> price[s], at |-> stamp, value |-> value,
                best |-> 0, short |-> Short(chosen.strategy)]}]

(* One symbol after the other.                                               *)
LEMMA OpenInTurn ==
  ASSUME NEW acc, NEW signals, NEW price
  PROVE  OpenAll(acc, signals, price) = OpenOne(OpenOne(acc, 1, signals, price), 2, signals, price)
<1> DEFINE o(a, i) == OpenOne(a, i, signals, price)
           seq == <<1, 2>>
           Eq(g) == g = [s \in SUBSET {1, 2} |-> IF s = {} THEN acc ELSE o(g[s \ {Max(s)}], Max(s))]
           f == [s \in SUBSET {1, 2} |-> IF s = {} THEN acc
                                         ELSE IF s = {1} THEN o(acc, 1)
                                         ELSE IF s = {2} THEN o(acc, 2) ELSE o(o(acc, 1), 2)]
<1>1. DOMAIN seq = {1, 2} /\ seq[1] = 1 /\ seq[2] = 2  OBVIOUS
<1>2. Max({1}) = 1 /\ Max({2}) = 2 /\ Max({1, 2}) = 2
  <2>1. Max({1, 1}) = 1 /\ Max({2, 2}) = 2 /\ Max({1, 2}) = 2  BY MinMaxOfTwo
  <2>2. {1, 1} = {1} /\ {2, 2} = {2}  OBVIOUS
  <2>3. QED  BY <2>1, <2>2
<1>3. \A s \in SUBSET {1, 2} : s = {} \/ s = {1} \/ s = {2} \/ s = {1, 2}
  OBVIOUS
<1>4. \A s \in SUBSET {1, 2} : s # {} => Max(s) \in {1, 2} /\ seq[Max(s)] = Max(s)
  <2>1. ASSUME NEW s \in SUBSET {1, 2}, s # {} PROVE Max(s) \in {1, 2}
    <3>1. CASE s = {1}  BY <1>2, <3>1
    <3>2. CASE s = {2}  BY <1>2, <3>2
    <3>3. CASE s = {1, 2}  BY <1>2, <3>3
    <3>4. QED  BY <1>3, <2>1, <3>1, <3>2, <3>3
  <2> HIDE DEF seq
  <2>2. QED  BY <1>1, <2>1
<1>5. OpenAll(acc, signals, price)
        = (CHOOSE g : g = [s \in SUBSET DOMAIN seq |->
                             IF s = {} THEN acc ELSE o(g[s \ {Max(s)}], seq[Max(s)])])[DOMAIN seq]
  BY DEF OpenAll, OpenOne, FoldLeft, MapThenFoldSet
<1> HIDE DEF o, seq
<1>6. OpenAll(acc, signals, price) = (CHOOSE g : Eq(g))[{1, 2}]
  <2> DEFINE Raw(g) == g = [s \in SUBSET DOMAIN seq |->
                             IF s = {} THEN acc ELSE o(g[s \ {Max(s)}], seq[Max(s)])]
  <2>1. \A g : Raw(g) <=> Eq(g)
    <3>1. ASSUME NEW g
          PROVE  [s \in SUBSET DOMAIN seq |-> IF s = {} THEN acc ELSE o(g[s \ {Max(s)}], seq[Max(s)])]
                   = [s \in SUBSET {1, 2} |-> IF s = {} THEN acc ELSE o(g[s \ {Max(s)}], Max(s))]
      BY <1>1, <1>4
    <3>2. QED  BY <3>1
  <2>2. OpenAll(acc, signals, price) = (CHOOSE g : Raw(g))[{1, 2}]
    BY <1>1, <1>5
  <2> HIDE DEF Raw, Eq
  <2>3. (CHOOSE g : Raw(g)) = (CHOOSE g : Eq(g))
    BY <2>1
  <2>4. QED  BY <2>2, <2>3
<1>7. Eq(f)
  <2>1. /\ f[{}] = acc /\ f[{1}] = o(acc, 1) /\ f[{2}] = o(acc, 2) /\ f[{1, 2}] = o(o(acc, 1), 2)
        /\ f = [s \in SUBSET {1, 2} |-> f[s]]
    OBVIOUS
  <2> HIDE DEF f
  <2>2. {1} \ {1} = {} /\ {2} \ {2} = {} /\ {1, 2} \ {2} = {1}
    OBVIOUS
  <2>3. \A s \in SUBSET {1, 2} : f[s] = IF s = {} THEN acc ELSE o(f[s \ {Max(s)}], Max(s))
    <3>1. f[{1}] = o(f[{1} \ {Max({1})}], Max({1}))  BY <1>2, <2>1, <2>2
    <3>2. f[{2}] = o(f[{2} \ {Max({2})}], Max({2}))  BY <1>2, <2>1, <2>2
    <3>3. f[{1, 2}] = o(f[{1, 2} \ {Max({1, 2})}], Max({1, 2}))  BY <1>2, <2>1, <2>2
    <3>4. QED  BY <1>3, <2>1, <3>1, <3>2, <3>3
  <2>4. QED  BY <2>1, <2>3
<1>8. PICK g : Eq(g) /\ OpenAll(acc, signals, price) = g[{1, 2}]
  <2> HIDE DEF Eq
  <2>1. QED  BY <1>6, <1>7
<1>9. g[{}] = acc /\ g[{1}] = o(g[{}], 1) /\ g[{1, 2}] = o(g[{1}], 2)
  <2>1. {1} \ {1} = {} /\ {1, 2} \ {2} = {1} /\ {1} # {} /\ {1, 2} # {}
    OBVIOUS
  <2>2. \A s \in SUBSET {1, 2} : g[s] = IF s = {} THEN acc ELSE o(g[s \ {Max(s)}], Max(s))
    BY <1>8
  <2>3. QED  BY <1>2, <2>1, <2>2
<1>10. QED  BY <1>8, <1>9 DEF o

(* What positions cost, in two parts.                                        *)
LEMMA CostSplit ==
  ASSUME NEW S, S \subseteq Taken, IsFiniteSet(S), NEW P, P \subseteq S
  PROVE  SumOf(CostOf, S) = SumOf(CostOf, P) + SumOf(CostOf, S \ P)
<1>1. \A p \in S : CostOf[p] \in Int  BY CostIs
<1>2. QED  BY <1>1, SumSplit

(* What is opened is paid for, once per symbol.                               *)
LEMMA OneOpened ==
  ASSUME NEW acc, NEW total \in Int, Booked(acc, total), NEW s \in Markets, NEW signals,
         s \in signals => \A p \in acc.holding : p.market # s,
         NEW price \in [Markets -> Marks \cup {0}], chosen.strategy \in Chosen, stamp \in Int
  PROVE  /\ Booked(OpenOne(acc, s, signals, price), total)
         /\ \A p \in OpenOne(acc, s, signals, price).holding : p \in acc.holding \/ p.market = s
<1> DEFINE c == OpenOne(acc, s, signals, price)
           value == (acc.cash * Setting[chosen.strategy].percent) \div 100
           not == s \notin signals \/ price[s] = 0 \/ acc.cash < value
           new == [market |-> s, entry |-> price[s], at |-> stamp, value |-> value,
                   best |-> 0, short |-> Short(chosen.strategy)]
<1>1. CASE not
  BY <1>1 DEF OpenOne
<1>2. CASE ~not
  <2>1. acc.cash \in Int /\ acc.holding \subseteq Taken /\ IsFiniteSet(acc.holding)
    BY DEF Booked
  <2>2. PICK n \in Int : n = value
    <3>1. Setting[chosen.strategy].percent \in {10, 12, 15, 20}
      BY DEF Setting, Chosen
    <3>2. acc.cash * 10 \in Int /\ acc.cash * 12 \in Int /\ acc.cash * 15 \in Int /\ acc.cash * 20 \in Int
      BY <2>1
    <3>3. acc.cash * Setting[chosen.strategy].percent \in Int  BY <3>1, <3>2
    <3>4. QED  BY <3>3
  <2>3. /\ c.cash = acc.cash - n /\ c.holding = acc.holding \cup {new}
        /\ s \in signals /\ price[s] \in Marks
    BY <1>2, <2>2 DEF OpenOne
  <2>4. new \in Taken /\ new.market = s /\ new.value = n
    <3>1. Short(chosen.strategy) \in BOOLEAN  BY DEF Short
    <3>2. QED  BY <2>2, <2>3, <3>1 DEF Taken
  <2> HIDE DEF c, new, value
  <2>5. new \notin acc.holding /\ \A p \in acc.holding : p.market # new.market
    BY <2>3, <2>4
  <2>6. c.holding \subseteq Taken  BY <2>1, <2>3, <2>4
  <2>7. SumOf(CostOf, c.holding) = n + SumOf(CostOf, acc.holding) /\ IsFiniteSet(c.holding)
    <3>1. \A p \in c.holding : CostOf[p] = p.value /\ CostOf[p] \in Int
      BY <2>6 DEF CostOf, Taken
    <3>2. \A p \in acc.holding \cup {new} : CostOf[p] \in Int  BY <2>3, <3>1
    <3>3. /\ SumOf(CostOf, acc.holding \cup {new}) = CostOf[new] + SumOf(CostOf, acc.holding)
          /\ IsFiniteSet(acc.holding \cup {new})
      BY <2>1, <2>5, <3>2, SumPutIn
    <3>4. CostOf[new] = n  BY <2>3, <2>4, <3>1
    <3>5. QED  BY <2>3, <3>3, <3>4
  <2>8. SumOf(CostOf, acc.holding) \in Int  BY <2>1, CostIs
  <2>9. c.cash \in Int /\ c.cash = total - SumOf(CostOf, c.holding)
    <3>1. acc.cash = total - SumOf(CostOf, acc.holding)  BY DEF Booked
    <3>2. QED  BY <2>1, <2>3, <2>7, <2>8, <3>1
  <2>10. \A p, q \in c.holding : p.market = q.market => p = q
    BY <2>3, <2>5 DEF Booked
  <2>11. Booked(c, total)
    BY <2>6, <2>7, <2>9, <2>10 DEF Booked
  <2>12. \A p \in c.holding : p \in acc.holding \/ p.market = s
    BY <2>3, <2>4
  <2>13. QED  BY <2>11, <2>12 DEF c
<1>3. QED  BY <1>1, <1>2

(* All that is opened is.                                                    *)
LEMMA AllOpened ==
  ASSUME NEW acc, NEW total \in Int, Booked(acc, total), NEW signals, signals \subseteq Markets,
         \A s \in signals : \A p \in acc.holding : p.market # s,
         NEW price \in [Markets -> Marks \cup {0}], chosen.strategy \in Chosen, stamp \in Int
  PROVE  Booked(OpenAll(acc, signals, price), total)
<1> DEFINE first == OpenOne(acc, 1, signals, price)
<1>1. 1 \in Markets /\ 2 \in Markets /\ 1 # 2  BY DEF Markets
<1>2. Booked(first, total) /\ \A p \in first.holding : p \in acc.holding \/ p.market = 1
  <2>1. 1 \in signals => \A p \in acc.holding : p.market # 1  OBVIOUS
  <2>2. QED  BY <1>1, <2>1, OneOpened
<1> HIDE DEF first
<1>3. 2 \in signals => \A p \in first.holding : p.market # 2
  BY <1>1, <1>2
<1>4. Booked(OpenOne(first, 2, signals, price), total)
  BY <1>1, <1>2, <1>3, OneOpened
<1>5. OpenAll(acc, signals, price) = OpenOne(first, 2, signals, price)
  BY OpenInTurn DEF first
<1>6. QED  BY <1>4, <1>5

(* Noting the best gain of some positions changes nothing else.               *)
LEMMA BestNoted ==
  ASSUME NEW H, H \subseteq Taken, IsFiniteSet(H), \A p, q \in H : p.market = q.market => p = q,
         NEW P, P \subseteq H, NEW best, \A p \in P : best[p] \in Int
  PROVE  LET N == NotedAs(P, best)
         IN  /\ N \subseteq Taken /\ IsFiniteSet(N) /\ SumOf(CostOf, N) = SumOf(CostOf, P)
             /\ N \cap (H \ P) = {}
             /\ \A p \in N : \E q \in P : p.market = q.market
             /\ \A p, q \in (H \ P) \cup N : p.market = q.market => p = q
<1> DEFINE f == [p \in P |-> [p EXCEPT !.best = best[p]]]
           N == NotedAs(P, best)
           rest == H \ P
<1>1. \A p \in P : f[p] \in Taken /\ f[p].market = p.market /\ f[p].value = p.value
  BY DEF Taken
<1>2. N = {f[p] : p \in P}  BY DEF NotedAs
<1>3. P \subseteq Taken /\ rest \subseteq Taken /\ IsFiniteSet(P) /\ \A p \in rest : p \in H /\ p \notin P
  BY FS_Subset
<1> HIDE DEF f, N, rest
<1>4. \A p, q \in P : f[p] = f[q] => p = q
  <2>1. ASSUME NEW p \in P, NEW q \in P, f[p] = f[q] PROVE p = q
    <3>1. p.market = q.market  BY <1>1, <2>1
    <3>2. QED  BY <3>1
  <2>2. QED  BY <2>1
<1>5. N \subseteq Taken  BY <1>1, <1>2
<1>6. SumOf(CostOf, N) = SumOf(CostOf, P) /\ IsFiniteSet(N)
  <2>1. \A p \in P : CostOf[p] \in Int /\ CostOf[f[p]] = CostOf[p]
    <3>1. \A p \in Taken : CostOf[p] = p.value /\ p.value \in Int  BY DEF CostOf, Taken
    <3>2. QED  BY <1>1, <1>3, <3>1
  <2>2. SumOf(CostOf, {f[p] : p \in P}) = SumOf(CostOf, P) /\ IsFiniteSet({f[p] : p \in P})
    BY <1>3, <1>4, <2>1, SumImage
  <2>3. QED  BY <1>2, <2>2
<1>7. \A p \in N : \E q \in P : p = f[q] /\ p.market = q.market
  BY <1>1, <1>2
<1>8. N \cap rest = {}
  <2>1. ASSUME NEW p \in N, p \in rest PROVE FALSE
    <3>1. PICK q \in P : p.market = q.market  BY <1>7
    <3>2. p = q  BY <1>3, <2>1, <3>1
    <3>3. QED  BY <1>3, <2>1, <3>2
  <2>2. QED  BY <2>1
<1>9. \A p, q \in rest \cup N : p.market = q.market => p = q
  <2>1. \A p \in rest \cup N : \E u \in H : p.market = u.market /\ (IF u \in P THEN p = f[u] ELSE p = u)
    BY <1>3, <1>7
  <2>2. QED  BY <2>1
<1>10. QED  BY <1>5, <1>6, <1>7, <1>8, <1>9 DEF N, rest

(* What leaves brings its cost and its profit.                               *)
LEMMA ExitsBooked ==
  ASSUME NEW money, NEW H, NEW total \in Int, Booked([cash |-> money, holding |-> H], total),
         NEW P, P \subseteq H, NEW best, \A p \in P : best[p] \in Int,
         NEW C, C \subseteq NotedAs(P, best), NEW profit \in Int
  PROVE  LET kept == (H \ P) \cup (NotedAs(P, best) \ C)
         IN  /\ Booked([cash |-> money + Value(C) + profit, holding |-> kept], total + profit)
             /\ C \subseteq Taken /\ IsFiniteSet(C)
<1> DEFINE N == NotedAs(P, best)
           rest == H \ P
           stay == N \ C
           kept == rest \cup stay
<1>1. /\ money \in Int /\ H \subseteq Taken /\ IsFiniteSet(H)
      /\ \A p, q \in H : p.market = q.market => p = q
      /\ money = total - SumOf(CostOf, H)
  BY DEF Booked
<1>2. /\ N \subseteq Taken /\ IsFiniteSet(N) /\ SumOf(CostOf, N) = SumOf(CostOf, P)
      /\ N \cap rest = {}
      /\ \A p, q \in rest \cup N : p.market = q.market => p = q
  <2>1. /\ H \subseteq Taken /\ IsFiniteSet(H)
        /\ \A p, q \in H : p.market = q.market => p = q
    BY <1>1
  <2>2. /\ NotedAs(P, best) \subseteq Taken /\ IsFiniteSet(NotedAs(P, best))
        /\ SumOf(CostOf, NotedAs(P, best)) = SumOf(CostOf, P)
        /\ NotedAs(P, best) \cap (H \ P) = {}
        /\ \A p, q \in (H \ P) \cup NotedAs(P, best) : p.market = q.market => p = q
    BY <2>1, BestNoted
  <2>3. QED  BY <2>2
<1> HIDE DEF N
<1>3. IsFiniteSet(rest) /\ IsFiniteSet(stay) /\ IsFiniteSet(C) /\ C \subseteq Taken /\ C \subseteq N
  BY <1>1, <1>2, FS_Subset DEF N
<1>4. SumOf(CostOf, H) = SumOf(CostOf, P) + SumOf(CostOf, rest)
  BY <1>1, CostSplit
<1>5. SumOf(CostOf, N) = SumOf(CostOf, C) + SumOf(CostOf, stay)
  BY <1>2, <1>3, CostSplit
<1>6. kept \subseteq Taken /\ stay \subseteq kept /\ kept \ stay = rest
  BY <1>1, <1>2
<1>7. \A p, q \in kept : p.market = q.market => p = q
  <2>1. kept \subseteq rest \cup N  OBVIOUS
  <2> HIDE DEF kept, rest
  <2>2. QED  BY <1>2, <2>1
<1>8. IsFiniteSet(kept)
  <2> HIDE DEF rest, stay
  <2>1. QED  BY <1>3, FS_Union
<1> HIDE DEF kept, stay, rest
<1>9. SumOf(CostOf, kept) = SumOf(CostOf, stay) + SumOf(CostOf, rest)
  <2>1. SumOf(CostOf, kept) = SumOf(CostOf, stay) + SumOf(CostOf, kept \ stay)
    BY <1>6, <1>8, CostSplit
  <2>2. QED  BY <1>6, <2>1
<1>10. Value(C) = SumOf(CostOf, C) /\ SumOf(CostOf, C) \in Int
  BY <1>3, CostIs
<1>11. SumOf(CostOf, stay) \in Int /\ SumOf(CostOf, rest) \in Int /\ SumOf(CostOf, kept) \in Int
  <2>1. stay \subseteq Taken /\ rest \subseteq Taken  BY <1>6 DEF kept
  <2>2. QED  BY <1>3, <1>6, <1>8, <2>1, CostIs
<1>12. PICK money2 \in Int : money2 = money + Value(C) + profit
  BY <1>1, <1>10
<1>13. money2 = (total + profit) - SumOf(CostOf, kept)
  BY <1>1, <1>2, <1>4, <1>5, <1>9, <1>10, <1>11, <1>12
<1>14. Booked([cash |-> money2, holding |-> kept], total + profit)
  <2> DEFINE acc == [cash |-> money2, holding |-> kept]
  <2>1. acc.cash = money2 /\ acc.holding = kept  OBVIOUS
  <2> HIDE DEF acc
  <2>2. acc.cash \in Int /\ acc.cash = (total + profit) - SumOf(CostOf, acc.holding)
    BY <1>12, <1>13, <2>1
  <2>3. /\ acc.holding \subseteq Taken /\ IsFiniteSet(acc.holding)
        /\ \A p, q \in acc.holding : p.market = q.market => p = q
    BY <1>6, <1>7, <1>8, <2>1
  <2>4. Booked(acc, total + profit)
    BY <2>2, <2>3 DEF Booked
  <2>5. QED  BY <2>4 DEF acc
<1>15. QED  BY <1>3, <1>12, <1>14 DEF kept, stay, rest, N

(* Whoever meets the conditions of a strategy other than PULLBACK has its     *)
(* score.                                                                    *)
LEMMA ScoreFollows ==
  ASSUME NEW g \in Chosen \ {"PULLBACK"}, NEW m \in Measures(g), Conditions(g, m)
  PROVE  Score(g, m) >= Setting[g].score
<1>1. CASE g = "REBOUND"
  <2>1. m.drop \in {29, 30} /\ m.rvol \in {0, 19, 20, 60}  BY <1>1 DEF Measures
  <2>2. m.drop >= 30 /\ m.rvol >= 20  BY <1>1 DEF Conditions
  <2>3. Min({m.rvol, 50}) \in Nat  BY <2>1, MinMaxOfTwo
  <2>4. Score(g, m) = 700 + 5 * m.drop + 3 * Min({m.rvol, 50})  BY <1>1 DEF Score
  <2>5. Setting[g].score = 700  BY <1>1 DEF Setting
  <2>6. QED  BY <2>1, <2>2, <2>3, <2>4, <2>5
<1>2. CASE g = "ATTACK"
  <2>1. m.breakout \in {14, 15, 45, 46} /\ m.rvol \in {0, 24, 25, 60}  BY <1>2 DEF Measures
  <2>2. m.breakout \in 15..45 /\ m.rvol >= 25  BY <1>2 DEF Conditions
  <2>3. Min({m.rvol, 50}) \in {m.rvol, 50}  BY <2>1, MinMaxOfTwo
  <2>4. Score(g, m) = 600 + 4 * m.breakout + 4 * Min({m.rvol, 50})  BY <1>2 DEF Score
  <2>5. Setting[g].score = 720  BY <1>2 DEF Setting
  <2>6. QED  BY <2>1, <2>2, <2>3, <2>4, <2>5
<1>3. CASE g = "SHORT_BREAKDOWN"
  <2>1. m.drop \in {14, 15} /\ m.rvol \in {0, 14, 15}  BY <1>3 DEF Measures
  <2>2. Min({m.rvol, 40}) \in Nat  BY <2>1, MinMaxOfTwo
  <2>3. Score(g, m) = 600 + 5 * m.drop + 5 * Min({m.rvol, 40})  BY <1>3 DEF Score
  <2>4. Setting[g].score = 600  BY <1>3 DEF Setting
  <2>5. QED  BY <2>1, <2>2, <2>3, <2>4
<1>4. CASE g = "SHORT_RALLY_FADE"
  <2>1. m.rally \in {69, 70} /\ m.fade \in {29, 30} /\ m.rsi \in {51, 52, 66}  BY <1>4 DEF Measures
  <2>2. m.rally >= 70 /\ m.fade >= 30  BY <1>4 DEF Conditions
  <2>3. If(m.rsi > 65, 120) \in Nat  BY DEF If
  <2>4. Score(g, m) = 600 + 3 * m.fade + (3 * m.rally) \div 2 + If(m.rsi > 65, 120)  BY <1>4 DEF Score
  <2>5. Setting[g].score = 780  BY <1>4 DEF Setting
  <2>6. m.rally = 70 /\ m.fade = 30  BY <2>1, <2>2
  <2>7. (3 * m.rally) \div 2 = 105  BY <2>6
  <2>8. QED  BY <2>3, <2>4, <2>5, <2>6, <2>7
<1>5. QED  BY <1>1, <1>2, <1>3, <1>4 DEF Chosen

(* Each strategy may measure what makes it signal and what does not.         *)
LEMMA TypicalMeasures ==
  ASSUME NEW g \in Chosen
  PROVE  Typical[g] \subseteq Measures(g)
<1> DEFINE signals(m) == Conditions(g, m) /\ Score(g, m) >= Setting[g].score
           yes == CHOOSE m \in Measures(g) : signals(m)
           no == CHOOSE m \in Measures(g) : ~signals(m)
           idle(m) == m.enough = FALSE
<1>1. \E m \in Measures(g) : ~signals(m)
  <2>1. \E m \in Measures(g) : m.enough = FALSE
    <3>1. CASE g = "PULLBACK"
      <4> DEFINE m == [enough |-> FALSE, trend |-> "BULLISH", band |-> "near", rsi |-> 27,
                       candle |-> "up", body |-> 45, hist |-> 1]
      <4>1. m \in Measures(g) /\ m.enough = FALSE  BY <3>1 DEF Measures, Trends
      <4>2. QED  BY <4>1
    <3>2. CASE g = "REBOUND"
      <4> DEFINE m == [enough |-> FALSE, trend |-> "BULLISH", drop |-> 30, rvol |-> 20, rsi |-> 30,
                       wick |-> 25]
      <4>1. m \in Measures(g) /\ m.enough = FALSE  BY <3>2 DEF Measures, Trends
      <4>2. QED  BY <4>1
    <3>3. CASE g = "ATTACK"
      <4> DEFINE m == [enough |-> FALSE, trend |-> "BULLISH", breakout |-> 15, rvol |-> 25,
                       candle |-> "up", body |-> 50, rsi |-> 75]
      <4>1. m \in Measures(g) /\ m.enough = FALSE  BY <3>3 DEF Measures, Trends
      <4>2. QED  BY <4>1
    <3>4. CASE g = "SHORT_BREAKDOWN"
      <4> DEFINE m == [enough |-> FALSE, trend |-> "BULLISH", drop |-> 15, rvol |-> 15, rsi |-> 70,
                       candle |-> "down", macd |-> 0]
      <4>1. m \in Measures(g) /\ m.enough = FALSE  BY <3>4 DEF Measures, Trends
      <4>2. QED  BY <4>1
    <3>5. CASE g = "SHORT_RALLY_FADE"
      <4> DEFINE m == [enough |-> FALSE, trend |-> "BULLISH", rally |-> 70, fade |-> 30, rsi |-> 52,
                       candle |-> "down", body |-> 45, bearish |-> 2, hist |-> 0]
      <4>1. m \in Measures(g) /\ m.enough = FALSE  BY <3>5 DEF Measures, Trends
      <4>2. QED  BY <4>1
    <3>6. QED  BY <3>1, <3>2, <3>3, <3>4, <3>5 DEF Chosen
  <2>2. \A m : m.enough = FALSE => ~signals(m)  BY DEF Conditions
  <2>3. QED  BY <2>1, <2>2
<1>2. \E m \in Measures(g) : signals(m)
  <2>1. CASE g = "PULLBACK"
    <3> DEFINE m == [enough |-> TRUE, trend |-> "BULLISH", band |-> "near", rsi |-> 27,
                     candle |-> "up", body |-> 45, hist |-> 1]
    <3>1. m \in Measures(g)  BY <2>1 DEF Measures, Trends
    <3>2. Conditions(g, m)  BY <2>1 DEF Conditions
    <3>3. Score(g, m) = 600 + 200 + 0 + 100  BY <2>1 DEF Score, If
    <3>4. Setting[g].score = 750  BY <2>1 DEF Setting
    <3>5. QED  BY <3>1, <3>2, <3>3, <3>4
  <2>2. CASE g # "PULLBACK"
    <3>1. \E m \in Measures(g) : Conditions(g, m)
      <4>1. CASE g = "REBOUND"
        <5> DEFINE m == [enough |-> TRUE, trend |-> "BULLISH", drop |-> 30, rvol |-> 20, rsi |-> 30,
                         wick |-> 25]
        <5>1. m \in Measures(g) /\ Conditions(g, m)  BY <4>1 DEF Measures, Trends, Conditions
        <5>2. QED  BY <5>1
      <4>2. CASE g = "ATTACK"
        <5> DEFINE m == [enough |-> TRUE, trend |-> "BULLISH", breakout |-> 15, rvol |-> 25,
                         candle |-> "up", body |-> 50, rsi |-> 75]
        <5>1. m \in Measures(g) /\ Conditions(g, m)  BY <4>2 DEF Measures, Trends, Conditions
        <5>2. QED  BY <5>1
      <4>3. CASE g = "SHORT_BREAKDOWN"
        <5> DEFINE m == [enough |-> TRUE, trend |-> "BULLISH", drop |-> 15, rvol |-> 15, rsi |-> 70,
                         candle |-> "down", macd |-> 0]
        <5>1. m \in Measures(g) /\ Conditions(g, m)  BY <4>3 DEF Measures, Trends, Conditions
        <5>2. QED  BY <5>1
      <4>4. CASE g = "SHORT_RALLY_FADE"
        <5> DEFINE m == [enough |-> TRUE, trend |-> "BULLISH", rally |-> 70, fade |-> 30, rsi |-> 52,
                         candle |-> "down", body |-> 45, bearish |-> 2, hist |-> 0]
        <5>1. m \in Measures(g) /\ Conditions(g, m)  BY <4>4 DEF Measures, Trends, Conditions
        <5>2. QED  BY <5>1
      <4>5. QED  BY <2>2, <4>1, <4>2, <4>3, <4>4 DEF Chosen
    <3>2. PICK m \in Measures(g) : Conditions(g, m)  BY <3>1
    <3>3. Score(g, m) >= Setting[g].score  BY <2>2, <3>2, ScoreFollows
    <3>4. QED  BY <3>2, <3>3
  <2>3. QED  BY <2>1, <2>2
<1> DEFINE M == Measures(g)
<1>3. Typical[g] = {yes, no}
  BY DEF Typical, Setting, Chosen
<1> HIDE DEF signals
<1>4. yes \in M /\ no \in M
  <2> HIDE DEF M
  <2>1. \E m \in M : signals(m)  BY <1>2 DEF M
  <2>2. \E m \in M : ~signals(m)  BY <1>1 DEF M
  <2> DEFINE y == CHOOSE m \in M : signals(m)
             n == CHOOSE m \in M : ~signals(m)
  <2>3. y \in M  BY <2>1
  <2>4. n \in M  BY <2>2
  <2>5. QED  BY <2>3, <2>4 DEF M
<1>5. QED  BY <1>3, <1>4

(* What a strategy measures now is among what it may measure.                *)
LEMMA MeasuredNow ==
  ASSUME chosen.strategy \in Chosen
  PROVE  MeasuresNow \subseteq Measures(chosen.strategy)
BY TypicalMeasures DEF MeasuresNow

(* It starts with its cash and nothing held.                                 *)
LEMMA InitSimple == SimpleInit => SimpleInv
<1> SUFFICES ASSUME SimpleInit PROVE SimpleInv
  OBVIOUS
<1>1. Cash \in Nat /\ LastStamp \in Nat  BY SimpleAssumption
<1>2. chosen.strategy \in Chosen
  <2>1. \A s \in DOMAIN MainExits : s \in Chosen  BY DEF MainExits, Chosen
  <2>2. \A t \in Trends : ActiveIn(t) \subseteq Chosen  BY DEF ActiveIn, Trends, Chosen
  <2>3. \A c \in MainTest : c.strategy \in Chosen  BY <2>1 DEF MainTest
  <2>4. \A c \in AdaptiveTest : c.strategy \in Chosen  BY <2>2 DEF AdaptiveTest
  <2>5. \A c \in WeeklyTest : c.strategy \in Chosen  BY DEF WeeklyTest, Chosen
  <2>6. QED  BY <2>3, <2>4, <2>5 DEF SimpleInit
<1>3. /\ stamp = 0 /\ cash = Cash /\ holding = {} /\ earned = 0
      /\ last = [s \in Markets |-> 0] /\ refused = {}
  BY DEF SimpleInit
<1>4. Booked([cash |-> cash, holding |-> holding], Cash + earned)
  <2>1. SumOf(CostOf, holding) = 0 /\ IsFiniteSet(holding)  BY <1>3, FS_EmptySet, SumStep
  <2>2. cash \in Int /\ cash = (Cash + earned) - SumOf(CostOf, holding)  BY <1>1, <1>3, <2>1
  <2>3. QED  BY <1>3, <2>1, <2>2 DEF Booked
<1>5. QED  BY <1>1, <1>2, <1>3, <1>4 DEF SimpleInv

(* One time stamp.                                                           *)
LEMMA TradeKeeps ==
  ASSUME SimpleInv, NEW price \in [Markets -> Marks \cup {0}], NEW m \in MeasuresNow,
         NEW showing, showing \subseteq Markets, Trade(price, m, showing)
  PROVE  SimpleInv'
<1> DEFINE priced == {p \in holding : price[p.market] # 0}
           best == [p \in priced |-> Max({p.best, Gain(p, price[p.market])})]
           noted == {[p EXCEPT !.best = Max({p.best, Gain(p, price[p.market])})] : p \in priced}
           closed == {p \in noted : Leaves(p, price[p.market], p.best)}
           kept == (holding \ priced) \cup (noted \ closed)
           wanted == {s \in showing : /\ \A p \in kept : p.market # s
                                     /\ Minutes(stamp - lastEntry[s]) >= Setting[chosen.strategy].cooldown
                                     /\ Conditions(chosen.strategy, m)}
           scored == Score(chosen.strategy, m) >= Setting[chosen.strategy].score
           signals == IF wanted # {} /\ scored THEN wanted ELSE {}
           profit == Profit(closed, price)
           mid == [cash |-> cash + Value(closed) + profit, holding |-> kept]
           after == OpenAll(mid, First(signals), price)
<1>1. /\ stamp < LastStamp /\ stamp' = stamp + 1 /\ cash' = after.cash /\ holding' = after.holding
      /\ earned' = earned + profit /\ last' = price /\ chosen' = chosen
      /\ refused' = IF wanted # {} /\ signals = {} THEN refused \cup {chosen.strategy} ELSE refused
  BY DEF Trade
<1>2. /\ chosen.strategy \in Chosen /\ stamp \in Int /\ earned \in Int
      /\ Booked([cash |-> cash, holding |-> holding], Cash + earned)
      /\ refused \subseteq {"PULLBACK"} /\ Cash \in Nat /\ LastStamp \in Nat
  BY SimpleAssumption DEF SimpleInv
<1>3. holding \subseteq Taken  BY <1>2 DEF Booked
<1>4. \A p \in priced : best[p] \in Int
  <2>1. ASSUME NEW p \in priced PROVE Max({p.best, Gain(p, price[p.market])}) \in Int
    <3>1. p \in Taken /\ p.best \in Int /\ price[p.market] \in Marks \cup {0}  BY <1>3 DEF Taken
    <3>2. Gain(p, price[p.market]) \in Int  BY <3>1, GainIs
    <3>3. QED  BY <3>1, <3>2, MinMaxOfTwo
  <2>2. QED  BY <2>1
<1>5. noted = NotedAs(priced, best)  BY DEF NotedAs
<1>6. priced \subseteq holding /\ closed \subseteq noted /\ First(signals) \subseteq signals /\ signals \subseteq wanted
  BY DEF First
<1>7. /\ wanted \subseteq Markets /\ \A s \in wanted : \A p \in kept : p.market # s
  OBVIOUS
<1>8. refused' \subseteq {"PULLBACK"}
  <2>1. m \in Measures(chosen.strategy)  BY <1>2, MeasuredNow
  <2>2. wanted # {} => Conditions(chosen.strategy, m)  OBVIOUS
  <2>3. wanted # {} /\ chosen.strategy # "PULLBACK" => scored
    BY <1>2, <2>1, <2>2, ScoreFollows
  <2> HIDE DEF wanted, scored
  <2>4. QED  BY <1>1, <1>2, <2>3
<1> HIDE DEF best, noted, priced, closed, wanted, signals
<1>9. closed \subseteq Taken /\ IsFiniteSet(closed)
  <2>1. closed \subseteq NotedAs(priced, best)  BY <1>5, <1>6
  <2>2. /\ holding \subseteq Taken /\ IsFiniteSet(holding)
        /\ \A p, q \in holding : p.market = q.market => p = q
    BY <1>2 DEF Booked
  <2>3. NotedAs(priced, best) \subseteq Taken /\ IsFiniteSet(NotedAs(priced, best))
    BY <1>4, <1>6, <2>2, BestNoted
  <2>4. QED  BY <2>1, <2>3, FS_Subset
<1>10. profit \in Int
  <2>1. \A p \in closed : price[p.market] \in Marks \cup {0}  BY <1>9 DEF Taken
  <2>2. QED  BY <1>9, <2>1, ProfitIs
<1>11. Cash + earned \in Int /\ (Cash + earned) + profit \in Int /\ (Cash + earned) + profit = Cash + (earned + profit)
  BY <1>2, <1>10
<1> HIDE DEF profit
<1>12. Booked(mid, (Cash + earned) + profit)
  <2>1. closed \subseteq NotedAs(priced, best)  BY <1>5, <1>6
  <2>2. Booked([cash |-> cash + Value(closed) + profit,
                holding |-> (holding \ priced) \cup (NotedAs(priced, best) \ closed)], (Cash + earned) + profit)
    BY <1>2, <1>4, <1>6, <1>10, <1>11, <2>1, ExitsBooked
  <2>3. QED  BY <1>5, <2>2
<1>13. mid.holding = kept  OBVIOUS
<1> HIDE DEF mid, kept
<1>14. Booked(after, (Cash + earned) + profit)
  <2>1. First(signals) \subseteq Markets /\ \A s \in First(signals) : \A p \in mid.holding : p.market # s
    BY <1>6, <1>7, <1>13
  <2>2. QED  BY <1>2, <1>11, <1>12, <2>1, AllOpened
<1> HIDE DEF after
<1>15. Booked([cash |-> cash', holding |-> holding'], Cash + earned')
  BY <1>1, <1>11, <1>14 DEF Booked
<1>16. ~(stamp' > LastStamp) /\ stamp' \in Int  BY <1>1, <1>2
<1>17. Booked([cash |-> cash, holding |-> holding], Cash + earned)'
  BY <1>15 DEF Booked
<1>18. earned' \in Int /\ chosen'.strategy \in Chosen /\ last' \in [Markets -> Marks \cup {0}]
  BY <1>1, <1>2, <1>10
<1>19. QED  BY <1>8, <1>16, <1>17, <1>18 DEF SimpleInv

(* The end.                                                                  *)
LEMMA EndKeeps == ASSUME SimpleInv, CloseAll PROVE SimpleInv'
<1> DEFINE closed == {p \in holding : last[p.market] # 0}
           rest == holding \ closed
           profit == Profit(closed, last)
<1>1. /\ stamp' = stamp + 1 /\ cash' = cash + Value(closed) + profit /\ holding' = rest
      /\ earned' = earned + profit /\ last' = last /\ chosen' = chosen /\ refused' = refused
  BY DEF CloseAll
<1>2. /\ chosen.strategy \in Chosen /\ stamp \in Int /\ earned \in Int
      /\ Booked([cash |-> cash, holding |-> holding], Cash + earned)
      /\ last \in [Markets -> Marks \cup {0}]
      /\ refused \subseteq {"PULLBACK"} /\ Cash \in Nat
  BY SimpleAssumption DEF SimpleInv
<1>3. /\ cash \in Int /\ holding \subseteq Taken /\ IsFiniteSet(holding)
      /\ \A p, q \in holding : p.market = q.market => p = q
      /\ cash = (Cash + earned) - SumOf(CostOf, holding)
  BY <1>2 DEF Booked
<1>4. closed \subseteq holding /\ closed \subseteq Taken /\ rest \subseteq Taken
      /\ \A p \in rest : p \in holding /\ last[p.market] = 0
  BY <1>3
<1>5. IsFiniteSet(closed) /\ IsFiniteSet(rest)  BY <1>3, <1>4, FS_Subset
<1> HIDE DEF closed
<1>6. profit \in Int
  <2>1. \A p \in closed : last[p.market] \in Marks \cup {0}  BY <1>2, <1>4 DEF Taken
  <2>2. QED  BY <1>4, <1>5, <2>1, ProfitIs
<1>7. SumOf(CostOf, holding) = SumOf(CostOf, closed) + SumOf(CostOf, rest)
  BY <1>3, <1>4, CostSplit
<1> HIDE DEF rest, profit
<1>8. /\ Value(closed) = SumOf(CostOf, closed) /\ SumOf(CostOf, closed) \in Int
      /\ SumOf(CostOf, rest) \in Int
  BY <1>4, <1>5, CostIs
<1>9. cash' \in Int /\ earned' \in Int /\ cash' = (Cash + earned') - SumOf(CostOf, rest)
  BY <1>1, <1>2, <1>3, <1>6, <1>7, <1>8
<1>10. Booked([cash |-> cash, holding |-> holding], Cash + earned)'
  BY <1>1, <1>3, <1>4, <1>5, <1>9 DEF Booked
<1>11. \A p \in holding' : last'[p.market] = 0  BY <1>1, <1>4
<1>12. QED  BY <1>1, <1>2, <1>9, <1>10, <1>11 DEF SimpleInv

(* Every step.                                                               *)
LEMMA SimpleStep == SimpleInv /\ [SimpleNext]_simpleVars => SimpleInv'
<1> SUFFICES ASSUME SimpleInv, [SimpleNext]_simpleVars PROVE SimpleInv'
  OBVIOUS
<1>1. CASE \E x \in MarksNow, y \in {0, 1000}, m \in MeasuresNow, showing \in {{1}, {1, 2}} :
             Trade(<<x, y>>, m, showing)
  <2>1. PICK x \in MarksNow, y \in {0, 1000}, m \in MeasuresNow, showing \in {{1}, {1, 2}} :
          Trade(<<x, y>>, m, showing)
    BY <1>1
  <2>2. <<x, y>> \in [Markets -> Marks \cup {0}] /\ showing \subseteq Markets
    BY DEF Markets, Marks, MarksNow
  <2>3. QED  BY <2>1, <2>2, TradeKeeps
<1>2. CASE CloseAll  BY <1>2, EndKeeps
<1>3. CASE UNCHANGED simpleVars
  BY <1>3 DEF SimpleInv, Booked, simpleVars
<1>4. QED  BY <1>1, <1>2, <1>3 DEF SimpleNext

(* What the invariant says of the account.                                    *)
LEMMA SimpleSound == SimpleInv => SimpleBalances
<1> SUFFICES ASSUME SimpleInv PROVE SimpleBalances
  OBVIOUS
<1>1. /\ cash \in Int /\ holding \subseteq Taken /\ IsFiniteSet(holding)
      /\ \A p, q \in holding : p.market = q.market => p = q
      /\ cash = (Cash + earned) - SumOf(CostOf, holding)
  BY DEF SimpleInv, Booked
<1>2. Value(holding) = SumOf(CostOf, holding) /\ SumOf(CostOf, holding) \in Int
  BY <1>1, CostIs
<1>3. Cash \in Int /\ earned \in Int  BY SimpleAssumption DEF SimpleInv
<1>4. cash = Cash + earned - Value(holding)  BY <1>1, <1>2, <1>3
<1>5. QED  BY <1>1, <1>4 DEF SimpleInv, SimpleBalances

(* BacktestsBalance (BacktestEngine, SimpleBacktester): neither backtester    *)
(* makes or loses money but by its trades.  The cash of each is its capital  *)
(* and the profits of what was closed, less what is invested (and, in        *)
(* backtest_engine, the commissions of the entries, which the profits do not *)
(* know of); no key is held twice; without margin no cash is negative; all   *)
(* that has a price is closed in the end; and in run_backtest a score never  *)
(* refuses what met the conditions, but for PULLBACK.                        *)
THEOREM BacktestsBalanceAlways ==
  /\ EngineInit /\ SimpleInit
  /\ [][EngineNext]_engineVars /\ [][SimpleNext]_simpleVars
  => []BacktestsBalance
<1>1. EngineInv /\ SimpleInv => BacktestsBalance
  BY EngineSound, SimpleSound DEF BacktestsBalance
<1>2. QED  BY InitEngine, EngineStep, InitSimple, SimpleStep, <1>1, PTL

-------------------------------------------------------------------------------
(* RegimeSwitch                                                             *)

(* RegimeSettles needs the types only.                                      *)
RegimeInv ==
  /\ Cooldown \in Nat /\ since \in 0..Cooldown /\ quickest \in Int
  /\ RegimeSettles

(* A reading has a confidence, and in doubt a small one.                     *)
LEMMA ReadingOf ==
  ASSUME NEW score \in Int
  PROVE  LET read == DetermineRegime(score)
         IN  /\ read.confidence \in Int
             /\ read.regime \in {"BULLISH", "BEARISH", "SIDEWAYS", "UNKNOWN"}
             /\ read.regime = "UNKNOWN" => read.confidence = 300
<1>1. CASE score >= 300
  <2>1. DetermineRegime(score) = [regime |-> "BULLISH", confidence |-> AtMost(score, 1000)]
    BY <1>1 DEF DetermineRegime, Magnitude
  <2>2. AtMost(score, 1000) \in Int  BY DEF AtMost
  <2>3. QED  BY <2>1, <2>2
<1>2. CASE score <= -300
  <2>1. DetermineRegime(score) = [regime |-> "BEARISH", confidence |-> AtMost(-score, 1000)]
    BY <1>2 DEF DetermineRegime, Magnitude
  <2>2. AtMost(-score, 1000) \in Int  BY DEF AtMost
  <2>3. QED  BY <2>1, <2>2
<1>3. CASE score > -300 /\ score < 300 /\ Magnitude(score) <= 150
  <2>1. 10 * Magnitude(score) \in Int  BY DEF Magnitude
  <2>2. DetermineRegime(score) =
          [regime |-> "SIDEWAYS", confidence |-> 1000 - (10 * Magnitude(score)) \div 3]
    BY <1>3 DEF DetermineRegime
  <2>3. QED  BY <2>1, <2>2
<1>4. CASE score > -300 /\ score < 300 /\ ~(Magnitude(score) <= 150)
  BY <1>4 DEF DetermineRegime
<1>5. QED  BY <1>1, <1>2, <1>3, <1>4

(* That is so of every reading of the market.                                *)
LEMMA ReadingIs ==
  ASSUME NEW c \in Candles
  PROVE  LET read == DetermineRegime(TrendScore(c))
         IN  /\ read.confidence \in Int
             /\ read.regime \in {"BULLISH", "BEARISH", "SIDEWAYS", "UNKNOWN"}
             /\ read.regime = "UNKNOWN" => read.confidence = 300
<1>1. TrendScore(c) \in Int
  BY DEF TrendScore, Candles
<1>2. QED  BY <1>1, ReadingOf

(* The trend starts unknown and nothing runs.                                *)
LEMMA InitRegime == RegimeInit => RegimeInv
BY CooldownAssumption DEF RegimeInit, RegimeInv, RegimeSettles, ConservativeStrategies

(* A reading of the market.                                                  *)
LEMMA UpdateKeeps == ASSUME RegimeInv, NEW c \in Candles, UpdateStrategies(c) PROVE RegimeInv'
<1> DEFINE read == DetermineRegime(TrendScore(c))
           signal == Cooled(read)
<1>1. /\ read.confidence \in Int
      /\ read.regime \in {"BULLISH", "BEARISH", "SIDEWAYS", "UNKNOWN"}
      /\ read.regime = "UNKNOWN" => read.confidence = 300
  BY ReadingIs
<1>2. /\ trend' = signal.regime
      /\ since' = IF signal.regime # trend THEN 0 ELSE since
      /\ running' = {g \in Recommended(signal) : signal.confidence >= MinConfidence(g)}
      /\ lastRead' = [regime |-> read.regime, after |-> since]
      /\ quickest' = IF signal.regime # trend /\ trend # NoTrend THEN AtMost(since, quickest) ELSE quickest
  BY DEF UpdateStrategies
<1> HIDE DEF read
<1>3. \/ signal = read /\ (trend = NoTrend \/ since >= Cooldown \/ read.regime = trend)
      \/ /\ since < Cooldown
         /\ signal.regime = trend /\ signal.confidence = (8 * read.confidence) \div 10
  BY DEF Cooled, RegimeInv
<1>4. signal.confidence \in Int
  <2>1. 8 * read.confidence \in Int  BY <1>1
  <2>2. (8 * read.confidence) \div 10 \in Int  BY <2>1
  <2>3. QED  BY <1>1, <1>3, <2>2
<1>5. read.regime = "UNKNOWN" => signal.confidence < 500
  <2>1. (8 * 300) \div 10 < 500  OBVIOUS
  <2>2. QED  BY <1>1, <1>3, <2>1
<1>6. since' \in 0..Cooldown /\ quickest' \in Int /\ quickest' >= Cooldown
  BY <1>2, <1>3 DEF RegimeInv, RegimeSettles, AtMost
<1> HIDE DEF signal
<1>7. CASE signal.confidence < 500
  <2>1. Recommended(signal) = {"TRIPLE_BEARISH_REVERSAL"}
    BY <1>7 DEF Recommended, ConservativeStrategies
  <2>2. running' = {}
    BY <1>2, <1>4, <1>7, <2>1 DEF MinConfidence
  <2>3. QED  BY <1>6, <2>2 DEF RegimeInv, RegimeSettles, ConservativeStrategies
<1>8. CASE signal.confidence >= 500 /\ signal.regime = "BULLISH"
  <2>1. Recommended(signal) = LongStrategies
    BY <1>4, <1>8 DEF Recommended
  <2>2. "VOLATILE_OVERSOLD_BOUNCE" \in running'
    BY <1>2, <1>8, <2>1 DEF MinConfidence, LongStrategies
  <2>3. running' # ConservativeStrategies
    BY <2>2 DEF ConservativeStrategies
  <2>4. lastRead'.regime = read.regime /\ lastRead'.after = since /\ trend' = "BULLISH"
    BY <1>2, <1>8
  <2>5. read.regime = "BULLISH" \/ since < Cooldown
    BY <1>3, <1>8 DEF signal
  <2>6. read.regime # "UNKNOWN"
    BY <1>4, <1>5, <1>8
  <2>7. QED  BY <1>6, <2>3, <2>4, <2>5, <2>6 DEF RegimeInv, RegimeSettles
<1>9. CASE signal.confidence >= 500 /\ signal.regime = "SIDEWAYS"
  <2>1. Recommended(signal) = ConservativeStrategies
    BY <1>4, <1>9 DEF Recommended
  <2>2. running' \subseteq ConservativeStrategies /\ trend' = "SIDEWAYS"
    BY <1>2, <1>9, <2>1
  <2>3. QED  BY <1>6, <2>2 DEF RegimeInv, RegimeSettles
<1>10. CASE signal.confidence >= 500 /\ signal.regime \notin {"BULLISH", "SIDEWAYS"}
  <2>1. Recommended(signal) = {}
    BY <1>4, <1>10 DEF Recommended
  <2>2. running' = {}  BY <1>2, <2>1
  <2>3. QED  BY <1>6, <2>2 DEF RegimeInv, RegimeSettles, ConservativeStrategies
<1>11. QED  BY <1>4, <1>7, <1>8, <1>9, <1>10

(* Every step.                                                               *)
LEMMA RegimeStep == RegimeInv /\ [RegimeNext]_regimeVars => RegimeInv'
<1> SUFFICES ASSUME RegimeInv, [RegimeNext]_regimeVars PROVE RegimeInv'
  OBVIOUS
<1>1. CASE UpdateWithoutCandles
  BY <1>1 DEF UpdateWithoutCandles, RegimeInv, RegimeSettles, ConservativeStrategies
<1>2. CASE CandlePasses
  BY <1>2 DEF CandlePasses, RegimeInv, RegimeSettles
<1>3. CASE \E c \in Candles : UpdateStrategies(c)
  BY <1>3, UpdateKeeps
<1>4. CASE UNCHANGED regimeVars
  BY <1>4 DEF regimeVars, RegimeInv, RegimeSettles
<1>5. QED  BY <1>1, <1>2, <1>3, <1>4 DEF RegimeNext

-------------------------------------------------------------------------------
(* MarketData: the rounds.                                                  *)

(* Division with remainder.                                                  *)
LEMMA DivisionIs ==
  ASSUME NEW a \in Nat, NEW n \in Nat \ {0}
  PROVE  a % n \in 0..n - 1 /\ \E q \in Nat : a = n * q + (a % n)
<1>1. a % n \in 0..n - 1
  OBVIOUS
<1>2. a \div n \in Int
  OBVIOUS
<1>3. a = n * (a \div n) + (a % n)
  OBVIOUS
<1>4. a \div n >= 0
  OBVIOUS
<1>5. PICK d \in Nat : d = a \div n  BY <1>2, <1>4
<1>6. a = n * d + (a % n)  BY <1>3, <1>5
<1>7. QED  BY <1>1, <1>6

(* There is one remainder.                                                   *)
LEMMA RemainderIs ==
  ASSUME NEW a \in Nat, NEW n \in Nat \ {0}, NEW q \in Nat, NEW r \in 0..n - 1, a = n * q + r
  PROVE  a % n = r
<1>1. PICK p \in Nat : a = n * p + (a % n)
  BY DivisionIs
<1>2. a % n \in 0..n - 1
  BY DivisionIs
<1>3. CASE p >= q + 1
  <2>1. PICK d \in Nat : p = q + 1 + d
    <3>1. p = q + 1 + (p - (q + 1)) /\ p - (q + 1) \in Nat  BY <1>1, <1>3
    <3>2. QED  BY <3>1
  <2>2. n * p = n * q + n + n * d  BY <2>1
  <2>3. n * d \in Nat  BY <2>1
  <2>4. QED  BY <1>1, <1>2, <2>2, <2>3
<1>4. CASE q >= p + 1
  <2>1. PICK d \in Nat : q = p + 1 + d
    <3>1. q = p + 1 + (q - (p + 1)) /\ q - (p + 1) \in Nat  BY <1>1, <1>4
    <3>2. QED  BY <3>1
  <2>2. n * q = n * p + n + n * d  BY <1>1, <2>1
  <2>3. n * d \in Nat  BY <2>1
  <2>4. QED  BY <1>1, <1>2, <2>2, <2>3
<1>5. CASE p = q
  BY <1>1, <1>2, <1>5
<1>6. QED  BY <1>1, <1>3, <1>4, <1>5

(* A multiple of the divisor changes nothing.                                *)
LEMMA RemainderStays ==
  ASSUME NEW a \in Nat, NEW n \in Nat \ {0}, NEW q \in Nat
  PROVE  (a + n * q) % n = a % n
<1>1. PICK p \in Nat : a = n * p + (a % n)
  BY DivisionIs
<1>2. a % n \in 0..n - 1
  BY DivisionIs
<1> DEFINE b == a + n * q
           c == p + q
<1>3. b \in Nat /\ c \in Nat /\ b = n * c + (a % n)
  BY <1>1, <1>2
<1> HIDE DEF b, c
<1>4. b % n = a % n  BY <1>2, <1>3, RemainderIs
<1>5. QED  BY <1>4 DEF b

(* Where the window of a round begins in a list of length n.                 *)
StartOf(n, r) == (r * Batch) % n

(* Some round's window holds any given place: the one that begins last      *)
(* before it.  Were it out of its reach, the next would begin before it too. *)
LEMMA SomeWindow ==
  ASSUME NEW n \in Nat \ {0}, NEW i \in 1..n
  PROVE  \E r \in Nat : StartOf(n, r) < i /\ i <= StartOf(n, r) + Batch
<1> DEFINE S == {s \in 0..i - 1 : \E r \in Nat : s = StartOf(n, r)}
<1>1. Batch \in Nat \ {0}  BY MarketAssumption
<1>2. 0 \in S
  <2>1. 0 * Batch = n * 0 + 0  BY <1>1
  <2>2. StartOf(n, 0) = 0  BY <2>1, RemainderIs DEF StartOf
  <2>3. QED  BY <2>2
<1>3. IsFiniteSet(S) /\ S \subseteq Int
  <2>1. IsFiniteSet(0..i - 1)
    BY FS_Interval, 0 \in Int, i - 1 \in Int
  <2>2. S \subseteq 0..i - 1 /\ 0..i - 1 \subseteq Int  OBVIOUS
  <2>3. QED  BY <2>1, <2>2, FS_Subset
<1> DEFINE m == Max(S)
<1>4. m \in S /\ \A s \in S : s <= m
  <2> HIDE DEF S
  <2>1. QED  BY <1>2, <1>3, MaxOfSet
<1> HIDE DEF m
<1>5. PICK r \in Nat : m = StartOf(n, r)
  BY <1>4
<1>6. ASSUME m + Batch < i PROVE FALSE
  <2>1. r * Batch \in Nat /\ (r + 1) * Batch \in Nat /\ (r + 1) * Batch = r * Batch + Batch
    BY <1>1
  <2>2. PICK q \in Nat : r * Batch = n * q + m
    BY <1>5, <2>1, DivisionIs DEF StartOf
  <2>3. (r + 1) * Batch = n * q + (m + Batch) /\ m + Batch \in 0..n - 1
    BY <1>1, <1>4, <1>6, <2>1, <2>2
  <2>4. StartOf(n, r + 1) = m + Batch
    BY <2>1, <2>3, RemainderIs DEF StartOf
  <2>5. m + Batch \in S
    BY <1>1, <1>4, <1>6, <2>4
  <2>6. QED  BY <1>1, <1>4, <2>5
<1>7. QED
  <2>1. m \in Int /\ m < i  BY <1>4
  <2>2. i <= m + Batch  BY <1>1, <1>6, <2>1
  <2>3. QED  BY <1>5, <2>1, <2>2

(* Of as many rounds in a row as the list is long, one begins where a given  *)
(* round begins.                                                             *)
LEMMA StartsReturn ==
  ASSUME NEW n \in Nat \ {0}, NEW r \in Nat, NEW t \in Nat
  PROVE  \E k \in 0..n - 1 : StartOf(n, r + k) = StartOf(n, t)
<1>1. Batch \in Nat  BY MarketAssumption
<1> DEFINE a == t + (n - 1) * r
           k == a % n
<1>2. a \in Nat /\ a + r = t + n * r  OBVIOUS
<1> HIDE DEF a
<1>3. PICK q \in Nat : a = n * q + k
  BY <1>2, DivisionIs
<1>4. k \in 0..n - 1
  BY <1>2, DivisionIs
<1> HIDE DEF k
<1>5. (r + k) + n * q = t + n * r
  BY <1>2, <1>3, <1>4
<1>6. (r + k) * Batch + n * (q * Batch) = t * Batch + n * (r * Batch)
  <2>1. ((r + k) + n * q) * Batch = (r + k) * Batch + n * (q * Batch)
    BY <1>1, <1>3, <1>4
  <2>2. (t + n * r) * Batch = t * Batch + n * (r * Batch)
    BY <1>1
  <2>3. QED  BY <1>5, <2>1, <2>2
<1>7. /\ (r + k) * Batch \in Nat /\ q * Batch \in Nat /\ t * Batch \in Nat /\ r * Batch \in Nat
  BY <1>1, <1>3, <1>4
<1> DEFINE x == (r + k) * Batch
           y == t * Batch
           u == q * Batch
           v == r * Batch
<1>8. x % n = y % n
  <2>1. x \in Nat /\ y \in Nat /\ u \in Nat /\ v \in Nat /\ x + n * u = y + n * v
    BY <1>6, <1>7
  <2> HIDE DEF x, y, u, v
  <2>2. (x + n * u) % n = x % n /\ (y + n * v) % n = y % n
    BY <2>1, RemainderStays
  <2>3. QED  BY <2>1, <2>2
<1>9. QED  BY <1>4, <1>8 DEF StartOf

(* A place the window of a round reaches.                                    *)
Reached(n, r, i) == StartOf(n, r) < i /\ i <= StartOf(n, r) + Batch

(* The window of a round is the places it reaches.                           *)
LEMMA WindowIs ==
  ASSUME NEW n \in Nat \ {0}, NEW r \in Nat
  PROVE  RefreshWindow(n, r) = {i \in 1..n : Reached(n, r, i)}
<1> DEFINE a == StartOf(n, r)
<1>1. Batch \in Nat \ {0}  BY MarketAssumption
<1>2. Max({n, 1}) = n
  BY MinMaxOfTwo, n \in Int, 1 \in Int
<1>3. a \in 0..n - 1
  <2>1. r * Batch \in Nat  BY <1>1
  <2>2. QED  BY <2>1, DivisionIs DEF StartOf
<1>4. RefreshWindow(n, r) = a + 1 .. Min({a + Batch, n})
  BY <1>2 DEF RefreshWindow, StartOf
<1> HIDE DEF a
<1>5. Min({a + Batch, n}) = IF a + Batch <= n THEN a + Batch ELSE n
  BY <1>1, <1>3, MinMaxOfTwo, a + Batch \in Int, n \in Int
<1>6. \A i \in Int : i \in a + 1 .. Min({a + Batch, n}) <=> i \in 1..n /\ a < i /\ i <= a + Batch
  BY <1>1, <1>3, <1>5
<1> DEFINE W == a + 1 .. Min({a + Batch, n})
<1>7. W \subseteq Int /\ \A i \in Int : i \in W <=> i \in 1..n /\ a < i /\ i <= a + Batch
  BY <1>6
<1> HIDE DEF W
<1>8. W = {i \in 1..n : a < i /\ i <= a + Batch}
  <2>1. ASSUME NEW i \in W PROVE i \in 1..n /\ a < i /\ i <= a + Batch
    BY <1>7
  <2>2. ASSUME NEW i \in 1..n, a < i, i <= a + Batch PROVE i \in W
    <3>1. i \in Int  OBVIOUS
    <3>2. QED  BY <1>7, <2>2, <3>1
  <2>3. QED  BY <2>1, <2>2
<1>9. QED  BY <1>4, <1>8 DEF Reached, a, W

(* Every place is reached within as many rounds as the list is long.         *)
LEMMA ReachedSoon ==
  ASSUME NEW n \in Nat \ {0}, NEW r \in Nat, NEW i \in 1..n
  PROVE  \E k \in 0..n - 1 : Reached(n, r + k, i)
<1>1. PICK t \in Nat : StartOf(n, t) < i /\ i <= StartOf(n, t) + Batch
  BY SomeWindow
<1>2. PICK k \in 0..n - 1 : StartOf(n, r + k) = StartOf(n, t)
  BY StartsReturn
<1>3. QED  BY <1>1, <1>2 DEF Reached

(* The counter of the rounds may turn: every length divides it.              *)
LEMMA RoundsTurn ==
  ASSUME NEW n \in 1..MaxListed, NEW r \in 0..RoundCycle - 1, NEW k \in Nat
  PROVE  StartOf(n, ((r + 1) % RoundCycle) + k) = StartOf(n, (r + 1) + k)
<1>1. /\ Batch \in Nat /\ RoundCycle \in Nat \ {0} /\ MaxListed \in Nat
      /\ RoundCycle % n = 0 /\ n \in Nat \ {0}
  BY MarketAssumption
<1>2. CASE r + 1 < RoundCycle
  <2>1. r + 1 = RoundCycle * 0 + (r + 1) /\ r + 1 \in 0..RoundCycle - 1
    BY <1>1, <1>2
  <2>2. (r + 1) % RoundCycle = r + 1
    BY <1>1, <2>1, RemainderIs
  <2>3. QED  BY <2>2
<1>3. CASE r + 1 = RoundCycle
  <2>1. RoundCycle = RoundCycle * 1 + 0 /\ 0 \in 0..RoundCycle - 1
    BY <1>1
  <2>2. RoundCycle % RoundCycle = 0
    BY <1>1, <2>1, RemainderIs
  <2>3. PICK m \in Nat : RoundCycle = n * m + (RoundCycle % n)
    BY <1>1, DivisionIs
  <2>4. RoundCycle = n * m
    BY <1>1, <2>3
  <2> DEFINE x == k * Batch
             y == m * Batch
  <2>5. x \in Nat /\ y \in Nat  BY <1>1, <2>3
  <2>6. (RoundCycle + k) * Batch = x + n * y
    <3>1. (n * m + k) * Batch = k * Batch + n * (m * Batch)
      BY <1>1, <2>3
    <3>2. QED  BY <2>4, <3>1
  <2> HIDE DEF x, y
  <2>7. (x + n * y) % n = x % n
    <3>1. n \in Nat \ {0}  BY <1>1
    <3>2. QED  BY <2>5, <3>1, RemainderStays
  <2>8. StartOf(n, RoundCycle + k) = StartOf(n, k)
    BY <2>6, <2>7 DEF StartOf, x
  <2>9. ((r + 1) % RoundCycle) + k = k /\ (r + 1) + k = RoundCycle + k
    BY <1>3, <2>2
  <2>10. QED  BY <2>8, <2>9
<1>4. QED  BY <1>1, <1>2, <1>3

(* A symbol is reached before it has waited for as many rounds as there are  *)
(* symbols: that many less the rounds until its next turn it may have waited. *)
Waits(i, n, r, waited) == \E k \in 0..n - 1 : Reached(n, r + k, i) /\ waited + k <= n - 1

ListInv ==
  /\ listing \in [n : 0..MaxListed, half : BOOLEAN, due : BOOLEAN]
  /\ HalfListIsDue
  /\ round \in 0..RoundCycle - 1
  /\ lag \in [1..MaxListed -> Nat]
  /\ \A i \in 1..listing.n : Waits(i, listing.n, round, lag[i])

(* Whoever just had its candles is reached again in time.                    *)
LEMMA WaitsFromNow ==
  ASSUME NEW n \in Nat \ {0}, NEW r \in Nat, NEW i \in 1..n
  PROVE  Waits(i, n, r, 0)
<1>1. PICK k \in 0..n - 1 : Reached(n, r + k, i)
  BY ReachedSoon
<1>2. QED  BY <1>1 DEF Waits

(* The list starts empty.                                                    *)
LEMMA InitList == ListInit => ListInv
<1> SUFFICES ASSUME ListInit PROVE ListInv
  OBVIOUS
<1>1. MaxListed \in Nat /\ RoundCycle \in Nat \ {0}  BY MarketAssumption
<1>2. QED  BY <1>1 DEF ListInit, ListInv, HalfListIsDue

(* A pass of the engine.                                                     *)
LEMMA PassKeeps ==
  ASSUME ListInv, NEW n \in 0..MaxListed, NEW change, UpdateMarketData(n, change)
  PROVE  ListInv'
<1>1. MaxListed \in Nat /\ RoundCycle \in Nat \ {0}  BY MarketAssumption
<1>2. /\ listing' \in {listing, [n |-> n, half |-> FALSE, due |-> FALSE],
                       [n |-> n, half |-> TRUE, due |-> TRUE]}
      /\ lag' = IF listing' = listing THEN lag ELSE [i \in 1..MaxListed |-> 0]
      /\ round' = round
  BY DEF UpdateMarketData, RefreshSymbols
<1>3. CASE listing' = listing
  BY <1>2, <1>3 DEF ListInv, HalfListIsDue
<1>4. CASE listing' # listing
  <2>1. /\ listing' \in [n : 0..MaxListed, half : BOOLEAN, due : BOOLEAN]
        /\ listing'.half => listing'.due
    <3>1. CASE listing' = [n |-> n, half |-> FALSE, due |-> FALSE]  BY <3>1
    <3>2. CASE listing' = [n |-> n, half |-> TRUE, due |-> TRUE]  BY <3>2
    <3>3. QED  BY <1>2, <1>4, <3>1, <3>2
  <2>2. lag' = [i \in 1..MaxListed |-> 0]  BY <1>2, <1>4
  <2>3. \A i \in 1..listing'.n : lag'[i] = 0 /\ listing'.n \in Nat \ {0}
    BY <1>1, <2>1, <2>2
  <2>4. round' \in Nat  BY <1>1, <1>2 DEF ListInv
  <2>5. \A i \in 1..listing'.n : Waits(i, listing'.n, round', lag'[i])
    BY <2>3, <2>4, WaitsFromNow
  <2>6. lag' \in [1..MaxListed -> Nat]  BY <2>2
  <2>7. round' \in 0..RoundCycle - 1  BY <1>2 DEF ListInv
  <2>8. HalfListIsDue'  BY <2>1 DEF HalfListIsDue
  <2>9. QED  BY <2>1, <2>5, <2>6, <2>7, <2>8 DEF ListInv
<1>5. QED  BY <1>3, <1>4

(* A round of candles.                                                       *)
LEMMA RoundKeeps == ASSUME ListInv, RefreshCandles PROVE ListInv'
<1> DEFINE n == listing.n
<1>1. /\ MaxListed \in Nat /\ RoundCycle \in Nat \ {0} /\ n \in 0..MaxListed
      /\ round \in 0..RoundCycle - 1 /\ lag \in [1..MaxListed -> Nat]
  BY MarketAssumption DEF ListInv
<1>2. /\ round' = (round + 1) % RoundCycle /\ listing' = listing
      /\ lag' = [i \in 1..MaxListed |->
                   IF i \in RefreshWindow(n, round) THEN 0 ELSE Min({lag[i] + 1, MaxListed})]
  BY DEF RefreshCandles
<1>3. \A i \in 1..MaxListed :
        Min({lag[i] + 1, MaxListed}) = IF lag[i] + 1 <= MaxListed THEN lag[i] + 1 ELSE MaxListed
  BY <1>1, MinMaxOfTwo
<1>4. round' \in 0..RoundCycle - 1
  BY <1>1, <1>2, DivisionIs
<1>5. lag' \in [1..MaxListed -> Nat]
  <2> DEFINE w(i) == IF i \in RefreshWindow(n, round) THEN 0 ELSE Min({lag[i] + 1, MaxListed})
  <2>1. ASSUME NEW i \in 1..MaxListed PROVE w(i) \in Nat
    <3>1. lag[i] + 1 \in Nat /\ MaxListed \in Nat  BY <1>1
    <3>2. Min({lag[i] + 1, MaxListed}) \in Nat  BY <1>3, <3>1
    <3>3. QED  BY <3>2
  <2>2. lag' = [i \in 1..MaxListed |-> w(i)]  BY <1>2
  <2> HIDE DEF w
  <2>3. QED  BY <2>1, <2>2
<1>6. ASSUME NEW i \in 1..n PROVE Waits(i, n, round', lag'[i])
  <2>1. n \in Nat \ {0} /\ i \in 1..MaxListed /\ round \in Nat /\ round' \in Nat
    BY <1>1, <1>4
  <2>2. CASE i \in RefreshWindow(n, round)
    <3>1. lag'[i] = 0  BY <1>2, <2>1, <2>2
    <3>2. QED  BY <2>1, <3>1, WaitsFromNow
  <2>3. CASE i \notin RefreshWindow(n, round)
    <3>1. PICK k \in 0..n - 1 : Reached(n, round + k, i) /\ lag[i] + k <= n - 1
      BY DEF ListInv, Waits
    <3>2. ~Reached(n, round, i)
      BY <2>1, <2>3, WindowIs
    <3>3. k # 0
      BY <1>1, <3>1, <3>2
    <3>4. PICK j \in 0..n - 1 : k = j + 1
      <4>1. k - 1 \in 0..n - 1 /\ k = (k - 1) + 1  BY <2>1, <3>1, <3>3
      <4>2. QED  BY <4>1
    <3>5. lag'[i] = lag[i] + 1
      <4>1. lag[i] \in Nat  BY <1>1, <2>1
      <4>2. lag[i] + 1 <= MaxListed  BY <1>1, <2>1, <3>1, <3>4, <4>1
      <4>3. Min({lag[i] + 1, MaxListed}) = lag[i] + 1  BY <1>3, <2>1, <4>2
      <4>4. QED  BY <1>2, <2>1, <2>3, <4>3
    <3>6. StartOf(n, round' + j) = StartOf(n, (round + 1) + j) /\ (round + 1) + j = round + k
      <4>1. n \in 1..MaxListed /\ j \in Nat  BY <1>1, <2>1, <3>4
      <4>2. StartOf(n, ((round + 1) % RoundCycle) + j) = StartOf(n, (round + 1) + j)
        BY <1>1, <4>1, RoundsTurn
      <4>3. (round + 1) + j = round + k  BY <2>1, <3>4, <4>1
      <4>4. QED  BY <1>2, <4>2, <4>3
    <3>7. Reached(n, round' + j, i)
      BY <3>1, <3>6 DEF Reached
    <3>8. lag'[i] + j <= n - 1
      BY <1>1, <2>1, <3>1, <3>4, <3>5
    <3>9. QED  BY <3>7, <3>8 DEF Waits
  <2>4. QED  BY <2>2, <2>3
<1>7. QED  BY <1>1, <1>2, <1>4, <1>5, <1>6 DEF ListInv, HalfListIsDue

(* Every step.                                                               *)
LEMMA ListStep == ListInv /\ [ListNext]_listVars => ListInv'
<1> SUFFICES ASSUME ListInv, [ListNext]_listVars PROVE ListInv'
  OBVIOUS
<1>1. CASE \E n \in 0..MaxListed, change \in {NoTicker, -6, -4, 0, 4, 6} : UpdateMarketData(n, change)
  BY <1>1, PassKeeps
<1>2. CASE HourPasses
  BY <1>2 DEF HourPasses, ListInv, HalfListIsDue
<1>3. CASE RefreshCandles
  BY <1>3, RoundKeeps
<1>4. CASE UNCHANGED listVars
  BY <1>4 DEF listVars, ListInv, HalfListIsDue
<1>5. QED  BY <1>1, <1>2, <1>3, <1>4 DEF ListNext

(* No symbol waits as many rounds as there are symbols.                      *)
LEMMA ListSound == ListInv => EveryoneRefreshed /\ HalfListIsDue
<1> SUFFICES ASSUME ListInv, NEW i \in 1..listing.n PROVE lag[i] < listing.n
  BY DEF EveryoneRefreshed, ListInv
<1>1. MaxListed \in Nat /\ listing.n \in 0..MaxListed /\ lag \in [1..MaxListed -> Nat]
  BY MarketAssumption DEF ListInv
<1>2. PICK k \in 0..listing.n - 1 : lag[i] + k <= listing.n - 1
  BY DEF ListInv, Waits
<1>3. QED  BY <1>1, <1>2

-------------------------------------------------------------------------------
(* MarketData: the buffer.                                                  *)

Bar == [time : Int, closed : BOOLEAN]
Ordered(candles) == \A i, j \in 1..Len(candles) : i < j => candles[i].time < candles[j].time
TimesOf(candles) == {candles[i].time : i \in 1..Len(candles)}

(* A buffer that is in order and holds the newest of the minutes it was     *)
(* given: all of them unless it is full.                                    *)
Newest(candles, given) ==
  /\ candles \in Seq(Bar) /\ Ordered(candles)
  /\ Len(candles) <= BufferSize
  /\ TimesOf(candles) \subseteq given
  /\ Len(candles) < BufferSize => given \subseteq TimesOf(candles)
  /\ \A t \in given : t \in TimesOf(candles) \/ \A u \in TimesOf(candles) : t < u

(* A candle of another time has its place in the order.                      *)
LEMMA OrderExists ==
  ASSUME NEW candles \in Seq(Bar), Ordered(candles), NEW c \in Bar,
         c.time \notin TimesOf(candles)
  PROVE  \E s \in [1..Len(candles) + 1 -> Range(Append(candles, c))] :
           /\ Range(s) = Range(Append(candles, c))
           /\ \A i, j \in 1..Len(candles) + 1 : i < j => s[i].time < s[j].time
<1> DEFINE n == Len(candles)
           J == {i \in 1..n : candles[i].time < c.time}
           k == IF J = {} THEN 0 ELSE Max(J)
           s == [i \in 1..n + 1 |-> IF i <= k THEN candles[i]
                                    ELSE IF i = k + 1 THEN c ELSE candles[i - 1]]
           R == Range(Append(candles, c))
<1>1. /\ n \in Nat /\ c.time \in Int
      /\ \A i \in 1..n : candles[i] \in Bar /\ candles[i].time \in Int
  <2>1. n \in Nat /\ \A i \in 1..n : candles[i] \in Bar  OBVIOUS
  <2>2. \A b \in Bar : b.time \in Int  BY DEF Bar
  <2>3. QED  BY <2>1, <2>2
<1>2. \A i, j \in 1..n : i < j => candles[i].time < candles[j].time
  BY DEF Ordered
<1>3. \A i \in 1..n : candles[i].time # c.time
  BY DEF TimesOf
<1>4. R = {candles[i] : i \in 1..n} \cup {c}
  <2>1. /\ DOMAIN Append(candles, c) = 1..n + 1
        /\ \A i \in 1..n : Append(candles, c)[i] = candles[i]
        /\ Append(candles, c)[n + 1] = c
    OBVIOUS
  <2>2. \A i \in 1..n + 1 : i \in 1..n \/ i = n + 1  BY <1>1
  <2>3. \A i \in 1..n : i \in 1..n + 1  BY <1>1
  <2>4. n + 1 \in 1..n + 1  BY <1>1
  <2>5. QED  BY <2>1, <2>2, <2>3, <2>4 DEF Range
<1>5. /\ k \in 0..n
      /\ \A i \in 1..n : i <= k => candles[i].time < c.time
      /\ \A i \in 1..n : i > k => candles[i].time > c.time
  <2>1. CASE J = {}
    BY <1>1, <1>3, <2>1
  <2>2. CASE J # {}
    <3>1. IsFiniteSet(1..n) /\ J \subseteq 1..n /\ 1..n \subseteq Int
      BY <1>1, FS_Interval
    <3> DEFINE m == Max(J)
    <3>2. m \in J /\ \A y \in J : m >= y
      <4> HIDE DEF J
      <4>1. IsFiniteSet(J) /\ J \subseteq Int  BY <3>1, FS_Subset
      <4>2. QED  BY <2>2, <4>1, MaxOfSet
    <3>3. k = m  BY <2>2
    <3> HIDE DEF m, k
    <3>4. \A i \in 1..n : i <= k => candles[i].time < c.time
      BY <1>1, <1>2, <3>2, <3>3
    <3>5. \A i \in 1..n : i > k => candles[i].time > c.time
      BY <1>1, <1>3, <3>2, <3>3
    <3>6. k \in 0..n  BY <3>2, <3>3
    <3>7. QED  BY <3>4, <3>5, <3>6
  <2>3. QED  BY <2>1, <2>2
<1> HIDE DEF k, R
<1>6. \A i \in 1..n + 1 : /\ i <= k => i \in 1..n /\ s[i] = candles[i]
                          /\ i = k + 1 => s[i] = c
                          /\ i > k + 1 => i - 1 \in 1..n /\ s[i] = candles[i - 1]
  BY <1>1, <1>5
<1>7. DOMAIN s = 1..n + 1  OBVIOUS
<1> HIDE DEF s
<1>8. \A i \in 1..n + 1 : s[i] \in R
  BY <1>1, <1>4, <1>5, <1>6
<1>9. s \in [1..n + 1 -> R]
  <2>1. s = [i \in 1..n + 1 |-> s[i]]  BY DEF s
  <2>2. QED  BY <1>8, <2>1
<1>10. Range(s) = R
  <2>1. Range(s) \subseteq R  BY <1>7, <1>8 DEF Range
  <2>2. c \in Range(s)
    <3>1. k + 1 \in 1..n + 1  BY <1>1, <1>5
    <3>2. QED  BY <1>5, <1>6, <1>7, <3>1 DEF Range
  <2>3. ASSUME NEW i \in 1..n PROVE candles[i] \in Range(s)
    <3>1. CASE i <= k
      BY <1>1, <1>6, <1>7, <3>1 DEF Range
    <3>2. CASE i > k
      <4>1. i + 1 \in 1..n + 1 /\ i + 1 > k + 1 /\ (i + 1) - 1 = i  BY <1>1, <1>5, <3>2
      <4>2. s[i + 1] = candles[i]  BY <1>6, <4>1
      <4>3. QED  BY <1>7, <4>1, <4>2 DEF Range
    <3>3. QED  BY <1>5, <3>1, <3>2
  <2>4. QED  BY <1>4, <2>1, <2>2, <2>3
<1>11. ASSUME NEW i \in 1..n + 1, NEW j \in 1..n + 1, i < j
       PROVE  s[i].time < s[j].time
  <2>1. k \in Int  BY <1>5
  <2>2. CASE j <= k
    BY <1>2, <1>6, <1>11, <2>1, <2>2
  <2>3. CASE j = k + 1
    <3>1. i <= k  BY <1>11, <2>1, <2>3
    <3>2. QED  BY <1>5, <1>6, <2>3, <3>1
  <2>4. CASE j > k + 1
    <3>1. j - 1 \in 1..n /\ j - 1 > k /\ s[j] = candles[j - 1]  BY <1>6, <2>1, <2>4
    <3>2. CASE i <= k
      <4>1. i \in 1..n /\ s[i] = candles[i] /\ i < j - 1  BY <1>6, <2>1, <3>1, <3>2
      <4>2. QED  BY <1>2, <3>1, <4>1
    <3>3. CASE i = k + 1
      BY <1>1, <1>5, <1>6, <3>1, <3>3
    <3>4. CASE i > k + 1
      <4>1. i - 1 \in 1..n /\ s[i] = candles[i - 1] /\ i - 1 < j - 1  BY <1>6, <1>11, <3>4
      <4>2. QED  BY <1>2, <3>1, <4>1
    <3>5. QED  BY <2>1, <3>2, <3>3, <3>4
  <2>5. QED  BY <2>1, <2>2, <2>3, <2>4
<1>12. QED  BY <1>9, <1>10, <1>11 DEF R

(* The sorted buffer with one candle more.                                   *)
LEMMA SortedIs ==
  ASSUME NEW candles \in Seq(Bar), Ordered(candles), NEW c \in Bar,
         c.time \notin TimesOf(candles)
  PROVE  LET s == InOrder(Append(candles, c))
         IN  /\ s \in Seq(Bar) /\ Len(s) = Len(candles) + 1 /\ Ordered(s)
             /\ TimesOf(s) = TimesOf(candles) \cup {c.time}
<1> DEFINE n == Len(candles)
           all == Append(candles, c)
           R == Range(all)
           IsOrder(s) == /\ Range(s) = R
                         /\ \A i, j \in 1..Len(all) : i < j => s[i].time < s[j].time
           s == InOrder(all)
<1>1. n \in Nat /\ Len(all) = n + 1 /\ all \in Seq(Bar)
  OBVIOUS
<1>2. \E x \in [1..Len(all) -> R] : IsOrder(x)
  BY <1>1, OrderExists
<1>3. s \in [1..Len(all) -> R] /\ IsOrder(s)
  <2>1. s = CHOOSE x \in [1..Len(all) -> R] : IsOrder(x)
    BY DEF InOrder
  <2> HIDE DEF s, R, IsOrder, all
  <2>2. QED  BY <1>2, <2>1
<1>4. R = {candles[i] : i \in 1..n} \cup {c}
  <2>1. /\ DOMAIN all = 1..n + 1
        /\ \A i \in 1..n : all[i] = candles[i]
        /\ all[n + 1] = c
    OBVIOUS
  <2>2. \A i \in 1..n + 1 : i \in 1..n \/ i = n + 1  BY <1>1
  <2>3. \A i \in 1..n : i \in 1..n + 1  BY <1>1
  <2>4. n + 1 \in 1..n + 1  BY <1>1
  <2> HIDE DEF all
  <2>5. QED  BY <2>1, <2>2, <2>3, <2>4 DEF Range
<1>5. R \subseteq Bar
  BY <1>4
<1> HIDE DEF s, all
<1>6. s \in [1..n + 1 -> R] /\ Range(s) = R
      /\ \A i, j \in 1..n + 1 : i < j => s[i].time < s[j].time
  BY <1>1, <1>3
<1> HIDE DEF R
<1>7. s \in Seq(Bar) /\ Len(s) = n + 1
  <2>1. s \in [1..n + 1 -> Bar] /\ n + 1 \in Nat  BY <1>1, <1>5, <1>6
  <2>2. QED  BY <2>1
<1>8. Ordered(s)  BY <1>6, <1>7 DEF Ordered
<1>9. TimesOf(s) = {b.time : b \in R}
  <2>1. R = {s[i] : i \in 1..n + 1}  BY <1>6 DEF Range
  <2>2. QED  BY <1>7, <2>1 DEF TimesOf
<1>10. TimesOf(s) = TimesOf(candles) \cup {c.time}
  <2>1. \A i \in 1..n : candles[i] \in R  BY <1>4
  <2>2. \A b \in R : b = c \/ \E i \in 1..n : b = candles[i]  BY <1>4
  <2>3. c \in R  BY <1>4
  <2>4. TimesOf(candles) = {candles[i].time : i \in 1..n}  BY DEF TimesOf
  <2>5. QED  BY <1>9, <2>1, <2>2, <2>3, <2>4
<1>11. QED  BY <1>7, <1>8, <1>10 DEF s, all

(* A candle that is added leaves the newest, with it or without.             *)
LEMMA AddKeeps ==
  ASSUME NEW candles, NEW given \in SUBSET Int, Newest(candles, given), NEW c \in Bar
  PROVE  Newest(Add(candles, c), given \cup {c.time})
<1> DEFINE n == Len(candles)
           now == given \cup {c.time}
<1>1. /\ candles \in Seq(Bar) /\ Ordered(candles) /\ n \in Nat /\ n <= BufferSize
      /\ BufferSize \in Nat /\ TimesOf(candles) \subseteq given
      /\ n < BufferSize => given \subseteq TimesOf(candles)
      /\ \A t \in given : t \in TimesOf(candles) \/ \A u \in TimesOf(candles) : t < u
  BY MarketAssumption DEF Newest
<1>2. c.time \in Int  BY DEF Bar
<1>3. Places(candles, c.time) # {} <=> c.time \in TimesOf(candles)
  BY DEF Places, TimesOf
<1>4. CASE c.time \in TimesOf(candles)
  <2> DEFINE new == [i \in 1..n |-> IF candles[i].time = c.time THEN c ELSE candles[i]]
  <2>1. Add(candles, c) = new
    BY <1>3, <1>4 DEF Add
  <2>2. \A i \in 1..n : candles[i] \in Bar /\ new[i] \in Bar /\ new[i].time = candles[i].time
    BY <1>1
  <2>3. new \in Seq(Bar) /\ Len(new) = n
    <3>1. new \in [1..n -> Bar]  BY <2>2
    <3> HIDE DEF new
    <3>2. QED  BY <1>1, <3>1
  <2> HIDE DEF new
  <2>4. Ordered(new)  BY <1>1, <2>2, <2>3 DEF Ordered
  <2>5. TimesOf(new) = TimesOf(candles)  BY <2>2, <2>3 DEF TimesOf
  <2>6. now = given  BY <1>1, <1>4
  <2>7. QED  BY <1>1, <2>1, <2>3, <2>4, <2>5, <2>6 DEF Newest
<1>5. CASE c.time \notin TimesOf(candles)
  <2> DEFINE s == InOrder(Append(candles, c))
  <2>1. /\ s \in Seq(Bar) /\ Len(s) = n + 1 /\ Ordered(s)
        /\ TimesOf(s) = TimesOf(candles) \cup {c.time}
    BY <1>1, <1>5, SortedIs
  <2>2. Add(candles, c) = IF Len(s) > BufferSize THEN Tail(s) ELSE s
    BY <1>3, <1>5 DEF Add
  <2> HIDE DEF s
  <2>3. CASE n < BufferSize
    <3>1. Add(candles, c) = s /\ Len(s) <= BufferSize  BY <1>1, <2>1, <2>2, <2>3
    <3>2. TimesOf(s) = now  BY <1>1, <2>1, <2>3
    <3>3. QED  BY <2>1, <3>1, <3>2 DEF Newest
  <2>4. CASE n = BufferSize
    <3> DEFINE b == Tail(s)
               low == s[1].time
    <3>1. Add(candles, c) = b  BY <1>1, <2>1, <2>2, <2>4
    <3>2. /\ b \in Seq(Bar) /\ Len(b) = n /\ \A i \in 1..n : i + 1 \in 1..n + 1 /\ b[i] = s[i + 1]
      <4>1. s # <<>>  BY <1>1, <2>1
      <4>2. QED  BY <1>1, <2>1, <4>1
    <3> HIDE DEF b
    <3>3. \A i, j \in 1..n + 1 : i < j => s[i].time < s[j].time
      BY <2>1 DEF Ordered
    <3>4. Ordered(b)
      <4>1. ASSUME NEW i \in 1..n, NEW j \in 1..n, i < j PROVE b[i].time < b[j].time
        <5>1. i + 1 \in 1..n + 1 /\ j + 1 \in 1..n + 1 /\ i + 1 < j + 1  BY <1>1, <4>1
        <5>2. QED  BY <3>2, <3>3, <5>1
      <4>2. QED  BY <3>2, <4>1 DEF Ordered
    <3>5. 1 \in 1..n + 1  BY <1>1
    <3>6. \A u \in TimesOf(b) : u \in TimesOf(s) /\ low < u
      BY <1>1, <2>1, <3>2, <3>3, <3>5 DEF TimesOf
    <3>7. \A u \in TimesOf(s) : u = low \/ u \in TimesOf(b)
      <4>1. ASSUME NEW i \in 1..n + 1, i # 1 PROVE s[i].time \in TimesOf(b)
        <5>1. i - 1 \in 1..n /\ (i - 1) + 1 = i  BY <1>1, <4>1
        <5>2. b[i - 1] = s[i]  BY <3>2, <5>1
        <5>3. QED  BY <3>2, <5>1, <5>2 DEF TimesOf
      <4>2. QED  BY <2>1, <4>1 DEF TimesOf
    <3>8. low \in TimesOf(s)  BY <2>1, <3>5 DEF TimesOf
    <3>9. TimesOf(s) \subseteq Int /\ now \subseteq Int
      BY <1>1, <1>2, <2>1
    <3> HIDE DEF low
    <3>10. ASSUME NEW t \in now, t \notin TimesOf(b), NEW u \in TimesOf(b) PROVE t < u
      <4>1. u \in TimesOf(s) /\ low < u  BY <3>6
      <4>2. CASE t \in TimesOf(s)
        BY <3>7, <3>10, <4>1, <4>2
      <4>3. CASE t \notin TimesOf(s)
        <5>1. t \in given /\ \A v \in TimesOf(candles) : t < v
          BY <1>1, <2>1, <3>10, <4>3
        <5>2. CASE u \in TimesOf(candles)
          BY <5>1, <5>2
        <5>3. CASE u = c.time
          <6>1. low \in TimesOf(candles)
            BY <1>2, <2>1, <3>8, <3>9, <4>1, <5>3
          <6>2. t < low /\ low < u  BY <4>1, <5>1, <6>1
          <6>3. QED  BY <3>8, <3>9, <4>1, <6>2
        <5>4. QED  BY <2>1, <4>1, <5>2, <5>3
      <4>4. QED  BY <4>2, <4>3
    <3>11. TimesOf(b) \subseteq now  BY <1>1, <2>1, <3>6
    <3>12. QED  BY <1>1, <2>4, <3>1, <3>2, <3>4, <3>10, <3>11 DEF Newest
  <2>5. QED  BY <1>1, <2>3, <2>4
<1>6. QED  BY <1>4, <1>5

(* What a buffer is by itself.                                               *)
Buffers == {b \in Seq(Bar) : Ordered(b) /\ Len(b) <= BufferSize}

(* A candle that is added leaves a buffer.                                   *)
LEMMA AddIsBuffer ==
  ASSUME NEW b \in Buffers, NEW c \in Bar
  PROVE  Add(b, c) \in Buffers
<1>1. TimesOf(b) \subseteq Int
  <2>1. \A i \in 1..Len(b) : b[i] \in Bar  BY DEF Buffers
  <2>2. QED  BY <2>1 DEF TimesOf, Bar
<1>2. Newest(b, TimesOf(b))  BY DEF Newest, Buffers
<1>3. Newest(Add(b, c), TimesOf(b) \cup {c.time})
  BY <1>1, <1>2, AddKeeps
<1>4. QED  BY <1>3 DEF Newest, Buffers

(* An answer, candle by candle.                                              *)
LEMMA LoadedKeeps ==
  ASSUME NEW candles, NEW given \in SUBSET Int, Newest(candles, given), NEW a \in Seq(Bar)
  PROVE  Newest(FoldLeft(Add, candles, a), given \cup {a[i].time : i \in DOMAIN a})
<1> DEFINE S == 1..Len(a)
           V == Buffers
           after(b, i) == Add(b, a[i])
           Eq(g) == g = [s \in SUBSET S |-> IF s = {} THEN candles ELSE after(g[s \ {Max(s)}], Max(s))]
           ch == [s \in SUBSET S |-> Max(s)]
           step == [x \in S \X V |-> after(x[2], x[1])]
           r == FoldLeft(Add, candles, a)
           Of(s) == given \cup {a[i].time : i \in s}
<1>1. Len(a) \in Nat /\ DOMAIN a = S /\ \A i \in S : a[i] \in Bar
  OBVIOUS
<1>2. IsFiniteSet(S)  BY <1>1, FS_Interval
<1>3. ASSUME NEW s \in SUBSET S, s # {} PROVE Max(s) \in s
  <2>1. S \subseteq Int  OBVIOUS
  <2> HIDE DEF S
  <2>2. IsFiniteSet(s) /\ s \subseteq Int  BY <1>2, <2>1, FS_Subset
  <2>3. QED  BY <1>3, <2>2, MaxOfSet
<1>4. ASSUME NEW b \in V, NEW i \in S PROVE after(b, i) \in V
  BY <1>1, AddIsBuffer
<1>5. candles \in V  BY DEF Newest, Buffers
<1>6. r = (CHOOSE g : Eq(g))[S]
  <2>1. r = (CHOOSE g : g = [s \in SUBSET DOMAIN a |->
                IF s = {} THEN candles ELSE Add(g[s \ {Max(s)}], a[Max(s)])])[DOMAIN a]
    BY DEF FoldLeft, MapThenFoldSet
  <2>2. QED  BY <1>1, <2>1
<1>7. \E g \in [SUBSET S -> V] : Eq(g)
  <2>1. step \in [S \X V -> V]
    <3> HIDE DEF after, V, S
    <3>1. QED  BY <1>4
  <2>2. \A s \in SUBSET S : s # {} => ch[s] \in s  BY <1>3
  <2> HIDE DEF step, ch
  <2>4. HasFold(S, V, candles, step, ch)
    <3> HIDE DEF S, V
    <3>1. QED  BY <1>2, <1>5, <2>1, <2>2, FoldExists
  <2> HIDE DEF V, after
  <2>5. PICK g \in [SUBSET S -> V] :
          \A s \in SUBSET S : g[s] = IF s = {} THEN candles ELSE step[<<ch[s], g[s \ {ch[s]}]>>]
    BY <2>4 DEF HasFold
  <2>6. ASSUME NEW s \in SUBSET S, s # {}
        PROVE  g[s] = after(g[s \ {Max(s)}], Max(s))
    <3>1. ch[s] = Max(s) /\ Max(s) \in S /\ g[s \ {Max(s)}] \in V
      BY <1>3, <2>6 DEF ch
    <3>2. step[<<Max(s), g[s \ {Max(s)}]>>] = after(g[s \ {Max(s)}], Max(s))
      BY <3>1 DEF step
    <3>3. QED  BY <2>5, <2>6, <3>1, <3>2
  <2>7. g = [s \in SUBSET S |-> IF s = {} THEN candles ELSE after(g[s \ {Max(s)}], Max(s))]
    BY <2>5, <2>6
  <2>8. QED  BY <2>7
<1> HIDE DEF V, r
<1>8. PICK g : Eq(g) /\ r = g[S]
  <2>1. \E g : Eq(g)  BY <1>7
  <2> HIDE DEF Eq
  <2>2. QED  BY <1>6, <2>1
<1> DEFINE T == {s \in SUBSET S : Newest(g[s], Of(s))}
<1>9. ASSUME NEW s \in SUBSET S, \A t \in SUBSET s : t # s => t \in T
      PROVE  Newest(g[s], Of(s))
  <2>1. CASE s = {}
    <3>1. g[s] = candles /\ Of(s) = given  BY <1>8, <2>1
    <3>2. QED  BY <3>1
  <2>2. CASE s # {}
    <3> DEFINE i == Max(s)
               u == s \ {i}
    <3>1. i \in s /\ i \in S  BY <1>3, <2>2
    <3>2. g[s] = Add(g[u], a[i])  BY <1>8, <2>2
    <3> HIDE DEF i
    <3>3. Newest(g[u], Of(u))
      <4>1. u \in SUBSET s /\ u # s  BY <3>1
      <4>2. u \in T
        <5> HIDE DEF T
        <5>1. QED  BY <1>9, <4>1
      <4>3. QED  BY <4>2
    <3>4. Of(u) \in SUBSET Int
      <4>1. \A j \in S : a[j].time \in Int  BY <1>1 DEF Bar
      <4>2. QED  BY <4>1
    <3>5. Of(s) = Of(u) \cup {a[i].time}  BY <3>1
    <3>6. a[i] \in Bar  BY <1>1, <3>1
    <3> HIDE DEF Of, u
    <3>7. QED  BY <3>2, <3>3, <3>4, <3>5, <3>6, AddKeeps
  <2>3. QED  BY <2>1, <2>2
<1>10. \A s \in SUBSET S : (\A t \in SUBSET s : t # s => t \in T) => s \in T
  BY <1>9
<1>11. S \in T
  <2> HIDE DEF T, S, Eq
  <2>1. QED  BY <1>2, <1>10, SetInduction
<1>12. QED  BY <1>1, <1>8, <1>11 DEF r

(* What the loaders carry and what the buffer holds.                         *)
BufferInv ==
  /\ minute \in Nat
  /\ answers \in [Loaders -> Seq(Bar)]
  /\ received \in SUBSET Int /\ IsFiniteSet(received)
  /\ Newest(buffer, received)

(* The buffer starts empty.                                                  *)
LEMMA InitBuffer == BufferInit => BufferInv
<1> SUFFICES ASSUME BufferInit PROVE BufferInv
  OBVIOUS
<1>1. BufferSize \in Nat  BY MarketAssumption
<1>2. Newest(<<>>, {})
  BY <1>1 DEF Newest, Ordered, TimesOf
<1>3. answers \in [Loaders -> Seq(Bar)]
  <2>1. <<>> \in Seq(Bar)  OBVIOUS
  <2>2. QED  BY <2>1 DEF BufferInit, Nothing
<1>4. QED  BY <1>2, <1>3, FS_EmptySet DEF BufferInit, BufferInv

(* A row of candles is a sequence of candles.                                *)
LEMMA RowOfBars ==
  ASSUME NEW n \in Nat, NEW f \in [1..n -> Bar]
  PROVE  f \in Seq(Bar)
OBVIOUS

(* A request.                                                                *)
LEMMA AskKeeps == ASSUME BufferInv, NEW loader \in Loaders, Ask(loader) PROVE BufferInv'
<1>1. PICK k \in {Min({Asked(loader), minute})} :
        answers' = [answers EXCEPT ![loader] = [i \in 1..k |-> [time |-> minute + 1 - i, closed |-> i > 1]]]
  BY DEF Ask
<1>2. minute \in Nat /\ Asked(loader) \in Nat  BY DEF BufferInv, Asked
<1>3. k \in Nat  BY <1>2, MinMaxOfTwo
<1> DEFINE page == [i \in 1..k |-> [time |-> minute + 1 - i, closed |-> i > 1]]
<1>4. page \in Seq(Bar)
  <2>1. \A i \in 1..k : page[i] \in Bar
    <3>1. \A i \in 1..k : minute + 1 - i \in Int /\ (i > 1) \in BOOLEAN  BY <1>2, <1>3
    <3>2. QED  BY <3>1 DEF Bar
  <2>2. page \in [1..k -> Bar]  BY <2>1
  <2> HIDE DEF page
  <2>3. QED  BY <1>3, <2>2, RowOfBars
<1>5. answers' \in [Loaders -> Seq(Bar)]
  <2> HIDE DEF page
  <2>1. answers' = [answers EXCEPT ![loader] = page]  BY <1>1 DEF page
  <2>2. QED  BY <1>4, <2>1 DEF BufferInv
<1>6. QED  BY <1>5 DEF Ask, BufferInv

(* An answer is stored.                                                      *)
LEMMA LoadKeeps == ASSUME BufferInv, NEW loader \in Loaders, Load(loader) PROVE BufferInv'
<1> DEFINE a == answers[loader]
           times == {a[i].time : i \in DOMAIN a}
<1>1. a \in Seq(Bar) /\ received \in SUBSET Int /\ IsFiniteSet(received) /\ Newest(buffer, received)
  BY DEF BufferInv
<1>2. /\ buffer' = FoldLeft(Add, buffer, a)
      /\ received' = received \cup times
      /\ answers' = [answers EXCEPT ![loader] = Nothing]
      /\ minute' = minute
  BY DEF Load
<1> HIDE DEF a
<1>3. Newest(buffer', received')
  BY <1>1, <1>2, LoadedKeeps
<1>4. times \subseteq Int /\ IsFiniteSet(times)
  <2>1. DOMAIN a = 1..Len(a) /\ Len(a) \in Nat /\ \A i \in DOMAIN a : a[i] \in Bar  BY <1>1
  <2>2. IsFiniteSet(DOMAIN a)  BY <2>1, FS_Interval
  <2> DEFINE f == [i \in DOMAIN a |-> a[i].time]
  <2>3. times \subseteq Int  BY <2>1 DEF Bar
  <2>4. f \in Surjection(DOMAIN a, times)  BY DEF Surjection
  <2> HIDE DEF f, times
  <2>5. QED  BY <2>2, <2>3, <2>4, FS_Surjection
<1>5. IsFiniteSet(received')
  <2> HIDE DEF times
  <2>1. QED  BY <1>1, <1>2, <1>4, FS_Union
<1>6. answers' \in [Loaders -> Seq(Bar)]
  <2>1. <<>> \in Seq(Bar)  OBVIOUS
  <2>2. QED  BY <1>2, <2>1 DEF BufferInv, Nothing
<1>7. received' \in SUBSET Int /\ minute' \in Nat  BY <1>1, <1>2, <1>4 DEF BufferInv
<1>8. QED  BY <1>3, <1>5, <1>6, <1>7 DEF BufferInv

(* Every step.                                                               *)
LEMMA BufferStep == BufferInv /\ [BufferNext]_bufferVars => BufferInv'
<1> SUFFICES ASSUME BufferInv, [BufferNext]_bufferVars PROVE BufferInv'
  OBVIOUS
<1>1. ASSUME NEW l \in Loaders, Ask(l) \/ Fail(l) \/ Load(l) PROVE BufferInv'
  <2>1. CASE Fail(l)
    <3>1. <<>> \in Seq(Bar)  OBVIOUS
    <3>2. QED  BY <2>1, <3>1 DEF Fail, BufferInv, Nothing
  <2>2. QED  BY <1>1, <2>1, AskKeeps, LoadKeeps
<1>2. CASE NextMinute
  BY <1>2 DEF NextMinute, BufferInv
<1>3. CASE UNCHANGED bufferVars
  BY <1>3 DEF bufferVars, BufferInv
<1>4. QED  BY <1>1, <1>2, <1>3 DEF BufferNext

(* What the invariant says of the buffer: its length is the number of        *)
(* minutes, for no two of its candles are of the same.                       *)
LEMMA BufferSound == BufferInv => BufferKeepsNewest
<1> SUFFICES ASSUME BufferInv PROVE BufferKeepsNewest
  OBVIOUS
<1> DEFINE n == Len(buffer)
           T == TimesOf(buffer)
<1>1. /\ buffer \in Seq(Bar) /\ n \in Nat /\ n <= BufferSize /\ T \subseteq received
      /\ n < BufferSize => received \subseteq T
      /\ \A t \in received : t \in T \/ \A u \in T : t < u
      /\ \A i, j \in 1..n : i < j => buffer[i].time < buffer[j].time
      /\ received \subseteq Int /\ IsFiniteSet(received) /\ BufferSize \in Nat
  BY MarketAssumption DEF BufferInv, Newest, Ordered
<1>2. \A i \in 2..n : buffer[i - 1].time < buffer[i].time
  <2>1. \A i \in 2..n : i - 1 \in 1..n /\ i \in 1..n /\ i - 1 < i  BY <1>1
  <2>2. QED  BY <1>1, <2>1
<1>3. \A i \in 1..n : buffer[i] \in Bar /\ buffer[i].time \in Int
  <2>1. \A i \in 1..n : buffer[i] \in Bar  BY <1>1
  <2>2. \A b \in Bar : b.time \in Int  BY DEF Bar
  <2>3. QED  BY <2>1, <2>2
<1>4. Cardinality(T) = n
  <2> DEFINE f == [i \in 1..n |-> buffer[i].time]
  <2>1. \A i, j \in 1..n : f[i] = f[j] => i = j
    <3>1. ASSUME NEW i \in 1..n, NEW j \in 1..n, i # j PROVE buffer[i].time # buffer[j].time
      <4>1. i < j \/ j < i  BY <3>1
      <4>2. QED  BY <1>1, <1>3, <4>1
    <3>2. QED  BY <3>1
  <2>2. f \in Bijection(1..n, T)
    BY <2>1 DEF Bijection, Injection, Surjection, IsInjective, TimesOf
  <2> HIDE DEF f, T, n
  <2>3. IsFiniteSet(1..n) /\ Cardinality(1..n) = n
    <3>1. n \in Int /\ 1 \in Int /\ (IF 1 > n THEN 0 ELSE n - 1 + 1) = n  BY <1>1
    <3>2. QED  BY <3>1, FS_Interval
  <2>4. ExistsBijection(1..n, T)  BY <2>2 DEF ExistsBijection
  <2>5. QED  BY <2>3, <2>4, FS_Bijection
<1>5. n = Min({BufferSize, Cardinality(received)})
  <2> HIDE DEF T, n
  <2>1. Cardinality(received) \in Nat  BY <1>1, FS_CardinalityType
  <2>2. n <= Cardinality(received)
    BY <1>1, <1>4, FS_Subset
  <2>3. Min({BufferSize, Cardinality(received)})
          = IF BufferSize <= Cardinality(received) THEN BufferSize ELSE Cardinality(received)
    BY <1>1, <2>1, MinMaxOfTwo
  <2>4. CASE n < BufferSize
    <3>1. received = T  BY <1>1, <2>4
    <3>2. QED  BY <1>1, <1>4, <2>1, <2>3, <2>4, <3>1
  <2>5. CASE n = BufferSize
    BY <1>1, <2>1, <2>2, <2>3, <2>5
  <2>6. QED  BY <1>1, <2>4, <2>5
<1>6. ASSUME NEW t \in received
      PROVE  Places(buffer, t) # {} \/ (\A i \in 1..n : t < buffer[i].time)
  <2>1. CASE t \in T
    BY <2>1 DEF Places, TimesOf
  <2>2. CASE \A u \in T : t < u
    BY <2>2 DEF TimesOf
  <2>3. QED  BY <1>1, <2>1, <2>2
<1>7. QED  BY <1>2, <1>5, <1>6 DEF BufferKeepsNewest

-------------------------------------------------------------------------------
(* CandleHistory                                                            *)

(* The newest K of a set: what is left out is older than all of them, and   *)
(* there are K.                                                             *)
LEMMA NewestOf ==
  ASSUME NEW S, IsFiniteSet(S), S \subseteq Int, NEW K \in Nat, NEW x \in S,
         ~(Cardinality({u \in S : u > x}) < K)
  PROVE  LET T == {t \in S : Cardinality({u \in S : u > t}) < K}
         IN  Cardinality(T) = K /\ \A y \in T : x < y
<1> DEFINE above(t) == {u \in S : u > t}
           T == {t \in S : Cardinality(above(t)) < K}
           O == S \ T
           m == Max(O)
<1>1. \A t \in S : IsFiniteSet(above(t)) /\ Cardinality(above(t)) \in Nat
  <2>1. \A t \in S : above(t) \subseteq S  OBVIOUS
  <2> HIDE DEF above
  <2>2. QED  BY <2>1, FS_Subset, FS_CardinalityType
<1>2. IsFiniteSet(T) /\ IsFiniteSet(O) /\ O \subseteq Int /\ x \in O /\ Cardinality(T) \in Nat
  <2>1. T \subseteq S /\ O \subseteq S /\ x \in O  OBVIOUS
  <2> HIDE DEF T, O
  <2>2. QED  BY <2>1, FS_Subset, FS_CardinalityType
<1>3. m \in O /\ \A y \in O : m >= y
  <2> HIDE DEF O
  <2>1. QED  BY <1>2, MaxOfSet
<1> HIDE DEF m
<1>4. m \in S /\ m \in Int /\ Cardinality(above(m)) >= K
  <2>1. m \in S /\ ~(Cardinality(above(m)) < K)  BY <1>3
  <2> HIDE DEF above
  <2>2. QED  BY <1>1, <2>1
<1>5. above(m) \subseteq T
  <2>1. ASSUME NEW u \in S, u > m, u \notin T PROVE FALSE
    <3>1. u \in O  BY <2>1
    <3>2. m >= u /\ u \in Int  BY <1>3, <3>1
    <3>3. QED  BY <1>4, <2>1, <3>2
  <2>2. QED  BY <2>1
<1>6. ASSUME NEW y \in T PROVE y > m
  <2>1. y \in S /\ y \in Int /\ Cardinality(above(y)) < K /\ y # m
    BY <1>3
  <2>2. CASE y < m
    <3>1. ASSUME NEW u \in above(m) PROVE u \in above(y)
      <4>1. u \in S /\ u \in Int /\ u > m  OBVIOUS
      <4>2. u > y  BY <1>4, <2>1, <2>2, <4>1
      <4>3. QED  BY <4>1, <4>2
    <3> HIDE DEF above
    <3>2. Cardinality(above(m)) <= Cardinality(above(y))  BY <1>1, <2>1, <3>1, FS_Subset
    <3>3. QED  BY <1>1, <1>4, <2>1, <3>2
  <2>3. QED  BY <1>4, <2>1, <2>2
<1>7. T = above(m)
  BY <1>5, <1>6
<1>8. Cardinality(T) >= K
  <2> HIDE DEF T, above
  <2>1. QED  BY <1>4, <1>7
<1>9. Cardinality(T) <= K
  <2>1. CASE T = {}
    <3> HIDE DEF T
    <3>1. QED  BY <2>1, FS_EmptySet
  <2>2. CASE T # {}
    <3> DEFINE l == Min(T)
               rest == T \ {l}
    <3>1. T \subseteq Int  OBVIOUS
    <3>2. l \in T /\ \A y \in T : l <= y
      <4> HIDE DEF T
      <4>1. QED  BY <1>2, <2>2, <3>1, MinOfSet
    <3> HIDE DEF l
    <3>3. rest \subseteq above(l) /\ l \in S /\ Cardinality(above(l)) < K
      <4>1. l \in S /\ l \in Int /\ Cardinality(above(l)) < K  BY <3>2
      <4>2. ASSUME NEW y \in rest PROVE y \in above(l)
        <5>1. y \in S /\ y \in Int /\ y # l /\ l <= y  BY <3>2
        <5>2. y > l  BY <4>1, <5>1
        <5>3. QED  BY <5>1, <5>2
      <4>3. QED  BY <4>1, <4>2
    <3> HIDE DEF T, above
    <3>4. IsFiniteSet(rest) /\ Cardinality(rest) = Cardinality(T) - 1
      BY <1>2, <3>2, FS_RemoveElement
    <3> HIDE DEF rest
    <3>5. Cardinality(rest) <= Cardinality(above(l)) /\ Cardinality(above(l)) \in Nat
      BY <1>1, <3>3, FS_Subset
    <3>6. QED  BY <1>2, <3>3, <3>4, <3>5
  <2>3. QED  BY <2>1, <2>2
<1>10. Cardinality(T) = K
  <2> HIDE DEF T
  <2>1. QED  BY <1>2, <1>8, <1>9
<1>11. \A y \in T : x < y
  BY <1>2, <1>3, <1>4, <1>6
<1>12. QED  BY <1>10, <1>11

(* What a page holds, and that what it does not hold of the times asked for  *)
(* is older than all of it, and it is full.                                  *)
LEMMA PageIs ==
  ASSUME exchange.traded \subseteq Times, NEW to \in Int, present \in Int, to <= present
  PROVE  /\ \A t \in Page(to) : t \in Times /\ t <= present /\ t <= to
         /\ \A t \in exchange.traded :
              t < to \/ (exchange.inclusive /\ t = to)
              => t \in Page(to) \/ (/\ Cardinality(Page(to)) = PageSize /\ Page(to) # {}
                                    /\ \A u \in Page(to) : t < u)
<1> DEFINE known == {t \in exchange.traded : t <= present /\ (t < to \/ (exchange.inclusive /\ t = to))}
<1>1. PageSize \in Nat \ {0} /\ LastTime \in Nat  BY HistoryAssumption
<1>2. Page(to) = {t \in known : Cardinality({u \in known : u > t}) < PageSize}
  BY DEF Page
<1>3. \A t \in known : t \in Times /\ t \in Int /\ t <= present /\ t <= to
  BY DEF Times
<1>4. known \subseteq Int /\ IsFiniteSet(known)
  <2>1. IsFiniteSet(Times)
    BY <1>1, FS_Interval, 0 \in Int, LastTime \in Int DEF Times
  <2>2. known \subseteq Times  BY <1>3
  <2> HIDE DEF known
  <2>3. QED  BY <1>3, <2>1, <2>2, FS_Subset
<1>5. \A t \in exchange.traded : t < to \/ (exchange.inclusive /\ t = to) => t \in known
  <2>1. \A t \in exchange.traded : t \in Int  BY DEF Times
  <2>2. QED  BY <2>1
<1> HIDE DEF known
<1>6. ASSUME NEW t \in known, t \notin Page(to)
      PROVE  Cardinality(Page(to)) = PageSize /\ Page(to) # {} /\ \A u \in Page(to) : t < u
  <2>1. ~(Cardinality({u \in known : u > t}) < PageSize)
    BY <1>2, <1>6
  <2>2. Cardinality(Page(to)) = PageSize /\ \A u \in Page(to) : t < u
    BY <1>1, <1>2, <1>4, <2>1, NewestOf
  <2>3. Page(to) # {}
    BY <1>1, <2>2, FS_EmptySet
  <2>4. QED  BY <2>2, <2>3
<1>7. QED  BY <1>2, <1>3, <1>5, <1>6

Piece == [from : Int, to : Int]

PageRow == [time : Times, as : {"final", "open"}]

Fetching ==
  [stage : {"ask", "store"}, from : Int, to : Int, later : Seq(Piece),
   page : SUBSET PageRow, full : BOOLEAN, crossed : BOOLEAN]

(* The times a request has still to ask for.                                *)
ToCome(t, x, inclusive) ==
  /\ x # Done
  /\ \/ x.from <= t /\ (t < x.to \/ (inclusive /\ t = x.to /\ x.from < x.to))
     \/ \E r \in ToSet(x.later) : r.from <= t /\ t < r.to

(* What a page in hand holds, of what there was when it was asked for.      *)
PageOK(x, now, table, market) ==
  /\ x.from < x.to
  /\ \A c \in x.page : /\ c.time <= now /\ c.time <= x.to
                       /\ c.as = "final" => c.time < now
                       /\ c.as = "open" /\ ~x.crossed => table[c.time] # "final"
  /\ \A t \in market.traded :
       x.from <= t /\ (t < x.to \/ (market.inclusive /\ t = x.to))
       => \/ \E c \in x.page : c.time = t
          \/ x.full /\ x.page # {} /\ \A c \in x.page : t < c.time

FetchOK(x, now, table, market) ==
  x # Done =>
    /\ x \in Fetching
    /\ x.to <= now
    /\ \A r \in ToSet(x.later) : r \in Piece /\ r.to <= now
    /\ x.stage = "store" => PageOK(x, now, table, market)

TableOK ==
  /\ present \in Nat \ {0}
  /\ exchange.traded \subseteq Times /\ exchange.inclusive \in BOOLEAN
  /\ rows \in [Times -> {"none", "open", "final"}]
  /\ \A t \in Stored : t <= present /\ (rows[t] = "final" => t < present)
  /\ run \in {"idle", "checked", "loaded"} /\ (run = "checked" => Stored # {})
  /\ undone = {}

FetchesOK ==
  /\ fetch = [f \in Fetchers |-> fetch[f]]
  /\ \A f \in Fetchers : FetchOK(fetch[f], present, rows, exchange)

NothingMissed ==
  \A t \in asked \cap exchange.traded :
    t \in lost \/ t \in Stored \/ \E f \in Fetchers : ToCome(t, fetch[f], exchange.inclusive)

HistoryInv == TableOK /\ FetchesOK /\ NothingMissed

(* Done is no request at work.                                              *)
LEMMA DoneIsNone == Done \notin Fetching
<1>1. SUFFICES ASSUME Done \in Fetching PROVE FALSE  OBVIOUS
<1>2. Done.stage \in {"ask", "store"}  BY <1>1 DEF Fetching
<1>3. QED  BY <1>2 DEF Done

(* A request that begins is well formed and has all its ranges before it.   *)
LEMMA BeginIs ==
  ASSUME NEW f, NEW ranges \in Seq(Piece), NEW now \in Int, NEW table, NEW market, NEW inclusive,
         \A r \in ToSet(ranges) : r.to <= now
  PROVE  /\ FetchOK(Begin(f, ranges), now, table, market)
         /\ \A t : (\E r \in ToSet(ranges) : r.from <= t /\ t < r.to) => ToCome(t, Begin(f, ranges), inclusive)
<1>1. CASE ranges = <<>>
  <2>1. Begin(f, ranges) = Done  BY <1>1 DEF Begin
  <2>2. ToSet(ranges) = {}  BY <1>1 DEF ToSet
  <2>3. QED  BY <2>1, <2>2 DEF FetchOK
<1>2. CASE ranges # <<>>
  <2> DEFINE x == Begin(f, ranges)
  <2>1. Head(ranges) \in Piece /\ Tail(ranges) \in Seq(Piece)
    BY <1>2
  <2>2. ToSet(ranges) = {Head(ranges)} \cup ToSet(Tail(ranges))
    <3>1. Len(ranges) \in Nat /\ Len(ranges) >= 1 /\ Len(Tail(ranges)) = Len(ranges) - 1
          /\ \A i \in 1..Len(ranges) - 1 : Tail(ranges)[i] = ranges[i + 1]
      BY <1>2
    <3>2. ASSUME NEW r \in ToSet(ranges) PROVE r = Head(ranges) \/ r \in ToSet(Tail(ranges))
      <4>1. PICK i \in 1..Len(ranges) : r = ranges[i]  BY <3>2 DEF ToSet
      <4>2. CASE i = 1  BY <1>2, <4>1, <4>2
      <4>3. CASE i # 1
        <5>1. i - 1 \in 1..Len(Tail(ranges)) /\ Tail(ranges)[i - 1] = r
          BY <3>1, <4>1, <4>3
        <5>2. DOMAIN Tail(ranges) = 1..Len(Tail(ranges))  BY <2>1
        <5>3. QED  BY <5>1, <5>2 DEF ToSet
      <4>4. QED  BY <4>2, <4>3
    <3>3. ASSUME NEW r \in ToSet(Tail(ranges)) PROVE r \in ToSet(ranges)
      <4>1. PICK i \in 1..Len(Tail(ranges)) : r = Tail(ranges)[i]  BY <2>1, <3>3 DEF ToSet
      <4>2. i + 1 \in 1..Len(ranges) /\ ranges[i + 1] = r  BY <3>1, <4>1
      <4>3. QED  BY <4>2 DEF ToSet
    <3>4. Head(ranges) \in ToSet(ranges)
      <4>1. 1 \in 1..Len(ranges) /\ Head(ranges) = ranges[1] /\ DOMAIN ranges = 1..Len(ranges)
        BY <1>2, <3>1
      <4>2. QED  BY <4>1 DEF ToSet
    <3>5. QED  BY <3>2, <3>3, <3>4
  <2>3. \A r \in ToSet(Tail(ranges)) : r \in Piece
    BY <2>1 DEF ToSet
  <2>4. x = [stage |-> "ask", from |-> Head(ranges).from, to |-> Head(ranges).to,
             later |-> Tail(ranges), page |-> {}, full |-> FALSE, crossed |-> FALSE]
    BY <1>2 DEF Begin
  <2>5. Head(ranges).from \in Int /\ Head(ranges).to \in Int  BY <2>1 DEF Piece
  <2> HIDE DEF x
  <2>6. x \in Fetching /\ x.stage = "ask" /\ x.from = Head(ranges).from /\ x.to = Head(ranges).to
        /\ x.later = Tail(ranges)
    BY <2>1, <2>4, <2>5 DEF Fetching
  <2>7. x # Done  BY <2>6, DoneIsNone
  <2>8. FetchOK(x, now, table, market)
    BY <2>2, <2>3, <2>6 DEF FetchOK
  <2>9. \A t : (\E r \in ToSet(ranges) : r.from <= t /\ t < r.to) => ToCome(t, x, inclusive)
    BY <2>2, <2>6, <2>7 DEF ToCome
  <2>10. QED  BY <2>8, <2>9 DEF x
<1>3. QED  BY <1>1, <1>2

(* What is true of a request stays true as time passes, and as others store  *)
(* their pages if it is marked as crossed by them.                           *)
LEMMA TimeKeepsFetch ==
  ASSUME NEW x, NEW now \in Int, NEW table, NEW market, FetchOK(x, now, table, market)
  PROVE  FetchOK(x, now + 1, table, market)
<1>1. CASE x = Done  BY <1>1 DEF FetchOK
<1>2. CASE x # Done
  <2>1. x \in Fetching /\ x.to \in Int /\ x.to <= now  BY <1>2 DEF FetchOK, Fetching
  <2>2. x.to <= now + 1  BY <2>1
  <2>3. ASSUME NEW r \in ToSet(x.later) PROVE r \in Piece /\ r.to <= now + 1
    <3>1. r \in Piece /\ r.to <= now  BY <1>2 DEF FetchOK
    <3>2. r.to \in Int  BY <3>1 DEF Piece
    <3>3. QED  BY <3>1, <3>2
  <2>4. ASSUME x.stage = "store" PROVE PageOK(x, now + 1, table, market)
    <3>1. PageOK(x, now, table, market)  BY <1>2, <2>4 DEF FetchOK
    <3>2. \A c \in x.page : c.time \in Int  BY <2>1 DEF Fetching, PageRow, Times
    <3>3. \A c \in x.page : c.time <= now + 1 /\ (c.as = "final" => c.time < now + 1)
      BY <3>1, <3>2 DEF PageOK
    <3>4. QED  BY <3>1, <3>3 DEF PageOK
  <2>5. QED  BY <2>1, <2>2, <2>3, <2>4 DEF FetchOK
<1>3. QED  BY <1>1, <1>2

(* One request goes on, and the table stays: nothing is missed where what it *)
(* has no longer before it is stored, or known to be lost.                   *)
LEMMA OneGoesOn ==
  ASSUME HistoryInv, NEW f \in Fetchers, NEW x, FetchOK(x, present, rows, exchange),
         fetch' = [fetch EXCEPT ![f] = x],
         UNCHANGED <<exchange, present, rows, run, undone>>,
         \A t \in asked' \cap exchange.traded :
           \/ t \in lost' \/ t \in Stored \/ ToCome(t, x, exchange.inclusive)
           \/ t \in asked /\ (t \in lost => t \in lost') /\ ~ToCome(t, fetch[f], exchange.inclusive)
  PROVE  HistoryInv'
<1>1. TableOK'
  BY DEF HistoryInv, TableOK, Stored
<1>2. fetch' = [g \in Fetchers |-> IF g = f THEN x ELSE fetch[g]]
  <2>1. fetch = [g \in Fetchers |-> fetch[g]]  BY DEF HistoryInv, FetchesOK
  <2>2. QED  BY <2>1
<1>3. FetchesOK'
  BY <1>2 DEF HistoryInv, FetchesOK
<1>4. ASSUME NEW t \in asked' \cap exchange.traded
      PROVE  t \in lost' \/ t \in Stored' \/ \E g \in Fetchers : ToCome(t, fetch'[g], exchange.inclusive)
  <2>1. CASE t \in lost' \/ t \in Stored  BY <2>1 DEF Stored
  <2>2. CASE ToCome(t, x, exchange.inclusive)  BY <1>2, <2>2
  <2>3. CASE t \in asked /\ (t \in lost => t \in lost') /\ ~ToCome(t, fetch[f], exchange.inclusive)
    <3>1. t \in lost \/ t \in Stored \/ \E g \in Fetchers : ToCome(t, fetch[g], exchange.inclusive)
      BY <1>4, <2>3 DEF HistoryInv, NothingMissed
    <3>2. \A g \in Fetchers : ToCome(t, fetch[g], exchange.inclusive) => fetch'[g] = fetch[g]
      BY <1>2, <2>3
    <3>3. QED  BY <2>3, <3>1, <3>2 DEF Stored
  <2>4. QED  BY <1>4, <2>1, <2>2, <2>3
<1>5. NothingMissed'
  BY <1>4 DEF NothingMissed
<1>6. QED  BY <1>1, <1>3, <1>5 DEF HistoryInv

(* A request at work is one of those there are.                             *)
LEMMA AtWork ==
  ASSUME HistoryInv, NEW f \in Fetchers, fetch[f].stage \in {"ask", "store"}
  PROVE  /\ fetch[f] # Done /\ fetch[f] \in Fetching
         /\ fetch[f].from \in Int /\ fetch[f].to \in Int /\ fetch[f].to <= present
         /\ fetch[f].later \in Seq(Piece) /\ fetch[f].page \subseteq PageRow
         /\ \A r \in ToSet(fetch[f].later) : r \in Piece /\ r.to <= present
         /\ fetch[f].stage = "store" => PageOK(fetch[f], present, rows, exchange)
<1>1. fetch[f] # Done  BY DEF Done
<1>2. FetchOK(fetch[f], present, rows, exchange)  BY DEF HistoryInv, FetchesOK
<1>3. fetch[f] \in Fetching  BY <1>1, <1>2 DEF FetchOK
<1>4. /\ fetch[f].from \in Int /\ fetch[f].to \in Int
      /\ fetch[f].later \in Seq(Piece) /\ fetch[f].page \subseteq PageRow
  BY <1>3 DEF Fetching
<1>5. QED  BY <1>1, <1>2, <1>3, <1>4 DEF FetchOK

(* A request that begins: what it was for is stored, lost or in its ranges. *)
LEMMA RequestKeeps ==
  ASSUME HistoryInv, NEW f \in Fetchers, NEW ranges \in Seq(Piece), Request(f, ranges),
         \A r \in ToSet(ranges) : r.to <= present,
         \A t \in asked' \cap exchange.traded :
           \/ t \in lost' \/ t \in Stored \/ \E r \in ToSet(ranges) : r.from <= t /\ t < r.to
           \/ t \in asked /\ (t \in lost => t \in lost')
  PROVE  HistoryInv'
<1>1. present \in Int  BY DEF HistoryInv, TableOK
<1>2. FetchOK(Begin(f, ranges), present, rows, exchange)
      /\ \A t : (\E r \in ToSet(ranges) : r.from <= t /\ t < r.to) => ToCome(t, Begin(f, ranges), exchange.inclusive)
  <2> DEFINE b == exchange.inclusive
  <2> HIDE DEF b
  <2>1. FetchOK(Begin(f, ranges), present, rows, exchange)
        /\ \A t : (\E r \in ToSet(ranges) : r.from <= t /\ t < r.to) => ToCome(t, Begin(f, ranges), b)
    BY <1>1, BeginIs
  <2>2. QED  BY <2>1 DEF b
<1>3. fetch[f] = Done /\ fetch' = [fetch EXCEPT ![f] = Begin(f, ranges)]
      /\ UNCHANGED <<exchange, present, rows, run, undone>>
  BY DEF Request
<1>4. \A t : ~ToCome(t, fetch[f], exchange.inclusive)
  BY <1>3 DEF ToCome
<1> DEFINE x == Begin(f, ranges)
<1> HIDE DEF x
<1>5. \A t \in asked' \cap exchange.traded :
        \/ t \in lost' \/ t \in Stored \/ ToCome(t, x, exchange.inclusive)
        \/ t \in asked /\ (t \in lost => t \in lost') /\ ~ToCome(t, fetch[f], exchange.inclusive)
  BY <1>2, <1>4 DEF x
<1>6. FetchOK(x, present, rows, exchange) /\ fetch' = [fetch EXCEPT ![f] = x]
  BY <1>2, <1>3 DEF x
<1>7. QED  BY <1>3, <1>5, <1>6, OneGoesOn

(* The last so many candles up to now.                                      *)
LEMMA FetchCandlesKeeps ==
  ASSUME HistoryInv, NEW f \in Fetchers, NEW from \in Int, FetchCandles(f, from)
  PROVE  HistoryInv'
<1> DEFINE piece == [from |-> from, to |-> present]
           ranges == <<piece>>
<1>1. present \in Int /\ exchange.traded \subseteq Int
  BY DEF HistoryInv, TableOK, Times
<1>2. piece \in Piece /\ piece.from = from /\ piece.to = present  BY <1>1 DEF Piece
<1>3. Request(f, ranges) /\ asked' = asked \cup from..present - 1
      /\ lost' = lost \ (from..present - 1)
  BY DEF FetchCandles
<1> HIDE DEF piece
<1>4. ranges \in Seq(Piece) /\ ToSet(ranges) = {piece}
  BY <1>2 DEF ToSet
<1> HIDE DEF ranges
<1>5. ASSUME NEW t \in asked' \cap exchange.traded
      PROVE  (\E r \in ToSet(ranges) : r.from <= t /\ t < r.to) \/ (t \in asked /\ (t \in lost => t \in lost'))
  <2>1. t \in Int  BY <1>1
  <2>2. CASE t \in from..present - 1
    <3>1. from <= t /\ t < present  BY <1>1, <2>1, <2>2
    <3>2. QED  BY <1>2, <1>4, <3>1
  <2>3. CASE t \notin from..present - 1  BY <1>3, <2>3
  <2>4. QED  BY <2>2, <2>3
<1>6. QED  BY <1>1, <1>2, <1>3, <1>4, <1>5, RequestKeeps

(* What is stored is finitely many times up to now.                          *)
LEMMA StoredIs ==
  ASSUME HistoryInv
  PROVE  /\ IsFiniteSet(Stored) /\ Stored \subseteq Int /\ present \in Int
         /\ \A t \in Stored : t <= present
<1>1. LastTime \in Int  BY HistoryAssumption
<1>2. IsFiniteSet(Times) /\ Times \subseteq Int  BY <1>1, FS_Interval DEF Times
<1>3. Stored \subseteq Times  BY DEF Stored
<1>4. IsFiniteSet(Stored)  BY <1>2, <1>3, FS_Subset
<1>5. QED  BY <1>2, <1>3, <1>4 DEF HistoryInv, TableOK

(* The ranges fill_gaps asks for lie before now, and hold all times from the *)
(* first to now but those between the oldest candle there is and the newest. *)
LEMMA GapsAre ==
  ASSUME NEW S, IsFiniteSet(S), S \subseteq Int, NEW now \in Int, NEW from \in Int,
         \A t \in S : t <= now, S # {}
  PROVE  LET front == IF from < Min(S) THEN <<[from |-> from, to |-> Min(S)]>> ELSE <<>>
             back == IF now > Max(S) THEN <<[from |-> Max(S), to |-> now]>> ELSE <<>>
         IN  /\ front \o back \in Seq(Piece)
             /\ \A r \in ToSet(front \o back) : r.to <= now
             /\ \A t \in Int : from <= t /\ t < now
                  => t \in Min(S)..Max(S) \/ \E r \in ToSet(front \o back) : r.from <= t /\ t < r.to
<1> DEFINE a == Min(S)
           z == Max(S)
<1>1. a \in S /\ z \in S  BY MinOfSet, MaxOfSet
<1> HIDE DEF a, z
<1>2. a \in Int /\ z \in Int /\ a <= now  BY <1>1
<1> DEFINE p == [from |-> from, to |-> a]
           q == [from |-> z, to |-> now]
<1>3. p \in Piece /\ p.from = from /\ p.to = a /\ q \in Piece /\ q.from = z /\ q.to = now
  BY <1>2 DEF Piece
<1> HIDE DEF p, q
<1> DEFINE front == IF from < a THEN <<p>> ELSE <<>>
           back == IF now > z THEN <<q>> ELSE <<>>
           ranges == front \o back
<1>4. ranges \in Seq(Piece)
  <2>1. front \in Seq(Piece)
    <3>1. CASE from < a  BY <1>3, <3>1
    <3>2. CASE ~(from < a)  BY <3>2
    <3>3. QED  BY <3>1, <3>2
  <2>2. back \in Seq(Piece)
    <3>1. CASE now > z  BY <1>3, <3>1
    <3>2. CASE ~(now > z)  BY <3>2
    <3>3. QED  BY <3>1, <3>2
  <2> HIDE DEF front, back
  <2>3. QED  BY <2>1, <2>2
<1>5. ToSet(ranges) = (IF from < a THEN {p} ELSE {}) \cup (IF now > z THEN {q} ELSE {})
  <2>1. CASE from < a /\ now > z
    <3>1. front = <<p>> /\ back = <<q>>  BY <2>1
    <3> HIDE DEF front, back
    <3>2. ranges = <<p>> \o <<q>>  BY <3>1
    <3> HIDE DEF ranges
    <3> DEFINE fore == <<p>>
               aft == <<q>>
    <3>3. /\ fore \in Seq(Piece) /\ aft \in Seq(Piece)
          /\ Len(fore) = 1 /\ Len(aft) = 1 /\ fore[1] = p /\ aft[1] = q
      BY <1>3
    <3>4. ranges = fore \o aft  BY <3>2
    <3> HIDE DEF fore, aft
    <3>5. Len(ranges) = 2 /\ \A i \in 1..2 : ranges[i] = IF i <= 1 THEN fore[i] ELSE aft[i - 1]
      BY <3>3, <3>4, ConcatProperties
    <3>6. ranges[1] = p /\ ranges[2] = q /\ DOMAIN ranges = {1, 2}
      <4>1. ranges[1] = p /\ ranges[2] = q  BY <3>3, <3>5
      <4>2. DOMAIN ranges = 1..2  BY <1>4, <3>5
      <4>3. QED  BY <4>1, <4>2
    <3>7. ToSet(ranges) = {p, q}  BY <3>6 DEF ToSet
    <3>8. QED  BY <2>1, <3>7
  <2>2. CASE from < a /\ ~(now > z)
    <3>1. ranges = <<p>>  BY <2>2
    <3> HIDE DEF ranges
    <3>2. QED  BY <2>2, <3>1 DEF ToSet
  <2>3. CASE ~(from < a) /\ now > z
    <3>1. ranges = <<q>>  BY <2>3
    <3> HIDE DEF ranges
    <3>2. QED  BY <2>3, <3>1 DEF ToSet
  <2>4. CASE ~(from < a) /\ ~(now > z)
    <3>1. ranges = <<>>  BY <2>4
    <3> HIDE DEF ranges
    <3>2. QED  BY <2>4, <3>1 DEF ToSet
  <2>5. QED  BY <2>1, <2>2, <2>3, <2>4
<1> HIDE DEF ranges
<1>6. \A r \in ToSet(ranges) : r.to <= now
  BY <1>2, <1>3, <1>5
<1>7. ASSUME NEW t \in Int, from <= t, t < now
      PROVE  t \in a..z \/ \E r \in ToSet(ranges) : r.from <= t /\ t < r.to
  <2>1. CASE t < a
    <3>1. p \in ToSet(ranges)  BY <1>2, <1>5, <1>7, <2>1
    <3>2. QED  BY <1>3, <1>7, <2>1, <3>1
  <2>2. CASE t > z
    <3>1. q \in ToSet(ranges)  BY <1>2, <1>5, <1>7, <2>2
    <3>2. z <= t  BY <1>2, <2>2
    <3>3. QED  BY <1>3, <1>7, <3>1, <3>2
  <2>3. QED  BY <1>2, <2>1, <2>2
<1>8. QED  BY <1>4, <1>6, <1>7 DEF ranges, a, z, p, q

(* The gaps before the first candle and after the last.                      *)
LEMMA FillGapsKeeps ==
  ASSUME HistoryInv, NEW f \in Fetchers, NEW from \in Int, FillGaps(f, from)
  PROVE  HistoryInv'
<1>1. exchange.traded \subseteq Int
  BY DEF HistoryInv, TableOK, Times
<1>2. IsFiniteSet(Stored) /\ Stored \subseteq Int /\ present \in Int /\ \A t \in Stored : t <= present
  BY StoredIs
<1>3. CASE Stored = {}
  <2> DEFINE piece == [from |-> from, to |-> present]
             ranges == <<piece>>
  <2>1. piece \in Piece /\ piece.from = from /\ piece.to = present  BY <1>2 DEF Piece
  <2>2. Request(f, ranges) /\ asked' = asked \cup (from..present - 1)
        /\ lost' = (lost \ UNION {InRange(r) : r \in ToSet(ranges)}) \cup (({} \cap from..present - 1) \ Stored)
    BY <1>3 DEF FillGaps
  <2> HIDE DEF piece
  <2>3. ranges \in Seq(Piece) /\ ToSet(ranges) = {piece}
    BY <2>1 DEF ToSet
  <2> HIDE DEF ranges
  <2>4. ASSUME NEW t \in asked' \cap exchange.traded
        PROVE  (\E r \in ToSet(ranges) : r.from <= t /\ t < r.to) \/ (t \in asked /\ (t \in lost => t \in lost'))
    <3>1. t \in Int  BY <1>1
    <3>2. CASE from <= t /\ t < present  BY <2>1, <2>3, <3>2
    <3>3. CASE ~(from <= t /\ t < present)
      <4>1. t \in asked  BY <1>2, <2>2, <3>1, <3>3
      <4>2. t \notin InRange(piece)  BY <2>1, <3>3 DEF InRange
      <4>3. QED  BY <2>2, <2>3, <4>1, <4>2
    <3>4. QED  BY <3>2, <3>3
  <2>5. QED  BY <1>2, <2>1, <2>2, <2>3, <2>4, RequestKeeps
<1>4. CASE Stored # {}
  <2> DEFINE front == IF from < Min(Stored) THEN <<[from |-> from, to |-> Min(Stored)]>> ELSE <<>>
             back == IF present > Max(Stored) THEN <<[from |-> Max(Stored), to |-> present]>> ELSE <<>>
             ranges == front \o back
             between == Min(Stored)..Max(Stored)
  <2>1. Request(f, ranges) /\ asked' = asked \cup (from..present - 1)
        /\ lost' = (lost \ UNION {InRange(r) : r \in ToSet(ranges)}) \cup ((between \cap from..present - 1) \ Stored)
    BY <1>4 DEF FillGaps
  <2> DEFINE now == present
             S == Stored
             G == \A t \in Int : from <= t /\ t < present
                    => t \in between \/ \E r \in ToSet(ranges) : r.from <= t /\ t < r.to
  <2>2. /\ ranges \in Seq(Piece)
        /\ \A r \in ToSet(ranges) : r.to <= present
        /\ G
    BY <1>2, <1>4, GapsAre
  <2> HIDE DEF front, back, ranges, between
  <2>3. ASSUME NEW t \in asked' \cap exchange.traded
        PROVE  \/ t \in lost' \/ t \in Stored \/ \E r \in ToSet(ranges) : r.from <= t /\ t < r.to
               \/ t \in asked /\ (t \in lost => t \in lost')
    <3>1. t \in Int  BY <1>1
    <3>2. CASE from <= t /\ t < present
      <4>1. t \in between \/ \E r \in ToSet(ranges) : r.from <= t /\ t < r.to
        BY <2>2, <3>1, <3>2
      <4>2. t \in from..present - 1  BY <1>2, <3>1, <3>2
      <4>3. QED  BY <2>1, <4>1, <4>2
    <3>3. CASE ~(from <= t /\ t < present)
      <4>1. t \in asked  BY <1>2, <2>1, <3>1, <3>3
      <4>2. CASE \E r \in ToSet(ranges) : t \in InRange(r)  BY <4>2 DEF InRange
      <4>3. CASE ~\E r \in ToSet(ranges) : t \in InRange(r)  BY <2>1, <4>1, <4>3
      <4>4. QED  BY <4>2, <4>3
    <3>4. QED  BY <3>2, <3>3
  <2>4. QED  BY <1>2, <2>1, <2>2, <2>3, RequestKeeps
<1>5. QED  BY <1>3, <1>4

(* A page that fails loses what was left of its range.                       *)
LEMMA PageFailsKeeps ==
  ASSUME HistoryInv, NEW f \in Fetchers, PageFails(f)
  PROVE  HistoryInv'
<1> DEFINE x == Begin(f, fetch[f].later)
           b == exchange.inclusive
           old == fetch[f]
<1>1. /\ old # Done /\ old \in Fetching /\ old.from \in Int /\ old.to \in Int
      /\ old.later \in Seq(Piece) /\ \A r \in ToSet(old.later) : r.to <= present
  BY AtWork DEF PageFails
<1>2. present \in Int /\ exchange.traded \subseteq Times /\ Times \subseteq Int
  BY DEF HistoryInv, TableOK, Times
<1>3. FetchOK(x, present, rows, exchange)
      /\ \A t : (\E r \in ToSet(old.later) : r.from <= t /\ t < r.to) => ToCome(t, x, b)
  <2> HIDE DEF b, old
  <2>1. \A r \in ToSet(old.later) : r.to <= present  BY <1>1
  <2>2. QED  BY <1>1, <1>2, <2>1, BeginIs DEF old
<1>4. fetch' = [fetch EXCEPT ![f] = x] /\ UNCHANGED <<exchange, present, rows, run, undone>>
      /\ asked' = asked
      /\ lost' = lost \cup ({t \in Times : old.from <= t /\ t <= old.to} \ Stored)
  BY DEF PageFails
<1> HIDE DEF x
<1>5. ASSUME NEW t \in asked' \cap exchange.traded
      PROVE \/ t \in lost' \/ t \in Stored \/ ToCome(t, x, b)
            \/ t \in asked /\ (t \in lost => t \in lost') /\ ~ToCome(t, old, b)
  <2>1. t \in Times /\ t \in Int /\ t \in asked  BY <1>2, <1>4
  <2>2. CASE ~ToCome(t, old, b)  BY <1>4, <2>1, <2>2
  <2>3. CASE ToCome(t, old, b)
    <3>1. CASE \E r \in ToSet(old.later) : r.from <= t /\ t < r.to  BY <1>3, <3>1
    <3>2. CASE old.from <= t /\ (t < old.to \/ (b /\ t = old.to /\ old.from < old.to))
      <4>1. old.from <= t /\ t <= old.to  BY <1>1, <2>1, <3>2
      <4>2. QED  BY <1>4, <2>1, <4>1
    <3>3. QED  BY <2>3, <3>1, <3>2 DEF ToCome
  <2>4. QED  BY <2>2, <2>3
<1>6. QED  BY <1>3, <1>4, <1>5, OneGoesOn

(* A range that has come to its beginning has nothing left.                  *)
LEMMA RangeDoneKeeps ==
  ASSUME HistoryInv, NEW f \in Fetchers, RangeDone(f)
  PROVE  HistoryInv'
<1> DEFINE x == Begin(f, fetch[f].later)
           b == exchange.inclusive
           old == fetch[f]
<1>1. /\ old # Done /\ old \in Fetching /\ old.from \in Int /\ old.to \in Int
      /\ old.later \in Seq(Piece) /\ \A r \in ToSet(old.later) : r.to <= present
  BY AtWork DEF RangeDone
<1>2. present \in Int /\ exchange.traded \subseteq Times /\ Times \subseteq Int
  BY DEF HistoryInv, TableOK, Times
<1>3. FetchOK(x, present, rows, exchange)
      /\ \A t : (\E r \in ToSet(old.later) : r.from <= t /\ t < r.to) => ToCome(t, x, b)
  <2> HIDE DEF b, old
  <2>1. \A r \in ToSet(old.later) : r.to <= present  BY <1>1
  <2>2. QED  BY <1>1, <1>2, <2>1, BeginIs DEF old
<1>4. fetch' = [fetch EXCEPT ![f] = x] /\ UNCHANGED <<exchange, present, rows, run, undone>>
      /\ asked' = asked /\ lost' = lost /\ old.to <= old.from
  BY DEF RangeDone
<1> HIDE DEF x
<1>5. ASSUME NEW t \in asked' \cap exchange.traded
      PROVE \/ t \in lost' \/ t \in Stored \/ ToCome(t, x, b)
            \/ t \in asked /\ (t \in lost => t \in lost') /\ ~ToCome(t, old, b)
  <2>1. t \in Int /\ t \in asked  BY <1>2, <1>4
  <2>2. CASE ~ToCome(t, old, b)  BY <1>4, <2>1, <2>2
  <2>3. CASE ToCome(t, old, b)
    <3>1. CASE \E r \in ToSet(old.later) : r.from <= t /\ t < r.to  BY <1>3, <3>1
    <3>2. CASE old.from <= t /\ (t < old.to \/ (b /\ t = old.to /\ old.from < old.to))
      BY <1>1, <1>4, <2>1, <3>2
    <3>3. QED  BY <2>3, <3>1, <3>2 DEF ToCome
  <2>4. QED  BY <2>2, <2>3
<1>6. QED  BY <1>3, <1>4, <1>5, OneGoesOn

(* A page that cannot be stored loses all that was left.                     *)
LEMMA StoreFailsKeeps ==
  ASSUME HistoryInv, NEW f \in Fetchers, StoreFails(f)
  PROVE  HistoryInv'
<1> DEFINE b == exchange.inclusive
           old == fetch[f]
<1>1. /\ old # Done /\ old \in Fetching /\ old.from \in Int /\ old.to \in Int
  BY AtWork DEF StoreFails
<1>2. exchange.traded \subseteq Times /\ Times \subseteq Int
  BY DEF HistoryInv, TableOK, Times
<1>3. FetchOK(Done, present, rows, exchange)  BY DEF FetchOK
<1>4. fetch' = [fetch EXCEPT ![f] = Done] /\ UNCHANGED <<exchange, present, rows, run, undone>>
      /\ asked' = asked
      /\ lost' = lost \cup (Rest(f) \ Stored)
  BY DEF StoreFails
<1>5. ASSUME NEW t \in asked' \cap exchange.traded
      PROVE \/ t \in lost' \/ t \in Stored
            \/ t \in asked /\ (t \in lost => t \in lost') /\ ~ToCome(t, old, b)
  <2>1. t \in Times /\ t \in Int /\ t \in asked  BY <1>2, <1>4
  <2>2. CASE ~ToCome(t, old, b)  BY <1>4, <2>1, <2>2
  <2>3. CASE ToCome(t, old, b)
    <3>1. CASE \E r \in ToSet(old.later) : r.from <= t /\ t < r.to
      <4>1. t \in Rest(f)  BY <2>1, <3>1 DEF Rest, InRange
      <4>2. QED  BY <1>4, <4>1
    <3>2. CASE old.from <= t /\ (t < old.to \/ (b /\ t = old.to /\ old.from < old.to))
      <4>1. old.from <= t /\ t <= old.to  BY <1>1, <2>1, <3>2
      <4>2. t \in Rest(f)  BY <2>1, <4>1 DEF Rest
      <4>3. QED  BY <1>4, <4>2
    <3>3. QED  BY <2>3, <3>1, <3>2 DEF ToCome
  <2>4. QED  BY <2>2, <2>3
<1>6. QED  BY <1>3, <1>4, <1>5, OneGoesOn

(* The page that is asked for holds what there is, as it is now.             *)
LEMMA AskPageKeeps ==
  ASSUME HistoryInv, NEW f \in Fetchers, AskPage(f)
  PROVE  HistoryInv'
<1> DEFINE old == fetch[f]
           b == exchange.inclusive
           page == {[time |-> t, as |-> IF t < present THEN "final" ELSE "open"] : t \in Page(old.to)}
           full == Cardinality(Page(old.to)) = PageSize
           x == [old EXCEPT !.stage = "store", !.crossed = FALSE, !.full = full, !.page = page]
<1>1. /\ old # Done /\ old \in Fetching /\ old.from \in Int /\ old.to \in Int /\ old.to <= present
      /\ old.later \in Seq(Piece) /\ old.page \subseteq PageRow
      /\ \A r \in ToSet(old.later) : r \in Piece /\ r.to <= present
      /\ old.stage = "ask" /\ old.to > old.from
  BY AtWork DEF AskPage
<1>2. present \in Int /\ exchange.traded \subseteq Times /\ Times \subseteq Int
      /\ rows \in [Times -> {"none", "open", "final"}]
      /\ \A t \in Times : rows[t] = "final" => t < present
  BY DEF HistoryInv, TableOK, Times, Stored
<1>3. /\ \A t \in Page(old.to) : t \in Times /\ t <= present /\ t <= old.to
      /\ \A t \in exchange.traded :
           t < old.to \/ (b /\ t = old.to)
           => t \in Page(old.to) \/ (full /\ Page(old.to) # {} /\ \A u \in Page(old.to) : t < u)
  <2> DEFINE to == old.to
  <2>1. to \in Int /\ to <= present  BY <1>1
  <2> HIDE DEF to
  <2>2. /\ \A t \in Page(to) : t \in Times /\ t <= present /\ t <= to
        /\ \A t \in exchange.traded :
             t < to \/ (exchange.inclusive /\ t = to)
             => t \in Page(to) \/ (/\ Cardinality(Page(to)) = PageSize /\ Page(to) # {}
                                   /\ \A u \in Page(to) : t < u)
    BY <1>2, <2>1, PageIs
  <2>3. QED  BY <2>2 DEF to
<1>4. /\ page \subseteq PageRow
      /\ \A c \in page : /\ c.time \in Page(old.to)
                         /\ c.as = "final" => c.time < present
                         /\ c.as = "open" => ~(c.time < present)
      /\ \A t \in Page(old.to) : \E c \in page : c.time = t
  <2> DEFINE as(t) == IF t < present THEN "final" ELSE "open"
  <2>1. ASSUME NEW t \in Page(old.to)
        PROVE  LET c == [time |-> t, as |-> as(t)]
               IN  c \in PageRow /\ c \in page /\ c.time = t /\ (c.as = "final" => c.time < present)
                   /\ (c.as = "open" => ~(c.time < present))
    <3>1. t \in Times /\ t <= present  BY <1>3
    <3>2. as(t) \in {"final", "open"} /\ (as(t) = "final" <=> t < present)  OBVIOUS
    <3>3. [time |-> t, as |-> as(t)] \in page  OBVIOUS
    <3> HIDE DEF as, page
    <3>4. QED  BY <3>1, <3>2, <3>3 DEF PageRow
  <2>2. \A c \in page : \E t \in Page(old.to) : c = [time |-> t, as |-> as(t)]
    OBVIOUS
  <2> HIDE DEF page, as
  <2>3. ASSUME NEW c \in page
        PROVE  /\ c \in PageRow /\ c.time \in Page(old.to)
               /\ c.as = "final" => c.time < present
               /\ c.as = "open" => ~(c.time < present)
    <3>1. PICK t \in Page(old.to) : c = [time |-> t, as |-> as(t)]  BY <2>2
    <3>2. QED  BY <2>1, <3>1
  <2>4. \A t \in Page(old.to) : \E c \in page : c.time = t  BY <2>1
  <2>5. QED  BY <2>3, <2>4
<1>5. full \in BOOLEAN  OBVIOUS
<1>6. fetch' = [fetch EXCEPT ![f] = x] /\ UNCHANGED <<exchange, present, rows, run, undone, asked, lost>>
  <2>1. fetch' = [fetch EXCEPT ![f].stage = "store", ![f].crossed = FALSE,
                               ![f].full = full, ![f].page = page]
        /\ UNCHANGED <<exchange, present, rows, run, undone, asked, lost>>
    BY DEF AskPage
  <2> HIDE DEF full, page
  <2>2. QED  BY <2>1
<1> HIDE DEF page, full
<1>7. x \in Fetching /\ x.stage = "store" /\ x.from = old.from /\ x.to = old.to /\ x.later = old.later
      /\ x.page = page /\ x.full = full /\ x.crossed = FALSE
  <2>1. x = [old EXCEPT !.stage = "store", !.crossed = FALSE, !.full = full, !.page = page]
    OBVIOUS
  <2>2. old \in Fetching /\ page \in SUBSET PageRow /\ full \in BOOLEAN  BY <1>1, <1>4, <1>5
  <2> HIDE DEF x, old, b
  <2>3. QED  BY <2>1, <2>2 DEF Fetching
<1> HIDE DEF x
<1>8. \A c \in page : c.time <= present /\ c.time <= old.to /\ c.time \in Times
  BY <1>3, <1>4
<1>9. page = {} => Page(old.to) = {}
  BY <1>4
<1>10. PageOK(x, present, rows, exchange)
  <2>1. x.from < x.to  BY <1>1, <1>7
  <2>2. ASSUME NEW c \in x.page
        PROVE /\ c.time <= present /\ c.time <= x.to
              /\ c.as = "final" => c.time < present
              /\ c.as = "open" /\ ~x.crossed => rows[c.time] # "final"
    BY <1>2, <1>4, <1>7, <1>8, <2>2
  <2>3. ASSUME NEW t \in exchange.traded, x.from <= t, t < x.to \/ (exchange.inclusive /\ t = x.to)
        PROVE \/ \E c \in x.page : c.time = t
              \/ x.full /\ x.page # {} /\ \A c \in x.page : t < c.time
    <3>1. t \in Page(old.to) \/ (full /\ Page(old.to) # {} /\ \A u \in Page(old.to) : t < u)
      BY <1>3, <1>7, <2>3
    <3>2. CASE t \in Page(old.to)  BY <1>4, <1>7, <3>2
    <3>3. CASE full /\ Page(old.to) # {} /\ \A u \in Page(old.to) : t < u
      BY <1>4, <1>7, <1>9, <3>3
    <3>4. QED  BY <3>1, <3>2, <3>3
  <2>4. QED  BY <2>1, <2>2, <2>3 DEF PageOK
<1>11. FetchOK(x, present, rows, exchange)
  BY <1>1, <1>7, <1>10 DEF FetchOK
<1>12. \A t : ToCome(t, old, b) => ToCome(t, x, b)
  <2>1. x # Done  BY <1>7, DoneIsNone
  <2>2. QED  BY <1>7, <2>1 DEF ToCome
<1>13. \A t \in asked' \cap exchange.traded :
         \/ t \in lost' \/ t \in Stored \/ ToCome(t, x, exchange.inclusive)
         \/ t \in asked /\ (t \in lost => t \in lost') /\ ~ToCome(t, fetch[f], exchange.inclusive)
  BY <1>6, <1>12
<1>14. QED  BY <1>6, <1>11, <1>13, OneGoesOn

(* The clock.                                                                *)
LEMMA TimePassesKeeps ==
  ASSUME HistoryInv, TimePasses
  PROVE  HistoryInv'
<1>1. present \in Nat \ {0} /\ Stored \subseteq Int
  BY DEF HistoryInv, TableOK, Stored, Times
<1>2. TableOK'
  <2>1. ASSUME NEW t \in Stored PROVE t <= present + 1 /\ (rows[t] = "final" => t < present + 1)
    <3>1. t <= present /\ t \in Int  BY <1>1 DEF HistoryInv, TableOK
    <3>2. QED  BY <1>1, <3>1
  <2>2. present + 1 \in Nat \ {0}  BY <1>1
  <2>3. QED  BY <2>1, <2>2 DEF HistoryInv, TableOK, TimePasses, Stored
<1>3. FetchesOK'
  <2>1. ASSUME NEW f \in Fetchers PROVE FetchOK(fetch[f], present + 1, rows, exchange)
    <3> DEFINE x == fetch[f]
    <3>1. FetchOK(x, present, rows, exchange) /\ present \in Int  BY <1>1 DEF HistoryInv, FetchesOK
    <3> HIDE DEF x
    <3>2. FetchOK(x, present + 1, rows, exchange)  BY <3>1, TimeKeepsFetch
    <3>3. QED  BY <3>2 DEF x
  <2>2. fetch' = fetch /\ present' = present + 1 /\ rows' = rows /\ exchange' = exchange
    BY DEF TimePasses
  <2>3. fetch = [f \in Fetchers |-> fetch[f]]  BY DEF HistoryInv, FetchesOK
  <2>4. QED  BY <2>1, <2>2, <2>3 DEF FetchesOK
<1>4. NothingMissed'
  BY DEF HistoryInv, NothingMissed, TimePasses, Stored
<1>5. QED  BY <1>2, <1>3, <1>4 DEF HistoryInv

(* A backtest reads what there is.                                           *)
LEMMA RunKeeps ==
  ASSUME HistoryInv, CheckData \/ LoadCandles
  PROVE  HistoryInv'
<1>1. UNCHANGED <<exchange, present, rows, fetch, asked, lost, undone>>
      /\ run' \in {"idle", "checked", "loaded"} /\ (run' = "checked" => Stored # {})
  <2>1. CASE CheckData  BY <2>1 DEF CheckData
  <2>2. CASE LoadCandles
    <3>1. Stored # {}  BY <2>2 DEF LoadCandles, HistoryInv, TableOK
    <3>2. QED  BY <2>2, <3>1 DEF LoadCandles
  <2>3. QED  BY <2>1, <2>2
<1>2. TableOK'  BY <1>1 DEF HistoryInv, TableOK, Stored
<1>3. FetchesOK'  BY <1>1 DEF HistoryInv, FetchesOK
<1>4. NothingMissed'  BY <1>1 DEF HistoryInv, NothingMissed, Stored
<1>5. QED  BY <1>2, <1>3, <1>4 DEF HistoryInv

(* Nothing is stored or asked for at first.                                  *)
LEMMA InitHistory ==
  ASSUME HistoryInit
  PROVE  HistoryInv
<1>1. Stored = {}  BY DEF HistoryInit, Stored
<1>2. exchange.traded \subseteq Times /\ exchange.inclusive \in BOOLEAN
  BY DEF HistoryInit
<1>3. TableOK  BY <1>1, <1>2 DEF HistoryInit, TableOK
<1>4. FetchesOK
  <2>1. fetch = [f \in Fetchers |-> Done]  BY DEF HistoryInit
  <2>2. QED  BY <2>1 DEF FetchesOK, FetchOK
<1>5. NothingMissed  BY DEF HistoryInit, NothingMissed
<1>6. QED  BY <1>3, <1>4, <1>5 DEF HistoryInv

(* With no request at work, nothing is to come.                              *)
LEMMA HistorySound ==
  ASSUME HistoryInv
  PROVE  HistoryComplete
<1>1. undone = {} /\ run # "empty"  BY DEF HistoryInv, TableOK
<1>2. ASSUME \A f \in Fetchers : fetch[f] = Done, NEW t \in (asked \cap exchange.traded) \ lost
      PROVE  t \in Stored
  <2>1. t \in Stored \/ \E f \in Fetchers : ToCome(t, fetch[f], exchange.inclusive)
    BY <1>2 DEF HistoryInv, NothingMissed
  <2>2. QED  BY <1>2, <2>1 DEF ToCome
<1>3. QED  BY <1>1, <1>2 DEF HistoryComplete

KeptOf(f) == {c \in fetch[f].page : c.time >= fetch[f].from}

MoreOf(f) == fetch[f].full /\ fetch[f].page # {}

(* What storing a page does, as equations.                                  *)
LEMMA StorePageIs ==
  ASSUME HistoryInv, NEW f \in Fetchers, StorePage(f)
  PROVE  /\ fetch[f].stage = "store"
         /\ \A t \in Times : rows'[t] = IF \E c \in KeptOf(f) : c.time = t
                                        THEN (CHOOSE c \in KeptOf(f) : c.time = t).as ELSE rows[t]
         /\ rows' = [t \in Times |-> rows'[t]]
         /\ undone' = IF fetch[f].crossed THEN undone
                      ELSE undone \cup {t \in Times : rows[t] = "final" /\ rows'[t] = "open"}
         /\ lost \subseteq lost'
         /\ MoreOf(f) /\ NextTo(f, KeptOf(f)) >= fetch[f].from
            /\ (~exchange.inclusive \/ NextTo(f, KeptOf(f)) = fetch[f].from)
            /\ rows'[NextTo(f, KeptOf(f))] = "none"
            => NextTo(f, KeptOf(f)) \in lost'
         /\ fetch' = [g \in Fetchers |->
                        IF g = f THEN IF MoreOf(f)
                                      THEN [fetch[f] EXCEPT !.stage = "ask", !.to = NextTo(f, KeptOf(f)), !.page = {}]
                                      ELSE Begin(f, fetch[f].later)
                        ELSE IF fetch[g].stage = "store" THEN [fetch[g] EXCEPT !.crossed = TRUE] ELSE fetch[g]]
         /\ exchange' = exchange /\ present' = present /\ run' = run /\ asked' = asked
<1>1. /\ fetch[f].stage = "store"
      /\ rows' = [t \in Times |-> IF \E c \in KeptOf(f) : c.time = t
                                  THEN (CHOOSE c \in KeptOf(f) : c.time = t).as ELSE rows[t]]
  BY DEF StorePage, KeptOf
<1>2. /\ undone' = IF fetch[f].crossed THEN undone
                   ELSE undone \cup {t \in Times : rows[t] = "final" /\ rows'[t] = "open"}
      /\ exchange' = exchange /\ present' = present /\ run' = run /\ asked' = asked
  BY DEF StorePage
<1>3. lost' = IF MoreOf(f) /\ NextTo(f, KeptOf(f)) >= fetch[f].from
                 /\ (~exchange.inclusive \/ NextTo(f, KeptOf(f)) = fetch[f].from)
                 /\ rows'[NextTo(f, KeptOf(f))] = "none"
              THEN lost \cup {NextTo(f, KeptOf(f))} ELSE lost
  BY DEF StorePage, KeptOf, MoreOf
<1>4. fetch' = [g \in Fetchers |->
                  IF g = f THEN IF MoreOf(f)
                                THEN [fetch[f] EXCEPT !.stage = "ask", !.to = NextTo(f, KeptOf(f)), !.page = {}]
                                ELSE Begin(f, fetch[f].later)
                  ELSE IF fetch[g].stage = "store" THEN [fetch[g] EXCEPT !.crossed = TRUE] ELSE fetch[g]]
  BY DEF StorePage, KeptOf, MoreOf
<1>5. QED  BY <1>1, <1>2, <1>3, <1>4

(* The rows that a page in hand leaves.                                     *)
LEMMA RowsAfter ==
  ASSUME HistoryInv, NEW f \in Fetchers, StorePage(f)
  PROVE  /\ rows' \in [Times -> {"none", "open", "final"}]
         /\ \A t \in Times : t \in Stored' <=> t \in Stored \/ \E c \in KeptOf(f) : c.time = t
         /\ \A t \in Stored' : t <= present /\ (rows'[t] = "final" => t < present)
         /\ undone' = {}
<1> DEFINE old == fetch[f]
           K == KeptOf(f)
           pick(t) == CHOOSE c \in K : c.time = t
<1>1. old.stage = "store" /\ old \in Fetching /\ old.page \subseteq PageRow
      /\ PageOK(old, present, rows, exchange)
  BY StorePageIs, AtWork
<1>2. \A c \in K : /\ c \in old.page /\ c.time \in Times /\ c.as \in {"open", "final"}
                   /\ c.time <= present /\ (c.as = "final" => c.time < present)
                   /\ c.as = "open" /\ ~old.crossed => rows[c.time] # "final"
  BY <1>1 DEF KeptOf, PageOK, PageRow
<1>3. /\ \A t \in Times : rows'[t] = IF \E c \in K : c.time = t THEN pick(t).as ELSE rows[t]
      /\ rows' = [t \in Times |-> rows'[t]]
      /\ undone' = IF old.crossed THEN undone
                   ELSE undone \cup {t \in Times : rows[t] = "final" /\ rows'[t] = "open"}
  BY StorePageIs
<1>4. /\ rows \in [Times -> {"none", "open", "final"}] /\ undone = {}
      /\ \A t \in Stored : t <= present /\ (rows[t] = "final" => t < present)
  BY DEF HistoryInv, TableOK
<1>5. \A t : (\E c \in K : c.time = t) => pick(t) \in K /\ pick(t).time = t
  OBVIOUS
<1> HIDE DEF old, K, pick
<1>6. ASSUME NEW t \in Times
      PROVE  /\ rows'[t] \in {"none", "open", "final"}
             /\ rows'[t] # "none" <=> rows[t] # "none" \/ \E c \in K : c.time = t
             /\ rows'[t] # "none" => t <= present /\ (rows'[t] = "final" => t < present)
             /\ ~old.crossed => ~(rows[t] = "final" /\ rows'[t] = "open")
  <2>1. CASE \E c \in K : c.time = t
    <3>1. rows'[t] = pick(t).as /\ pick(t) \in K /\ pick(t).time = t  BY <1>3, <1>5, <2>1
    <3>2. QED  BY <1>2, <2>1, <3>1
  <2>2. CASE ~\E c \in K : c.time = t
    <3>1. rows'[t] = rows[t] /\ rows[t] \in {"none", "open", "final"}  BY <1>3, <1>4, <2>2
    <3>2. rows[t] # "none" => t \in Stored  BY DEF Stored
    <3>3. QED  BY <1>4, <2>2, <3>1, <3>2
  <2>3. QED  BY <2>1, <2>2
<1>7. rows' \in [Times -> {"none", "open", "final"}]
  <2>1. \A t \in Times : rows'[t] \in {"none", "open", "final"}  BY <1>6
  <2>2. QED  BY <1>3, <2>1
<1>8. Stored' = {t \in Times : rows'[t] # "none"} /\ Stored = {t \in Times : rows[t] # "none"}
  BY DEF Stored, Times
<1>9. undone' = {}  BY <1>3, <1>4, <1>6
<1>10. QED  BY <1>6, <1>7, <1>8, <1>9 DEF K

(* Where the next page ends: below this one, at or above all that is missing *)
(* of it.                                                                   *)
LEMMA NextToIs ==
  ASSUME HistoryInv, NEW f \in Fetchers, StorePage(f)
  PROVE  LET to == NextTo(f, KeptOf(f))
         IN  /\ to \in Int /\ to < fetch[f].to
             /\ \A t \in Int : t < fetch[f].to /\ (\A c \in fetch[f].page : t < c.time) => t <= to
<1> DEFINE old == fetch[f]
           S == {old.to} \cup {c.time : c \in KeptOf(f)}
           m == Min(S)
<1>1. old.page \subseteq PageRow /\ old.to \in Int  BY StorePageIs, AtWork
<1>2. KeptOf(f) \subseteq old.page  BY DEF KeptOf
<1>3. LastTime \in Int  BY HistoryAssumption
<1>4. IsFiniteSet(Times) /\ Times \subseteq Int  BY <1>3, FS_Interval DEF Times
<1>5. S \subseteq Int /\ S # {} /\ IsFiniteSet(S)
  <2> DEFINE R == {c.time : c \in KeptOf(f)}
  <2>1. R \subseteq Times  BY <1>1, <1>2 DEF PageRow
  <2>2. S = R \cup {old.to}  OBVIOUS
  <2> HIDE DEF R, S
  <2>3. IsFiniteSet(R)  BY <1>4, <2>1, FS_Subset
  <2>4. IsFiniteSet(S)  BY <2>2, <2>3, FS_AddElement
  <2>5. QED  BY <1>1, <1>4, <2>1, <2>2, <2>4
<1>6. NextTo(f, KeptOf(f)) = m - 1  BY DEF NextTo
<1>7. \A s \in S : s = old.to \/ \E c \in old.page : s = c.time  BY <1>2
<1>8. old.to \in S  OBVIOUS
<1> HIDE DEF S, old
<1>9. m \in S /\ m \in Int /\ \A s \in S : m <= s  BY <1>5, MinOfSet
<1> HIDE DEF m
<1>10. m - 1 \in Int /\ m - 1 < old.to  BY <1>1, <1>8, <1>9
<1>11. ASSUME NEW t \in Int, t < old.to, \A c \in old.page : t < c.time PROVE t <= m - 1
  <2>1. t < m  BY <1>7, <1>9, <1>11
  <2>2. QED  BY <1>9, <2>1
<1>12. QED  BY <1>6, <1>10, <1>11 DEF old

(* What is missing of the page's range is stored by it, lost between it and  *)
(* the next page, or comes with the next page.                              *)
LEMMA StorePageMisses ==
  ASSUME HistoryInv, NEW f \in Fetchers, StorePage(f), NEW t \in exchange.traded,
         ToCome(t, fetch[f], exchange.inclusive)
  PROVE  t \in lost' \/ t \in Stored' \/ ToCome(t, fetch'[f], exchange.inclusive)
<1> DEFINE old == fetch[f]
           b == exchange.inclusive
           K == KeptOf(f)
           to == NextTo(f, K)
<1>1. /\ old # Done /\ old \in Fetching /\ old.from \in Int /\ old.to \in Int
      /\ old.later \in Seq(Piece) /\ old.page \subseteq PageRow
      /\ \A r \in ToSet(old.later) : r.to <= present
      /\ PageOK(old, present, rows, exchange)
  BY StorePageIs, AtWork
<1>2. t \in Times /\ t \in Int /\ present \in Int
  BY DEF HistoryInv, TableOK, Times
<1>3. (\E c \in K : c.time = t) => t \in Stored'
  BY <1>2, RowsAfter
<1>4. fetch'[f] = IF MoreOf(f) THEN [old EXCEPT !.stage = "ask", !.to = to, !.page = {}]
                  ELSE Begin(f, old.later)
  BY StorePageIs
<1>5. to \in Int /\ to < old.to
      /\ (t < old.to /\ (\A c \in old.page : t < c.time) => t <= to)
  BY <1>2, NextToIs
<1>6. MoreOf(f) /\ to >= old.from /\ (~b \/ to = old.from) /\ rows'[to] = "none" => to \in lost'
  BY StorePageIs
<1>7. MoreOf(f) <=> old.full /\ old.page # {}
  BY DEF MoreOf
<1>8. ToCome(t, old, b)  OBVIOUS
<1>9. t \in Stored' <=> rows'[t] # "none"
  BY <1>2 DEF Stored, Times
<1>10. \A c \in old.page : c.time \in Int /\ c.time <= old.to
  <2>1. \A c \in old.page : c.time \in Times  BY <1>1 DEF PageRow
  <2>2. QED  BY <1>1, <2>1 DEF PageOK, Times
<1>11. \A c \in old.page : c.time = t /\ old.from <= t => c \in K
  BY <1>1, <1>2 DEF KeptOf
<1>12. old.from <= t /\ (t < old.to \/ (b /\ t = old.to))
       => \/ \E c \in old.page : c.time = t
          \/ old.full /\ old.page # {} /\ \A c \in old.page : t < c.time
  BY <1>1 DEF PageOK
<1> HIDE DEF K, to
<1>13. CASE MoreOf(f)
  <2> DEFINE x == fetch'[f]
  <2>1. x = [old EXCEPT !.stage = "ask", !.to = to, !.page = {}]  BY <1>4, <1>13
  <2>2. x.stage = "ask" /\ x.from = old.from /\ x.to = to /\ x.later = old.later
    <3> HIDE DEF x, old, b
    <3>1. QED  BY <1>1, <2>1 DEF Fetching
  <2>3. x # Done  BY <2>2 DEF Done
  <2> HIDE DEF x
  <2>4. CASE \E r \in ToSet(old.later) : r.from <= t /\ t < r.to
    <3>1. ToCome(t, x, b)  BY <2>2, <2>3, <2>4 DEF ToCome
    <3>2. QED  BY <3>1 DEF x
  <2>5. CASE old.from <= t /\ (t < old.to \/ (b /\ t = old.to /\ old.from < old.to))
    <3>1. CASE \E c \in old.page : c.time = t  BY <1>3, <1>11, <2>5, <3>1
    <3>2. CASE old.full /\ old.page # {} /\ \A c \in old.page : t < c.time
      <4>1. t < old.to
        <5>1. PICK c \in old.page : TRUE  BY <3>2
        <5>2. t < c.time /\ c.time \in Int /\ c.time <= old.to  BY <1>10, <3>2, <5>1
        <5>3. QED  BY <1>1, <1>2, <5>2
      <4>2. t <= to  BY <1>5, <3>2, <4>1
      <4>3. CASE t < to
        <5>1. ToCome(t, x, b)  BY <2>2, <2>3, <2>5, <4>3 DEF ToCome
        <5>2. QED  BY <5>1 DEF x
      <4>4. CASE t = to
        <5>1. CASE b /\ old.from < to
          <6>1. ToCome(t, x, b)  BY <2>2, <2>3, <2>5, <4>4, <5>1 DEF ToCome
          <6>2. QED  BY <6>1 DEF x
        <5>2. CASE ~b \/ ~(old.from < to)
          <6>1. to >= old.from /\ (~b \/ to = old.from)  BY <1>1, <1>2, <2>5, <4>4, <5>2
          <6>2. CASE rows'[to] = "none"  BY <1>6, <1>13, <4>4, <6>1, <6>2
          <6>3. CASE rows'[to] # "none"  BY <1>9, <4>4, <6>3
          <6>4. QED  BY <6>2, <6>3
        <5>3. QED  BY <5>1, <5>2
      <4>5. QED  BY <1>2, <1>5, <4>2, <4>3, <4>4
    <3>3. QED  BY <1>12, <2>5, <3>1, <3>2
  <2>6. QED  BY <1>8, <2>4, <2>5 DEF ToCome
<1>14. CASE ~MoreOf(f)
  <2>1. CASE \E r \in ToSet(old.later) : r.from <= t /\ t < r.to
    <3>1. ToCome(t, Begin(f, old.later), b)
      <4>1. \A r \in ToSet(old.later) : r.to <= present  BY <1>1
      <4> HIDE DEF b, old
      <4>2. QED  BY <1>1, <1>2, <2>1, <4>1, BeginIs
    <3>2. QED  BY <1>4, <1>14, <3>1
  <2>2. CASE old.from <= t /\ (t < old.to \/ (b /\ t = old.to /\ old.from < old.to))
    BY <1>3, <1>7, <1>11, <1>12, <1>14, <2>2
  <2>3. QED  BY <1>8, <2>1, <2>2 DEF ToCome
<1>15. QED  BY <1>13, <1>14

(* A page is stored, and the others at work are crossed by it.               *)
LEMMA StorePageKeeps ==
  ASSUME HistoryInv, NEW f \in Fetchers, StorePage(f)
  PROVE  HistoryInv'
<1>1. exchange' = exchange /\ present' = present /\ run' = run /\ asked' = asked /\ lost \subseteq lost'
  BY StorePageIs
<1>2. Stored \subseteq Stored' /\ Stored' \subseteq Times'
  <2>1. Times' = Times  BY DEF Times
  <2>2. QED  BY <2>1, RowsAfter DEF Stored
<1>3. TableOK'
  <2>1. rows' \in [Times -> {"none", "open", "final"}] /\ undone' = {}
        /\ \A t \in Stored' : t <= present /\ (rows'[t] = "final" => t < present)
    BY RowsAfter
  <2>2. Times' = Times  BY DEF Times
  <2>3. run' = "checked" => Stored' # {}  BY <1>1, <1>2 DEF HistoryInv, TableOK
  <2>4. QED  BY <1>1, <2>1, <2>2, <2>3 DEF HistoryInv, TableOK
<1>4. ASSUME NEW g \in Fetchers
      PROVE  /\ FetchOK(fetch'[g], present, rows', exchange)
             /\ \A t : g # f /\ ToCome(t, fetch[g], exchange.inclusive)
                       => ToCome(t, fetch'[g], exchange.inclusive)
  <2> DEFINE old == fetch[g]
             b == exchange.inclusive
             x == fetch'[g]
  <2>1. CASE g # f /\ old.stage = "store"
    <3>1. old \in Fetching /\ FetchOK(old, present, rows, exchange) /\ old # Done
          /\ PageOK(old, present, rows, exchange)
      BY <2>1, AtWork DEF HistoryInv, FetchesOK
    <3>2. x = [old EXCEPT !.crossed = TRUE]
      <4> DEFINE V(h) ==
                   IF h = f THEN IF MoreOf(f)
                                 THEN [fetch[f] EXCEPT !.stage = "ask", !.to = NextTo(f, KeptOf(f)), !.page = {}]
                                 ELSE Begin(f, fetch[f].later)
                   ELSE IF fetch[h].stage = "store" THEN [fetch[h] EXCEPT !.crossed = TRUE] ELSE fetch[h]
      <4>1. fetch'[g] = V(g)
        <5>1. fetch' = [h \in Fetchers |-> V(h)]  BY StorePageIs
        <5> HIDE DEF V
        <5>2. QED  BY <5>1
      <4>2. QED  BY <2>1, <4>1
    <3> HIDE DEF x, old, b
    <3>3. x \in Fetching /\ x.stage = old.stage /\ x.from = old.from /\ x.to = old.to
          /\ x.later = old.later /\ x.page = old.page /\ x.full = old.full /\ x.crossed = TRUE
      BY <3>1, <3>2 DEF Fetching
    <3>4. x # Done  BY <3>3, DoneIsNone
    <3>5. PageOK(x, present, rows', exchange)  BY <3>1, <3>3 DEF PageOK
    <3>6. FetchOK(x, present, rows', exchange)  BY <3>1, <3>3, <3>5 DEF FetchOK
    <3>7. \A t : ToCome(t, old, b) => ToCome(t, x, b)  BY <3>3, <3>4 DEF ToCome
    <3>8. QED  BY <3>6, <3>7 DEF x, old, b
  <2>2. CASE g # f /\ old.stage # "store"
    <3>1. x = old  BY <2>2, StorePageIs
    <3>2. FetchOK(old, present, rows, exchange)  BY DEF HistoryInv, FetchesOK
    <3> HIDE DEF x, old
    <3>3. FetchOK(x, present, rows', exchange)  BY <2>2, <3>1, <3>2 DEF FetchOK
    <3>4. QED  BY <3>1, <3>3 DEF x, old
  <2>3. CASE g = f /\ MoreOf(f)
    <3>1. old \in Fetching /\ FetchOK(old, present, rows, exchange) /\ old # Done
          /\ old.to \in Int /\ old.to <= present /\ present \in Int
      <4>1. fetch[f].stage = "store"  BY StorePageIs
      <4>2. fetch[f] \in Fetching /\ fetch[f] # Done /\ fetch[f].to \in Int /\ fetch[f].to <= present
        BY <4>1, AtWork
      <4>3. FetchOK(fetch[f], present, rows, exchange) /\ present \in Int
        BY DEF HistoryInv, FetchesOK, TableOK
      <4>4. QED  BY <2>3, <4>2, <4>3
    <3>2. PICK to \in Int : to < old.to /\ x = [old EXCEPT !.stage = "ask", !.to = to, !.page = {}]
      BY <2>3, StorePageIs, NextToIs
    <3> HIDE DEF x, old, b
    <3>3. x \in Fetching /\ x.stage = "ask" /\ x.to = to /\ x.later = old.later
      BY <3>1, <3>2 DEF Fetching
    <3>4. x.to <= present  BY <3>1, <3>2, <3>3
    <3>5. FetchOK(x, present, rows', exchange)  BY <3>1, <3>3, <3>4 DEF FetchOK
    <3>6. QED  BY <2>3, <3>5 DEF x
  <2>4. CASE g = f /\ ~MoreOf(f)
    <3>1. x = Begin(f, old.later)  BY <2>4, StorePageIs
    <3>2. old.later \in Seq(Piece) /\ (\A r \in ToSet(old.later) : r.to <= present) /\ present \in Int
      <4>1. fetch[f].stage = "store"  BY StorePageIs
      <4>2. fetch[f].later \in Seq(Piece) /\ \A r \in ToSet(fetch[f].later) : r.to <= present
        BY <4>1, AtWork
      <4>3. present \in Int  BY DEF HistoryInv, TableOK
      <4>4. QED  BY <2>4, <4>2, <4>3
    <3> HIDE DEF old
    <3>3. FetchOK(Begin(f, old.later), present, rows', exchange)
      <4> DEFINE table == rows'
      <4> HIDE DEF table
      <4>1. FetchOK(Begin(f, old.later), present, table, exchange)  BY <3>2, BeginIs
      <4>2. QED  BY <4>1 DEF table
    <3>4. QED  BY <2>4, <3>1, <3>3
  <2>5. QED  BY <2>1, <2>2, <2>3, <2>4
<1>5. FetchesOK'
  <2>1. fetch' = [g \in Fetchers |-> fetch'[g]]
    <3> DEFINE V(g) == IF g = f THEN IF MoreOf(f)
                                THEN [fetch[f] EXCEPT !.stage = "ask", !.to = NextTo(f, KeptOf(f)), !.page = {}]
                                ELSE Begin(f, fetch[f].later)
                  ELSE IF fetch[g].stage = "store" THEN [fetch[g] EXCEPT !.crossed = TRUE] ELSE fetch[g]
    <3>1. fetch' = [g \in Fetchers |-> V(g)]  BY StorePageIs
    <3> HIDE DEF V
    <3>2. QED  BY <3>1
  <2>2. \A g \in Fetchers : FetchOK(fetch'[g], present', rows', exchange')  BY <1>1, <1>4
  <2>3. QED  BY <2>1, <2>2 DEF FetchesOK
<1>6. ASSUME NEW t \in asked \cap exchange.traded
      PROVE  t \in lost' \/ t \in Stored' \/ \E g \in Fetchers : ToCome(t, fetch'[g], exchange.inclusive)
  <2>1. t \in lost \/ t \in Stored \/ \E g \in Fetchers : ToCome(t, fetch[g], exchange.inclusive)
    BY <1>6 DEF HistoryInv, NothingMissed
  <2>2. CASE t \in lost \/ t \in Stored  BY <1>1, <1>2, <2>2
  <2>3. CASE \E g \in Fetchers : ToCome(t, fetch[g], exchange.inclusive)
    <3>1. PICK g \in Fetchers : ToCome(t, fetch[g], exchange.inclusive)  BY <2>3
    <3>2. CASE g = f
      <4>1. t \in exchange.traded /\ ToCome(t, fetch[f], exchange.inclusive)  BY <3>1, <3>2
      <4>2. t \in lost' \/ t \in Stored' \/ ToCome(t, fetch'[f], exchange.inclusive)
        BY <4>1, StorePageMisses
      <4>3. QED  BY <4>2
    <3>3. CASE g # f  BY <1>4, <3>1, <3>3
    <3>4. QED  BY <3>2, <3>3
  <2>4. QED  BY <2>1, <2>2, <2>3
<1>7. NothingMissed'  BY <1>1, <1>6 DEF NothingMissed
<1>8. QED  BY <1>3, <1>5, <1>7 DEF HistoryInv

(* Every step.                                                               *)
LEMMA HistoryStep ==
  ASSUME HistoryInv, [HistoryNext]_historyVars
  PROVE  HistoryInv'
<1>1. ASSUME NEW f \in Fetchers, NEW from \in {0, present - 1}, FetchCandles(f, from) \/ FillGaps(f, from)
      PROVE  HistoryInv'
  <2>1. from \in Int  BY DEF HistoryInv, TableOK
  <2>2. QED  BY <1>1, <2>1, FetchCandlesKeeps, FillGapsKeeps
<1>2. CASE UNCHANGED historyVars
  <2>1. UNCHANGED <<exchange, present, rows, fetch, run, asked, lost, undone>>  BY <1>2 DEF historyVars
  <2>2. QED  BY <2>1 DEF HistoryInv, TableOK, FetchesOK, NothingMissed, Stored
<1>3. QED
  BY <1>1, <1>2, AskPageKeeps, PageFailsKeeps, RangeDoneKeeps, StorePageKeeps, StoreFailsKeeps,
     TimePassesKeeps, RunKeeps DEF HistoryNext

-------------------------------------------------------------------------------
(* MarketDataCurrent (MarketData, CandleHistory, RegimeSwitch): the picture  *)
(* of the market, of the moment and of the past, is as complete as the code  *)
(* can make it.  No symbol waits as many rounds of candles as there are      *)
(* symbols, and a list left half built is refreshed at the next pass; a      *)
(* buffer holds the newest candles it was given, in order and each once,     *)
(* whichever loader brought them; what was ever asked of the history is      *)
(* stored when no request runs, but for what the code passes over, and no    *)
(* final candle becomes an open one but where two requests cross; the trend  *)
(* is switched no sooner than the cooldown allows, and what is bought on a   *)
(* rising market runs only while the market is taken to rise.                *)
THEOREM MarketDataCurrentAlways ==
  /\ ListInit /\ BufferInit /\ HistoryInit /\ RegimeInit
  /\ [][ListNext]_listVars /\ [][BufferNext]_bufferVars
  /\ [][HistoryNext]_historyVars /\ [][RegimeNext]_regimeVars
  => []MarketDataCurrent
<1>1. ListInv /\ BufferInv /\ HistoryInv /\ RegimeInv => MarketDataCurrent
  BY ListSound, BufferSound, HistorySound DEF MarketDataCurrent, RegimeInv
<1>2. QED
  BY InitList, ListStep, InitBuffer, BufferStep, InitHistory, HistoryStep, InitRegime, RegimeStep,
     <1>1, PTL
===============================================================================
