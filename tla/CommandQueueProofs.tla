-------------------------- MODULE CommandQueueProofs --------------------------
(***************************************************************************)
(* What holds of the command queue for any number of handlers and any       *)
(* capacity.  A command moves along accepted: the prefix that ran, then the *)
(* queue.  QueueInv says so index by index, and says where the client of an *)
(* accepted command, and of a result, can be; with that the invariants of   *)
(* CommandQueue are inductive.  That requests end is proved up to counting: *)
(* a place of the queue at a time.                                          *)
(***************************************************************************)
EXTENDS CommandQueue, SequenceTheorems, TLAPS

Sent == {"waiting", "answered", "timedOut"}

Along ==
  /\ Len(accepted) = Len(ran) + Len(queue)
  /\ \A i \in 1..Len(ran) : accepted[i] = ran[i]
  /\ \A i \in 1..Len(queue) : accepted[Len(ran) + i] = queue[i]

ClientsSent ==
  /\ \A i \in 1..Len(accepted) : client[accepted[i]] \in Sent
  /\ \A r \in results : client[r] \in Sent

ExecutingLast == executing # NoRequest => Len(ran) > 0 /\ executing = ran[Len(ran)]

QueueInv ==
  /\ TypeOK
  /\ Along
  /\ NoDuplicates(accepted)
  /\ ClientsSent
  /\ ExecutingLast
  /\ PendingExact

(* What Append does to a sequence, index by index.                           *)
LEMMA Appending ==
  ASSUME NEW S, NEW s \in Seq(S), NEW e \in S
  PROVE  /\ Append(s, e) \in Seq(S)
         /\ Len(Append(s, e)) = Len(s) + 1
         /\ \A i \in 1..Len(s) : Append(s, e)[i] = s[i]
         /\ Append(s, e)[Len(s) + 1] = e
         /\ Elements(Append(s, e)) = Elements(s) \cup {e}
<1>1. /\ Append(s, e) \in Seq(S)
      /\ Len(Append(s, e)) = Len(s) + 1
      /\ \A i \in 1..Len(s) : Append(s, e)[i] = s[i]
      /\ Append(s, e)[Len(s) + 1] = e
  BY AppendProperties
<1>2. Len(s) \in Nat /\ DOMAIN s = 1..Len(s) /\ DOMAIN Append(s, e) = 1..Len(s) + 1
  BY <1>1, LenProperties
<1>3. Elements(Append(s, e)) = Elements(s) \cup {e}
  BY <1>1, <1>2, SMT DEF Elements
<1> QED BY <1>1, <1>3

(* What Head and Tail are of a sequence that is not empty.                    *)
LEMMA HeadAndTail ==
  ASSUME NEW S, NEW s \in Seq(S), s # <<>>
  PROVE  /\ Head(s) \in S /\ Head(s) = s[1]
         /\ Tail(s) \in Seq(S)
         /\ Len(s) > 0 /\ Len(Tail(s)) = Len(s) - 1
         /\ \A i \in 1..Len(Tail(s)) : Tail(s)[i] = s[i + 1]
         /\ Elements(s) = Elements(Tail(s)) \cup {Head(s)}
<1>1. /\ Head(s) \in S /\ Tail(s) \in Seq(S)
      /\ Len(Tail(s)) = Len(s) - 1
      /\ \A i \in 1..Len(Tail(s)) : Tail(s)[i] = s[i + 1]
  BY HeadTailProperties
<1>2. Head(s) = s[1] /\ Len(s) \in Nat /\ Len(s) > 0
  BY LenProperties, EmptySeq, SMT
<1>3. DOMAIN s = 1..Len(s) /\ DOMAIN Tail(s) = 1..Len(s) - 1
  BY <1>1, LenProperties
<1>4. \A i \in 1..Len(s) : i # 1 => i - 1 \in 1..Len(s) - 1 /\ s[i] = Tail(s)[i - 1]
  <2> SUFFICES ASSUME NEW i \in 1..Len(s), i # 1
               PROVE  i - 1 \in 1..Len(s) - 1 /\ s[i] = Tail(s)[i - 1]
    OBVIOUS
  <2>1. i - 1 \in 1..Len(s) - 1 /\ (i - 1) + 1 = i
    BY <1>2, SMT
  <2> QED BY <2>1, <1>1
<1>5. Elements(s) = Elements(Tail(s)) \cup {Head(s)}
  <2>1. ASSUME NEW x \in Elements(s) PROVE x \in Elements(Tail(s)) \cup {Head(s)}
    <3>1. PICK i \in 1..Len(s) : x = s[i]
      BY <2>1, <1>3 DEF Elements
    <3>2. CASE i = 1
      BY <3>1, <3>2, <1>2
    <3>3. CASE i # 1
      BY <3>1, <3>3, <1>4, <1>3 DEF Elements
    <3> QED BY <3>2, <3>3
  <2>2. ASSUME NEW x \in Elements(Tail(s)) PROVE x \in Elements(s)
    <3>1. PICK i \in 1..Len(s) - 1 : x = Tail(s)[i]
      BY <2>2, <1>3 DEF Elements
    <3>2. i + 1 \in 1..Len(s) /\ x = s[i + 1]
      BY <3>1, <1>1, <1>2, SMT
    <3> QED BY <3>2, <1>3 DEF Elements
  <2>3. Head(s) \in Elements(s)
    BY <1>2, <1>3, SMT DEF Elements
  <2> QED BY <2>1, <2>2, <2>3
<1> QED BY <1>1, <1>2, <1>5

(* The empty sequence, as Init has it.                                       *)
LEMMA Nothing ==
  /\ Len(<<>>) = 0 /\ Elements(<<>>) = {} /\ NoDuplicates(<<>>)
  /\ \A S : <<>> \in Seq(S)
<1>1. Len(<<>>) = 0 /\ DOMAIN <<>> = {} /\ \A S : <<>> \in Seq(S)
  BY EmptySeq, SMT
<1> QED BY <1>1 DEF Elements, NoDuplicates

LEMMA InitQueueInv == Init => QueueInv
<1> SUFFICES ASSUME Init PROVE QueueInv
  OBVIOUS
<1> USE QueueAssumption, Nothing DEF Init
<1>1. TypeOK
  BY DEF TypeOK, Stage
<1>2. Along /\ ClientsSent /\ ExecutingLast
  BY SMT DEF Along, ClientsSent, ExecutingLast
<1>3. PendingExact
  BY DEF PendingExact
<1> QED BY <1>1, <1>2, <1>3 DEF QueueInv

(* A command that enters the queue was blocked or is new: in either case it  *)
(* was never accepted, so it is put behind all that were.                    *)
LEMMA EnqueueKeepsInv ==
  ASSUME QueueInv, NEW r \in Request, client[r] \in {"idle", "putting"},
         Enqueue(r), pending' = pending \cup {r},
         UNCHANGED <<results, executing, ran>>
  PROVE  QueueInv'
<1> USE QueueAssumption DEF QueueInv
<1>e. /\ Len(queue) < MaxSize
      /\ queue' = Append(queue, r) /\ accepted' = Append(accepted, r)
      /\ client' = [client EXCEPT ![r] = "waiting"]
  BY DEF Enqueue
<1>a. queue \in Seq(Request) /\ accepted \in Seq(Request) /\ ran \in Seq(Request)
  BY DEF TypeOK
<1>b. Len(queue) \in Nat /\ Len(accepted) \in Nat /\ Len(ran) \in Nat
  BY <1>a, LenProperties
<1>f. /\ queue' \in Seq(Request) /\ accepted' \in Seq(Request)
      /\ Len(queue') = Len(queue) + 1 /\ Len(accepted') = Len(accepted) + 1
      /\ \A i \in 1..Len(queue) : queue'[i] = queue[i]
      /\ \A i \in 1..Len(accepted) : accepted'[i] = accepted[i]
      /\ queue'[Len(queue) + 1] = r /\ accepted'[Len(accepted) + 1] = r
      /\ Elements(queue') = Elements(queue) \cup {r}
  BY <1>a, <1>e, Appending
<1>c. DOMAIN accepted = 1..Len(accepted) /\ DOMAIN accepted' = 1..Len(accepted) + 1
  BY <1>a, <1>f, LenProperties
<1>d. /\ client' \in [Request -> Stage]
      /\ \A x \in Request : client'[x] = IF x = r THEN "waiting" ELSE client[x]
  BY <1>e DEF TypeOK, Stage
<1>1. TypeOK'
  <2>1. Len(queue') <= MaxSize
    BY <1>b, <1>e, <1>f, SMT
  <2> QED BY <2>1, <1>d, <1>f DEF TypeOK
<1>2. Along'
  <2>1. Len(accepted') = Len(ran') + Len(queue')
    BY <1>b, <1>f, SMT DEF Along
  <2>2. \A i \in 1..Len(ran) : accepted'[i] = ran'[i]
    <3>1. \A i \in 1..Len(ran) : i \in 1..Len(accepted)
      BY <1>b, SMT DEF Along
    <3> QED BY <3>1, <1>f DEF Along
  <2>3. ASSUME NEW i \in 1..Len(queue) + 1 PROVE accepted'[Len(ran) + i] = queue'[i]
    <3>1. CASE i = Len(queue) + 1
      <4>1. Len(ran) + i = Len(accepted) + 1
        BY <3>1, <1>b, SMT DEF Along
      <4> QED BY <4>1, <3>1, <1>f
    <3>2. CASE i \in 1..Len(queue)
      <4>1. Len(ran) + i \in 1..Len(accepted)
        BY <3>2, <1>b, SMT DEF Along
      <4> QED BY <4>1, <3>2, <1>f DEF Along
    <3> QED BY <3>1, <3>2, <1>b, SMT
  <2> QED BY <2>1, <2>2, <2>3, <1>f DEF Along
<1>g. \A i \in 1..Len(accepted) + 1 : i \in 1..Len(accepted) \/ i = Len(accepted) + 1
  BY <1>b, SMT
<1>h. \A i \in 1..Len(accepted) : accepted'[i] = accepted[i] /\ accepted[i] # r
  BY <1>f DEF ClientsSent, Sent
<1>3. NoDuplicates(accepted)'
  BY <1>c, <1>f, <1>g, <1>h DEF NoDuplicates
<1>4. ClientsSent'
  <2>1. \A i \in 1..Len(accepted) + 1 : accepted'[i] \in Request
    BY <1>f, ElementOfSeq
  <2>2. \A i \in 1..Len(accepted) + 1 : client'[accepted'[i]] \in Sent
    BY <2>1, <1>d, <1>f, <1>g, <1>h DEF ClientsSent, Sent
  <2>3. \A x \in results : client'[x] \in Sent
    BY <1>d DEF ClientsSent, Sent, TypeOK
  <2> QED BY <2>2, <2>3, <1>f DEF ClientsSent
<1>5. ExecutingLast'
  BY DEF ExecutingLast
<1>6. PendingExact'
  <2>1. Elements(queue') = Elements(queue) \cup {r}
    BY <1>f
  <2>2. {x \in Request : client'[x] = "putting"} = {x \in Request : client[x] = "putting"} \ {r}
    BY <1>d
  <2>3. r \notin results
    BY DEF ClientsSent, Sent
  <2>4. pending' = {x \in Request : client'[x] = "putting"} \cup Elements(queue')
                     \cup ({executing'} \ {NoRequest})
    BY <2>1, <2>2 DEF PendingExact
  <2>5. results' \cap pending' = {}
    BY <2>3 DEF PendingExact
  <2>6. \A x \in Request : client'[x] = "waiting" => x \in pending' \cup results'
    BY <1>d DEF PendingExact
  <2> QED BY <2>4, <2>5, <2>6 DEF PendingExact, Elements
<1> QED BY <1>1, <1>2, <1>3, <1>4, <1>5, <1>6

LEMMA PutKeepsInv ==
  ASSUME QueueInv, NEW r \in Request, Put(r)
  PROVE  QueueInv'
<1>1. CASE Enqueue(r)
  BY <1>1, EnqueueKeepsInv DEF Put
<1>2. CASE /\ Len(queue) = MaxSize
           /\ client' = [client EXCEPT ![r] = "putting"]
           /\ UNCHANGED <<queue, accepted>>
  <2> USE <1>2 DEF Put, QueueInv
  <2>d. /\ client' \in [Request -> Stage]
        /\ \A x \in Request : client'[x] = IF x = r THEN "putting" ELSE client[x]
    BY DEF TypeOK, Stage
  <2>1. TypeOK'
    BY <2>d DEF TypeOK
  <2>2. Along' /\ NoDuplicates(accepted)' /\ ExecutingLast'
    BY DEF Along, ExecutingLast, NoDuplicates
  <2>3. ClientsSent'
    <3>1. \A i \in 1..Len(accepted) : accepted[i] \in Request
      BY ElementOfSeq DEF TypeOK
    <3> QED BY <3>1, <2>d DEF ClientsSent, Sent, TypeOK
  <2>4. PendingExact'
    <3>1. {x \in Request : client'[x] = "putting"} = {x \in Request : client[x] = "putting"} \cup {r}
      BY <2>d
    <3>2. r \notin results
      BY DEF ClientsSent, Sent
    <3> QED BY <3>1, <3>2, <2>d DEF PendingExact, Elements
  <2> QED BY <2>1, <2>2, <2>3, <2>4
<1> QED BY <1>1, <1>2 DEF Put

LEMMA PutWokenKeepsInv ==
  ASSUME QueueInv, NEW r \in Request, PutWoken(r)
  PROVE  QueueInv'
<1>1. r \in pending
  BY DEF PutWoken, QueueInv, PendingExact
<1> QED BY <1>1, EnqueueKeepsInv DEF PutWoken

LEMMA TakeKeepsInv ==
  ASSUME QueueInv, Take
  PROVE  QueueInv'
<1> USE DEF QueueInv, Take
<1>a. queue \in Seq(Request) /\ ran \in Seq(Request)
  BY DEF TypeOK
<1>b. Len(queue) \in Nat /\ Len(ran) \in Nat
  BY <1>a, LenProperties
<1>c. /\ Head(queue) \in Request /\ Head(queue) = queue[1]
      /\ Len(queue) > 0 /\ Len(queue') = Len(queue) - 1
      /\ \A i \in 1..Len(queue') : queue'[i] = queue[i + 1]
      /\ Elements(queue) = Elements(queue') \cup {Head(queue)}
  BY <1>a, HeadAndTail
<1>d. /\ Len(ran') = Len(ran) + 1
      /\ \A i \in 1..Len(ran) : ran'[i] = ran[i]
      /\ ran'[Len(ran) + 1] = Head(queue)
  BY <1>a, <1>c, Appending
<1>1. TypeOK'
  <2>1. queue' \in Seq(Request) /\ ran' \in Seq(Request)
    BY <1>a, <1>c, HeadAndTail, Appending
  <2>2. Len(queue') <= MaxSize
    BY <1>b, <1>c, QueueAssumption, SMT DEF TypeOK
  <2> QED BY <2>1, <2>2, <1>c DEF TypeOK
<1>2. Along'
  <2>1. Len(accepted') = Len(ran') + Len(queue')
    <3>1. accepted' = accepted /\ Len(accepted) = Len(ran) + Len(queue)
      BY DEF Along
    <3> HIDE DEF QueueInv, Take
    <3> QED BY <3>1, <1>b, <1>c, <1>d, SMT
  <2>2. ASSUME NEW i \in 1..Len(ran') PROVE accepted'[i] = ran'[i]
    <3>1. CASE i = Len(ran) + 1
      <4>1. 1 \in 1..Len(queue) /\ accepted[Len(ran) + 1] = queue[1]
        BY <1>b, <1>c, SMT DEF Along
      <4> QED BY <4>1, <3>1, <1>c, <1>d
    <3>2. CASE i \in 1..Len(ran)
      BY <3>2, <1>d DEF Along
    <3> QED BY <3>1, <3>2, <1>b, <1>d, SMT
  <2>3. ASSUME NEW i \in 1..Len(queue') PROVE accepted'[Len(ran') + i] = queue'[i]
    <3>1. i + 1 \in 1..Len(queue) /\ Len(ran') + i = Len(ran) + (i + 1)
      BY <1>b, <1>c, <1>d, SMT
    <3>2. accepted[Len(ran) + (i + 1)] = queue[i + 1]
      BY <3>1 DEF Along
    <3> QED BY <3>1, <3>2, <1>c
  <2> QED BY <2>1, <2>2, <2>3 DEF Along
<1>3. NoDuplicates(accepted)' /\ ClientsSent'
  BY DEF NoDuplicates, ClientsSent
<1>4. ExecutingLast'
  BY <1>b, <1>d, SMT DEF ExecutingLast
<1>5. PendingExact'
  BY <1>c, QueueAssumption, ZenonT(40) DEF PendingExact, Elements
<1> QED BY <1>1, <1>2, <1>3, <1>4, <1>5

(* A completed command leaves pending for good: it is not queued again,       *)
(* because a command is accepted once, and its handler is not blocked.       *)
LEMMA CompleteKeepsInv ==
  ASSUME QueueInv, Complete
  PROVE  QueueInv'
<1> USE DEF QueueInv, Complete
<1>a. executing \in Request /\ accepted \in Seq(Request)
  BY DEF TypeOK
<1>b. /\ Len(queue) \in Nat /\ Len(ran) \in Nat
      /\ DOMAIN queue = 1..Len(queue) /\ DOMAIN accepted = 1..Len(accepted)
  BY LenProperties DEF TypeOK
<1>c. executing = accepted[Len(ran)] /\ Len(ran) \in 1..Len(accepted)
  BY <1>b, SMT DEF Along, ExecutingLast
<1>d. executing \notin Elements(queue)
  <2> SUFFICES ASSUME NEW i \in 1..Len(queue), queue[i] = executing PROVE FALSE
    BY <1>b DEF Elements
  <2>1. Len(ran) + i \in 1..Len(accepted) /\ Len(ran) + i # Len(ran)
    BY <1>b, SMT DEF Along
  <2>2. accepted[Len(ran) + i] = accepted[Len(ran)]
    BY <1>c DEF Along
  <2> QED BY <2>1, <2>2, <1>b, <1>c DEF NoDuplicates
<1>e. client[executing] \in Sent
  BY <1>c DEF ClientsSent
<1>1. TypeOK'
  BY <1>a DEF TypeOK
<1>2. Along' /\ NoDuplicates(accepted)' /\ ExecutingLast'
  BY DEF Along, NoDuplicates, ExecutingLast
<1>3. ClientsSent'
  BY <1>e DEF ClientsSent
<1>4. PendingExact'
  <2>1. pending' = {r \in Request : client[r] = "putting"} \cup Elements(queue)
    BY <1>d, <1>e DEF PendingExact, Sent
  <2>2. executing \in pending
    BY <1>a DEF PendingExact
  <2>3. results' = results \cup {executing}
    BY <2>2
  <2> QED BY <2>1, <2>3 DEF PendingExact, Elements
<1> QED BY <1>1, <1>2, <1>3, <1>4

(* Reading an answer, or giving up on one, moves the client alone.            *)
LEMMA AnswerKeepsInv ==
  ASSUME QueueInv, NEW r \in Request, GetResult(r) \/ TimeOut(r)
  PROVE  QueueInv'
<1> USE DEF QueueInv, GetResult, TimeOut
<1>a. /\ client' \in [Request -> Stage]
      /\ client'[r] \in {"answered", "timedOut"}
      /\ \A x \in Request : x # r => client'[x] = client[x]
  BY DEF TypeOK, Stage
<1>b. /\ UNCHANGED <<queue, pending, executing, accepted, ran>>
      /\ results' \subseteq results
      /\ \A x \in Request : x # r /\ x \in results => x \in results'
  OBVIOUS
<1>1. TypeOK'
  BY <1>a, <1>b DEF TypeOK
<1>2. Along' /\ NoDuplicates(accepted)' /\ ExecutingLast'
  BY <1>b DEF Along, NoDuplicates, ExecutingLast
<1>3. ClientsSent'
  <2>1. \A i \in 1..Len(accepted) : accepted[i] \in Request
    BY ElementOfSeq DEF TypeOK
  <2> QED BY <2>1, <1>a, <1>b DEF ClientsSent, Sent, TypeOK
<1>4. PendingExact'
  <2>1. {x \in Request : client'[x] = "putting"} = {x \in Request : client[x] = "putting"}
    BY <1>a
  <2> QED BY <2>1, <1>a, <1>b DEF PendingExact, Elements
<1> QED BY <1>1, <1>2, <1>3, <1>4

LEMMA QueueInvAlways == Spec => []QueueInv
<1>1. ASSUME QueueInv, [Next]_queueVars PROVE QueueInv'
  <2>1. CASE Take
    BY <1>1, <2>1, TakeKeepsInv
  <2>2. CASE Complete
    BY <1>1, <2>2, CompleteKeepsInv
  <2>3. ASSUME NEW r \in Request, Handler(r) PROVE QueueInv'
    BY <1>1, <2>3, PutKeepsInv, PutWokenKeepsInv, AnswerKeepsInv DEF Handler
  <2>4. CASE UNCHANGED queueVars
    BY <1>1, <2>4 DEF queueVars, QueueInv, TypeOK, Along, NoDuplicates, ClientsSent,
                      ExecutingLast, PendingExact, Elements
  <2> QED BY <1>1, <2>1, <2>2, <2>3, <2>4 DEF Next, Loop
<1> QED BY <1>1, InitQueueInv, PTL DEF Spec

(* The queue never holds more than it has room for, and every client is at a *)
(* stage of its handler.                                                    *)
THEOREM QueueTypeCorrect == Spec => []TypeOK
<1>1. QueueInv => TypeOK
  BY DEF QueueInv
<1> QED BY <1>1, QueueInvAlways, PTL

(* Commands run in the order they were accepted, each of them once.          *)
THEOREM FirstInFirstRunAlways == Spec => []FirstInFirstRun
<1>1. ASSUME QueueInv PROVE FirstInFirstRun
  <2>1. queue \in Seq(Request) /\ accepted \in Seq(Request) /\ ran \in Seq(Request)
    BY <1>1 DEF QueueInv, TypeOK
  <2>2. Len(queue) \in Nat /\ Len(ran) \in Nat
    BY <2>1, LenProperties
  <2>3. /\ ran \o queue \in Seq(Request)
        /\ Len(ran \o queue) = Len(ran) + Len(queue)
        /\ \A i \in 1..Len(ran) + Len(queue) :
             (ran \o queue)[i] = IF i <= Len(ran) THEN ran[i] ELSE queue[i - Len(ran)]
    BY <2>1, ConcatProperties
  <2>4. \A i \in 1..Len(ran) + Len(queue) :
          \/ i <= Len(ran) /\ i \in 1..Len(ran)
          \/ ~(i <= Len(ran)) /\ i - Len(ran) \in 1..Len(queue) /\ Len(ran) + (i - Len(ran)) = i
    BY <2>2, SMT
  <2>5. \A i \in 1..Len(ran) + Len(queue) : accepted[i] = (ran \o queue)[i]
    <3> TAKE i \in 1..Len(ran) + Len(queue)
    <3>1. CASE i <= Len(ran)
      BY <1>1, <2>3, <2>4, <3>1 DEF QueueInv, Along
    <3>2. CASE ~(i <= Len(ran))
      <4>1. accepted[Len(ran) + (i - Len(ran))] = queue[i - Len(ran)]
        BY <1>1, <2>4, <3>2 DEF QueueInv, Along
      <4> QED BY <4>1, <2>3, <2>4, <3>2
    <3> QED BY <3>1, <3>2
  <2>6. accepted = ran \o queue
    BY <1>1, <2>1, <2>3, <2>5, SeqEqual DEF QueueInv, Along
  <2> QED BY <1>1, <2>6 DEF FirstInFirstRun, QueueInv
<1> QED BY <1>1, QueueInvAlways, PTL

(* No command is lost between the queue's three tables: one that was issued  *)
(* is blocked, queued, executing, answered, or was given up by its client.   *)
THEOREM PendingExactAlways == Spec => []PendingExact
<1>1. QueueInv => PendingExact
  BY DEF QueueInv
<1> QED BY <1>1, QueueInvAlways, PTL

-------------------------------------------------------------------------------
(* A client that waits can always make a step, and no other step ends its    *)
(* wait.                                                                    *)
Waits(r) == client[r] = "waiting"

Returned(r) == client[r] \in {"answered", "timedOut"}

(* The loop has a command to take or one to complete.                        *)
LoopDue == executing # NoRequest \/ queue # <<>>

(* The command is among the first n of the queue.                            *)
AmongFirst(r, n) == \E i \in 1..n : i <= Len(queue) /\ queue[i] = r

(* The first half of EveryRequestEnds for a client whose command was put: it *)
(* is answered or told that its time is up.  That the client can poll while  *)
(* it waits is the hypothesis: the prover knows nothing of ENABLED.          *)
THEOREM WaitersReturn ==
  ASSUME NEW r \in Request
  PROVE  FairSpec /\ [](Waits(r) => ENABLED <<GetResult(r) \/ TimeOut(r)>>_queueVars)
         => (Waits(r) ~> Returned(r))
<1>1. TypeOK /\ Waits(r) /\ [Next]_queueVars => Waits(r)' \/ Returned(r)'
  <2> SUFFICES ASSUME TypeOK, Waits(r), [Next]_queueVars PROVE Waits(r)' \/ Returned(r)'
    OBVIOUS
  <2>1. client[r] = "waiting" /\ client \in [Request -> Stage]
    BY DEF Waits, TypeOK
  <2>2. CASE UNCHANGED queueVars \/ Loop
    BY <2>1, <2>2 DEF queueVars, Loop, Take, Complete, Waits
  <2>3. ASSUME NEW x \in Request, Handler(x) PROVE Waits(r)' \/ Returned(r)'
    BY <2>1, <2>3 DEF Handler, Put, PutWoken, Enqueue, GetResult, TimeOut, Waits, Returned
  <2> QED BY <2>2, <2>3 DEF Next
<1>2. TypeOK /\ <<GetResult(r) \/ TimeOut(r)>>_queueVars => Returned(r)'
  BY DEF GetResult, TimeOut, TypeOK, Returned
<1>3. ClientsFairness => ClientFairness(r)
  BY DEF ClientsFairness
<1>4. FairSpec => Spec /\ ClientsFairness
  BY PTL DEF FairSpec
<1>5. ClientFairness(r) => WF_queueVars(GetResult(r) \/ TimeOut(r))
  BY PTL DEF ClientFairness
<1> QED BY <1>1, <1>2, <1>3, <1>4, <1>5, QueueTypeCorrect, PTL DEF Spec

(* A command put last among the first n + 1 of the queue moves up a place or *)
(* is taken by a Take; the other steps leave it where it is.                 *)
LEMMA StepsMoveUp ==
  ASSUME NEW r \in Request, NEW n \in Nat, QueueInv, AmongFirst(r, n + 1), [Next]_queueVars
  PROVE  /\ AmongFirst(r, n + 1)' \/ AmongFirst(r, n)' \/ (r \in Elements(ran))'
         /\ Take => AmongFirst(r, n)' \/ (r \in Elements(ran))'
<1>1. PICK i \in 1..(n + 1) : i <= Len(queue) /\ queue[i] = r
  BY DEF AmongFirst
<1>2. queue \in Seq(Request) /\ ran \in Seq(Request) /\ Len(queue) \in Nat
  BY LenProperties DEF QueueInv, TypeOK
<1>3. CASE UNCHANGED queueVars
  <2>1. AmongFirst(r, n + 1)'
    BY <1>3 DEF queueVars, AmongFirst
  <2>2. ~Take
    <3> SUFFICES ASSUME Take PROVE FALSE
      OBVIOUS
    <3>1. executing = NoRequest /\ executing' = Head(queue) /\ queue # <<>>
      BY DEF Take
    <3>2. Head(queue) \in Request
      BY <3>1, <1>2, HeadAndTail
    <3> QED BY <3>1, <3>2, <1>3, QueueAssumption DEF queueVars
  <2> QED BY <2>1, <2>2
<1>4. ASSUME Take PROVE AmongFirst(r, n)' \/ (r \in Elements(ran))'
  <2>1. queue # <<>> /\ queue' = Tail(queue) /\ ran' = Append(ran, Head(queue))
    BY <1>4 DEF Take
  <2>2. /\ Head(queue) \in Request /\ Head(queue) = queue[1]
        /\ Len(queue') = Len(queue) - 1
        /\ \A j \in 1..Len(queue') : queue'[j] = queue[j + 1]
    BY <2>1, <1>2, HeadAndTail
  <2>3. CASE i = 1
    BY <2>1, <2>2, <2>3, <1>1, <1>2, Appending
  <2>4. CASE i # 1
    <3>1. i - 1 \in 1..n /\ i - 1 <= Len(queue') /\ i - 1 \in 1..Len(queue') /\ (i - 1) + 1 = i
      BY <2>2, <2>4, <1>1, <1>2, SMT
    <3> QED BY <3>1, <2>2, <1>1 DEF AmongFirst
  <2> QED BY <2>3, <2>4
<1>5. CASE queue' = queue
  BY <1>4, <1>5, <1>1 DEF AmongFirst
<1>6. ASSUME NEW x \in Request, queue' = Append(queue, x) PROVE AmongFirst(r, n + 1)'
  <2>1. Len(queue') = Len(queue) + 1 /\ \A j \in 1..Len(queue) : queue'[j] = queue[j]
    BY <1>6, <1>2, Appending
  <2>2. i \in 1..Len(queue) /\ i <= Len(queue')
    BY <2>1, <1>1, <1>2, SMT
  <2> QED BY <2>1, <2>2, <1>1 DEF AmongFirst
<1>7. Take \/ queue' = queue \/ \E x \in Request : queue' = Append(queue, x)
  BY DEF Next, Loop, Complete, Handler, Put, PutWoken, Enqueue, GetResult, TimeOut, queueVars
<1>8. ASSUME NEW x \in Request, queue' = Append(queue, x) PROVE ~Take
  <2> SUFFICES ASSUME Take PROVE FALSE
    OBVIOUS
  <2>1. Len(queue') = Len(queue) + 1
    BY <1>8, <1>2, Appending
  <2>2. Len(queue') = Len(queue) - 1
    BY <1>2, HeadAndTail DEF Take
  <2> QED BY <2>1, <2>2, <1>2, SMT
<1> QED BY <1>4, <1>5, <1>6, <1>7

(* The second half of EveryRequestEnds, a place at a time: a queued command  *)
(* moves up a place in the queue or is taken, whatever the clients do and    *)
(* however many time out.  No command is among the first 0 of the queue,     *)
(* which holds at most MaxSize, so MaxSize uses of the theorem end in        *)
(* r \in Elements(ran).                                                      *)
THEOREM QueuedCommandsMoveUp ==
  ASSUME NEW r \in Request, NEW n \in Nat
  PROVE  FairSpec /\ [](LoopDue => ENABLED <<Loop>>_queueVars)
         => (AmongFirst(r, n + 1) ~> AmongFirst(r, n) \/ r \in Elements(ran))
<1> DEFINE Here == AmongFirst(r, n + 1)
           On == AmongFirst(r, n) \/ r \in Elements(ran)
           Free == executing = NoRequest
<1>1. QueueInv /\ Here /\ [Next]_queueVars => Here' \/ On'
  BY StepsMoveUp
<1>2. QueueInv /\ Here /\ [Next]_queueVars /\ Free => Free' \/ On'
  <2> SUFFICES ASSUME QueueInv, Here, [Next]_queueVars, Free, ~Take PROVE Free'
    BY StepsMoveUp
  <2> QED BY DEF Next, Loop, Complete, Handler, Put, PutWoken, GetResult, TimeOut, queueVars
<1>3. QueueInv /\ Here /\ Free /\ <<Loop>>_queueVars => On'
  <2> SUFFICES ASSUME QueueInv, Here, Free, Loop PROVE On'
    OBVIOUS
  <2>1. Take
    BY DEF Loop, Complete
  <2> QED BY <2>1, StepsMoveUp DEF Next
<1>4. QueueInv /\ Here /\ ~Free /\ <<Loop>>_queueVars => Free'
  BY DEF Loop, Take, Complete
<1>5. QueueInv /\ Here => LoopDue
  <2> SUFFICES ASSUME QueueInv, Here PROVE queue # <<>>
    BY DEF LoopDue
  <2>1. PICK i \in 1..(n + 1) : i <= Len(queue)
    BY DEF AmongFirst
  <2>2. queue \in Seq(Request)
    BY DEF QueueInv, TypeOK
  <2> QED BY <2>1, <2>2, EmptySeq, LenProperties, SMT
<1> HIDE DEF Here, On, Free
<1>6. FairSpec /\ [](LoopDue => ENABLED <<Loop>>_queueVars) => (Here ~> On)
  BY <1>1, <1>2, <1>3, <1>4, <1>5, QueueInvAlways, PTL DEF FairSpec, Spec
<1> QED BY <1>6 DEF Here, On

(* However full the queue is, room comes, so a putter that waits is woken    *)
(* again and again: only a latecomer that gets in first can keep it out.     *)
THEOREM RoomComes ==
  FairSpec /\ [](LoopDue => ENABLED <<Loop>>_queueVars)
  => (Len(queue) = MaxSize ~> Len(queue) < MaxSize)
<1> DEFINE Full == Len(queue) = MaxSize
           Room == Len(queue) < MaxSize
           Free == executing = NoRequest
<1>0. QueueInv => queue \in Seq(Request) /\ Len(queue) \in Nat /\ MaxSize \in Nat \ {0}
  BY QueueAssumption, LenProperties DEF QueueInv, TypeOK
<1>1. QueueInv' => Full' \/ Room'
  <2> SUFFICES ASSUME QueueInv' PROVE Full' \/ Room'
    OBVIOUS
  <2>1. queue' \in Seq(Request) /\ Len(queue') <= MaxSize
    BY DEF QueueInv, TypeOK
  <2>2. Len(queue') \in Nat
    BY <2>1, LenProperties
  <2> QED BY <2>1, <2>2, QueueAssumption, SMT
<1>2. QueueInv /\ Full => queue # <<>>
  BY <1>0, EmptySeq, SMT
<1>3. QueueInv /\ Full /\ Take => Room'
  <2> SUFFICES ASSUME QueueInv, Full, Take PROVE Room'
    OBVIOUS
  <2>1. Len(queue') = Len(queue) - 1
    BY <1>0, HeadAndTail DEF Take
  <2> QED BY <2>1, <1>0, SMT
<1>4. QueueInv /\ Full /\ [Next]_queueVars /\ Free => Free' \/ Room'
  <2> SUFFICES ASSUME QueueInv, Full, [Next]_queueVars, Free, ~Take PROVE Free'
    BY <1>3
  <2> QED BY DEF Next, Loop, Complete, Handler, Put, PutWoken, GetResult, TimeOut, queueVars
<1>5. QueueInv /\ Full /\ Free /\ <<Loop>>_queueVars => Room'
  <2> SUFFICES ASSUME QueueInv, Full, Free, Loop PROVE Room'
    OBVIOUS
  <2>1. Take
    BY DEF Loop, Complete
  <2> QED BY <2>1, <1>3
<1>6. QueueInv /\ Full /\ ~Free /\ <<Loop>>_queueVars => Free'
  BY DEF Loop, Take, Complete
<1>7. QueueInv /\ Full => LoopDue
  BY <1>2 DEF LoopDue
<1> HIDE DEF Full, Room, Free
<1>8. FairSpec /\ [](LoopDue => ENABLED <<Loop>>_queueVars) => (Full ~> Room)
  BY <1>1, <1>4, <1>5, <1>6, <1>7, QueueInvAlways, PTL DEF FairSpec, Spec
<1> QED BY <1>8 DEF Full, Room
===============================================================================
