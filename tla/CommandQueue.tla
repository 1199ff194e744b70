----------------------------- MODULE CommandQueue -----------------------------
(***************************************************************************)
(* engine/command_queue.py: how a command travels from an API handler to    *)
(* the engine's main loop and its result back.  A request stands for the    *)
(* handler that issued it and for its command, whose id is fresh.  The lock *)
(* of the queue is never held over an await, so a method is atomic between  *)
(* the awaits named here.                                                   *)
(***************************************************************************)
EXTENDS Naturals, Sequences

CONSTANTS Request,
          NoRequest,  (* the loop is executing nothing                      *)
          MaxSize     (* the capacity of the asyncio.Queue                  *)

ASSUME QueueAssumption == NoRequest \notin Request /\ MaxSize \in Nat \ {0}

VARIABLES client,     (* where the handler of each request is               *)
          queue,      (* the asyncio.Queue                                  *)
          pending,    (* _pending                                           *)
          results,    (* _results                                           *)
          executing,  (* the command the main loop took last, not completed *)
          accepted,   (* history: the commands in the order they were put   *)
          ran         (* history: the commands in the order they were taken *)

queueVars == <<client, queue, pending, results, executing, accepted, ran>>

Stage == {"idle", "putting", "waiting", "answered", "timedOut"}

Init ==
  /\ client = [r \in Request |-> "idle"]
  /\ queue = <<>>
  /\ pending = {}
  /\ results = {}
  /\ executing = NoRequest
  /\ accepted = <<>>
  /\ ran = <<>>

(* Mutation of Enqueue: the queue has no capacity.                           *)
EnqueueUnbounded(r) ==
  /\ queue' = Append(queue, r)
  /\ accepted' = Append(accepted, r)
  /\ client' = [client EXCEPT ![r] = "waiting"]

Enqueue(r) ==
  /\ Len(queue) < MaxSize
  /\ queue' = Append(queue, r)
  /\ accepted' = Append(accepted, r)
  /\ client' = [client EXCEPT ![r] = "waiting"]

(* Registered as pending and, if there is room, put without suspending.      *)
Put(r) ==
  /\ client[r] = "idle"
  /\ pending' = pending \cup {r}
  /\ \/ Enqueue(r)
     \/ /\ Len(queue) = MaxSize
        /\ client' = [client EXCEPT ![r] = "putting"]
        /\ UNCHANGED <<queue, accepted>>
  /\ UNCHANGED <<results, executing, ran>>

(* A putter that waited for room; one that came later may get in before it.  *)
PutWoken(r) ==
  /\ client[r] = "putting"
  /\ Enqueue(r)
  /\ UNCHANGED <<pending, results, executing, ran>>

(* Mutation of Take: the command put last is taken first.                    *)
TakeLast ==
  /\ executing = NoRequest
  /\ queue # <<>>
  /\ executing' = queue[Len(queue)]
  /\ queue' = SubSeq(queue, 1, Len(queue) - 1)
  /\ ran' = Append(ran, queue[Len(queue)])
  /\ UNCHANGED <<client, pending, results, accepted>>

(* get_nowait                                                               *)
Take ==
  /\ executing = NoRequest
  /\ queue # <<>>
  /\ executing' = Head(queue)
  /\ queue' = Tail(queue)
  /\ ran' = Append(ran, Head(queue))
  /\ UNCHANGED <<client, pending, results, accepted>>

(* Mutation of Complete: the command stays pending.                          *)
CompleteKeepingPending ==
  /\ executing # NoRequest
  /\ executing \in pending
  /\ results' = results \cup {executing}
  /\ executing' = NoRequest
  /\ UNCHANGED <<client, queue, pending, accepted, ran>>

(* With a result or with the error the command raised.                       *)
Complete ==
  /\ executing # NoRequest
  /\ pending' = pending \ {executing}
  /\ results' = IF executing \in pending THEN results \cup {executing} ELSE results
  /\ executing' = NoRequest
  /\ UNCHANGED <<client, queue, accepted, ran>>

(* A poll of get_result finds the result ...                                 *)
GetResult(r) ==
  /\ client[r] = "waiting"
  /\ r \in results
  /\ results' = results \ {r}
  /\ client' = [client EXCEPT ![r] = "answered"]
  /\ UNCHANGED <<queue, pending, executing, accepted, ran>>

(* Mutation of TimeOut: the command is withdrawn, wherever it is.            *)
TimeOutWithdrawing(r) ==
  /\ client[r] = "waiting"
  /\ r \notin results
  /\ client' = [client EXCEPT ![r] = "timedOut"]
  /\ queue' = SelectSeq(queue, LAMBDA x : x # r)
  /\ UNCHANGED <<pending, results, executing, accepted, ran>>

(* ... or does not, and the time is up. The command stays where it is.       *)
TimeOut(r) ==
  /\ client[r] = "waiting"
  /\ r \notin results
  /\ client' = [client EXCEPT ![r] = "timedOut"]
  /\ UNCHANGED <<queue, pending, results, executing, accepted, ran>>

Handler(r) == Put(r) \/ PutWoken(r) \/ GetResult(r) \/ TimeOut(r)

Loop == Take \/ Complete

Next == Loop \/ \E r \in Request : Handler(r)

Spec == Init /\ [][Next]_queueVars

(* A woken putter runs, a client polls.                                      *)
ClientFairness(r) == WF_queueVars(PutWoken(r)) /\ WF_queueVars(GetResult(r) \/ TimeOut(r))
ClientsFairness == \A r \in Request : ClientFairness(r)

(* The loop comes back to its queue.                                         *)
FairSpec == Spec /\ WF_queueVars(Loop) /\ ClientsFairness

-------------------------------------------------------------------------------
TypeOK ==
  /\ client \in [Request -> Stage]
  /\ queue \in Seq(Request) /\ Len(queue) <= MaxSize
  /\ pending \subseteq Request
  /\ results \subseteq Request
  /\ executing \in Request \cup {NoRequest}
  /\ accepted \in Seq(Request)
  /\ ran \in Seq(Request)

Elements(s) == {s[i] : i \in DOMAIN s}

NoDuplicates(s) == \A i, j \in DOMAIN s : s[i] = s[j] => i = j

(* Commands run in the order they were accepted, each of them once: what     *)
(* ran, followed by what is queued, is what was accepted.                   *)
FirstInFirstRun == accepted = ran \o queue /\ NoDuplicates(accepted)

(* A command is pending exactly while it is with a blocked handler, in the   *)
(* queue or being executed; it never has a result at the same time; and a   *)
(* client that waits has its command either pending or answered.            *)
PendingExact ==
  /\ pending = {r \in Request : client[r] = "putting"} \cup Elements(queue)
                 \cup ({executing} \ {NoRequest})
  /\ results \cap pending = {}
  /\ \A r \in Request : client[r] = "waiting" => r \in pending \cup results

(* Every handler returns, also with the queue full and the loop slow; and a  *)
(* command once issued is run, even when its client has long been told that *)
(* it timed out.                                                            *)
EveryRequestEnds ==
  \A r \in Request :
    /\ client[r] \in {"putting", "waiting"} ~> client[r] \in {"answered", "timedOut"}
    /\ r \in pending ~> r \in Elements(ran)
===============================================================================
