-------------------------- MODULE RestGateway_proofs -------------------------
(***************************************************************************)
(* Proofs about RestGateway, for any number of calls, attempts and faults  *)
(* and any length of a ban.                                                *)
(*                                                                         *)
(* An order's outcome is honest because its effect, what its body says and *)
(* what its caller was told stay in step through the retries: HonestSoFar  *)
(* relates the executions to the place where the call is, and to whether   *)
(* it is its own request or the one of the clock that it waits for.  With  *)
(* that the client implements OrderRequests.                               *)
(***************************************************************************)
EXTENDS RestGateway, TLAPS

(* The types, without the numbers of executions, which HonestSoFar bounds. *)
Types ==
    /\ mode \in {"live", "paper"}
    /\ pc \in [Call -> {"idle", "check", "backoff", "queued", "body", "sleep",
                        "joined", "done", "failed"}]
    /\ stage \in [Call -> {"main", "clock"}]
    /\ attempt \in [Call -> [main : 1..maxRetries, clock : 1..maxRetries]]
    /\ reply \in [Call -> Reply \cup {None}]
    /\ ban \in 0..MaxBan /\ backoff \in BOOLEAN /\ cached \in BOOLEAN
    /\ flight \in Futures \cup {None}
    /\ executed \in [Order -> Nat]
    /\ faults \in 0..MaxFaults

(* Exactly the calls that wait for their turn are in the queue, once each. *)
QueueOK ==
    /\ queue \in Seq(Call)
    /\ \A i, j \in DOMAIN queue : queue[i] = queue[j] => i = j
    /\ \A c \in Call : pc[c] = "queued" <=> \E i \in DOMAIN queue : queue[i] = c

(* Only reads of the futures cache join a fetch, and a call sleeps only    *)
(* before an attempt that it still has.                                    *)
PlacesOK ==
    /\ \A c \in Call : pc[c] = "joined" => c \in Futures
    /\ \A c \in Call : pc[c] = "sleep" => attempt[c][stage[c]] < maxRetries

(* What has become of an order, as far as it has come: nothing before its  *)
(* body, nor while its clock is synchronised.                              *)
HonestAt(c) ==
    /\ executed[c] <= 1
    /\ pc[c] \notin {"body", "done", "failed"} => executed[c] = 0
    /\ pc[c] = "body" /\ stage[c] = "clock" => executed[c] = 0
    /\ pc[c] = "body" /\ stage[c] = "main" =>
         /\ reply[c] \in {"ok", "garbage"} => executed[c] = 1
         /\ reply[c] \in {"refused", "clock", "limited", "banned"} => executed[c] = 0
    /\ pc[c] = "done" => executed[c] = 1
    /\ pc[c] = "failed" /\ reply[c] \in {"refused", "clock", "limited", "banned"}
         => executed[c] = 0

HonestSoFar == \A c \in Order : HonestAt(c)

IInv == Types /\ QueueOK /\ PlacesOK /\ HonestSoFar

LEMMA InitIInv == Init => IInv
<1> SUFFICES ASSUME Init PROVE IInv
  OBVIOUS
<1> USE DEF Init
<1>1. Types
  <2>1. attempt \in [Call -> [main : 1..maxRetries, clock : 1..maxRetries]]
    BY GatewayAssumption DEF FirstAttempt
  <2>2. ban \in 0..MaxBan /\ faults \in 0..MaxFaults
    BY GatewayAssumption
  <2> QED
    BY <2>1, <2>2 DEF Types
<1>2. QueueOK
  <2>1. queue \in Seq(Call) /\ DOMAIN queue = {}
    OBVIOUS
  <2> QED
    BY <2>1 DEF QueueOK
<1>3. PlacesOK
  BY DEF PlacesOK
<1>4. HonestSoFar
  BY DEF HonestSoFar, HonestAt, Call, Signed
<1> QED
  BY <1>1, <1>2, <1>3, <1>4 DEF IInv

-----------------------------------------------------------------------------
(* The queue: a call joins its end, its first one leaves, or those in it   *)
(* stay the same.                                                          *)
LEMMA QueueJoined ==
    ASSUME QueueOK, NEW c \in Call, pc[c] # "queued", queue' = Append(queue, c),
           pc' = [pc EXCEPT ![c] = "queued"], DOMAIN pc = Call
    PROVE  QueueOK'
<1>1. /\ queue' \in Seq(Call) /\ queue'[Len(queue) + 1] = c
      /\ DOMAIN queue' = 1..(Len(queue) + 1) /\ DOMAIN queue = 1..Len(queue)
      /\ Len(queue) \in Nat
      /\ \A i \in DOMAIN queue : queue'[i] = queue[i] /\ queue[i] # c
  BY DEF QueueOK
<1>2. \A i \in DOMAIN queue' : i \in DOMAIN queue \/ i = Len(queue) + 1
  BY <1>1
<1>3. \A i, j \in DOMAIN queue' : queue'[i] = queue'[j] => i = j
  BY <1>1, <1>2 DEF QueueOK
<1>4. ASSUME NEW x \in Call
      PROVE  pc'[x] = "queued" <=> \E i \in DOMAIN queue' : queue'[i] = x
  <2>1. CASE x = c
    BY <1>1, <2>1
  <2>2. CASE x # c
    BY <1>1, <1>2, <2>2 DEF QueueOK
  <2> QED
    BY <2>1, <2>2
<1> QED
  BY <1>1, <1>3, <1>4 DEF QueueOK

LEMMA QueueLeft ==
    ASSUME QueueOK, NEW c \in Call, queue # <<>>, Head(queue) = c, queue' = Tail(queue),
           pc'[c] # "queued",
           \A x \in Call \ {c} : pc'[x] = "queued" <=> pc[x] = "queued"
    PROVE  QueueOK'
<1>1. /\ queue' \in Seq(Call) /\ queue[1] = c
      /\ Len(queue) \in Nat \ {0}
      /\ DOMAIN queue' = 1..(Len(queue) - 1) /\ DOMAIN queue = 1..Len(queue)
      /\ \A i \in DOMAIN queue' : queue'[i] = queue[i + 1] /\ i + 1 \in DOMAIN queue
  BY DEF QueueOK
<1>2. \A i, j \in DOMAIN queue' : queue'[i] = queue'[j] => i = j
  BY <1>1 DEF QueueOK
<1>3. ASSUME NEW x \in Call
      PROVE  pc'[x] = "queued" <=> \E i \in DOMAIN queue' : queue'[i] = x
  <2>1. CASE x = c
    <3>1. 1 \in DOMAIN queue /\ \A i \in DOMAIN queue' : i + 1 # 1
      BY <1>1
    <3>2. \A i \in DOMAIN queue' : queue[i + 1] # c
      BY <1>1, <3>1 DEF QueueOK
    <3> QED
      BY <1>1, <2>1, <3>2
  <2>2. CASE x # c
    <3>1. ASSUME pc[x] = "queued" PROVE \E i \in DOMAIN queue' : queue'[i] = x
      <4>1. PICK j \in DOMAIN queue : queue[j] = x
        BY <3>1 DEF QueueOK
      <4>2. j # 1
        BY <1>1, <2>2, <4>1
      <4>3. j - 1 \in DOMAIN queue' /\ (j - 1) + 1 = j
        BY <1>1, <4>1, <4>2
      <4>4. queue'[j - 1] = x
        BY <1>1, <4>1, <4>3
      <4> QED
        BY <4>3, <4>4
    <3>2. ASSUME NEW i \in DOMAIN queue', queue'[i] = x PROVE pc[x] = "queued"
      BY <1>1, <3>2 DEF QueueOK
    <3> QED
      BY <2>2, <3>1, <3>2
  <2> QED
    BY <2>1, <2>2
<1> QED
  BY <1>1, <1>2, <1>3 DEF QueueOK

LEMMA QueueKept ==
    ASSUME QueueOK, queue' = queue,
           \A x \in Call : pc'[x] = "queued" <=> pc[x] = "queued"
    PROVE  QueueOK'
BY DEF QueueOK

-----------------------------------------------------------------------------
(* What a step of call c leaves alone: the others stay where they are, but *)
(* for those who had joined its fetch.                                     *)
Joined(x) == x \in Futures /\ pc[x] = "joined" /\ pc'[x] \in {"done", "failed"}
PlacesKept(c) == \A x \in Call \ {c} : pc'[x] = pc[x] \/ Joined(x)
OthersKept(c) ==
    /\ PlacesKept(c)
    /\ \A x \in Call \ {c} : stage'[x] = stage[x] /\ attempt'[x] = attempt[x]

(* The variables that belong to a call's progress.                         *)
ProgressTypes ==
    /\ pc \in [Call -> {"idle", "check", "backoff", "queued", "body", "sleep",
                        "joined", "done", "failed"}]
    /\ stage \in [Call -> {"main", "clock"}]
    /\ attempt \in [Call -> [main : 1..maxRetries, clock : 1..maxRetries]]
    /\ flight \in Futures \cup {None} /\ cached \in BOOLEAN

LEMMA SettleEffect ==
    ASSUME Types, PlacesOK, NEW c \in Call, NEW result \in {"done", "failed"},
           Settle(c, result)
    PROVE  /\ ProgressTypes' /\ PlacesOK' /\ OthersKept(c)
           /\ pc'[c] = result /\ stage'[c] = "main"
<1> USE DEF Settle, Types
<1>1. FirstAttempt \in [main : 1..maxRetries, clock : 1..maxRetries]
  BY GatewayAssumption DEF FirstAttempt
<1>2. ProgressTypes'
  BY <1>1 DEF ProgressTypes
<1>3. OthersKept(c) /\ pc'[c] = result /\ stage'[c] = "main"
  BY DEF OthersKept, PlacesKept, Joined, PlacesOK
<1>4. PlacesOK'
  BY <1>3 DEF PlacesOK, OthersKept, PlacesKept, Joined
<1> QED
  BY <1>2, <1>3, <1>4

(* A call that threw goes back to the rate limits for its clock, sleeps    *)
(* before another attempt, or fails; an order is only repeated for its     *)
(* clock, which it asks for after its own request was refused for it.      *)
LEMMA CaughtEffect ==
    ASSUME Types, PlacesOK, NEW c \in Call, NEW o, Caught(c, o),
           pc[c] \in {"queued", "body"}
    PROVE  /\ ProgressTypes' /\ PlacesOK' /\ OthersKept(c)
           /\ pc'[c] \in {"check", "sleep", "failed"}
           /\ c \in Order /\ pc'[c] = "check" => stage[c] = "main" /\ o = "clock"
           /\ c \in Order /\ pc'[c] = "sleep" => stage[c] = "clock"
<1> USE DEF Types
<1>1. CASE /\ stage[c] = "main" /\ o = "clock" /\ c \in Signed
           /\ stage' = [stage EXCEPT ![c] = "clock"]
           /\ attempt' = [attempt EXCEPT ![c].clock = 1]
           /\ Goto(c, "check") /\ UNCHANGED futures
  <2>1. ProgressTypes'
    BY <1>1, GatewayAssumption DEF ProgressTypes, Goto, futures
  <2>2. OthersKept(c) /\ pc'[c] = "check"
    BY <1>1 DEF OthersKept, PlacesKept, Goto
  <2>3. PlacesOK'
    BY <1>1, <2>2 DEF PlacesOK, OthersKept, PlacesKept, Joined
  <2> QED
    BY <1>1, <2>1, <2>2, <2>3
<1>2. CASE /\ AttemptsLeft(c) /\ MayRetry(o)
           /\ stage[c] = "clock" \/ SafeToRetry(c)
           /\ Goto(c, "sleep") /\ UNCHANGED <<call, futures>>
  <2>1. ProgressTypes'
    BY <1>2 DEF ProgressTypes, Goto, call, futures
  <2>2. OthersKept(c) /\ pc'[c] = "sleep"
    BY <1>2 DEF OthersKept, PlacesKept, Goto, call
  <2>3. PlacesOK'
    BY <1>2, <2>2 DEF PlacesOK, OthersKept, PlacesKept, Joined, AttemptsLeft, call
  <2> QED
    BY <1>2, <2>1, <2>2, <2>3 DEF SafeToRetry
<1>3. CASE Settle(c, "failed")
  BY <1>3, SettleEffect
<1> QED
  BY <1>1, <1>2, <1>3 DEF Caught

(* The answer to a call's own request ends it; the answer to the clock's   *)
(* is followed by another attempt, or by the failure of the call.          *)
LEMMA SucceededEffect ==
    ASSUME Types, PlacesOK, NEW c \in Call, Succeeded(c), pc[c] = "body"
    PROVE  /\ ProgressTypes' /\ PlacesOK' /\ OthersKept(c)
           /\ \/ pc'[c] = "done" /\ stage[c] = "main"
              \/ pc'[c] \in {"sleep", "failed"} /\ stage[c] = "clock"
<1> USE DEF Types
<1>1. CASE stage[c] = "main" /\ Settle(c, "done")
  <2>1. /\ ProgressTypes' /\ PlacesOK' /\ OthersKept(c)
        /\ pc'[c] = "done"
    BY <1>1, SettleEffect
  <2> QED
    BY <1>1, <2>1
<1>2. CASE /\ stage[c] = "clock" /\ attempt[c].main < maxRetries
           /\ stage' = [stage EXCEPT ![c] = "main"]
           /\ attempt' = [attempt EXCEPT ![c].clock = 1]
           /\ Goto(c, "sleep") /\ UNCHANGED futures
  <2>1. ProgressTypes'
    BY <1>2, GatewayAssumption DEF ProgressTypes, Goto, futures
  <2>2. OthersKept(c) /\ pc'[c] = "sleep"
    BY <1>2 DEF OthersKept, PlacesKept, Goto
  <2>3. attempt'[c].main = attempt[c].main /\ stage'[c] = "main"
    BY <1>2
  <2>4. PlacesOK'
    BY <1>2, <2>2, <2>3 DEF PlacesOK, OthersKept, PlacesKept, Joined
  <2> QED
    BY <1>2, <2>1, <2>2, <2>4
<1>3. CASE stage[c] = "clock" /\ Settle(c, "failed")
  BY <1>3, SettleEffect
<1> QED
  BY <1>1, <1>2, <1>3 DEF Succeeded

(* What is true of the orders a step leaves alone stays true.              *)
LEMMA HonestKept ==
    ASSUME IInv, NEW c \in Call, OthersKept(c), NEW x \in Order \ {c},
           reply'[x] = reply[x], executed'[x] = executed[x]
    PROVE  HonestAt(x)'
<1>1. x \in Call /\ x \notin Futures
  BY GatewayAssumption DEF Call, Signed
<1>2. pc'[x] = pc[x] /\ stage'[x] = stage[x] /\ HonestAt(x)
  BY <1>1 DEF OthersKept, PlacesKept, Joined, IInv, HonestSoFar
<1> QED
  BY <1>2 DEF HonestAt

LEMMA QueuedKept ==
    ASSUME NEW c \in Call, OthersKept(c)
    PROVE  \A x \in Call \ {c} : pc'[x] = "queued" <=> pc[x] = "queued"
BY DEF OthersKept, PlacesKept, Joined

-----------------------------------------------------------------------------
(* A step of call c keeps the invariant if it keeps c's part of it.        *)
OrdersKept(c) ==
    \A x \in Order \ {c} : reply'[x] = reply[x] /\ executed'[x] = executed[x]

LEMMA CallStep ==
    ASSUME IInv, NEW c \in Call, OthersKept(c), OrdersKept(c), Types', QueueOK',
           PlacesOK', c \in Order => HonestAt(c)'
    PROVE  IInv'
<1>1. ASSUME NEW x \in Order PROVE HonestAt(x)'
  BY HonestKept DEF OrdersKept
<1> QED
  BY <1>1 DEF IInv, HonestSoFar

-----------------------------------------------------------------------------
(* The steps of a call.                                                    *)
LEMMA PlaceOrderStep == ASSUME IInv, NEW c \in Call, PlaceOrder(c) PROVE IInv'
<1> USE DEF PlaceOrder, Goto, call, limits, futures
<1>1. c \in Order /\ pc[c] = "idle" /\ HonestAt(c) /\ Types
  BY DEF IInv, HonestSoFar
<1>2. Types'
  BY <1>1 DEF Types, Reply, Answers
<1>3. OthersKept(c) /\ pc'[c] \in {"check", "failed"}
  BY <1>1 DEF OthersKept, PlacesKept, Types
<1>4. QueueOK'
  BY <1>1, <1>3, QueuedKept, QueueKept DEF IInv
<1>5. PlacesOK'
  BY <1>1, <1>3 DEF IInv, PlacesOK, OthersKept, PlacesKept, Joined
<1>6. HonestAt(c)'
  BY <1>1 DEF HonestAt, Types
<1>7. OrdersKept(c)
  BY <1>1 DEF OrdersKept, Types, Call, Signed
<1> QED
  BY <1>2, <1>3, <1>4, <1>5, <1>6, <1>7, CallStep

LEMMA ReadStep ==
    ASSUME IInv, NEW c \in Call, fetchOrderTradesWithStreamFallback(c) \/ requestToBase(c)
    PROVE  IInv'
<1> USE DEF fetchOrderTradesWithStreamFallback, requestToBase, Goto, call, limits, futures
<1>1. c \notin Order /\ pc[c] = "idle" /\ Types
  BY GatewayAssumption DEF IInv, Call, Signed
<1>2. /\ pc'[c] \in {"check", "done", "joined"}
      /\ pc'[c] = "joined" => c \in Futures
      /\ pc' = [pc EXCEPT ![c] = pc'[c]]
  BY <1>1 DEF Types
<1>3. Types'
  BY <1>1, <1>2 DEF Types
<1>4. OthersKept(c)
  BY <1>1, <1>2 DEF OthersKept, PlacesKept, Types
<1>5. QueueOK'
  BY <1>1, <1>2, <1>4, QueuedKept, QueueKept DEF IInv
<1>6. PlacesOK'
  BY <1>1, <1>2, <1>4 DEF IInv, PlacesOK, OthersKept, PlacesKept, Joined
<1>7. OrdersKept(c)
  BY DEF OrdersKept
<1> QED
  BY <1>1, <1>3, <1>4, <1>5, <1>6, <1>7, CallStep

LEMMA CheckStep == ASSUME IInv, NEW c \in Call, respectActiveRateLimits(c) PROVE IInv'
<1> USE DEF respectActiveRateLimits
<1>1. pc[c] = "check" /\ Types /\ PlacesOK /\ (c \in Order => HonestAt(c))
  BY DEF IInv, HonestSoFar
<1>2. CASE Settle(c, "failed") /\ Says(c, "banned") /\ queue' = queue
  <2>1. /\ ProgressTypes' /\ PlacesOK' /\ OthersKept(c) /\ pc'[c] = "failed"
    BY <1>1, <1>2, SettleEffect
  <2>2. Types'
    BY <1>1, <1>2, <2>1 DEF Types, ProgressTypes, Says, Reply, Answers, limits
  <2>3. QueueOK'
    BY <1>1, <1>2, <2>1, QueuedKept, QueueKept DEF IInv
  <2>4. c \in Order => HonestAt(c)'
    BY <1>1, <2>1 DEF HonestAt
  <2>5. OrdersKept(c)
    BY <1>1, <1>2 DEF OrdersKept, Says, Types, Call, Signed
  <2> QED
    BY <2>1, <2>2, <2>3, <2>4, <2>5, CallStep
<1>3. CASE /\ \/ Goto(c, "backoff") /\ UNCHANGED queue
              \/ Goto(c, "queued") /\ queue' = Append(queue, c)
           /\ UNCHANGED <<reply, futures, call>>
  <2>1. /\ pc' = [pc EXCEPT ![c] = pc'[c]] /\ pc'[c] \in {"backoff", "queued"}
        /\ UNCHANGED <<reply, flight, cached, stage, attempt>>
    BY <1>1, <1>3 DEF Goto, Types, futures, call
  <2>2. Types'
    BY <1>1, <2>1 DEF Types, limits
  <2>3. OthersKept(c)
    BY <1>1, <2>1 DEF OthersKept, PlacesKept, Types
  <2>4. QueueOK'
    <3>1. CASE Goto(c, "backoff") /\ UNCHANGED queue
      BY <1>1, <2>3, <3>1, QueuedKept, QueueKept DEF IInv, Goto, Types
    <3>2. CASE Goto(c, "queued") /\ queue' = Append(queue, c)
      BY <1>1, <3>2, QueueJoined DEF IInv, Goto, Types
    <3> QED
      BY <1>3, <3>1, <3>2
  <2>5. PlacesOK'
    BY <1>1, <2>1 DEF PlacesOK, Types
  <2>6. c \in Order => HonestAt(c)'
    BY <1>1, <2>1 DEF HonestAt
  <2>7. OrdersKept(c)
    BY <2>1 DEF OrdersKept
  <2> QED
    BY <2>2, <2>3, <2>4, <2>5, <2>6, <2>7, CallStep
<1> QED
  BY <1>2, <1>3

LEMMA EnqueueStep == ASSUME IInv, NEW c \in Call, enqueueRequestWeightFetch(c) PROVE IInv'
<1> USE DEF enqueueRequestWeightFetch, Goto, call, limits, futures
<1>1. pc[c] = "backoff" /\ Types /\ (c \in Order => HonestAt(c))
  BY DEF IInv, HonestSoFar
<1>2. Types'
  BY <1>1 DEF Types
<1>3. OthersKept(c) /\ OrdersKept(c)
  BY DEF OthersKept, OrdersKept, PlacesKept
<1>4. QueueOK'
  BY <1>1, QueueJoined DEF IInv, Types
<1>5. PlacesOK'
  BY <1>1 DEF IInv, PlacesOK, Types
<1>6. c \in Order => HonestAt(c)'
  BY <1>1 DEF HonestAt, Types
<1> QED
  BY <1>2, <1>3, <1>4, <1>5, <1>6, CallStep

LEMMA NextAttemptStep == ASSUME IInv, NEW c \in Call, NextAttempt(c) PROVE IInv'
<1> USE DEF NextAttempt, Goto, limits, futures
<1>1. pc[c] = "sleep" /\ Types /\ (c \in Order => HonestAt(c))
  BY DEF IInv, HonestSoFar
<1>2. attempt' \in [Call -> [main : 1..maxRetries, clock : 1..maxRetries]]
  <2>1. attempt[c][stage[c]] < maxRetries /\ stage[c] \in {"main", "clock"}
    BY <1>1 DEF IInv, PlacesOK, Types
  <2>2. [attempt[c] EXCEPT ![stage[c]] = @ + 1] \in [main : 1..maxRetries, clock : 1..maxRetries]
    <3>1. CASE stage[c] = "main"
      BY <1>1, <2>1, <3>1, GatewayAssumption DEF Types
    <3>2. CASE stage[c] = "clock"
      BY <1>1, <2>1, <3>2, GatewayAssumption DEF Types
    <3> QED
      BY <2>1, <3>1, <3>2
  <2> QED
    BY <1>1, <2>2 DEF Types
<1>3. Types'
  BY <1>1, <1>2 DEF Types
<1>4. OthersKept(c) /\ OrdersKept(c)
  BY <1>1 DEF OthersKept, OrdersKept, PlacesKept, Types
<1>5. QueueOK'
  BY <1>1, <1>4, QueuedKept, QueueKept DEF IInv, Types
<1>6. PlacesOK'
  BY <1>1, <1>4 DEF IInv, PlacesOK, Types, OthersKept
<1>7. c \in Order => HonestAt(c)'
  BY <1>1 DEF HonestAt, Types
<1> QED
  BY <1>3, <1>4, <1>5, <1>6, <1>7, CallStep

-----------------------------------------------------------------------------
(* The wire.                                                               *)

(* What is true of an order's own request once the exchange has dealt with *)
(* it, by what came back.                                                  *)
LEMMA ExecutesEffect ==
    ASSUME Types, NEW c \in Call, NEW o \in Reply, Executes(c, o),
           c \in Order => executed[c] = 0
    PROVE  /\ executed' \in [Order -> Nat]
           /\ \A x \in Order \ {c} : executed'[x] = executed[x]
           /\ c \in Order => executed'[c] <= 1
           /\ c \in Order /\ stage[c] = "clock" => executed'[c] = 0
           /\ c \in Order /\ stage[c] = "main" =>
                /\ o \in {"ok", "garbage"} => executed'[c] = 1
                /\ o \in {"refused", "clock", "limited", "banned"} => executed'[c] = 0
<1>1. CASE c \in Order /\ stage[c] = "main"
  <2>1. PICK n \in {0, 1} :
            /\ executed' = [executed EXCEPT ![c] = @ + n]
            /\ o \in {"ok", "garbage"} => n = 1
            /\ o \in {"refused", "clock", "limited", "banned"} => n = 0
    <3>1. CASE o \in {"ok", "garbage"}
      BY <1>1, <3>1 DEF Executes
    <3>2. CASE o \in {"error", "network", "timeout"}
      BY <1>1, <3>2 DEF Executes
    <3>3. CASE o \in {"refused", "clock", "limited", "banned"}
      BY <1>1, <3>3 DEF Executes
    <3> QED
      BY <3>1, <3>2, <3>3 DEF Reply, Answers
  <2> QED
    BY <1>1, <2>1 DEF Types
<1>2. CASE ~(c \in Order /\ stage[c] = "main")
  BY <1>2 DEF Executes, Types
<1> QED
  BY <1>1, <1>2

LEMMA FetchStep == ASSUME IInv, NEW c \in Call, FetchSettles(c) PROVE IInv'
<1> USE DEF FetchSettles
<1>1. /\ Types /\ PlacesOK /\ QueueOK
      /\ c \in Order => HonestAt(c)
  BY DEF IInv, HonestSoFar
<1>2. pc[c] = "queued"
  <2>1. 1 \in DOMAIN queue /\ queue[1] = c
    BY <1>1 DEF QueueOK
  <2> QED
    BY <1>1, <2>1 DEF QueueOK
<1>3. PICK o \in Reply :
         /\ IF o = "ok" THEN UNCHANGED faults ELSE faults < MaxFaults /\ faults' = faults + 1
         /\ o = "clock" => stage[c] = "main" /\ c \in Signed
         /\ Executes(c, o)
         /\ IF o \in Answers
            THEN /\ Goto(c, "body") /\ reply' = [reply EXCEPT ![c] = o]
                 /\ UNCHANGED <<call, futures>>
            ELSE Caught(c, o) /\ Says(c, o)
  OBVIOUS
<1>4. c \in Order => executed[c] = 0
  BY <1>1, <1>2 DEF HonestAt
<1>5. faults' \in 0..MaxFaults
  BY <1>1, <1>3, GatewayAssumption DEF Types
<1>6. OrdersKept(c)
  <2>1. \A x \in Order \ {c} : executed'[x] = executed[x]
    BY <1>1, <1>3, <1>4, ExecutesEffect
  <2>2. \A x \in Order \ {c} : reply'[x] = reply[x]
    BY <1>1, <1>3 DEF Says, Types, Call, Signed
  <2> QED
    BY <2>1, <2>2 DEF OrdersKept
<1>7. reply' \in [Call -> Reply \cup {None}]
  BY <1>1, <1>3 DEF Says, Types
<1>8. executed' \in [Order -> Nat]
  BY <1>1, <1>3, <1>4, ExecutesEffect
<1>9. CASE o \in Answers
  <2>1. /\ pc' = [pc EXCEPT ![c] = "body"] /\ reply'[c] = o
        /\ UNCHANGED <<stage, attempt, flight, cached>>
    BY <1>1, <1>3, <1>9 DEF Goto, call, futures, Types
  <2>2. Types'
    BY <1>1, <1>5, <1>7, <1>8, <2>1 DEF Types, limits
  <2>3. OthersKept(c)
    BY <1>1, <2>1 DEF OthersKept, PlacesKept, Types
  <2>4. QueueOK'
    BY <1>1, <2>1, <2>3, QueuedKept, QueueLeft DEF Types
  <2>5. PlacesOK'
    BY <1>1, <2>1 DEF PlacesOK, Types
  <2>6. c \in Order => HonestAt(c)'
    BY <1>1, <1>3, <1>4, <2>1, ExecutesEffect DEF HonestAt, Types
  <2> QED
    BY <1>6, <2>2, <2>3, <2>4, <2>5, <2>6, CallStep
<1>10. CASE o \notin Answers
  <2>1. Caught(c, o) /\ Says(c, o)
    BY <1>3, <1>10
  <2>2. o \in {"network", "timeout"}
    BY <1>10 DEF Reply
  <2>3. /\ ProgressTypes' /\ PlacesOK' /\ OthersKept(c)
        /\ pc'[c] \in {"check", "sleep", "failed"}
        /\ c \in Order /\ pc'[c] = "check" => stage[c] = "main" /\ o = "clock"
        /\ c \in Order /\ pc'[c] = "sleep" => stage[c] = "clock"
    BY <1>1, <1>2, <2>1, CaughtEffect
  <2>4. Types'
    BY <1>1, <1>5, <1>7, <1>8, <2>3 DEF Types, ProgressTypes, limits
  <2>5. QueueOK'
    BY <1>1, <2>3, QueuedKept, QueueLeft
  <2>6. c \in Order => HonestAt(c)'
    <3>1. c \in Order => reply'[c] = o
      BY <1>1, <2>1 DEF Says, Types
    <3> QED
      BY <1>1, <1>3, <1>4, <2>2, <2>3, <3>1, ExecutesEffect DEF HonestAt, Types
  <2> QED
    BY <1>6, <2>3, <2>4, <2>5, <2>6, CallStep
<1> QED
  BY <1>9, <1>10

LEMMA LimitsEffect ==
    ASSUME Types, NEW c, NEW o, updateRequestWeightFromResponse(c, o)
    PROVE  ban' \in 0..MaxBan /\ backoff' \in BOOLEAN /\ ban' >= ban
<1>1. CASE o = "banned"
  <2>1. PICK claim \in 0..MaxBan : ban' = BanUntil(claim) /\ backoff' = backoff
    BY <1>1 DEF updateRequestWeightFromResponse
  <2>2. ban \in 0..MaxBan /\ MaxBan \in Nat /\ backoff \in BOOLEAN
    BY GatewayAssumption DEF Types
  <2> QED
    BY <2>1, <2>2 DEF BanUntil, Latest
<1>2. CASE o # "banned"
  <2>1. ban' = ban /\ backoff' \in BOOLEAN
    BY <1>2 DEF updateRequestWeightFromResponse, Types
  <2> QED
    BY <2>1 DEF Types
<1> QED
  BY <1>1, <1>2

LEMMA BodyStep == ASSUME IInv, NEW c \in Call, ReadBody(c) PROVE IInv'
<1> USE DEF ReadBody
<1>1. /\ Types /\ PlacesOK /\ QueueOK /\ pc[c] = "body"
      /\ c \in Order => HonestAt(c)
  BY DEF IInv, HonestSoFar
<1>2. faults' \in 0..MaxFaults /\ ban' \in 0..MaxBan /\ backoff' \in BOOLEAN
  BY <1>1, GatewayAssumption, LimitsEffect DEF Types, limits
<1>3. CASE /\ reply[c] = "ok" /\ Succeeded(c)
           /\ Says(c, IF stage[c] = "main" THEN "ok" ELSE "clock")
  <2>1. /\ ProgressTypes' /\ PlacesOK' /\ OthersKept(c)
        /\ \/ pc'[c] = "done" /\ stage[c] = "main"
           \/ pc'[c] \in {"sleep", "failed"} /\ stage[c] = "clock"
    BY <1>1, <1>3, SucceededEffect
  <2>2. Types'
    BY <1>1, <1>2, <1>3, <2>1 DEF Types, ProgressTypes, Says, Reply, Answers
  <2>3. QueueOK'
    BY <1>1, <2>1, QueuedKept, QueueKept
  <2>4. c \in Order => HonestAt(c)'
    BY <1>1, <1>3, <2>1 DEF HonestAt, Types
  <2>5. OrdersKept(c)
    BY <1>1, <1>3 DEF OrdersKept, Says, Types, Call, Signed
  <2> QED
    BY <2>1, <2>2, <2>3, <2>4, <2>5, CallStep
<1>4. ASSUME NEW o \in Reply, Caught(c, o), Says(c, o), o \in {reply[c], "timeout", "network"}
      PROVE  IInv'
  <2>1. /\ ProgressTypes' /\ PlacesOK' /\ OthersKept(c)
        /\ pc'[c] \in {"check", "sleep", "failed"}
        /\ c \in Order /\ pc'[c] = "check" => stage[c] = "main" /\ o = "clock"
        /\ c \in Order /\ pc'[c] = "sleep" => stage[c] = "clock"
    BY <1>1, <1>4, CaughtEffect
  <2>2. Types'
    BY <1>1, <1>2, <1>4, <2>1 DEF Types, ProgressTypes, Says
  <2>3. QueueOK'
    BY <1>1, <2>1, QueuedKept, QueueKept
  <2>4. c \in Order => HonestAt(c)'
    <3>1. c \in Order => reply'[c] = o
      BY <1>1, <1>4 DEF Says, Types
    <3> QED
      BY <1>1, <1>4, <2>1, <3>1 DEF HonestAt, Types
  <2>5. OrdersKept(c)
    BY <1>1, <1>4 DEF OrdersKept, Says, Types, Call, Signed
  <2> QED
    BY <2>1, <2>2, <2>3, <2>4, <2>5, CallStep
<1>5. CASE reply[c] \notin {"ok", "garbage"} /\ updateRequestWeightFromResponse(c, reply[c])
  <2>1. reply[c] \in Reply
    BY <1>5 DEF updateRequestWeightFromResponse, Reply, Answers
  <2>2. ~(reply[c] = "ok") /\ ~(reply[c] = "garbage")
    BY <1>5
  <2> QED
    BY <1>4, <2>1, <2>2 DEF Reply
<1> QED
  BY <1>3, <1>4, <1>5 DEF Reply, Answers

-----------------------------------------------------------------------------
(* The steps that belong to no call: time and the cache's term.            *)
LEMMA QuietStep ==
    ASSUME IInv, UNCHANGED <<mode, pc, call, reply, queue, flight, executed, faults>>,
           ban' \in 0..MaxBan, backoff' \in BOOLEAN, cached' \in BOOLEAN
    PROVE  IInv'
<1> USE DEF call, IInv
<1>1. Types'
  BY DEF Types
<1>2. QueueOK'
  BY QueueKept
<1>3. PlacesOK' /\ HonestSoFar'
  BY DEF PlacesOK, HonestSoFar, HonestAt
<1> QED
  BY <1>1, <1>2, <1>3

LEMMA TimeStep == ASSUME IInv, CacheExpires \/ BanStep \/ BackoffEnds PROVE IInv'
<1>1. ban \in 0..MaxBan /\ backoff \in BOOLEAN /\ cached \in BOOLEAN /\ MaxBan \in Nat
  BY GatewayAssumption DEF IInv, Types
<1>2. CASE CacheExpires
  BY <1>1, <1>2, QuietStep DEF CacheExpires, limits
<1>3. CASE BanStep
  BY <1>1, <1>3, QuietStep DEF BanStep, futures
<1>4. CASE BackoffEnds
  BY <1>1, <1>4, QuietStep DEF BackoffEnds, futures
<1> QED
  BY <1>2, <1>3, <1>4

LEMMA NextIInv == IInv /\ [Next]_vars => IInv'
<1> SUFFICES ASSUME IInv, [Next]_vars PROVE IInv'
  OBVIOUS
<1>1. ASSUME NEW c \in Call, Begin(c) PROVE IInv'
  BY <1>1, PlaceOrderStep, ReadStep DEF Begin
<1>2. ASSUME NEW c \in Call, Proceed(c) PROVE IInv'
  BY <1>2, CheckStep, EnqueueStep, FetchStep, BodyStep, NextAttemptStep DEF Proceed
<1>3. CASE CacheExpires \/ BanStep \/ BackoffEnds
  BY <1>3, TimeStep
<1>4. CASE UNCHANGED vars
  BY <1>4, QuietStep DEF vars, limits, futures, IInv, Types
<1> QED
  BY <1>1, <1>2, <1>3, <1>4 DEF Next

(* The invariant holds in every state of every behaviour.                  *)
LEMMA Invariant == Spec => []IInv
<1> QED
  BY InitIInv, NextIInv, PTL DEF Spec

-----------------------------------------------------------------------------
(* The types: every call is where the client can be with it, it uses its   *)
(* attempts up and no more, it stands in the queue of fetches exactly once *)
(* while it waits for its turn, and an order is executed at most as often  *)
(* as it may be tried.                                                     *)
THEOREM TypeCorrect == Spec => []TypeOK
<1>1. IInv => TypeOK
  <2> SUFFICES ASSUME IInv PROVE TypeOK
    OBVIOUS
  <2>1. executed \in [Order -> 0..maxRetries]
    BY GatewayAssumption DEF IInv, Types, HonestSoFar, HonestAt
  <2> QED
    BY <2>1 DEF IInv, Types, QueueOK, TypeOK
<1> QED
  BY <1>1, Invariant, PTL

(* No order is carried out twice, and what its caller is told agrees with  *)
(* what the exchange did, through every retry, clock synchronisation,      *)
(* timeout and broken body of request, for any number of attempts.         *)
THEOREM OutcomesAreHonest == Spec => []OutcomeIsHonest
<1>1. IInv => OutcomeIsHonest
  BY DEF IInv, HonestSoFar, HonestAt, OutcomeIsHonest
<1> QED
  BY <1>1, Invariant, PTL

(* While a ban is known no call joins those that are about to fetch: each  *)
(* attempt begins with respectActiveRateLimits.                            *)
THEOREM BansAreHeeded == Spec => BanIsHeeded
<1>1. IInv /\ [Next]_vars =>
        [ban > 0 => \A c \in Call : pc'[c] \in Waiting => pc[c] \in Waiting]_vars
  <2> SUFFICES ASSUME IInv, Next, ban > 0, NEW c \in Call, pc'[c] \in Waiting
               PROVE  pc[c] \in Waiting
    OBVIOUS
  <2> USE DEF Waiting
  <2>1. Types /\ PlacesOK
    BY DEF IInv
  <2>2. ASSUME NEW d \in Call, OthersKept(d), d = c => pc'[d] \notin Waiting
        PROVE  pc[c] \in Waiting
    BY <2>2 DEF OthersKept, PlacesKept, Joined
  <2>3. ASSUME NEW d \in Call, Begin(d) PROVE pc[c] \in Waiting
    <3>1. c # d => pc'[c] = pc[c]
      BY <2>1, <2>3 DEF Begin, PlaceOrder, fetchOrderTradesWithStreamFallback,
         requestToBase, Goto, Types
    <3>2. pc'[d] \notin Waiting
      BY <2>1, <2>3 DEF Begin, PlaceOrder, fetchOrderTradesWithStreamFallback,
         requestToBase, Goto, Types
    <3> QED
      BY <3>1, <3>2
  <2>4. ASSUME NEW d \in Call, respectActiveRateLimits(d) PROVE pc[c] \in Waiting
    <3>1. Settle(d, "failed")
      BY <2>1, <2>4, GatewayAssumption DEF respectActiveRateLimits, Types
    <3> QED
      BY <2>1, <2>2, <3>1, SettleEffect
  <2>5. ASSUME NEW d \in Call, enqueueRequestWeightFetch(d) PROVE pc[c] \in Waiting
    BY <2>1, <2>5 DEF enqueueRequestWeightFetch, Goto, Types
  <2>6. ASSUME NEW d \in Call, NextAttempt(d) PROVE pc[c] \in Waiting
    BY <2>1, <2>6 DEF NextAttempt, Goto, Types
  <2>7. ASSUME NEW d \in Call, FetchSettles(d) PROVE pc[c] \in Waiting
    <3>1. d = c => pc[c] \in Waiting
      <4>1. 1 \in DOMAIN queue /\ queue[1] = d
        BY <2>7 DEF IInv, QueueOK, FetchSettles
      <4> QED
        BY <4>1 DEF IInv, QueueOK
    <3>2. CASE d # c
      <4>1. PICK o \in Reply : \/ Goto(d, "body")
                               \/ Caught(d, o)
        BY <2>7 DEF FetchSettles
      <4>2. CASE Goto(d, "body")
        BY <2>1, <3>2, <4>2 DEF Goto, Types
      <4>3. CASE Caught(d, o)
        <5>1. pc[d] = "queued"
          <6>1. 1 \in DOMAIN queue /\ queue[1] = d
            BY <2>7 DEF IInv, QueueOK, FetchSettles
          <6> QED
            BY <6>1 DEF IInv, QueueOK
        <5> QED
          BY <2>1, <2>2, <3>2, <4>3, <5>1, CaughtEffect
      <4> QED
        BY <4>1, <4>2, <4>3
    <3> QED
      BY <3>1, <3>2
  <2>8. ASSUME NEW d \in Call, ReadBody(d) PROVE pc[c] \in Waiting
    <3>1. CASE Succeeded(d)
      BY <2>1, <2>2, <2>8, <3>1, SucceededEffect DEF ReadBody
    <3>2. ASSUME NEW o, Caught(d, o) PROVE pc[c] \in Waiting
      BY <2>1, <2>2, <2>8, <3>2, CaughtEffect DEF ReadBody
    <3> QED
      BY <2>8, <3>1, <3>2 DEF ReadBody
  <2>9. CASE CacheExpires \/ BanStep \/ BackoffEnds
    BY <2>9 DEF CacheExpires, BanStep, BackoffEnds
  <2> QED
    BY <2>3, <2>4, <2>5, <2>6, <2>7, <2>8, <2>9 DEF Next, Proceed
<1> QED
  BY <1>1, Invariant, PTL DEF Spec, BanIsHeeded

(* Whatever order the answers come in, none of them shortens a ban that is *)
(* known: updateRequestWeightFromResponse keeps the later end.             *)
THEOREM BansOutlastAnswers == Spec => BanOutlastsAnswers
<1>1. IInv /\ [Next]_vars =>
        [\A c \in Call : pc[c] = "body" /\ pc'[c] # "body" => ban' >= ban]_vars
  <2> SUFFICES ASSUME IInv, Next, NEW c \in Call, pc[c] = "body", pc'[c] # "body"
               PROVE  ban' >= ban
    OBVIOUS
  <2>1. Types /\ ban \in Nat
    BY GatewayAssumption DEF IInv, Types
  <2>2. ASSUME UNCHANGED ban PROVE ban' >= ban
    BY <2>1, <2>2
  <2>3. ASSUME NEW d \in Call, ReadBody(d) PROVE ban' >= ban
    BY <2>1, <2>2, <2>3, LimitsEffect DEF ReadBody, limits
  <2>4. ASSUME NEW d \in Call, Begin(d) PROVE ban' >= ban
    BY <2>2, <2>4 DEF Begin, PlaceOrder, fetchOrderTradesWithStreamFallback,
       requestToBase, limits
  <2>5. ASSUME NEW d \in Call,
               respectActiveRateLimits(d) \/ enqueueRequestWeightFetch(d) \/ FetchSettles(d)
                  \/ NextAttempt(d)
        PROVE  ban' >= ban
    BY <2>2, <2>5 DEF respectActiveRateLimits, enqueueRequestWeightFetch, FetchSettles,
       NextAttempt, limits
  <2>6. CASE CacheExpires \/ BackoffEnds
    BY <2>2, <2>6 DEF CacheExpires, BackoffEnds, limits
  <2>7. ~BanStep
    BY DEF BanStep
  <2> QED
    BY <2>3, <2>4, <2>5, <2>6, <2>7 DEF Next, Proceed
<1> QED
  BY <1>1, Invariant, PTL DEF Spec, BanOutlastsAnswers

-----------------------------------------------------------------------------
(* A step of a call touches no other call's order, and the call's own only *)
(* as long as its caller is waiting.                                       *)
Alone(c) ==
    /\ pc[c] \notin {"done", "failed"}
    /\ \A x \in Order \ {c} : pc'[x] = pc[x] /\ reply'[x] = reply[x] /\ executed'[x] = executed[x]
    /\ c \in Order => executed'[c] >= executed[c]

LEMMA AloneIs ==
    ASSUME IInv, NEW c \in Call, pc[c] \notin {"done", "failed"}, OthersKept(c), OrdersKept(c),
           executed' = executed
    PROVE  Alone(c)
<1>1. ASSUME NEW x \in Order \ {c} PROVE pc'[x] = pc[x]
  <2>1. x \in Call /\ x \notin Futures
    BY GatewayAssumption DEF Call, Signed
  <2> QED
    BY <2>1 DEF OthersKept, PlacesKept, Joined
<1>2. c \in Order => executed[c] \in Nat
  BY DEF IInv, Types
<1> QED
  BY <1>1, <1>2 DEF OrdersKept, Alone

LEMMA BeginAlone == ASSUME IInv, NEW c \in Call, Begin(c) PROVE Alone(c)
<1>1. Types
  BY DEF IInv
<1>2. OthersKept(c) /\ OrdersKept(c) /\ pc[c] = "idle" /\ executed' = executed
  BY <1>1 DEF Begin, PlaceOrder, fetchOrderTradesWithStreamFallback, requestToBase, Goto,
     call, Types, OthersKept, PlacesKept, OrdersKept, Call, Signed
<1> QED
  BY <1>2, AloneIs

LEMMA CheckAlone == ASSUME IInv, NEW c \in Call, respectActiveRateLimits(c) PROVE Alone(c)
<1>1. Types /\ PlacesOK
  BY DEF IInv
<1>2. OthersKept(c)
  <2>1. CASE Settle(c, "failed")
    BY <1>1, <2>1, SettleEffect
  <2>2. CASE (Goto(c, "backoff") \/ Goto(c, "queued")) /\ UNCHANGED call
    BY <1>1, <2>2 DEF Goto, call, OthersKept, PlacesKept, Types
  <2> QED
    BY <2>1, <2>2 DEF respectActiveRateLimits
<1>3. OrdersKept(c) /\ pc[c] = "check" /\ executed' = executed
  BY <1>1 DEF respectActiveRateLimits, Says, OrdersKept, Types, Call, Signed
<1> QED
  BY <1>2, <1>3, AloneIs

LEMMA WaitAlone ==
    ASSUME IInv, NEW c \in Call, enqueueRequestWeightFetch(c) \/ NextAttempt(c) PROVE Alone(c)
<1>1. Types
  BY DEF IInv
<1>2. OthersKept(c) /\ OrdersKept(c) /\ pc[c] \in {"backoff", "sleep"} /\ executed' = executed
  BY <1>1 DEF enqueueRequestWeightFetch, NextAttempt, Goto, call, Types, OthersKept,
     PlacesKept, OrdersKept
<1> QED
  BY <1>2, AloneIs

LEMMA BodyAlone == ASSUME IInv, NEW c \in Call, ReadBody(c) PROVE Alone(c)
<1>1. Types /\ PlacesOK /\ pc[c] = "body"
  BY DEF IInv, ReadBody
<1>2. OrdersKept(c) /\ executed' = executed
  BY <1>1 DEF ReadBody, Says, OrdersKept, Types, Call, Signed
<1>3. CASE Succeeded(c)
  BY <1>1, <1>2, <1>3, SucceededEffect, AloneIs
<1>4. ASSUME NEW o, Caught(c, o) PROVE Alone(c)
  BY <1>1, <1>2, <1>4, CaughtEffect, AloneIs
<1> QED
  BY <1>3, <1>4 DEF ReadBody

LEMMA FetchAlone == ASSUME IInv, NEW c \in Call, FetchSettles(c) PROVE Alone(c)
<1>1. Types /\ PlacesOK /\ QueueOK /\ (c \in Order => HonestAt(c))
  BY DEF IInv, HonestSoFar
<1>2. pc[c] = "queued"
  <2>1. 1 \in DOMAIN queue /\ queue[1] = c
    BY <1>1 DEF QueueOK, FetchSettles
  <2> QED
    BY <1>1, <2>1 DEF QueueOK
<1>3. PICK o \in Reply :
         /\ Executes(c, o)
         /\ IF o \in Answers
            THEN /\ Goto(c, "body") /\ reply' = [reply EXCEPT ![c] = o]
                 /\ UNCHANGED <<call, futures>>
            ELSE Caught(c, o) /\ Says(c, o)
  BY DEF FetchSettles
<1>4. c \in Order => executed[c] = 0
  BY <1>1, <1>2 DEF HonestAt
<1>5. /\ \A x \in Order \ {c} : executed'[x] = executed[x]
      /\ executed' \in [Order -> Nat]
  BY <1>1, <1>3, <1>4, ExecutesEffect
<1>6. \A x \in Order \ {c} : reply'[x] = reply[x]
  BY <1>1, <1>3 DEF Says, Types, Call, Signed
<1>7. OthersKept(c)
  <2>1. CASE Goto(c, "body") /\ UNCHANGED <<call, futures>>
    BY <1>1, <2>1 DEF Goto, call, OthersKept, PlacesKept
  <2>2. CASE Caught(c, o)
    BY <1>1, <1>2, <2>2, CaughtEffect
  <2> QED
    BY <1>3, <2>1, <2>2
<1>8. ASSUME NEW x \in Order \ {c} PROVE pc'[x] = pc[x]
  <2>1. x \in Call /\ x \notin Futures
    BY GatewayAssumption DEF Call, Signed
  <2> QED
    BY <1>7, <2>1 DEF OthersKept, PlacesKept, Joined
<1> QED
  BY <1>2, <1>4, <1>5, <1>6, <1>8 DEF Alone

(* What the caller of a call is told then agrees with what was done.       *)
LEMMA AloneIsProgress ==
    ASSUME IInv, IInv', NEW c \in Order, Alone(c) PROVE Requests!Progress(c)
<1> DEFINE T == [x \in Order |-> Told(x)]
<1>1. c \in Call /\ Types /\ Types' /\ HonestAt(c) /\ HonestAt(c)'
  BY DEF IInv, HonestSoFar, Call, Signed
<1>2. Told(c) = "nothing"
  BY DEF Told, Alone
<1>3. executed'[c] \in {executed[c], 1}
  <2>1. executed[c] \in Nat /\ executed'[c] \in Nat /\ executed'[c] <= 1 /\ executed'[c] >= executed[c]
    BY <1>1 DEF Types, HonestAt, Alone
  <2> QED
    BY <2>1
<1>4. Told(c)' \in Requests!Honest(executed'[c])
  <2>1. CASE pc'[c] = "done"
    BY <1>1, <2>1 DEF Told, HonestAt, Requests!Honest
  <2>2. CASE pc'[c] = "failed" /\ reply'[c] \in {"refused", "clock", "limited", "banned"}
    BY <1>1, <2>2 DEF Told, HonestAt, Requests!Honest
  <2>3. CASE pc'[c] # "done" /\ ~(pc'[c] = "failed" /\ reply'[c] \in {"refused", "clock", "limited", "banned"})
    BY <2>3 DEF Told, Requests!Honest
  <2> QED
    BY <2>1, <2>2, <2>3
<1>5. executed' = [executed EXCEPT ![c] = executed'[c]]
  BY <1>1 DEF Types, Alone
<1>6. T' = [T EXCEPT ![c] = Told(c)']
  <2>1. \A x \in Order \ {c} : Told(x)' = Told(x)
    BY DEF Told, Alone
  <2> QED
    BY <2>1
<1> QED
  BY <1>2, <1>3, <1>4, <1>5, <1>6 DEF Requests!Progress

(* The client implements OrderRequests: to whoever sends an order, all its *)
(* queueing, clocks and retries are one request that is carried out at     *)
(* most once and answered honestly, after which nothing of it is left.     *)
THEOREM RequestsImplemented == Spec => RequestsKept
<1>1. Init => Requests!Init
  <2> SUFFICES ASSUME Init PROVE Requests!Init
    OBVIOUS
  <2>1. \A c \in Order : Told(c) = "nothing"
    BY DEF Init, Told, Call, Signed
  <2> QED
    BY <2>1 DEF Init, Requests!Init
<1>2. IInv /\ IInv' /\ [Next]_vars => [Requests!Next]_(Requests!requests)
  <2> SUFFICES ASSUME IInv, IInv', [Next]_vars PROVE Requests!Next \/ UNCHANGED Requests!requests
    OBVIOUS
  <2>1. ASSUME NEW c \in Call, Alone(c) PROVE Requests!Next \/ UNCHANGED Requests!requests
    <3>1. CASE c \in Order
      BY <2>1, <3>1, AloneIsProgress DEF Requests!Next
    <3>2. CASE c \notin Order
      <4>1. \A x \in Order : Told(x)' = Told(x) /\ executed'[x] = executed[x]
        BY <2>1, <3>2 DEF Told, Alone
      <4>2. executed' = executed
        BY <4>1 DEF IInv, Types
      <4> QED
        BY <4>1, <4>2 DEF Requests!requests
    <3> QED
      BY <3>1, <3>2
  <2>2. ASSUME NEW c \in Call, Begin(c) \/ Proceed(c) PROVE Alone(c)
    BY <2>2, BeginAlone, CheckAlone, WaitAlone, FetchAlone, BodyAlone DEF Proceed
  <2>3. CASE CacheExpires \/ BanStep \/ BackoffEnds \/ UNCHANGED vars
    <3>1. pc' = pc /\ reply' = reply /\ executed' = executed
      BY <2>3 DEF CacheExpires, BanStep, BackoffEnds, vars
    <3> QED
      BY <3>1 DEF Requests!requests, Told
  <2> QED
    BY <2>1, <2>2, <2>3 DEF Next
<1> QED
  BY <1>1, <1>2, Invariant, PTL DEF Spec, RequestsKept, Requests!Spec

=============================================================================
