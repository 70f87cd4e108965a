---------------------------- MODULE RestGateway -----------------------------
(***************************************************************************)
(* The REST client (binance/client.js): concurrent calls that share one    *)
(* queue of fetches, the rate-limit state that every answer updates, the   *)
(* retries with their clock synchronisation, the cache of futures data     *)
(* with its coalesced fetches, and the budget governor in front of it.     *)
(*                                                                         *)
(* A call looks at the rate limits, waits for its turn, fetches, reads the *)
(* body and only then tells the rate limits: by then the next fetch of the *)
(* queue has been sent.  A ban lasts a number of steps; sleeps end at any  *)
(* moment, since none of them is related to the ban.                       *)
(***************************************************************************)
EXTENDS Naturals, Sequences, FiniteSets

CONSTANTS
    Order,          \* calls that are signed and change something (POST, DELETE)
    Guarded,        \* signed reads behind the budget governor
    Futures,        \* reads of one key of the futures cache
    maxRetries,     \* attempts of a call
    MaxBan,         \* bound: the longest ban, in steps
    MaxFaults       \* bound: fetches that come back with anything but ok

Signed == Order \cup Guarded
Call == Signed \cup Futures

None == "none"

ASSUME GatewayAssumption ==
    /\ Order \cap Guarded = {} /\ Signed \cap Futures = {}
    /\ None \notin Call
    /\ maxRetries \in Nat \ {0} /\ MaxBan \in Nat \ {0} /\ MaxFaults \in Nat

VARIABLES
    mode,           \* live (or the demo venue) or paper, fixed with the client
    pc,             \* where each call is
    stage,          \* a signed call may be synchronising the clock
    attempt,        \* attempts of the call and of its clock request
    reply,          \* what is in the body, or how an order has failed
    queue,          \* the chain of fetches; the first one is on the wire
    ban,            \* banUntil, in steps from now
    backoff,        \* backoffUntil lies ahead
    flight, cached, \* the futures entry: the call that fetches it, a payload
    executed,       \* how often the exchange carried an order out
    faults          \* bound

limits  == <<ban, backoff>>
futures == <<flight, cached>>
call    == <<stage, attempt>>
vars == <<mode, pc, call, reply, queue, limits, futures, executed, faults>>

(* What a fetch can come back with: an answer (ok, or with a body that is  *)
(* not JSON), a refusal (4xx), -1021, 429, 418, 5xx, a network error that  *)
(* is retried or any other error, the timeout of 10 s included.            *)
Answers == {"ok", "garbage", "refused", "clock", "limited", "banned", "error"}
Reply   == Answers \cup {"network", "timeout"}

FirstAttempt == [main |-> 1, clock |-> 1]

Init ==
    /\ mode \in {"live", "paper"}
    /\ pc = [c \in Call |-> "idle"]
    /\ stage = [c \in Call |-> "main"]
    /\ attempt = [c \in Call |-> FirstAttempt]
    /\ reply = [c \in Call |-> None]
    /\ queue = <<>>
    /\ ban = 0 /\ backoff = FALSE
    /\ flight = None /\ cached = FALSE
    /\ executed = [c \in Order |-> 0]
    /\ faults = 0

Goto(c, label) == pc' = [pc EXCEPT ![c] = label]

(* What a call has come to, kept for an order once its body is read.       *)
Says(c, o) == reply' = [reply EXCEPT ![c] = IF c \in Order THEN o ELSE None]

-----------------------------------------------------------------------------
(* The beginning of a call.                                                *)

(* assertPrivateOrderMutationAllowed: no order leaves a bot on paper.      *)
PlaceOrder(c) ==
    /\ c \in Order /\ pc[c] = "idle"
    /\ \/ mode = "live" /\ Goto(c, "check") /\ UNCHANGED reply
       \/ mode = "paper" /\ Goto(c, "failed")
          /\ reply' = [reply EXCEPT ![c] = "refused"]
    /\ UNCHANGED <<mode, call, queue, limits, futures, executed, faults>>

(* For a read of medium priority; the weight used by everybody may be too  *)
(* high at any time.                                                       *)
evaluateRestBudgetAllowance(heavy) == ban = 0 /\ ~backoff /\ ~heavy

(* What the user stream has serves when the budget refuses.                *)
fetchOrderTradesWithStreamFallback(c) ==
    /\ c \in Guarded /\ pc[c] = "idle"
    /\ \E heavy \in BOOLEAN :
          Goto(c, IF evaluateRestBudgetAllowance(heavy) THEN "check" ELSE "done")
    /\ UNCHANGED <<mode, call, reply, queue, limits, futures, executed, faults>>

(* A futures read is served from the cache, joins the fetch under way, or  *)
(* is the one to fetch.                                                    *)
requestToBase(c) ==
    /\ c \in Futures /\ pc[c] = "idle"
    /\ \/ cached /\ Goto(c, "done") /\ UNCHANGED futures
       \/ ~cached /\ flight # None /\ Goto(c, "joined") /\ UNCHANGED futures
       \/ ~cached /\ flight = None /\ Goto(c, "check")
          /\ flight' = c /\ UNCHANGED cached
    /\ UNCHANGED <<mode, call, reply, queue, limits, executed, faults>>

CacheExpires ==
    /\ cached /\ cached' = FALSE
    /\ UNCHANGED <<mode, pc, call, reply, queue, limits, flight, executed, faults>>

-----------------------------------------------------------------------------
(* Settled: with a fetch end those that joined it, and one that failed     *)
(* leaves the cache.                                                       *)

(* Seeded bug: a failed fetch stays in the cache.                          *)
Settle_KeepsFailure(c, result) ==
    /\ pc' = [x \in Call |-> IF x = c \/ (flight = c /\ pc[x] = "joined")
                             THEN result ELSE pc[x]]
    /\ flight' = IF flight = c /\ result = "done" THEN None ELSE flight
    /\ cached' = IF flight = c THEN result = "done" ELSE cached
    /\ stage' = [stage EXCEPT ![c] = "main"]
    /\ attempt' = [attempt EXCEPT ![c] = FirstAttempt]

Settle(c, result) ==
    /\ pc' = [x \in Call |-> IF x = c \/ (flight = c /\ pc[x] = "joined")
                             THEN result ELSE pc[x]]
    /\ flight' = IF flight = c THEN None ELSE flight
    /\ cached' = IF flight = c THEN result = "done" ELSE cached
    /\ stage' = [stage EXCEPT ![c] = "main"]
    /\ attempt' = [attempt EXCEPT ![c] = FirstAttempt]

(* A known ban throws at once, and its status is not one to retry.  After  *)
(* the sleep of a backoff there is no second look.                         *)
respectActiveRateLimits(c) ==
    /\ pc[c] = "check"
    /\ \/ /\ ban > 0
          /\ Settle(c, "failed")
          /\ Says(c, "banned")
          /\ UNCHANGED queue
       \/ /\ ban = 0 /\ backoff
          /\ Goto(c, "backoff") /\ UNCHANGED <<queue, reply, futures, call>>
       \/ /\ ban = 0 /\ ~backoff
          /\ Goto(c, "queued") /\ queue' = Append(queue, c)
          /\ UNCHANGED <<reply, futures, call>>
    /\ UNCHANGED <<mode, limits, executed, faults>>

enqueueRequestWeightFetch(c) ==
    /\ pc[c] = "backoff"
    /\ Goto(c, "queued")
    /\ queue' = Append(queue, c)
    /\ UNCHANGED <<mode, call, reply, limits, futures, executed, faults>>

(* The next attempt of a call begins with the rate limits again.           *)
NextAttempt_Unchecked(c) ==         \* Seeded bug: it does not
    /\ pc[c] = "sleep"
    /\ attempt' = [attempt EXCEPT ![c][stage[c]] = @ + 1]
    /\ Goto(c, "backoff")
    /\ UNCHANGED <<mode, stage, reply, queue, limits, futures, executed, faults>>

NextAttempt(c) ==
    /\ pc[c] = "sleep"
    /\ attempt' = [attempt EXCEPT ![c][stage[c]] = @ + 1]
    /\ Goto(c, "check")
    /\ UNCHANGED <<mode, stage, reply, queue, limits, futures, executed, faults>>

-----------------------------------------------------------------------------
(* What becomes of a call that has thrown.                                 *)

MayRetry(o) == o \in {"error", "limited", "network"}

AttemptsLeft(c) == attempt[c][stage[c]] < maxRetries

(* Seeded bug: an order is retried like a read.                            *)
SafeToRetry_Everything(c) == TRUE

(* isSafeRetryMethod, and unsigned requests.                               *)
SafeToRetry(c) == c \notin Order

(* The catch of request, requestToBase and getServerTime: a timestamp that *)
(* the exchange refused synchronises the clock first, even when no attempt *)
(* is left; an error of the synchronisation replaces the call's own.       *)
Caught(c, o) ==
    \/ /\ stage[c] = "main" /\ o = "clock" /\ c \in Signed
       /\ stage' = [stage EXCEPT ![c] = "clock"]
       /\ attempt' = [attempt EXCEPT ![c].clock = 1]
       /\ Goto(c, "check") /\ UNCHANGED futures
    \/ /\ AttemptsLeft(c) /\ MayRetry(o)
       /\ stage[c] = "clock" \/ SafeToRetry(c)
       /\ Goto(c, "sleep") /\ UNCHANGED <<call, futures>>
    \/ /\ ~(stage[c] = "main" /\ o = "clock" /\ c \in Signed)
       /\ \/ ~AttemptsLeft(c) \/ ~MayRetry(o)
          \/ stage[c] = "main" /\ ~SafeToRetry(c)
       /\ Settle(c, "failed")

(* A call whose clock is synchronised goes on after its refusal.           *)
Succeeded(c) ==
    \/ /\ stage[c] = "main"
       /\ Settle(c, "done")
    \/ /\ stage[c] = "clock" /\ attempt[c].main < maxRetries
       /\ stage' = [stage EXCEPT ![c] = "main"]
       /\ attempt' = [attempt EXCEPT ![c].clock = 1]
       /\ Goto(c, "sleep") /\ UNCHANGED futures
    \/ /\ stage[c] = "clock" /\ attempt[c].main = maxRetries
       /\ Settle(c, "failed")

-----------------------------------------------------------------------------
(* The wire.                                                               *)

(* What the exchange does of an order: an answer says so, no answer and a  *)
(* server error do not.                                                    *)
Executes(c, o) ==
    IF c \in Order /\ stage[c] = "main"
    THEN \E n \in CASE o \in {"ok", "garbage"} -> {1}
                    [] o \in {"error", "network", "timeout"} -> {0, 1}
                    [] OTHER -> {0} :
            executed' = [executed EXCEPT ![c] = @ + n]
    ELSE UNCHANGED executed

(* The first fetch of the queue settles, and the next one is sent.         *)
FetchSettles(c) ==
    /\ queue # <<>> /\ Head(queue) = c
    /\ queue' = Tail(queue)
    /\ \E o \in Reply :
          /\ IF o = "ok" THEN UNCHANGED faults
             ELSE faults < MaxFaults /\ faults' = faults + 1
          /\ o = "clock" => stage[c] = "main" /\ c \in Signed
          /\ Executes(c, o)
          /\ IF o \in Answers
             THEN /\ Goto(c, "body") /\ reply' = [reply EXCEPT ![c] = o]
                  /\ UNCHANGED <<call, futures>>
             ELSE Caught(c, o) /\ Says(c, o)
    /\ UNCHANGED <<mode, limits>>

(* Seeded bug: the term of the last answer is the one that counts.         *)
BanUntil_Forgets(claim) == IF claim > 0 THEN claim ELSE MaxBan

Latest(a, b) == IF a > b THEN a ELSE b

(* banUntil of a 418: the latest of what it says and what is known, or the *)
(* fallback.                                                               *)
BanUntil(claim) == IF claim = 0 /\ ban = 0 THEN MaxBan ELSE Latest(claim, ban)

(* updateRequestWeightFromResponse; one that is ok but not JSON throws     *)
(* before it.                                                              *)
updateRequestWeightFromResponse(c, o) ==
    \/ /\ o = "limited" /\ backoff' = TRUE /\ UNCHANGED ban
    \/ /\ o = "banned"
       /\ \E claim \in 0..MaxBan : ban' = BanUntil(claim)
       /\ UNCHANGED backoff
    \/ /\ o \in {"ok", "refused", "clock", "error"}
       /\ UNCHANGED <<ban, backoff>>

(* The body arrives, or the timeout of the fetch or a reset of the         *)
(* connection cuts it off.                                                 *)
ReadBody(c) ==
    /\ pc[c] = "body"
    /\ \/ /\ reply[c] = "ok"
          /\ updateRequestWeightFromResponse(c, "ok")
          /\ Succeeded(c) /\ Says(c, IF stage[c] = "main" THEN "ok" ELSE "clock")
          /\ UNCHANGED faults
       \/ /\ reply[c] \notin {"ok", "garbage"}
          /\ updateRequestWeightFromResponse(c, reply[c])
          /\ Caught(c, reply[c]) /\ Says(c, reply[c])
          /\ UNCHANGED faults
       \/ /\ reply[c] = "garbage"
          /\ Caught(c, "garbage") /\ Says(c, "garbage")
          /\ UNCHANGED <<limits, faults>>
       \/ /\ faults < MaxFaults /\ faults' = faults + 1
          /\ \E o \in {"timeout", "network"} : Caught(c, o) /\ Says(c, o)
          /\ UNCHANGED limits
    /\ UNCHANGED <<mode, queue, executed>>

(* Time passes for a ban and a backoff.                                    *)
BanStep ==
    /\ ban > 0 /\ ban' = ban - 1
    /\ UNCHANGED <<mode, pc, call, reply, queue, backoff, futures, executed, faults>>

BackoffEnds ==
    /\ backoff /\ backoff' = FALSE
    /\ UNCHANGED <<mode, pc, call, reply, queue, ban, futures, executed, faults>>

-----------------------------------------------------------------------------
Begin(c) == PlaceOrder(c) \/ fetchOrderTradesWithStreamFallback(c) \/ requestToBase(c)

Proceed(c) ==
    \/ respectActiveRateLimits(c) \/ enqueueRequestWeightFetch(c)
    \/ FetchSettles(c) \/ ReadBody(c) \/ NextAttempt(c)

Next == \/ \E c \in Call : Begin(c) \/ Proceed(c)
        \/ CacheExpires \/ BanStep \/ BackoffEnds

Spec == Init /\ [][Next]_vars /\ \A c \in Call : WF_vars(Proceed(c))

-----------------------------------------------------------------------------
TypeOK ==
    /\ mode \in {"live", "paper"}
    /\ pc \in [Call -> {"idle", "check", "backoff", "queued", "body", "sleep",
                        "joined", "done", "failed"}]
    /\ stage \in [Call -> {"main", "clock"}]
    /\ attempt \in [Call -> [main : 1..maxRetries, clock : 1..maxRetries]]
    /\ reply \in [Call -> Reply \cup {None}]
    /\ queue \in Seq(Call)
    /\ \A i, j \in DOMAIN queue : queue[i] = queue[j] => i = j
    /\ \A c \in Call : pc[c] = "queued" <=> \E i \in DOMAIN queue : queue[i] = c
    /\ ban \in 0..MaxBan /\ {backoff, cached} \subseteq BOOLEAN
    /\ flight \in Futures \cup {None}
    /\ executed \in [Order -> 0..maxRetries]
    /\ faults \in 0..MaxFaults

(* No order is carried out twice, whatever the client repeats; one that is *)
(* reported done was carried out, and one that is reported refused, out of *)
(* time, limited or banned was not: this is what the broker's ledger       *)
(* settles its intents by.                                                 *)
OutcomeIsHonest ==
    \A c \in Order :
        /\ executed[c] <= 1
        /\ pc[c] = "done" => executed[c] = 1
        /\ (pc[c] = "failed" /\ reply[c] \in {"refused", "clock", "limited", "banned"})
                => executed[c] = 0

(* The client is nothing but OrderRequests to whoever sends an order: what *)
(* it was told stays true, because nothing of the call is left to retry.   *)
Told(c) ==
    CASE pc[c] = "done" -> "ok"
      [] pc[c] = "failed" ->
            IF reply[c] \in {"refused", "clock", "limited", "banned"} THEN "rejected" ELSE "unknown"
      [] OTHER -> "nothing"

Requests == INSTANCE OrderRequests WITH
    times <- executed, told <- [c \in Order |-> Told(c)]
RequestsKept == Requests!Spec

(* While a ban is known nobody joins those who wait to fetch: what is still *)
(* sent into it had looked at the rate limits before, and is sent once.    *)
Waiting == {"queued", "backoff"}

BanIsHeeded ==
    [][ban > 0 => \A c \in Call : pc'[c] \in Waiting => pc[c] \in Waiting]_vars

(* Answers come in any order, and none of them shortens a ban that another *)
(* one has made known.                                                     *)
BanOutlastsAnswers == [][\A c \in Call : pc[c] = "body" /\ pc'[c] # "body" => ban' >= ban]_vars

(* Every call ends, whatever the exchange answers: the queue moves on over *)
(* failures, a read that joined a fetch ends with it, and none joins a     *)
(* fetch that has failed.                                                  *)
RequestsEnd == \A c \in Call : (pc[c] # "idle") ~> (pc[c] \in {"done", "failed"})

=============================================================================
