-------------------------- MODULE StreamCoordinator --------------------------
(***************************************************************************)
(* The websocket streams of runtime/streamCoordinator.js: the public       *)
(* market stream, split over several sockets ("chunks"), the futures       *)
(* stream, and the user stream, opened with a listen key or, where the     *)
(* exchange has none, with a subscription over its WebSocket API.          *)
(*                                                                         *)
(* A stream that is lost is restarted after a delay.  The restarts of one  *)
(* kind of stream are links of one promise chain; a link arms the restart  *)
(* timer when its turn comes, and settles when the restart that the timer  *)
(* runs is over.  A new request first clears the armed timer.  Restarting  *)
(* the market streams takes no await on the outside; starting the user     *)
(* stream waits for the listen key or for the subscription.                *)
(*                                                                         *)
(* setWatchlist restarts nothing here: TradingBot.init calls it before     *)
(* the streams are opened, and nothing calls it afterwards.                *)
(***************************************************************************)
EXTENDS Integers, FiniteSets

CONSTANTS
    Chunk,          \* the sockets of the public stream
    Transports,     \* user streams considered, of the four below
    MaxChain        \* bound: links kept behind a link that never settles

Transport == {"none",           \* no private stream is used
              "listen_key",     \* the exchange hands out listen keys
              "gone",           \* it answers 410: fall back to the WebSocket API
              "ws_api"}         \* demo exchange: the WebSocket API at once

ASSUME StreamAssumption ==
    /\ IsFiniteSet(Chunk) /\ Chunk # {}
    /\ Transports \subseteq Transport /\ Transports # {}
    /\ MaxChain \in Nat \ {0, 1}

Kind == {"public", "futures", "user"}

VARIABLES
    transport,  \* the exchange and configuration of this run
    phase,      \* init's progress, then "up", then "closed"
    public,     \* socket of each chunk: none, live, stalled (live but silent)
    futures,    \* futuresSocket: none, live
    user,       \* userSocket: none, or what it speaks: key, ws
    session,    \* listenKey or userStreamSubscriptionId held by the state
    keepAlive,  \* the listen key's keep-alive interval runs
    call,       \* what a startUserStream in progress waits for: none, key, subscribe
    chain,      \* unsettled links of publicRestartPromise, futures..., user...
    timer       \* restartTimers: off, or who asked for the restart

sockets == <<public, futures>>
private == <<user, session, keepAlive, call>>
restarts == <<chain, timer>>
vars == <<transport, phase, sockets, private, restarts>>

Init ==
    /\ transport \in Transports
    /\ phase = "new"
    /\ public = [c \in Chunk |-> "none"]
    /\ futures = "none"
    /\ user = "none" /\ session = "none"
    /\ keepAlive = FALSE
    /\ call = "none"
    /\ chain = [k \in Kind |-> 0]
    /\ timer = [k \in Kind |-> "off"]

-----------------------------------------------------------------------------
(* The restart chain.                                                      *)

(* The armed timer is cleared, and with it the link that waits for it: a   *)
(* new link behind it is never reached.                                    *)
scheduleRestart(k, why) ==
    IF phase = "closed" THEN UNCHANGED restarts
    ELSE /\ chain' = [chain EXCEPT ![k] = IF @ < MaxChain THEN @ + 1 ELSE @]
         /\ timer' = [timer EXCEPT ![k] = IF chain[k] = 0 THEN why ELSE "off"]

(* The first link settles with n links in all: the next one arms.          *)
NextLink(k, n) ==
    /\ chain' = [chain EXCEPT ![k] = n - 1]
    /\ timer' = [timer EXCEPT ![k] = IF n > 1 THEN "retry" ELSE "off"]

Fires(k) == timer[k] # "off"

-----------------------------------------------------------------------------
(* Market streams.                                                         *)

RestartPublic ==
    /\ Fires("public")
    /\ public' = [c \in Chunk |-> "live"]
    /\ NextLink("public", chain["public"])
    /\ UNCHANGED <<transport, phase, futures, private>>

RestartFutures ==
    /\ Fires("futures")
    /\ futures' = "live"
    /\ NextLink("futures", chain["futures"])
    /\ UNCHANGED <<transport, phase, public, private>>

(* A close or an error, of a socket that is opening or open.               *)
ChunkLost(c) ==
    /\ public[c] # "none"
    /\ public' = [public EXCEPT ![c] = "none"]
    /\ scheduleRestart("public", "socket")
    /\ UNCHANGED <<transport, phase, futures, private>>

FuturesLost ==
    /\ futures # "none"
    /\ futures' = "none"
    /\ scheduleRestart("futures", "socket")
    /\ UNCHANGED <<transport, phase, public, private>>

ChunkStalls(c) ==
    /\ public[c] = "live"
    /\ public' = [public EXCEPT ![c] = "stalled"]
    /\ UNCHANGED <<transport, phase, futures, private, restarts>>

ChunkSpeaks(c) ==
    /\ public[c] = "stalled"
    /\ public' = [public EXCEPT ![c] = "live"]
    /\ UNCHANGED <<transport, phase, futures, private, restarts>>

(* The health monitor.  Its interval is longer than the reconnect delay,   *)
(* so a restart it asked for is over by its next round.                    *)
checkPublicStreamHealth ==
    /\ phase \notin {"new", "closed"}
    /\ \E c \in Chunk : public[c] = "stalled"
    /\ timer["public"] # "monitor"
    /\ scheduleRestart("public", "monitor")
    /\ UNCHANGED <<transport, phase, sockets, private>>

-----------------------------------------------------------------------------
(* The user stream.                                                        *)

(* closeExistingUserSocket and resetUserStreamState, then the first await. *)
StartViaListenKey ==
    /\ user' = "none" /\ session' = "none" /\ keepAlive' = FALSE
    /\ call' = "key"

StartViaWsApi ==
    /\ user' = "ws" /\ session' = "none" /\ keepAlive' = FALSE
    /\ call' = "subscribe"

startUserStream == IF transport = "ws_api" THEN StartViaWsApi ELSE StartViaListenKey

RestartUser ==
    /\ Fires("user")
    /\ startUserStream
    /\ timer' = [timer EXCEPT !["user"] = "off"]
    /\ UNCHANGED <<transport, phase, sockets, chain>>

(* startUserStream returns to init, or to the restart that called it.      *)
Returned ==
    IF phase = "init" THEN phase' = "up" /\ UNCHANGED restarts
    ELSE UNCHANGED phase /\ NextLink("user", chain["user"])

(* Seeded bug: a restart that failed is not tried again.                   *)
ThrewOnce ==
    IF phase = "init" THEN phase' = "up" /\ UNCHANGED restarts
    ELSE UNCHANGED phase /\ NextLink("user", chain["user"])

(* Or throws: init logs it, a restart is tried again unless closing.       *)
Threw ==
    IF phase = "init" THEN phase' = "up" /\ UNCHANGED restarts
    ELSE /\ UNCHANGED phase
         /\ NextLink("user", chain["user"] + IF phase = "closed" THEN 0 ELSE 1)

KeyArrives ==
    /\ call = "key" /\ transport = "listen_key"
    /\ user' = "key" /\ session' = "key" /\ keepAlive' = TRUE
    /\ call' = "none"
    /\ Returned
    /\ UNCHANGED <<transport, sockets>>

KeyUnsupported ==
    /\ call = "key" /\ transport = "gone"
    /\ StartViaWsApi
    /\ UNCHANGED <<transport, phase, sockets, restarts>>

KeyFails ==
    /\ call = "key"
    /\ call' = "none"
    /\ Threw
    /\ UNCHANGED <<transport, sockets, user, session, keepAlive>>

(* The subscription may succeed after its start was given up.              *)
Subscribed ==
    /\ user = "ws" /\ session = "none"
    /\ session' = "ws" /\ call' = "none"
    /\ IF call = "subscribe" THEN Returned ELSE UNCHANGED <<phase, restarts>>
    /\ UNCHANGED <<transport, sockets, user, keepAlive>>

SubscribeTimesOut ==
    /\ call = "subscribe"
    /\ call' = "none"
    /\ Threw
    /\ UNCHANGED <<transport, sockets, user, session, keepAlive>>

ForgetUserSocket == user' = "none" /\ session' = "none" /\ call' = "none"

(* failAndReset: a refused subscription or a message that cannot be used.  *)
WsFails ==
    /\ user = "ws"
    /\ ForgetUserSocket
    /\ IF call = "subscribe" THEN Threw ELSE UNCHANGED <<phase, restarts>>
    /\ UNCHANGED <<transport, sockets, keepAlive>>

WsCloses ==
    /\ user = "ws"
    /\ ForgetUserSocket
    /\ IF call = "subscribe" THEN Threw
       ELSE /\ UNCHANGED phase
            /\ IF session = "ws" THEN scheduleRestart("user", "socket")
               ELSE UNCHANGED restarts
    /\ UNCHANGED <<transport, sockets, keepAlive>>

WsErrors ==
    /\ user = "ws"
    /\ ForgetUserSocket
    /\ IF call = "subscribe" THEN Threw
       ELSE scheduleRestart("user", "socket") /\ UNCHANGED phase
    /\ UNCHANGED <<transport, sockets, keepAlive>>

(* Seeded bug: the interval outlives the socket.                           *)
KeySocketForgotten ==
    /\ user = "key"
    /\ user' = "none" /\ session' = "none"
    /\ scheduleRestart("user", "socket")
    /\ UNCHANGED <<transport, phase, sockets, call, keepAlive>>

KeySocketLost ==
    /\ user = "key"
    /\ user' = "none" /\ session' = "none" /\ keepAlive' = FALSE
    /\ scheduleRestart("user", "socket")
    /\ UNCHANGED <<transport, phase, sockets, call>>

-----------------------------------------------------------------------------
(* init opens the public stream and waits for it, then opens the futures   *)
(* stream and starts the user stream; the caller cannot close before init  *)
(* is over.                                                                *)
InitPublic ==
    /\ phase = "new"
    /\ phase' = "opening"
    /\ public' = [c \in Chunk |-> "live"]
    /\ UNCHANGED <<transport, futures, private, restarts>>

InitPrivate ==
    /\ phase = "opening"
    /\ futures' = "live"
    /\ IF transport = "none"
       THEN phase' = "up" /\ UNCHANGED private
       ELSE phase' = "init" /\ startUserStream
    /\ UNCHANGED <<transport, public, restarts>>

(* Seeded bug: a restart that waits for its delay outlives close.          *)
closeKeepsTimers ==
    /\ phase = "up"
    /\ phase' = "closed"
    /\ public' = [c \in Chunk |-> "none"]
    /\ futures' = "none"
    /\ user' = "none" /\ session' = "none" /\ keepAlive' = FALSE
    /\ UNCHANGED <<transport, call, restarts>>

close ==
    /\ phase = "up"
    /\ phase' = "closed"
    /\ timer' = [k \in Kind |-> "off"]
    /\ public' = [c \in Chunk |-> "none"]
    /\ futures' = "none"
    /\ user' = "none" /\ session' = "none" /\ keepAlive' = FALSE
    /\ UNCHANGED <<transport, call, chain>>

Outage == FuturesLost \/ \E c \in Chunk : ChunkLost(c) \/ ChunkStalls(c) \/ ChunkSpeaks(c)

UserLost == KeySocketLost \/ WsFails \/ WsCloses \/ WsErrors

UserCall == KeyArrives \/ KeyUnsupported \/ KeyFails \/ Subscribed \/ SubscribeTimesOut

Restart == RestartPublic \/ RestartFutures \/ RestartUser

Next ==
    \/ InitPublic \/ InitPrivate \/ close
    \/ Outage \/ checkPublicStreamHealth
    \/ UserLost \/ UserCall \/ Restart

Spec == Init /\ [][Next]_vars

(* Timers fire, a request for a key is answered and, asked again and       *)
(* again, granted, a subscription is answered or times out, the monitor    *)
(* goes its rounds and init goes on.                                       *)
FairSpec ==
    /\ Spec
    /\ WF_vars(RestartPublic) /\ WF_vars(RestartFutures) /\ WF_vars(RestartUser)
    /\ WF_vars(UserCall) /\ SF_vars(KeyArrives)
    /\ WF_vars(checkPublicStreamHealth)
    /\ WF_vars(InitPublic \/ InitPrivate)

-----------------------------------------------------------------------------
(* Every variable has its type, and a timer is armed only for an unsettled *)
(* link.                                                                   *)
TypeOK ==
    /\ transport \in Transport
    /\ phase \in {"new", "opening", "init", "up", "closed"}
    /\ public \in [Chunk -> {"none", "live", "stalled"}]
    /\ futures \in {"none", "live"}
    /\ user \in {"none", "key", "ws"} /\ session \in {"none", "key", "ws"}
    /\ keepAlive \in BOOLEAN
    /\ call \in {"none", "key", "subscribe"}
    /\ chain \in [Kind -> 0..MaxChain]
    /\ timer \in [Kind -> {"off", "socket", "monitor", "retry"}]
    /\ \A k \in Kind : Fires(k) => chain[k] > 0

(* After close no market stream is opened again, whatever restart was      *)
(* pending (test/run.js:19790, "without restart races").                   *)
MarketStreamsStayClosed ==
    phase = "closed" => futures = "none" /\ \A c \in Chunk : public[c] = "none"

(* The keep-alive interval runs exactly while a listen-key socket is       *)
(* current and its key is the session's.                                   *)
KeepAliveHasSession == keepAlive <=> user = "key" /\ session = "key"

(* A futures stream that was lost is opened again, and a user stream on a  *)
(* listen key is, however often a key is refused.                          *)
FuturesComeBack ==
    phase = "up" /\ futures = "none" ~> futures # "none" \/ phase = "closed"
UserComesBack ==
    transport = "listen_key" /\ chain["user"] > 0 ~> user # "none" \/ phase = "closed"

(* The same for the public stream: a restart that was asked for, by a      *)
(* socket that was lost or by the watchdog (test/run.js:26623), opens      *)
(* every chunk again.                                                      *)
PublicComesBack ==
    chain["public"] > 0 ~> (\A c \in Chunk : public[c] # "none") \/ phase = "closed"
=============================================================================
