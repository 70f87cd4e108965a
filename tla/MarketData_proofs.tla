------------------------- MODULE MarketData_proofs -------------------------
(***************************************************************************)
(* Proofs about the two components that bring market data in, each about   *)
(* its own specification: the streams of what happens now, and the stored  *)
(* candles of what happened.                                               *)
(*                                                                         *)
(* The streams, for every set of chunks, every transport and every bound   *)
(* on the chains.  The argument rests on what ties the user stream's start *)
(* to its caller: init starts it once, before any restart of it is asked   *)
(* for; afterwards a start in progress belongs to the first link of the    *)
(* user chain, whose timer has fired; and no socket on a listen key exists *)
(* while a start is in progress, so nothing asks for a restart meanwhile.  *)
(*                                                                         *)
(* The history, for every number of candles, partitions and operations at  *)
(* the same time.  The argument rests on what an operation may hold while  *)
(* another one ends a save undisturbed: nothing, so whoever saves later    *)
(* has begun to read later, and has read what was promised.                *)
(***************************************************************************)
EXTENDS StreamCoordinator, MarketHistory, FiniteSetTheorems, WellFoundedInduction, TLAPS

Types ==
    /\ transport \in Transport
    /\ phase \in {"new", "opening", "init", "up", "closed"}
    /\ public \in [Chunk -> {"none", "live", "stalled"}]
    /\ futures \in {"none", "live"}
    /\ user \in {"none", "key", "ws"} /\ session \in {"none", "key", "ws"}
    /\ keepAlive \in BOOLEAN
    /\ call \in {"none", "key", "subscribe"}
    /\ chain \in [Kind -> 0..MaxChain]
    /\ timer \in [Kind -> {"off", "socket", "monitor", "retry"}]

(* A timer is armed only for an unsettled link.                            *)
ArmedForALink == \A k \in Kind : Fires(k) => chain[k] > 0

(* Until init has started the user stream nothing has happened to it.      *)
UserUntouched ==
    phase \in {"new", "opening"} =>
        /\ user = "none" /\ session = "none" /\ call = "none"
        /\ chain["user"] = 0

(* A start in progress is init's, or it is the first link's.               *)
CallHasCaller ==
    /\ phase = "init" => call # "none" /\ chain["user"] = 0
    /\ call # "none" /\ phase # "init" => chain["user"] > 0

(* While a start is in progress no other is due, and no listen-key socket  *)
(* is there to be lost.                                                    *)
CallIsAlone ==
    /\ call # "none" => timer["user"] = "off" /\ user # "key"
    /\ call = "key" => user = "none"

(* Closing has cleared the timers of the market streams.                   *)
ClosedIsDisarmed ==
    phase = "closed" => timer["public"] = "off" /\ timer["futures"] = "off"

IInv ==
    /\ Types
    /\ ArmedForALink
    /\ UserUntouched
    /\ CallHasCaller
    /\ CallIsAlone
    /\ ClosedIsDisarmed
    /\ MarketStreamsStayClosed
    /\ KeepAliveHasSession

LEMMA InitIInv == Init => IInv
<1> SUFFICES ASSUME Init PROVE IInv
  OBVIOUS
<1>1. Types
  <2>1. transport \in Transport /\ chain \in [Kind -> 0..MaxChain]
    BY StreamAssumption DEF Init
  <2>2. public \in [Chunk -> {"none", "live", "stalled"}]
    BY DEF Init
  <2>3. timer \in [Kind -> {"off", "socket", "monitor", "retry"}]
    BY DEF Init
  <2> QED
    BY <2>1, <2>2, <2>3 DEF Init, Types
<1> QED
  BY <1>1 DEF Init, IInv, ArmedForALink, Fires, UserUntouched, CallHasCaller,
     CallIsAlone, ClosedIsDisarmed, MarketStreamsStayClosed, KeepAliveHasSession, Kind

(* What a request for a restart of one kind does to the chains.            *)
LEMMA ScheduleEffect ==
    ASSUME Types, ArmedForALink, NEW k \in Kind, NEW why \in {"socket", "monitor"},
           scheduleRestart(k, why)
    PROVE  /\ chain' \in [Kind -> 0..MaxChain]
           /\ timer' \in [Kind -> {"off", "socket", "monitor", "retry"}]
           /\ ArmedForALink'
           /\ \A j \in Kind \ {k} : chain'[j] = chain[j] /\ timer'[j] = timer[j]
           /\ chain[k] > 0 => chain'[k] > 0
           /\ phase = "closed" => UNCHANGED restarts
<1>1. MaxChain \in Nat \ {0, 1} /\ chain[k] \in 0..MaxChain
  BY StreamAssumption DEF Types
<1>2. CASE phase = "closed"
  BY <1>2 DEF scheduleRestart, restarts, Types, ArmedForALink, Fires
<1>3. CASE phase # "closed"
  <2>1. /\ chain' = [chain EXCEPT ![k] = IF @ < MaxChain THEN @ + 1 ELSE @]
        /\ timer' = [timer EXCEPT ![k] = IF chain[k] = 0 THEN why ELSE "off"]
    BY <1>3 DEF scheduleRestart
  <2>2. chain'[k] \in 1..MaxChain
    BY <1>1, <2>1 DEF Types
  <2>3. chain' \in [Kind -> 0..MaxChain]
    BY <1>1, <2>1, <2>2 DEF Types
  <2>4. timer' \in [Kind -> {"off", "socket", "monitor", "retry"}]
    BY <2>1 DEF Types
  <2>5. \A j \in Kind \ {k} : chain'[j] = chain[j] /\ timer'[j] = timer[j]
    BY <2>1 DEF Types
  <2> QED
    BY <1>3, <2>2, <2>3, <2>4, <2>5 DEF ArmedForALink, Fires
<1> QED
  BY <1>2, <1>3

(* What the end of a link does to them.                                    *)
LEMMA NextLinkEffect ==
    ASSUME Types, ArmedForALink, NEW k \in Kind, NEW n \in 1..(MaxChain + 1),
           NextLink(k, n)
    PROVE  /\ chain' \in [Kind -> 0..MaxChain]
           /\ timer' \in [Kind -> {"off", "socket", "monitor", "retry"}]
           /\ ArmedForALink'
           /\ \A j \in Kind \ {k} : chain'[j] = chain[j] /\ timer'[j] = timer[j]
<1>1. MaxChain \in Nat \ {0, 1} /\ n - 1 \in 0..MaxChain
  BY StreamAssumption
<1>2. /\ chain' = [chain EXCEPT ![k] = n - 1]
      /\ timer' = [timer EXCEPT ![k] = IF n > 1 THEN "retry" ELSE "off"]
  BY DEF NextLink
<1>3. chain' \in [Kind -> 0..MaxChain] /\ chain'[k] = n - 1
  BY <1>1, <1>2 DEF Types
<1>4. timer' \in [Kind -> {"off", "socket", "monitor", "retry"}]
  BY <1>2 DEF Types
<1>5. \A j \in Kind \ {k} : chain'[j] = chain[j] /\ timer'[j] = timer[j]
  BY <1>2 DEF Types
<1>6. timer'[k] # "off" => chain'[k] > 0
  BY <1>1, <1>2, <1>3 DEF Types
<1> QED
  BY <1>3, <1>4, <1>5, <1>6 DEF ArmedForALink, Fires

-----------------------------------------------------------------------------
(* Nothing about the user stream changes.                                  *)
LEMMA PrivateKept ==
    ASSUME IInv, UNCHANGED <<phase, private>>,
           chain'["user"] = chain["user"], timer'["user"] = timer["user"]
    PROVE  UserUntouched' /\ CallHasCaller' /\ CallIsAlone' /\ KeepAliveHasSession'
BY DEF IInv, private, UserUntouched, CallHasCaller, CallIsAlone, KeepAliveHasSession

(* A market stream asks for a restart.                                     *)
LEMMA MarketRequest ==
    ASSUME IInv, NEW k \in {"public", "futures"}, NEW why \in {"socket", "monitor"},
           scheduleRestart(k, why),
           UNCHANGED <<transport, phase, private>>,
           public' \in [Chunk -> {"none", "live", "stalled"}],
           futures' \in {"none", "live"},
           MarketStreamsStayClosed'
    PROVE  IInv'
<1>1. Types /\ ArmedForALink
  BY DEF IInv
<1>2. /\ chain' \in [Kind -> 0..MaxChain]
      /\ timer' \in [Kind -> {"off", "socket", "monitor", "retry"}]
      /\ ArmedForALink'
      /\ \A j \in Kind \ {k} : chain'[j] = chain[j] /\ timer'[j] = timer[j]
      /\ phase = "closed" => UNCHANGED restarts
  BY <1>1, ScheduleEffect DEF Kind
<1>3. Types'
  BY <1>1, <1>2 DEF Types, private
<1>4. chain'["user"] = chain["user"] /\ timer'["user"] = timer["user"]
  BY <1>2 DEF Kind
<1>5. UserUntouched' /\ CallHasCaller' /\ CallIsAlone' /\ KeepAliveHasSession'
  BY <1>4, PrivateKept
<1>6. ClosedIsDisarmed'
  BY <1>2 DEF IInv, ClosedIsDisarmed, restarts
<1> QED
  BY <1>2, <1>3, <1>5, <1>6 DEF IInv

(* A market stream is restarted: its timer fires and its link settles.     *)
LEMMA MarketRestart ==
    ASSUME IInv, NEW k \in {"public", "futures"}, Fires(k), NextLink(k, chain[k]),
           UNCHANGED <<transport, phase, private>>,
           public' \in [Chunk -> {"none", "live", "stalled"}],
           futures' \in {"none", "live"}
    PROVE  IInv'
<1>1. Types /\ ArmedForALink /\ k \in Kind
  BY DEF IInv, Kind
<1>2. chain[k] \in 1..(MaxChain + 1)
  BY <1>1, StreamAssumption DEF Types, ArmedForALink
<1>3. /\ chain' \in [Kind -> 0..MaxChain]
      /\ timer' \in [Kind -> {"off", "socket", "monitor", "retry"}]
      /\ ArmedForALink'
      /\ \A j \in Kind \ {k} : chain'[j] = chain[j] /\ timer'[j] = timer[j]
  BY <1>1, <1>2, NextLinkEffect
<1>4. Types'
  BY <1>1, <1>3 DEF Types, private
<1>5. chain'["user"] = chain["user"] /\ timer'["user"] = timer["user"]
  BY <1>3 DEF Kind
<1>6. UserUntouched' /\ CallHasCaller' /\ CallIsAlone' /\ KeepAliveHasSession'
  BY <1>5, PrivateKept
<1>7. phase # "closed"
  BY DEF IInv, ClosedIsDisarmed, Fires
<1> QED
  BY <1>3, <1>4, <1>6, <1>7 DEF IInv, ClosedIsDisarmed, MarketStreamsStayClosed

LEMMA OutageStep == IInv /\ Outage => IInv'
<1> SUFFICES ASSUME IInv, Outage PROVE IInv'
  OBVIOUS
<1>1. Types /\ MarketStreamsStayClosed
  BY DEF IInv
<1>2. CASE FuturesLost
  <2>1. futures' = "none" /\ UNCHANGED public /\ MarketStreamsStayClosed'
    BY <1>1, <1>2 DEF FuturesLost, MarketStreamsStayClosed
  <2> QED
    BY <1>1, <1>2, <2>1, MarketRequest DEF FuturesLost, Types
<1>3. ASSUME NEW c \in Chunk, ChunkLost(c) PROVE IInv'
  <2>1. public' \in [Chunk -> {"none", "live", "stalled"}] /\ MarketStreamsStayClosed'
    BY <1>1, <1>3 DEF ChunkLost, Types, MarketStreamsStayClosed
  <2> QED
    BY <1>1, <1>3, <2>1, MarketRequest DEF ChunkLost, Types
<1>4. ASSUME NEW c \in Chunk, ChunkStalls(c) \/ ChunkSpeaks(c) PROVE IInv'
  <2>1. phase # "closed"
    BY <1>1, <1>4 DEF ChunkStalls, ChunkSpeaks, MarketStreamsStayClosed
  <2>2. /\ public' \in [Chunk -> {"none", "live", "stalled"}]
        /\ UNCHANGED <<transport, phase, futures, private, restarts>>
    BY <1>1, <1>4 DEF ChunkStalls, ChunkSpeaks, Types
  <2>3. Types' /\ ArmedForALink'
    BY <1>1, <2>2 DEF Types, IInv, ArmedForALink, Fires, private, restarts
  <2>4. UserUntouched' /\ CallHasCaller' /\ CallIsAlone' /\ KeepAliveHasSession'
    BY <2>2, PrivateKept DEF restarts
  <2> QED
    BY <2>1, <2>2, <2>3, <2>4 DEF IInv, ClosedIsDisarmed, MarketStreamsStayClosed
<1> QED
  BY <1>2, <1>3, <1>4 DEF Outage

LEMMA MonitorStep == IInv /\ checkPublicStreamHealth => IInv'
<1> SUFFICES ASSUME IInv, checkPublicStreamHealth PROVE IInv'
  OBVIOUS
<1>1. MarketStreamsStayClosed'
  BY DEF checkPublicStreamHealth, MarketStreamsStayClosed
<1> QED
  BY <1>1, MarketRequest DEF checkPublicStreamHealth, sockets, IInv, Types

LEMMA MarketRestartStep == IInv /\ (RestartPublic \/ RestartFutures) => IInv'
<1> SUFFICES ASSUME IInv, RestartPublic \/ RestartFutures PROVE IInv'
  OBVIOUS
<1>1. CASE RestartPublic
  <2>1. public' \in [Chunk -> {"none", "live", "stalled"}]
    BY <1>1 DEF RestartPublic
  <2> QED
    BY <1>1, <2>1, MarketRestart DEF RestartPublic, IInv, Types
<1>2. CASE RestartFutures
  BY <1>2, MarketRestart DEF RestartFutures, IInv, Types
<1> QED
  BY <1>1, <1>2

-----------------------------------------------------------------------------
(* A start of the user stream ends, well or badly: init goes on, or the    *)
(* first link of the user chain settles.                                   *)
LEMMA CallEnds ==
    ASSUME IInv, call # "none", call' = "none", Returned \/ Threw,
           UNCHANGED <<transport, sockets>>,
           user' \in {"none", "key", "ws"}, session' \in {"none", "key", "ws"},
           keepAlive' \in BOOLEAN, KeepAliveHasSession'
    PROVE  IInv'
<1>1. Types /\ ArmedForALink /\ "user" \in Kind
  BY DEF IInv, Kind
<1>2. CASE phase = "init"
  <2>1. phase' = "up" /\ UNCHANGED restarts
    BY <1>2 DEF Returned, Threw
  <2>2. Types' /\ ArmedForALink'
    BY <1>1, <2>1 DEF Types, ArmedForALink, Fires, restarts, sockets
  <2> QED
    BY <2>1, <2>2 DEF IInv, UserUntouched, CallHasCaller, CallIsAlone,
       ClosedIsDisarmed, MarketStreamsStayClosed
<1>3. CASE phase # "init"
  <2>1. chain["user"] \in 1..MaxChain
    BY <1>1, <1>3, StreamAssumption DEF IInv, CallHasCaller, Types
  <2>2. UNCHANGED phase
        /\ \E n \in {chain["user"], chain["user"] + 1} : NextLink("user", n)
    BY <1>3, <2>1 DEF Returned, Threw
  <2>3. PICK n \in 1..(MaxChain + 1) : NextLink("user", n)
    BY <2>1, <2>2, StreamAssumption
  <2>4. /\ chain' \in [Kind -> 0..MaxChain]
        /\ timer' \in [Kind -> {"off", "socket", "monitor", "retry"}]
        /\ ArmedForALink'
        /\ \A j \in Kind \ {"user"} : chain'[j] = chain[j] /\ timer'[j] = timer[j]
    BY <1>1, <2>3, NextLinkEffect
  <2>5. Types'
    BY <1>1, <2>2, <2>4 DEF Types, sockets
  <2>6. ClosedIsDisarmed' /\ MarketStreamsStayClosed'
    BY <2>2, <2>4 DEF IInv, ClosedIsDisarmed, MarketStreamsStayClosed, Kind, sockets
  <2>7. phase \notin {"new", "opening"}
    BY DEF IInv, UserUntouched
  <2> QED
    BY <1>3, <2>2, <2>4, <2>5, <2>6, <2>7
       DEF IInv, UserUntouched, CallHasCaller, CallIsAlone
<1> QED
  BY <1>2, <1>3

(* The user's socket changes while no start is in progress, with or        *)
(* without a request for a restart.                                        *)
LEMMA UserChanges ==
    ASSUME IInv, call = "none", call' = "none", UNCHANGED <<transport, phase, sockets>>,
           phase \notin {"new", "opening"},
           scheduleRestart("user", "socket") \/ UNCHANGED restarts,
           user' \in {"none", "key", "ws"}, session' \in {"none", "key", "ws"},
           keepAlive' \in BOOLEAN, KeepAliveHasSession'
    PROVE  IInv'
<1>1. Types /\ ArmedForALink /\ "user" \in Kind
  BY DEF IInv, Kind
<1>2. /\ chain' \in [Kind -> 0..MaxChain]
      /\ timer' \in [Kind -> {"off", "socket", "monitor", "retry"}]
      /\ ArmedForALink'
      /\ \A j \in Kind \ {"user"} : chain'[j] = chain[j] /\ timer'[j] = timer[j]
  <2>1. CASE UNCHANGED restarts
    BY <1>1, <2>1 DEF Types, ArmedForALink, Fires, restarts
  <2>2. CASE scheduleRestart("user", "socket")
    BY <1>1, <2>2, ScheduleEffect
  <2> QED
    BY <2>1, <2>2
<1>3. Types'
  BY <1>1, <1>2 DEF Types, sockets
<1>4. ClosedIsDisarmed' /\ MarketStreamsStayClosed'
  BY <1>2 DEF IInv, ClosedIsDisarmed, MarketStreamsStayClosed, Kind, sockets
<1>5. phase # "init"
  BY DEF IInv, CallHasCaller
<1> QED
  BY <1>2, <1>3, <1>4, <1>5 DEF IInv, UserUntouched, CallHasCaller, CallIsAlone

LEMMA StartEffect ==
    ASSUME startUserStream \/ StartViaWsApi
    PROVE  /\ session' = "none" /\ keepAlive' = FALSE
           /\ call' \in {"key", "subscribe"} /\ user' \in {"none", "ws"}
           /\ call' = "key" => user' = "none"
BY DEF startUserStream, StartViaListenKey, StartViaWsApi

(* The first link's timer fires and starts the user stream.                *)
LEMMA RestartUserStep == IInv /\ RestartUser => IInv'
<1> SUFFICES ASSUME IInv, RestartUser PROVE IInv'
  OBVIOUS
<1>1. Types /\ ArmedForALink /\ "user" \in Kind
  BY DEF IInv, Kind
<1>2. /\ session' = "none" /\ keepAlive' = FALSE
      /\ call' \in {"key", "subscribe"} /\ user' \in {"none", "ws"}
      /\ call' = "key" => user' = "none"
      /\ timer' = [timer EXCEPT !["user"] = "off"]
      /\ UNCHANGED <<transport, phase, sockets, chain>>
  BY StartEffect DEF RestartUser
<1>3. chain["user"] > 0
  BY <1>1 DEF RestartUser, ArmedForALink
<1>4. Types' /\ ArmedForALink' /\ timer'["user"] = "off"
  BY <1>1, <1>2 DEF Types, ArmedForALink, Fires, sockets
<1>5. phase \notin {"new", "opening", "init"}
  BY <1>1, <1>3 DEF IInv, UserUntouched, CallHasCaller, Types
<1>6. ClosedIsDisarmed' /\ MarketStreamsStayClosed'
  BY <1>1, <1>2 DEF IInv, ClosedIsDisarmed, MarketStreamsStayClosed, Kind, sockets, Types
<1> QED
  BY <1>2, <1>3, <1>4, <1>5, <1>6
     DEF IInv, UserUntouched, CallHasCaller, CallIsAlone, KeepAliveHasSession

LEMMA UserCallStep == IInv /\ UserCall => IInv'
<1> SUFFICES ASSUME IInv, UserCall PROVE IInv'
  OBVIOUS
<1>1. Types /\ KeepAliveHasSession /\ CallIsAlone
  BY DEF IInv
<1>2. CASE KeyArrives
  BY <1>1, <1>2, CallEnds DEF KeyArrives, KeepAliveHasSession
<1>3. CASE KeyUnsupported
  <2>1. /\ session' = "none" /\ keepAlive' = FALSE
        /\ user' = "ws" /\ call' = "subscribe"
        /\ UNCHANGED <<transport, phase, sockets, restarts>>
    BY <1>3 DEF KeyUnsupported, StartViaWsApi
  <2>2. Types' /\ ArmedForALink'
    BY <1>1, <2>1 DEF IInv, Types, ArmedForALink, Fires, sockets, restarts
  <2>3. call = "key"
    BY <1>3 DEF KeyUnsupported
  <2> QED
    BY <2>1, <2>2, <2>3 DEF IInv, UserUntouched, CallHasCaller, CallIsAlone,
       ClosedIsDisarmed, MarketStreamsStayClosed, KeepAliveHasSession, sockets, restarts
<1>4. CASE KeyFails
  BY <1>1, <1>4, CallEnds DEF KeyFails, KeepAliveHasSession, Types
<1>5. CASE SubscribeTimesOut
  BY <1>1, <1>5, CallEnds DEF SubscribeTimesOut, KeepAliveHasSession, Types
<1>6. CASE Subscribed
  <2>1. /\ user = "ws" /\ UNCHANGED <<transport, sockets, user, keepAlive>>
        /\ session' = "ws" /\ call' = "none"
    BY <1>6 DEF Subscribed
  <2>2. KeepAliveHasSession'
    BY <1>1, <2>1 DEF KeepAliveHasSession
  <2>3. phase \notin {"new", "opening"}
    BY <2>1 DEF IInv, UserUntouched
  <2>4. CASE call = "subscribe"
    BY <1>1, <1>6, <2>1, <2>2, <2>4, CallEnds DEF Subscribed, Types
  <2>5. CASE call # "subscribe"
    <3>1. call = "none"
      BY <1>1, <2>1, <2>5 DEF CallIsAlone, Types
    <3> QED
      BY <1>1, <1>6, <2>1, <2>2, <2>3, <2>5, <3>1, UserChanges DEF Subscribed, Types
  <2> QED
    BY <2>4, <2>5
<1> QED
  BY <1>2, <1>3, <1>4, <1>5, <1>6 DEF UserCall

LEMMA UserLostStep == IInv /\ UserLost => IInv'
<1> SUFFICES ASSUME IInv, UserLost PROVE IInv'
  OBVIOUS
<1>1. Types /\ KeepAliveHasSession /\ CallIsAlone
  BY DEF IInv
<1>2. /\ user' = "none" /\ session' = "none" /\ UNCHANGED <<transport, sockets>>
      /\ user # "none"
  BY DEF UserLost, KeySocketLost, WsFails, WsCloses, WsErrors, ForgetUserSocket
<1>3. phase \notin {"new", "opening"}
  BY <1>2 DEF IInv, UserUntouched
<1>4. CASE KeySocketLost
  <2>1. call = "none" /\ keepAlive' = FALSE
    BY <1>1, <1>4 DEF CallIsAlone, KeySocketLost
  <2> QED
    BY <1>2, <1>3, <1>4, <2>1, UserChanges DEF KeySocketLost, KeepAliveHasSession
<1>5. CASE WsFails \/ WsCloses \/ WsErrors
  <2>1. user = "ws" /\ call' = "none" /\ UNCHANGED keepAlive
    BY <1>5 DEF WsFails, WsCloses, WsErrors, ForgetUserSocket
  <2>2. keepAlive' = FALSE /\ KeepAliveHasSession'
    BY <1>1, <1>2, <2>1 DEF KeepAliveHasSession, Types
  <2>3. CASE call = "subscribe"
    <3>1. Threw
      BY <1>5, <2>3 DEF WsFails, WsCloses, WsErrors
    <3> QED
      BY <1>2, <2>1, <2>2, <2>3, <3>1, CallEnds
  <2>4. CASE call # "subscribe"
    <3>1. call = "none"
      BY <1>1, <2>1, <2>4 DEF CallIsAlone, Types
    <3>2. UNCHANGED phase /\ (scheduleRestart("user", "socket") \/ UNCHANGED restarts)
      BY <1>5, <2>4 DEF WsFails, WsCloses, WsErrors
    <3> QED
      BY <1>2, <1>3, <2>1, <2>2, <3>1, <3>2, UserChanges
  <2> QED
    BY <2>3, <2>4
<1> QED
  BY <1>4, <1>5 DEF UserLost

-----------------------------------------------------------------------------
LEMMA InitPhaseStep == IInv /\ (InitPublic \/ InitPrivate) => IInv'
<1> SUFFICES ASSUME IInv, InitPublic \/ InitPrivate PROVE IInv'
  OBVIOUS
<1>1. Types /\ ArmedForALink /\ "user" \in Kind
  BY DEF IInv, Kind
<1>2. UNCHANGED <<transport, restarts>>
  BY DEF InitPublic, InitPrivate
<1>3. ArmedForALink'
  BY <1>1, <1>2 DEF ArmedForALink, Fires, restarts
<1>4. CASE InitPublic
  <2>1. phase = "new" /\ phase' = "opening" /\ UNCHANGED <<futures, private>>
    BY <1>4 DEF InitPublic
  <2>2. Types'
    BY <1>1, <1>2, <1>4, <2>1 DEF InitPublic, Types, private, restarts
  <2> QED
    BY <1>2, <1>3, <2>1, <2>2 DEF IInv, UserUntouched, CallHasCaller, CallIsAlone,
       ClosedIsDisarmed, MarketStreamsStayClosed, KeepAliveHasSession, private, restarts
<1>5. CASE InitPrivate
  <2>1. phase = "opening" /\ futures' = "live" /\ UNCHANGED public
    BY <1>5 DEF InitPrivate
  <2>2. chain["user"] = 0 /\ timer["user"] = "off"
    BY <1>1, <2>1 DEF IInv, UserUntouched, ArmedForALink, Fires
  <2>3. CASE transport = "none"
    <3>1. phase' = "up" /\ UNCHANGED private
      BY <1>5, <2>3 DEF InitPrivate
    <3>2. Types'
      BY <1>1, <1>2, <2>1, <3>1 DEF Types, private, restarts
    <3> QED
      BY <1>2, <1>3, <2>1, <2>2, <3>1, <3>2 DEF IInv, UserUntouched, CallHasCaller,
         CallIsAlone, ClosedIsDisarmed, MarketStreamsStayClosed, KeepAliveHasSession,
         private, restarts
  <2>4. CASE transport # "none"
    <3>1. phase' = "init" /\ startUserStream
      BY <1>5, <2>4 DEF InitPrivate
    <3>2. /\ session' = "none" /\ keepAlive' = FALSE
          /\ call' \in {"key", "subscribe"} /\ user' \in {"none", "ws"}
          /\ call' = "key" => user' = "none"
      BY <3>1, StartEffect
    <3>3. Types'
      BY <1>1, <1>2, <2>1, <3>1, <3>2 DEF Types, restarts
    <3> QED
      BY <1>2, <1>3, <2>1, <2>2, <3>1, <3>2, <3>3 DEF IInv, UserUntouched, CallHasCaller,
         CallIsAlone, ClosedIsDisarmed, MarketStreamsStayClosed, KeepAliveHasSession,
         restarts
  <2> QED
    BY <2>3, <2>4
<1> QED
  BY <1>4, <1>5

LEMMA CloseStep == IInv /\ close => IInv'
<1> SUFFICES ASSUME IInv, close PROVE IInv'
  OBVIOUS
<1>1. Types'
  BY DEF IInv, Types, close
<1>2. \A k \in Kind : timer'[k] = "off"
  BY DEF close
<1>3. phase = "up" /\ phase' = "closed" /\ UNCHANGED <<call, chain>>
  BY DEF close
<1>4. MarketStreamsStayClosed' /\ KeepAliveHasSession' /\ user' = "none"
  BY DEF close, MarketStreamsStayClosed, KeepAliveHasSession
<1> QED
  BY <1>1, <1>2, <1>3, <1>4 DEF IInv, ArmedForALink, Fires, UserUntouched,
     CallHasCaller, CallIsAlone, ClosedIsDisarmed, Kind

LEMMA NextIInv == IInv /\ [Next]_vars => IInv'
<1> SUFFICES ASSUME IInv, [Next]_vars PROVE IInv'
  OBVIOUS
<1>1. CASE UNCHANGED vars
  <2>1. Types' /\ ArmedForALink'
    BY <1>1 DEF vars, sockets, private, restarts, IInv, Types, ArmedForALink, Fires
  <2> QED
    BY <1>1, <2>1 DEF vars, sockets, private, restarts, IInv, UserUntouched,
       CallHasCaller, CallIsAlone, ClosedIsDisarmed, MarketStreamsStayClosed,
       KeepAliveHasSession
<1>2. CASE InitPublic \/ InitPrivate
  BY <1>2, InitPhaseStep
<1>3. CASE close
  BY <1>3, CloseStep
<1>4. CASE Outage
  BY <1>4, OutageStep
<1>5. CASE checkPublicStreamHealth
  BY <1>5, MonitorStep
<1>6. CASE UserLost
  BY <1>6, UserLostStep
<1>7. CASE UserCall
  BY <1>7, UserCallStep
<1>8. CASE Restart
  BY <1>8, MarketRestartStep, RestartUserStep DEF Restart
<1> QED
  BY <1>1, <1>2, <1>3, <1>4, <1>5, <1>6, <1>7, <1>8 DEF Next

LEMMA Inductive == Spec => []IInv
<1>1. Init => IInv
  BY InitIInv
<1>2. IInv /\ [Next]_vars => IInv'
  BY NextIInv
<1> QED
  BY <1>1, <1>2, PTL DEF Spec

-----------------------------------------------------------------------------
(* TypeOK: every variable has its type and a timer is armed only for an    *)
(* unsettled restart (the restart chain of scheduleRestart).               *)
THEOREM TypeCorrect == Spec => []TypeOK
<1>1. IInv => TypeOK
  BY DEF IInv, Types, ArmedForALink, TypeOK
<1> QED
  BY <1>1, Inductive, PTL

(* MarketStreamsStayClosed: once close has run, no pending restart opens a *)
(* public or futures socket again.                                         *)
THEOREM ClosedStaysClosed == Spec => []MarketStreamsStayClosed
<1>1. IInv => MarketStreamsStayClosed
  BY DEF IInv
<1> QED
  BY <1>1, Inductive, PTL

(* KeepAliveHasSession: a keep-alive interval runs exactly for the current *)
(* listen-key socket, through losses, restarts, fallbacks and close.       *)
THEOREM KeepAliveMatches == Spec => []KeepAliveHasSession
<1>1. IInv => KeepAliveHasSession
  BY DEF IInv
<1> QED
  BY <1>1, Inductive, PTL

(* No restart of the user stream is due while a start of it is awaited:    *)
(* two starts at once would leave a second socket and interval behind      *)
(* (startUserStreamViaListenKey).                                          *)
THEOREM OneUserStart == Spec => [](call # "none" => timer["user"] = "off")
<1>1. IInv => (call # "none" => timer["user"] = "off")
  BY DEF IInv, CallIsAlone
<1> QED
  BY <1>1, Inductive, PTL

-----------------------------------------------------------------------------
(* The inductive invariant of MarketHistory.                               *)

ListingType == UNION {[P -> [lo : Time, hi : Time]] : P \in SUBSET Part}
JobType ==
    [at : Step, op : {"none", "scan", "repair"}, stage : {"none", "look", "plan", "upsert"},
     todo : SUBSET Part, have : SUBSET Time, out : SUBSET Time, keep : SUBSET Time,
     seen : SUBSET Part, list : ListingType]

HistoryTypes ==
    /\ now \in Time
    /\ file \in [Part -> SUBSET Time]
    /\ \A p \in Part : \A t \in file[p] : PartOf(t) = p
    /\ damaged \subseteq Part /\ \A p \in damaged : file[p] = {}
    /\ manifest \in {"none", "good", "damaged", "moved"}
    /\ listed \in ListingType
    /\ manifest # "good" => listed = NoListing
    /\ legacy \in {{}, Legacy}
    /\ noted \subseteq Part
    /\ job \in [Actor -> JobType]
    /\ crashes \in 0 .. MaxCrashes /\ faults \in 0 .. MaxFaults /\ damages \in 0 .. MaxDamage
    /\ promised \subseteq Time /\ alone \in [Actor -> BOOLEAN] /\ mistaken \in BOOLEAN

(* A candle in its partition's file, and in the range a manifest gives.    *)
InFile(t) == t \in file[PartOf(t)]
Covers(l, t) == PartOf(t) \in DOMAIN l /\ t \in l[PartOf(t)].lo .. l[PartOf(t)].hi
Kept == \A t \in promised : InFile(t)

(* What a job j saves is in its file, or will be.                          *)
Saved(j, S) == \A t \in S : PartOf(t) \in j.todo \/ InFile(t)

(* While an actor is alone nobody changes the series.                      *)
AloneOK ==
    \A a \in Actor : alone[a] /\ ~At(a, "idle") =>
        /\ \A b \in Actor \ {a} : ~Changing(b)
        /\ At(a, "write") => noted = {} /\ Saved(job[a], job[a].keep)

(* The files a save removes hold no candle it saves; the one a load moves  *)
(* away is one it has to read; the old file goes when there is a manifest. *)
Fits(j) ==
    /\ j.at \in {"write", "migrate"} => \A t \in j.keep : PartOf(t) \notin j.seen
    /\ j.at \in {"quarantine", "discard"} => j.todo # {}
    /\ j.at = "unlegacy" => manifest # "none"

(* The promised candles: in the old file until there is a manifest, then   *)
(* in the partitions and in what the manifest lists; in no partition that  *)
(* a cleanup will take from it.                                            *)
StoreOK ==
    /\ manifest = "none" => promised \subseteq legacy
    /\ manifest # "none" => Kept
    /\ manifest = "good" => \A t \in promised : Covers(listed, t)
    /\ \A t \in promised : PartOf(t) \notin noted

(* What a job holds has them too: a save writes them all, a cleaned        *)
(* manifest covers them, a rebuild and a load that an upsert waits for have*)
(* read them or will, and no load moves away a file that has any.          *)
Collects(j) == \/ j.at \in {"rebuilding", "discard"}
               \/ j.at \in {"read", "quarantine", "cleaned"} /\ j.stage = "upsert"
Holds(j) ==
    /\ j.at \notin {"idle", "open", "migrate", "fetch"} => Kept
    /\ j.at \in {"write", "migrate"} => promised \subseteq j.keep /\ Saved(j, promised)
    /\ j.at = "cleaned" => \A t \in promised : Covers(j.list, t)
    /\ j.at \in {"quarantine", "discard"} => \A t \in promised : PartOf(t) # Min(j.todo)
    /\ Collects(j) => \A t \in promised : t \in j.have \/ PartOf(t) \in j.todo

HistoryInv ==
    /\ HistoryTypes
    /\ AloneOK
    /\ \A a \in Actor : Fits(job[a])
    /\ ~mistaken => StoreOK /\ \A a \in Actor : Holds(job[a])

-----------------------------------------------------------------------------
(* The smallest and the largest of a set, and what a manifest lists.       *)
LEMMA LeastNat ==
    ASSUME NEW S, S \subseteq Nat, S # {}
    PROVE  \E m \in S : \A n \in S : m <= n
<1>1. PICK m \in S : \A n \in S : ~(<<n, m>> \in OpToRel(<, Nat))
  BY NatLessThanWellFounded, WFMin
<1>2. ASSUME NEW n \in S PROVE m <= n
  <2>1. n \in Nat /\ m \in Nat
    OBVIOUS
  <2>2. ~(n < m)
    BY <1>1, <2>1 DEF OpToRel
  <2> QED
    BY <2>1, <2>2
<1> QED
  BY <1>2

LEMMA MinIs ==
    ASSUME NEW S, S \subseteq Nat, S # {}
    PROVE  Min(S) \in S /\ \A n \in S : Min(S) <= n
<1>1. \E m \in S : \A n \in S : m =< n
  BY LeastNat
<1> QED
  BY <1>1 DEF Min

LEMMA MaxIs ==
    ASSUME NEW S, S \subseteq Time, S # {}
    PROVE  Max(S) \in S /\ \A t \in S : t <= Max(S)
<1> DEFINE U == {n \in Nat : \A t \in S : t <= n}
<1>1. Last \in U
  BY HistoryAssumption DEF Time
<1>2. PICK m \in U : \A n \in U : m <= n
  <2>1. U \subseteq Nat /\ U # {}
    BY <1>1
  <2> HIDE DEF U
  <2> QED
    BY <2>1, LeastNat
<1>3. m \in S
  <2>1. S \subseteq Nat \ {0} /\ m \in Nat /\ \A t \in S : t <= m
    BY HistoryAssumption DEF Time
  <2>2. SUFFICES ASSUME m \notin S PROVE FALSE
    OBVIOUS
  <2>3. \A t \in S : t <= m - 1
    BY <2>1, <2>2
  <2>4. m - 1 \in Nat
    <3>1. PICK s \in S : TRUE
      OBVIOUS
    <3>2. s \in Nat /\ s # 0 /\ s <= m
      BY <2>1, <3>1
    <3> QED
      BY <2>1, <3>2
  <2>5. m - 1 \in U
    BY <2>3, <2>4
  <2> QED
    BY <1>2, <2>1, <2>4, <2>5
<1>4. \E x \in S : \A y \in S : x >= y
  <2>1. \A t \in S : m >= t
    BY HistoryAssumption DEF Time
  <2> QED
    BY <1>3, <2>1
<1>5. Max(S) \in S /\ \A t \in S : Max(S) >= t
  BY <1>4 DEF Max
<1> QED
  BY <1>5, HistoryAssumption DEF Time

LEMMA Months == /\ Part \subseteq Nat
                /\ \A t \in Time : PartOf(t) \in Part
                /\ Time \subseteq Nat
BY HistoryAssumption DEF Part, Time

LEMMA ListingIs ==
    ASSUME NEW S, S \subseteq Time
    PROVE  /\ Listing(S) \in ListingType
           /\ \A t \in S : Covers(Listing(S), t)
<1>1. Parts(S) \subseteq Part
  BY Months DEF Parts
<1>2. ASSUME NEW p \in Parts(S)
      PROVE  /\ Extent(Partition(S, p)) \in [lo : Time, hi : Time]
             /\ \A t \in Partition(S, p) :
                   t \in Extent(Partition(S, p)).lo .. Extent(Partition(S, p)).hi
  <2>1. PICK T : T = Partition(S, p)
    OBVIOUS
  <2>2. T \subseteq Time /\ T # {} /\ T \subseteq Nat
    BY <2>1, Months DEF Partition, Parts
  <2>3. /\ Min(T) \in T /\ \A t \in T : Min(T) <= t
        /\ Max(T) \in T /\ \A t \in T : t <= Max(T)
    BY <2>2, MinIs, MaxIs
  <2>4. Extent(T) \in [lo : Time, hi : Time] /\ Extent(T).lo = Min(T) /\ Extent(T).hi = Max(T)
    BY <2>2, <2>3 DEF Extent
  <2>5. \A t \in T : t \in Min(T) .. Max(T)
    BY <2>2, <2>3
  <2> QED
    BY <2>1, <2>4, <2>5
<1>3. Listing(S) \in [Parts(S) -> [lo : Time, hi : Time]]
  BY <1>2 DEF Listing
<1>4. Listing(S) \in ListingType
  BY <1>1, <1>3 DEF ListingType
<1>5. ASSUME NEW t \in S PROVE Covers(Listing(S), t)
  <2>1. PartOf(t) \in Parts(S) /\ t \in Partition(S, PartOf(t))
    BY DEF Parts, Partition
  <2>2. Listing(S)[PartOf(t)] = Extent(Partition(S, PartOf(t)))
        /\ PartOf(t) \in DOMAIN Listing(S)
    BY <2>1 DEF Listing
  <2> QED
    BY <1>2, <2>1, <2>2 DEF Covers
<1> QED
  BY <1>4, <1>5

LEMMA NoListingIs == NoListing \in ListingType
BY ListingIs DEF NoListing

LEMMA ListedParts == ASSUME NEW l \in ListingType PROVE DOMAIN l \subseteq Part
BY DEF ListingType

(* A manifest without some partitions.                                     *)
LEMMA ListingWithout ==
    ASSUME NEW l \in ListingType, NEW N
    PROVE  LET m == [p \in DOMAIN l \ N |-> l[p]] IN
           /\ m \in ListingType
           /\ \A t : Covers(l, t) /\ PartOf(t) \notin N => Covers(m, t)
<1> DEFINE m == [p \in DOMAIN l \ N |-> l[p]]
<1>1. PICK P \in SUBSET Part : l \in [P -> [lo : Time, hi : Time]]
  BY DEF ListingType
<1>2. m \in [P \ N -> [lo : Time, hi : Time]] /\ P \ N \in SUBSET Part
  BY <1>1
<1>3. m \in ListingType
  BY <1>2 DEF ListingType
<1>4. \A t : Covers(l, t) /\ PartOf(t) \notin N => Covers(m, t)
  BY DEF Covers
<1> QED
  BY <1>3, <1>4

LEMMA IdleIs == /\ Idle \in JobType /\ Idle.at = "idle" /\ Idle.stage = "none"
                /\ Idle.todo = {} /\ Idle.have = {} /\ Idle.keep = {} /\ Idle.out = {}
                /\ Idle.seen = {} /\ Idle.list = NoListing /\ Idle.op = "none"
BY NoListingIs DEF Idle, JobType, Step

(* An operation that begins to read the series.                            *)
LEMMA LoadIs ==
    ASSUME NEW a \in Actor, NEW op \in {"scan", "repair"}, NEW stage \in {"look", "plan", "upsert"},
           NEW out, out \subseteq Time, Load(a, op, stage, out)
    PROVE  \E r \in JobType : job' = [job EXCEPT ![a] = r] /\ r.at = "open"
<1>1. PICK r : r = [Idle EXCEPT !.at = "open", !.op = op, !.stage = stage, !.out = out]
  OBVIOUS
<1>2. r \in JobType /\ r.at = "open"
  BY <1>1, IdleIs DEF JobType, Step
<1> QED
  BY <1>1, <1>2 DEF Load

-----------------------------------------------------------------------------
(* What the steps have in common.                                          *)
LEMMA Jobs ==
    ASSUME HistoryInv, NEW a \in Actor
    PROVE  /\ HistoryTypes /\ job[a] \in JobType /\ Fits(job[a])
           /\ ~mistaken => StoreOK /\ Holds(job[a])
BY DEF HistoryInv, HistoryTypes

(* A step of one actor: what it holds afterwards, and that what was        *)
(* promised stays where it is.                                             *)
LEMMA JobStep ==
    ASSUME HistoryInv, NEW a \in Actor, NEW r \in JobType, job' = [job EXCEPT ![a] = r],
           Witnessed, promised' = promised, HistoryTypes',
           Changing(a) \/ UNCHANGED <<file, noted>>,
           manifest # "none" => manifest' # "none",
           Fits(r)',
           alone[a] /\ r.at = "write" => noted' = {} /\ Saved(r, r.keep)',
           ~mistaken' => /\ ~mistaken /\ StoreOK' /\ Holds(r)'
                         /\ \A t \in promised : InFile(t) => InFile(t)'
    PROVE  HistoryInv'
<1>1. job' \in [Actor -> JobType] /\ job'[a] = r /\ \A b \in Actor \ {a} : job'[b] = job[b]
  BY DEF HistoryInv, HistoryTypes
<1>2. AloneOK'
  <2> SUFFICES ASSUME NEW c \in Actor, alone'[c], job'[c].at # "idle"
               PROVE  /\ \A b \in Actor \ {c} : ~Changing(b)'
                      /\ job'[c].at = "write" => noted' = {} /\ Saved(job[c], job[c].keep)'
    BY DEF AloneOK, At, Saved
  <2>1. alone[c] /\ \A b \in Actor \ {c} : ~Changing(b)'
    BY DEF Witnessed
  <2>2. CASE c = a
    BY <1>1, <2>1, <2>2 DEF Saved, InFile
  <2>3. CASE c # a
    <3>1. job'[c] = job[c]
      BY <1>1, <2>3
    <3>2. ~Changing(a) /\ (job[c].at = "write" => noted = {} /\ Saved(job[c], job[c].keep))
      BY <2>1, <2>3, <3>1 DEF HistoryInv, AloneOK, At
    <3> QED
      BY <2>1, <3>1, <3>2 DEF Saved, InFile
  <2> QED
    BY <2>2, <2>3
<1>3. ASSUME NEW b \in Actor PROVE Fits(job[b])'
  BY <1>1 DEF HistoryInv, Fits
<1>4. ASSUME ~mistaken', NEW b \in Actor PROVE Holds(job[b])'
  <2>1. CASE b = a
    BY <1>1, <1>4, <2>1 DEF Holds, Saved, Kept, InFile, Covers
  <2>2. CASE b # a
    <3>1. Holds(job[b]) /\ job'[b] = job[b]
      BY <1>1, <1>4, <2>2 DEF HistoryInv
    <3>2. (Kept => Kept') /\ \A j : Saved(j, promised) => Saved(j, promised)'
      BY <1>4 DEF Kept, Saved
    <3> QED
      BY <3>1, <3>2 DEF Holds, Covers, Saved
  <2> QED
    BY <2>1, <2>2
<1> QED
  BY <1>2, <1>3, <1>4 DEF HistoryInv

(* A step that leaves the files and the manifest as they are.              *)
LEMMA QuietStep ==
    ASSUME HistoryInv, NEW a \in Actor, NEW r \in JobType, job' = [job EXCEPT ![a] = r],
           Witnessed, UNCHANGED <<now, disk, noted, crashes, damages, promised>>,
           faults' \in 0 .. MaxFaults, mistaken' \in BOOLEAN,
           Fits(r), alone[a] /\ r.at = "write" => noted = {} /\ Saved(r, r.keep),
           ~mistaken' => ~mistaken /\ Holds(r)
    PROVE  HistoryInv'
<1>1. UNCHANGED <<now, file, damaged, manifest, listed, legacy, noted, crashes, damages, promised>>
  BY DEF disk
<1>2. HistoryTypes'
  <2>1. alone' \in [Actor -> BOOLEAN]
    BY DEF Witnessed
  <2> QED
    BY <1>1, <2>1 DEF HistoryInv, HistoryTypes
<1>3. /\ Fits(r)' /\ (Saved(r, r.keep) => Saved(r, r.keep)')
      /\ (Holds(r) => Holds(r)') /\ (StoreOK => StoreOK')
      /\ \A t \in promised : InFile(t) => InFile(t)'
  BY <1>1 DEF Fits, Holds, StoreOK, Saved, Kept, InFile, Covers
<1> QED
  BY <1>1, <1>2, <1>3, JobStep DEF HistoryInv

(* To be where nothing is held.                                            *)
LEMMA NothingHeld ==
    ASSUME NEW r \in JobType, r.at \in {"idle", "open", "fetch"}
    PROVE  Fits(r) /\ Holds(r)
BY DEF Fits, Holds, Collects

(* Where an error leads to.                                                *)
LEMMA ThrowsIs ==
    ASSUME NEW a \in Actor, Throws(a)
    PROVE  \E r \in JobType : job' = [job EXCEPT ![a] = r] /\ r.at \in {"idle", "fetch"}
<1>1. PICK r : r = [Idle EXCEPT !.at = "fetch", !.op = "scan", !.stage = "look"]
  OBVIOUS
<1>2. r \in JobType /\ r.at = "fetch"
  BY <1>1, IdleIs DEF JobType, Step
<1> QED
  BY <1>1, <1>2, IdleIs DEF Throws, Ends

-----------------------------------------------------------------------------
(* A load, step by step.                                                   *)
LEMMA OpenManifestStep ==
    ASSUME HistoryInv, NEW a \in Actor, OpenManifest(a), Witnessed PROVE HistoryInv'
<1>1. PICK j : j = job[a]
  OBVIOUS
<1>2. /\ HistoryTypes /\ j \in JobType /\ Fits(j) /\ j.at = "open"
      /\ (~mistaken => StoreOK /\ Holds(j))
      /\ UNCHANGED <<now, disk, noted, crashes, damages, promised>> /\ faults' = faults
      /\ faults \in 0 .. MaxFaults /\ mistaken \in BOOLEAN
  BY <1>1, Jobs DEF OpenManifest, At, bounds, HistoryTypes
<1>3. CASE /\ manifest = "good" /\ mistaken' = mistaken
           /\ job' = [job EXCEPT ![a].at = "read", ![a].todo = DOMAIN listed]
  <2>1. PICK r : r = [j EXCEPT !.at = "read", !.todo = DOMAIN listed]
    OBVIOUS
  <2>2. r \in JobType /\ r.at = "read" /\ r.todo = DOMAIN listed
    BY <1>2, <2>1, ListedParts DEF HistoryTypes, JobType, Step
  <2>3. job' = [job EXCEPT ![a] = r]
    BY <1>1, <1>2, <1>3, <2>1 DEF HistoryTypes
  <2>4. Fits(r)
    BY <2>2 DEF Fits
  <2>5. ~mistaken => Holds(r)
    BY <1>2, <1>3, <2>2 DEF Holds, StoreOK, Covers
  <2> QED
    BY <1>2, <1>3, <2>2, <2>3, <2>4, <2>5, QuietStep
<1>4. CASE /\ manifest # "good" /\ legacy # {}
           /\ Save(a, legacy, "migrate") /\ mistaken' = (mistaken \/ manifest # "none")
  <2>1. PICK r : r = [j EXCEPT !.at = "migrate", !.keep = legacy, !.todo = Parts(legacy),
                               !.seen = Files \ Parts(legacy)]
    OBVIOUS
  <2>2. legacy \subseteq Time /\ Parts(legacy) \subseteq Part /\ Files \subseteq Part
    BY <1>2, Months, HistoryAssumption DEF HistoryTypes, Parts, Files
  <2>3. r \in JobType /\ r.at = "migrate" /\ r.keep = legacy /\ r.todo = Parts(legacy)
        /\ r.seen = Files \ Parts(legacy)
    BY <1>2, <2>1, <2>2 DEF JobType, Step
  <2>4. job' = [job EXCEPT ![a] = r]
    BY <1>1, <1>2, <1>4, <2>1 DEF HistoryTypes, Save
  <2>5. Fits(r)
    BY <2>3 DEF Fits, Parts
  <2>6. ~mistaken' => ~mistaken /\ Holds(r)
    BY <1>2, <1>4, <2>3 DEF Holds, StoreOK, Saved, Parts
  <2>7. mistaken' \in BOOLEAN
    BY <1>4
  <2> QED
    BY <1>2, <2>3, <2>4, <2>5, <2>6, <2>7, QuietStep
<1>5. CASE /\ manifest \in {"none", "moved"} /\ legacy = {}
           /\ Goto(a, "read") /\ mistaken' = (mistaken \/ manifest = "moved")
  <2>1. PICK r : r = [j EXCEPT !.at = "read"]
    OBVIOUS
  <2>2. r \in JobType /\ r.at = "read"
    BY <1>2, <2>1 DEF JobType, Step
  <2>3. job' = [job EXCEPT ![a] = r]
    BY <1>1, <1>2, <1>5, <2>1 DEF HistoryTypes, Goto
  <2>4. Fits(r)
    BY <2>2 DEF Fits
  <2>5. ~mistaken' => ~mistaken /\ promised = {}
    BY <1>2, <1>5 DEF StoreOK
  <2>6. ~mistaken' => Holds(r)
    BY <2>2, <2>5 DEF Holds, Kept
  <2>7. mistaken' \in BOOLEAN
    BY <1>5
  <2> QED
    BY <1>2, <2>2, <2>3, <2>4, <2>5, <2>6, <2>7, QuietStep
<1>6. CASE manifest = "damaged" /\ Goto(a, "bad") /\ mistaken' = mistaken
  <2>1. PICK r : r = [j EXCEPT !.at = "bad"]
    OBVIOUS
  <2>2. r \in JobType /\ r.at = "bad"
    BY <1>2, <2>1 DEF JobType, Step
  <2>3. job' = [job EXCEPT ![a] = r]
    BY <1>1, <1>2, <1>6, <2>1 DEF HistoryTypes, Goto
  <2>4. Fits(r) /\ (~mistaken => Holds(r))
    BY <1>2, <1>6, <2>2 DEF Fits, Holds, Collects, StoreOK
  <2> QED
    BY <1>2, <1>6, <2>2, <2>3, <2>4, QuietStep
<1> QED
  BY <1>3, <1>4, <1>5, <1>6 DEF OpenManifest

(* The manifest may be gone; the partitions are not.                       *)
LEMMA MoveManifestStep ==
    ASSUME HistoryInv, NEW a \in Actor, MoveManifest(a), Witnessed PROVE HistoryInv'
<1>1. PICK j, r : j = job[a] /\ r = [j EXCEPT !.at = "rebuild"]
  OBVIOUS
<1>2. /\ HistoryTypes /\ j \in JobType /\ Fits(j) /\ j.at = "bad"
      /\ (~mistaken => StoreOK /\ Holds(j))
      /\ UNCHANGED <<now, file, damaged, legacy, noted, crashes, faults, damages, promised, mistaken>>
      /\ \/ UNCHANGED <<manifest, listed>>
         \/ manifest \in {"good", "damaged"} /\ manifest' = "moved" /\ listed' = NoListing
  BY <1>1, Jobs DEF MoveManifest, At, bounds, history
<1>3. r \in JobType /\ r.at = "rebuild"
  BY <1>1, <1>2 DEF JobType, Step
<1>4. job' = [job EXCEPT ![a] = r]
  BY <1>1, <1>2 DEF MoveManifest, HistoryTypes, Goto
<1>5. HistoryTypes'
  <2>1. alone' \in [Actor -> BOOLEAN]
    BY DEF Witnessed
  <2>2. job' \in [Actor -> JobType]
    BY <1>2, <1>3, <1>4 DEF HistoryTypes
  <2>3. /\ manifest' \in {"none", "good", "damaged", "moved"} /\ listed' \in ListingType
        /\ manifest' # "good" => listed' = NoListing
    BY <1>2, NoListingIs DEF HistoryTypes
  <2> QED
    BY <1>2, <2>1, <2>2, <2>3 DEF HistoryTypes
<1>6. Changing(a)
  BY <1>1, <1>2 DEF Changing
<1>7. Fits(r)'
  BY <1>3 DEF Fits
<1>8. manifest # "none" => manifest' # "none"
  BY <1>2
<1>9. \A t \in promised : InFile(t) => InFile(t)'
  BY <1>2 DEF InFile
<1>10. ~mistaken' => ~mistaken /\ StoreOK' /\ Holds(r)'
  BY <1>2, <1>3 DEF StoreOK, Holds, Collects, Kept, InFile, Covers
<1> QED
  BY <1>2, <1>3, <1>4, <1>5, <1>6, <1>7, <1>8, <1>9, <1>10, JobStep

(* A rebuild will read every file, and all that was promised is in files. *)
LEMMA RebuildStep ==
    ASSUME HistoryInv, NEW a \in Actor, Rebuild(a), Witnessed PROVE HistoryInv'
<1>1. PICK j, r : j = job[a] /\ r = [j EXCEPT !.at = "rebuilding", !.todo = Files]
  OBVIOUS
<1>2. /\ HistoryTypes /\ j \in JobType /\ j.at = "rebuild"
      /\ (~mistaken => StoreOK /\ Holds(j))
      /\ UNCHANGED <<now, disk, noted, crashes, damages, promised, mistaken>>
      /\ faults' \in 0 .. MaxFaults /\ mistaken \in BOOLEAN
  BY <1>1, Jobs DEF Rebuild, At, bounds, history, HistoryTypes
<1>3. r \in JobType /\ r.at = "rebuilding" /\ r.todo = Files
  BY <1>1, <1>2 DEF JobType, Step, Files
<1>4. job' = [job EXCEPT ![a] = r]
  BY <1>1, <1>2 DEF Rebuild, HistoryTypes
<1>5. Fits(r)
  BY <1>3 DEF Fits
<1>6. ASSUME ~mistaken PROVE Holds(r)
  <2>1. Kept
    BY <1>2, <1>6 DEF Holds
  <2>2. \A t \in promised : PartOf(t) \in Files
    BY <1>2, <2>1, Months DEF HistoryTypes, Kept, InFile, Files
  <2> QED
    BY <1>3, <2>1, <2>2 DEF Holds
<1> QED
  BY <1>2, <1>3, <1>4, <1>5, <1>6, QuietStep

(* The manifest that an actor made of the partitions, or cleaned, is saved.*)
LEMMA ListSaved ==
    ASSUME HistoryInv, NEW a \in Actor, Witnessed, job[a].at \in {"rebuilding", "cleaned"},
           NEW r \in JobType, r.at = "read", job' = [job EXCEPT ![a] = r],
           NEW l \in ListingType, manifest' = "good", listed' = l,
           UNCHANGED <<now, file, damaged, legacy, noted, bounds, history>>,
           ~mistaken => Holds(r) /\ \A t \in promised : Covers(l, t)
    PROVE  HistoryInv'
<1>1. PICK j : j = job[a]
  OBVIOUS
<1>2. /\ HistoryTypes /\ j \in JobType /\ j.at \in {"rebuilding", "cleaned"}
      /\ (~mistaken => StoreOK /\ Holds(j))
      /\ UNCHANGED <<now, file, damaged, legacy, noted, crashes, faults, damages, promised, mistaken>>
  BY <1>1, Jobs DEF bounds, history
<1>3. HistoryTypes'
  <2>1. alone' \in [Actor -> BOOLEAN]
    BY DEF Witnessed
  <2>2. job' \in [Actor -> JobType] /\ listed' \in ListingType
    BY <1>2 DEF HistoryTypes
  <2> QED
    BY <1>2, <2>1, <2>2 DEF HistoryTypes
<1>4. Fits(r)'
  BY DEF Fits
<1>5. \A t \in promised : InFile(t) => InFile(t)'
  BY <1>2 DEF InFile
<1>6. ASSUME ~mistaken' PROVE ~mistaken /\ StoreOK' /\ Holds(r)'
  <2>1. ~mistaken /\ Kept /\ StoreOK /\ \A t \in promised : Covers(l, t)
    BY <1>2, <1>6 DEF Holds
  <2>2. Kept'
    BY <1>2, <2>1 DEF Kept, InFile
  <2>3. StoreOK'
    BY <1>1, <1>2, <2>1, <2>2 DEF StoreOK, Covers
  <2>4. Holds(r)'
    BY <1>2, <2>1, <2>2 DEF Holds, Covers
  <2> QED
    BY <2>1, <2>3, <2>4
<1>7. Changing(a)
  BY DEF Changing
<1> QED
  BY <1>2, <1>3, <1>4, <1>5, <1>6, <1>7, JobStep

(* A rebuilt manifest lists what its rebuild has read.                     *)
LEMMA SaveRebuiltStep ==
    ASSUME HistoryInv, NEW a \in Actor, SaveRebuilt(a), Witnessed PROVE HistoryInv'
<1>1. PICK j, l, r : /\ j = job[a] /\ l = Listing(j.have)
                     /\ r = [j EXCEPT !.at = "read", !.todo = Parts(j.have), !.have = {}]
  OBVIOUS
<1>2. /\ HistoryTypes /\ j \in JobType /\ j.at = "rebuilding" /\ j.todo = {}
      /\ (~mistaken => Holds(j))
  BY <1>1, Jobs DEF SaveRebuilt, At
<1>3. j.have \subseteq Time /\ Parts(j.have) \subseteq Part
  BY <1>2, Months DEF JobType, Parts
<1>4. r \in JobType /\ r.at = "read" /\ r.todo = Parts(j.have)
  BY <1>1, <1>2, <1>3 DEF JobType, Step
<1>5. job' = [job EXCEPT ![a] = r]
  BY <1>1, <1>2 DEF SaveRebuilt, HistoryTypes
<1>6. l \in ListingType /\ \A t \in j.have : Covers(l, t)
  BY <1>1, <1>3, ListingIs
<1>7. ASSUME ~mistaken PROVE Holds(r) /\ \A t \in promised : Covers(l, t)
  <2>1. Kept /\ promised \subseteq j.have
    BY <1>2, <1>7 DEF Holds, Collects
  <2> QED
    BY <1>4, <1>6, <2>1 DEF Holds, Collects, Parts
<1>8. listed' = l
  BY <1>1 DEF SaveRebuilt
<1> QED
  BY <1>1, <1>2, <1>4, <1>5, <1>6, <1>7, <1>8, ListSaved DEF SaveRebuilt

LEMMA SaveCleanedStep ==
    ASSUME HistoryInv, NEW a \in Actor, SaveCleaned(a), Witnessed PROVE HistoryInv'
<1>1. PICK j, l, r : j = job[a] /\ l = j.list /\ r = [j EXCEPT !.at = "read", !.list = NoListing]
  OBVIOUS
<1>2. HistoryTypes /\ j \in JobType /\ j.at = "cleaned" /\ (~mistaken => Holds(j))
  BY <1>1, Jobs DEF SaveCleaned, At
<1>3. /\ r \in JobType /\ r.at = "read" /\ r.todo = j.todo /\ r.have = j.have
      /\ r.stage = j.stage /\ l \in ListingType
  BY <1>1, <1>2, NoListingIs DEF JobType, Step
<1>4. job' = [job EXCEPT ![a] = r]
  BY <1>1, <1>2 DEF SaveCleaned, HistoryTypes
<1>5. ~mistaken => Holds(r) /\ \A t \in promised : Covers(l, t)
  BY <1>1, <1>2, <1>3 DEF Holds, Collects
<1>6. listed' = l
  BY <1>1 DEF SaveCleaned
<1> QED
  BY <1>1, <1>2, <1>3, <1>4, <1>5, <1>6, ListSaved DEF SaveCleaned

(* A partition that is read has what was promised of it; one that is       *)
(* damaged had nothing.                                                    *)
LEMMA ReadPartStep ==
    ASSUME HistoryInv, NEW a \in Actor, ReadPart(a), Witnessed PROVE HistoryInv'
<1>1. PICK j, p : j = job[a] /\ p = Min(j.todo)
  OBVIOUS
<1>2. /\ HistoryTypes /\ j \in JobType /\ j.at \in DOMAIN Aside /\ j.todo # {}
      /\ (~mistaken => StoreOK /\ Holds(j))
      /\ UNCHANGED <<now, disk, noted, crashes, damages, promised, mistaken>> /\ faults' = faults
      /\ faults \in 0 .. MaxFaults /\ mistaken \in BOOLEAN
  BY <1>1, Jobs DEF ReadPart, At, bounds, history, HistoryTypes
<1>3. p \in j.todo /\ p \in Part /\ j.todo \subseteq Part
  <2>1. j.todo \subseteq Part /\ j.todo \subseteq Nat
    BY <1>2, Months DEF JobType
  <2> QED
    BY <1>1, <1>2, <2>1, MinIs
<1>4. CASE p \in damaged
  <2>1. PICK r : r = [j EXCEPT !.at = Aside[j.at]]
    OBVIOUS
  <2>2. r \in JobType /\ r.todo = j.todo /\ r.have = j.have /\ r.stage = j.stage
        /\ \/ j.at = "read" /\ r.at = "quarantine"
           \/ j.at = "rebuilding" /\ r.at = "discard"
    BY <1>2, <2>1 DEF JobType, Step, Aside
  <2>3. job' = [job EXCEPT ![a] = r]
    BY <1>1, <1>2, <1>4, <2>1 DEF ReadPart, HistoryTypes, Goto
  <2>4. ASSUME ~mistaken PROVE Holds(r)
    <3>1. Kept /\ file[p] = {}
      BY <1>2, <1>4, <2>4 DEF Holds, HistoryTypes, Aside
    <3>2. \A t \in promised : PartOf(t) # p
      BY <3>1 DEF Kept, InFile
    <3> QED
      BY <1>1, <1>2, <2>2, <2>4, <3>1, <3>2 DEF Holds, Collects
  <2>5. Fits(r)
    BY <1>2, <2>2 DEF Fits
  <2> QED
    BY <1>2, <2>2, <2>3, <2>4, <2>5, QuietStep
<1>5. CASE p \notin damaged
  <2>1. PICK r : r = [j EXCEPT !.todo = j.todo \ {p}, !.have = j.have \cup file[p]]
    OBVIOUS
  <2>2. r \in JobType /\ r.at = j.at /\ r.todo = j.todo \ {p} /\ r.have = j.have \cup file[p]
        /\ r.stage = j.stage
    <3>1. j.todo \ {p} \in SUBSET Part /\ j.have \cup file[p] \in SUBSET Time
      BY <1>2, <1>3 DEF JobType, HistoryTypes
    <3> QED
      BY <1>2, <2>1, <3>1 DEF JobType
  <2>3. job' = [job EXCEPT ![a] = r]
    BY <1>1, <1>2, <1>5, <2>1 DEF ReadPart, HistoryTypes
  <2>4. ~mistaken => Holds(r)
    BY <1>2, <2>2 DEF Holds, Collects, Kept, InFile, Aside
  <2>5. Fits(r) /\ r.at # "write"
    BY <1>2, <2>2 DEF Fits, Aside
  <2> QED
    BY <1>2, <2>2, <2>3, <2>4, <2>5, QuietStep
<1> QED
  BY <1>4, <1>5

(* A file that is moved away had nothing that was promised.                *)
LEMMA QuarantinePartStep ==
    ASSUME HistoryInv, NEW a \in Actor, QuarantinePart(a), Witnessed PROVE HistoryInv'
<1>1. PICK j, p : j = job[a] /\ p = Min(j.todo)
  OBVIOUS
<1> PICK step \in DOMAIN Aside :
       /\ At(a, Aside[step])
       /\ job' = [job EXCEPT ![a].at = step, ![a].todo = @ \ {p}]
       /\ noted' = noted \cup {p}
       /\ \/ UNCHANGED <<file, damaged>>
          \/ file' = [file EXCEPT ![p] = {}] /\ damaged' = damaged \ {p}
       /\ UNCHANGED <<now, manifest, listed, legacy, bounds, history>>
  BY <1>1 DEF QuarantinePart
<1>2. PICK r : r = [j EXCEPT !.at = step, !.todo = j.todo \ {p}]
  OBVIOUS
<1>3. /\ HistoryTypes /\ j \in JobType /\ Fits(j)
      /\ \/ step = "read" /\ j.at = "quarantine"
         \/ step = "rebuilding" /\ j.at = "discard"
      /\ (~mistaken => StoreOK /\ Holds(j))
      /\ UNCHANGED <<now, manifest, listed, legacy, crashes, faults, damages, promised, mistaken>>
      /\ noted' = noted \cup {p}
      /\ \/ UNCHANGED <<file, damaged>>
         \/ file' = [file EXCEPT ![p] = {}] /\ damaged' = damaged \ {p}
  BY <1>1, Jobs DEF Aside, At, bounds, history
<1>4. p \in Part /\ j.todo \subseteq Part
  <2>1. j.todo \subseteq Part /\ j.todo \subseteq Nat /\ j.todo # {}
    BY <1>3, Months DEF JobType, Fits
  <2> QED
    BY <1>1, <2>1, MinIs
<1>5. r \in JobType /\ r.at = step /\ r.todo = j.todo \ {p} /\ r.have = j.have
      /\ r.stage = j.stage
  BY <1>2, <1>3, <1>4 DEF JobType, Step
<1>6. job' = [job EXCEPT ![a] = r]
  BY <1>1, <1>2, <1>3 DEF HistoryTypes
<1>7. HistoryTypes'
  <2>1. alone' \in [Actor -> BOOLEAN]
    BY DEF Witnessed
  <2>2. job' \in [Actor -> JobType]
    BY <1>3, <1>5, <1>6 DEF HistoryTypes
  <2>3. file' \in [Part -> SUBSET Time] /\ (\A q \in Part : file'[q] \subseteq file[q])
        /\ damaged' \subseteq Part /\ (\A q \in damaged' : file'[q] = {})
    BY <1>3, <1>4 DEF HistoryTypes
  <2> QED
    BY <1>3, <1>4, <2>1, <2>2, <2>3 DEF HistoryTypes
<1>8. Changing(a)
  BY <1>1, <1>3 DEF Changing
<1>9. Fits(r)'
  BY <1>3, <1>5 DEF Fits
<1>10. ASSUME ~mistaken' PROVE ~mistaken /\ StoreOK' /\ Holds(r)'
                               /\ \A t \in promised : InFile(t) => InFile(t)'
  <2>1. ~mistaken /\ Kept /\ StoreOK /\ \A t \in promised : PartOf(t) # p
    BY <1>1, <1>3, <1>10 DEF Holds
  <2>2. \A t \in promised : InFile(t) => InFile(t)'
    <3>1. \A t \in promised : PartOf(t) \in Part
      BY <1>3, Months DEF HistoryTypes
    <3> QED
      BY <1>3, <2>1, <3>1 DEF InFile, HistoryTypes
  <2>3. Kept'
    BY <1>3, <2>1, <2>2 DEF Kept
  <2>4. StoreOK'
    BY <1>3, <2>1, <2>3 DEF StoreOK, Covers
  <2>5. Holds(r)'
    BY <1>3, <1>5, <2>1, <2>3 DEF Holds, Collects
  <2> QED
    BY <2>1, <2>2, <2>4, <2>5
<1> QED
  BY <1>3, <1>5, <1>6, <1>7, <1>8, <1>9, <1>10, JobStep

(* The manifest without the partitions found unreadable: none of them has  *)
(* anything that was promised.                                             *)
LEMMA CleanupStep ==
    ASSUME HistoryInv, NEW a \in Actor, Cleanup(a), Witnessed PROVE HistoryInv'
<1>1. PICK j, l : j = job[a] /\ l = [p \in DOMAIN listed \ noted |-> listed[p]]
  OBVIOUS
<1>2. /\ HistoryTypes /\ j \in JobType /\ Fits(j) /\ j.at = "read" /\ noted # {}
      /\ (~mistaken => StoreOK /\ Holds(j))
      /\ UNCHANGED <<now, file, damaged, manifest, listed, legacy, crashes, faults, damages,
                     promised, mistaken>>
      /\ noted' = {}
  BY <1>1, Jobs DEF Cleanup, At, bounds, history, disk
<1>3. Changing(a)
  BY <1>2 DEF Changing, Cleanup
<1>4. \A t \in promised : InFile(t) => InFile(t)'
  BY <1>2 DEF InFile
<1>5. ~mistaken => StoreOK'
  BY <1>2 DEF StoreOK, Kept, InFile, Covers
<1>6. ASSUME NEW r \in JobType, job' = [job EXCEPT ![a] = r], r.at \in {"cleaned", "idle", "read", "fetch"},
             ~mistaken => Holds(r)
      PROVE  HistoryInv'
  <2>1. HistoryTypes'
    <3>1. alone' \in [Actor -> BOOLEAN]
      BY DEF Witnessed
    <3>2. job' \in [Actor -> JobType]
      BY <1>2, <1>6 DEF HistoryTypes
    <3> QED
      BY <1>2, <3>1, <3>2 DEF HistoryTypes
  <2>2. Fits(r)'
    BY <1>6 DEF Fits
  <2>3. ~mistaken => Holds(r)'
    BY <1>2, <1>6 DEF Holds, Collects, Kept, InFile, Covers
  <2> QED
    BY <1>2, <1>3, <1>4, <1>5, <1>6, <2>1, <2>2, <2>3, JobStep
<1>7. CASE manifest = "good"
  <2>1. PICK r : r = [j EXCEPT !.at = "cleaned", !.list = l]
    OBVIOUS
  <2>2. /\ l \in ListingType
        /\ \A t : Covers(listed, t) /\ PartOf(t) \notin noted => Covers(l, t)
    BY <1>1, <1>2, ListingWithout DEF HistoryTypes
  <2>3. r \in JobType /\ r.at = "cleaned" /\ r.todo = j.todo /\ r.have = j.have
        /\ r.stage = j.stage /\ r.list = l
    BY <1>2, <2>1, <2>2 DEF JobType, Step
  <2>4. job' = [job EXCEPT ![a] = r]
    BY <1>1, <1>2, <1>7, <2>1 DEF Cleanup, HistoryTypes
  <2>5. ASSUME ~mistaken PROVE Holds(r)
    <3>1. \A t \in promised : Covers(l, t)
      BY <1>2, <1>7, <2>2, <2>5 DEF StoreOK
    <3> QED
      BY <1>2, <2>3, <2>5, <3>1 DEF Holds, Collects
  <2> QED
    BY <1>6, <2>3, <2>4, <2>5
<1>8. CASE manifest = "damaged"
  <2>1. PICK r \in JobType : job' = [job EXCEPT ![a] = r] /\ r.at \in {"idle", "fetch"}
    BY <1>8, ThrowsIs DEF Cleanup
  <2> QED
    BY <1>6, <2>1, NothingHeld
<1>9. CASE manifest \notin {"good", "damaged"}
  <2>1. job' = job
    BY <1>9 DEF Cleanup
  <2>2. job' = [job EXCEPT ![a] = j]
    BY <1>1, <1>2, <2>1 DEF HistoryTypes
  <2> QED
    BY <1>2, <1>6, <2>2
<1> QED
  BY <1>7, <1>8, <1>9

-----------------------------------------------------------------------------
(* A save, step by step.                                                   *)

(* A partition that is written, or a file that is removed, by a save.      *)
LEMMA WriteStep ==
    ASSUME HistoryInv, NEW a \in Actor, Writing(a), Witnessed, NEW p \in Part, NEW S,
           S \subseteq Time, \A t \in S : PartOf(t) = p,
           \A t \in job[a].keep : PartOf(t) = p => t \in S,
           file' = [file EXCEPT ![p] = S], damaged' = damaged \ {p},
           NEW r \in JobType, job' = [job EXCEPT ![a] = r],
           r.at = job[a].at, r.keep = job[a].keep, r.stage = job[a].stage,
           r.seen \subseteq job[a].seen, r.todo \subseteq job[a].todo,
           \A q \in job[a].todo \ r.todo : q = p,
           UNCHANGED <<now, manifest, listed, legacy, noted, bounds, history>>
    PROVE  HistoryInv'
<1>1. PICK j : j = job[a]
  OBVIOUS
<1>2. /\ HistoryTypes /\ j \in JobType /\ Fits(j) /\ j.at \in {"write", "migrate"}
      /\ (~mistaken => StoreOK /\ Holds(j))
      /\ UNCHANGED <<now, manifest, listed, legacy, noted, crashes, faults, damages, promised, mistaken>>
  BY <1>1, Jobs DEF Writing, bounds, history
<1>3. HistoryTypes'
  <2>1. alone' \in [Actor -> BOOLEAN]
    BY DEF Witnessed
  <2>2. job' \in [Actor -> JobType]
    BY <1>2 DEF HistoryTypes
  <2>3. file' \in [Part -> SUBSET Time] /\ file'[p] = S /\ \A q \in Part \ {p} : file'[q] = file[q]
    BY <1>2 DEF HistoryTypes
  <2> QED
    BY <1>2, <2>1, <2>2, <2>3 DEF HistoryTypes
<1>4. Changing(a)
  BY <1>1, <1>2 DEF Changing
<1>5. \A t \in j.keep : InFile(t) => InFile(t)'
  <2>1. j.keep \subseteq Time /\ \A t \in j.keep : PartOf(t) \in Part
    BY <1>2, Months DEF JobType
  <2> QED
    BY <1>1, <1>2, <2>1 DEF InFile, HistoryTypes
<1>6. \A t \in j.keep : PartOf(t) \in j.todo => PartOf(t) \in r.todo \/ InFile(t)'
  <2>1. \A t \in j.keep : PartOf(t) \in Part
    BY <1>2, Months DEF JobType
  <2> QED
    BY <1>1, <1>2, <2>1 DEF InFile, HistoryTypes
<1>7. Fits(r)'
  BY <1>1, <1>2 DEF Fits
<1>8. alone[a] /\ r.at = "write" => noted' = {} /\ Saved(r, r.keep)'
  <2> SUFFICES ASSUME alone[a], j.at = "write" PROVE noted = {} /\ Saved(r, r.keep)'
    BY <1>1, <1>2
  <2>1. noted = {} /\ Saved(j, j.keep)
    BY <1>1 DEF HistoryInv, AloneOK, At
  <2> QED
    BY <1>1, <1>5, <1>6, <2>1 DEF Saved
<1>9. ASSUME ~mistaken' PROVE ~mistaken /\ StoreOK' /\ Holds(r)'
                              /\ \A t \in promised : InFile(t) => InFile(t)'
  <2>1. ~mistaken /\ StoreOK /\ Holds(j) /\ promised \subseteq j.keep /\ Saved(j, promised)
    BY <1>2, <1>9 DEF Holds
  <2>2. \A t \in promised : InFile(t) => InFile(t)'
    BY <1>5, <2>1
  <2>3. Kept => Kept'
    BY <1>2, <2>2 DEF Kept
  <2>4. StoreOK'
    BY <1>2, <2>1, <2>3 DEF StoreOK, Covers
  <2>5. Saved(r, promised)'
    BY <1>2, <1>6, <2>1, <2>2 DEF Saved
  <2>6. Holds(r)'
    BY <1>1, <1>2, <2>1, <2>3, <2>5 DEF Holds, Collects
  <2> QED
    BY <2>1, <2>2, <2>4, <2>6
<1> QED
  BY <1>1, <1>2, <1>3, <1>4, <1>7, <1>8, <1>9, JobStep

LEMMA RenamePartStep ==
    ASSUME HistoryInv, NEW a \in Actor, RenamePart(a), Witnessed PROVE HistoryInv'
<1>1. PICK j, p, S : j = job[a] /\ p = Min(j.todo) /\ S = Partition(j.keep, p)
  OBVIOUS
<1>2. PICK r : r = [j EXCEPT !.todo = j.todo \ {p}]
  OBVIOUS
<1>3. /\ HistoryTypes /\ j \in JobType /\ j.todo # {} /\ Writing(a)
      /\ file' = [file EXCEPT ![p] = S] /\ damaged' = damaged \ {p}
      /\ UNCHANGED <<now, manifest, listed, legacy, noted, bounds, history>>
  BY <1>1, Jobs DEF RenamePart
<1>4. p \in Part /\ j.todo \subseteq Part
  <2>1. j.todo \subseteq Part /\ j.todo \subseteq Nat
    BY <1>3, Months DEF JobType
  <2> QED
    BY <1>1, <1>3, <2>1, MinIs
<1>5. r \in JobType /\ r.at = j.at /\ r.todo = j.todo \ {p} /\ r.keep = j.keep /\ r.seen = j.seen
      /\ r.stage = j.stage
  BY <1>2, <1>3, <1>4 DEF JobType
<1>6. job' = [job EXCEPT ![a] = r]
  BY <1>1, <1>2, <1>3 DEF RenamePart, HistoryTypes
<1>7. S \subseteq Time /\ (\A t \in S : PartOf(t) = p) /\ \A t \in j.keep : PartOf(t) = p => t \in S
  BY <1>1, <1>3 DEF Partition, JobType
<1>8. /\ \A t \in job[a].keep : PartOf(t) = p => t \in S
      /\ r.at = job[a].at /\ r.keep = job[a].keep /\ r.stage = job[a].stage
      /\ r.seen \subseteq job[a].seen /\ r.todo \subseteq job[a].todo
      /\ \A q \in job[a].todo \ r.todo : q = p
  BY <1>1, <1>5, <1>7
<1> QED
  BY <1>3, <1>4, <1>5, <1>6, <1>7, <1>8, WriteStep

LEMMA RemoveStaleStep ==
    ASSUME HistoryInv, NEW a \in Actor, RemoveStale(a), Witnessed PROVE HistoryInv'
<1>1. PICK j : j = job[a]
  OBVIOUS
<1>2. PICK p \in j.seen :
         /\ file' = [file EXCEPT ![p] = {}] /\ damaged' = damaged \ {p}
         /\ job' = [job EXCEPT ![a].seen = @ \ {p}]
  BY <1>1 DEF RemoveStale
<1>3. PICK r : r = [j EXCEPT !.seen = j.seen \ {p}]
  OBVIOUS
<1>4. /\ HistoryTypes /\ j \in JobType /\ Fits(j) /\ Writing(a)
      /\ UNCHANGED <<now, manifest, listed, legacy, noted, bounds, history>>
  BY <1>1, Jobs DEF RemoveStale
<1>5. p \in Part
  BY <1>4 DEF JobType
<1>6. r \in JobType /\ r.at = j.at /\ r.todo = j.todo /\ r.keep = j.keep
      /\ r.seen = j.seen \ {p} /\ r.stage = j.stage
  BY <1>3, <1>4 DEF JobType
<1>7. job' = [job EXCEPT ![a] = r]
  BY <1>1, <1>2, <1>3, <1>4 DEF HistoryTypes
<1>8. \A t \in j.keep : PartOf(t) # p
  BY <1>1, <1>4 DEF Fits, Writing
<1>9. PICK S : S = {}
  OBVIOUS
<1>10. /\ S \subseteq Time /\ \A t \in S : PartOf(t) = p
       /\ \A t \in job[a].keep : PartOf(t) = p => t \in S
       /\ file' = [file EXCEPT ![p] = S] /\ damaged' = damaged \ {p}
  BY <1>1, <1>2, <1>8, <1>9
<1>11. /\ r.at = job[a].at /\ r.keep = job[a].keep /\ r.stage = job[a].stage
       /\ r.seen \subseteq job[a].seen /\ r.todo \subseteq job[a].todo
       /\ \A q \in job[a].todo \ r.todo : q = p
  BY <1>1, <1>6
<1> QED
  BY <1>4, <1>5, <1>6, <1>7, <1>10, <1>11, WriteStep

(* The manifest of a save lists all that was promised, and what the save   *)
(* wrote when it was alone; nobody else holds anything then.               *)
LEMMA SaveManifestStep ==
    ASSUME HistoryInv, NEW a \in Actor, SaveManifest(a), Witnessed PROVE HistoryInv'
<1>1. PICK j : j = job[a]
  OBVIOUS
<1>2. /\ HistoryTypes /\ j \in JobType /\ Fits(j) /\ j.at \in {"write", "migrate"}
      /\ j.todo = {} /\ j.seen = {}
      /\ (~mistaken => StoreOK /\ Holds(j))
      /\ manifest' = "good" /\ listed' = Listing(j.keep)
      /\ UNCHANGED <<now, file, damaged, legacy, noted, crashes, faults, damages, mistaken>>
  BY <1>1, Jobs DEF SaveManifest, Writing, bounds
<1>3. j.keep \subseteq Time /\ Listing(j.keep) \in ListingType
      /\ \A t \in j.keep : Covers(Listing(j.keep), t)
  BY <1>2, ListingIs DEF JobType
<1>4. PICK r : r = IF j.at = "write" THEN Idle ELSE [j EXCEPT !.at = "unlegacy"]
  OBVIOUS
<1>5. r \in JobType /\ r.at \in {"idle", "unlegacy"} /\ job' = [job EXCEPT ![a] = r]
      /\ (j.at = "write" => r.at = "idle")
  <2>1. CASE j.at = "write"
    BY <1>1, <1>4, <2>1, IdleIs DEF SaveManifest, At, Ends
  <2>2. CASE j.at # "write"
    <3>1. r = [j EXCEPT !.at = "unlegacy"]
      BY <1>4, <2>2
    <3>2. r \in JobType /\ r.at = "unlegacy"
      BY <1>2, <3>1 DEF JobType, Step
    <3>3. job' = [job EXCEPT ![a] = r]
      BY <1>1, <1>2, <2>2, <3>1 DEF SaveManifest, At, Goto, HistoryTypes
    <3> QED
      BY <2>2, <3>2, <3>3
  <2> QED
    BY <2>1, <2>2
<1>6. promised' \in {promised, promised \cup j.keep}
      /\ (promised' # promised => alone[a] /\ j.at = "write")
  BY <1>1 DEF SaveManifest, At
<1>7. HistoryTypes'
  <2>1. alone' \in [Actor -> BOOLEAN]
    BY DEF Witnessed
  <2>2. job' \in [Actor -> JobType]
    BY <1>2, <1>5 DEF HistoryTypes
  <2>3. promised' \subseteq Time
    BY <1>2, <1>3, <1>6 DEF HistoryTypes
  <2> QED
    BY <1>2, <1>3, <2>1, <2>2, <2>3 DEF HistoryTypes
<1>8. Fits(r)'
  BY <1>2, <1>5 DEF Fits
<1>9. \A t : InFile(t) => InFile(t)'
  BY <1>2 DEF InFile
<1>10. ASSUME ~mistaken' PROVE /\ ~mistaken /\ Kept' /\ StoreOK /\ Holds(j)
                               /\ \A t \in promised' : t \in j.keep
  <2>1. ~mistaken /\ StoreOK /\ Holds(j) /\ promised \subseteq j.keep /\ \A t \in promised : InFile(t)
    BY <1>2, <1>10 DEF Holds, Saved
  <2>2. promised' # promised => \A t \in j.keep : InFile(t)
    BY <1>1, <1>2, <1>6 DEF HistoryInv, AloneOK, At, Saved
  <2> QED
    BY <1>6, <1>9, <2>1, <2>2 DEF Kept
<1>11. promised' # promised => noted = {}
  BY <1>1, <1>2, <1>6 DEF HistoryInv, AloneOK, At
<1>12. ASSUME ~mistaken' PROVE StoreOK' /\ Holds(r)'
  <2>1. \A t \in promised' : Covers(listed, t)'
    BY <1>2, <1>3, <1>10, <1>12 DEF Covers
  <2>2. \A t \in promised' : PartOf(t) \notin noted'
    BY <1>2, <1>10, <1>11, <1>12 DEF StoreOK
  <2>3. StoreOK'
    BY <1>2, <1>10, <1>12, <2>1, <2>2 DEF StoreOK
  <2>4. Holds(r)'
    BY <1>5, <1>10, <1>12 DEF Holds, Collects
  <2> QED
    BY <2>3, <2>4
<1>13. CASE promised' = promised
  <2>1. Changing(a)
    BY <1>1, <1>2 DEF Changing
  <2> QED
    BY <1>2, <1>5, <1>7, <1>8, <1>9, <1>10, <1>12, <1>13, <2>1, JobStep
<1>14. CASE promised' # promised
  <2>1. j.at = "write" /\ alone[a] /\ job'[a] = r /\ r.at = "idle"
        /\ \A b \in Actor \ {a} : job'[b] = job[b] /\ ~Changing(b)
    BY <1>1, <1>2, <1>5, <1>6, <1>14 DEF HistoryInv, AloneOK, At, HistoryTypes
  <2>2. ASSUME NEW b \in Actor \ {a}
        PROVE  /\ job[b].at \in {"idle", "open", "read", "fetch"}
               /\ job[b].at = "read" => job[b].stage # "upsert"
    <3>1. job[b] \in JobType
      BY <1>2 DEF HistoryTypes
    <3> QED
      BY <2>1, <3>1 DEF Changing, JobType, Step
  <2>3. ASSUME NEW b \in Actor PROVE Fits(job[b])' /\ (~mistaken' => Holds(job[b])')
    <3>1. CASE b = a
      BY <1>5, <2>1, <3>1 DEF Fits, Holds, Collects
    <3>2. CASE b # a
      BY <1>10, <2>1, <2>2, <3>2 DEF Fits, Holds, Collects
    <3> QED
      BY <3>1, <3>2
  <2>4. AloneOK'
    <3> SUFFICES ASSUME NEW c \in Actor, alone'[c], job'[c].at # "idle"
                 PROVE  (\A b \in Actor \ {c} : ~Changing(b)') /\ job'[c].at # "write"
      BY DEF AloneOK, At
    <3>1. \A b \in Actor \ {c} : ~Changing(b)'
      BY DEF Witnessed
    <3> QED
      BY <2>1, <2>2, <3>1
  <2> QED
    BY <1>7, <1>12, <2>3, <2>4 DEF HistoryInv
<1> QED
  BY <1>13, <1>14

(* The old file goes when the manifest lists what it had.                  *)
LEMMA RemoveLegacyStep ==
    ASSUME HistoryInv, NEW a \in Actor, RemoveLegacy(a), Witnessed PROVE HistoryInv'
<1>1. PICK j, r : j = job[a] /\ r = [j EXCEPT !.at = "open", !.keep = {}]
  OBVIOUS
<1>2. /\ HistoryTypes /\ j \in JobType /\ Fits(j) /\ j.at = "unlegacy"
      /\ (~mistaken => StoreOK /\ Holds(j)) /\ legacy' = {}
      /\ UNCHANGED <<now, file, damaged, manifest, listed, noted, crashes, faults, damages,
                     promised, mistaken>>
  BY <1>1, Jobs DEF RemoveLegacy, At, bounds, history
<1>3. r \in JobType /\ r.at = "open"
  BY <1>1, <1>2 DEF JobType, Step
<1>4. job' = [job EXCEPT ![a] = r]
  BY <1>1, <1>2 DEF RemoveLegacy, HistoryTypes
<1>5. HistoryTypes'
  <2>1. alone' \in [Actor -> BOOLEAN]
    BY DEF Witnessed
  <2>2. job' \in [Actor -> JobType]
    BY <1>2, <1>3, <1>4 DEF HistoryTypes
  <2> QED
    BY <1>2, <2>1, <2>2 DEF HistoryTypes
<1>6. Fits(r)'
  BY <1>3 DEF Fits
<1>7. \A t \in promised : InFile(t) => InFile(t)'
  BY <1>2 DEF InFile
<1>8. ~mistaken' => ~mistaken /\ StoreOK' /\ Holds(r)'
  BY <1>2, <1>3 DEF StoreOK, Holds, Collects, Kept, InFile, Covers, Fits
<1> QED
  BY <1>2, <1>3, <1>4, <1>5, <1>6, <1>7, <1>8, JobStep

-----------------------------------------------------------------------------
(* The operations, step by step.                                           *)

(* A step after which an actor is idle, begins to read the series or asks  *)
(* the exchange.                                                           *)
LEMMA BeginsStep ==
    ASSUME HistoryInv, NEW a \in Actor, Witnessed, NEW r \in JobType, r.at \in {"idle", "open", "fetch"},
           job' = [job EXCEPT ![a] = r],
           UNCHANGED <<now, disk, noted, crashes, damages, history>>, faults' \in 0 .. MaxFaults
    PROVE  HistoryInv'
<1>1. Fits(r) /\ Holds(r)
  BY NothingHeld
<1>2. mistaken' = mistaken /\ promised' = promised /\ mistaken \in BOOLEAN
  BY DEF history, HistoryInv, HistoryTypes
<1> QED
  BY <1>1, <1>2, QuietStep

LEMMA LoadsStep ==
    ASSUME HistoryInv, NEW a \in Actor, Witnessed,
           NEW op \in {"scan", "repair"}, NEW stage \in {"look", "plan", "upsert"},
           NEW out, out \subseteq Time, Load(a, op, stage, out),
           UNCHANGED <<now, disk, noted, crashes, damages, history>>, faults' \in 0 .. MaxFaults
    PROVE  HistoryInv'
<1>1. PICK r \in JobType : job' = [job EXCEPT ![a] = r] /\ r.at = "open"
  BY LoadIs
<1> QED
  BY <1>1, BeginsStep

LEMMA EndsStep ==
    ASSUME HistoryInv, NEW a \in Actor, Witnessed, Ends(a),
           UNCHANGED <<now, disk, noted, crashes, damages, history>>, faults' \in 0 .. MaxFaults
    PROVE  HistoryInv'
BY IdleIs, BeginsStep DEF Ends

LEMMA FaultsAre == ASSUME HistoryInv PROVE faults \in 0 .. MaxFaults /\ now \in Time
BY DEF HistoryInv, HistoryTypes

LEMMA StartStep ==
    ASSUME HistoryInv, NEW a \in Actor, NEW op \in {"scan", "repair"}, Start(a, op), Witnessed
    PROVE  HistoryInv'
<1>1. Load(a, op, "look", {}) /\ UNCHANGED <<now, disk, noted, crashes, damages, history>>
      /\ faults' = faults
  BY DEF Start, bounds
<1> QED
  BY <1>1, FaultsAre, LoadsStep

LEMMA LookedStep == ASSUME HistoryInv, NEW a \in Actor, Looked(a), Witnessed PROVE HistoryInv'
<1>1. /\ At(a, "read") /\ UNCHANGED <<now, disk, noted, crashes, damages, history>>
      /\ faults' \in 0 .. MaxFaults
  BY FaultsAre DEF Looked, Loaded, bounds
<1>2. CASE Load(a, "repair", "plan", {})
  BY <1>1, <1>2, LoadsStep
<1>3. CASE Ends(a)
  BY <1>1, <1>3, EndsStep
<1>4. CASE Goto(a, "fetch")
  <2>1. PICK j, r : j = job[a] /\ r = [j EXCEPT !.at = "fetch"]
    OBVIOUS
  <2>2. /\ HistoryTypes /\ j \in JobType /\ j.at = "read" /\ (~mistaken => Holds(j))
        /\ mistaken \in BOOLEAN
    BY <1>1, <2>1, Jobs DEF At, HistoryTypes
  <2>3. r \in JobType /\ r.at = "fetch"
    BY <2>1, <2>2 DEF JobType, Step
  <2>4. job' = [job EXCEPT ![a] = r]
    BY <1>4, <2>1, <2>2 DEF Goto, HistoryTypes
  <2>5. Fits(r) /\ (~mistaken => Holds(r))
    BY <2>2, <2>3 DEF Fits, Holds, Collects
  <2>6. mistaken' = mistaken /\ promised' = promised
    BY <1>1 DEF history
  <2> QED
    BY <1>1, <2>2, <2>3, <2>4, <2>5, <2>6, QuietStep
<1> QED
  BY <1>2, <1>3, <1>4 DEF Looked

LEMMA NewestOf == ASSUME NEW n, NEW S PROVE Newest(n, S) \subseteq S
BY DEF Newest

LEMMA UptoNow == ASSUME HistoryInv PROVE 1 .. now \subseteq Time /\ now \in 1 .. now
<1>1. now \in 1 .. Last /\ Last \in Nat
  BY FaultsAre, HistoryAssumption DEF Time
<1> QED
  BY <1>1 DEF Time

LEMMA ScanFetchStep ==
    ASSUME HistoryInv, NEW a \in Actor, ScanFetch(a), Witnessed PROVE HistoryInv'
<1>1. PICK S : S = Newest(Target, 1 .. now)
  OBVIOUS
<1>2. S \subseteq Time
  BY <1>1, NewestOf, UptoNow
<1>3. /\ Load(a, "scan", "upsert", S) \/ Ends(a)
      /\ UNCHANGED <<now, disk, noted, crashes, damages, history>> /\ faults' \in 0 .. MaxFaults
  BY <1>1, FaultsAre DEF ScanFetch, bounds
<1> QED
  BY <1>2, <1>3, LoadsStep, EndsStep

(* What a backfill asks for are candles.                                   *)
LEMMA LatestIs == ASSUME HistoryInv PROVE Latest \subseteq Time /\ Latest # {}
<1>1. Latest \subseteq Time
  BY NewestOf, UptoNow DEF Latest
<1>2. {u \in 1 .. now : u > now} = {}
  BY FaultsAre, HistoryAssumption DEF Time
<1>3. Cardinality({}) = 0 /\ 0 < Target
  BY FS_EmptySet, HistoryAssumption
<1>4. now \in Latest
  <2>1. Cardinality({u \in 1 .. now : u > now}) < Target
    BY <1>2, <1>3
  <2> QED
    BY <2>1, UptoNow DEF Latest, Newest
<1> QED
  BY <1>1, <1>4

LEMMA BackfillCandles ==
    ASSUME HistoryInv, NEW S, S \subseteq Time, S # {}
    PROVE  /\ Older(S) \subseteq Time
           /\ GapFill(S) \subseteq Time
           /\ Newer(S) \subseteq Time
<1>1. S \subseteq Nat /\ Min(S) \in Time /\ Max(S) \in Time
  BY Months, MinIs, MaxIs
<1>2. Older(S) \subseteq Time
  <2>1. 1 .. (Min(S) - 1) \subseteq Time
    BY <1>1, HistoryAssumption DEF Time
  <2> QED
    BY <2>1, NewestOf DEF Older
<1>3. GapFill(S) \subseteq Time
  <2>1. Min(S) .. Max(S) \subseteq Time
    BY <1>1, HistoryAssumption DEF Time
  <2> QED
    BY <2>1 DEF GapFill, Holes
<1>4. Newer(S) \subseteq Time
  <2>1. PICK G : G = IF GapFill(S) = {} THEN S ELSE GapFill(S)
    OBVIOUS
  <2>2. G \subseteq Time /\ G # {}
    BY <1>3, <2>1
  <2>3. Max(G) \in Time /\ now \in Time
    BY <2>2, MaxIs, FaultsAre
  <2>4. (Max(G) + 1) .. now \subseteq Time
    BY <2>3, HistoryAssumption DEF Time
  <2> QED
    BY <2>1, <2>4 DEF Newer
<1> QED
  BY <1>2, <1>3, <1>4

LEMMA BackfillStep ==
    ASSUME HistoryInv, NEW a \in Actor, Backfill(a), Witnessed PROVE HistoryInv'
<1>1. PICK olderFails, newerFails \in BOOLEAN :
          LET S == IF job[a].have = {} THEN Latest ELSE job[a].have
              T == S \cup (IF olderFails THEN {} ELSE Older(S))
              U == T \cup GapFill(T) \cup (IF newerFails THEN {} ELSE Newer(T))
          IN  /\ olderFails \/ newerFails => faults < MaxFaults
              /\ faults' = IF olderFails \/ newerFails THEN faults + 1 ELSE faults
              /\ Load(a, "repair", "upsert", U)
  BY DEF Backfill
<1>2. PICK S : S = IF job[a].have = {} THEN Latest ELSE job[a].have
  OBVIOUS
<1>3. PICK T : T = S \cup (IF olderFails THEN {} ELSE Older(S))
  OBVIOUS
<1>4. PICK U : U = T \cup GapFill(T) \cup (IF newerFails THEN {} ELSE Newer(T))
  OBVIOUS
<1>5. S \subseteq Time /\ S # {}
  <2>1. job[a].have \subseteq Time
    BY Jobs DEF JobType
  <2> QED
    BY <1>2, <2>1, LatestIs
<1>6. T \subseteq Time /\ T # {}
  BY <1>3, <1>5, BackfillCandles
<1>7. U \subseteq Time
  BY <1>4, <1>6, BackfillCandles
<1>8. Load(a, "repair", "upsert", U)
  BY <1>1, <1>2, <1>3, <1>4
<1>9. faults' \in 0 .. MaxFaults
  <2>1. faults' = faults \/ (faults' = faults + 1 /\ faults < MaxFaults)
    BY <1>1
  <2> QED
    BY <2>1, FaultsAre, HistoryAssumption
<1>10. UNCHANGED <<now, disk, noted, crashes, damages, history>>
  BY DEF Backfill
<1> QED
  BY <1>7, <1>8, <1>9, <1>10, LoadsStep

(* What an upsert saves has all that was promised: it has read it.         *)
LEMMA UpsertStep == ASSUME HistoryInv, NEW a \in Actor, Upsert(a), Witnessed PROVE HistoryInv'
<1>1. PICK j, S : j = job[a] /\ S = j.have \cup j.out
  OBVIOUS
<1>2. PICK r : r = [j EXCEPT !.at = "write", !.keep = S, !.todo = Parts(S),
                             !.seen = Files \ Parts(S)]
  OBVIOUS
<1>3. /\ HistoryTypes /\ j \in JobType /\ j.at = "read" /\ j.todo = {} /\ noted = {}
      /\ j.stage = "upsert"
      /\ (~mistaken => StoreOK /\ Holds(j))
      /\ UNCHANGED <<now, disk, noted, crashes, damages, promised>> /\ mistaken' = mistaken
      /\ faults' \in 0 .. MaxFaults /\ mistaken \in BOOLEAN
      /\ Save(a, S, "write")
  BY <1>1, Jobs, FaultsAre DEF Upsert, Loaded, At, bounds, history, HistoryTypes
<1>4. S \subseteq Time /\ Parts(S) \subseteq Part /\ Files \subseteq Part
  <2>1. S \subseteq Time
    BY <1>1, <1>3 DEF JobType
  <2> QED
    BY <2>1, Months DEF Parts, Files
<1>5. r \in JobType /\ r.at = "write" /\ r.keep = S /\ r.todo = Parts(S)
      /\ r.seen = Files \ Parts(S)
  BY <1>2, <1>3, <1>4 DEF JobType, Step
<1>6. job' = [job EXCEPT ![a] = r]
  BY <1>1, <1>2, <1>3 DEF HistoryTypes, Save
<1>7. Fits(r) /\ \A T \in SUBSET S : Saved(r, T)
  BY <1>5 DEF Fits, Parts, Saved
<1>8. ~mistaken => Holds(r)
  <2>1. ~mistaken => Kept /\ promised \subseteq S
    BY <1>1, <1>3 DEF Holds, Collects
  <2> QED
    BY <1>5, <1>7, <2>1 DEF Holds, Collects
<1> QED
  BY <1>3, <1>5, <1>6, <1>7, <1>8, QuietStep

LEMMA GivesUpStep == ASSUME HistoryInv, NEW a \in Actor, GivesUp(a), Witnessed PROVE HistoryInv'
<1>1. /\ Throws(a) /\ UNCHANGED <<now, disk, noted, crashes, damages, history>>
      /\ faults < MaxFaults /\ faults' = faults + 1
  BY DEF GivesUp
<1>2. faults' \in 0 .. MaxFaults
  BY <1>1, FaultsAre, HistoryAssumption
<1>3. PICK r \in JobType : job' = [job EXCEPT ![a] = r] /\ r.at \in {"idle", "fetch"}
  BY <1>1, ThrowsIs
<1> QED
  BY <1>1, <1>2, <1>3, BeginsStep

-----------------------------------------------------------------------------
(* The world, and every step.                                              *)
LEMMA TickStep == ASSUME HistoryInv, Tick, Witnessed PROVE HistoryInv'
<1>1. /\ now < Last /\ now' = now + 1
      /\ UNCHANGED <<file, damaged, manifest, listed, legacy, noted, job, crashes, faults,
                     damages, promised, mistaken>>
  BY DEF Tick, disk, bounds, history
<1>2. now' \in Time
  BY <1>1, FaultsAre, HistoryAssumption DEF Time
<1>3. HistoryTypes'
  <2>1. alone' \in [Actor -> BOOLEAN]
    BY DEF Witnessed
  <2> QED
    BY <1>1, <1>2, <2>1 DEF HistoryInv, HistoryTypes
<1>4. AloneOK'
  <2> SUFFICES ASSUME NEW c \in Actor, alone'[c], job'[c].at # "idle"
               PROVE  /\ \A b \in Actor \ {c} : ~Changing(b)'
                      /\ job'[c].at = "write" => noted' = {} /\ Saved(job[c], job[c].keep)'
    BY DEF AloneOK, At, Saved
  <2>1. alone[c] /\ \A b \in Actor \ {c} : ~Changing(b)'
    BY DEF Witnessed
  <2> QED
    BY <1>1, <2>1 DEF HistoryInv, AloneOK, At, Saved, InFile
<1>5. ASSUME NEW b \in Actor PROVE Fits(job[b])' /\ (~mistaken' => Holds(job[b])')
  BY <1>1 DEF HistoryInv, Fits, Holds, Saved, Kept, InFile, Covers
<1>6. ~mistaken' => StoreOK'
  BY <1>1 DEF HistoryInv, StoreOK, Kept, InFile, Covers
<1> QED
  BY <1>3, <1>4, <1>5, <1>6 DEF HistoryInv

(* The candles of a file that is unreadable afterwards are no longer       *)
(* promised; those of the other files are.                                 *)
LEMMA HistoryCrashStep == ASSUME HistoryInv, Crash, Witnessed PROVE HistoryInv'
<1>1. /\ crashes < MaxCrashes /\ crashes' = crashes + 1
      /\ job' = [a \in Actor |-> Idle] /\ noted' = {}
      /\ UNCHANGED <<now, legacy, faults, mistaken>>
  BY DEF Crash
<1>2. HistoryTypes /\ crashes' \in 0 .. MaxCrashes
  BY <1>1, HistoryAssumption DEF HistoryInv, HistoryTypes
<1>3. job' \in [Actor -> JobType] /\ \A a \in Actor : job'[a] = Idle
  BY <1>1, IdleIs
<1>4. alone' \in [Actor -> BOOLEAN]
  BY DEF Witnessed
<1>5. AloneOK'
  BY <1>3, IdleIs DEF AloneOK, At
<1>6. \A a \in Actor : Fits(job[a])' /\ Holds(job[a])'
  BY <1>3, IdleIs DEF Fits, Holds, Collects
<1>7. /\ file' \in [Part -> SUBSET Time] /\ (\A p \in Part : \A t \in file'[p] : PartOf(t) = p)
      /\ damaged' \subseteq Part /\ (\A p \in damaged' : file'[p] = {})
      /\ manifest' \in {"none", "good", "damaged", "moved"}
      /\ listed' \in ListingType /\ (manifest' # "good" => listed' = NoListing)
      /\ damages' \in 0 .. MaxDamage /\ promised' \subseteq promised
      /\ \/ manifest' = manifest /\ listed' = listed
         \/ manifest = "good" /\ manifest' = "damaged"
      /\ \A t \in promised' : InFile(t) => InFile(t)'
  <2>1. CASE UNCHANGED <<file, damaged, manifest, listed, damages, promised>>
    BY <1>2, <2>1 DEF HistoryTypes, InFile
  <2>2. CASE /\ damages < MaxDamage /\ damages' = damages + 1
             /\ manifest = "good" /\ manifest' = "damaged" /\ listed' = NoListing
             /\ UNCHANGED <<file, damaged, promised>>
    BY <1>2, <2>2, NoListingIs, HistoryAssumption DEF HistoryTypes, InFile
  <2>3. CASE /\ damages < MaxDamage /\ damages' = damages + 1
             /\ \E p \in Part :
                   /\ file' = [file EXCEPT ![p] = {}] /\ damaged' = damaged \cup {p}
                   /\ promised' = promised \ file[p] /\ UNCHANGED <<manifest, listed>>
    <3> PICK p \in Part :
           /\ file' = [file EXCEPT ![p] = {}] /\ damaged' = damaged \cup {p}
           /\ promised' = promised \ file[p] /\ UNCHANGED <<manifest, listed>>
      BY <2>3
    <3>1. damages' \in 0 .. MaxDamage
      BY <1>2, <2>3, HistoryAssumption DEF HistoryTypes
    <3>2. file' \in [Part -> SUBSET Time] /\ file'[p] = {} /\ \A q \in Part \ {p} : file'[q] = file[q]
      BY <1>2, <2>3 DEF HistoryTypes
    <3>3. \A t \in promised' : InFile(t) => InFile(t)'
      <4>1. \A t \in promised' : PartOf(t) \in Part
        BY <1>2, Months DEF HistoryTypes
      <4> QED
        BY <3>2, <4>1 DEF InFile
    <3>4. /\ \A q \in Part : \A t \in file'[q] : PartOf(t) = q
          /\ damaged' \subseteq Part /\ \A q \in damaged' : file'[q] = {}
      BY <1>2, <3>2 DEF HistoryTypes
    <3> QED
      BY <1>2, <3>1, <3>2, <3>3, <3>4 DEF HistoryTypes
  <2> QED
    BY <2>1, <2>2, <2>3 DEF Crash
<1>8. HistoryTypes'
  BY <1>1, <1>2, <1>3, <1>4, <1>7 DEF HistoryTypes
<1>9. ~mistaken' => StoreOK'
  <2> SUFFICES ASSUME ~mistaken, StoreOK PROVE StoreOK'
    BY <1>1 DEF HistoryInv
  <2>1. manifest # "none" => Kept'
    BY <1>7 DEF StoreOK, Kept
  <2> QED
    BY <1>1, <1>7, <2>1 DEF StoreOK, Covers
<1> QED
  BY <1>5, <1>6, <1>8, <1>9 DEF HistoryInv

LEMMA HistoryInitInv == ASSUME HistoryInit PROVE HistoryInv
<1>1. job \in [Actor -> JobType] /\ \A a \in Actor : job[a] = Idle
  BY IdleIs DEF HistoryInit
<1>2. now \in Time /\ Legacy \subseteq Time
      /\ crashes \in 0 .. MaxCrashes /\ faults \in 0 .. MaxFaults /\ damages \in 0 .. MaxDamage
  BY HistoryAssumption DEF HistoryInit
<1>3. HistoryTypes
  BY <1>1, <1>2, NoListingIs DEF HistoryInit, HistoryTypes
<1>4. AloneOK /\ \A a \in Actor : Fits(job[a]) /\ Holds(job[a])
  BY <1>1, IdleIs DEF AloneOK, At, Fits, Holds, Collects
<1>5. StoreOK
  BY DEF HistoryInit, StoreOK
<1> QED
  BY <1>3, <1>4, <1>5 DEF HistoryInv

LEMMA ProceedStep == ASSUME HistoryInv, NEW a \in Actor, Proceed(a), Witnessed PROVE HistoryInv'
BY OpenManifestStep, MoveManifestStep, RebuildStep, SaveRebuiltStep, ReadPartStep,
   QuarantinePartStep, CleanupStep, SaveCleanedStep, RenamePartStep, RemoveStaleStep,
   SaveManifestStep, RemoveLegacyStep, LookedStep, ScanFetchStep, BackfillStep, UpsertStep
   DEF Proceed

LEMMA HistoryStutters == ASSUME HistoryInv, UNCHANGED historyVars PROVE HistoryInv'
<1>1. UNCHANGED <<now, file, damaged, manifest, listed, legacy, noted, job, crashes, faults,
                  damages, promised, alone, mistaken>>
  BY DEF historyVars, disk, bounds
<1>2. HistoryTypes' /\ (StoreOK => StoreOK')
  BY <1>1 DEF HistoryInv, HistoryTypes, StoreOK, Kept, InFile, Covers
<1>3. AloneOK'
  BY <1>1 DEF HistoryInv, AloneOK, At, Changing, Saved, InFile
<1>4. \A a \in Actor : Fits(job[a])' /\ (~mistaken => Holds(job[a])')
  BY <1>1 DEF HistoryInv, Fits, Holds, Saved, Kept, InFile, Covers
<1> QED
  BY <1>1, <1>2, <1>3, <1>4 DEF HistoryInv

(* The invariant holds in every state.                                     *)
LEMMA HistoryInvariant == HistorySpec => []HistoryInv
<1>1. HistoryInv /\ [HistoryNext]_historyVars => HistoryInv'
  BY ProceedStep, GivesUpStep, StartStep, TickStep, HistoryCrashStep, HistoryStutters
     DEF HistoryNext
<1> QED
  BY HistoryInitInv, <1>1, PTL DEF HistorySpec

(* Every variable of the market history has its type, however operations   *)
(* overlap, wherever the process dies and whatever is unreadable.          *)
THEOREM HistoryTypeCorrect == HistorySpec => []HistoryTypeOK
<1>1. HistoryInv => HistoryTypeOK
  <2> SUFFICES ASSUME HistoryInv PROVE HistoryTypeOK
    OBVIOUS
  <2>1. HistoryTypes
    BY DEF HistoryInv
  <2>2. \A p \in Part : Parts(file[p]) \subseteq {p}
    BY <2>1 DEF HistoryTypes, Parts
  <2>3. DOMAIN listed \subseteq Part /\ \A p \in DOMAIN listed : listed[p] \in [lo : Time, hi : Time]
    BY <2>1 DEF HistoryTypes, ListingType
  <2>4. DOMAIN job = Actor
        /\ \A a \in Actor : /\ job[a].at \in Step
                            /\ job[a].todo \cup job[a].seen \subseteq Part
                            /\ job[a].have \cup job[a].out \cup job[a].keep \subseteq Time
    BY <2>1 DEF HistoryTypes, JobType
  <2> QED
    BY <2>1, <2>2, <2>3, <2>4 DEF HistoryTypes, HistoryTypeOK
<1> QED
  BY <1>1, HistoryInvariant, PTL

(* What an undisturbed upsert reported is found by every later read:       *)
(* whatever operations overlap afterwards, wherever the process dies and   *)
(* whichever other file is unreadable, unless a load took what is left of  *)
(* a damaged manifest for a series without one.                            *)
THEOREM PromisesAreKept == HistorySpec => []PromisesKept
<1>1. HistoryInv => PromisesKept
  <2> SUFFICES ASSUME HistoryInv, ~mistaken, NEW t \in promised PROVE Finds(t)
    BY DEF PromisesKept
  <2>1. HistoryTypes /\ StoreOK
    BY DEF HistoryInv
  <2>2. PartOf(t) \in Part
    BY <2>1, Months DEF HistoryTypes
  <2>3. CASE manifest = "good"
    BY <2>1, <2>2, <2>3 DEF StoreOK, Kept, InFile, Covers, Finds, Stored
  <2>4. CASE manifest = "none"
    BY <2>1, <2>4 DEF StoreOK, Finds, Stored
  <2>5. CASE manifest \notin {"good", "none"}
    BY <2>1, <2>2, <2>5 DEF StoreOK, Kept, InFile, Finds, Stored
  <2> QED
    BY <2>3, <2>4, <2>5
<1> QED
  BY <1>1, HistoryInvariant, PTL
=============================================================================
