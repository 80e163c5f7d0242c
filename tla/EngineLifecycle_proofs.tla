----------------------- MODULE EngineLifecycle_proofs -----------------------
(***************************************************************************)
(* EngineLifecycle for any number of sessions, events and failures: one    *)
(* session goes on, no timer restarts one that came up, no loop sleeps     *)
(* through the page's return, and every step is one of a LiveSession.      *)
(***************************************************************************)
EXTENDS EngineLifecycle, FiniteSetTheorems, WellFoundedInduction, TLAPS

LEMMA NoneIsNoSession == None \notin Session /\ Session \subseteq Nat
  BY MaxSessionsAssumption DEF Session

-----------------------------------------------------------------------------
(* The sessions, as a call finds or leaves them.                           *)

SessionsOK(ss, cur) ==
  /\ ss \in [Session -> SessionState] /\ cur \in Session \cup {None}
  /\ \A s \in Session : ss[s].parked \subseteq ss[s].loops
  /\ \A s \in Session : ~ss[s].disposed <=> s = cur
  /\ cur # None => ss[cur].pc # "none"
  /\ \A s \in Session : ss[s].disposed => ss[s].parked = {}

\* An opening that someone waits for as a part of the chain.
opening(r) == r.byChain /\ r.pc \in {"prepare", "catchup", "warmup"}

\* OneOpeningPerChain without the counting.
Belongs(ss, g, c) ==
  /\ c.pc = "open" <=> \/ g.open /\ g.byChain
                       \/ \E s \in Session : opening(ss[s])
  /\ g.open /\ g.byChain => \A s \in Session : ~opening(ss[s])
  /\ \A s, t \in Session : opening(ss[s]) /\ opening(ss[t]) => s = t

LEMMA CountsOpenings ==
  OneOpeningPerChain <=> Belongs(session, gate, chain)
<1> DEFINE inGate == IF gate.open /\ gate.byChain THEN 1 ELSE 0
           n == Cardinality(chainOpenings)
<1>1. IsFiniteSet(Session)
  BY MaxSessionsAssumption, FS_Interval DEF Session
<1>2. IsFiniteSet(chainOpenings) /\ n \in Nat
  <2>1. chainOpenings \in SUBSET Session
    BY DEF chainOpenings
  <2> QED
    BY <1>1, <2>1, FS_Subset, FS_CardinalityType
<1>3. n = 0 <=> chainOpenings = {}
  BY <1>2, FS_EmptySet
<1>4. n = 1 <=> \E x : chainOpenings = {x}
  BY <1>2, FS_Singleton
<1>5. OneOpeningPerChain <=> (n + inGate = IF chain.pc = "open" THEN 1 ELSE 0)
  BY DEF OneOpeningPerChain
<1>6. \A s : s \in chainOpenings <=> s \in Session /\ opening(session[s])
  BY DEF chainOpenings, opening
<1> HIDE DEF n
<1>7. CASE gate.open /\ gate.byChain
  <2>1. OneOpeningPerChain <=> n = 0 /\ chain.pc = "open"
    BY <1>2, <1>5, <1>7
  <2> QED
    BY <1>3, <1>6, <1>7, <2>1 DEF Belongs
<1>8. CASE ~(gate.open /\ gate.byChain)
  <2>1. OneOpeningPerChain <=> IF chain.pc = "open" THEN n = 1 ELSE n = 0
    BY <1>2, <1>5, <1>8
  <2>2. (\E x : chainOpenings = {x}) <=>
          /\ \E s \in Session : opening(session[s])
          /\ \A s, t \in Session : opening(session[s]) /\ opening(session[t]) => s = t
    <3>1. ASSUME NEW x, chainOpenings = {x}
          PROVE  /\ \E s \in Session : opening(session[s])
                 /\ \A s, t \in Session : opening(session[s]) /\ opening(session[t]) => s = t
      <4>1. \A s : s \in Session /\ opening(session[s]) <=> s = x
        BY <1>6, <3>1
      <4> QED
        BY <4>1
    <3>2. ASSUME NEW x \in Session, opening(session[x]),
                 \A s, t \in Session : opening(session[s]) /\ opening(session[t]) => s = t
          PROVE  \E y : chainOpenings = {y}
      <4>1. chainOpenings = {x}
        BY <1>6, <3>2
      <4> QED
        BY <4>1
    <3> QED
      BY <3>1, <3>2
  <2> QED
    BY <1>3, <1>4, <1>6, <1>8, <2>1, <2>2 DEF Belongs
<1> QED
  BY <1>7, <1>8

-----------------------------------------------------------------------------
(* What is kept.                                                           *)

ReconnectsOK ==
  /\ chain \in Chain /\ queued \in ReconnectReason \cup {None} /\ cool \in BOOLEAN
  /\ queued # None => chain.pc # "idle"
  /\ chain.pc = "queued" => queued = None

OutsideOK ==
  /\ probing \in Session \cup {None}
  /\ attached \in BOOLEAN /\ setup \in BOOLEAN /\ hidden \in BOOLEAN
  /\ raisedOver \in BOOLEAN
  /\ events \in 0 .. MaxEvents /\ failures \in 0 .. MaxFailures

StatusOK ==
  /\ state \in State /\ kind \in Kind \cup {None}
  /\ auth \in BOOLEAN /\ degraded \in BOOLEAN
  /\ retryTimer \in BOOLEAN /\ transientTimer \in BOOLEAN
  /\ QuietWhenUp

\* The sessions, the engine's own and the gate, given the latch.
Links(ss, cur, g, down) ==
  /\ SessionsOK(ss, cur) /\ g \in Gate
  /\ g.open /\ ~g.superseded => cur = None /\ ~down
  /\ down => cur = None

LinksOK == Links(session, current, gate, degraded) /\ Belongs(session, gate, chain)

\* No loop waits for a page that shows.
Wakes(ss) == \A s \in Session : ss[s].parked # {} /\ attached => hidden

Kept == StatusOK /\ LinksOK /\ ReconnectsOK /\ OutsideOK /\ Wakes(session)

LEMMA KeptMeans ==
  Kept <=> EngineInv /\ QuietWhenUp /\ NoLostWakeup
<1>1. LinksOK => SoleSession /\ CurrentIsAlive
  BY DEF LinksOK, Links, SessionsOK, SoleSession, CurrentIsAlive
<1> QED
  BY <1>1, CountsOpenings
     DEF Kept, StatusOK, LinksOK, Links, SessionsOK, GateIsTold, DegradedStaysDown, ReconnectsOK, OutsideOK, Wakes,
         EngineInv, TypeOK, OneSession, CurrentIsAlive, QueuedAlone, NoLostWakeup

LEMMA InitIsKept == Init => Kept
<1> SUFFICES ASSUME Init PROVE Kept
  OBVIOUS
<1>1. StatusOK
  BY DEF Init, StatusOK, State, QuietWhenUp
<1>2. Links(session, current, gate, degraded)
  BY NoneIsNoSession
     DEF Init, Links, SessionsOK, SessionState, noSession, openedGate, Gate, Loop
<1>3. Belongs(session, gate, chain)
  BY DEF Init, Belongs, opening, noSession, openedGate, idle
<1>4. ReconnectsOK
  BY DEF Init, ReconnectsOK, Chain, idle
<1>5. OutsideOK
  <2>1. events \in 0 .. MaxEvents /\ failures \in 0 .. MaxFailures
    BY BoundsAssumption DEF Init
  <2> QED
    BY <2>1 DEF Init, OutsideOK
<1>6. Wakes(session)
  BY DEF Init, Wakes, noSession
<1> QED
  BY <1>1, <1>2, <1>3, <1>4, <1>5, <1>6 DEF Kept, LinksOK

-----------------------------------------------------------------------------
(* The calls. Each leaves no session alive but the engine's, opens none,   *)
(* wakes loops and puts none to sleep, and never shows "connected".        *)

Lesser(ss, cur, g) ==
  /\ current' \in {cur, None}
  /\ \A s \in Session : session'[s].parked \subseteq ss[s].parked
  /\ \A s \in Session : opening(session'[s]) <=> opening(ss[s])
  /\ current' # None => session'[current'].pc = ss[current'].pc
  /\ gate'.open = g.open /\ gate'.byChain = g.byChain

CallOK(ss, cur, g) ==
  /\ StatusOK' /\ Links(session', current', gate', degraded')
  /\ Lesser(ss, cur, g)
  /\ state' = "connected" => state = "connected"

LEMMA KeepKeeps ==
  ASSUME NEW ss, NEW cur, NEW g, NEW down,
         Links(ss, cur, g, down), Keep(ss, cur, g), degraded' = down
  PROVE  Links(session', current', gate', degraded') /\ Lesser(ss, cur, g)
  BY DEF Links, Lesser, Keep

LEMMA RecordsDisposed ==
  ASSUME NEW r \in SessionState, r.parked \subseteq r.loops
  PROVE  LET d == settledOrNot([r EXCEPT !.disposed = TRUE, !.parked = {}])
         IN  d \in SessionState /\ d.disposed /\ d.parked = {} /\ (opening(d) <=> opening(r))
  BY DEF SessionState, settledOrNot, noSession, opening

LEMMA DisposedKeeps ==
  ASSUME NEW ss, NEW cur, SessionsOK(ss, cur)
  PROVE  /\ SessionsOK(Disposed(ss, cur), None)
         /\ \A s \in Session : Disposed(ss, cur)[s].parked \subseteq ss[s].parked
         /\ \A s \in Session : opening(Disposed(ss, cur)[s]) <=> opening(ss[s])
<1>1. CASE cur = None
  BY <1>1 DEF SessionsOK, Disposed
<1>2. CASE cur # None
  <2> DEFINE d == settledOrNot([ss[cur] EXCEPT !.disposed = TRUE, !.parked = {}])
  <2>1. cur \in Session /\ ss \in [Session -> SessionState]
    BY <1>2 DEF SessionsOK
  <2>2. d \in SessionState /\ d.disposed /\ d.parked = {} /\ (opening(d) <=> opening(ss[cur]))
    BY <2>1, RecordsDisposed DEF SessionsOK
  <2>3. Disposed(ss, cur) = [ss EXCEPT ![cur] = d]
    BY <1>2 DEF Disposed
  <2> HIDE DEF d
  <2> QED
    BY <2>1, <2>2, <2>3, NoneIsNoSession DEF SessionsOK
<1> QED
  BY <1>1, <1>2

LEMMA TeardownKeeps ==
  ASSUME NEW ss, NEW cur, NEW g, NEW down,
         Links(ss, cur, g, down), Teardown(ss, cur, g)
  PROVE  Links(session', current', gate', degraded') /\ Lesser(ss, cur, g)
<1>1. gate' \in Gate /\ gate'.open = g.open /\ gate'.byChain = g.byChain
      /\ (gate'.open => gate'.superseded)
  BY DEF Links, Teardown, Gate
<1>2. session' = Disposed(ss, cur) /\ current' = None
  BY DEF Teardown
<1> QED
  BY <1>1, <1>2, DisposedKeeps DEF Links, Lesser

LEMMA EnterErrorOK ==
  ASSUME NEW k \in Kind, NEW ss, NEW cur, NEW g,
         StatusOK, Links(ss, cur, g, degraded), EnterError(k, ss, cur, g)
  PROVE  CallOK(ss, cur, g)
<1>1. StatusOK' /\ state' # "connected"
  BY DEF StatusOK, QuietWhenUp, State, EnterError
<1>2. degraded' = degraded /\ (Teardown(ss, cur, g) \/ Keep(ss, cur, g))
  BY DEF EnterError
<1> QED
  BY <1>1, <1>2, KeepKeeps, TeardownKeeps DEF CallOK

LEMMA HandleTransientErrorOK ==
  ASSUME NEW k \in Kind, NEW ss, NEW cur, NEW g,
         StatusOK, Links(ss, cur, g, degraded), HandleTransientError(k, ss, cur, g)
  PROVE  CallOK(ss, cur, g)
<1>1. CASE k \in Halting
  BY <1>1, EnterErrorOK DEF HandleTransientError
<1>2. CASE k \notin Halting
  <2>1. StatusOK' /\ state' # "connected"
    BY <1>2 DEF StatusOK, QuietWhenUp, State, HandleTransientError, SetState, latches
  <2>2. degraded' = degraded /\ Keep(ss, cur, g)
    BY <1>2 DEF HandleTransientError, latches
  <2> QED
    BY <2>1, <2>2, KeepKeeps DEF CallOK
<1> QED
  BY <1>1, <1>2

LEMMA HandleDegradedOK ==
  ASSUME NEW ss, NEW cur, NEW g,
         StatusOK, Links(ss, cur, g, degraded), HandleDegraded(ss, cur, g)
  PROVE  CallOK(ss, cur, g)
<1>1. CASE degraded
  <2>1. StatusOK' /\ (state' = "connected" => state = "connected")
    BY <1>1 DEF StatusOK, QuietWhenUp, HandleDegraded, status, latches, timers
  <2>2. degraded' = degraded /\ Keep(ss, cur, g)
    BY <1>1 DEF HandleDegraded, latches
  <2> QED
    BY <2>1, <2>2, KeepKeeps DEF CallOK
<1>2. CASE ~degraded
  <2>1. StatusOK' /\ state' # "connected"
    BY <1>2 DEF StatusOK, QuietWhenUp, State, Kind, HandleDegraded
  <2>2. Teardown(ss, cur, g)
    BY <1>2 DEF HandleDegraded
  <2> QED
    BY <2>1, <2>2, TeardownKeeps DEF CallOK
<1> QED
  BY <1>1, <1>2

LEMMA LocalDbHaltsOK ==
  ASSUME NEW f, NEW ss, NEW cur, NEW g,
         StatusOK, Links(ss, cur, g, degraded), LocalDbHalts(f, ss, cur, g)
  PROVE  CallOK(ss, cur, g)
<1>1. CASE HandleDegraded(ss, cur, g)
  BY <1>1, HandleDegradedOK
<1>2. CASE ~HandleDegraded(ss, cur, g)
  <2>1. /\ Keep(ss, cur, g) \/ Teardown(ss, cur, g)
        /\ UNCHANGED <<status, latches, timers>>
    BY <1>2 DEF LocalDbHalts
  <2>2. StatusOK' /\ (state' = "connected" => state = "connected") /\ degraded' = degraded
    BY <2>1 DEF StatusOK, QuietWhenUp, status, latches, timers
  <2> QED
    BY <2>1, <2>2, KeepKeeps, TeardownKeeps DEF CallOK
<1> QED
  BY <1>1, <1>2

LEMMA FailsOK ==
  ASSUME NEW k, NEW ss, NEW cur, NEW g,
         StatusOK, Links(ss, cur, g, degraded), Fails(k, ss, cur, g)
  PROVE  CallOK(ss, cur, g)
  BY EnterErrorOK, HandleDegradedOK DEF Fails

-----------------------------------------------------------------------------
(* The requests for a reconnect. None makes the chain wait for an opening, *)
(* or ends its wait for one.                                               *)

\* What a request leaves alone, or only makes quieter.
Quieter == /\ UNCHANGED latches /\ transientTimer' = transientTimer
           /\ retryTimer' \in {retryTimer, FALSE}

RequestOK(ss) ==
  /\ CallOK(ss, current, gate) /\ ReconnectsOK'
  /\ chain'.pc = "open" <=> chain.pc = "open"

LEMMA QuietStatus ==
  ASSUME StatusOK, Quieter, SetState("reconnecting") \/ UNCHANGED status
  PROVE  StatusOK' /\ (state' = "connected" => state = "connected") /\ degraded' = degraded
<1>1. /\ auth' = auth /\ degraded' = degraded /\ transientTimer' = transientTimer
      /\ retryTimer' = retryTimer \/ retryTimer' = FALSE
  BY DEF Quieter, latches
<1>2. CASE SetState("reconnecting")
  BY <1>1, <1>2 DEF StatusOK, QuietWhenUp, SetState, State
<1>3. CASE UNCHANGED status
  <2>1. state' = state /\ kind' = kind
    BY <1>3 DEF status
  <2>2. CASE retryTimer' = retryTimer
    BY <1>1, <2>1, <2>2 DEF StatusOK, QuietWhenUp
  <2>3. CASE retryTimer' = FALSE
    BY <1>1, <2>1, <2>3 DEF StatusOK, QuietWhenUp
  <2> QED
    BY <1>1, <2>1, <2>2, <2>3
<1> QED
  BY <1>1, <1>2, <1>3

LEMMA RestartOK ==
  ASSUME NEW r \in ReconnectReason \cup {None}, NEW ss,
         Links(ss, current, gate, degraded), ReconnectsOK, Restart(r, ss), UNCHANGED queued
  PROVE  /\ Links(session', current', gate', degraded') /\ Lesser(ss, current, gate)
         /\ chain'.pc = "teardown" /\ ReconnectsOK'
<1>1. Links(session', current', gate', degraded') /\ Lesser(ss, current, gate)
  BY TeardownKeeps DEF Restart
<1>2. chain' = [pc |-> "teardown", reason |-> r, waits |-> current] /\ cool' = TRUE
  BY DEF Restart
<1>3. current \in Session \cup {None}
  BY DEF Links, SessionsOK
<1> QED
  BY <1>1, <1>2, <1>3 DEF ReconnectsOK, Chain

LEMMA BeginOK ==
  ASSUME NEW r \in ReconnectReason \cup {None}, NEW ss, StatusOK, ReconnectsOK,
         Links(ss, current, gate, degraded), chain.pc \in {"idle", "queued"},
         Begin(r, ss), Quieter, UNCHANGED queued
  PROVE  RequestOK(ss)
<1>1. queued = None /\ queued' = None
  BY DEF ReconnectsOK
<1>2. SetState("reconnecting") \/ UNCHANGED status
  BY DEF Begin
<1>3. StatusOK' /\ (state' = "connected" => state = "connected") /\ degraded' = degraded
  BY <1>2, QuietStatus
<1>4. CASE Restart(r, ss)
  BY <1>3, <1>4, RestartOK DEF RequestOK, CallOK
<1>5. CASE ~Restart(r, ss)
  <2>1. /\ Keep(ss, current, gate) /\ cool' = cool
        /\ chain' \in {idle, [pc |-> "verify", reason |-> r, waits |-> None]}
    BY <1>5 DEF Begin
  <2>2. Links(session', current', gate', degraded') /\ Lesser(ss, current, gate)
    BY <1>3, <2>1, KeepKeeps
  <2>3. ReconnectsOK' /\ chain'.pc # "open"
    BY <1>1, <2>1 DEF ReconnectsOK, Chain, idle
  <2> QED
    BY <1>3, <2>2, <2>3 DEF RequestOK, CallOK
<1> QED
  BY <1>4, <1>5

LEMMA RequestIsOK ==
  ASSUME NEW r \in ReconnectReason, NEW ss, StatusOK, ReconnectsOK,
         Links(ss, current, gate, degraded), chain.pc # "queued",
         Request(r, ss), Quieter
  PROVE  RequestOK(ss)
<1>1. CASE chain.pc = "idle"
  BY <1>1, BeginOK DEF Request
<1>2. CASE chain.pc # "idle"
  <2>1. Queue(r) /\ Keep(ss, current, gate) /\ UNCHANGED <<status, chain, cool>>
    BY <1>2 DEF Request
  <2>2. StatusOK' /\ (state' = "connected" => state = "connected") /\ degraded' = degraded
    BY <2>1, QuietStatus
  <2>3. queued' \in {r, queued}
    BY <2>1 DEF Queue
  <2>4. ReconnectsOK'
    BY <1>2, <2>1, <2>3 DEF ReconnectsOK
  <2> QED
    BY <2>1, <2>2, <2>4, KeepKeeps DEF RequestOK, CallOK
<1> QED
  BY <1>1, <1>2

-----------------------------------------------------------------------------
(* What a whole step is made of.                                           *)

LiveStep == [Live!Next]_(Live!vars)

StepOK == Kept' /\ LiveStep

Ticks == (Event \/ UNCHANGED events) /\ (Failure \/ UNCHANGED failures)

\* No loop that waits for the page to show does so for less.
Around ==
  /\ probing' \in {probing, current, None} /\ attached' \in BOOLEAN
  /\ setup' \in BOOLEAN /\ hidden' \in BOOLEAN /\ raisedOver' \in BOOLEAN
  /\ attached' => attached /\ (hidden => hidden')
  /\ Ticks

\* A call is made with the sessions as they are, some of them gone.
CalledWith(ss, cur) ==
  /\ cur \in {current, None}
  /\ cur # None => ss[cur].pc = session[cur].pc
  /\ \A s \in Session : ss[s].parked \subseteq session[s].parked

LEMMA TicksAreBounded ==
  ASSUME OutsideOK, Ticks
  PROVE  events' \in 0 .. MaxEvents /\ failures' \in 0 .. MaxFailures
  BY BoundsAssumption DEF OutsideOK, Ticks, Event, Failure

LEMMA AroundOK ==
  ASSUME Kept, Around
  PROVE  OutsideOK'
<1>1. events' \in 0 .. MaxEvents /\ failures' \in 0 .. MaxFailures
  BY TicksAreBounded DEF Kept, Around
<1>2. probing' \in Session \cup {None}
  BY DEF Kept, OutsideOK, LinksOK, Links, SessionsOK, Around
<1> QED
  BY <1>1, <1>2 DEF OutsideOK, Around

LEMMA CalmIsLive ==
  ASSUME current' \in {current, None},
         current' # None => session'[current'].pc = session[current'].pc,
         state' = "connected" => state = "connected"
  PROVE  LiveStep
<1>1. CASE current' = None
  BY <1>1 DEF LiveStep, Live!Next, Live!vars, Live!Fault, Live!Close, caughtUp
<1>2. CASE current' = current /\ current' # None
  <2>1. caughtUp' = caughtUp
    BY <1>2 DEF caughtUp
  <2> QED
    BY <1>2, <2>1 DEF LiveStep, Live!Next, Live!vars, Live!Fault
<1> QED
  BY <1>1, <1>2

LEMMA CallSteps ==
  ASSUME Kept, NEW ss, NEW cur, NEW g, CallOK(ss, cur, g), CalledWith(ss, cur),
         Belongs(session', gate', chain'), ReconnectsOK', Around
  PROVE  StepOK
<1>1. LiveStep
  <2>1. current' \in {current, None} /\ (state' = "connected" => state = "connected")
    BY DEF CallOK, Lesser, CalledWith
  <2>2. current' # None => session'[current'].pc = session[current'].pc
    BY DEF CallOK, Lesser, CalledWith
  <2> QED
    BY <2>1, <2>2, CalmIsLive
<1>2. OutsideOK'
  BY AroundOK
<1>3. Wakes(session)'
  BY DEF Kept, Wakes, CallOK, Lesser, CalledWith, Around
<1> QED
  BY <1>1, <1>2, <1>3 DEF StepOK, Kept, LinksOK, CallOK

LEMMA StillBelongs ==
  ASSUME Belongs(session, gate, chain),
         \A s \in Session : opening(session'[s]) <=> opening(session[s]),
         gate'.open = gate.open, gate'.byChain = gate.byChain,
         chain'.pc = "open" <=> chain.pc = "open"
  PROVE  Belongs(session', gate', chain')
  BY DEF Belongs

LEMMA EndChainOK ==
  ASSUME ReconnectsOK, EndChain
  PROVE  ReconnectsOK' /\ chain'.pc # "open"
<1>1. chain' = idle \/ (queued # None /\ chain' = [pc |-> "queued", reason |-> queued, waits |-> None])
  BY DEF EndChain
<1>2. queued' = None /\ cool' = cool
  BY DEF EndChain
<1> QED
  BY <1>1, <1>2 DEF ReconnectsOK, Chain, idle

\* An opening that returns leaves its chain none to wait for.
LEMMA OpeningReturns ==
  ASSUME NEW s \in Session, Belongs(session, gate, chain), ReconnectsOK,
         session[s].pc \in {"prepare", "catchup", "warmup"},
         \A t \in Session \ {s} : opening(session'[t]) <=> opening(session[t]),
         ~opening(session'[s]),
         gate'.open = gate.open, gate'.byChain = gate.byChain,
         Returns(session[s].byChain)
  PROVE  Belongs(session', gate', chain') /\ ReconnectsOK'
<1>1. CASE session[s].byChain
  <2>1. opening(session[s])
    BY <1>1 DEF opening
  <2>2. \A t \in Session : ~opening(session'[t])
    BY <2>1 DEF Belongs
  <2>3. ~(gate.open /\ gate.byChain)
    BY <2>1 DEF Belongs
  <2>4. ReconnectsOK' /\ chain'.pc # "open"
    BY <1>1, EndChainOK DEF Returns
  <2> QED
    BY <2>2, <2>3, <2>4 DEF Belongs
<1>2. CASE ~session[s].byChain
  <2>1. chain' = chain /\ queued' = queued /\ cool' = cool
    BY <1>2 DEF Returns, reconnects
  <2>2. ~opening(session[s])
    BY <1>2 DEF opening
  <2>3. \A t \in Session : opening(session'[t]) <=> opening(session[t])
    BY <2>2
  <2> QED
    BY <2>1, <2>3, StillBelongs DEF ReconnectsOK
<1> QED
  BY <1>1, <1>2

\* A step that is one call made with the engine as it is, or one request.
LEMMA OneCall ==
  ASSUME Kept, CallOK(session, current, gate), UNCHANGED reconnects, Around
  PROVE  StepOK
<1>1. ReconnectsOK' /\ chain' = chain
  BY DEF Kept, ReconnectsOK, reconnects
<1>2. Belongs(session', gate', chain')
  BY <1>1, StillBelongs DEF Kept, LinksOK, CallOK, Lesser
<1>3. CalledWith(session, current)
  BY DEF CalledWith
<1> QED
  BY <1>1, <1>2, <1>3, CallSteps

LEMMA OneRequest ==
  ASSUME Kept, NEW r \in ReconnectReason, chain.pc # "queued",
         Request(r, session), Quieter, Around
  PROVE  StepOK
<1>1. RequestOK(session)
  BY RequestIsOK DEF Kept, LinksOK
<1>2. Belongs(session', gate', chain')
  BY <1>1, StillBelongs DEF Kept, LinksOK, RequestOK, CallOK, Lesser
<1>3. CalledWith(session, current)
  BY DEF CalledWith
<1> QED
  BY <1>1, <1>2, <1>3, CallSteps DEF RequestOK

LEMMA LinksAlone ==
  ASSUME Kept, UNCHANGED links, degraded' = degraded, StatusOK',
         state' = "connected" => state = "connected"
  PROVE  CallOK(session, current, gate)
<1>1. Keep(session, current, gate)
  BY DEF links, Keep
<1>2. Links(session, current, gate, degraded)
  BY DEF Kept, LinksOK
<1> QED
  BY <1>1, <1>2, KeepKeeps DEF CallOK

LEMMA StatusAlone ==
  ASSUME StatusOK, UNCHANGED <<status, latches, timers>>
  PROVE  StatusOK' /\ state' = state /\ degraded' = degraded
  BY DEF StatusOK, QuietWhenUp, status, latches, timers

LEMMA EngineAlone ==
  ASSUME Kept, UNCHANGED engine
  PROVE  CallOK(session, current, gate)
<1>1. UNCHANGED links /\ UNCHANGED <<status, latches, timers>>
  BY DEF engine
<1> QED
  BY <1>1, StatusAlone, LinksAlone DEF Kept

LEMMA OutsideAlone ==
  ASSUME OutsideOK, UNCHANGED <<probing, outside>>, Ticks
  PROVE  Around
  BY DEF OutsideOK, outside, Around

LEMMA PausedAlone ==
  ASSUME OutsideOK, NEW k, Paused(k), UNCHANGED <<probing, attached, hidden, raisedOver>>, Ticks
  PROVE  Around
  BY DEF OutsideOK, Paused, Around

-----------------------------------------------------------------------------
(* The steps: reconnects.                                                  *)

LEMMA QueuedFiresOK == ASSUME Kept, QueuedFires PROVE StepOK
<1>1. chain.reason \in ReconnectReason \cup {None} /\ chain.pc = "queued"
  BY DEF QueuedFires, Kept, ReconnectsOK, Chain
<1>2. Quieter /\ UNCHANGED queued
  BY DEF QueuedFires, Quieter, latches, timers
<1>3. RequestOK(session)
  BY <1>1, <1>2, BeginOK DEF QueuedFires, Kept, LinksOK
<1>4. Belongs(session', gate', chain')
  BY <1>3, StillBelongs DEF Kept, LinksOK, RequestOK, CallOK, Lesser
<1>5. Around
  BY OutsideAlone DEF QueuedFires, Kept, bounds, Ticks
<1>6. CalledWith(session, current)
  BY DEF CalledWith
<1> QED
  BY <1>3, <1>4, <1>5, <1>6, CallSteps DEF RequestOK

LEMMA ChainOpensOK == ASSUME Kept, ChainOpens PROVE StepOK
<1>1. \A s \in Session : ~opening(session[s])
  BY DEF ChainOpens, Kept, LinksOK, Belongs
<1>2. ~(gate.open /\ gate.byChain)
  BY DEF ChainOpens, Kept, LinksOK, Belongs
<1>3. /\ UNCHANGED <<status, latches, timers>> /\ session' = session /\ current' = current
  BY DEF ChainOpens
<1>4. StatusOK' /\ state' = state /\ degraded' = degraded
  BY <1>3, StatusAlone DEF Kept
<1>5. Around
  BY OutsideAlone DEF ChainOpens, Kept, bounds, Ticks
<1>6. OutsideOK' /\ LiveStep /\ Wakes(session)'
  <2>1. OutsideOK'
    BY <1>5, AroundOK
  <2>2. LiveStep
    BY <1>3, <1>4, CalmIsLive
  <2>3. Wakes(session)'
    BY <1>3, <1>5 DEF Kept, Wakes, Around
  <2> QED
    BY <2>1, <2>2, <2>3
<1>7. CASE refusesToOpen /\ EndChain /\ UNCHANGED gate
  <2>1. ReconnectsOK' /\ chain'.pc # "open"
    BY <1>7, EndChainOK DEF Kept
  <2>2. Belongs(session', gate', chain')
    BY <1>1, <1>2, <1>3, <1>7, <2>1 DEF Belongs
  <2>3. Links(session', current', gate', degraded')
    BY <1>3, <1>4, <1>7 DEF Kept, LinksOK
  <2> QED
    BY <1>4, <1>6, <2>1, <2>2, <2>3 DEF StepOK, Kept, LinksOK
<1>8. CASE /\ ~refusesToOpen
           /\ gate' = openedGate(TRUE)
           /\ chain' = [chain EXCEPT !.pc = "open", !.waits = None]
           /\ UNCHANGED <<queued, cool>>
  <2>1. ReconnectsOK' /\ chain'.pc = "open"
    BY <1>8 DEF Kept, ReconnectsOK, Chain
  <2>2. Belongs(session', gate', chain')
    BY <1>1, <1>3, <1>8, <2>1 DEF Belongs, openedGate
  <2>3. Links(session', current', gate', degraded')
    BY <1>3, <1>4, <1>8 DEF Kept, LinksOK, Links, refusesToOpen, openedGate, Gate
  <2> QED
    BY <1>4, <1>6, <2>1, <2>2, <2>3 DEF StepOK, Kept, LinksOK
<1> QED
  BY <1>7, <1>8 DEF ChainOpens

LEMMA VerifyOkOK == ASSUME Kept, VerifyOk PROVE StepOK
<1>1. chain.reason \in ReconnectReason \cup {None} /\ chain.pc = "verify"
  BY DEF VerifyOk, Kept, ReconnectsOK, Chain
<1>2. /\ Links(session', current', gate', degraded') /\ Lesser(session, current, gate)
      /\ chain'.pc = "teardown" /\ ReconnectsOK'
  BY <1>1, RestartOK DEF VerifyOk, Kept, LinksOK
<1>3. StatusOK' /\ state' = state
  BY StatusAlone DEF VerifyOk, Kept
<1>4. CallOK(session, current, gate)
  BY <1>2, <1>3 DEF CallOK
<1>5. Belongs(session', gate', chain')
  BY <1>1, <1>2, StillBelongs DEF Kept, LinksOK, Lesser
<1>6. Around
  BY OutsideAlone DEF VerifyOk, Kept, bounds, Ticks
<1>7. CalledWith(session, current)
  BY DEF CalledWith
<1> QED
  BY <1>2, <1>4, <1>5, <1>6, <1>7, CallSteps

\* A chain that ends before it opened anything.
LEMMA OneCallEndsChain ==
  ASSUME Kept, chain.pc = "verify", CallOK(session, current, gate), EndChain, Around
  PROVE  StepOK
<1>1. ReconnectsOK' /\ chain'.pc # "open"
  BY EndChainOK DEF Kept
<1>2. Belongs(session', gate', chain')
  BY <1>1, StillBelongs DEF Kept, LinksOK, CallOK, Lesser
<1>3. CalledWith(session, current)
  BY DEF CalledWith
<1> QED
  BY <1>1, <1>2, <1>3, CallSteps

LEMMA VerifyFailsOK ==
  ASSUME Kept, NEW k \in Kind, VerifyFails(k) PROVE StepOK
<1>1. CallOK(session, current, gate)
  BY EnterErrorOK, EngineAlone DEF VerifyFails, Kept, LinksOK
<1>2. Around
  BY OutsideAlone DEF VerifyFails, Kept, Ticks
<1> QED
  BY <1>1, <1>2, OneCallEndsChain DEF VerifyFails

LEMMA VerifyInconclusiveOK == ASSUME Kept, VerifyInconclusive PROVE StepOK
<1>1. state' # "connected" /\ state' \in State /\ kind' \in Kind \cup {None}
  BY DEF VerifyInconclusive, Kept, StatusOK, SetState, State, status
<1>2. auth' = auth /\ degraded' = degraded /\ transientTimer' = transientTimer /\ retryTimer' = TRUE
  BY DEF VerifyInconclusive, latches
<1>3. StatusOK'
  BY <1>1, <1>2 DEF Kept, StatusOK, QuietWhenUp
<1>4. CallOK(session, current, gate)
  BY <1>1, <1>2, <1>3, LinksAlone DEF VerifyInconclusive
<1>5. Around
  BY OutsideAlone DEF VerifyInconclusive, Kept, Ticks
<1> QED
  BY <1>4, <1>5, OneCallEndsChain DEF VerifyInconclusive

-----------------------------------------------------------------------------
(* The steps: openings.                                                    *)

LEMMA GateReturns ==
  ASSUME Belongs(session, gate, chain), ReconnectsOK, gate.open, gate' = closedGate,
         \A s \in Session : opening(session'[s]) <=> opening(session[s]),
         Returns(gate.byChain)
  PROVE  Belongs(session', gate', chain') /\ ReconnectsOK'
<1>1. ~(gate'.open /\ gate'.byChain)
  BY DEF closedGate
<1>2. CASE gate.byChain
  <2>1. \A s \in Session : ~opening(session'[s])
    BY <1>2 DEF Belongs
  <2>2. ReconnectsOK' /\ chain'.pc # "open"
    BY <1>2, EndChainOK DEF Returns
  <2> QED
    BY <1>1, <2>1, <2>2 DEF Belongs
<1>3. CASE ~gate.byChain
  <2>1. chain' = chain /\ queued' = queued /\ cool' = cool
    BY <1>3 DEF Returns, reconnects
  <2> QED
    BY <1>1, <1>3, <2>1 DEF Belongs, ReconnectsOK
<1> QED
  BY <1>2, <1>3

LEMMA ClosedGateLinks ==
  ASSUME NEW ss, NEW cur, NEW g, NEW down, Links(ss, cur, g, down)
  PROVE  Links(ss, cur, closedGate, down)
  BY DEF Links, closedGate, Gate

LEMMA GateFailsOK ==
  ASSUME Kept, NEW k \in Kind, GateFails(k) PROVE StepOK
<1>1. Links(session, current, closedGate, degraded)
  BY ClosedGateLinks DEF Kept, LinksOK
<1>2. CallOK(session, current, closedGate)
  <2>1. CASE EnterError(k, session, current, closedGate)
    BY <1>1, <2>1, EnterErrorOK DEF Kept
  <2>2. CASE Keep(session, current, closedGate) /\ UNCHANGED <<status, latches, timers>>
    BY <1>1, <2>2, StatusAlone, KeepKeeps DEF Kept, CallOK
  <2> QED
    BY <2>1, <2>2 DEF GateFails
<1>3. gate' = closedGate
  <2>1. gate' = closedGate \/ Teardown(session, current, closedGate)
    BY DEF GateFails, Keep, EnterError
  <2> QED
    BY <2>1 DEF Teardown, closedGate
<1>4. Belongs(session', gate', chain') /\ ReconnectsOK'
  BY <1>2, <1>3, GateReturns DEF GateFails, Kept, LinksOK, CallOK, Lesser
<1>5. Around
  BY PausedAlone DEF GateFails, Kept, Ticks
<1>6. CalledWith(session, current)
  BY DEF CalledWith
<1> QED
  BY <1>2, <1>4, <1>5, <1>6, CallSteps

\* A session is registered in a place of its own.
LEMMA LeastFree ==
  ASSUME free # {}
  PROVE  (CHOOSE i \in free : \A j \in free : i <= j) \in free
<1>1. free \subseteq Nat
  BY NoneIsNoSession DEF free
<1>2. \E i \in free : \A j \in free : i <= j
  <2>1. PICK x \in free : \A y \in free : ~(<<y, x>> \in OpToRel(<, Nat))
    BY <1>1, NatLessThanWellFounded, WFMin
  <2>2. \A y \in free : y \in Nat /\ x \in Nat /\ ~(y < x)
    BY <1>1, <2>1 DEF OpToRel
  <2> QED
    BY <2>2
<1> QED
  BY <1>2

LEMMA RegisteredOK ==
  ASSUME Kept, gate.open, ~gate.superseded, gate' = closedGate,
         NEW s \in free, Registered(s), current' = s, UNCHANGED reconnects,
         degraded' = degraded
  PROVE  /\ Links(session', current', gate', degraded')
         /\ Belongs(session', gate', chain')
         /\ \A t \in Session : session'[t].parked = {}
         /\ session'[s].pc = "prepare"
<1>1. s \in Session /\ session[s] = noSession /\ s # None
  BY NoneIsNoSession DEF free
<1>2. current = None /\ ~degraded
  BY DEF Kept, LinksOK, Links
<1>3. session \in [Session -> SessionState] /\ gate \in Gate
  BY DEF Kept, LinksOK, Links, SessionsOK
<1> DEFINE r == [pc |-> "prepare", byChain |-> gate.byChain,
                 disposed |-> FALSE, loops |-> {}, parked |-> {}]
<1>4. r \in SessionState
  BY <1>3 DEF SessionState, Gate
<1>5. session' = [session EXCEPT ![s] = r]
  BY DEF Registered
<1>6. /\ ~r.disposed /\ r.pc = "prepare" /\ r.parked = {} /\ r.loops = {}
      /\ opening(r) <=> gate.byChain
  BY DEF opening
<1> HIDE DEF r
<1>7. \A t \in Session : session[t].disposed /\ session[t].parked = {}
  BY <1>2, NoneIsNoSession DEF Kept, LinksOK, Links, SessionsOK
<1>8. SessionsOK(session', s)
  BY <1>1, <1>3, <1>4, <1>5, <1>6, <1>7 DEF Kept, LinksOK, Links, SessionsOK
<1>9. Links(session', current', gate', degraded')
  BY <1>2, <1>8 DEF Links, closedGate, Gate
<1>10. Belongs(session', gate', chain')
  <2>1. chain' = chain /\ ~opening(session[s])
    BY <1>1 DEF reconnects, noSession, opening
  <2>2. \A t \in Session : opening(session'[t]) <=> IF t = s THEN gate.byChain
                                                             ELSE opening(session[t])
    BY <1>1, <1>3, <1>5, <1>6
  <2>3. Belongs(session, gate, chain) /\ ~gate'.open
    BY DEF Kept, LinksOK, closedGate
  <2>4. CASE gate.byChain
    BY <1>1, <2>1, <2>2, <2>3, <2>4 DEF Belongs
  <2>5. CASE ~gate.byChain
    BY <1>1, <2>1, <2>2, <2>3, <2>5 DEF Belongs
  <2> QED
    BY <2>4, <2>5
<1> QED
  BY <1>1, <1>3, <1>5, <1>6, <1>7, <1>9, <1>10

LEMMA GatePassesOK == ASSUME Kept, GatePasses PROVE StepOK
<1>1. Around
  BY OutsideAlone DEF GatePasses, Kept, bounds, Ticks
<1>2. CASE gate.superseded
  <2>1. /\ Returns(gate.byChain) /\ Keep(session, current, closedGate)
        /\ UNCHANGED <<status, latches, timers>>
    BY <1>2 DEF GatePasses, Keep
  <2>2. CallOK(session, current, closedGate)
    BY <2>1, ClosedGateLinks, StatusAlone, KeepKeeps DEF Kept, LinksOK, CallOK
  <2>3. Belongs(session', gate', chain') /\ ReconnectsOK'
    BY <2>1, GateReturns DEF GatePasses, Kept, LinksOK, Keep
  <2>4. CalledWith(session, current)
    BY DEF CalledWith
  <2> QED
    BY <1>1, <2>2, <2>3, <2>4, CallSteps
<1>3. CASE ~gate.superseded
  <2> DEFINE s == CHOOSE i \in free : \A j \in free : i <= j
  <2>1. s \in free
    BY <1>3, LeastFree DEF GatePasses
  <2>2. Registered(s) /\ current' = s /\ SetState("reconnecting") /\ UNCHANGED reconnects
    BY <1>3 DEF GatePasses
  <2> HIDE DEF s
  <2>3. gate.open /\ gate' = closedGate /\ UNCHANGED <<latches, timers>>
    BY DEF GatePasses
  <2>4. degraded' = degraded
    BY <2>3 DEF latches
  <2>5. /\ Links(session', current', gate', degraded')
        /\ Belongs(session', gate', chain')
        /\ \A t \in Session : session'[t].parked = {}
        /\ session'[s].pc = "prepare"
    BY <1>3, <2>1, <2>2, <2>3, <2>4, RegisteredOK
  <2>6. StatusOK' /\ state' = "reconnecting"
    BY <2>2, <2>3 DEF Kept, StatusOK, QuietWhenUp, SetState, State, latches, timers
  <2>7. ReconnectsOK'
    BY <2>2 DEF Kept, ReconnectsOK, reconnects
  <2>8. OutsideOK' /\ Wakes(session)'
    BY <1>1, <2>5, AroundOK DEF Wakes
  <2>9. LiveStep
    <3>1. current = None /\ current' \in Session
      BY <1>3, <2>1, <2>2, <2>3 DEF Kept, LinksOK, Links, free
    <3>2. ~caughtUp' /\ state' # "connected"
      BY <2>2, <2>5, <2>6 DEF caughtUp
    <3>3. Live!Open
      BY <3>1, <3>2 DEF Live!Open, caughtUp
    <3> QED
      BY <3>3 DEF LiveStep, Live!Next
  <2> QED
    BY <2>5, <2>6, <2>7, <2>8, <2>9 DEF StepOK, Kept, LinksOK
<1> QED
  BY <1>2, <1>3

(***************************************************************************)
(* A session that leaves an opening behind, or goes: what is said of all   *)
(* the others is not touched.                                              *)
(***************************************************************************)
LEMMA SessionMoves ==
  ASSUME NEW s \in Session, NEW r \in SessionState, NEW down,
         Links(session, current, gate, down),
         r.parked \subseteq r.loops, r.disposed => r.parked = {},
         r.disposed <=> session[s].disposed, r.pc = "none" => r.disposed
  PROVE  Links([session EXCEPT ![s] = r], current, gate, down)
  BY DEF Links, SessionsOK

LEMMA NoSessionIsNone ==
  /\ noSession \in SessionState /\ ~opening(noSession)
  /\ noSession.disposed /\ noSession.parked = {} /\ noSession.loops = {}
  BY DEF noSession, SessionState, opening

LEMMA AbandonedOK ==
  ASSUME Kept, NEW s \in Session, session[s].pc \in {"prepare", "catchup", "warmup"},
         Abandoned(s), Around
  PROVE  StepOK
<1>1. session[s].disposed /\ s # current
  BY NoneIsNoSession DEF Abandoned, Kept, LinksOK, Links, SessionsOK
<1>2. Keep(Gone(s), current, gate) /\ Gone(s) = [session EXCEPT ![s] = noSession]
  BY DEF Abandoned, Gone
<1>3. Links(Gone(s), current, gate, degraded)
  BY <1>1, <1>2, SessionMoves, NoSessionIsNone DEF Kept, LinksOK
<1>4. CallOK(Gone(s), current, gate)
  BY <1>2, <1>3, StatusAlone, KeepKeeps DEF Abandoned, Kept, CallOK
<1>5. session \in [Session -> SessionState]
  BY DEF Kept, LinksOK, Links, SessionsOK
<1>6. Belongs(session', gate', chain') /\ ReconnectsOK'
  BY <1>2, <1>5, NoSessionIsNone, OpeningReturns DEF Abandoned, Kept, LinksOK, Keep
<1>7. CalledWith(Gone(s), current)
  BY <1>1, <1>2, <1>5, NoSessionIsNone DEF CalledWith, Kept, LinksOK, Links, SessionsOK
<1> QED
  BY <1>4, <1>6, <1>7, CallSteps

LEMMA OpenFailsOK ==
  ASSUME Kept, NEW s \in Session, session[s].pc \in {"prepare", "catchup", "warmup"},
         NEW k, OpenFails(s, k), Around
  PROVE  StepOK
<1>1. ~session[s].disposed /\ s = current /\ current # None
  BY NoneIsNoSession DEF OpenFails, Kept, LinksOK, Links, SessionsOK
<1>2. Gone(s) = [session EXCEPT ![s] = noSession] /\ session \in [Session -> SessionState]
  BY DEF Gone, Kept, LinksOK, Links, SessionsOK
<1>3. Links(Gone(s), None, gate, degraded)
  BY <1>1, <1>2, NoneIsNoSession, NoSessionIsNone DEF Kept, LinksOK, Links, SessionsOK
<1>4. CallOK(Gone(s), None, gate)
  BY <1>3, FailsOK DEF OpenFails, Kept
<1>5. Belongs(session', gate', chain') /\ ReconnectsOK'
  BY <1>2, <1>4, NoSessionIsNone, OpeningReturns
     DEF OpenFails, Kept, LinksOK, CallOK, Lesser
<1>6. CalledWith(Gone(s), None)
  BY <1>2, NoSessionIsNone DEF CalledWith
<1> QED
  BY <1>4, <1>5, <1>6, CallSteps

\* A session of the engine goes on, and its opening with it.
LEMMA AdvanceOK ==
  ASSUME Kept, NEW s \in Session, NEW pc \in {"catchup", "warmup"},
         session[s].pc \in {"prepare", "catchup"}, ~session[s].disposed,
         Advance(s, pc), UNCHANGED <<latches, current, gate, reconnects>>, Around
  PROVE  /\ s = current /\ current # None /\ current' = current
         /\ Links(session', current', gate', degraded')
         /\ Belongs(session', gate', chain')
         /\ ReconnectsOK' /\ OutsideOK' /\ Wakes(session)'
         /\ session'[s].pc = pc
<1> DEFINE r == [session[s] EXCEPT !.pc = pc]
<1>1. session \in [Session -> SessionState] /\ session' = [session EXCEPT ![s] = r]
  BY DEF Kept, LinksOK, Links, SessionsOK, Advance
<1>2. /\ r \in SessionState /\ r.pc = pc
      /\ r.disposed = session[s].disposed /\ r.parked = session[s].parked
      /\ r.loops = session[s].loops
      /\ opening(r) <=> opening(session[s])
  BY <1>1 DEF SessionState, opening
<1> HIDE DEF r
<1>3. s = current /\ s # None /\ Links(session, current, gate, degraded)
  BY NoneIsNoSession DEF Kept, LinksOK, Links, SessionsOK
<1>4. /\ current' = current /\ gate' = gate /\ degraded' = degraded
      /\ chain' = chain /\ queued' = queued /\ cool' = cool
  BY DEF latches, reconnects
<1>5. Links(session', current', gate', degraded')
  <2>1. r.parked \subseteq r.loops
    BY <1>2 DEF Kept, LinksOK, Links, SessionsOK
  <2>2. r.pc # "none"
    BY <1>2
  <2> QED
    BY <1>1, <1>2, <1>3, <1>4, <2>1, <2>2, SessionMoves
<1>6. \A t \in Session : /\ opening(session'[t]) <=> opening(session[t])
                         /\ session'[t].parked = session[t].parked
  BY <1>1, <1>2
<1>7. Belongs(session', gate', chain')
  BY <1>4, <1>6, StillBelongs DEF Kept, LinksOK
<1>8. ReconnectsOK'
  BY <1>4 DEF Kept, ReconnectsOK
<1>9. OutsideOK' /\ Wakes(session)'
  BY <1>6, AroundOK DEF Kept, Wakes, Around
<1> QED
  BY <1>1, <1>2, <1>3, <1>4, <1>5, <1>7, <1>8, <1>9

LEMMA PrepareOK ==
  ASSUME Kept, NEW s \in Session, Prepare(s) PROVE StepOK
<1>1. session[s].pc = "prepare"
  BY DEF Prepare
<1>2. CASE Abandoned(s)
  <2>1. Around
    BY <1>2, OutsideAlone DEF Prepare, Abandoned, Kept, bounds, Ticks
  <2> QED
    BY <1>1, <1>2, <2>1, AbandonedOK
<1>3. CASE \E k \in guarded : OpenFails(s, k)
  <2>1. Around
    BY <1>3, OutsideAlone DEF Prepare, OpenFails, Kept, Ticks
  <2> QED
    BY <1>1, <1>3, <2>1, OpenFailsOK
<1>4. CASE /\ ~session[s].disposed
           /\ Advance(s, "catchup")
           /\ SetState("syncing")
           /\ UNCHANGED <<latches, timers, current, gate, reconnects, bounds>>
  <2>1. Around
    BY <1>4, OutsideAlone DEF Prepare, Kept, bounds, Ticks
  <2>2. /\ s = current /\ current # None /\ current' = current
        /\ Links(session', current', gate', degraded')
        /\ Belongs(session', gate', chain')
        /\ ReconnectsOK' /\ OutsideOK' /\ Wakes(session)'
        /\ session'[s].pc = "catchup"
    BY <1>1, <1>4, <2>1, AdvanceOK
  <2>3. StatusOK' /\ state' # "connected"
    BY <1>4 DEF Kept, StatusOK, QuietWhenUp, SetState, State, latches, timers
  <2>4. LiveStep
    <3>1. caughtUp' = caughtUp
      BY <1>1, <2>2 DEF caughtUp
    <3> QED
      BY <2>2, <2>3, <3>1 DEF LiveStep, Live!Next, Live!Fault
  <2> QED
    BY <2>2, <2>3, <2>4 DEF StepOK, Kept, LinksOK
<1> QED
  BY <1>2, <1>3, <1>4 DEF Prepare

LEMMA CatchupEndsOK ==
  ASSUME Kept, NEW s \in Session, CatchupEnds(s) PROVE StepOK
<1>1. session[s].pc = "catchup"
  BY DEF CatchupEnds
<1>2. CASE Abandoned(s) /\ UNCHANGED setup
  <2>1. UNCHANGED <<probing, outside>>
    BY <1>2 DEF CatchupEnds, outside
  <2>2. Around
    BY <1>2, <2>1, OutsideAlone DEF Abandoned, Kept, bounds, Ticks
  <2> QED
    BY <1>1, <1>2, <2>2, AbandonedOK
<1>3. ASSUME NEW k \in Kind \cup {"degraded"}, OpenFails(s, k), Paused(k)
      PROVE  StepOK
  <2>1. Around
    BY <1>3, PausedAlone DEF CatchupEnds, OpenFails, Kept, Ticks
  <2> QED
    BY <1>1, <1>3, <2>1, OpenFailsOK
<1>4. CASE /\ ~session[s].disposed
           /\ Advance(s, "warmup")
           /\ ComesUp
           /\ UNCHANGED <<latches, current, gate, reconnects, setup, bounds>>
  <2>1. UNCHANGED <<probing, outside>>
    BY <1>4 DEF CatchupEnds, outside
  <2>2. Around
    BY <1>4, <2>1, OutsideAlone DEF Kept, bounds, Ticks
  <2>3. /\ s = current /\ current # None /\ current' = current
        /\ Links(session', current', gate', degraded')
        /\ Belongs(session', gate', chain')
        /\ ReconnectsOK' /\ OutsideOK' /\ Wakes(session)'
        /\ session'[s].pc = "warmup"
    BY <1>1, <1>4, <2>2, AdvanceOK
  <2>4. StatusOK' /\ state' = "connected"
    BY <1>4 DEF Kept, StatusOK, QuietWhenUp, ComesUp, SetState, State, latches
  <2>5. LiveStep
    <3>1. ~caughtUp /\ caughtUp'
      BY <1>1, <2>3 DEF caughtUp
    <3>2. Live!Up
      BY <2>3, <2>4, <3>1 DEF Live!Up
    <3> QED
      BY <3>2 DEF LiveStep, Live!Next
  <2> QED
    BY <2>3, <2>4, <2>5 DEF StepOK, Kept, LinksOK
<1> QED
  BY <1>2, <1>3, <1>4 DEF CatchupEnds

LEMMA WarmupEndsOK ==
  ASSUME Kept, NEW s \in Session, WarmupEnds(s) PROVE StepOK
<1>1. session[s].pc = "warmup"
  BY DEF WarmupEnds
<1>2. CASE Abandoned(s)
  <2>1. Around
    BY <1>2, OutsideAlone DEF WarmupEnds, Abandoned, Kept, bounds, Ticks
  <2> QED
    BY <1>1, <1>2, <2>1, AbandonedOK
<1>3. CASE /\ ~session[s].disposed
           /\ session' = [session EXCEPT ![s].pc = "live", ![s].loops = Loop]
           /\ Returns(session[s].byChain)
           /\ UNCHANGED <<status, latches, timers, current, gate, bounds>>
  <2> DEFINE r == [session[s] EXCEPT !.pc = "live", !.loops = Loop]
  <2>1. session \in [Session -> SessionState] /\ session' = [session EXCEPT ![s] = r]
    BY <1>3 DEF Kept, LinksOK, Links, SessionsOK
  <2>2. /\ r \in SessionState /\ r.pc = "live" /\ r.loops = Loop
        /\ r.disposed = session[s].disposed /\ r.parked = session[s].parked
        /\ ~opening(r)
    BY <2>1 DEF SessionState, opening
  <2> HIDE DEF r
  <2>3. s = current /\ s # None /\ Links(session, current, gate, degraded)
    BY <1>3, NoneIsNoSession DEF Kept, LinksOK, Links, SessionsOK
  <2>4. Links(session', current', gate', degraded')
    <3>1. r.parked \subseteq r.loops
      BY <2>1, <2>2 DEF SessionState
    <3>2. r.disposed => r.parked = {}
      BY <2>2 DEF Kept, LinksOK, Links, SessionsOK
    <3>3. Links([session EXCEPT ![s] = r], current, gate, degraded)
      BY <2>2, <2>3, <3>1, <3>2, SessionMoves
    <3> QED
      BY <1>3, <2>1, <3>3 DEF latches
  <2>5. Belongs(session', gate', chain') /\ ReconnectsOK'
    BY <1>1, <1>3, <2>1, <2>2, OpeningReturns DEF Kept, LinksOK
  <2>6. Around
    BY <1>3, OutsideAlone DEF WarmupEnds, Kept, bounds, Ticks
  <2>7. OutsideOK' /\ Wakes(session)'
    BY <2>1, <2>2, <2>6, AroundOK DEF Kept, Wakes, Around
  <2>8. StatusOK' /\ state' = state
    BY <1>3, StatusAlone DEF Kept
  <2>9. LiveStep
    <3>1. caughtUp' = caughtUp /\ current' = current
      BY <1>1, <1>3, <2>1, <2>2, <2>3 DEF caughtUp
    <3> QED
      BY <2>8, <3>1 DEF LiveStep, Live!vars
  <2> QED
    BY <2>4, <2>5, <2>7, <2>8, <2>9 DEF StepOK, Kept, LinksOK
<1> QED
  BY <1>2, <1>3 DEF WarmupEnds

-----------------------------------------------------------------------------
(* The steps: the live loops.                                              *)

LEMMA LoopReportsOK ==
  ASSUME Kept, NEW s \in Session, NEW l \in Loop, LoopReports(s, l) PROVE StepOK
<1>1. PICK k \in Kind : HandleTransientError(k, session, current, gate) /\ Paused(k)
  BY DEF LoopReports
<1>2. CallOK(session, current, gate)
  BY <1>1, HandleTransientErrorOK DEF Kept, LinksOK
<1>3. Around
  BY <1>1, PausedAlone DEF LoopReports, Kept, Ticks
<1> QED
  BY <1>2, <1>3, OneCall DEF LoopReports

LEMMA WithoutLoopOK ==
  ASSUME Kept, NEW s \in Session, NEW l \in Loop, runs(s, l)
  PROVE  /\ Links(withoutLoop(s, l), current, gate, degraded)
         /\ CalledWith(withoutLoop(s, l), current)
         /\ \A t \in Session : opening(withoutLoop(s, l)[t]) <=> opening(session[t])
<1> DEFINE q == [session[s] EXCEPT !.loops = @ \ {l}]
           r == IF q.disposed THEN settledOrNot(q) ELSE q
<1>1. session \in [Session -> SessionState] /\ session[s] \in SessionState
      /\ session[s].parked \subseteq session[s].loops
      /\ (session[s].disposed => session[s].parked = {})
      /\ Links(session, current, gate, degraded)
  BY DEF Kept, LinksOK, Links, SessionsOK
<1>2. l \notin session[s].parked
  BY DEF runs
<1>3. withoutLoop(s, l) = [session EXCEPT ![s] = r]
  BY DEF withoutLoop
<1>4. /\ q \in SessionState /\ q.disposed = session[s].disposed
      /\ q.parked = session[s].parked /\ q.loops = session[s].loops \ {l}
      /\ q.pc = session[s].pc
      /\ opening(q) <=> opening(session[s])
  BY <1>1 DEF SessionState, opening
<1> HIDE DEF q
<1>5. r = q \/ (q.disposed /\ q.pc = "live" /\ r = noSession)
  BY DEF settledOrNot
<1> HIDE DEF r
<1>6. /\ r \in SessionState /\ r.parked \subseteq r.loops
      /\ r.disposed => r.parked = {}
      /\ r.disposed <=> session[s].disposed
      /\ r.parked \subseteq session[s].parked
      /\ opening(r) <=> opening(session[s])
      /\ ~r.disposed => r.pc = session[s].pc
  BY <1>1, <1>2, <1>4, <1>5, NoSessionIsNone DEF opening
<1>7. r.pc = "none" => r.disposed
  BY <1>6, NoneIsNoSession DEF Kept, LinksOK, Links, SessionsOK
<1>8. Links(withoutLoop(s, l), current, gate, degraded)
  <2>1. Links([session EXCEPT ![s] = r], current, gate, degraded)
    BY <1>1, <1>6, <1>7, SessionMoves
  <2> QED
    BY <1>3, <2>1
<1>9. CalledWith(withoutLoop(s, l), current)
  BY <1>1, <1>3, <1>6 DEF CalledWith, Links, SessionsOK
<1> QED
  BY <1>1, <1>3, <1>6, <1>8, <1>9

LEMMA LoopHaltsOK ==
  ASSUME Kept, NEW s \in Session, NEW l \in Loop, LoopHalts(s, l) PROVE StepOK
<1> DEFINE ss == withoutLoop(s, l)
<1>1. runs(s, l)
  BY DEF LoopHalts
<1> HIDE DEF ss
<1>2. /\ Links(ss, current, gate, degraded) /\ CalledWith(ss, current)
      /\ \A t \in Session : opening(ss[t]) <=> opening(session[t])
  BY <1>1, WithoutLoopOK DEF ss
<1>3. CallOK(ss, current, gate)
  BY <1>2, LocalDbHaltsOK DEF LoopHalts, Kept, ss
<1>4. ReconnectsOK' /\ chain' = chain
  BY DEF LoopHalts, Kept, ReconnectsOK, reconnects
<1>5. Belongs(session', gate', chain')
  BY <1>2, <1>3, <1>4, StillBelongs DEF Kept, LinksOK, CallOK, Lesser
<1>6. Around
  BY OutsideAlone DEF LoopHalts, Kept, Ticks
<1> QED
  BY <1>2, <1>3, <1>4, <1>5, <1>6, CallSteps

LEMMA LoopEndsOK ==
  ASSUME Kept, NEW s \in Session, NEW l \in Loop, LoopEnds(s, l) PROVE StepOK
<1> DEFINE ss == withoutLoop(s, l)
<1>1. runs(s, l)
  BY DEF LoopEnds
<1> HIDE DEF ss
<1>2. /\ Links(ss, current, gate, degraded) /\ CalledWith(ss, current)
      /\ \A t \in Session : opening(ss[t]) <=> opening(session[t])
  BY <1>1, WithoutLoopOK DEF ss
<1>3. CallOK(ss, current, gate)
  BY <1>2, StatusAlone, KeepKeeps DEF LoopEnds, Kept, CallOK, ss
<1>4. ReconnectsOK' /\ chain' = chain
  BY DEF LoopEnds, Kept, ReconnectsOK, reconnects
<1>5. Belongs(session', gate', chain')
  BY <1>2, <1>3, <1>4, StillBelongs DEF Kept, LinksOK, CallOK, Lesser
<1>6. Around
  BY OutsideAlone DEF LoopEnds, Kept, bounds, Ticks
<1> QED
  BY <1>2, <1>3, <1>4, <1>5, <1>6, CallSteps

LEMMA ParkOK ==
  ASSUME Kept, NEW s \in Session, NEW l \in Loop, Park(s, l) PROVE StepOK
<1> DEFINE r == [session[s] EXCEPT !.parked = @ \cup {l}]
<1>1. session \in [Session -> SessionState] /\ session' = [session EXCEPT ![s] = r]
      /\ session[s].parked \subseteq session[s].loops /\ ~session[s].disposed
      /\ l \in session[s].loops
      /\ Links(session, current, gate, degraded)
  BY DEF Park, runs, Kept, LinksOK, Links, SessionsOK
<1>2. /\ r \in SessionState /\ r.parked = session[s].parked \cup {l}
      /\ r.loops = session[s].loops /\ r.pc = session[s].pc
      /\ r.disposed = session[s].disposed
      /\ opening(r) <=> opening(session[s])
  BY <1>1 DEF SessionState, opening
<1> HIDE DEF r
<1>3. r.pc # "none"
  BY <1>1, <1>2, NoneIsNoSession DEF Links, SessionsOK
<1>4. Links([session EXCEPT ![s] = r], current, gate, degraded)
  BY <1>1, <1>2, <1>3, SessionMoves
<1>5. /\ current' = current /\ gate' = gate /\ degraded' = degraded
      /\ chain' = chain /\ queued' = queued /\ cool' = cool
      /\ UNCHANGED <<status, latches, timers>>
  BY DEF Park, latches, reconnects
<1>6. Belongs(session', gate', chain')
  BY <1>1, <1>2, <1>5, StillBelongs DEF Kept, LinksOK
<1>7. Around
  BY OutsideAlone DEF Park, Kept, bounds, Ticks
<1>8. Wakes(session)'
  BY DEF Park, Wakes, outside
<1>9. StatusOK' /\ state' = state
  BY <1>5, StatusAlone DEF Kept
<1>10. LiveStep
  <2>1. current # None => session'[current].pc = session[current].pc
    BY <1>1, <1>2 DEF Links, SessionsOK
  <2> QED
    BY <1>5, <1>9, <2>1, CalmIsLive
<1> QED
  BY <1>1, <1>4, <1>5, <1>6, <1>7, <1>8, <1>9, <1>10, AroundOK
     DEF StepOK, Kept, LinksOK, ReconnectsOK

-----------------------------------------------------------------------------
(* The steps: timers and the health check.                                 *)

LEMMA RetryFiresOK ==
  ASSUME Kept, RetryFires, chain.pc # "queued" PROVE StepOK
<1>1. Quieter
  BY DEF RetryFires, Quieter
<1>2. Around
  BY OutsideAlone DEF RetryFires, Kept, bounds, Ticks
<1> QED
  BY <1>1, <1>2, OneRequest DEF RetryFires, ReconnectReason

LEMMA TransientFiresOK == ASSUME Kept, TransientFires PROVE StepOK
<1>1. Around
  BY OutsideAlone DEF TransientFires, Kept, bounds, Ticks
<1>2. CASE EnterError("transient", session, current, gate)
  <2>1. CallOK(session, current, gate)
    BY <1>2, EnterErrorOK DEF Kept, LinksOK, Kind
  <2> QED
    BY <1>1, <2>1, OneCall DEF TransientFires
<1>3. CASE transientTimer' = FALSE /\ UNCHANGED <<status, latches, retryTimer, links>>
  <2>1. state' = state /\ kind' = kind /\ auth' = auth /\ degraded' = degraded
        /\ retryTimer' = retryTimer /\ transientTimer' = FALSE
    BY <1>3 DEF status, latches
  <2>2. StatusOK'
    BY <2>1 DEF Kept, StatusOK, QuietWhenUp
  <2>3. CallOK(session, current, gate)
    BY <1>3, <2>1, <2>2, LinksAlone
  <2> QED
    BY <1>1, <2>3, OneCall DEF TransientFires
<1> QED
  BY <1>2, <1>3 DEF TransientFires

LEMMA CoolDownEndsOK == ASSUME Kept, CoolDownEnds PROVE StepOK
<1>1. CallOK(session, current, gate)
  BY EngineAlone DEF CoolDownEnds
<1>2. ReconnectsOK' /\ chain' = chain
  BY DEF CoolDownEnds, Kept, ReconnectsOK
<1>3. Belongs(session', gate', chain')
  BY <1>1, <1>2, StillBelongs DEF Kept, LinksOK, CallOK, Lesser
<1>4. Around
  BY OutsideAlone DEF CoolDownEnds, Kept, bounds, Ticks
<1>5. CalledWith(session, current)
  BY DEF CalledWith
<1> QED
  BY <1>1, <1>2, <1>3, <1>4, <1>5, CallSteps

LEMMA HealthTickOK ==
  ASSUME Kept, HealthTick, chain.pc # "queued" PROVE StepOK
<1>1. probing' \in {probing, current}
  BY DEF HealthTick
<1>2. Around
  BY <1>1 DEF HealthTick, Kept, OutsideOK, Around, outside, bounds, Ticks
<1>3. CASE Request("periodic-tick", session) /\ UNCHANGED <<timers, latches, probing>>
  <2>1. Quieter
    BY <1>3 DEF Quieter, timers
  <2> QED
    BY <1>2, <1>3, <2>1, OneRequest DEF ReconnectReason
<1>4. CASE UNCHANGED <<engine, reconnects>>
  <2>1. CallOK(session, current, gate)
    BY <1>4, EngineAlone
  <2> QED
    BY <1>2, <1>4, <2>1, OneCall
<1> QED
  BY <1>3, <1>4 DEF HealthTick

LEMMA HealthAnswersOK ==
  ASSUME Kept, HealthAnswers, chain.pc # "queued" PROVE StepOK
<1>1. Around
  BY DEF HealthAnswers, Kept, OutsideOK, Around, outside, bounds, Ticks
<1>2. CASE UNCHANGED <<engine, reconnects>>
  <2>1. CallOK(session, current, gate)
    BY <1>2, EngineAlone
  <2> QED
    BY <1>1, <1>2, <2>1, OneCall
<1>3. CASE Request("stalled", session) /\ UNCHANGED <<timers, latches>>
  <2>1. Quieter
    BY <1>3 DEF Quieter, timers
  <2> QED
    BY <1>1, <1>3, <2>1, OneRequest DEF ReconnectReason
<1>4. ASSUME NEW k \in {"transient", "auth"},
             EnterError(k, session, current, gate), UNCHANGED reconnects
      PROVE  StepOK
  <2>1. CallOK(session, current, gate)
    BY <1>4, EnterErrorOK DEF Kept, LinksOK, Kind, Halting
  <2> QED
    BY <1>1, <1>4, <2>1, OneCall
<1> QED
  BY <1>2, <1>3, <1>4 DEF HealthAnswers

-----------------------------------------------------------------------------
(* The steps: the user, the browser, the rest of the plugin.               *)

LEMMA TurnOffOK == ASSUME Kept, TurnOff PROVE StepOK
<1>1. Teardown(session, current, gate)
  BY DEF TurnOff, Stopped, Teardown
<1>2. StatusOK' /\ state' # "connected"
  BY DEF TurnOff, Stopped, SetState, latches, Kept, StatusOK, QuietWhenUp, State
<1>3. CallOK(session, current, gate)
  BY <1>1, <1>2, TeardownKeeps DEF CallOK, Kept, LinksOK
<1>4. Around
  BY DEF TurnOff, Kept, OutsideOK, Around, Ticks
<1> QED
  BY <1>3, <1>4, OneCall DEF TurnOff

LEMMA TurnOnOK == ASSUME Kept, TurnOn PROVE StepOK
<1>1. session' = Disposed(session, current) /\ current' = None
  BY DEF TurnOn, Stopped
<1>2. /\ SessionsOK(session', current')
      /\ \A s \in Session : session'[s].parked = {}
      /\ \A s \in Session : opening(session'[s]) <=> opening(session[s])
  <2>1. /\ SessionsOK(session', None)
        /\ \A s \in Session : opening(session'[s]) <=> opening(session[s])
    BY <1>1, DisposedKeeps DEF Kept, LinksOK, Links
  <2> QED
    BY <1>1, <2>1, NoneIsNoSession DEF SessionsOK
<1>3. StatusOK' /\ state' # "connected" /\ ~degraded'
  BY DEF TurnOn, Stopped, SetState, Kept, StatusOK, QuietWhenUp, State
<1>4. /\ gate' \in Gate
      /\ gate'.open /\ gate'.byChain <=> gate.open /\ gate.byChain
  BY DEF TurnOn, openedGate, Gate, Kept, LinksOK, Links
<1>5. Links(session', current', gate', degraded')
  BY <1>1, <1>2, <1>3, <1>4 DEF Links
<1>6. /\ chain' = chain /\ queued' = queued /\ cool' = cool
  BY DEF TurnOn, reconnects
<1>7. Belongs(session', gate', chain')
  BY <1>2, <1>4, <1>6 DEF Kept, LinksOK, Belongs
<1>8. events' \in 0 .. MaxEvents /\ failures' \in 0 .. MaxFailures
  BY TicksAreBounded DEF TurnOn, Kept, Ticks
<1>9. OutsideOK'
  BY <1>8 DEF TurnOn, Kept, OutsideOK
<1>10. LiveStep
  BY <1>1, <1>3, CalmIsLive
<1> QED
  BY <1>2, <1>3, <1>5, <1>6, <1>7, <1>9, <1>10
     DEF StepOK, Kept, LinksOK, ReconnectsOK, Wakes

LEMMA AskedOK == ASSUME Kept, Asked, chain.pc # "queued" PROVE StepOK
<1>1. Quieter
  BY DEF Asked, Quieter, timers
<1>2. Around
  BY OutsideAlone DEF Asked, Kept, Ticks
<1> QED
  BY <1>1, <1>2, OneRequest DEF Asked, ReconnectReason

LEMMA OfflineOK == ASSUME Kept, Offline PROVE StepOK
<1>1. StatusOK' /\ state' # "connected" /\ degraded' = degraded
  BY DEF Offline, SetState, latches, timers, Kept, StatusOK, QuietWhenUp, State
<1>2. CallOK(session, current, gate)
  BY <1>1, LinksAlone DEF Offline
<1>3. Around
  BY OutsideAlone DEF Offline, Kept, Ticks
<1> QED
  BY <1>2, <1>3, OneCall DEF Offline

LEMMA OnlineOK == ASSUME Kept, Online, chain.pc # "queued" PROVE StepOK
<1>1. Quieter
  BY DEF Online, Quieter, timers
<1>2. Around
  BY OutsideAlone DEF Online, Kept, Ticks
<1> QED
  BY <1>1, <1>2, OneRequest DEF Online, ReconnectReason

LEMMA HideOK == ASSUME Kept, Hide PROVE StepOK
<1>1. CallOK(session, current, gate)
  BY EngineAlone DEF Hide
<1>2. Around
  BY DEF Hide, Kept, OutsideOK, Around, Ticks
<1> QED
  BY <1>1, <1>2, OneCall DEF Hide

LEMMA AwakeOK ==
  ASSUME Kept
  PROVE  /\ Links(awake, current, gate, degraded) /\ CalledWith(awake, current)
         /\ \A s \in Session : /\ opening(awake[s]) <=> opening(session[s])
                               /\ awake[s].parked = {}
<1>1. session \in [Session -> SessionState]
  BY DEF Kept, LinksOK, Links, SessionsOK
<1>2. awake \in [Session -> SessionState]
  BY <1>1 DEF awake, SessionState
<1>3. \A s \in Session : /\ awake[s].parked = {} /\ awake[s].pc = session[s].pc
                         /\ awake[s].loops = session[s].loops
                         /\ awake[s].disposed = session[s].disposed
                         /\ awake[s].byChain = session[s].byChain
  BY <1>1 DEF awake, SessionState
<1>4. \A s \in Session : opening(awake[s]) <=> opening(session[s])
  BY <1>3 DEF opening
<1>5. Links(awake, current, gate, degraded)
  BY <1>2, <1>3 DEF Kept, LinksOK, Links, SessionsOK
<1>6. CalledWith(awake, current)
  BY <1>3 DEF CalledWith, Kept, LinksOK, Links, SessionsOK
<1> QED
  BY <1>3, <1>4, <1>5, <1>6

LEMMA ShowOK == ASSUME Kept, Show, chain.pc # "queued" PROVE StepOK
<1>1. OutsideOK' /\ hidden' = FALSE /\ attached' = attached
  BY DEF Show, Kept, OutsideOK, bounds
<1>2. CASE ~attached /\ UNCHANGED <<engine, reconnects>>
  <2>1. CallOK(session, current, gate)
    BY <1>2, EngineAlone
  <2>2. ReconnectsOK' /\ chain' = chain
    BY <1>2 DEF Kept, ReconnectsOK, reconnects
  <2>3. Belongs(session', gate', chain')
    BY <2>1, <2>2, StillBelongs DEF Kept, LinksOK, CallOK, Lesser
  <2>4. Wakes(session)'
    BY <1>1, <1>2 DEF Wakes
  <2>5. LiveStep
    BY <2>1, CalmIsLive DEF CallOK, Lesser
  <2> QED
    BY <1>1, <2>1, <2>2, <2>3, <2>4, <2>5 DEF StepOK, Kept, LinksOK, CallOK
<1>3. ASSUME NEW r \in resumeReasons, Request(r, awake), UNCHANGED <<timers, latches>>
      PROVE  StepOK
  <2>1. r \in ReconnectReason
    BY DEF resumeReasons, ReconnectReason
  <2>2. Quieter
    BY <1>3 DEF Quieter, timers
  <2>3. /\ Links(awake, current, gate, degraded) /\ CalledWith(awake, current)
        /\ \A s \in Session : /\ opening(awake[s]) <=> opening(session[s])
                              /\ awake[s].parked = {}
    BY AwakeOK
  <2> HIDE DEF awake
  <2>4. RequestOK(awake)
    BY <1>3, <2>1, <2>2, <2>3, RequestIsOK DEF Kept
  <2>5. Belongs(session', gate', chain')
    BY <2>3, <2>4, StillBelongs DEF Kept, LinksOK, RequestOK, CallOK, Lesser
  <2>6. Wakes(session)'
    BY <2>3, <2>4 DEF Wakes, RequestOK, CallOK, Lesser
  <2>7. LiveStep
    <3>1. current' # None => session'[current].pc = session[current].pc
      BY <2>3, <2>4 DEF RequestOK, CallOK, Lesser, CalledWith
    <3>2. current' \in {current, None} /\ (state' = "connected" => state = "connected")
      BY <2>4 DEF RequestOK, CallOK, Lesser
    <3> QED
      BY <3>1, <3>2, CalmIsLive
  <2> QED
    BY <1>1, <2>4, <2>5, <2>6, <2>7 DEF StepOK, Kept, LinksOK, RequestOK, CallOK
<1> QED
  BY <1>2, <1>3 DEF Show

LEMMA RaiseAuthOK == ASSUME Kept, RaiseAuth PROVE StepOK
<1>1. auth' = TRUE /\ degraded' = degraded /\ transientTimer' = transientTimer
      /\ UNCHANGED reconnects
  BY DEF RaiseAuth
<1>2. Around
  BY DEF RaiseAuth, Kept, OutsideOK, Around, Ticks
<1>3. CASE state = "error" /\ UNCHANGED <<status, retryTimer, links>>
  <2>1. StatusOK' /\ state' # "connected"
    BY <1>1, <1>3 DEF Kept, StatusOK, QuietWhenUp, status
  <2>2. CallOK(session, current, gate)
    BY <1>1, <1>3, <2>1, LinksAlone
  <2> QED
    BY <1>1, <1>2, <2>2, OneCall
<1>4. CASE /\ state' = "error" /\ kind' = "auth" /\ retryTimer' = FALSE
           /\ Teardown(session, current, gate)
  <2>1. StatusOK' /\ state' # "connected"
    BY <1>1, <1>4 DEF Kept, StatusOK, QuietWhenUp, State, Kind, Halting
  <2>2. CallOK(session, current, gate)
    BY <1>4, <2>1, TeardownKeeps DEF CallOK, Kept, LinksOK
  <2> QED
    BY <1>1, <1>2, <2>2, OneCall
<1> QED
  BY <1>3, <1>4 DEF RaiseAuth

LEMMA ClearAuthOK == ASSUME Kept, ClearAuth PROVE StepOK
<1>1. auth' = FALSE /\ degraded' = degraded /\ UNCHANGED <<status, timers, links, reconnects>>
  BY DEF ClearAuth
<1>2. StatusOK' /\ state' = state
  BY <1>1 DEF Kept, StatusOK, QuietWhenUp, status, timers
<1>3. CallOK(session, current, gate)
  BY <1>1, <1>2, LinksAlone
<1>4. Around
  BY OutsideAlone DEF ClearAuth, Kept, bounds, Ticks
<1> QED
  BY <1>1, <1>3, <1>4, OneCall

-----------------------------------------------------------------------------
(* The engine.                                                             *)

LEMMA NextIsOK == ASSUME Kept, Next PROVE StepOK
<1>1. CASE QueuedFires
  BY <1>1, QueuedFiresOK
<1>2. CASE chain.pc # "queued" /\ User
  BY <1>2, TurnOnOK, TurnOffOK, AskedOK, RaiseAuthOK, ClearAuthOK DEF User
<1>3. CASE chain.pc # "queued" /\ Browser
  BY <1>3, OfflineOK, OnlineOK, HideOK, ShowOK DEF Browser
<1>4. CASE chain.pc # "queued" /\ Timers
  BY <1>4, RetryFiresOK, TransientFiresOK, CoolDownEndsOK, HealthTickOK DEF Timers
<1>5. CASE chain.pc # "queued" /\ Answers
  BY <1>5, GatePassesOK, GateFailsOK, PrepareOK, CatchupEndsOK, WarmupEndsOK,
     ChainOpensOK, HealthAnswersOK, VerifyOkOK, VerifyInconclusiveOK, VerifyFailsOK
     DEF Answers, Kind, Halting
<1>6. CASE chain.pc # "queued" /\ Loops
  BY <1>6, LoopReportsOK, LoopHaltsOK, LoopEndsOK, ParkOK DEF Loops
<1> QED
  BY <1>1, <1>2, <1>3, <1>4, <1>5, <1>6 DEF Next

LEMMA StutterIsOK == ASSUME Kept, UNCHANGED vars PROVE StepOK
<1>1. CallOK(session, current, gate)
  BY EngineAlone DEF vars
<1>2. Around
  BY OutsideAlone DEF vars, Kept, bounds, Ticks
<1> QED
  BY <1>1, <1>2, OneCall DEF vars

LEMMA SpecKeeps == Spec => []Kept
<1>1. Kept /\ [Next]_vars => Kept'
  BY NextIsOK, StutterIsOK DEF StepOK
<1> QED
  BY <1>1, InitIsKept, PTL DEF Spec

(***************************************************************************)
(* The sessions are never doubled: of all sessions only the engine's own   *)
(* goes on, whoever waits for the chain waits for exactly one opening, and *)
(* a local database found unusable keeps every session closed.             *)
(***************************************************************************)
THEOREM EngineKept == Spec => []EngineInv
<1>1. Kept => EngineInv
  BY KeptMeans
<1> QED
  BY <1>1, SpecKeeps, PTL

(***************************************************************************)
(* No timer is left that would tear down a session that has come up.       *)
(***************************************************************************)
THEOREM NoStrayTimer == Spec => []QuietWhenUp
<1>1. Kept => QuietWhenUp
  BY KeptMeans
<1> QED
  BY <1>1, SpecKeeps, PTL

(***************************************************************************)
(* No loop sleeps through the return of the page, and no disposed session  *)
(* is kept alive by a loop that waits for it.                              *)
(***************************************************************************)
THEOREM WokenUp == Spec => []NoLostWakeup
<1>1. Kept => NoLostWakeup
  BY KeptMeans
<1> QED
  BY <1>1, SpecKeeps, PTL

(***************************************************************************)
(* The engine implements the abstract session: one closes before another   *)
(* opens, and "connected" is shown only from its catch-up on.              *)
(***************************************************************************)
THEOREM EngineIsLiveSession == Spec => IsLiveSession
<1>1. Init => Live!Init
  BY DEF Init, Live!Init, caughtUp
<1>2. Kept /\ [Next]_vars => [Live!Next]_(Live!vars)
  BY NextIsOK, StutterIsOK DEF StepOK, LiveStep
<1> QED
  BY <1>1, <1>2, SpecKeeps, PTL DEF Spec, IsLiveSession, Live!Spec

=============================================================================
