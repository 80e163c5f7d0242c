-------------------------- MODULE EngineLifecycle --------------------------
(***************************************************************************)
(* The supervisor of the live sync (src/db/sync-engine.ts): the sessions   *)
(* it opens and disposes, the single chain of reconnects and its queue of  *)
(* one, the retry and escalation timers, the health check, the latches     *)
(* that keep it down, and the browser events that reach it.                *)
(*                                                                         *)
(* Everything runs on one event loop, cut at the awaits. What one JS turn  *)
(* does by calls that nest is one step; an operator that stands for such a *)
(* call takes the sessions, the current one and the gate as they are when  *)
(* it is made. A timer is a flag: when it fires is left open.              *)
(***************************************************************************)
EXTENDS Naturals, FiniteSets

CONSTANTS
  None,
  MaxSessions,    \* bound: sessions alive or winding down at once
  Mobile,         \* the loops stop while the page is hidden
  LocalFailures,  \* how the local database fails a loop: "degraded", "quota"
  MaxEvents,      \* bound: what the user, the browser and others do
  MaxFailures     \* bound: failures, and stalls, of all kinds

ASSUME MaxSessionsAssumption == MaxSessions \in Nat \ {0} /\ None \notin Nat
ASSUME MobileAssumption == Mobile \in BOOLEAN
ASSUME LocalFailuresAssumption == LocalFailures \subseteq {"degraded", "quota"}
ASSUME BoundsAssumption == MaxEvents \in Nat /\ MaxFailures \in Nat

Session == 1 .. MaxSessions
Loop    == {"pull", "push"}
State   == {"disconnected", "connected", "syncing", "reconnecting", "error"}

\* Errors that only the user can do something about; every other kind is
\* retried, and is "transient" here.
Halting == {"auth", "schema-mismatch", "encryption-paused"}
Kind    == Halting \cup {"transient"}

VARIABLES
  state, kind,      \* what the status bar shows; kind is that of state "error"
  auth, degraded,   \* the latches: credentials refused, local database unusable
  retryTimer, transientTimer,
  session,          \* every session, from its registration until it is settled
  current,          \* the session of the engine, or None
  gate,             \* an openSession waiting for the agreement check
  chain, queued,    \* the reconnect in flight, and the reason queued behind it
  cool,             \* the last restart is less than 5 s old
  probing,          \* the session whose client a health check is asking, or None
  attached,         \* between start() and stop(): listeners, health timer
  setup,            \* connectionState is "syncing"
  hidden,           \* the page is hidden
  raisedOver,       \* history: the latch was raised over another error
  events, failures

outside == <<attached, setup, hidden, raisedOver>>
latches == <<auth, degraded>>
status  == <<state, kind>>
timers  == <<retryTimer, transientTimer>>
links   == <<session, current, gate>>
reconnects == <<chain, queued, cool>>
engine  == <<status, latches, timers, links>>
bounds  == <<events, failures>>
vars    == <<engine, reconnects, probing, outside, bounds>>

SessionState ==
  [pc : {"none", "prepare", "catchup", "warmup", "live"}, byChain : BOOLEAN,
   disposed : BOOLEAN, loops : SUBSET Loop, parked : SUBSET Loop]

noSession == [pc |-> "none", byChain |-> FALSE, disposed |-> TRUE,
              loops |-> {}, parked |-> {}]

Gate == [open : BOOLEAN, byChain : BOOLEAN, superseded : BOOLEAN]

openedGate(byChain) == [open |-> TRUE, byChain |-> byChain, superseded |-> FALSE]

closedGate == [open |-> FALSE, byChain |-> FALSE, superseded |-> FALSE]

ReconnectReason == {"network-online", "app-foreground", "app-resume", "periodic-tick",
                    "stalled", "manual", "config-failure", "retry-backoff"}

Chain == [pc : {"idle", "verify", "teardown", "open", "queued"},
          reason : ReconnectReason \cup {None}, waits : Session \cup {None}]

idle == [pc |-> "idle", reason |-> None, waits |-> None]

TypeOK ==
  /\ state \in State /\ kind \in Kind \cup {None}
  /\ auth \in BOOLEAN /\ degraded \in BOOLEAN
  /\ retryTimer \in BOOLEAN /\ transientTimer \in BOOLEAN
  /\ session \in [Session -> SessionState] /\ current \in Session \cup {None}
  /\ \A s \in Session : session[s].parked \subseteq session[s].loops
  /\ gate \in Gate
  /\ chain \in Chain /\ queued \in ReconnectReason \cup {None} /\ cool \in BOOLEAN
  /\ queued # None => chain.pc # "idle"
  /\ probing \in Session \cup {None}
  /\ attached \in BOOLEAN /\ setup \in BOOLEAN /\ hidden \in BOOLEAN
  /\ raisedOver \in BOOLEAN
  /\ events \in 0 .. MaxEvents /\ failures \in 0 .. MaxFailures

\* The plugin has loaded with live sync on, and has just called start().
Init ==
  /\ state = "disconnected" /\ kind = None
  /\ auth = FALSE /\ degraded = FALSE
  /\ retryTimer = FALSE /\ transientTimer = FALSE
  /\ session = [s \in Session |-> noSession] /\ current = None
  /\ gate = openedGate(FALSE)
  /\ chain = idle /\ queued = None /\ cool = FALSE
  /\ probing = None
  /\ attached = TRUE /\ setup = TRUE /\ hidden = FALSE
  /\ raisedOver = FALSE
  /\ events = 0 /\ failures = 0

Event  == events < MaxEvents /\ events' = events + 1
Failure == failures < MaxFailures /\ failures' = failures + 1

-----------------------------------------------------------------------------
(* Calls. Each sets all of engine, or the part its comment names.          *)

SetState(s) == state' = s /\ kind' = None

\* dispose(): pending delays and waits for the page to show end at once.
settledOrNot(r) == IF r.pc = "live" /\ r.loops = {} THEN noSession ELSE r

Disposed_parked(ss, s) ==
  IF s = None THEN ss
  ELSE [ss EXCEPT ![s] = settledOrNot([@ EXCEPT !.disposed = TRUE])]

Disposed(ss, s) ==
  IF s = None THEN ss
  ELSE [ss EXCEPT ![s] = settledOrNot([@ EXCEPT !.disposed = TRUE, !.parked = {}])]

Keep(ss, cur, g) == session' = ss /\ current' = cur /\ gate' = g

Teardown_undisposed(ss, cur, g) ==
  /\ session' = ss
  /\ current' = None
  /\ gate' = [g EXCEPT !.superseded = g.open]

Teardown_late(ss, cur, g) ==
  /\ session' = Disposed(ss, cur)
  /\ current' = cur
  /\ gate' = [g EXCEPT !.superseded = g.open]

\* Sets links. An openSession still in its gate is told by the generation.
Teardown(ss, cur, g) ==
  /\ session' = Disposed(ss, cur)
  /\ current' = None
  /\ gate' = [g EXCEPT !.superseded = g.open]

\* A retryable error leaves the session to itself until the retry comes.
EnterError(k, ss, cur, g) ==
  /\ state' = "error" /\ kind' = k
  /\ transientTimer' = FALSE
  /\ auth' = (auth \/ k = "auth")
  /\ retryTimer' = (k \notin Halting /\ ~degraded)
  /\ UNCHANGED degraded
  /\ IF k \in Halting THEN Teardown(ss, cur, g) ELSE Keep(ss, cur, g)

HandleTransientError(k, ss, cur, g) ==
  \/ k \in Halting /\ EnterError(k, ss, cur, g)
  \/ /\ k \notin Halting
     /\ SetState("reconnecting")
     /\ transientTimer' = TRUE
     /\ Keep(ss, cur, g)
     /\ UNCHANGED <<retryTimer, latches>>

HandleDegraded(ss, cur, g) ==
  IF degraded
  THEN Keep(ss, cur, g) /\ UNCHANGED <<status, latches, timers>>
  ELSE /\ degraded' = TRUE
       /\ state' = "error" /\ kind' = "transient"
       /\ retryTimer' = FALSE /\ transientTimer' = FALSE
       /\ Teardown(ss, cur, g)
       /\ UNCHANGED auth

\* handleLocalDbError, for the errors that halt.
LocalDbHalts(f, ss, cur, g) ==
  \/ f = "degraded" /\ HandleDegraded(ss, cur, g)
  \/ /\ f = "quota"
     /\ IF state = "error" THEN Keep(ss, cur, g) ELSE Teardown(ss, cur, g)
     /\ UNCHANGED <<status, latches, timers>>

\* A session, or a step of it, fails with k before the session is live.
Fails(k, ss, cur, g) ==
  \/ k \in Kind /\ EnterError(k, ss, cur, g)
  \/ k = "degraded" /\ HandleDegraded(ss, cur, g)

\* An agreement check, or a look at the vault's root, that finds the remote
\* is not the one this device set up against ends the setup.
Paused(k) == setup' = (setup /\ k # "encryption-paused")

-----------------------------------------------------------------------------
(* Reconnects: one chain at a time, and one reason queued behind it.       *)

reasonPriority(r) ==
  CASE r = "manual" -> 5
    [] r = "app-resume" -> 4
    [] r \in {"app-foreground", "network-online"} -> 3
    [] r \in {"stalled", "config-failure"} -> 2
    [] r = "retry-backoff" -> 1
    [] r = "periodic-tick" -> 0

healthy == state \in {"connected", "syncing"}

\* A backoff retry has its own cadence; the rest wait out the cool-down.
decideReconnect(r) ==
  IF auth THEN "skip"
  ELSE IF r = "retry-backoff" THEN "verify-then-restart"
  ELSE IF cool THEN "skip"
  ELSE IF r = "app-resume" THEN "verify-then-restart"
  ELSE IF healthy THEN IF r \in {"stalled", "manual"} THEN "restart-now" ELSE "skip"
  ELSE IF r \in {"config-failure", "periodic-tick"} THEN "verify-then-restart"
  ELSE "restart-now"

\* What follows the tear-down waits until the old session has settled.
Restart(r, ss) ==
  /\ cool' = TRUE
  /\ chain' = [pc |-> "teardown", reason |-> r, waits |-> current]
  /\ Teardown(ss, current, gate)

\* Sets links, status and reconnects, as requestReconnect and doReconnect do.
Begin(r, ss) ==
  LET decision == decideReconnect(r) IN
    \/ /\ decision = "skip"
       /\ chain' = idle
       /\ Keep(ss, current, gate)
       /\ UNCHANGED <<status, cool>>
    \/ /\ decision = "verify-then-restart"
       /\ SetState("reconnecting")
       /\ chain' = [pc |-> "verify", reason |-> r, waits |-> None]
       /\ Keep(ss, current, gate)
       /\ UNCHANGED cool
    \/ /\ decision = "restart-now"
       /\ SetState("reconnecting")
       /\ Restart(r, ss)

Queue(r) ==
  LET above(q) == q = None \/ reasonPriority(r) > reasonPriority(q) IN
    queued' = IF above(chain.reason) /\ above(queued) THEN r ELSE queued

Request(r, ss) ==
  \/ chain.pc = "idle" /\ Begin(r, ss) /\ UNCHANGED queued
  \/ /\ chain.pc # "idle"
     /\ Queue(r)
     /\ Keep(ss, current, gate)
     /\ UNCHANGED <<status, chain, cool>>

\* The chain is done; what was queued starts before anything else runs.
EndChain ==
  /\ chain' = IF queued = None THEN idle
              ELSE [pc |-> "queued", reason |-> queued, waits |-> None]
  /\ queued' = None
  /\ UNCHANGED cool

\* An openSession returns to whoever called it.
Returns(byChain) == IF byChain THEN EndChain ELSE UNCHANGED reconnects

QueuedFires ==
  /\ chain.pc = "queued"
  /\ Begin(chain.reason, session)
  /\ UNCHANGED <<queued, latches, timers, probing, outside, bounds>>

-----------------------------------------------------------------------------
(* openSession, from its first test to the two live loops.                 *)

refusesToOpen == current # None \/ gate.open \/ ~setup \/ auth \/ degraded

Settled(s) == s # None => session[s].pc # "catchup" /\ session[s].loops = {}

ChainOpens ==
  /\ chain.pc = "teardown" /\ Settled(chain.waits)
  /\ \/ refusesToOpen /\ EndChain /\ UNCHANGED gate
     \/ /\ ~refusesToOpen
        /\ gate' = openedGate(TRUE)
        /\ chain' = [chain EXCEPT !.pc = "open", !.waits = None]
        /\ UNCHANGED <<queued, cool>>
  /\ UNCHANGED <<status, latches, timers, session, current, probing, outside,
                 bounds>>

free == {s \in Session : session[s] = noSession /\ probing # s /\ chain.waits # s}

Registered(s) ==
  session' = [session EXCEPT ![s] = [pc |-> "prepare", byChain |-> gate.byChain,
                                     disposed |-> FALSE, loops |-> {}, parked |-> {}]]

\* The agreement check passes; the session is registered unless a tear-down
\* came meanwhile.
GatePasses ==
  /\ gate.open
  /\ gate' = closedGate
  /\ \/ /\ gate.superseded
        /\ Returns(gate.byChain)
        /\ UNCHANGED <<status, session, current>>
     \/ /\ ~gate.superseded /\ free # {}
        /\ LET s == CHOOSE i \in free : \A j \in free : i <= j IN
             Registered(s) /\ current' = s
        /\ SetState("reconnecting")
        /\ UNCHANGED reconnects
  /\ UNCHANGED <<latches, timers, probing, outside, bounds>>

GateFails(k) ==
  /\ gate.open /\ Failure
  /\ Paused(k)
  /\ \/ /\ gate.superseded
        /\ Keep(session, current, closedGate)
        /\ UNCHANGED <<status, latches, timers>>
     \/ ~gate.superseded /\ EnterError(k, session, current, closedGate)
  /\ Returns(gate.byChain)
  /\ UNCHANGED <<probing, attached, hidden, raisedOver, events>>

Gone(s) == [session EXCEPT ![s] = noSession]

\* A disposed session's openSession returns at its next test.
Abandoned(s) ==
  /\ session[s].disposed
  /\ Keep(Gone(s), current, gate)
  /\ Returns(session[s].byChain)
  /\ UNCHANGED <<status, latches, timers, bounds>>

Advance(s, pc) == session' = [session EXCEPT ![s].pc = pc]

\* this.session = null, and the error goes to the supervisor.
OpenFails(s, k) ==
  /\ ~session[s].disposed /\ Failure
  /\ Fails(k, Gone(s), None, gate)
  /\ Returns(session[s].byChain)
  /\ UNCHANGED events

\* How a guarded operation of the local database ends when it fails: as it
\* failed, or "degraded" after a handle that was reopened in vain.
guarded == {"transient", "degraded"}

\* ensureHealthy, the checkpoints and the drift stamp.
Prepare(s) ==
  /\ session[s].pc = "prepare"
  /\ \/ Abandoned(s)
     \/ \E k \in guarded : OpenFails(s, k)
     \/ /\ ~session[s].disposed
        /\ Advance(s, "catchup")
        /\ SetState("syncing")
        /\ UNCHANGED <<latches, timers, current, gate, reconnects, bounds>>
  /\ UNCHANGED <<probing, outside>>

ComesUp_timers ==
  /\ SetState("connected")
  /\ transientTimer' = FALSE
  /\ UNCHANGED retryTimer

\* Caught up: a timer left from before would restart the session that came up.
ComesUp ==
  /\ SetState("connected")
  /\ retryTimer' = FALSE /\ transientTimer' = FALSE

CatchupEnds(s) ==
  /\ session[s].pc = "catchup"
  /\ \/ Abandoned(s) /\ UNCHANGED setup
     \/ \E k \in Kind \cup {"degraded"} : OpenFails(s, k) /\ Paused(k)
     \/ /\ ~session[s].disposed
        /\ Advance(s, "warmup")
        /\ ComesUp
        /\ UNCHANGED <<latches, current, gate, reconnects, setup, bounds>>
  /\ UNCHANGED <<probing, attached, hidden, raisedOver>>

\* The push's warm-up and backfill, whose failures are only logged.
WarmupEnds(s) ==
  /\ session[s].pc = "warmup"
  /\ \/ Abandoned(s)
     \/ /\ ~session[s].disposed
        /\ session' = [session EXCEPT ![s].pc = "live", ![s].loops = Loop]
        /\ Returns(session[s].byChain)
        /\ UNCHANGED <<status, latches, timers, current, gate, bounds>>
  /\ UNCHANGED <<probing, outside>>

-----------------------------------------------------------------------------
(* The live loops, of the session of the engine and of disposed ones.      *)

runs(s, l) == l \in session[s].loops \ session[s].parked

\* What a loop reports at once; hidden, the failure is the suspension's.
reportedAtOnce(l) == IF l = "pull" THEN Kind \ {"encryption-paused"}
                     ELSE {"transient", "schema-mismatch"}

\* What the pull reports after it has looked at the vault's root again: the
\* session may have been disposed meanwhile.
reportedLate(l) == IF l = "pull" THEN {"transient", "encryption-paused"} ELSE {}

LoopReports(s, l) ==
  /\ runs(s, l) /\ Failure
  /\ \E k \in Kind :
       /\ \/ k \in reportedLate(l)
          \/ k \in reportedAtOnce(l) /\ ~session[s].disposed /\ ~(Mobile /\ hidden)
       /\ HandleTransientError(k, session, current, gate)
       /\ Paused(k)
  /\ UNCHANGED <<reconnects, probing, attached, hidden, raisedOver, events>>

withoutLoop(s, l) ==
  LET r == [session[s] EXCEPT !.loops = @ \ {l}] IN
    [session EXCEPT ![s] = IF r.disposed THEN settledOrNot(r) ELSE r]

\* A loop ends by an error of the local database, disposed or not.
LoopHalts(s, l) ==
  /\ runs(s, l) /\ Failure
  /\ \E f \in LocalFailures : LocalDbHalts(f, withoutLoop(s, l), current, gate)
  /\ UNCHANGED <<reconnects, probing, outside, events>>

LoopEnds(s, l) ==
  /\ runs(s, l) /\ session[s].disposed
  /\ Keep(withoutLoop(s, l), current, gate)
  /\ UNCHANGED <<status, latches, timers, reconnects, probing, outside, bounds>>

\* waitVisible at the top of a loop.
Park(s, l) ==
  /\ Mobile /\ hidden
  /\ runs(s, l) /\ ~session[s].disposed
  /\ session' = [session EXCEPT ![s].parked = @ \cup {l}]
  /\ UNCHANGED <<status, latches, timers, current, gate, reconnects, probing,
                 outside, bounds>>

-----------------------------------------------------------------------------
(* Timers and the health check.                                            *)

RetryFires ==
  /\ retryTimer
  /\ retryTimer' = FALSE
  /\ Request("retry-backoff", session)
  /\ UNCHANGED <<transientTimer, latches, probing, outside, bounds>>

TransientFires ==
  /\ transientTimer
  /\ \/ state = "reconnecting" /\ EnterError("transient", session, current, gate)
     \/ /\ state # "reconnecting"
        /\ transientTimer' = FALSE
        /\ UNCHANGED <<status, latches, retryTimer, links>>
  /\ UNCHANGED <<reconnects, probing, outside, bounds>>

CoolDownEnds ==
  /\ cool
  /\ cool' = FALSE
  /\ UNCHANGED <<engine, chain, queued, probing, outside, bounds>>

isTerminalErrorState == state = "error" /\ kind \in Halting

stalledRecovery_never == FALSE

\* An error or a reconnect that nothing drives forward.
stalledRecovery ==
  /\ state \in {"reconnecting", "error"}
  /\ chain.pc = "idle" /\ ~retryTimer /\ ~transientTimer
  /\ ~degraded /\ ~isTerminalErrorState

HealthTick ==
  /\ attached /\ ~auth
  /\ \/ /\ state = "disconnected" \/ stalledRecovery
        /\ Request("periodic-tick", session)
        /\ UNCHANGED <<timers, latches, probing>>
     \/ /\ healthy /\ current # None /\ probing = None
        /\ probing' = current
        /\ UNCHANGED <<engine, reconnects>>
  /\ UNCHANGED <<outside, bounds>>

HealthAnswers ==
  /\ probing # None
  /\ probing' = None
  /\ \/ UNCHANGED <<engine, reconnects, bounds>>
     \/ /\ ~session[probing].disposed /\ Failure
        /\ \/ Request("stalled", session) /\ UNCHANGED <<timers, latches>>
           \/ \E k \in {"transient", "auth"} :
                EnterError(k, session, current, gate) /\ UNCHANGED reconnects
        /\ UNCHANGED events
  /\ UNCHANGED <<outside>>

VerifyOk ==
  /\ chain.pc = "verify"
  /\ Restart(chain.reason, session)
  /\ UNCHANGED <<status, latches, timers, queued, probing, outside, bounds>>

VerifyFails(k) ==
  /\ chain.pc = "verify" /\ Failure
  /\ \/ state # "error" /\ EnterError(k, session, current, gate)
     \/ state = "error" /\ UNCHANGED engine
  /\ EndChain
  /\ UNCHANGED <<probing, outside, events>>

\* The probe was frozen with the app: it proves nothing, and is repeated.
VerifyInconclusive ==
  /\ chain.pc = "verify" /\ Failure
  /\ \/ state # "error" /\ SetState("reconnecting")
     \/ state = "error" /\ UNCHANGED status
  /\ retryTimer' = TRUE
  /\ EndChain
  /\ UNCHANGED <<transientTimer, latches, links, probing, outside, events>>

-----------------------------------------------------------------------------
(* The user, the browser, and what the rest of the plugin asks for.        *)

Stopped ==
  /\ SetState("disconnected")
  /\ retryTimer' = FALSE /\ transientTimer' = FALSE
  /\ session' = Disposed(session, current) /\ current' = None

\* startSync of the plugin: stop, then start with the latches cleared. The
\* gate of an openSession that is still waiting there keeps this one out.
TurnOn ==
  /\ IF attached THEN Event ELSE UNCHANGED events
  /\ setup' = TRUE /\ attached' = TRUE
  /\ Stopped
  /\ auth' = FALSE /\ degraded' = FALSE
  /\ gate' = IF gate.open THEN [gate EXCEPT !.superseded = TRUE] ELSE openedGate(FALSE)
  /\ raisedOver' = FALSE
  /\ UNCHANGED <<reconnects, probing, hidden, failures>>

\* The switch, the plugin's unloading, or "Delete local database".
TurnOff ==
  /\ Event /\ attached
  /\ setup' \in {setup, FALSE} /\ attached' = FALSE
  /\ Stopped
  /\ gate' = [gate EXCEPT !.superseded = gate.open]
  /\ UNCHANGED <<latches, reconnects, probing, hidden, raisedOver, failures>>

\* "Reconnect sync", and a transient failure of the settings sync.
Asked ==
  /\ Event
  /\ \/ setup /\ ~auth /\ Request("manual", session)
     \/ Request("config-failure", session)
  /\ UNCHANGED <<timers, latches, probing, outside, failures>>

Offline ==
  /\ Event /\ attached
  /\ healthy /\ SetState("disconnected")
  /\ UNCHANGED <<latches, timers, links, reconnects, probing, outside, failures>>

Online ==
  /\ Event /\ attached
  /\ Request("network-online", session)
  /\ UNCHANGED <<timers, latches, probing, outside, failures>>

Hide ==
  /\ Event /\ ~hidden
  /\ hidden' = TRUE
  /\ UNCHANGED <<engine, reconnects, probing, attached, setup, raisedOver,
                 failures>>

awake == [s \in Session |-> [session[s] EXCEPT !.parked = {}]]

resumeReasons == IF Mobile THEN {"app-resume"} ELSE {"app-resume", "app-foreground"}

Show ==
  /\ hidden
  /\ hidden' = FALSE
  /\ \/ ~attached /\ UNCHANGED <<engine, reconnects>>
     \/ /\ attached
        /\ \E r \in resumeReasons : Request(r, awake)
        /\ UNCHANGED <<timers, latches>>
  /\ UNCHANGED <<probing, attached, setup, raisedOver, bounds>>

\* Another part of the plugin meets 401, or a Test succeeds.
RaiseAuth ==
  /\ Event /\ ~auth
  /\ auth' = TRUE
  /\ raisedOver' = (state = "error")
  /\ \/ state = "error" /\ UNCHANGED <<status, retryTimer, links>>
     \/ /\ state # "error"
        /\ state' = "error" /\ kind' = "auth"
        /\ retryTimer' = FALSE
        /\ Teardown(session, current, gate)
  /\ UNCHANGED <<degraded, transientTimer, reconnects, probing, attached, setup,
                 hidden, failures>>

ClearAuth ==
  /\ auth
  /\ auth' = FALSE
  /\ UNCHANGED <<status, degraded, timers, links, reconnects, probing, outside,
                 bounds>>

-----------------------------------------------------------------------------
User == TurnOn \/ TurnOff \/ Asked \/ RaiseAuth \/ ClearAuth
Browser == Offline \/ Online \/ Hide \/ Show
Timers == RetryFires \/ TransientFires \/ CoolDownEnds \/ HealthTick
Answers ==
  \/ GatePasses \/ \E k \in {"transient", "auth", "encryption-paused"} : GateFails(k)
  \/ \E s \in Session : Prepare(s) \/ CatchupEnds(s) \/ WarmupEnds(s)
  \/ ChainOpens \/ HealthAnswers \/ VerifyOk \/ VerifyInconclusive
  \/ \E k \in {"transient", "auth"} : VerifyFails(k)
Loops == \E s \in Session, l \in Loop :
           LoopReports(s, l) \/ LoopHalts(s, l) \/ LoopEnds(s, l) \/ Park(s, l)

\* A queued reconnect is a microtask: nothing else runs before it.
Next ==
  \/ QueuedFires
  \/ chain.pc # "queued" /\ (User \/ Browser \/ Timers \/ Answers \/ Loops)

Spec == Init /\ [][Next]_vars

\* Every await ends, by an answer or a timeout of its own, and timers fire.
FairSpec ==
  /\ Spec
  /\ WF_vars(QueuedFires) /\ WF_vars(GatePasses) /\ WF_vars(ChainOpens)
  /\ WF_vars(VerifyOk) /\ WF_vars(HealthAnswers)
  /\ WF_vars(RetryFires) /\ WF_vars(TransientFires) /\ WF_vars(CoolDownEnds)
  /\ SF_vars(HealthTick)
  /\ \A s \in Session :
       /\ WF_vars(Prepare(s)) /\ WF_vars(CatchupEnds(s)) /\ WF_vars(WarmupEnds(s))
       /\ \A l \in Loop : WF_vars(LoopEnds(s, l))

-----------------------------------------------------------------------------
(* Safety.                                                                 *)

(***************************************************************************)
(* Of all the sessions that exist, only the engine's own goes on: every    *)
(* other one is disposed, whoever opened it and however far it came.       *)
(***************************************************************************)
SoleSession ==
  \A s \in Session : ~session[s].disposed => s = current

(***************************************************************************)
(* The chain of reconnects and the openings that belong to it are one      *)
(* thing: whoever waits for the chain waits for exactly one opening.       *)
(***************************************************************************)
chainOpenings ==
  {s \in Session : session[s].byChain /\ session[s].pc \in {"prepare", "catchup", "warmup"}}

OneOpeningPerChain ==
  LET inGate == IF gate.open /\ gate.byChain THEN 1 ELSE 0 IN
    Cardinality(chainOpenings) + inGate = IF chain.pc = "open" THEN 1 ELSE 0

(***************************************************************************)
(* A local database found unusable keeps every session closed, also those  *)
(* whose opening was under way.                                            *)
(***************************************************************************)
DegradedStaysDown == degraded => current = None

(***************************************************************************)
(* Openings and sessions are never doubled: the three above.               *)
(***************************************************************************)
OneSession == SoleSession /\ OneOpeningPerChain /\ DegradedStaysDown

(***************************************************************************)
(* What every step of the engine keeps: the inductive invariant behind     *)
(* them. A session is the engine's from its registration to its disposal;  *)
(* an opening that waits at its gate has been told of every tear-down      *)
(* since, and of nothing else; a queued reconnect is alone.                *)
(***************************************************************************)
CurrentIsAlive ==
  /\ \A s \in Session : ~session[s].disposed <=> s = current
  /\ current # None => session[current].pc # "none"

GateIsTold == gate.open /\ ~gate.superseded => current = None /\ ~degraded

QueuedAlone == chain.pc = "queued" => queued = None

EngineInv == TypeOK /\ OneSession /\ CurrentIsAlive /\ GateIsTold /\ QueuedAlone

(***************************************************************************)
(* No timer is left that would tear down a session that has come up.       *)
(***************************************************************************)
QuietWhenUp == state = "connected" => ~retryTimer /\ ~transientTimer

(***************************************************************************)
(* While the engine is started, a loop waits for the page to show only     *)
(* while it is hidden, and no disposed session's loop waits for it.        *)
(***************************************************************************)
NoLostWakeup ==
  \A s \in Session : session[s].parked # {} => ~session[s].disposed /\ (attached => hidden)

(***************************************************************************)
(* "A mismatch means a stop/teardown/unload raced in ... the continuation  *)
(* must abort rather than resurrect a session on a torn-down / closing     *)
(* engine": once stopped, the engine opens no session until it is started. *)
(***************************************************************************)
StopIsFinal == [][~attached /\ current' # None => current' = current]_vars

-----------------------------------------------------------------------------
(* Refinement and liveness.                                                *)

caughtUp == current # None /\ session[current].pc \in {"warmup", "live"}

Live == INSTANCE LiveSession WITH link <- current, up <- caughtUp,
                                  shown <- state = "connected"

(***************************************************************************)
(* The engine is one LiveSession: a session closes before another opens,   *)
(* and "connected" is shown from its catch-up on, while it exists.         *)
(***************************************************************************)
IsLiveSession == Live!Spec

up == state = "connected" /\ caughtUp /\ session[current].loops = Loop

\* A latch raised over another error leaves the engine's session and state alone.
usersTurn == ~attached \/ ~setup \/ auth \/ raisedOver \/ degraded \/ isTerminalErrorState

(***************************************************************************)
(* Whatever fails and in whatever order it is noticed, the engine comes up *)
(* again by itself, unless it is the user who has to act.                  *)
(***************************************************************************)
RecoversByItself == []<>(up \/ usersTurn)

=============================================================================
