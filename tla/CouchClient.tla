----------------------------- MODULE CouchClient -----------------------------
(***************************************************************************)
(* The HTTP client of one database, with the retry layer of the one-shot    *)
(* operations over it: concurrent calls, each of one or more requests, that *)
(* share the client's latch for compressed bodies.  A request ends by its    *)
(* answer, by a failure of the network, by one of its timers or by the       *)
(* caller's signal.                                                         *)
(*                                                                         *)
(* One member of Kind stands for the methods that work alike:               *)
(*   info        info, getDoc: a short answer read at once                  *)
(*   ensureDb    ensureDb, destroy: the same, and a write                   *)
(*   bulkGet     bulkGet, allDocs by keys: read by POST, batch by batch     *)
(*   bulkDocs    bulkDocs, also with attachments: written batch by batch    *)
(*   changes     paginateChanges, paginateAllDocs: read page by page        *)
(*   attachment  getAttachment: bytes                                       *)
(*   longpoll    changesLongpoll                                            *)
(***************************************************************************)
EXTENDS Naturals, FiniteSets

CONSTANTS
    Call,         \* places for calls under way
    Kind,         \* the methods called
    MaxRetries,   \* of the retry layer; 0 for the client of the live sync
    MaxBatch,     \* batches of a bulk call, pages of a feed
    MaxCalls,     \* calls started
    MaxFaults,    \* failures of the network, silences, server errors; what a
                  \* timer or the signal ends counts with them, beyond the bound too
    Rejections,   \* how a server may refuse a compressed body, "none" if it takes it
    Windows       \* "errorText": the body of an error answer may stop coming

ASSUME CouchAssumption ==
    /\ Kind \subseteq {"info", "ensureDb", "bulkGet", "bulkDocs", "changes", "attachment", "longpoll"}
    /\ Rejections \subseteq {"none", "status", "preflight"}
    /\ Windows \subseteq {"errorText"}
    /\ {MaxRetries, MaxBatch, MaxCalls, MaxFaults} \subseteq Nat /\ MaxBatch > 0

VARIABLES
    rejection,        \* how this server refuses compressed bodies
    gzipRequestBody,  \* the latch: large bodies are sent compressed
    call,             \* the calls
    aborted,          \* calls whose caller's signal is aborted
    started, faults

vars == <<rejection, gzipRequestBody, call, aborted, started, faults>>

short    == {"info", "ensureDb"}
batched  == {"bulkGet", "bulkDocs"}
feeds    == {"changes"}
binary   == {"attachment"}
streamed == batched \cup feeds \cup binary

\* The retry layer passes writes through, and what only the live sync calls.
passedOn == {"ensureDb", "bulkDocs", "longpoll"}
retried_writes(kind) == kind \notin passedOn \ batched
retried(kind) == kind \notin passedOn

TRANSIENT_KINDS == {"network", "timeout", "server"}

\* pc: idle, compress, fetch (no headers yet), errorText, body, settle (the
\* controller is aborted), sleep (before a retry), done.
NewCall(kind, large) ==
    [kind |-> kind, large |-> large, pc |-> "idle", batch |-> 1, attempt |-> 0,
     compressed |-> FALSE, probe |-> FALSE, answer |-> "none", silent |-> FALSE,
     external |-> FALSE, maxWait |-> FALSE, result |-> "none",
     taken |-> {}, twice |-> FALSE]

Init ==
    /\ rejection \in Rejections
    /\ gzipRequestBody = TRUE
    /\ call = [c \in Call |-> NewCall("info", FALSE)]
    /\ aborted = {} /\ started = 0 /\ faults = 0

Becomes(c, r) == call' = [call EXCEPT ![c] = r]
Fault == faults < MaxFaults /\ faults' = faults + 1
Late == faults' = IF faults < MaxFaults THEN faults + 1 ELSE faults
At(c, pcs) == call[c].pc \in pcs

----------------------------------------------------------------------------
(* How a call goes on.                                                      *)

Ended(r, result) == [NewCall(r.kind, r.large) EXCEPT
    !.pc = "done", !.result = result, !.taken = r.taken, !.twice = r.twice]

(* The retry layer: an idempotent read is tried again after a transient
   failure, unless its caller has given up; all of it, but for the pages a
   feed already has. *)
retry(r, gaveUp, error) ==
    IF /\ retried(r.kind) /\ ~gaveUp
       /\ error \in TRANSIENT_KINDS /\ r.attempt < MaxRetries
    THEN [r EXCEPT !.pc = "sleep", !.attempt = @ + 1, !.probe = FALSE,
                   !.batch = IF r.kind \in feeds THEN @ ELSE 1]
    ELSE Ended(r, error)

(* A probe that fails surfaces the error it was made for. *)
Thrown(r, gaveUp, error) == retry(r, gaveUp, IF r.probe THEN "network" ELSE error)

(* What a failed probe says is that compression was not to blame. *)
restored_always(r) == TRUE
restored(r) == gzipRequestBody \/ r.probe

(* The next request of a call: none once the signal is aborted. *)
compresses(r) == r.kind \in batched /\ r.large /\ gzipRequestBody
request_unchecked(r, gaveUp) ==
    [r EXCEPT !.pc = IF compresses(r) THEN "compress" ELSE "fetch",
              !.compressed = compresses(r), !.answer = "none", !.silent = FALSE,
              !.external = FALSE, !.maxWait = FALSE]
request(r, gaveUp) ==
    IF gaveUp THEN Thrown(r, gaveUp, "aborted")
    ELSE [r EXCEPT !.pc = IF compresses(r) THEN "compress" ELSE "fetch",
                   !.compressed = compresses(r), !.answer = "none", !.silent = FALSE,
                   !.external = FALSE, !.maxWait = FALSE]

(* The original, uncompressed request once more, from the failed one. *)
resend(r, probe) ==
    [r EXCEPT !.pc = "fetch", !.compressed = FALSE, !.probe = probe, !.answer = "none",
              !.silent = FALSE, !.external = FALSE]

(* The controller is aborted; the fetch is rejected a moment later. The text of
   an error answer only ends there, and the answer stands. *)
Cut(r) == IF r.pc = "errorText" THEN [r EXCEPT !.silent = FALSE]
          ELSE [r EXCEPT !.pc = "settle", !.answer = "none", !.silent = FALSE]

(* After a batch the next one; after the last the call returns. *)
bulk(r, gaveUp) ==
    IF r.kind \in batched /\ r.batch < MaxBatch
    THEN request([r EXCEPT !.batch = @ + 1, !.probe = FALSE], gaveUp)
    ELSE Ended(r, "ok")

(* Each page is a call of its own to the retry layer; the feed ends at any. *)
paginate(r, gaveUp) ==
    {Ended(r, "ok")} \cup
    IF r.batch < MaxBatch THEN {request([r EXCEPT !.batch = @ + 1, !.attempt = 0], gaveUp)} ELSE {}

Returned(r, gaveUp) == IF r.kind \in feeds THEN paginate(r, gaveUp) ELSE {bulk(r, gaveUp)}

----------------------------------------------------------------------------
(* The caller and its signal *)

Start(c, kind, large) ==
    /\ At(c, {"idle", "done"}) /\ started < MaxCalls
    /\ large => kind \in batched
    /\ Becomes(c, request(NewCall(kind, large), FALSE))
    /\ aborted' = aborted \ {c} /\ started' = started + 1
    /\ UNCHANGED <<rejection, gzipRequestBody, faults>>

(* The listener of a request aborts it; a retry's sleep is cut short.  A body
   being compressed has no listener yet: the signal is not heard. *)
Abort(c) ==
    /\ ~At(c, {"idle", "done"}) /\ c \notin aborted
    /\ aborted' = aborted \cup {c} /\ Late
    /\ Becomes(c, CASE At(c, {"fetch", "errorText", "body", "settle"}) ->
                         [Cut(call[c]) EXCEPT !.external = TRUE]
                    [] At(c, {"sleep"}) -> Ended(call[c], "aborted")
                    [] At(c, {"compress"}) -> call[c])
    /\ UNCHANGED <<rejection, gzipRequestBody, started>>

Wake(c) ==
    /\ At(c, {"sleep"})
    /\ Becomes(c, request(call[c], c \in aborted))
    /\ UNCHANGED <<rejection, gzipRequestBody, aborted, started, faults>>

Compressed(c) ==
    /\ At(c, {"compress"})
    /\ Becomes(c, [call[c] EXCEPT !.pc = "fetch"])
    /\ UNCHANGED <<rejection, gzipRequestBody, aborted, started, faults>>

----------------------------------------------------------------------------
(* The server and the network *)

(* A request reaches the server: what it writes is taken from then on, also
   if the answer is lost. *)
Serve(c) ==
    LET r == call[c] IN
    /\ At(c, {"fetch"}) /\ r.answer = "none"
    /\ r.compressed => rejection # "preflight"
    /\ \/ /\ ~(r.compressed /\ rejection = "status")
          /\ Becomes(c, IF r.kind # "bulkDocs" THEN [r EXCEPT !.answer = "ok"]
                        ELSE [r EXCEPT !.answer = "ok", !.taken = @ \cup {<<r.batch, r.compressed>>},
                                       !.twice = @ \/ <<r.batch, r.compressed>> \in r.taken])
          /\ UNCHANGED faults
       \/ /\ r.compressed /\ rejection = "status"
          /\ Becomes(c, [r EXCEPT !.answer = "unsupported"])
          /\ UNCHANGED faults
       \/ Fault /\ Becomes(c, [r EXCEPT !.answer = "server"])
    /\ UNCHANGED <<rejection, gzipRequestBody, aborted, started>>

(* With the headers the header timer is gone. *)
HeadersArrive(c) ==
    /\ At(c, {"fetch"}) /\ call[c].answer # "none"
    /\ Becomes(c, IF call[c].answer # "ok" THEN [call[c] EXCEPT !.pc = "errorText"]
                  ELSE [call[c] EXCEPT !.pc = "body", !.answer = "none"])
    /\ UNCHANGED <<rejection, gzipRequestBody, aborted, started, faults>>

(* The bytes of an answer stop coming. *)
Silence(c) ==
    /\ ~call[c].silent /\ Fault
    /\ At(c, {"body"}) \/ (At(c, {"errorText"}) /\ "errorText" \in Windows)
    /\ Becomes(c, [call[c] EXCEPT !.silent = TRUE])
    /\ UNCHANGED <<rejection, gzipRequestBody, aborted, started>>

----------------------------------------------------------------------------
(* The client *)

(* The text of an error answer is read; 415 to a compressed body drops the
   latch and sends the request again, unless the latch is dropped already. *)
ErrorAnswer(c) ==
    LET r == call[c]
        falls == r.answer = "unsupported" /\ r.compressed /\ gzipRequestBody
    IN /\ At(c, {"errorText"}) /\ ~r.silent
       /\ gzipRequestBody' = IF falls THEN FALSE ELSE restored(r)
       /\ Becomes(c, CASE falls /\ c \notin aborted -> resend(r, FALSE)
                       [] falls /\ c \in aborted ->
                              retry(r, TRUE, IF r.external THEN "aborted" ELSE "timeout")
                       [] ~falls /\ r.answer = "unsupported" -> Thrown(r, c \in aborted, "unknown")
                       [] ~falls /\ r.answer = "server" -> Thrown(r, c \in aborted, "server"))
       /\ UNCHANGED <<rejection, aborted, started, faults>>

Finish(c) ==
    /\ At(c, {"body"}) /\ ~call[c].silent
    /\ \E r \in Returned(call[c], c \in aborted) : Becomes(c, r)
    /\ UNCHANGED <<rejection, gzipRequestBody, aborted, started, faults>>

(* The fetch, or the reading of the body, fails with a TypeError: a compressed
   request is taken to be the reason, and the original is sent as a probe. *)
NetworkError(c) ==
    LET r == call[c]
        probes == r.compressed /\ gzipRequestBody
    IN /\ IF probes /\ c \in aborted
          THEN UNCHANGED gzipRequestBody /\ Becomes(c, retry(r, TRUE, "network"))
          ELSE /\ gzipRequestBody' = IF probes THEN FALSE ELSE restored(r)
               /\ Becomes(c, IF probes THEN resend(r, TRUE)
                             ELSE Thrown(r, c \in aborted, "network"))
       /\ UNCHANGED <<rejection, aborted, started>>

NetworkFails(c) == At(c, {"fetch", "body"}) /\ Fault /\ NetworkError(c)

PreflightFails(c) ==
    /\ At(c, {"fetch"}) /\ call[c].compressed /\ rejection = "preflight"
    /\ NetworkError(c) /\ UNCHANGED faults

(* No headers in time; no byte in time; a longpoll that only beats. *)
headerTimer(r) == r.pc = "fetch" /\ r.kind # "longpoll"
bodyTimer(r)   == r.pc = "body" /\ r.kind \in short
staleTimer(r)  == /\ r.silent \/ r.pc = "fetch"
                  /\ \/ r.kind \in streamed /\ r.pc = "body"
                     \/ r.kind = "longpoll" /\ r.pc \in {"fetch", "errorText", "body"}
maxWaitTimer_headers(r) == r.kind = "longpoll" /\ r.pc = "fetch"
maxWaitTimer(r) == r.kind = "longpoll" /\ r.pc \in {"fetch", "errorText", "body"}

TimerFires(c) ==
    LET r == call[c] IN
    /\ \/ /\ headerTimer(r) \/ bodyTimer(r) \/ staleTimer(r)
          /\ Becomes(c, Cut(r))
       \/ /\ maxWaitTimer(r)
          /\ Becomes(c, [Cut(r) EXCEPT !.maxWait = TRUE])
    /\ Late
    /\ UNCHANGED <<rejection, gzipRequestBody, aborted, started>>

(* The rejection of an aborted fetch is told apart by what aborted it: the
   signal goes before the timers; a longpoll that has waited long enough
   returns an empty answer, and one that fell silent is no known error. *)
longpollEnds(r) == IF r.maxWait THEN Ended(r, "empty") ELSE Thrown(r, FALSE, "unknown")
Settle(c) ==
    LET r == call[c] IN
    /\ At(c, {"settle"})
    /\ Becomes(c, IF r.external THEN Thrown(r, TRUE, "aborted")
                  ELSE IF r.kind = "longpoll" THEN longpollEnds(r)
                  ELSE Thrown(r, c \in aborted, "timeout"))
    /\ gzipRequestBody' = restored(r)
    /\ UNCHANGED <<rejection, aborted, started, faults>>

----------------------------------------------------------------------------
Ours(c) == Wake(c) \/ Compressed(c) \/ ErrorAnswer(c) \/ Settle(c) \/ TimerFires(c)

Next ==
    \E c \in Call :
        \/ \E kind \in Kind, large \in BOOLEAN : Start(c, kind, large)
        \/ Abort(c) \/ Ours(c) \/ Serve(c) \/ HeadersArrive(c) \/ Silence(c) \/ Finish(c)
        \/ NetworkFails(c) \/ PreflightFails(c)

Spec == Init /\ [][Next]_vars

(* The client's own steps and its timers, and nothing of the server or the
   network but that a body whose bytes come ends, unless it is a longpoll's. *)
FairSpec ==
    /\ Spec
    /\ \A c \in Call : WF_vars(Ours(c)) /\ WF_vars(call[c].kind # "longpoll" /\ Finish(c))

----------------------------------------------------------------------------
(* Properties *)

pcs == {"idle", "compress", "fetch", "errorText", "body", "settle", "sleep", "done"}

Record ==
    [kind : Kind \cup {"info"}, large : BOOLEAN, pc : pcs, batch : 1..MaxBatch,
     attempt : 0..MaxRetries, compressed : BOOLEAN, probe : BOOLEAN,
     answer : {"none", "ok", "unsupported", "server"}, silent : BOOLEAN,
     external : BOOLEAN, maxWait : BOOLEAN,
     result : {"none", "ok", "empty", "aborted", "unknown"} \cup TRANSIENT_KINDS,
     taken : SUBSET ((1..MaxBatch) \X BOOLEAN), twice : BOOLEAN]

TypeOK ==
    /\ rejection \in Rejections /\ gzipRequestBody \in BOOLEAN /\ aborted \subseteq Call
    /\ started \in 0..MaxCalls /\ faults \in 0..MaxFaults
    /\ call \in [Call -> Record]

Goes(c) == \/ /\ call'[c].pc \in {"fetch", "compress"}
              /\ call[c].pc \notin {"fetch", "compress"}
           \/ call[c].compressed /\ ~call'[c].compressed /\ call'[c].pc = "fetch"

(* "If caller's signal is already aborted we never touch the network": but for
   the request whose body is being compressed when the signal falls, a call
   that was given up sends nothing more, neither a batch, a page, a retry nor
   a probe. *)
CancelStopsIt == [][\A c \in Call : c \in aborted /\ c \in aborted' => ~Goes(c)]_vars

(* A write is not sent again after an unknown outcome, but for the probe of a
   compressed one: no batch is taken twice in one form, and a call that
   returns has had every batch taken. *)
WrittenOnce ==
    \A c \in Call : call[c].kind = "bulkDocs" =>
        /\ ~call[c].twice
        /\ call[c].result = "ok" => {t[1] : t \in call[c].taken} = 1..MaxBatch

(* With a network that does not fail, answers in time and callers that do not
   give up, a body the server cannot read fails a call only while another call
   has found it out: who comes later is sent uncompressed. *)
RejectionIsLearnt ==
    \A c \in Call :
        faults = 0 /\ call[c].result \in {"network", "unknown"}
        => ~gzipRequestBody

(* Every call ends, whatever the server does: a timer guards each wait. *)
EveryCallEnds == \A c \in Call : ~At(c, {"idle", "done"}) ~> At(c, {"idle", "done"})
=============================================================================
