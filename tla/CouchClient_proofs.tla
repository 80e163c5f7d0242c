------------------------- MODULE CouchClient_proofs -------------------------
(***************************************************************************)
(* What the HTTP client promises of every call, proved for any number of   *)
(* concurrent calls, batches, retries and failures, and any refusal of     *)
(* compressed bodies.                                                      *)
(***************************************************************************)
EXTENDS CouchClient, TLAPS

Result == {"none", "ok", "empty", "aborted", "unknown"} \cup TRANSIENT_KINDS
Failed == {"aborted", "unknown"} \cup TRANSIENT_KINDS

-----------------------------------------------------------------------------
(* The records of the calls. *)

LEMMA NewCallType ==
  ASSUME NEW kind \in Kind \cup {"info"}, NEW large \in BOOLEAN
  PROVE  NewCall(kind, large) \in Record
  BY CouchAssumption DEF NewCall, Record, pcs

LEMMA EndedType ==
  ASSUME NEW r \in Record, NEW result \in Result
  PROVE  /\ Ended(r, result) \in Record
         /\ Ended(r, result).kind = r.kind /\ Ended(r, result).pc = "done"
         /\ Ended(r, result).result = result /\ Ended(r, result).taken = r.taken
         /\ Ended(r, result).twice = r.twice /\ Ended(r, result).answer = "none"
         /\ Ended(r, result).probe = FALSE /\ Ended(r, result).compressed = FALSE
<1>1. r.kind \in Kind \cup {"info"} /\ r.large \in BOOLEAN /\ r.taken \in SUBSET ((1..MaxBatch) \X BOOLEAN)
      /\ r.twice \in BOOLEAN
  BY DEF Record
<1>2. 1 \in 1..MaxBatch /\ 0 \in 0..MaxRetries
  BY CouchAssumption
<1> DEFINE n == NewCall(r.kind, r.large)
           e == Ended(r, result)
<1>3. e = [n EXCEPT !.pc = "done", !.result = result, !.taken = r.taken, !.twice = r.twice]
  BY DEF Ended
<1>6. n \in Record /\ n.kind = r.kind /\ n.answer = "none" /\ n.probe = FALSE /\ n.compressed = FALSE
  BY <1>1, NewCallType DEF NewCall
<1> HIDE DEF n, e
<1>4. e \in Record
  BY <1>1, <1>3, <1>6 DEF Record, pcs, Result
<1>5. /\ e.kind = r.kind /\ e.pc = "done" /\ e.result = result /\ e.taken = r.taken
      /\ e.twice = r.twice /\ e.answer = "none" /\ e.probe = FALSE /\ e.compressed = FALSE
  BY <1>3, <1>6 DEF Record
<1> QED
  BY <1>4, <1>5 DEF e

LEMMA RetryIs ==
  ASSUME NEW r \in Record, NEW gaveUp \in BOOLEAN, NEW error \in Failed
  PROVE  LET x == retry(r, gaveUp, error)
         IN /\ x \in Record /\ x.kind = r.kind
            /\ x = Ended(r, error) \/ x.pc = "sleep"
            /\ gaveUp \/ ~retried(r.kind) => x = Ended(r, error)
            /\ x.pc = "sleep" => /\ x.probe = FALSE /\ x.result = r.result
                                 /\ x.answer = r.answer /\ x.compressed = r.compressed
<1> DEFINE x == retry(r, gaveUp, error)
           s == [r EXCEPT !.pc = "sleep", !.attempt = @ + 1, !.probe = FALSE,
                          !.batch = IF r.kind \in feeds THEN @ ELSE 1]
           again == retried(r.kind) /\ ~gaveUp /\ error \in TRANSIENT_KINDS /\ r.attempt < MaxRetries
<1>1. error \in Result /\ Failed \subseteq Result
  BY DEF Failed, Result
<1>2. Ended(r, error) \in Record /\ Ended(r, error).kind = r.kind /\ Ended(r, error).pc = "done"
  BY <1>1, EndedType
<1>3. x = IF again THEN s ELSE Ended(r, error)
  BY DEF retry
<1>4. ASSUME again
      PROVE  /\ s \in Record /\ s.kind = r.kind /\ s.pc = "sleep" /\ s.probe = FALSE
             /\ s.result = r.result /\ s.answer = r.answer /\ s.compressed = r.compressed
  <2>1. 1 \in 1..MaxBatch /\ r.attempt + 1 \in 0..MaxRetries
    BY <1>4, CouchAssumption DEF Record
  <2> QED
    BY <2>1 DEF Record, pcs
<1> HIDE DEF x, s
<1>5. x \in Record /\ x.kind = r.kind /\ (x = Ended(r, error) \/ x.pc = "sleep")
  BY <1>2, <1>3, <1>4
<1>6. gaveUp \/ ~retried(r.kind) => x = Ended(r, error)
  BY <1>3
<1>7. x.pc = "sleep" => x = s
  BY <1>2, <1>3
<1>8. ASSUME x.pc = "sleep"
      PROVE  /\ x.probe = FALSE /\ x.result = r.result
             /\ x.answer = r.answer /\ x.compressed = r.compressed
  <2>1. CASE again
    BY <2>1, <1>3, <1>4
  <2>2. CASE ~again
    BY <2>2, <1>2, <1>3, <1>8
  <2> QED
    BY <2>1, <2>2
<1> QED
  BY <1>5, <1>6, <1>8 DEF x

LEMMA ThrownIs ==
  ASSUME NEW r \in Record, NEW gaveUp \in BOOLEAN, NEW error \in Failed
  PROVE  \E e \in Failed : /\ Thrown(r, gaveUp, error) = retry(r, gaveUp, e)
                           /\ e = IF r.probe THEN "network" ELSE error
  BY DEF Thrown, Failed, TRANSIENT_KINDS

Asked(r) == [r EXCEPT !.pc = IF compresses(r) THEN "compress" ELSE "fetch",
                      !.compressed = compresses(r), !.answer = "none", !.silent = FALSE,
                      !.external = FALSE, !.maxWait = FALSE]

LEMMA AskedIs ==
  ASSUME TypeOK, NEW r \in Record
  PROVE  /\ Asked(r) \in Record /\ Asked(r).kind = r.kind /\ Asked(r).batch = r.batch
         /\ Asked(r).pc = (IF Asked(r).compressed THEN "compress" ELSE "fetch")
         /\ Asked(r).compressed => r.kind \in batched /\ gzipRequestBody
         /\ Asked(r).answer = "none" /\ Asked(r).probe = r.probe /\ Asked(r).result = r.result
         /\ Asked(r).taken = r.taken /\ Asked(r).twice = r.twice
<1>1. compresses(r) \in BOOLEAN
  BY DEF compresses, TypeOK, Record
<1>2. compresses(r) => r.kind \in batched /\ gzipRequestBody
  BY DEF compresses
<1> QED
  BY <1>1, <1>2 DEF Asked, Record, pcs

LEMMA RequestIs ==
  ASSUME NEW r, NEW gaveUp \in BOOLEAN
  PROVE  request(r, gaveUp) = IF gaveUp THEN Thrown(r, gaveUp, "aborted") ELSE Asked(r)
  BY DEF request, Asked

LEMMA RequestType ==
  ASSUME TypeOK, NEW r \in Record, NEW gaveUp \in BOOLEAN
  PROVE  request(r, gaveUp) \in Record /\ request(r, gaveUp).kind = r.kind
<1>1. "aborted" \in Failed
  BY DEF Failed
<1>2. CASE gaveUp
  <2>1. PICK e \in Failed : Thrown(r, gaveUp, "aborted") = retry(r, gaveUp, e)
    BY <1>1, ThrownIs
  <2>2. retry(r, gaveUp, e) \in Record /\ retry(r, gaveUp, e).kind = r.kind
    BY RetryIs
  <2> QED
    BY <1>2, <2>1, <2>2, RequestIs
<1>3. CASE ~gaveUp
  BY <1>3, RequestIs, AskedIs
<1> QED
  BY <1>2, <1>3

LEMMA RequestEnds ==
  ASSUME TypeOK, NEW r \in Record, NEW gaveUp \in BOOLEAN
  PROVE  /\ ~gaveUp => request(r, gaveUp) = Asked(r)
         /\ gaveUp => \E e \in Failed : request(r, gaveUp) = Ended(r, e)
         /\ request(r, gaveUp).pc \in {"compress", "fetch", "done"}
<1>1. "aborted" \in Failed /\ Failed \subseteq Result
  BY DEF Failed, Result
<1>2. ASSUME gaveUp PROVE \E e \in Failed : request(r, gaveUp) = Ended(r, e) /\ Ended(r, e).pc = "done"
  <2>1. PICK e \in Failed : Thrown(r, gaveUp, "aborted") = retry(r, gaveUp, e)
    BY <1>1, ThrownIs
  <2>2. retry(r, gaveUp, e) = Ended(r, e)
    BY <1>2, RetryIs
  <2>3. Ended(r, e).pc = "done"
    BY <1>1, EndedType
  <2> QED
    BY <1>2, <2>1, <2>2, <2>3, RequestIs
<1>3. ASSUME ~gaveUp PROVE request(r, gaveUp) = Asked(r) /\ Asked(r).pc \in {"compress", "fetch"}
  BY <1>3, RequestIs, AskedIs
<1> QED
  BY <1>2, <1>3

LEMMA CutType ==
  ASSUME NEW r \in Record
  PROVE  /\ Cut(r) \in Record /\ Cut(r).kind = r.kind
         /\ \/ Cut(r).pc = "settle" /\ Cut(r).answer = "none"
            \/ r.pc = "errorText" /\ Cut(r).pc = "errorText" /\ Cut(r).answer = r.answer
         /\ [Cut(r) EXCEPT !.external = TRUE] \in Record
         /\ [Cut(r) EXCEPT !.maxWait = TRUE] \in Record
         /\ Cut(r).batch = r.batch /\ Cut(r).compressed = r.compressed
         /\ Cut(r).probe = r.probe /\ Cut(r).taken = r.taken /\ Cut(r).twice = r.twice
         /\ Cut(r).result = r.result
<1> DEFINE k == Cut(r)
<1>1. CASE r.pc = "errorText"
  <2>1. k = [r EXCEPT !.silent = FALSE]
    BY <1>1 DEF Cut
  <2> HIDE DEF k
  <2> QED
    BY <1>1, <2>1 DEF Record, k
<1>2. CASE r.pc # "errorText"
  <2>1. k = [r EXCEPT !.pc = "settle", !.answer = "none", !.silent = FALSE]
    BY <1>2 DEF Cut
  <2>2. k \in Record
    BY <2>1 DEF Record, pcs
  <2> HIDE DEF k
  <2> QED
    BY <2>1, <2>2 DEF Record, k
<1> QED
  BY <1>1, <1>2

LEMMA ResendType ==
  ASSUME NEW r \in Record, NEW probe \in BOOLEAN
  PROVE  LET x == resend(r, probe)
         IN /\ x \in Record /\ x.kind = r.kind /\ x.pc = "fetch" /\ x.compressed = FALSE
            /\ x.probe = probe /\ x.answer = "none" /\ x.batch = r.batch
            /\ x.taken = r.taken /\ x.twice = r.twice /\ x.result = r.result
  BY DEF resend, Record, pcs

LEMMA NextBatch ==
  ASSUME NEW r \in Record, r.batch < MaxBatch
  PROVE  /\ [r EXCEPT !.batch = @ + 1, !.probe = FALSE] \in Record
         /\ [r EXCEPT !.batch = @ + 1, !.attempt = 0] \in Record
<1>1. r.batch + 1 \in 1..MaxBatch /\ 0 \in 0..MaxRetries
  BY CouchAssumption DEF Record
<1> QED
  BY <1>1 DEF Record

LEMMA ReturnedType ==
  ASSUME TypeOK, NEW r \in Record, NEW gaveUp \in BOOLEAN, NEW x \in Returned(r, gaveUp)
  PROVE  x \in Record /\ x.kind = r.kind /\ x.pc # "errorText"
<1>1. Ended(r, "ok") \in Record /\ Ended(r, "ok").kind = r.kind /\ Ended(r, "ok").pc # "errorText"
  BY EndedType DEF Result
<1>2. ASSUME r.batch < MaxBatch
      PROVE  LET y == request([r EXCEPT !.batch = @ + 1, !.probe = FALSE], gaveUp)
                 z == request([r EXCEPT !.batch = @ + 1, !.attempt = 0], gaveUp)
             IN /\ y \in Record /\ y.kind = r.kind /\ y.pc # "errorText"
                /\ z \in Record /\ z.kind = r.kind /\ z.pc # "errorText"
  <2> DEFINE y0 == [r EXCEPT !.batch = @ + 1, !.probe = FALSE]
             z0 == [r EXCEPT !.batch = @ + 1, !.attempt = 0]
  <2>1. y0 \in Record /\ z0 \in Record
    BY <1>2, NextBatch
  <2>2. y0.kind = r.kind /\ z0.kind = r.kind
    BY DEF Record
  <2> HIDE DEF y0, z0
  <2>3. request(y0, gaveUp) \in Record /\ request(y0, gaveUp).kind = y0.kind /\ request(y0, gaveUp).pc # "errorText"
    BY <2>1, RequestType, RequestEnds
  <2>4. request(z0, gaveUp) \in Record /\ request(z0, gaveUp).kind = z0.kind /\ request(z0, gaveUp).pc # "errorText"
    BY <2>1, RequestType, RequestEnds
  <2> QED
    BY <2>2, <2>3, <2>4 DEF y0, z0
<1> HIDE DEF Ended
<1>3. CASE r.kind \in feeds
  BY <1>1, <1>2, <1>3 DEF Returned, paginate
<1>4. CASE r.kind \notin feeds
  BY <1>1, <1>2, <1>4 DEF Returned, bulk
<1> QED
  BY <1>3, <1>4

Served(r) == [r EXCEPT !.answer = "ok", !.taken = @ \cup {<<r.batch, r.compressed>>},
                       !.twice = @ \/ <<r.batch, r.compressed>> \in r.taken]

LEMMA ServedType ==
  ASSUME NEW r \in Record
  PROVE  /\ Served(r) \in Record /\ Served(r).pc = r.pc /\ Served(r).kind = r.kind
         /\ Served(r).twice = (r.twice \/ <<r.batch, r.compressed>> \in r.taken)
         /\ Served(r).taken = r.taken \cup {<<r.batch, r.compressed>>} /\ Served(r).answer = "ok"
         /\ Served(r).batch = r.batch /\ Served(r).compressed = r.compressed
         /\ Served(r).probe = r.probe /\ Served(r).result = r.result
         /\ \A a \in {"ok", "unsupported", "server"} :
              [r EXCEPT !.answer = a] \in Record /\ [r EXCEPT !.answer = a].pc = r.pc
<1>1. r.batch \in 1..MaxBatch /\ r.compressed \in BOOLEAN /\ r.twice \in BOOLEAN
      /\ r.taken \in SUBSET ((1..MaxBatch) \X BOOLEAN)
  BY DEF Record
<1>2. (r.twice \/ <<r.batch, r.compressed>> \in r.taken) \in BOOLEAN
      /\ r.taken \cup {<<r.batch, r.compressed>>} \in SUBSET ((1..MaxBatch) \X BOOLEAN)
  BY <1>1
<1> QED
  BY <1>2 DEF Served, Record

LEMMA OneCall ==
  ASSUME TypeOK, NEW c \in Call, NEW r, Becomes(c, r)
  PROVE  call'[c] = r /\ \A d \in Call \ {c} : call'[d] = call[d]
  BY DEF Becomes, TypeOK

LEMMA RecordStays ==
  ASSUME TypeOK, NEW c \in Call, NEW r \in Record, Becomes(c, r)
  PROVE  call' \in [Call -> Record]
  BY DEF Becomes, TypeOK

(* A type invariant that is inductive: the text that is read is that of an
   answer that was not ok. *)
Read(r) == r.pc = "errorText" => r.answer \in {"unsupported", "server"}
Typed == TypeOK /\ \A c \in Call : Read(call[c])

LEMMA InitTypes == Init => Typed
<1> SUFFICES ASSUME Init PROVE Typed
  OBVIOUS
<1>1. NewCall("info", FALSE) \in Record /\ NewCall("info", FALSE).pc = "idle"
  BY NewCallType DEF NewCall
<1> HIDE DEF NewCall
<1>2. call \in [Call -> Record] /\ \A c \in Call : call[c].pc = "idle"
  BY <1>1 DEF Init
<1>3. started \in 0..MaxCalls /\ faults \in 0..MaxFaults
  BY CouchAssumption DEF Init
<1> QED
  BY <1>2, <1>3 DEF Init, Typed, TypeOK, Read

Step(c) ==
  \/ \E kind \in Kind, large \in BOOLEAN : Start(c, kind, large)
  \/ Abort(c) \/ Ours(c) \/ Serve(c) \/ HeadersArrive(c) \/ Silence(c) \/ Finish(c)
  \/ NetworkFails(c) \/ PreflightFails(c)

\* What a step of one call can make of it.
LEMMA StepOfCall ==
  ASSUME Typed, NEW c \in Call, Step(c)
  PROVE  \E r \in Record :
           /\ Becomes(c, r) /\ Read(r)
           /\ \/ r.kind = call[c].kind
              \/ \E kind \in Kind, large \in BOOLEAN : Start(c, kind, large)
<1> DEFINE r0 == call[c]
           gaveUp == c \in aborted
<1>1. r0 \in Record /\ gaveUp \in BOOLEAN /\ gzipRequestBody \in BOOLEAN /\ TypeOK
      /\ Read(r0)
  BY DEF Typed, TypeOK
<1>2. {"aborted", "timeout", "unknown", "server", "network"} \subseteq Failed /\ Failed \subseteq Result
  BY DEF Failed, Result, TRANSIENT_KINDS
<1>3. \A r \in Record, e \in Failed, g \in BOOLEAN : 
         retry(r, g, e) \in Record /\ retry(r, g, e).pc # "errorText" /\ retry(r, g, e).kind = r.kind
  <2> TAKE r \in Record, e \in Failed, g \in BOOLEAN
  <2>1. Ended(r, e).pc = "done"
    BY <1>2, EndedType
  <2>2. /\ retry(r, g, e) \in Record /\ retry(r, g, e).kind = r.kind
        /\ retry(r, g, e) = Ended(r, e) \/ retry(r, g, e).pc = "sleep"
    BY RetryIs
  <2> QED
    BY <2>1, <2>2
<1>4. \A e \in Failed, g \in BOOLEAN : 
         Thrown(r0, g, e) \in Record /\ Thrown(r0, g, e).pc # "errorText" /\ Thrown(r0, g, e).kind = r0.kind
  <2> TAKE e \in Failed, g \in BOOLEAN
  <2>1. PICK f \in Failed : Thrown(r0, g, e) = retry(r0, g, f)
    BY <1>1, ThrownIs
  <2> QED
    BY <1>1, <1>3, <2>1
<1>5. \A e \in Result : Ended(r0, e) \in Record /\ Ended(r0, e).pc # "errorText" /\ Ended(r0, e).kind = r0.kind
  BY <1>1, EndedType
<1>6. /\ resend(r0, TRUE) \in Record /\ resend(r0, FALSE) \in Record
      /\ resend(r0, TRUE).pc # "errorText" /\ resend(r0, FALSE).pc # "errorText"
      /\ resend(r0, TRUE).kind = r0.kind /\ resend(r0, FALSE).kind = r0.kind
  BY <1>1, ResendType
<1>7. \A r \in Record, g \in BOOLEAN : 
         request(r, g) \in Record /\ request(r, g).pc # "errorText" /\ request(r, g).kind = r.kind
  BY <1>1, RequestType, RequestEnds
<1>8. LET k == Cut(r0)
          reads(r) == r.pc # "errorText" \/ r.answer \in {"unsupported", "server"}
      IN /\ k \in Record /\ reads(k) /\ k.kind = r0.kind
         /\ [k EXCEPT !.external = TRUE] \in Record /\ reads([k EXCEPT !.external = TRUE])
         /\ [k EXCEPT !.maxWait = TRUE] \in Record /\ reads([k EXCEPT !.maxWait = TRUE])
         /\ [k EXCEPT !.external = TRUE].kind = r0.kind /\ [k EXCEPT !.maxWait = TRUE].kind = r0.kind
  <2> DEFINE k == Cut(r0)
  <2>1. /\ k \in Record /\ k.kind = r0.kind /\ (k.pc = "errorText" => k.answer \in {"unsupported", "server"})
        /\ [k EXCEPT !.external = TRUE] \in Record /\ [k EXCEPT !.maxWait = TRUE] \in Record
    BY <1>1, CutType DEF Read
  <2> HIDE DEF k
  <2>2. /\ [k EXCEPT !.external = TRUE].pc = k.pc /\ [k EXCEPT !.maxWait = TRUE].pc = k.pc
        /\ [k EXCEPT !.external = TRUE].kind = k.kind /\ [k EXCEPT !.maxWait = TRUE].kind = k.kind
        /\ [k EXCEPT !.external = TRUE].answer = k.answer /\ [k EXCEPT !.maxWait = TRUE].answer = k.answer
    BY <2>1 DEF Record
  <2> QED
    BY <2>1, <2>2 DEF k
<1>9. r0.answer \in {"none", "ok", "unsupported", "server"} /\ r0.compressed \in BOOLEAN /\ r0.pc \in pcs
      /\ r0.silent \in BOOLEAN
  BY <1>1 DEF Record
<1>10. SUFFICES \E r \in Record :
                  /\ Becomes(c, r) /\ (r.pc # "errorText" \/ r.answer \in {"unsupported", "server"})
                  /\ \/ r.kind = r0.kind
                     \/ \E kind \in Kind, large \in BOOLEAN : Start(c, kind, large)
  BY DEF Read
<1> HIDE DEF r0
<1>11. CASE \E kind \in Kind, large \in BOOLEAN : Start(c, kind, large)
  BY <1>7, <1>11, NewCallType DEF Start
<1>12. CASE Abort(c)
  BY <1>1, <1>2, <1>5, <1>8, <1>9, <1>12 DEF Abort, At, r0, pcs
<1>13. CASE Wake(c)
  BY <1>1, <1>7, <1>13 DEF Wake, r0
<1>14. CASE Compressed(c)
  <2>1. /\ [r0 EXCEPT !.pc = "fetch"] \in Record /\ [r0 EXCEPT !.pc = "fetch"].pc = "fetch"
        /\ [r0 EXCEPT !.pc = "fetch"].kind = r0.kind
    BY <1>1 DEF Record, pcs
  <2> QED
    BY <1>14, <2>1 DEF Compressed, r0
<1>15. CASE ErrorAnswer(c)
  <2> DEFINE falls == r0.answer = "unsupported" /\ r0.compressed /\ gzipRequestBody
  <2>1. /\ r0.pc = "errorText"
        /\ Becomes(c, CASE falls /\ c \notin aborted -> resend(r0, FALSE)
                         [] falls /\ c \in aborted ->
                                retry(r0, TRUE, IF r0.external THEN "aborted" ELSE "timeout")
                         [] ~falls /\ r0.answer = "unsupported" -> Thrown(r0, c \in aborted, "unknown")
                         [] ~falls /\ r0.answer = "server" -> Thrown(r0, c \in aborted, "server"))
    BY <1>15 DEF ErrorAnswer, At, r0
  <2>2. r0.answer \in {"unsupported", "server"}
    BY <1>1, <2>1 DEF Read
  <2>3. \/ Becomes(c, resend(r0, FALSE)) \/ Becomes(c, retry(r0, TRUE, "timeout"))
        \/ Becomes(c, retry(r0, TRUE, "aborted"))
        \/ Becomes(c, Thrown(r0, gaveUp, "unknown")) \/ Becomes(c, Thrown(r0, gaveUp, "server"))
    BY <2>1, <2>2
  <2> QED
    BY <1>1, <1>2, <1>3, <1>4, <1>6, <2>3
<1>16. CASE Settle(c)
  <2>1. \/ Becomes(c, Thrown(r0, TRUE, "aborted")) \/ Becomes(c, longpollEnds(r0))
        \/ Becomes(c, Thrown(r0, gaveUp, "timeout"))
    BY <1>16 DEF Settle, r0
  <2>2. longpollEnds(r0) = Ended(r0, "empty") \/ longpollEnds(r0) = Thrown(r0, FALSE, "unknown")
    BY DEF longpollEnds
  <2>3. "empty" \in Result
    BY DEF Result
  <2> QED
    BY <1>1, <1>2, <1>4, <1>5, <2>1, <2>2, <2>3
<1>17. CASE TimerFires(c)
  <2>1. Becomes(c, Cut(r0)) \/ Becomes(c, [Cut(r0) EXCEPT !.maxWait = TRUE])
    BY <1>17 DEF TimerFires, r0
  <2> QED
    BY <1>8, <2>1
<1>18. CASE Serve(c)
  <2>1. r0.pc = "fetch"
    BY <1>18 DEF Serve, At, r0
  <2>2. \/ Becomes(c, Served(r0)) \/ Becomes(c, [r0 EXCEPT !.answer = "ok"])
        \/ Becomes(c, [r0 EXCEPT !.answer = "unsupported"]) \/ Becomes(c, [r0 EXCEPT !.answer = "server"])
    BY <1>18 DEF Serve, Served, r0
  <2>3. Served(r0) \in Record /\ Served(r0).pc = "fetch" /\ Served(r0).kind = r0.kind
    BY <1>1, <2>1, ServedType
  <2>4. \A a \in {"ok", "unsupported", "server"} :
          /\ [r0 EXCEPT !.answer = a] \in Record /\ [r0 EXCEPT !.answer = a].pc = "fetch"
          /\ [r0 EXCEPT !.answer = a].kind = r0.kind
    BY <1>1, <2>1, ServedType DEF Record
  <2> QED
    BY <2>2, <2>3, <2>4
<1>19. CASE HeadersArrive(c)
  <2>1. /\ r0.answer # "none"
        /\ Becomes(c, IF r0.answer # "ok" THEN [r0 EXCEPT !.pc = "errorText"]
                      ELSE [r0 EXCEPT !.pc = "body", !.answer = "none"])
    BY <1>19 DEF HeadersArrive, r0
  <2>2. /\ [r0 EXCEPT !.pc = "errorText"] \in Record
        /\ [r0 EXCEPT !.pc = "errorText"].answer = r0.answer
        /\ [r0 EXCEPT !.pc = "errorText"].kind = r0.kind
        /\ [r0 EXCEPT !.pc = "body", !.answer = "none"] \in Record
        /\ [r0 EXCEPT !.pc = "body", !.answer = "none"].kind = r0.kind
        /\ [r0 EXCEPT !.pc = "body", !.answer = "none"].pc = "body"
    BY <1>1 DEF Record, pcs
  <2> QED
    BY <1>9, <2>1, <2>2
<1>20. CASE Silence(c)
  <2>1. Becomes(c, [r0 EXCEPT !.silent = TRUE])
    BY <1>20 DEF Silence, r0
  <2>2. /\ [r0 EXCEPT !.silent = TRUE] \in Record
        /\ [r0 EXCEPT !.silent = TRUE].kind = r0.kind
        /\ [r0 EXCEPT !.silent = TRUE].pc = r0.pc /\ [r0 EXCEPT !.silent = TRUE].answer = r0.answer
    BY <1>1 DEF Record
  <2> QED
    BY <1>1, <2>1, <2>2 DEF Read
<1>21. CASE Finish(c)
  BY <1>1, <1>21, ReturnedType DEF Finish, r0
<1>22. CASE NetworkFails(c) \/ PreflightFails(c)
  <2>1. NetworkError(c)
    BY <1>22 DEF NetworkFails, PreflightFails
  <2>2. \/ Becomes(c, retry(r0, TRUE, "network")) \/ Becomes(c, resend(r0, TRUE))
        \/ Becomes(c, Thrown(r0, gaveUp, "network"))
    BY <2>1 DEF NetworkError, r0
  <2> QED
    BY <1>1, <1>2, <1>3, <1>4, <1>6, <2>2
<1> QED
  BY <1>11, <1>12, <1>13, <1>14, <1>15, <1>16, <1>17, <1>18, <1>19, <1>20, <1>21, <1>22 DEF Step, Ours

LEMMA NextIsAStep == Next <=> \E c \in Call : Step(c)
  BY DEF Next, Step

LEMMA TypeKept == Typed /\ [Next]_vars => Typed'
<1> SUFFICES ASSUME Typed, [Next]_vars PROVE Typed'
  OBVIOUS
<1>1. CASE UNCHANGED vars
  BY <1>1 DEF Typed, TypeOK, vars
<1>2. ASSUME NEW c \in Call, Step(c) PROVE Typed'
  <2>1. PICK r \in Record : Becomes(c, r) /\ Read(r)
    BY <1>2, StepOfCall
  <2>2. TypeOK
    BY DEF Typed
  <2>3. call' \in [Call -> Record] /\ call'[c] = r /\ \A d \in Call \ {c} : call'[d] = call[d]
    BY <2>1, <2>2, RecordStays, OneCall
  <2>4. rejection' \in Rejections /\ gzipRequestBody' \in BOOLEAN /\ aborted' \subseteq Call
        /\ started' \in 0..MaxCalls /\ faults' \in 0..MaxFaults
    <3>1. restored(call[c]) \in BOOLEAN
      BY <2>2 DEF restored, TypeOK, Record
    <3>2. MaxFaults \in Nat /\ MaxCalls \in Nat /\ rejection \in Rejections /\ gzipRequestBody \in BOOLEAN
          /\ aborted \subseteq Call /\ started \in 0..MaxCalls /\ faults \in 0..MaxFaults
      BY <2>2, CouchAssumption DEF TypeOK
    <3>3. rejection' = rejection /\ aborted' \subseteq Call
      BY <1>2, <3>2 DEF Step, Start, Abort, Ours, Wake, Compressed, ErrorAnswer, Settle, TimerFires,
         Serve, HeadersArrive, Silence, Finish, NetworkFails, PreflightFails, NetworkError
    <3>4. started' = started \/ (started < MaxCalls /\ started' = started + 1)
      BY <1>2 DEF Step, Start, Abort, Ours, Wake, Compressed, ErrorAnswer, Settle, TimerFires,
         Serve, HeadersArrive, Silence, Finish, NetworkFails, PreflightFails, NetworkError
    <3>5. faults' = faults \/ (faults < MaxFaults /\ faults' = faults + 1)
      BY <1>2 DEF Step, Start, Abort, Ours, Wake, Compressed, ErrorAnswer, Settle, TimerFires,
         Serve, HeadersArrive, Silence, Finish, NetworkFails, PreflightFails, NetworkError, Fault, Late
    <3>6. gzipRequestBody' \in {gzipRequestBody, FALSE, restored(call[c])}
      BY <1>2 DEF Step, Start, Abort, Ours, Wake, Compressed, ErrorAnswer, Settle, TimerFires,
         Serve, HeadersArrive, Silence, Finish, NetworkFails, PreflightFails, NetworkError
    <3>7. started' \in 0..MaxCalls
      BY <3>2, <3>4
    <3>8. faults' \in 0..MaxFaults
      BY <3>2, <3>5
    <3>9. gzipRequestBody' \in BOOLEAN
      BY <3>1, <3>2, <3>6
    <3> QED
      BY <3>2, <3>3, <3>7, <3>8, <3>9
  <2>5. \A d \in Call : Read(call'[d])
    BY <2>1, <2>3 DEF Typed
  <2> QED
    BY <2>3, <2>4, <2>5 DEF Typed, TypeOK
<1> QED
  BY <1>1, <1>2, NextIsAStep

(* Every call is in a state its program can be in, and no error answer is
   read that was none. *)
THEOREM CallsTyped == Spec => []TypeOK
<1>1. Spec => []Typed
  BY InitTypes, TypeKept, PTL DEF Spec
<1>2. Typed => TypeOK
  BY DEF Typed
<1> QED
  BY <1>1, <1>2, PTL

-----------------------------------------------------------------------------
(* A call that was given up. *)

LEMMA FailuresAre ==
  /\ {"aborted", "timeout", "unknown", "server", "network"} \subseteq Failed
  /\ Failed \subseteq Result /\ {"ok", "empty"} \subseteq Result
  BY DEF Failed, Result, TRANSIENT_KINDS

\* It has nothing more to do than to return.
LEMMA GivenUp ==
  ASSUME TypeOK, NEW r \in Record
  PROVE  /\ \A e \in Failed : retry(r, TRUE, e).pc = "done" /\ Thrown(r, TRUE, e).pc = "done"
         /\ request(r, TRUE).pc = "done"
         /\ \A x \in Returned(r, TRUE) : x.pc = "done"
<1>1. \A s \in Record, e \in Failed : retry(s, TRUE, e).pc = "done"
  <2> TAKE s \in Record, e \in Failed
  <2>1. Ended(s, e).pc = "done"
    BY FailuresAre, EndedType
  <2>2. retry(s, TRUE, e) = Ended(s, e)
    BY RetryIs
  <2> QED
    BY <2>1, <2>2
<1>2. ASSUME NEW e \in Failed PROVE Thrown(r, TRUE, e).pc = "done"
  <2>1. PICK f \in Failed : Thrown(r, TRUE, e) = retry(r, TRUE, f)
    BY ThrownIs
  <2> QED
    BY <1>1, <2>1
<1>3. \A s \in Record : request(s, TRUE).pc = "done"
  <2> TAKE s \in Record
  <2>1. PICK e \in Failed : request(s, TRUE) = Ended(s, e)
    BY RequestEnds
  <2>2. Ended(s, e).pc = "done"
    BY FailuresAre, EndedType
  <2> QED
    BY <2>1, <2>2
<1>4. Ended(r, "ok").pc = "done"
  BY FailuresAre, EndedType
<1>5. ASSUME NEW x \in Returned(r, TRUE) PROVE x.pc = "done"
  <2>1. CASE r.batch < MaxBatch
    <3> DEFINE y0 == [r EXCEPT !.batch = @ + 1, !.probe = FALSE]
               z0 == [r EXCEPT !.batch = @ + 1, !.attempt = 0]
    <3>1. y0 \in Record /\ z0 \in Record
      BY <2>1, NextBatch
    <3> HIDE DEF y0, z0
    <3>2. request(y0, TRUE).pc = "done" /\ request(z0, TRUE).pc = "done"
      BY <1>3, <3>1
    <3>3. x = Ended(r, "ok") \/ x = request(y0, TRUE) \/ x = request(z0, TRUE)
      BY DEF Returned, bulk, paginate, y0, z0
    <3> QED
      BY <1>4, <3>2, <3>3
  <2>2. CASE ~(r.batch < MaxBatch)
    BY <1>4, <2>2 DEF Returned, bulk, paginate
  <2> QED
    BY <2>1, <2>2
<1> QED
  BY <1>1, <1>2, <1>3, <1>5

LEMMA GivenUpSendsNothing ==
  ASSUME Typed, NEW c \in Call, Step(c), c \in aborted, c \in aborted'
  PROVE  ~Goes(c)
<1> DEFINE r0 == call[c]
           going == {"fetch", "compress"}
<1>1. r0 \in Record /\ TypeOK
  BY DEF Typed, TypeOK
<1>2. /\ \A e \in {"aborted", "timeout", "unknown", "server", "network"} :
           retry(r0, TRUE, e).pc = "done" /\ Thrown(r0, TRUE, e).pc = "done"
      /\ request(r0, TRUE).pc = "done" /\ \A x \in Returned(r0, TRUE) : x.pc = "done"
  BY <1>1, FailuresAre, GivenUp
<1>3. /\ Cut(r0).pc \in {"settle", "errorText"}
      /\ [Cut(r0) EXCEPT !.external = TRUE].pc \in {"settle", "errorText"}
      /\ [Cut(r0) EXCEPT !.maxWait = TRUE].pc \in {"settle", "errorText"}
  <2>1. Cut(r0) \in Record /\ Cut(r0).pc \in {"settle", "errorText"}
    BY <1>1, CutType
  <2> QED
    BY <2>1 DEF Record
<1>4. SUFFICES \E r : /\ Becomes(c, r) /\ (r.pc \in going => r0.pc \in going)
                      /\ (r.pc = "fetch" /\ r0.compressed => r.compressed)
  BY <1>1, OneCall DEF Goes
<1> HIDE DEF r0
<1>11. ~\E kind \in Kind, large \in BOOLEAN : Start(c, kind, large)
  BY DEF Start
<1>12. ~Abort(c)
  BY DEF Abort
<1>13. CASE Wake(c)
  BY <1>2, <1>13 DEF Wake, r0
<1>14. CASE Compressed(c)
  <2>1. Becomes(c, [r0 EXCEPT !.pc = "fetch"]) /\ r0.pc = "compress"
    BY <1>14 DEF Compressed, At, r0
  <2>2. [r0 EXCEPT !.pc = "fetch"].compressed = r0.compressed
    BY <1>1 DEF Record
  <2> QED
    BY <2>1, <2>2
<1>15. CASE ErrorAnswer(c)
  <2> DEFINE falls == r0.answer = "unsupported" /\ r0.compressed /\ gzipRequestBody
  <2>1. /\ r0.pc = "errorText"
        /\ Becomes(c, CASE falls /\ c \notin aborted -> resend(r0, FALSE)
                         [] falls /\ c \in aborted ->
                                retry(r0, TRUE, IF r0.external THEN "aborted" ELSE "timeout")
                         [] ~falls /\ r0.answer = "unsupported" -> Thrown(r0, c \in aborted, "unknown")
                         [] ~falls /\ r0.answer = "server" -> Thrown(r0, c \in aborted, "server"))
    BY <1>15 DEF ErrorAnswer, At, r0
  <2>2. r0.answer \in {"unsupported", "server"}
    BY <2>1 DEF Typed, Read, r0
  <2>3. \/ Becomes(c, retry(r0, TRUE, "timeout")) \/ Becomes(c, retry(r0, TRUE, "aborted"))
        \/ Becomes(c, Thrown(r0, TRUE, "unknown")) \/ Becomes(c, Thrown(r0, TRUE, "server"))
    BY <2>1, <2>2
  <2> QED
    BY <1>2, <2>3
<1>16. CASE Settle(c)
  <2>1. \/ Becomes(c, Thrown(r0, TRUE, "aborted")) \/ Becomes(c, longpollEnds(r0))
        \/ Becomes(c, Thrown(r0, TRUE, "timeout"))
    BY <1>16 DEF Settle, r0
  <2>2. longpollEnds(r0).pc \in {"done", "sleep"}
    <3>1. PICK e \in Failed : Thrown(r0, FALSE, "unknown") = retry(r0, FALSE, e)
      BY <1>1, FailuresAre, ThrownIs
    <3>2. Ended(r0, e).pc = "done" /\ Ended(r0, "empty").pc = "done"
      BY <1>1, FailuresAre, EndedType
    <3>3. retry(r0, FALSE, e) = Ended(r0, e) \/ retry(r0, FALSE, e).pc = "sleep"
      BY <1>1, RetryIs
    <3> QED
      BY <3>1, <3>2, <3>3 DEF longpollEnds
  <2> QED
    BY <1>2, <2>1, <2>2
<1>17. CASE TimerFires(c)
  <2>1. Becomes(c, Cut(r0)) \/ Becomes(c, [Cut(r0) EXCEPT !.maxWait = TRUE])
    BY <1>17 DEF TimerFires, r0
  <2> QED
    BY <1>3, <2>1
<1>18. CASE Serve(c)
  <2>1. r0.pc = "fetch"
    BY <1>18 DEF Serve, At, r0
  <2>2. \/ Becomes(c, Served(r0)) \/ \E a \in {"ok", "unsupported", "server"} : Becomes(c, [r0 EXCEPT !.answer = a])
    BY <1>18 DEF Serve, Served, r0
  <2>3. Served(r0).compressed = r0.compressed
    BY <1>1, ServedType
  <2>4. \A a \in {"ok", "unsupported", "server"} : [r0 EXCEPT !.answer = a].compressed = r0.compressed
    BY <1>1 DEF Record
  <2> QED
    BY <2>1, <2>2, <2>3, <2>4
<1>19. CASE HeadersArrive(c)
  <2>1. \/ Becomes(c, [r0 EXCEPT !.pc = "errorText"]) \/ Becomes(c, [r0 EXCEPT !.pc = "body", !.answer = "none"])
    BY <1>19 DEF HeadersArrive, r0
  <2>2. [r0 EXCEPT !.pc = "errorText"].pc = "errorText" /\ [r0 EXCEPT !.pc = "body", !.answer = "none"].pc = "body"
    BY <1>1 DEF Record
  <2> QED
    BY <2>1, <2>2
<1>20. CASE Silence(c)
  <2>1. Becomes(c, [r0 EXCEPT !.silent = TRUE])
    BY <1>20 DEF Silence, r0
  <2>2. /\ [r0 EXCEPT !.silent = TRUE].pc = r0.pc /\ [r0 EXCEPT !.silent = TRUE].compressed = r0.compressed
    BY <1>1 DEF Record
  <2> QED
    BY <2>1, <2>2
<1>21. CASE Finish(c)
  BY <1>2, <1>21 DEF Finish, r0
<1>22. CASE NetworkFails(c) \/ PreflightFails(c)
  <2>1. NetworkError(c)
    BY <1>22 DEF NetworkFails, PreflightFails
  <2>2. Becomes(c, retry(r0, TRUE, "network")) \/ Becomes(c, Thrown(r0, TRUE, "network"))
    BY <2>1 DEF NetworkError, r0
  <2> QED
    BY <1>2, <2>2
<1> QED
  BY <1>11, <1>12, <1>13, <1>14, <1>15, <1>16, <1>17, <1>18, <1>19, <1>20, <1>21, <1>22 DEF Step, Ours

(* A call whose caller has given up sends nothing more: no batch, no page, no
   retry and no probe, whatever its timers and the server do meanwhile. *)
THEOREM CancelStops == Spec => CancelStopsIt
<1>1. Spec => []Typed
  BY InitTypes, TypeKept, PTL DEF Spec
<1>2. ASSUME Typed, [Next]_vars
      PROVE  [\A c \in Call : c \in aborted /\ c \in aborted' => ~Goes(c)]_vars
  <2>1. CASE UNCHANGED vars
    BY <2>1
  <2>2. ASSUME NEW d \in Call, Step(d), NEW c \in Call, c \in aborted, c \in aborted'
        PROVE  ~Goes(c)
    <3>1. CASE c = d
      BY <1>2, <2>2, <3>1, GivenUpSendsNothing
    <3>2. CASE c # d
      <4>1. PICK r : Becomes(d, r)
        BY <1>2, <2>2, StepOfCall
      <4>2. call'[c] = call[c]
        BY <1>2, <3>2, <4>1, OneCall DEF Typed
      <4> QED
        BY <4>2 DEF Goes
    <3> QED
      BY <3>1, <3>2
  <2> QED
    BY <1>2, <2>1, <2>2, NextIsAStep
<1> QED
  BY <1>1, <1>2, PTL DEF Spec, CancelStopsIt

-----------------------------------------------------------------------------
(* The batches of a write. *)

Has(r, b) == \E z \in BOOLEAN : <<b, z>> \in r.taken

(* Of a write under way: the batches before the current one are taken, none
   after it; the current one in no form that may still be sent, and in the
   form whose answer is being read. *)
UnderWay(r) ==
  /\ \A t \in r.taken : t[1] <= r.batch
  /\ \A b \in 1..(r.batch - 1) : Has(r, b)
  /\ r.pc = "compress" => r.compressed /\ r.answer = "none" /\ <<r.batch, TRUE>> \notin r.taken
  /\ r.compressed => <<r.batch, FALSE>> \notin r.taken
  /\ r.pc = "fetch" /\ r.answer # "ok" => <<r.batch, r.compressed>> \notin r.taken
  /\ r.pc = "fetch" /\ r.answer = "ok" => <<r.batch, r.compressed>> \in r.taken
  /\ r.pc = "body" => <<r.batch, r.compressed>> \in r.taken

Accounted(r) ==
  /\ ~r.twice /\ r.pc # "sleep"
  /\ r.result = "none" <=> r.pc # "done"
  /\ r.pc = "idle" => r.taken = {}
  /\ r.pc \notin {"idle", "done"} => UnderWay(r)
  /\ r.result = "ok" => \A b \in 1..MaxBatch : Has(r, b)

WriteInv == \A c \in Call : call[c].kind = "bulkDocs" => Accounted(call[c])

\* A write is not retried.
LEMMA WriteFails ==
  ASSUME NEW r \in Record, r.kind = "bulkDocs", ~r.twice, NEW gaveUp \in BOOLEAN, NEW e \in Failed
  PROVE  /\ retry(r, gaveUp, e) = Ended(r, e)
         /\ Accounted(Ended(r, e)) /\ Accounted(Thrown(r, gaveUp, e))
<1>1. ~retried(r.kind)
  BY DEF retried, passedOn
<1>2. ASSUME NEW f \in Failed PROVE retry(r, gaveUp, f) = Ended(r, f) /\ Accounted(Ended(r, f))
  <2>1. retry(r, gaveUp, f) = Ended(r, f)
    BY <1>1, RetryIs
  <2>2. f \in Result /\ f # "none" /\ f # "ok"
    BY DEF Failed, Result, TRANSIENT_KINDS
  <2> DEFINE x == Ended(r, f)
  <2>3. x.pc = "done" /\ x.result = f /\ x.twice = r.twice
    BY <2>2, EndedType
  <2> HIDE DEF x
  <2>4. Accounted(x)
    BY <2>2, <2>3 DEF Accounted
  <2> QED
    BY <2>1, <2>4 DEF x
<1>3. PICK f \in Failed : Thrown(r, gaveUp, e) = retry(r, gaveUp, f)
  BY ThrownIs
<1> QED
  BY <1>2, <1>3

\* The first request of a batch, when the batches before it are taken.
LEMMA WriteAsks ==
  ASSUME TypeOK, NEW r \in Record, NEW gaveUp \in BOOLEAN,
         r.kind = "bulkDocs", ~r.twice, r.result = "none",
         \A t \in r.taken : t[1] < r.batch, \A b \in 1..(r.batch - 1) : Has(r, b)
  PROVE  Accounted(request(r, gaveUp))
<1>1. CASE gaveUp
  <2>1. PICK e \in Failed : request(r, gaveUp) = Ended(r, e)
    BY <1>1, RequestEnds
  <2> QED
    BY <2>1, WriteFails
<1>2. CASE ~gaveUp
  <2> DEFINE x == Asked(r)
  <2>1. /\ x \in Record /\ x.batch = r.batch /\ x.answer = "none" /\ x.result = r.result
        /\ x.pc = (IF x.compressed THEN "compress" ELSE "fetch")
        /\ x.taken = r.taken /\ x.twice = r.twice
    BY AskedIs
  <2>2. request(r, gaveUp) = x
    BY <1>2, RequestIs
  <2>3. r.batch \in Nat /\ x.compressed \in BOOLEAN
    BY <2>1 DEF Record
  <2> HIDE DEF x
  <2>4. \A z : <<r.batch, z>> \notin r.taken
    BY <2>3
  <2>5. \A b \in 1..(x.batch - 1) : Has(x, b)
    BY <2>1 DEF Has
  <2>6. \A t \in x.taken : t[1] <= x.batch
    <3>1. TAKE t \in x.taken
    <3>2. t[1] < r.batch /\ t[1] \in Nat
      BY <2>1 DEF Record
    <3> QED
      BY <2>1, <2>3, <3>2
  <2>7. UnderWay(x)
    BY <2>1, <2>3, <2>4, <2>5, <2>6 DEF UnderWay
  <2> QED
    BY <2>1, <2>2, <2>3, <2>7 DEF Accounted
<1> QED
  BY <1>1, <1>2

\* After the answer to a batch: the next one, or the end of the call.
LEMMA WriteReturns ==
  ASSUME TypeOK, NEW r \in Record, NEW gaveUp \in BOOLEAN, NEW x \in Returned(r, gaveUp),
         r.kind = "bulkDocs", r.pc = "body", Accounted(r)
  PROVE  Accounted(x)
<1>1. /\ ~r.twice /\ r.result = "none" /\ <<r.batch, r.compressed>> \in r.taken
      /\ \A t \in r.taken : t[1] <= r.batch
      /\ \A b \in 1..(r.batch - 1) : Has(r, b)
  BY DEF Accounted, UnderWay
<1>2. r.batch \in 1..MaxBatch /\ r.compressed \in BOOLEAN /\ MaxBatch \in Nat
      /\ r.taken \subseteq (1..MaxBatch) \X BOOLEAN
  BY CouchAssumption DEF Record
<1>3. \A b \in 1..r.batch : Has(r, b)
  <2> TAKE b \in 1..r.batch
  <2>1. CASE b = r.batch
    BY <1>1, <1>2, <2>1 DEF Has
  <2>2. CASE b # r.batch
    BY <1>1, <1>2, <2>2
  <2> QED
    BY <2>1, <2>2
<1>4. r.kind \in batched /\ r.kind \notin feeds
  BY DEF batched, feeds
<1>5. CASE r.batch < MaxBatch
  <2> DEFINE y == [r EXCEPT !.batch = @ + 1, !.probe = FALSE]
  <2>1. y \in Record
    BY <1>5, NextBatch
  <2>2. y.kind = "bulkDocs" /\ y.twice = r.twice /\ y.result = r.result /\ y.batch = r.batch + 1
        /\ y.taken = r.taken
    BY DEF Record
  <2>3. x = request(y, gaveUp)
    BY <1>4, <1>5 DEF Returned, bulk
  <2> HIDE DEF y
  <2>4. \A t \in y.taken : t[1] < y.batch
    <3> TAKE t \in y.taken
    <3>1. t[1] <= r.batch /\ t[1] \in Nat
      BY <1>1, <1>2, <2>2
    <3> QED
      BY <1>2, <2>2, <3>1
  <2>5. \A b \in 1..(y.batch - 1) : Has(y, b)
    BY <1>2, <1>3, <2>2 DEF Has
  <2> QED
    BY <1>1, <2>1, <2>2, <2>3, <2>4, <2>5, WriteAsks
<1>6. CASE ~(r.batch < MaxBatch)
  <2> DEFINE y == Ended(r, "ok")
  <2>1. x = y
    BY <1>4, <1>6 DEF Returned, bulk
  <2>2. y.pc = "done" /\ y.result = "ok" /\ y.twice = r.twice /\ y.taken = r.taken
    BY FailuresAre, EndedType
  <2> HIDE DEF y
  <2>3. \A b \in 1..MaxBatch : Has(y, b)
    <3>1. r.batch = MaxBatch
      BY <1>2, <1>6
    <3>2. \A b \in 1..MaxBatch : Has(r, b)
      BY <1>3, <3>1
    <3> QED
      BY <2>2, <3>2 DEF Has
  <2> QED
    BY <1>1, <2>1, <2>2, <2>3 DEF Accounted
<1> QED
  BY <1>5, <1>6

\* The uncompressed request after a compressed one.
LEMMA WriteResent ==
  ASSUME NEW r \in Record, r.kind = "bulkDocs", Accounted(r), r.compressed,
         r.pc \in {"fetch", "errorText", "body"}, NEW probe \in BOOLEAN
  PROVE  Accounted(resend(r, probe))
<1> DEFINE x == resend(r, probe)
<1>1. /\ x.pc = "fetch" /\ x.compressed = FALSE /\ x.answer = "none" /\ x.batch = r.batch
      /\ x.taken = r.taken /\ x.twice = r.twice /\ x.result = r.result
  BY ResendType
<1> HIDE DEF x
<1>2. Accounted(x)
  BY <1>1 DEF Accounted, UnderWay, Has
<1> QED
  BY <1>2 DEF x

\* A step that leaves the batches alone, and the place where they are sent from.
LEMMA WriteMoves ==
  ASSUME NEW r \in Record, NEW x \in Record, Accounted(r), r.pc \notin {"idle", "done"},
         x.batch = r.batch, x.taken = r.taken, x.twice = r.twice, x.result = r.result,
         x.compressed = r.compressed,
         \/ x.pc \in {"errorText", "settle"}
         \/ x.pc = r.pc /\ x.answer = r.answer
         \/ r.pc = "compress" /\ x.pc = "fetch" /\ x.answer = r.answer
         \/ r.pc = "fetch" /\ x.pc = "fetch" /\ r.answer = "none" /\ x.answer \in {"unsupported", "server"}
         \/ r.pc = "fetch" /\ x.pc = "body" /\ r.answer = "ok"
  PROVE  Accounted(x)
<1>1. UnderWay(r) /\ ~r.twice /\ r.result = "none" /\ r.pc # "sleep"
  BY DEF Accounted
<1>2. (\A t \in x.taken : t[1] <= x.batch) /\ (\A b \in 1..(x.batch - 1) : Has(x, b))
  BY <1>1 DEF UnderWay, Has
<1>3. UnderWay(x)
  BY <1>1, <1>2 DEF UnderWay, Record
<1> QED
  BY <1>1, <1>3 DEF Accounted

LEMMA WriteServed ==
  ASSUME NEW r \in Record, Accounted(r), r.pc = "fetch", r.answer = "none"
  PROVE  Accounted(Served(r))
<1> DEFINE x == Served(r)
<1>1. /\ x.pc = r.pc /\ x.twice = (r.twice \/ <<r.batch, r.compressed>> \in r.taken)
      /\ x.taken = r.taken \cup {<<r.batch, r.compressed>>} /\ x.answer = "ok"
      /\ x.batch = r.batch /\ x.compressed = r.compressed /\ x.result = r.result
  BY ServedType
<1> HIDE DEF x
<1>2. UnderWay(r) /\ ~r.twice /\ r.result = "none"
  BY DEF Accounted
<1>3. r.batch \in Nat /\ r.compressed \in BOOLEAN
  BY DEF Record
<1>4. <<r.batch, r.compressed>> \notin r.taken
  BY <1>2 DEF UnderWay
<1>5. \A t \in x.taken : t[1] <= x.batch
  BY <1>1, <1>2, <1>3 DEF UnderWay
<1>6. \A b \in 1..(x.batch - 1) : Has(x, b)
  BY <1>1, <1>2 DEF UnderWay, Has
<1>7. x.compressed => <<x.batch, FALSE>> \notin x.taken
  BY <1>1, <1>2, <1>3 DEF UnderWay
<1>8. UnderWay(x)
  BY <1>1, <1>5, <1>6, <1>7 DEF UnderWay
<1>9. x.twice = FALSE
  BY <1>1, <1>2, <1>4
<1>10. x.result = "none" /\ x.pc = "fetch"
  BY <1>1, <1>2
<1>11. Accounted(x)
  BY <1>8, <1>9, <1>10 DEF Accounted
<1> QED
  BY <1>11 DEF x

LEMMA StepOfWrite ==
  ASSUME Typed, NEW c \in Call, Step(c), WriteInv
  PROVE  \E r \in Record : Becomes(c, r) /\ (r.kind = "bulkDocs" => Accounted(r))
<1> DEFINE r0 == call[c]
           gaveUp == c \in aborted
<1>1. r0 \in Record /\ gaveUp \in BOOLEAN /\ gzipRequestBody \in BOOLEAN /\ TypeOK
  BY DEF Typed, TypeOK
<1>2. r0.kind = "bulkDocs" => Accounted(r0)
  BY DEF WriteInv
<1>3. PICK r \in Record : Becomes(c, r)
  BY StepOfCall
<1>4. r = call'[c]
  BY <1>1, <1>3, OneCall
<1>5. SUFFICES ASSUME r.kind = "bulkDocs" PROVE Accounted(r)
  BY <1>3
<1>6. ASSUME NEW x, Becomes(c, x) PROVE r = x
  BY <1>1, <1>4, <1>6, OneCall
<1>7. CASE \E kind \in Kind, large \in BOOLEAN : Start(c, kind, large)
  <2>1. PICK kind \in Kind, large \in BOOLEAN : Becomes(c, request(NewCall(kind, large), FALSE))
    BY <1>7 DEF Start
  <2> DEFINE n == NewCall(kind, large)
  <2>2. n \in Record /\ n.kind = kind /\ n.twice = FALSE /\ n.result = "none" /\ n.taken = {} /\ n.batch = 1
    BY NewCallType DEF NewCall
  <2> HIDE DEF n
  <2>3. r = request(n, FALSE)
    BY <1>6, <2>1 DEF n
  <2>4. request(n, FALSE).kind = n.kind
    BY <1>1, <2>2, RequestType
  <2>5. (\A t \in n.taken : t[1] < n.batch) /\ (\A b \in 1..(n.batch - 1) : Has(n, b))
    BY <2>2
  <2> QED
    BY <1>1, <1>5, <2>2, <2>3, <2>4, <2>5, WriteAsks
<1>8. SUFFICES ASSUME \A kind \in Kind, large \in BOOLEAN : ~Start(c, kind, large)
               PROVE  Accounted(r)
  BY <1>7
<1>9. r0.kind = "bulkDocs"
  BY <1>6, <1>5, <1>8, StepOfCall
<1>10. Accounted(r0) /\ ~r0.twice
  BY <1>2, <1>9 DEF Accounted
<1>11. \A e \in {"aborted", "timeout", "unknown", "server", "network"}, g \in BOOLEAN :
          Accounted(retry(r0, g, e)) /\ Accounted(Thrown(r0, g, e))
  BY <1>1, <1>9, <1>10, FailuresAre, WriteFails
<1> HIDE DEF r0
<1>12. CASE Abort(c)
  <2>1. r0.pc \notin {"idle", "done", "sleep"} /\ r0.pc \in pcs
    BY <1>1, <1>10, <1>12 DEF Abort, At, r0, Accounted, Record
  <2>2. Becomes(c, [Cut(r0) EXCEPT !.external = TRUE]) \/ Becomes(c, r0)
    BY <1>12, <2>1 DEF Abort, At, r0, pcs
  <2> DEFINE x == [Cut(r0) EXCEPT !.external = TRUE]
  <2>3. x \in Record /\ x.pc \in {"settle", "errorText"} /\ x.batch = r0.batch /\ x.taken = r0.taken /\ x.twice = r0.twice
        /\ x.result = r0.result /\ x.compressed = r0.compressed
    <3> DEFINE k == Cut(r0)
    <3>1. k \in Record /\ k.pc \in {"settle", "errorText"} /\ k.batch = r0.batch /\ k.taken = r0.taken /\ k.twice = r0.twice
          /\ k.result = r0.result /\ k.compressed = r0.compressed
      BY <1>1, CutType
    <3>2. x = [k EXCEPT !.external = TRUE]
      OBVIOUS
    <3> HIDE DEF k, x
    <3> QED
      BY <3>1, <3>2 DEF Record
  <2> HIDE DEF x
  <2>4. Accounted(x)
    BY <1>1, <1>10, <2>1, <2>3, WriteMoves
  <2> QED
    BY <1>6, <1>10, <2>2, <2>4 DEF x
<1>13. ~Wake(c)
  BY <1>10 DEF Wake, At, r0, Accounted
<1>14. CASE Compressed(c)
  <2> DEFINE x == [r0 EXCEPT !.pc = "fetch"]
  <2>1. Becomes(c, x) /\ r0.pc = "compress"
    BY <1>14 DEF Compressed, At, r0
  <2>2. x \in Record /\ x.pc = "fetch" /\ x.batch = r0.batch /\ x.taken = r0.taken /\ x.twice = r0.twice
        /\ x.result = r0.result /\ x.compressed = r0.compressed /\ x.answer = r0.answer
    BY <1>1 DEF Record, pcs
  <2> HIDE DEF x
  <2>3. Accounted(x)
    BY <1>1, <1>10, <2>1, <2>2, WriteMoves
  <2> QED
    BY <1>6, <2>1, <2>3
<1>15. CASE ErrorAnswer(c)
  <2> DEFINE falls == r0.answer = "unsupported" /\ r0.compressed /\ gzipRequestBody
  <2>1. /\ r0.pc = "errorText"
        /\ Becomes(c, CASE falls /\ c \notin aborted -> resend(r0, FALSE)
                         [] falls /\ c \in aborted ->
                                retry(r0, TRUE, IF r0.external THEN "aborted" ELSE "timeout")
                         [] ~falls /\ r0.answer = "unsupported" -> Thrown(r0, c \in aborted, "unknown")
                         [] ~falls /\ r0.answer = "server" -> Thrown(r0, c \in aborted, "server"))
    BY <1>15 DEF ErrorAnswer, At, r0
  <2>2. r0.answer \in {"unsupported", "server"}
    BY <2>1 DEF Typed, Read, r0
  <2>3. \/ r0.compressed /\ Becomes(c, resend(r0, FALSE))
        \/ Becomes(c, retry(r0, TRUE, "timeout")) \/ Becomes(c, retry(r0, TRUE, "aborted"))
        \/ Becomes(c, Thrown(r0, gaveUp, "unknown")) \/ Becomes(c, Thrown(r0, gaveUp, "server"))
    BY <2>1, <2>2
  <2>4. r0.compressed => Accounted(resend(r0, FALSE))
    BY <1>1, <1>9, <1>10, <2>1, WriteResent
  <2> QED
    BY <1>1, <1>6, <1>11, <2>3, <2>4
<1>16. CASE Settle(c)
  <2>1. Becomes(c, Thrown(r0, TRUE, "aborted")) \/ Becomes(c, Thrown(r0, gaveUp, "timeout"))
    BY <1>9, <1>16 DEF Settle, r0
  <2> QED
    BY <1>1, <1>6, <1>11, <2>1
<1>17. CASE TimerFires(c)
  <2>1. r0.kind \in streamed /\ r0.kind # "longpoll"
    BY <1>9 DEF streamed, batched
  <2>2. Becomes(c, Cut(r0)) /\ r0.pc \in {"fetch", "body"}
    BY <1>9, <1>17, <2>1 DEF TimerFires, headerTimer, bodyTimer, staleTimer, maxWaitTimer, r0
  <2>3. Accounted(Cut(r0))
    BY <1>1, <1>10, <2>2, CutType, WriteMoves
  <2> QED
    BY <1>6, <2>2, <2>3
<1>18. CASE Serve(c)
  <2>1. r0.pc = "fetch" /\ r0.answer = "none"
    BY <1>18 DEF Serve, At, r0
  <2>2. Becomes(c, Served(r0)) \/ \E a \in {"unsupported", "server"} : Becomes(c, [r0 EXCEPT !.answer = a])
    BY <1>9, <1>18 DEF Serve, Served, r0
  <2>3. Accounted(Served(r0))
    BY <1>1, <1>10, <2>1, WriteServed
  <2>4. ASSUME NEW a \in {"unsupported", "server"} PROVE Accounted([r0 EXCEPT !.answer = a])
    <3> DEFINE x == [r0 EXCEPT !.answer = a]
    <3>1. x \in Record /\ x.pc = r0.pc /\ x.batch = r0.batch /\ x.taken = r0.taken /\ x.twice = r0.twice
          /\ x.result = r0.result /\ x.compressed = r0.compressed /\ x.answer = a
      BY <1>1 DEF Record
    <3> HIDE DEF x
    <3>2. Accounted(x)
      BY <1>1, <1>10, <2>1, <3>1, WriteMoves
    <3> QED
      BY <3>2 DEF x
  <2> QED
    BY <1>6, <2>2, <2>3, <2>4
<1>19. CASE HeadersArrive(c)
  <2> DEFINE x == [r0 EXCEPT !.pc = "errorText"]
             y == [r0 EXCEPT !.pc = "body", !.answer = "none"]
  <2>1. r0.pc = "fetch" /\ (Becomes(c, x) \/ (r0.answer = "ok" /\ Becomes(c, y)))
    BY <1>19 DEF HeadersArrive, At, r0
  <2>2. x \in Record /\ x.pc = "errorText" /\ x.batch = r0.batch /\ x.taken = r0.taken /\ x.twice = r0.twice
        /\ x.result = r0.result /\ x.compressed = r0.compressed
    BY <1>1 DEF Record, pcs
  <2>3. y \in Record /\ y.pc = "body" /\ y.batch = r0.batch /\ y.taken = r0.taken /\ y.twice = r0.twice
        /\ y.result = r0.result /\ y.compressed = r0.compressed
    BY <1>1 DEF Record, pcs
  <2> HIDE DEF x, y
  <2>4. Accounted(x)
    BY <1>1, <1>10, <2>1, <2>2, WriteMoves
  <2>5. r0.answer = "ok" => Accounted(y)
    BY <1>1, <1>10, <2>1, <2>3, WriteMoves
  <2> QED
    BY <1>6, <2>1, <2>4, <2>5
<1>20. CASE Silence(c)
  <2> DEFINE x == [r0 EXCEPT !.silent = TRUE]
  <2>1. Becomes(c, x) /\ r0.pc \in {"body", "errorText"}
    BY <1>20 DEF Silence, At, r0
  <2>2. x \in Record /\ x.pc = r0.pc /\ x.batch = r0.batch /\ x.taken = r0.taken /\ x.twice = r0.twice
        /\ x.result = r0.result /\ x.compressed = r0.compressed /\ x.answer = r0.answer
    BY <1>1 DEF Record
  <2> HIDE DEF x
  <2>3. Accounted(x)
    BY <1>1, <1>10, <2>1, <2>2, WriteMoves
  <2> QED
    BY <1>6, <2>1, <2>3
<1>21. CASE Finish(c)
  <2>1. r0.pc = "body" /\ \E x \in Returned(r0, gaveUp) : Becomes(c, x)
    BY <1>21 DEF Finish, At, r0
  <2> QED
    BY <1>1, <1>6, <1>9, <1>10, <2>1, WriteReturns
<1>22. CASE NetworkFails(c) \/ PreflightFails(c)
  <2>1. NetworkError(c) /\ r0.pc \in {"fetch", "body"}
    BY <1>22 DEF NetworkFails, PreflightFails, At, r0
  <2>2. \/ Becomes(c, retry(r0, TRUE, "network"))
        \/ r0.compressed /\ Becomes(c, resend(r0, TRUE))
        \/ Becomes(c, Thrown(r0, gaveUp, "network"))
    <3> DEFINE probes == r0.compressed /\ gzipRequestBody
    <3>1. /\ probes /\ c \in aborted => Becomes(c, retry(r0, TRUE, "network"))
          /\ ~(probes /\ c \in aborted)
             => Becomes(c, IF probes THEN resend(r0, TRUE) ELSE Thrown(r0, gaveUp, "network"))
      BY <2>1 DEF NetworkError, r0
    <3>2. CASE probes
      <4>1. CASE c \in aborted
        BY <3>1, <3>2, <4>1
      <4>2. CASE c \notin aborted
        <5>1. Becomes(c, IF probes THEN resend(r0, TRUE) ELSE Thrown(r0, gaveUp, "network"))
          BY <3>1, <4>2
        <5>2. (IF probes THEN resend(r0, TRUE) ELSE Thrown(r0, gaveUp, "network")) = resend(r0, TRUE)
          BY <3>2
        <5>3. Becomes(c, resend(r0, TRUE)) /\ r0.compressed
          BY <3>2, <5>1, <5>2
        <5> QED
          BY <5>3
      <4> QED
        BY <4>1, <4>2
    <3>3. CASE ~probes
      BY <3>1, <3>3
    <3> QED
      BY <3>2, <3>3
  <2>3. r0.compressed => Accounted(resend(r0, TRUE))
    BY <1>1, <1>9, <1>10, <2>1, WriteResent
  <2> QED
    BY <1>1, <1>6, <1>11, <2>2, <2>3
<1> QED
  BY <1>8, <1>12, <1>13, <1>14, <1>15, <1>16, <1>17, <1>18, <1>19, <1>20, <1>21, <1>22 DEF Step, Ours

LEMMA WriteInvKept == Typed /\ WriteInv /\ [Next]_vars => WriteInv'
<1> SUFFICES ASSUME Typed, WriteInv, [Next]_vars PROVE WriteInv'
  OBVIOUS
<1>1. CASE UNCHANGED vars
  BY <1>1 DEF WriteInv, vars
<1>2. ASSUME NEW d \in Call, Step(d) PROVE WriteInv'
  <2>1. PICK r \in Record : Becomes(d, r) /\ (r.kind = "bulkDocs" => Accounted(r))
    BY <1>2, StepOfWrite
  <2>2. call'[d] = r /\ \A c \in Call \ {d} : call'[c] = call[c]
    BY <2>1, OneCall DEF Typed
  <2>3. \A c \in Call : call'[c].kind = "bulkDocs" => Accounted(call'[c])
    BY <2>1, <2>2 DEF WriteInv
  <2> QED
    BY <2>3 DEF WriteInv
<1> QED
  BY <1>1, <1>2, NextIsAStep

(* A write is not sent again after an unknown outcome, but for the probe of a
   compressed one, and it returns only when every batch was taken: for any
   number of batches and calls, failures, silences and refusals. *)
THEOREM WritesTakenOnce == Spec => []WrittenOnce
<1>1. Init => WriteInv
  <2> SUFFICES ASSUME Init, NEW c \in Call PROVE call[c].kind # "bulkDocs"
    BY DEF WriteInv
  <2> QED
    BY DEF Init, NewCall
<1>2. Spec => [](Typed /\ WriteInv)
  BY <1>1, InitTypes, TypeKept, WriteInvKept, PTL DEF Spec
<1>3. Typed /\ WriteInv => WrittenOnce
  <2> SUFFICES ASSUME Typed, WriteInv, NEW c \in Call, call[c].kind = "bulkDocs"
               PROVE  /\ ~call[c].twice
                      /\ call[c].result = "ok" => {t[1] : t \in call[c].taken} = 1..MaxBatch
    BY DEF WrittenOnce
  <2> DEFINE r == call[c]
  <2>1. ~r.twice /\ (r.result = "ok" => \A b \in 1..MaxBatch : Has(r, b))
    BY DEF WriteInv, Accounted
  <2>2. r.taken \subseteq (1..MaxBatch) \X BOOLEAN
    BY DEF Typed, TypeOK, Record
  <2> HIDE DEF r
  <2>3. ASSUME r.result = "ok" PROVE {t[1] : t \in r.taken} = 1..MaxBatch
    <3>1. {t[1] : t \in r.taken} \subseteq 1..MaxBatch
      BY <2>2
    <3>2. ASSUME NEW b \in 1..MaxBatch PROVE b \in {t[1] : t \in r.taken}
      <4>1. PICK z \in BOOLEAN : <<b, z>> \in r.taken
        BY <2>1, <2>3 DEF Has
      <4>2. <<b, z>>[1] = b
        OBVIOUS
      <4> QED
        BY <4>1, <4>2
    <3> QED
      BY <3>1, <3>2
  <2> QED
    BY <2>1, <2>3 DEF r
<1> QED
  BY <1>2, <1>3, PTL

-----------------------------------------------------------------------------
(* What the client learns of a server that refuses compressed bodies. *)

(* A probe is uncompressed, only a compressed request is answered by a refusal
   of its encoding, and who sleeps before a retry is no probe. *)
Sound(r) ==
  /\ r.probe => ~r.compressed
  /\ r.answer = "unsupported" => r.compressed
  /\ r.pc = "sleep" => ~r.probe

Unlucky(r) == r.pc = "settle" \/ r.answer = "server"
Refused(r) == r.result \in {"network", "unknown"}

LearnInv ==
  /\ \A c \in Call : Sound(call[c])
  /\ faults = 0 => /\ aborted = {}
                   /\ \A c \in Call : ~Unlucky(call[c]) /\ (Refused(call[c]) => ~gzipRequestBody)

LEMMA EndedSound ==
  ASSUME NEW r \in Record, NEW e \in Result
  PROVE  Sound(Ended(r, e)) /\ ~Unlucky(Ended(r, e)) /\ Ended(r, e).result = e
<1> DEFINE x == Ended(r, e)
<1>1. x.pc = "done" /\ x.answer = "none" /\ x.probe = FALSE /\ x.compressed = FALSE /\ x.result = e
  BY EndedType
<1> HIDE DEF x
<1>2. Sound(x) /\ ~Unlucky(x)
  BY <1>1 DEF Sound, Unlucky
<1> QED
  BY <1>1, <1>2 DEF x

LEMMA FailsSound ==
  ASSUME NEW r \in Record, Sound(r), NEW gaveUp \in BOOLEAN, NEW e \in Failed
  PROVE  /\ Sound(retry(r, gaveUp, e)) /\ Sound(Thrown(r, gaveUp, e))
         /\ r.answer # "server" => ~Unlucky(Thrown(r, gaveUp, e))
<1>1. ASSUME NEW f \in Failed
      PROVE  Sound(retry(r, gaveUp, f)) /\ (r.answer # "server" => ~Unlucky(retry(r, gaveUp, f)))
  <2> DEFINE x == retry(r, gaveUp, f)
  <2>1. /\ x = Ended(r, f) \/ x.pc = "sleep"
        /\ x.pc = "sleep" => /\ x.probe = FALSE
                             /\ x.answer = r.answer /\ x.compressed = r.compressed
    BY RetryIs
  <2>2. Sound(Ended(r, f)) /\ ~Unlucky(Ended(r, f))
    BY FailuresAre, EndedSound
  <2> HIDE DEF x
  <2>3. CASE x = Ended(r, f)
    BY <2>2, <2>3 DEF x
  <2>4. CASE x.pc = "sleep"
    <3>1. Sound(x) /\ (r.answer # "server" => ~Unlucky(x))
      BY <2>1, <2>4 DEF Sound, Unlucky
    <3> QED
      BY <3>1 DEF x
  <2> QED
    BY <2>1, <2>3, <2>4
<1>2. PICK f \in Failed : Thrown(r, gaveUp, e) = retry(r, gaveUp, f)
  BY ThrownIs
<1> QED
  BY <1>1, <1>2

LEMMA AsksSound ==
  ASSUME TypeOK, NEW r \in Record, NEW gaveUp \in BOOLEAN, r.kind \in batched => ~r.probe
  PROVE  /\ Sound(request(r, gaveUp)) /\ ~Unlucky(request(r, gaveUp))
         /\ ~gaveUp => request(r, gaveUp).result = r.result
<1>1. CASE gaveUp
  <2>1. PICK e \in Failed : request(r, gaveUp) = Ended(r, e)
    BY <1>1, RequestEnds
  <2>2. Sound(Ended(r, e)) /\ ~Unlucky(Ended(r, e))
    BY FailuresAre, EndedSound
  <2> QED
    BY <1>1, <2>1, <2>2
<1>2. CASE ~gaveUp
  <2> DEFINE x == Asked(r)
  <2>1. /\ x \in Record /\ x.answer = "none" /\ x.probe = r.probe /\ x.result = r.result
        /\ x.pc = (IF x.compressed THEN "compress" ELSE "fetch")
        /\ x.compressed => r.kind \in batched
    BY AskedIs
  <2> HIDE DEF x
  <2>2. Sound(x) /\ ~Unlucky(x)
    BY <2>1 DEF Sound, Unlucky
  <2> QED
    BY <1>2, <2>1, <2>2, RequestIs DEF x
<1> QED
  BY <1>1, <1>2

LEMMA ReturnsSound ==
  ASSUME TypeOK, NEW r \in Record, Sound(r), NEW gaveUp \in BOOLEAN, NEW x \in Returned(r, gaveUp)
  PROVE  /\ Sound(x) /\ ~Unlucky(x)
         /\ ~gaveUp => x.result \in {"ok", r.result}
<1>1. Sound(Ended(r, "ok")) /\ ~Unlucky(Ended(r, "ok")) /\ Ended(r, "ok").result = "ok"
  BY FailuresAre, EndedSound
<1>2. ASSUME NEW y \in Record, y.kind = r.kind, y.result = r.result, x = request(y, gaveUp),
             r.kind \in batched => ~y.probe
      PROVE  Sound(x) /\ ~Unlucky(x) /\ (~gaveUp => x.result \in {"ok", r.result})
  BY <1>2, AsksSound
<1>3. CASE r.kind \in feeds
  <2>1. r.kind \notin batched
    BY <1>3 DEF feeds, batched
  <2>2. CASE x = Ended(r, "ok")
    BY <1>1, <2>2
  <2>3. CASE x # Ended(r, "ok")
    <3> DEFINE y == [r EXCEPT !.batch = @ + 1, !.attempt = 0]
    <3>1. r.batch < MaxBatch /\ x = request(y, gaveUp)
      BY <1>3, <2>3 DEF Returned, paginate
    <3>2. y \in Record /\ y.kind = r.kind /\ y.result = r.result
      BY <3>1, NextBatch DEF Record
    <3> HIDE DEF y
    <3> QED
      BY <1>2, <2>1, <3>1, <3>2
  <2> QED
    BY <2>2, <2>3
<1>4. CASE r.kind \notin feeds
  <2>1. CASE r.kind \in batched /\ r.batch < MaxBatch
    <3> DEFINE y == [r EXCEPT !.batch = @ + 1, !.probe = FALSE]
    <3>1. x = request(y, gaveUp)
      BY <1>4, <2>1 DEF Returned, bulk
    <3>2. y \in Record /\ y.kind = r.kind /\ y.result = r.result /\ y.probe = FALSE
      BY <2>1, NextBatch DEF Record
    <3> HIDE DEF y
    <3> QED
      BY <1>2, <3>1, <3>2
  <2>2. CASE ~(r.kind \in batched /\ r.batch < MaxBatch)
    <3>1. x = Ended(r, "ok")
      BY <1>4, <2>2 DEF Returned, bulk
    <3> QED
      BY <1>1, <3>1
  <2> QED
    BY <2>1, <2>2
<1> QED
  BY <1>3, <1>4

LEMMA ResendSound ==
  ASSUME NEW r \in Record, NEW probe \in BOOLEAN
  PROVE  Sound(resend(r, probe)) /\ ~Unlucky(resend(r, probe)) /\ resend(r, probe).result = r.result
<1> DEFINE x == resend(r, probe)
<1>1. x.pc = "fetch" /\ x.compressed = FALSE /\ x.answer = "none" /\ x.result = r.result
  BY ResendType
<1> HIDE DEF x
<1>2. Sound(x) /\ ~Unlucky(x)
  BY <1>1 DEF Sound, Unlucky
<1> QED
  BY <1>1, <1>2 DEF x

\* A step that leaves the form of the request alone.
LEMMA MovesSound ==
  ASSUME NEW r \in Record, NEW x \in Record, Sound(r), x.pc # "sleep",
         x.probe = r.probe, x.compressed = r.compressed,
         \/ x.answer \in {r.answer, "none", "ok", "server"}
         \/ x.answer = "unsupported" /\ r.compressed
  PROVE  Sound(x)
  BY DEF Sound

LEMMA StepOfSound ==
  ASSUME Typed, NEW c \in Call, Step(c), Sound(call[c])
  PROVE  \E r \in Record : Becomes(c, r) /\ Sound(r)
<1> DEFINE r0 == call[c]
           gaveUp == c \in aborted
<1>1. r0 \in Record /\ gaveUp \in BOOLEAN /\ gzipRequestBody \in BOOLEAN /\ TypeOK
      /\ Sound(r0)
  BY DEF Typed, TypeOK
<1>2. PICK r \in Record : Becomes(c, r)
  BY StepOfCall
<1>3. ASSUME NEW x, Becomes(c, x) PROVE r = x
  BY <1>1, <1>2, <1>3, OneCall
<1>4. SUFFICES Sound(r)
  BY <1>2
<1>5. \A e \in {"aborted", "timeout", "unknown", "server", "network"}, g \in BOOLEAN :
          Sound(retry(r0, g, e)) /\ Sound(Thrown(r0, g, e))
  BY <1>1, FailuresAre, FailsSound
<1>6. /\ Sound(Ended(r0, "aborted")) /\ Sound(Ended(r0, "empty"))
      /\ Sound(resend(r0, TRUE)) /\ Sound(resend(r0, FALSE))
  BY <1>1, FailuresAre, EndedSound, ResendSound
<1>7. Sound(Cut(r0)) /\ Sound([Cut(r0) EXCEPT !.external = TRUE]) /\ Sound([Cut(r0) EXCEPT !.maxWait = TRUE])
  <2> DEFINE k == Cut(r0)
             e == [k EXCEPT !.external = TRUE]
             m == [k EXCEPT !.maxWait = TRUE]
  <2>1. /\ k \in Record /\ e \in Record /\ m \in Record /\ k.pc \in {"settle", "errorText"}
        /\ k.answer \in {"none", r0.answer} /\ k.compressed = r0.compressed /\ k.probe = r0.probe
    BY <1>1, CutType
  <2>2. e = [k EXCEPT !.external = TRUE] /\ m = [k EXCEPT !.maxWait = TRUE]
    OBVIOUS
  <2> HIDE DEF k, e, m
  <2>3. /\ e.pc \in {"settle", "errorText"} /\ e.answer \in {"none", r0.answer} /\ e.compressed = r0.compressed /\ e.probe = r0.probe
        /\ m.pc \in {"settle", "errorText"} /\ m.answer \in {"none", r0.answer} /\ m.compressed = r0.compressed /\ m.probe = r0.probe
    BY <2>1, <2>2 DEF Record
  <2>4. Sound(k) /\ Sound(e) /\ Sound(m)
    BY <1>1, <2>1, <2>3, MovesSound
  <2> QED
    BY <2>4 DEF k, e, m
<1> HIDE DEF r0
<1>11. CASE \E kind \in Kind, large \in BOOLEAN : Start(c, kind, large)
  <2>1. PICK kind \in Kind, large \in BOOLEAN : Becomes(c, request(NewCall(kind, large), FALSE))
    BY <1>11 DEF Start
  <2> DEFINE n == NewCall(kind, large)
  <2>2. n \in Record /\ n.probe = FALSE
    BY NewCallType DEF NewCall
  <2> HIDE DEF n
  <2>3. Sound(request(n, FALSE))
    BY <1>1, <2>2, AsksSound
  <2> QED
    BY <1>3, <2>1, <2>3 DEF n
<1>12. CASE Abort(c)
  <2>1. r0.pc \in pcs
    BY <1>1 DEF Record
  <2>2. \/ Becomes(c, [Cut(r0) EXCEPT !.external = TRUE])
        \/ Becomes(c, Ended(r0, "aborted")) \/ Becomes(c, r0)
    BY <1>12, <2>1 DEF Abort, At, r0, pcs
  <2> QED
    BY <1>1, <1>3, <1>6, <1>7, <2>2
<1>13. CASE Wake(c)
  <2>1. r0.pc = "sleep" /\ Becomes(c, request(r0, gaveUp))
    BY <1>13 DEF Wake, At, r0
  <2>2. Sound(request(r0, gaveUp))
    BY <1>1, <2>1, AsksSound DEF Sound
  <2> QED
    BY <1>3, <2>1, <2>2
<1>14. CASE Compressed(c)
  <2> DEFINE x == [r0 EXCEPT !.pc = "fetch"]
  <2>1. Becomes(c, x)
    BY <1>14 DEF Compressed, r0
  <2>2. x \in Record /\ x.pc = "fetch" /\ x.probe = r0.probe /\ x.compressed = r0.compressed /\ x.answer = r0.answer
    BY <1>1 DEF Record, pcs
  <2> HIDE DEF x
  <2>3. Sound(x)
    BY <1>1, <2>2, MovesSound
  <2> QED
    BY <1>3, <2>1, <2>3
<1>15. CASE ErrorAnswer(c)
  <2> DEFINE falls == r0.answer = "unsupported" /\ r0.compressed /\ gzipRequestBody
  <2>1. /\ r0.pc = "errorText"
        /\ Becomes(c, CASE falls /\ c \notin aborted -> resend(r0, FALSE)
                         [] falls /\ c \in aborted ->
                                retry(r0, TRUE, IF r0.external THEN "aborted" ELSE "timeout")
                         [] ~falls /\ r0.answer = "unsupported" -> Thrown(r0, c \in aborted, "unknown")
                         [] ~falls /\ r0.answer = "server" -> Thrown(r0, c \in aborted, "server"))
    BY <1>15 DEF ErrorAnswer, At, r0
  <2>2. r0.answer \in {"unsupported", "server"}
    BY <2>1 DEF Typed, Read, r0
  <2>3. \/ Becomes(c, resend(r0, FALSE)) \/ Becomes(c, retry(r0, TRUE, "timeout"))
        \/ Becomes(c, retry(r0, TRUE, "aborted"))
        \/ Becomes(c, Thrown(r0, gaveUp, "unknown")) \/ Becomes(c, Thrown(r0, gaveUp, "server"))
    BY <2>1, <2>2
  <2> QED
    BY <1>1, <1>3, <1>5, <1>6, <2>3
<1>16. CASE Settle(c)
  <2>1. \/ Becomes(c, Thrown(r0, TRUE, "aborted")) \/ Becomes(c, longpollEnds(r0))
        \/ Becomes(c, Thrown(r0, gaveUp, "timeout"))
    BY <1>16 DEF Settle, r0
  <2>2. longpollEnds(r0) = Ended(r0, "empty") \/ longpollEnds(r0) = Thrown(r0, FALSE, "unknown")
    BY DEF longpollEnds
  <2> QED
    BY <1>1, <1>3, <1>5, <1>6, <2>1, <2>2
<1>17. CASE TimerFires(c)
  <2>1. Becomes(c, Cut(r0)) \/ Becomes(c, [Cut(r0) EXCEPT !.maxWait = TRUE])
    BY <1>17 DEF TimerFires, r0
  <2> QED
    BY <1>3, <1>7, <2>1
<1>18. CASE Serve(c)
  <2>1. r0.pc = "fetch"
    BY <1>18 DEF Serve, At, r0
  <2>2. \/ Becomes(c, Served(r0)) \/ Becomes(c, [r0 EXCEPT !.answer = "ok"])
        \/ (r0.compressed /\ Becomes(c, [r0 EXCEPT !.answer = "unsupported"]))
        \/ Becomes(c, [r0 EXCEPT !.answer = "server"])
    BY <1>18 DEF Serve, Served, r0
  <2> DEFINE x == Served(r0)
             y(a) == [r0 EXCEPT !.answer = a]
  <2>3. x \in Record /\ x.pc = "fetch" /\ x.probe = r0.probe /\ x.compressed = r0.compressed /\ x.answer = "ok"
    BY <1>1, <2>1, ServedType
  <2>4. \A a \in {"ok", "unsupported", "server"} :
           /\ y(a) \in Record /\ y(a).pc = "fetch" /\ y(a).probe = r0.probe
           /\ y(a).compressed = r0.compressed /\ y(a).answer = a
    <3> TAKE a \in {"ok", "unsupported", "server"}
    <3>1. y(a) \in Record /\ y(a).pc = "fetch"
      BY <1>1, <2>1 DEF Record, pcs
    <3> QED
      BY <1>1, <3>1 DEF Record
  <2> HIDE DEF x, y
  <2>5. Sound(x) /\ Sound(y("ok")) /\ Sound(y("server")) /\ (r0.compressed => Sound(y("unsupported")))
    BY <1>1, <2>3, <2>4, MovesSound
  <2> QED
    BY <1>3, <2>2, <2>5 DEF x, y
<1>19. CASE HeadersArrive(c)
  <2> DEFINE x == [r0 EXCEPT !.pc = "errorText"]
             y == [r0 EXCEPT !.pc = "body", !.answer = "none"]
  <2>1. Becomes(c, x) \/ Becomes(c, y)
    BY <1>19 DEF HeadersArrive, r0
  <2>2. x \in Record /\ x.pc = "errorText" /\ x.probe = r0.probe /\ x.compressed = r0.compressed
        /\ x.answer = r0.answer
    BY <1>1 DEF Record, pcs
  <2>3. y \in Record /\ y.pc = "body" /\ y.probe = r0.probe /\ y.compressed = r0.compressed
        /\ y.answer = "none"
    BY <1>1 DEF Record, pcs
  <2> HIDE DEF x, y
  <2>4. Sound(x) /\ Sound(y)
    BY <1>1, <2>2, <2>3, MovesSound
  <2> QED
    BY <1>3, <2>1, <2>4
<1>20. CASE Silence(c)
  <2> DEFINE x == [r0 EXCEPT !.silent = TRUE]
  <2>1. Becomes(c, x) /\ r0.pc \in {"body", "errorText"}
    BY <1>20 DEF Silence, At, r0
  <2>2. x \in Record /\ x.pc = r0.pc /\ x.probe = r0.probe /\ x.compressed = r0.compressed
        /\ x.answer = r0.answer
    BY <1>1 DEF Record
  <2> HIDE DEF x
  <2>3. Sound(x)
    BY <1>1, <2>1, <2>2, MovesSound
  <2> QED
    BY <1>3, <2>1, <2>3
<1>21. CASE Finish(c)
  BY <1>1, <1>3, <1>21, ReturnsSound DEF Finish, r0
<1>22. CASE NetworkFails(c) \/ PreflightFails(c)
  <2>1. NetworkError(c)
    BY <1>22 DEF NetworkFails, PreflightFails
  <2>2. \/ Becomes(c, retry(r0, TRUE, "network")) \/ Becomes(c, resend(r0, TRUE))
        \/ Becomes(c, Thrown(r0, gaveUp, "network"))
    BY <2>1 DEF NetworkError, r0
  <2> QED
    BY <1>1, <1>3, <1>5, <1>6, <2>2
<1> QED
  BY <1>11, <1>12, <1>13, <1>14, <1>15, <1>16, <1>17, <1>18, <1>19, <1>20, <1>21, <1>22 DEF Step, Ours

(* While the network serves and nobody gives up, the latch is never raised
   again, and who fails leaves it down. *)
LEMMA StepOfLuck ==
  ASSUME Typed, MaxFaults > 0, LearnInv, NEW c \in Call, Step(c), faults = 0, faults' = 0
  PROVE  /\ aborted' = {} /\ (~gzipRequestBody => ~gzipRequestBody')
         /\ \E r \in Record : Becomes(c, r) /\ ~Unlucky(r) /\ (Refused(r) => ~gzipRequestBody')
<1> DEFINE r0 == call[c]
<1>1. /\ r0 \in Record /\ gzipRequestBody \in BOOLEAN /\ TypeOK /\ MaxFaults \in Nat
      /\ r0.compressed \in BOOLEAN /\ r0.answer \in {"none", "ok", "unsupported", "server"}
  BY CouchAssumption DEF Typed, TypeOK, Record
<1>2. aborted = {} /\ Sound(r0) /\ ~Unlucky(r0) /\ (Refused(r0) => ~gzipRequestBody)
  BY DEF LearnInv
<1>3. PICK r \in Record : Becomes(c, r)
  BY StepOfCall
<1>4. ASSUME NEW x, Becomes(c, x) PROVE r = x
  BY <1>1, <1>3, <1>4, OneCall
<1>5. r0.pc # "settle" /\ r0.answer # "server"
  BY <1>2 DEF Unlucky
<1>6. SUFFICES aborted' = {} /\ (~gzipRequestBody => ~gzipRequestBody')
               /\ ~Unlucky(r) /\ (Refused(r) => ~gzipRequestBody')
  BY <1>3
<1> HIDE DEF r0
<1>7. /\ ~Abort(c) /\ ~TimerFires(c) /\ ~Silence(c) /\ ~NetworkFails(c)
  BY <1>1 DEF Abort, TimerFires, Silence, NetworkFails, Late, Fault
<1>10. (c \in aborted) = FALSE
  BY <1>2
<1>8. ~Settle(c)
  BY <1>5 DEF Settle, At, r0
\* What is sent, or sent again, has no result yet but those of an earlier call.
<1>9. ASSUME NEW x \in Record, Becomes(c, x), ~Unlucky(x), x.result \in {"none", "ok", r0.result},
             aborted' = {}, ~gzipRequestBody => ~gzipRequestBody'
      PROVE  aborted' = {} /\ (~gzipRequestBody => ~gzipRequestBody')
               /\ ~Unlucky(r) /\ (Refused(r) => ~gzipRequestBody')
  <2>1. r = x
    BY <1>4, <1>9
  <2> QED
    BY <1>2, <1>9, <2>1 DEF Refused
<1>11. CASE \E kind \in Kind, large \in BOOLEAN : Start(c, kind, large)
  <2>1. PICK kind \in Kind, large \in BOOLEAN : Start(c, kind, large)
    BY <1>11
  <2> DEFINE n == NewCall(kind, large)
             x == request(n, FALSE)
  <2>2. Becomes(c, x) /\ gzipRequestBody' = gzipRequestBody /\ aborted' = aborted \ {c}
    BY <2>1 DEF Start
  <2>3. n \in Record /\ n.probe = FALSE /\ n.result = "none"
    BY NewCallType DEF NewCall
  <2> HIDE DEF n
  <2>4. x \in Record /\ ~Unlucky(x) /\ x.result = "none"
    BY <1>1, <2>3, AsksSound, RequestType
  <2> HIDE DEF x
  <2> QED
    BY <1>2, <1>9, <2>2, <2>4
<1>12. CASE Wake(c)
  <2> DEFINE x == request(r0, FALSE)
  <2>1. r0.pc = "sleep" /\ Becomes(c, request(r0, c \in aborted)) /\ gzipRequestBody' = gzipRequestBody
        /\ aborted' = aborted
    BY <1>12 DEF Wake, At, r0
  <2>2. Becomes(c, x)
    BY <1>10, <2>1
  <2>3. ~r0.probe
    BY <1>2, <2>1 DEF Sound
  <2>4. x \in Record /\ ~Unlucky(x) /\ x.result = r0.result
    BY <1>1, <2>3, AsksSound, RequestType
  <2> HIDE DEF x
  <2> QED
    BY <1>2, <1>9, <2>1, <2>2, <2>4
<1>13. CASE Compressed(c)
  <2> DEFINE x == [r0 EXCEPT !.pc = "fetch"]
  <2>1. Becomes(c, x) /\ gzipRequestBody' = gzipRequestBody /\ aborted' = aborted
    BY <1>13 DEF Compressed, r0
  <2>2. x \in Record /\ x.pc = "fetch" /\ x.answer = r0.answer /\ x.result = r0.result
    BY <1>1 DEF Record, pcs
  <2> HIDE DEF x
  <2> QED
    BY <1>2, <1>5, <1>9, <2>1, <2>2 DEF Unlucky
<1>14. CASE ErrorAnswer(c)
  <2> DEFINE falls == r0.answer = "unsupported" /\ r0.compressed /\ gzipRequestBody
  <2>1. /\ r0.pc = "errorText" /\ aborted' = aborted
        /\ gzipRequestBody' = IF falls THEN FALSE ELSE restored(r0)
        /\ Becomes(c, CASE falls /\ c \notin aborted -> resend(r0, FALSE)
                         [] falls /\ c \in aborted ->
                                retry(r0, TRUE, IF r0.external THEN "aborted" ELSE "timeout")
                         [] ~falls /\ r0.answer = "unsupported" -> Thrown(r0, c \in aborted, "unknown")
                         [] ~falls /\ r0.answer = "server" -> Thrown(r0, c \in aborted, "server"))
    BY <1>14 DEF ErrorAnswer, At, r0
  <2>2. r0.answer = "unsupported" /\ r0.compressed /\ ~r0.probe
    BY <1>2, <1>5, <2>1 DEF Typed, Read, r0, Sound
  <2>3. CASE gzipRequestBody
    <3> DEFINE x == resend(r0, FALSE)
    <3>1. Becomes(c, x)
      BY <1>2, <2>1, <2>2, <2>3
    <3>2. x \in Record /\ ~Unlucky(x) /\ x.result = r0.result
      BY <1>1, ResendSound, ResendType
    <3> HIDE DEF x
    <3> QED
      BY <1>2, <1>9, <2>1, <2>3, <3>1, <3>2
  <2>4. CASE ~gzipRequestBody
    <3>1. Becomes(c, Thrown(r0, FALSE, "unknown"))
      <4>1. Becomes(c, Thrown(r0, c \in aborted, "unknown"))
        BY <2>1, <2>2, <2>4
      <4> QED
        BY <1>10, <4>1
    <3>2. ~gzipRequestBody'
      BY <2>1, <2>2, <2>4 DEF restored
    <3>3. ~Unlucky(Thrown(r0, FALSE, "unknown"))
      BY <1>1, <1>2, <1>5, FailuresAre, FailsSound
    <3>4. r = Thrown(r0, FALSE, "unknown")
      BY <1>4, <3>1
    <3> QED
      BY <1>2, <2>1, <3>2, <3>3, <3>4
  <2> QED
    BY <2>3, <2>4
<1>15. CASE Serve(c)
  <2>1. \/ Becomes(c, Served(r0))
        \/ \E a \in {"ok", "unsupported"} : Becomes(c, [r0 EXCEPT !.answer = a])
    BY <1>15 DEF Serve, Served, Fault, r0
  <2>2. r0.pc = "fetch" /\ gzipRequestBody' = gzipRequestBody /\ aborted' = aborted
    BY <1>15 DEF Serve, At, r0
  <2>3. CASE Becomes(c, Served(r0))
    <3> DEFINE x == Served(r0)
    <3>1. x \in Record /\ x.pc = "fetch" /\ x.answer = "ok" /\ x.result = r0.result
      BY <1>1, <2>2, ServedType
    <3> HIDE DEF x
    <3> QED
      BY <1>2, <1>9, <2>2, <2>3, <3>1 DEF Unlucky, x
  <2>4. ASSUME NEW a \in {"ok", "unsupported"}, Becomes(c, [r0 EXCEPT !.answer = a])
        PROVE  aborted' = {} /\ (~gzipRequestBody => ~gzipRequestBody')
               /\ ~Unlucky(r) /\ (Refused(r) => ~gzipRequestBody')
    <3> DEFINE x == [r0 EXCEPT !.answer = a]
    <3>0. x \in Record /\ x.pc = "fetch"
      BY <1>1, <2>2 DEF Record, pcs
    <3>1. x \in Record /\ x.pc = "fetch" /\ x.answer = a /\ x.result = r0.result
      BY <1>1, <3>0 DEF Record
    <3>2. Becomes(c, x)
      BY <2>4
    <3> HIDE DEF x
    <3> QED
      BY <1>2, <1>9, <2>2, <3>1, <3>2 DEF Unlucky
  <2> QED
    BY <2>1, <2>3, <2>4
<1>16. CASE HeadersArrive(c)
  <2> DEFINE x == [r0 EXCEPT !.pc = "errorText"]
             y == [r0 EXCEPT !.pc = "body", !.answer = "none"]
  <2>1. (Becomes(c, x) \/ Becomes(c, y)) /\ gzipRequestBody' = gzipRequestBody /\ aborted' = aborted
    BY <1>16 DEF HeadersArrive, r0
  <2>2. /\ x \in Record /\ x.pc = "errorText" /\ x.answer = r0.answer /\ x.result = r0.result
        /\ y \in Record /\ y.pc = "body" /\ y.answer = "none" /\ y.result = r0.result
    BY <1>1 DEF Record, pcs
  <2> HIDE DEF x, y
  <2>3. ~Unlucky(x) /\ ~Unlucky(y)
    BY <1>5, <2>2 DEF Unlucky
  <2> QED
    BY <1>2, <1>9, <2>1, <2>2, <2>3
<1>17. CASE Finish(c)
  <2>1. PICK x \in Returned(r0, c \in aborted) : Becomes(c, x)
    BY <1>17 DEF Finish, r0
  <2>2. x \in Returned(r0, FALSE)
    BY <1>10, <2>1
  <2>3. x \in Record /\ ~Unlucky(x) /\ x.result \in {"ok", r0.result}
    BY <1>1, <1>2, <2>2, ReturnedType, ReturnsSound
  <2>4. gzipRequestBody' = gzipRequestBody /\ aborted' = aborted
    BY <1>17 DEF Finish
  <2> QED
    BY <1>2, <1>9, <2>1, <2>3, <2>4
<1>18. CASE PreflightFails(c)
  <2>1. NetworkError(c) /\ r0.compressed /\ ~r0.probe
    BY <1>2, <1>18 DEF PreflightFails, Sound, r0
  <2>2. CASE gzipRequestBody
    <3> DEFINE x == resend(r0, TRUE)
    <3>1. Becomes(c, x) /\ gzipRequestBody' = FALSE /\ aborted' = aborted
      BY <1>2, <2>1, <2>2 DEF NetworkError, r0
    <3>2. x \in Record /\ ~Unlucky(x) /\ x.result = r0.result
      BY <1>1, ResendSound, ResendType
    <3> HIDE DEF x
    <3> QED
      BY <1>2, <1>9, <3>1, <3>2
  <2>3. CASE ~gzipRequestBody
    <3>1. /\ Becomes(c, Thrown(r0, FALSE, "network")) /\ aborted' = aborted
          /\ gzipRequestBody' = restored(r0)
      <4>1. /\ Becomes(c, Thrown(r0, c \in aborted, "network")) /\ aborted' = aborted
            /\ gzipRequestBody' = restored(r0)
        BY <2>1, <2>3 DEF NetworkError, r0
      <4> QED
        BY <1>10, <4>1
    <3>2. ~gzipRequestBody'
      BY <2>1, <2>3, <3>1 DEF restored
    <3>3. ~Unlucky(Thrown(r0, FALSE, "network"))
      BY <1>1, <1>2, <1>5, FailuresAre, FailsSound
    <3>4. r = Thrown(r0, FALSE, "network")
      BY <1>4, <3>1
    <3> QED
      BY <1>2, <3>1, <3>2, <3>3, <3>4
  <2> QED
    BY <1>1, <2>2, <2>3
<1> QED
  BY <1>7, <1>8, <1>11, <1>12, <1>13, <1>14, <1>15, <1>16, <1>17, <1>18 DEF Step, Ours

LEMMA LearnKept ==
  ASSUME MaxFaults > 0, Typed, LearnInv, [Next]_vars
  PROVE  LearnInv'
<1>1. CASE UNCHANGED vars
  BY <1>1 DEF LearnInv, vars
<1>2. ASSUME NEW d \in Call, Step(d) PROVE LearnInv'
  <2>1. PICK r \in Record : Becomes(d, r) /\ Sound(r)
    BY <1>2, StepOfSound DEF LearnInv
  <2>2. call'[d] = r /\ \A c \in Call \ {d} : call'[c] = call[c]
    BY <2>1, OneCall DEF Typed
  <2>3. \A c \in Call : Sound(call'[c])
    BY <2>1, <2>2 DEF LearnInv
  <2>4. ASSUME faults' = 0
        PROVE  /\ aborted' = {}
               /\ \A c \in Call : ~Unlucky(call'[c]) /\ (Refused(call'[c]) => ~gzipRequestBody')
    <3>1. faults = 0
      <4>1. faults \in Nat
        BY CouchAssumption DEF Typed, TypeOK
      <4>2. faults' = faults \/ faults' = faults + 1
        BY <1>2 DEF Step, Start, Abort, Ours, Wake, Compressed, ErrorAnswer, Settle, TimerFires, Serve,
           HeadersArrive, Silence, Finish, NetworkFails, PreflightFails, NetworkError, Fault, Late
      <4> QED
        BY <2>4, <4>1, <4>2
    <3>2. /\ aborted' = {} /\ (~gzipRequestBody => ~gzipRequestBody')
          /\ \E x \in Record : Becomes(d, x) /\ ~Unlucky(x) /\ (Refused(x) => ~gzipRequestBody')
      BY <1>2, <2>4, <3>1, StepOfLuck
    <3>3. PICK x \in Record : Becomes(d, x) /\ ~Unlucky(x) /\ (Refused(x) => ~gzipRequestBody')
      BY <3>2
    <3>4. call'[d] = x
      BY <3>3, OneCall DEF Typed
    <3>5. \A c \in Call : ~Unlucky(call[c]) /\ (Refused(call[c]) => ~gzipRequestBody)
      BY <3>1 DEF LearnInv
    <3> QED
      BY <2>2, <3>2, <3>3, <3>4, <3>5
  <2> QED
    BY <2>3, <2>4 DEF LearnInv
<1> QED
  BY <1>1, <1>2, NextIsAStep

(* With a network that does not fail, answers in time and callers that do not
   give up, a body the server cannot read fails a call only when the latch has
   fallen, and it stays down: who comes later is sent uncompressed. *)
THEOREM RefusalIsLearnt ==
  ASSUME MaxFaults > 0
  PROVE  Spec => []RejectionIsLearnt
<1>1. Init => LearnInv
  <2> SUFFICES ASSUME Init PROVE LearnInv
    OBVIOUS
  <2> DEFINE n == NewCall("info", FALSE)
  <2>1. n.pc = "idle" /\ n.probe = FALSE /\ n.answer = "none" /\ n.result = "none"
    BY DEF NewCall
  <2>2. \A c \in Call : call[c] = n
    BY DEF Init
  <2> HIDE DEF n
  <2>3. Sound(n) /\ ~Unlucky(n) /\ ~Refused(n)
    BY <2>1 DEF Sound, Unlucky, Refused
  <2> QED
    BY <2>2, <2>3 DEF Init, LearnInv
<1>2. Typed /\ LearnInv /\ [Next]_vars => LearnInv'
  BY LearnKept
<1>3. Spec => [](Typed /\ LearnInv)
  BY <1>1, <1>2, InitTypes, TypeKept, PTL DEF Spec
<1>4. Typed /\ LearnInv => RejectionIsLearnt
  BY DEF LearnInv, RejectionIsLearnt, Refused
<1> QED
  BY <1>3, <1>4, PTL

=============================================================================
