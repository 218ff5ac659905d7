---------------------------- MODULE Idempotency ----------------------------
(***************************************************************************)
(* The Idempotency-Key of one scope: a Redis record that reserves the key  *)
(* for the request that runs the handler, and keeps its answer for those   *)
(* that come again.  Redis calls time out on the client whether or not     *)
(* their script has run, or will still run; the reservation may expire     *)
(* under a slow handler, and the kept answer after its retention.          *)
(*                                                                         *)
(* A fingerprint stands for method, route and raw body; an answer for      *)
(* status, content type and body, told apart by whose it is and whether    *)
(* the body is empty.                                                      *)
(***************************************************************************)
EXTENDS Integers, FiniteSets

CONSTANTS
  IdemRequests, \* POST requests with the same scope and key
  Fingerprints, \* what they ask
  NoOne,        \* nobody's answer
  MaxLapses     \* bound: records that expire and requests that run without one

ASSUME IdemAssumption ==
  NoOne \notin IdemRequests /\ MaxLapses \in Nat /\ Fingerprints # {}

VARIABLES
  record, \* idem:v1:{scope}:{key}
  idem,   \* what each request holds
  lapses, \* records that have expired, and handlers started without a record
  ran     \* requests whose handler has been started

idemVars == <<record, idem, lapses, ran>>

Answer == [of : IdemRequests \cup {NoOne}, empty : BOOLEAN]
NoAnswer == [of |-> NoOne, empty |-> FALSE]

IdemRecord == [pc : {"new", "reserving", "running", "completing", "done"},
               fingerprint : Fingerprints,
               sent : BOOLEAN,      \* its script is on the way to Redis
               reply : {"none", "started", "conflict", "mismatch", "replay"},
               owns : BOOLEAN,      \* it believes it holds the reservation
               holds : BOOLEAN,     \* it does: the record has not expired since it was set
               own : Answer,        \* what its handler returned, or the reply brought
               answered : Answer]

KeyRecord ==
  {[state |-> "absent", owner |-> NoOne, fingerprint |-> f, answer |-> NoAnswer] : f \in Fingerprints}
    \cup [state : {"in_flight"}, owner : IdemRequests, fingerprint : Fingerprints, answer : {NoAnswer}]
    \cup [state : {"completed"}, owner : {NoOne}, fingerprint : Fingerprints, answer : Answer]

IdemTypeOK ==
  /\ record \in KeyRecord
  /\ idem \in [IdemRequests -> IdemRecord]
  /\ lapses \in 0 .. MaxLapses
  /\ ran \subseteq IdemRequests

Absent == [state |-> "absent", owner |-> NoOne,
           fingerprint |-> CHOOSE f \in Fingerprints : TRUE, answer |-> NoAnswer]

IdemInit ==
  /\ record = Absent
  /\ idem = [p \in IdemRequests |->
               [pc |-> "new", fingerprint |-> Absent.fingerprint, sent |-> FALSE, reply |-> "none",
                owns |-> FALSE, holds |-> FALSE, own |-> NoAnswer, answered |-> NoAnswer]]
  /\ lapses = 0
  /\ ran = {}

IdemAt(p, pc) == idem[p].pc = pc
IdemGo(p, r) == idem' = [idem EXCEPT ![p] = r]
Lapse == lapses < MaxLapses /\ lapses' = lapses + 1

-----------------------------------------------------------------------------
(* The reservation.                                                        *)

\* intercept: the key and the fingerprint are computed, and the script is sent.
Intercept(p) ==
  /\ IdemAt(p, "new")
  /\ \E f \in Fingerprints :
       IdemGo(p, [idem[p] EXCEPT !.pc = "reserving", !.fingerprint = f, !.sent = TRUE])
  /\ UNCHANGED <<record, lapses, ran>>

\* Slip: a reservation with another body is taken for an older request, and replaced.
ReplaceOther(p) ==
  record.state = "absent" \/ (record.state = "in_flight" /\ record.fingerprint # idem[p].fingerprint)

\* RESERVE_SCRIPT starts a request only when there is no record at all.
Vacant(p) == record.state = "absent"

\* RESERVE_SCRIPT, in one step of Redis; it may come after its request has stopped waiting.
ReserveScript(p) ==
  LET f == idem[p].fingerprint
      seen == [idem[p] EXCEPT !.sent = FALSE]
      told(reply, answer) ==
        IdemGo(p, IF IdemAt(p, "reserving") THEN [seen EXCEPT !.reply = reply, !.own = answer] ELSE seen)
  IN /\ idem[p].sent /\ ~idem[p].owns
     /\ IF Vacant(p)
        THEN /\ record' = [state |-> "in_flight", owner |-> p, fingerprint |-> f, answer |-> NoAnswer]
             /\ IdemGo(p, IF IdemAt(p, "reserving")
                          THEN [seen EXCEPT !.reply = "started", !.holds = TRUE] ELSE seen)
        ELSE /\ UNCHANGED record
             /\ IF record.state = "in_flight" THEN told("conflict", NoAnswer)
                ELSE IF record.fingerprint # f THEN told("mismatch", NoAnswer)
                \* mapReserveReply takes an empty body for a missing one.
                ELSE IF record.answer.empty THEN told("conflict", NoAnswer)
                ELSE told("replay", record.answer)
     /\ UNCHANGED <<lapses, ran>>

\* The request that the script let start runs its handler; the others are answered.
Proceed(p) ==
  /\ IdemAt(p, "reserving") /\ idem[p].reply = "started"
  /\ IdemGo(p, [idem[p] EXCEPT !.pc = "running", !.owns = TRUE])
  /\ ran' = ran \cup {p}
  /\ UNCHANGED <<record, lapses>>

Refuse(p) ==
  /\ IdemAt(p, "reserving") /\ idem[p].reply \in {"conflict", "mismatch"}
  /\ IdemGo(p, [idem[p] EXCEPT !.pc = "done"])
  /\ UNCHANGED <<record, lapses, ran>>

Replay(p) ==
  /\ IdemAt(p, "reserving") /\ idem[p].reply = "replay"
  /\ IdemGo(p, [idem[p] EXCEPT !.pc = "done", !.answered = idem[p].own])
  /\ UNCHANGED <<record, lapses, ran>>

\* The call fails or times out.  Open, the handler runs without a record; closed, 503.
ReserveFails(p) ==
  /\ IdemAt(p, "reserving")
  /\ \/ /\ IdemGo(p, [idem[p] EXCEPT !.pc = "running", !.holds = FALSE]) /\ Lapse
        /\ ran' = ran \cup {p}
     \/ IdemGo(p, [idem[p] EXCEPT !.pc = "done", !.holds = FALSE]) /\ UNCHANGED <<lapses, ran>>
  /\ UNCHANGED record

-----------------------------------------------------------------------------
(* The answer.                                                             *)

\* The handler returns, or throws; either way res.send is reached.  A request that owns a
\* reservation sends its answer to Redis first, and answers the client afterwards.
HandlerReturns(p) ==
  /\ IdemAt(p, "running")
  /\ \E e \in BOOLEAN :
       LET answer == [of |-> p, empty |-> e]
       IN IdemGo(p, IF idem[p].owns
                    THEN [idem[p] EXCEPT !.pc = "completing", !.sent = TRUE, !.own = answer]
                    ELSE [idem[p] EXCEPT !.pc = "done", !.own = answer, !.answered = answer])
  /\ UNCHANGED <<record, lapses, ran>>

\* Slip: whoever completes last is kept.
AnyReservation(p) == record.state = "in_flight"

\* COMPLETE_SCRIPT writes only over the reservation with its own token.
OwnReservation(p) == record.state = "in_flight" /\ record.owner = p

\* COMPLETE_SCRIPT; it, too, may come when its request waits no longer.
CompleteScript(p) ==
  /\ idem[p].sent /\ idem[p].owns
  /\ record' = IF OwnReservation(p)
               THEN [state |-> "completed", owner |-> NoOne,
                     fingerprint |-> idem[p].fingerprint, answer |-> idem[p].own]
               ELSE record
  /\ IdemGo(p, [idem[p] EXCEPT !.sent = FALSE, !.holds = FALSE])
  /\ UNCHANGED <<lapses, ran>>

\* complete has returned, failed or timed out: the client gets the answer whichever it is.
SendAnswer(p) ==
  /\ IdemAt(p, "completing")
  /\ IdemGo(p, [idem[p] EXCEPT !.pc = "done", !.answered = idem[p].own])
  /\ UNCHANGED <<record, lapses, ran>>

-----------------------------------------------------------------------------
(* Failures.                                                               *)

\* A script that was sent never reaches Redis.
ScriptLost(p) ==
  /\ idem[p].sent /\ IdemGo(p, [idem[p] EXCEPT !.sent = FALSE])
  /\ UNCHANGED <<record, lapses, ran>>

\* IDEMPOTENCY_LOCK_TTL_SECONDS or IDEMPOTENCY_RETENTION_SECONDS have passed.
RecordExpires ==
  /\ record.state # "absent" /\ record' = Absent /\ Lapse
  /\ idem' = [p \in IdemRequests |-> [idem[p] EXCEPT !.holds = FALSE]]
  /\ UNCHANGED ran

\* The process dies: no answer, and no completion.
IdemCrash(p) ==
  /\ idem[p].pc \in {"reserving", "running", "completing"}
  /\ IdemGo(p, [idem[p] EXCEPT !.pc = "done"])
  /\ UNCHANGED <<record, lapses, ran>>

IdemNext ==
  \/ RecordExpires
  \/ \E p \in IdemRequests :
       \/ Intercept(p) \/ ReserveScript(p) \/ Proceed(p) \/ Refuse(p) \/ Replay(p)
       \/ ReserveFails(p) \/ HandlerReturns(p) \/ CompleteScript(p) \/ SendAnswer(p)
       \/ ScriptLost(p) \/ IdemCrash(p)

IdemSpec == IdemInit /\ [][IdemNext]_idemVars

-----------------------------------------------------------------------------
(* Properties.                                                             *)

\* Handlers are started once for a key, and once more for each record that has expired and
\* each request that Redis could not be asked for: not for concurrent retries, crashes, calls
\* that time out but take effect, or scripts that come late.
RunsAreCounted == Cardinality(ran) <= 1 + lapses

\* A request whose reservation has not expired still has it: no late completion and no other
\* request takes the record from the handler that runs under it.
ReservationIsKept ==
  \A p \in IdemRequests : idem[p].holds => record.state = "in_flight" /\ record.owner = p

\* Whoever is answered is answered by a handler that ran, for the same fingerprint.
AnswerFits ==
  \A p \in IdemRequests :
    LET q == idem[p].answered.of
    IN q # NoOne => q \in ran /\ idem[q].fingerprint = idem[p].fingerprint

KeyRunsOnce == RunsAreCounted /\ ReservationIsKept /\ AnswerFits

\* What docs/operations/idempotency.md:54-55 says of a completed record: only while the first
\* request is in flight is a retry with its fingerprint told so.
ConflictMeansInFlight ==
  [][\A p \in IdemRequests :
       idem[p].reply # "conflict" /\ idem'[p].reply = "conflict" => record.state = "in_flight"]_idemVars
=============================================================================
