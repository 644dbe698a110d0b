------------------------------- MODULE Gateway -------------------------------
(***************************************************************************)
(* A message on its way through the gateway: the WeCom bridge or the       *)
(* replay script hands it in, the signature gate, the replay guard and the *)
(* outbound sender let it pass or not, and every station leaves a record   *)
(* in the JSONL trace log from which the channel status and the trace KPI  *)
(* are computed.                                                           *)
(*                                                                         *)
(* Deliveries run as threads beside each other.  A write to the log may    *)
(* fail half way (the disk is full) and then raises in the middle of       *)
(* whatever was being logged; the process may be stopped.  The sessions'   *)
(* rows are the subject of Inbound and the work behind the gateway of      *)
(* Turns: here a guard is a read and a write, and a turn is its records.   *)
(***************************************************************************)
EXTENDS Naturals, Sequences, FiniteSets, SequencesExt

CONSTANTS Payloads,       \* the payloads that may arrive: records, see PayloadType
          Outcomes,       \* what rendering the acknowledgement may do
          MaxAttempts,    \* retries + 1 of OutboundSender.send (3)
          MaxDeliveries,  \* bound on the deliveries
          MaxFaults,      \* bound on failed writes and stops
          None            \* absent

AllOutcomes == {"ok", "temporary", "permanent", "unexpected"}

\* What refuses a delivery: the gate, the envelope, the guard or the send.
GateCodes == {"missing_source", "invalid_source", "missing_signature",
              "missing_signature_fields", "invalid_timestamp", "replay_window_exceeded",
              "invalid_signature"}
Codes == GateCodes \cup {"missing_session_id", "missing_message_text", "duplicate_webhook",
                         "egress"}
Answers == {"ignored_empty", "invalid_sender", "duplicate_ignored", "invalid_payload",
            "error", "runtime_error", "traceback", "ok"}

ASSUME OutcomesAssumption == Outcomes \subseteq AllOutcomes
ASSUME NoneAssumption == None \notin Payloads /\ None \notin Codes \cup Answers \cup AllOutcomes
ASSUME BoundsAssumption == /\ MaxAttempts \in Nat \ {0}
                           /\ MaxDeliveries \in Nat /\ MaxFaults \in Nat

VARIABLES job,       \* per delivery, how far it is
          log,       \* per delivery, its records in the trace log, oldest first
          file,      \* the log: "whole", "tail" (ends in half a line) or "broken"
          keys,      \* the <<session, idempotency key>> recorded so far
          sessions,  \* the sessions that have a row
          faults     \* failed writes and stops so far

vars == <<job, log, file, keys, sessions, faults>>

Deliveries == 1 .. MaxDeliveries

\* What an adapter and the gate look at.  id and alt: the channel's message id
\* and what stands in for it; signature: none, or what verifying it finds.
PayloadType == [via : {"bridge", "replay"}, channel : {"wecom", "feishu", "telegram"},
                id : Nat \cup {None}, alt : Nat \cup {None},
                session : Nat \cup {None}, text : BOOLEAN,
                source : {"trusted", "other", None},
                signature : {"good", "partial", "untimed", "stale", "bad", None},
                needsSource : BOOLEAN, needsSignature : BOOLEAN, trace : Nat]

ASSUME PayloadsAssumption == Payloads \subseteq PayloadType

Idle == [pc |-> "waiting", p |-> None, attempt |-> 0, class |-> None,
         code |-> None, turn |-> 0, answer |-> None]

Record(e, n, class) == [event |-> e, n |-> n, class |-> class]
TurnEvents == <<"route_decision", "sla_evaluated", "recommended_actions", "handoff_decision">>

-----------------------------------------------------------------------------
(* The gate, the keys and the decisions.                                   *)

SourceChecked(p) == p.signature # None \/ p.needsSource

\* SignatureValidator.validate and the adapters' verify_inbound.  Telegram
\* verifies nothing: a signature it carries is taken as good.
GateCode(p) ==
  IF SourceChecked(p) /\ p.source = None THEN "missing_source"
  ELSE IF SourceChecked(p) /\ p.source = "other" THEN "invalid_source"
  ELSE IF p.needsSignature /\ p.signature = None THEN "missing_signature"
  ELSE IF p.channel = "telegram" \/ p.signature \in {None, "good"} THEN "valid"
  ELSE CASE p.signature = "partial" -> "missing_signature_fields"
         [] p.signature = "untimed" -> "invalid_timestamp"
         [] p.signature = "stale"   -> "replay_window_exceeded"
         [] p.signature = "bad"     -> "invalid_signature"

\* build_inbound: what the envelope cannot do without.
EnvelopeCode(p) == IF p.session = None THEN "missing_session_id"
                   ELSE IF ~p.text THEN "missing_message_text" ELSE "valid"

\* idempotency_key: the message id, or an event id on its own, or the session
\* with the time (WeCom) or the number within the chat (Telegram).
Key(p) == IF p.id # None THEN <<p.channel, p.id>>
          ELSE IF p.alt = None THEN None
          ELSE IF p.channel = "feishu" THEN <<p.channel, "alt", p.alt>>
          ELSE <<p.channel, p.session, p.alt>>

\* _map_error_status
Status(code) ==
  IF code = "duplicate_webhook" THEN "duplicate_ignored"
  ELSE IF code \in {"missing_source", "invalid_source", "missing_signature",
                    "missing_signature_fields", "invalid_timestamp", "invalid_signature",
                    "missing_session_id", "missing_message_text"}
  THEN "invalid_payload" ELSE "error"

\* _classify, with what send makes of an error no adapter announced: it may be
\* tried again as long as attempts are left.
Class(outcome, n) ==
  IF outcome = "unexpected" THEN IF n < MaxAttempts THEN "temporary" ELSE "permanent"
  ELSE outcome

\* Mutant of ShouldRetry: whatever the failure.
ShouldRetryAlways(class, n) == class \in {"temporary", "permanent"} /\ n < MaxAttempts
\* RetryManager.decide
ShouldRetry(class, n) == class = "temporary" /\ n < MaxAttempts

-----------------------------------------------------------------------------
(* The log file and the ends of a delivery.                                *)

At(d, label) == job[d].pc = label
Running(d) == job[d].pc \notin {"waiting", "answered", "lost"}
Goto(d, label) == job' = [job EXCEPT ![d].pc = label]
Answer(d, status) == job' = [job EXCEPT ![d].pc = "answered", ![d].answer = status]

\* JsonTraceLogger.log: one line at the end of the file.  After half a line the
\* record becomes the rest of it and is nobody's any more.
Logs(d, r) ==
  /\ IF file = "tail" THEN file' = "broken" /\ UNCHANGED log
     ELSE log' = [log EXCEPT ![d] = Append(@, r)] /\ UNCHANGED file
  /\ UNCHANGED faults

\* The write fails, with nothing or a part of the line in the file.
Tears ==
  /\ faults < MaxFaults
  /\ faults' = faults + 1
  /\ file' \in {file, IF file = "whole" THEN "tail" ELSE file}
  /\ UNCHANGED log

\* Mutant of Raise: do_POST knows only the adapters' errors.
RaiseUncaught(d) == Goto(d, "raised")
\* Any other exception passes through the gateway: do_POST of the bridge still
\* answers, the script ends.
Raise(d) == Answer(d, IF job[d].p.via = "bridge" THEN "runtime_error" ELSE "traceback")

\* Leave a record and go on, or fail at it.
LogAndGo(d, r, label) == \/ Logs(d, r) /\ Goto(d, label)
                         \/ Tears /\ Raise(d)

Refuse(d, code) == job' = [job EXCEPT ![d].pc = "refuse", ![d].code = code]

-----------------------------------------------------------------------------
Init == /\ job = [d \in Deliveries |-> Idle]
        /\ log = [d \in Deliveries |-> <<>>]
        /\ file = "whole"
        /\ keys = {}
        /\ sessions = {}
        /\ faults = 0

\* A payload arrives, a new one or one sent again.  The bridge answers for a
\* message without a text or a sender itself.
Receive(d, p) ==
  /\ At(d, "waiting") /\ \A e \in 1 .. d - 1 : ~At(e, "waiting")
  /\ LET early == IF p.via = "replay" THEN None
                  ELSE IF ~p.text THEN "ignored_empty"
                  ELSE IF p.session = None THEN "invalid_sender" ELSE None IN
     job' = [job EXCEPT ![d].p = p, ![d].answer = early,
                        ![d].pc = IF early = None THEN "validate" ELSE "answered"]
  /\ UNCHANGED <<log, file, keys, sessions, faults>>

\* Mutant of Validate: no record of a refusal.
ValidateSilently(d) ==
  /\ At(d, "validate")
  /\ IF GateCode(job[d].p) = "valid" THEN Goto(d, "session") ELSE Refuse(d, GateCode(job[d].p))
  /\ UNCHANGED <<log, file, keys, sessions, faults>>

\* The gate and its record; nothing is recorded where nothing was checked.
Validate(d) ==
  /\ At(d, "validate")
  /\ LET p == job[d].p IN
     IF GateCode(p) # "valid"
     THEN \/ Logs(d, Record("signature_rejected", 0, None)) /\ Refuse(d, GateCode(p))
          \/ Tears /\ Raise(d)
     ELSE IF SourceChecked(p) THEN LogAndGo(d, Record("signature_validated", 0, None), "session")
     ELSE Goto(d, "session") /\ UNCHANGED <<log, file, faults>>
  /\ UNCHANGED <<keys, sessions>>

\* The envelope, and the session's row.
OpenSession(d) ==
  /\ At(d, "session")
  /\ LET p == job[d].p IN
     IF EnvelopeCode(p) # "valid" THEN Refuse(d, EnvelopeCode(p)) /\ UNCHANGED sessions
     ELSE /\ sessions' = sessions \cup {p.session}
          /\ Goto(d, IF Key(p) = None THEN "normalize" ELSE "guard")
  /\ UNCHANGED <<log, file, keys, faults>>

\* record_idempotency_key reads the session's keys, then writes them.
Guard(d) ==
  /\ At(d, "guard")
  /\ job' = [job EXCEPT ![d].pc = "record",
                        ![d].code = IF <<job[d].p.session, Key(job[d].p)>> \in keys
                                    THEN "duplicate_webhook" ELSE None]
  /\ UNCHANGED <<log, file, keys, sessions, faults>>

RecordKey(d) ==
  /\ At(d, "record")
  /\ keys' = keys \cup {<<job[d].p.session, Key(job[d].p)>>}
  /\ Goto(d, "audit")
  /\ UNCHANGED <<log, file, sessions, faults>>

\* The guard's record, and enforce.
Audit(d) ==
  /\ At(d, "audit")
  /\ LogAndGo(d, Record("ingress_replay_guard", 0, job[d].code),
              IF job[d].code = None THEN "normalize" ELSE "refuse")
  /\ UNCHANGED <<keys, sessions>>

\* Mutant of Normalize: the record is forgotten.
NormalizeSilently(d) ==
  /\ At(d, "normalize")
  /\ job' = [job EXCEPT ![d].pc = "render", ![d].attempt = 1]
  /\ UNCHANGED <<log, file, keys, sessions, faults>>

Normalize(d) ==
  /\ At(d, "normalize")
  /\ \/ /\ Logs(d, Record("ingress_normalized", 0, None))
        /\ job' = [job EXCEPT ![d].pc = "render", ![d].attempt = 1]
     \/ Tears /\ Raise(d)
  /\ UNCHANGED <<keys, sessions>>

-----------------------------------------------------------------------------
(* OutboundSender.send of the acknowledgement.                             *)

Fails(d, class) == job' = [job EXCEPT ![d].pc = "failed", ![d].class = class]

\* One attempt.  The record is written inside the try: when that fails, the
\* attempt fails with it, as an error no adapter announced.
Render(d) ==
  /\ At(d, "render")
  /\ LET n == job[d].attempt IN
     \E o \in Outcomes :
       IF o = "ok"
       THEN \/ /\ Logs(d, Record("egress_rendered", n, None))
               /\ IF job[d].p.via = "bridge" THEN Goto(d, "turn") ELSE Answer(d, "ok")
            \/ Tears /\ Fails(d, Class("unexpected", n))
       ELSE Fails(d, Class(o, n)) /\ UNCHANGED <<log, file, faults>>
  /\ UNCHANGED <<keys, sessions>>

NoteFailure(d) ==
  /\ At(d, "failed")
  /\ LogAndGo(d, Record("egress_failed", job[d].attempt, job[d].class), "decide")
  /\ UNCHANGED <<keys, sessions>>

\* Try again, or give up and raise the last error.
Decide(d) ==
  /\ At(d, "decide")
  /\ LET n == job[d].attempt IN
     \/ /\ IF ShouldRetry(job[d].class, n)
           THEN /\ Logs(d, Record("egress_retry_scheduled", n, job[d].class))
                /\ job' = [job EXCEPT ![d].pc = "render", ![d].attempt = n + 1]
           ELSE /\ Logs(d, Record("egress_retry_exhausted", n, job[d].class))
                /\ Refuse(d, "egress")
     \/ Tears /\ Raise(d)
  /\ UNCHANGED <<keys, sessions>>

\* receive: an adapter's error becomes a record and a status.
Refused(d) ==
  /\ At(d, "refuse")
  /\ \/ Logs(d, Record("ingress_failed", 0, None)) /\ Answer(d, Status(job[d].code))
     \/ Tears /\ Raise(d)
  /\ UNCHANGED <<keys, sessions>>

\* The intake behind the gateway leaves its records one after the other and
\* may raise before, between and after them.
Turn(d) ==
  /\ At(d, "turn")
  /\ LET k == job[d].turn IN
     \/ /\ k < Len(TurnEvents)
        /\ Logs(d, Record(TurnEvents[k + 1], 0, None))
        /\ job' = [job EXCEPT ![d].turn = k + 1]
     \/ k = Len(TurnEvents) /\ Answer(d, "ok") /\ UNCHANGED <<log, file, faults>>
     \/ k < Len(TurnEvents) /\ Tears /\ Raise(d)
     \/ Raise(d) /\ UNCHANGED <<log, file, faults>>
  /\ UNCHANGED <<keys, sessions>>

\* The process is stopped with all its threads; what is on disk stays.
Stop ==
  /\ faults < MaxFaults
  /\ \E d \in Deliveries : Running(d)
  /\ job' = [d \in Deliveries |-> IF Running(d) THEN [job[d] EXCEPT !.pc = "lost"] ELSE job[d]]
  /\ faults' = faults + 1
  /\ UNCHANGED <<log, file, keys, sessions>>

Step(d) == \/ Validate(d) \/ OpenSession(d) \/ Guard(d) \/ RecordKey(d) \/ Audit(d)
           \/ Normalize(d) \/ Render(d) \/ NoteFailure(d) \/ Decide(d) \/ Refused(d)
           \/ Turn(d)

Next == \/ \E d \in Deliveries : Step(d) \/ \E p \in Payloads : Receive(d, p)
        \/ Stop

\* A thread of the bridge is never blocked for good: it takes no lock and its
\* writes wait for the disk only.
Fairness == \A d \in Deliveries : WF_vars(Step(d))
Spec == Init /\ [][Next]_vars /\ Fairness

-----------------------------------------------------------------------------
(* What the scripts compute from the log.                                  *)

\* _load_all parses every line before anything is filtered or counted.
Readable == file = "whole"

Events(d) == {log[d][i].event : i \in 1 .. Len(log[d])}
Trace(tr) == {d \in Deliveries : job[d].p # None /\ job[d].p.trace = tr}

\* compute_trace_kpi: the required events, from whichever delivery of the trace.
Required == {"ingress_normalized", "egress_rendered"}
              \cup {TurnEvents[k] : k \in 1 .. Len(TurnEvents)}
Complete(tr) == Required \subseteq UNION {Events(d) : d \in Trace(tr)}

\* The records of an event, in whatever order the deliveries wrote them.
Records(event) == {r \in UNION {{d} \X DOMAIN log[d] : d \in Deliveries} :
                     log[r[1]][r[2]].event = event}

\* summarize_reliability, over a log shorter than its window of 500 records.
RejectedTotal == Cardinality(Records("signature_rejected"))
DuplicateTotal ==
  Cardinality({r \in Records("ingress_replay_guard") : log[r[1]][r[2]].class # None})
FailedTotal == Cardinality(Records("egress_failed"))
ScheduledTotal == Cardinality(Records("egress_retry_scheduled"))

-----------------------------------------------------------------------------
(* Properties.                                                             *)

Pc == {"waiting", "validate", "session", "guard", "record", "audit", "normalize", "render",
       "failed", "decide", "refuse", "turn", "answered", "lost"}

Stations == {"signature_validated", "signature_rejected", "ingress_replay_guard",
             "ingress_normalized", "ingress_failed", "route_decision", "sla_evaluated",
             "recommended_actions", "handoff_decision"}
EgressEvents == {"egress_rendered", "egress_failed", "egress_retry_scheduled",
                 "egress_retry_exhausted"}
RecordType == [event : Stations \cup EgressEvents, n : 0 .. MaxAttempts,
               class : {"temporary", "permanent", "duplicate_webhook", None}]
Job == [pc : Pc, p : Payloads \cup {None}, attempt : 0 .. MaxAttempts,
        class : {"temporary", "permanent", None}, code : Codes \cup {None},
        turn : 0 .. Len(TurnEvents), answer : Answers \cup {None}]

\* Types; a send makes at most MaxAttempts attempts.
TypeOK ==
  /\ job \in [Deliveries -> Job]
  /\ log \in [Deliveries -> Seq(RecordType)]
  /\ file \in {"whole", "tail", "broken"}
  /\ faults \in 0 .. MaxFaults

\* An attempt n follows the message's own record or the delay after attempt n - 1.
Opens(r, n) == \/ r.event = "ingress_normalized" /\ n = 1
               \/ r.event = "egress_retry_scheduled" /\ r.n + 1 = n

\* Whether a record of a send may come right after the record before it.
Continues(r, before) ==
  \/ r.event \in {"egress_failed", "egress_rendered"} /\ Opens(before, r.n)
  \/ /\ before = Record("egress_failed", r.n, r.class)
     /\ \/ /\ r.event = "egress_retry_scheduled"
           /\ r.class = "temporary" /\ r.n < MaxAttempts
        \/ /\ r.event = "egress_retry_exhausted"
           /\ r.class = "permanent" \/ r.n = MaxAttempts

\* What the log tells of a send is one story, begun once and without a gap: each
\* attempt fails and is scheduled again, in order, until one is rendered or, with
\* the attempts used up or the failure permanent, it is given up; nothing follows
\* either end (OutboundSender.send).
EgressChain ==
  Readable => \A d \in Deliveries : LET l == log[d] IN
    /\ \A i \in DOMAIN l : l[i].event \in EgressEvents => i > 1 /\ Continues(l[i], l[i - 1])
    /\ \A i, k \in DOMAIN l : l[i].event = "ingress_normalized" /\ l[k].event = l[i].event
                             => i = k

\* A message the bridge answered "ok" has a complete chain of events in the
\* trace KPI, as long as the log can be read at all.
OkWasTraced ==
  Readable => \A d \in Deliveries :
    job[d].answer = "ok" /\ job[d].p.via = "bridge" => Complete(job[d].p.trace)

\* The totals on the channels page are those of what happened: without faults
\* and with every delivery answered, the refusals of the gate, the ignored
\* duplicates and the failed attempts it shows are exactly the answers given
\* and the attempts that were scheduled again or ended a delivery.
StatusAgrees ==
  (faults = 0 /\ \A d \in Deliveries : ~Running(d)) =>
    /\ DuplicateTotal = Cardinality({d \in Deliveries : job[d].answer = "duplicate_ignored"})
    /\ RejectedTotal = Cardinality({d \in Deliveries : job[d].code \in GateCodes})
    /\ FailedTotal = ScheduledTotal + Cardinality({d \in Deliveries : job[d].code = "egress"})

\* Whatever fails, every delivery that was taken on ends: answered, or cut off
\* with the process.
Answered == \A d \in Deliveries : At(d, "validate") ~> job[d].pc \in {"answered", "lost"}
=============================================================================
