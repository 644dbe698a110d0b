--------------------------- MODULE Gateway_proofs ---------------------------
(***************************************************************************)
(* Theorems about Gateway: for any payloads, any number of deliveries,     *)
(* attempts and faults, and whatever rendering an acknowledgement does.    *)
(*                                                                         *)
(* What a delivery has left in the log is tied to the station it is at:    *)
(* as long as the log can be read, its records tell what it went through   *)
(* (Tale); as long as nothing failed, they also tell how often (Counts).   *)
(* The predicates speak of one delivery j and its records l, so a step of  *)
(* one delivery has to be looked at for that delivery only.                *)
(***************************************************************************)
EXTENDS Gateway, FiniteSetTheorems, FunctionTheorems, SequenceTheorems, TLAPS

Has(l, e) == \E i \in DOMAIN l : l[i].event = e
OnlyOne(l, e) == \A i, k \in DOMAIN l : l[i].event = e /\ l[k].event = e => i = k

\* The records of a send, each after the one it continues.
Chained(l) ==
  \A i \in DOMAIN l : l[i].event \in EgressEvents => i > 1 /\ Continues(l[i], l[i - 1])

\* A duplicate has been noted.
Noted(l) == \E i \in DOMAIN l : l[i].event = "ingress_replay_guard" /\ l[i].class # None

\* Every failed attempt has been decided on; every one but for the last record.
Decided(l, i) ==
  /\ i + 1 \in DOMAIN l
  /\ l[i + 1].event \in {"egress_retry_scheduled", "egress_retry_exhausted"}
Settled(l) == \A i \in DOMAIN l : l[i].event = "egress_failed" => Decided(l, i)
SettledButLast(l) ==
  \A i \in DOMAIN l : l[i].event = "egress_failed" => Decided(l, i) \/ i = Len(l)

Entrance == {"waiting", "validate", "session", "guard", "record", "audit"}

\* What the station of a delivery says of what it carries.
Shaped(j) ==
  /\ j.pc \notin {"waiting"} => j.p \in Payloads
  /\ j.pc \in {"render", "failed", "decide"} => j.attempt # 0
  /\ j.pc \in {"failed", "decide"} => j.class # None
  /\ j.pc \notin {"answered", "lost"} => j.answer = None
  /\ j.pc \in {"record", "audit"} => j.code \in {None, "duplicate_webhook"}
  /\ j.pc = "refuse" => j.code # None
  /\ j.pc \notin {"turn", "answered", "lost"} => j.turn = 0
  /\ j.pc \notin {"record", "audit", "refuse", "answered", "lost"} => j.code = None

\* What the log, as long as it can be read, holds of a delivery.
Tale(j, l) ==
  /\ Chained(l) /\ OnlyOne(l, "ingress_normalized")
  /\ j.pc \in Entrance \cup {"normalize"} => ~Has(l, "ingress_normalized")
  /\ j.pc \in {"render", "failed"} => l # <<>> /\ Opens(Last(l), j.attempt)
  /\ j.pc = "decide" => l # <<>> /\ Last(l) = Record("egress_failed", j.attempt, j.class)
  /\ j.pc \in {"render", "failed", "decide", "turn"} => Has(l, "ingress_normalized")
  /\ j.pc = "turn" =>
       /\ Has(l, "egress_rendered")
       /\ \A k \in 1 .. j.turn : Has(l, TurnEvents[k])
  /\ j.answer = "ok" /\ j.p.via = "bridge" => \A e \in Required : Has(l, e)

\* What it holds if nothing has failed.
Counts(j, l) ==
  /\ OnlyOne(l, "signature_rejected") /\ OnlyOne(l, "ingress_replay_guard")
  /\ OnlyOne(l, "egress_retry_exhausted")
  /\ j.pc \in Entrance => ~Has(l, "ingress_replay_guard")
  /\ Has(l, "signature_rejected") <=> j.code \in GateCodes
  /\ Has(l, "egress_retry_exhausted") <=> j.code = "egress"
  /\ Noted(l) <=> j.code = "duplicate_webhook" /\ j.pc \notin {"record", "audit"}
  /\ j.pc = "decide" => SettledButLast(l)
  /\ j.pc # "decide" => Settled(l)
  /\ j.pc # "lost"
  /\ j.pc = "answered" => (j.answer = "duplicate_ignored" <=> j.code = "duplicate_webhook")
  /\ j.pc # "answered" => j.answer = None

GInv ==
  /\ TypeOK
  /\ faults = 0 => file = "whole"
  /\ \A d \in Deliveries : Shaped(job[d])
  /\ file = "whole" => \A d \in Deliveries : Tale(job[d], log[d])
  /\ faults = 0 => \A d \in Deliveries : Counts(job[d], log[d])

-----------------------------------------------------------------------------
(* One more record.                                                        *)

LEMMA Constants ==
  /\ MaxAttempts \in Nat /\ MaxAttempts # 0 /\ MaxDeliveries \in Nat /\ MaxFaults \in Nat
  /\ None \notin Payloads /\ None \notin Codes /\ None \notin Answers
  /\ None \notin {"temporary", "permanent"}
BY BoundsAssumption, NoneAssumption DEF AllOutcomes

LEMMA Elements ==
  ASSUME NEW l \in Seq(RecordType)
  PROVE  /\ Len(l) \in Nat /\ DOMAIN l = 1 .. Len(l)
         /\ \A i \in DOMAIN l : l[i] \in RecordType
         /\ l # <<>> <=> Len(l) # 0
BY ElementOfSeq, EmptySeq, LenProperties

LEMMA OneMore ==
  ASSUME NEW l \in Seq(RecordType), NEW r \in RecordType, NEW m, m = Append(l, r)
  PROVE  /\ m \in Seq(RecordType) /\ m # <<>> /\ Last(m) = r
         /\ Len(m) = Len(l) + 1 /\ DOMAIN m = 1 .. (Len(l) + 1)
         /\ \A i \in DOMAIN l : i \in DOMAIN m /\ m[i] = l[i]
         /\ m[Len(l) + 1] = r
         /\ \A i \in DOMAIN m : i \in DOMAIN l \/ i = Len(l) + 1
         /\ Len(l) + 1 \notin DOMAIN l /\ Len(l) + 1 \in DOMAIN m
<1>1. Len(l) \in Nat /\ DOMAIN l = 1 .. Len(l)
  BY Elements
<1>2. /\ m \in Seq(RecordType) /\ Len(m) = Len(l) + 1
      /\ \A i \in 1 .. Len(l) : m[i] = l[i]
      /\ m[Len(l) + 1] = r
  BY AppendProperties
<1>3. DOMAIN m = 1 .. (Len(l) + 1)
  BY <1>2, Elements
<1>4. m # <<>>
  BY <1>1, <1>2, Elements
<1> QED BY <1>1, <1>2, <1>3, <1>4 DEF Last

\* What a record adds to what the log says of a delivery.
More(l, r, m) ==
  /\ m # <<>> /\ Last(m) = r
  /\ \A e : Has(m, e) <=> Has(l, e) \/ r.event = e
  /\ \A e : OnlyOne(l, e) /\ (r.event = e => ~Has(l, e)) => OnlyOne(m, e)
  /\ Noted(m) <=> \/ Noted(l)
                  \/ r.event = "ingress_replay_guard" /\ r.class # None
  /\ Chained(l) /\ (r.event \in EgressEvents => l # <<>> /\ Continues(r, Last(l)))
       => Chained(m)
  /\ Settled(l) => SettledButLast(m) /\ (r.event # "egress_failed" => Settled(m))
  /\ SettledButLast(l) /\ r.event \in {"egress_retry_scheduled", "egress_retry_exhausted"}
       => Settled(m)

LEMMA Grown ==
  ASSUME NEW l \in Seq(RecordType), NEW r \in RecordType, NEW m, m = Append(l, r)
  PROVE  More(l, r, m)
<1> DEFINE n == Len(l) + 1
<1>1. /\ n \in Nat /\ DOMAIN l = 1 .. (n - 1) /\ DOMAIN m = 1 .. n /\ Len(m) = n /\ Len(l) = n - 1
      /\ \A i \in DOMAIN l : i \in DOMAIN m /\ m[i] = l[i]
      /\ m[n] = r /\ n \in DOMAIN m /\ n \notin DOMAIN l
      /\ \A i \in DOMAIN m : i \in DOMAIN l \/ i = n
      /\ l # <<>> <=> n # 1
  BY Elements, OneMore
<1> HIDE DEF n
<1>2. ASSUME NEW e PROVE Has(m, e) <=> Has(l, e) \/ r.event = e
  BY <1>1 DEF Has
<1>3. ASSUME NEW e, OnlyOne(l, e), r.event = e => ~Has(l, e) PROVE OnlyOne(m, e)
  BY <1>1, <1>3 DEF OnlyOne, Has
<1>4. Noted(m) <=> \/ Noted(l)
                   \/ r.event = "ingress_replay_guard" /\ r.class # None
  <2> DEFINE P(x) == x.event = "ingress_replay_guard" /\ x.class # None
  <2>1. Noted(m) <=> \E i \in DOMAIN m : P(m[i])
    BY DEF Noted
  <2>2. Noted(l) <=> \E i \in DOMAIN l : P(l[i])
    BY DEF Noted
  <2>3. P(r) <=> r.event = "ingress_replay_guard" /\ r.class # None
    OBVIOUS
  <2> HIDE DEF P
  <2>4. (\E i \in DOMAIN m : P(m[i])) <=> (\E i \in DOMAIN l : P(l[i])) \/ P(r)
    BY <1>1
  <2> QED BY <2>1, <2>2, <2>3, <2>4
<1>5. ASSUME Chained(l), r.event \in EgressEvents => l # <<>> /\ Continues(r, Last(l))
      PROVE  Chained(m)
  <2> SUFFICES ASSUME NEW i \in DOMAIN m, m[i].event \in EgressEvents
               PROVE  i > 1 /\ Continues(m[i], m[i - 1])
    BY DEF Chained
  <2>1. CASE i \in DOMAIN l
    <3>1. i > 1 /\ Continues(l[i], l[i - 1])
      BY <1>1, <1>5, <2>1 DEF Chained
    <3>2. i - 1 \in DOMAIN l
      BY <1>1, <2>1, <3>1
    <3> QED BY <1>1, <2>1, <3>1, <3>2
  <2>2. CASE i = n
    <3>1. l # <<>> /\ Continues(r, l[n - 1])
      BY <1>1, <1>5, <2>2 DEF Last
    <3>2. n - 1 \in DOMAIN l /\ n > 1
      BY <1>1, <3>1
    <3> QED BY <1>1, <2>2, <3>1, <3>2
  <2> QED BY <1>1, <2>1, <2>2
<1>6. ASSUME NEW i \in DOMAIN m, m[i].event = "egress_failed",
             i \in DOMAIN l => \/ Decided(l, i)
                              \/ /\ i = Len(l)
                                 /\ r.event \in {"egress_retry_scheduled", "egress_retry_exhausted"}
      PROVE  Decided(m, i) \/ i = Len(m)
  BY <1>1, <1>6 DEF Decided
<1>7. Settled(l) => SettledButLast(m) /\ (r.event # "egress_failed" => Settled(m))
  BY <1>1, <1>6 DEF Settled, SettledButLast
<1>8. SettledButLast(l) /\ r.event \in {"egress_retry_scheduled", "egress_retry_exhausted"}
        => Settled(m)
  BY <1>1, <1>6 DEF Settled, SettledButLast
<1>9. m # <<>> /\ Last(m) = r
  BY OneMore
<1> QED BY <1>2, <1>3, <1>4, <1>5, <1>7, <1>8, <1>9 DEF More

-----------------------------------------------------------------------------
(* One delivery takes a step.                                              *)

\* What GInv says of one delivery.
LEMMA Facts ==
  ASSUME GInv, NEW d \in Deliveries
  PROVE  /\ job[d] \in Job /\ log[d] \in Seq(RecordType) /\ Shaped(job[d])
         /\ file = "whole" => Tale(job[d], log[d])
         /\ faults = 0 => Counts(job[d], log[d]) /\ Tale(job[d], log[d])
BY DEF GInv, TypeOK

LEMMA OneDelivery ==
  ASSUME GInv, NEW d \in Deliveries, NEW k \in Job, NEW m \in Seq(RecordType),
         job' = [job EXCEPT ![d] = k], log' = [log EXCEPT ![d] = m],
         file' \in {"whole", "tail", "broken"}, faults' \in 0 .. MaxFaults,
         file' = "whole" => file = "whole",
         faults' = 0 => faults = 0 /\ file' = "whole",
         Shaped(k), file' = "whole" => Tale(k, m), faults' = 0 => Counts(k, m)
  PROVE  GInv'
<1>1. job \in [Deliveries -> Job] /\ log \in [Deliveries -> Seq(RecordType)]
  BY DEF GInv, TypeOK
<1>2. TypeOK'
  BY <1>1 DEF TypeOK
<1>3. /\ job'[d] = k /\ log'[d] = m
      /\ \A e \in Deliveries \ {d} : job'[e] = job[e] /\ log'[e] = log[e]
  BY <1>1
<1>4. \A e \in Deliveries : Shaped(job'[e])
  BY <1>3 DEF GInv
<1>5. ASSUME file' = "whole", NEW e \in Deliveries PROVE Tale(job'[e], log'[e])
  BY <1>3, <1>5 DEF GInv
<1>6. ASSUME faults' = 0, NEW e \in Deliveries PROVE Counts(job'[e], log'[e])
  BY <1>3, <1>6 DEF GInv
<1> QED BY <1>2, <1>4, <1>5, <1>6 DEF GInv

\* The step leaves the log alone.
LEMMA QuietStep ==
  ASSUME GInv, NEW d \in Deliveries, NEW k \in Job, job' = [job EXCEPT ![d] = k],
         UNCHANGED <<log, file, faults>>, Shaped(k),
         file = "whole" => Tale(k, log[d]), faults = 0 => Counts(k, log[d])
  PROVE  GInv'
<1>1. log[d] \in Seq(RecordType) /\ log' = [log EXCEPT ![d] = log[d]]
  BY DEF GInv, TypeOK
<1>2. /\ file' \in {"whole", "tail", "broken"} /\ faults' \in 0 .. MaxFaults
      /\ faults' = 0 => faults = 0 /\ file' = "whole"
  BY DEF GInv, TypeOK
<1> QED BY <1>1, <1>2, OneDelivery

\* It leaves a record, if the file is not torn.
LEMMA LogStep ==
  ASSUME GInv, NEW d \in Deliveries, NEW k \in Job, job' = [job EXCEPT ![d] = k],
         NEW r \in RecordType, Logs(d, r), Shaped(k),
         \A m \in Seq(RecordType) : More(log[d], r, m) =>
           (file = "whole" => Tale(k, m)) /\ (faults = 0 => Counts(k, m))
  PROVE  GInv'
<1>1. /\ log[d] \in Seq(RecordType) /\ log \in [Deliveries -> Seq(RecordType)]
      /\ file \in {"whole", "tail", "broken"} /\ faults \in 0 .. MaxFaults
      /\ faults = 0 => file = "whole"
  BY DEF GInv, TypeOK
<1>2. PICK m \in Seq(RecordType) : m = Append(log[d], r)
  BY <1>1, AppendProperties
<1>0. More(log[d], r, m)
  BY <1>1, <1>2, Grown
<1>3. CASE file = "tail"
  <2>1. log' = log /\ file' = "broken" /\ faults' = faults
    BY <1>3 DEF Logs
  <2>2. log' = [log EXCEPT ![d] = log[d]]
    BY <1>1, <2>1
  <2>3. file' # "whole" /\ faults' # 0
    BY <1>1, <1>3, <2>1
  <2> QED BY <1>1, <2>1, <2>2, <2>3, OneDelivery
<1>4. CASE file # "tail"
  <2>1. log' = [log EXCEPT ![d] = m] /\ file' = file /\ faults' = faults
    BY <1>2, <1>4 DEF Logs
  <2>2. (file' = "whole" => Tale(k, m)) /\ (faults' = 0 => Counts(k, m))
    BY <1>0, <2>1
  <2> QED BY <1>1, <2>1, <2>2, OneDelivery
<1> QED BY <1>3, <1>4

\* It fails at its record.
LEMMA TearStep ==
  ASSUME GInv, NEW d \in Deliveries, NEW k \in Job, job' = [job EXCEPT ![d] = k],
         Tears, Shaped(k), file = "whole" => Tale(k, log[d])
  PROVE  GInv'
<1>1. log[d] \in Seq(RecordType) /\ log' = [log EXCEPT ![d] = log[d]]
      /\ file \in {"whole", "tail", "broken"} /\ faults \in 0 .. MaxFaults
  BY DEF GInv, TypeOK, Tears
<1>2. /\ file' \in {"whole", "tail", "broken"}
      /\ file' = "whole" => file = "whole"
      /\ faults' \in 0 .. MaxFaults /\ faults' # 0
  <2>1. faults < MaxFaults /\ faults' = faults + 1 /\ MaxFaults \in Nat
    BY Constants DEF Tears
  <2>2. file' \in {file, IF file = "whole" THEN "tail" ELSE file}
    BY DEF Tears
  <2>3. faults' \in 0 .. MaxFaults /\ faults' # 0
    BY <1>1, <2>1
  <2> QED BY <1>1, <2>2, <2>3
<1> QED BY <1>1, <1>2, OneDelivery

\* An exception that nothing on the way knows.
LEMMA Raised ==
  ASSUME GInv, NEW d \in Deliveries, Raise(d), job[d].pc # "waiting"
  PROVE  \E k \in Job :
           /\ job' = [job EXCEPT ![d] = k] /\ Shaped(k) /\ k.pc = "answered"
           /\ k.answer \in {"runtime_error", "traceback"} /\ k.code = job[d].code
           /\ file = "whole" => Tale(k, log[d])
<1> DEFINE j == job[d]
           a == IF job[d].p.via = "bridge" THEN "runtime_error" ELSE "traceback"
           k == [j EXCEPT !.pc = "answered", !.answer = a]
<1>1. j \in Job /\ Shaped(j) /\ a \in {"runtime_error", "traceback"}
  BY Facts
<1>2. job' = [job EXCEPT ![d] = k]
  BY DEF Raise, Answer
<1>3. k \in Job /\ k.pc = "answered" /\ k.answer = a /\ k.p = j.p /\ k.code = j.code
  BY <1>1 DEF Job, Pc, Answers
<1>4. Shaped(k)
  BY <1>1, <1>3 DEF Shaped
<1>5. ASSUME file = "whole" PROVE Tale(k, log[d])
  <2>1. Tale(j, log[d])
    BY <1>5, Facts
  <2> QED BY <1>1, <1>3, <2>1 DEF Tale, Entrance
<1> HIDE DEF k, a, j
<1> QED BY <1>1, <1>2, <1>3, <1>4, <1>5 DEF j

LEMMA TearRaised ==
  ASSUME GInv, NEW d \in Deliveries, Tears, Raise(d), job[d].pc # "waiting"
  PROVE  GInv'
BY Raised, TearStep

-----------------------------------------------------------------------------
(* The gate, the session and the guard.                                    *)

LEMMA GateCodeType ==
  ASSUME NEW p \in Payloads PROVE GateCode(p) \in GateCodes \cup {"valid"}
<1>1. p.signature \in {"good", "partial", "untimed", "stale", "bad", None}
  BY PayloadsAssumption DEF PayloadType
<1> QED BY <1>1 DEF GateCode, GateCodes

\* What tells the codes and the records apart.
LEMMA Words ==
  /\ GateCodes \subseteq Codes /\ "duplicate_webhook" \in Codes \ GateCodes
  /\ "egress" \in Codes \ GateCodes /\ None \notin GateCodes
  /\ None # "duplicate_webhook" /\ None # "egress" /\ "valid" \notin Codes
  /\ {"missing_session_id", "missing_message_text"} \subseteq Codes \ GateCodes
  /\ None # "ok" /\ None # "duplicate_ignored" /\ "ok" \in Answers
  /\ EgressEvents = {"egress_rendered", "egress_failed", "egress_retry_scheduled",
                     "egress_retry_exhausted"}
BY Constants DEF GateCodes, Codes, Answers, EgressEvents

LEMMA RecordTyped ==
  ASSUME NEW e \in Stations \cup EgressEvents, NEW n \in 0 .. MaxAttempts,
         NEW c \in {"temporary", "permanent", "duplicate_webhook", None}
  PROVE  /\ Record(e, n, c) \in RecordType
         /\ Record(e, n, c).event = e /\ Record(e, n, c).n = n /\ Record(e, n, c).class = c
BY DEF Record, RecordType

LEMMA ReceiveKeeps ==
  ASSUME GInv, NEW d \in Deliveries, NEW p \in Payloads, Receive(d, p) PROVE GInv'
<1> DEFINE j == job[d]
           early == IF p.via = "replay" THEN None
                    ELSE IF ~p.text THEN "ignored_empty"
                    ELSE IF p.session = None THEN "invalid_sender" ELSE None
           k == [j EXCEPT !.p = p, !.answer = early,
                          !.pc = IF early = None THEN "validate" ELSE "answered"]
<1>1. j \in Job /\ Shaped(j) /\ j.pc = "waiting" /\ job' = [job EXCEPT ![d] = k]
      /\ UNCHANGED <<log, file, faults>>
  BY Facts DEF Receive, At
<1>2. early \in {None, "ignored_empty", "invalid_sender"}
  OBVIOUS
<1> HIDE DEF early
<1>3. /\ k \in Job /\ k.p = p /\ k.answer = early /\ k.code = j.code /\ k.turn = j.turn
      /\ k.pc = IF early = None THEN "validate" ELSE "answered"
  BY <1>1, <1>2 DEF Job, Pc, Answers
<1> HIDE DEF k
<1>4. Shaped(k)
  BY <1>1, <1>3 DEF Shaped
<1>5. ASSUME file = "whole" PROVE Tale(k, log[d])
  <2>1. Tale(j, log[d])
    BY <1>5, Facts
  <2> QED BY <1>1, <1>2, <1>3, <2>1, Words DEF Tale, Entrance
<1>6. ASSUME faults = 0 PROVE Counts(k, log[d])
  <2>1. Counts(j, log[d])
    BY <1>6, Facts
  <2> QED BY <1>1, <1>2, <1>3, <1>4, <2>1, Words DEF Counts, Entrance, Shaped
<1> HIDE DEF j
<1> QED BY <1>1, <1>3, <1>4, <1>5, <1>6, QuietStep

\* A step that only moves on and may set the code: what it must not disturb.
LEMMA Passing ==
  ASSUME GInv, NEW d \in Deliveries, NEW k \in Job, job' = [job EXCEPT ![d] = k],
         UNCHANGED <<log, file, faults>>, Shaped(k),
         k.p = job[d].p, k.answer = job[d].answer,
         job[d].pc \in Entrance, job[d].pc # "waiting",
         k.pc \in Entrance \cup {"normalize", "refuse"},
         k.code \in GateCodes <=> job[d].code \in GateCodes,
         k.code = "egress" <=> job[d].code = "egress",
         job[d].code = "duplicate_webhook" => job[d].pc \in {"record", "audit"},
         k.code = "duplicate_webhook" => k.pc \in {"record", "audit"},
         job[d].code # "egress"
  PROVE  GInv'
<1> DEFINE j == job[d]
<1>1. j \in Job /\ Shaped(j)
  BY Facts
<1>2. ASSUME file = "whole" PROVE Tale(k, log[d])
  <2>1. Tale(j, log[d])
    BY <1>2, Facts
  <2> QED BY <1>1, <2>1 DEF Tale, Entrance
<1>3. ASSUME faults = 0 PROVE Counts(k, log[d])
  <2>1. Counts(j, log[d])
    BY <1>3, Facts
  <2> QED BY <1>1, <2>1 DEF Counts, Entrance
<1> QED BY <1>2, <1>3, QuietStep

LEMMA ValidateKeeps == ASSUME GInv, NEW d \in Deliveries, Validate(d) PROVE GInv'
<1> DEFINE j == job[d]
           c == GateCode(j.p)
<1>1. j \in Job /\ Shaped(j) /\ j.pc = "validate" /\ j.code = None /\ j.p \in Payloads
      /\ j.answer = None
  BY Facts DEF Validate, At, Shaped
<1>2. c \in GateCodes \cup {"valid"}
  BY <1>1, GateCodeType
<1>3. 0 \in 0 .. MaxAttempts
  BY Constants
<1>4. CASE c # "valid" /\ Logs(d, Record("signature_rejected", 0, None)) /\ Refuse(d, c)
  <2> DEFINE k == [j EXCEPT !.pc = "refuse", !.code = c]
             r == Record("signature_rejected", 0, None)
  <2>1. job' = [job EXCEPT ![d] = k]
    BY <1>4 DEF Refuse
  <2>2. /\ k \in Job /\ k.pc = "refuse" /\ k.code = c /\ k.p = j.p /\ k.turn = j.turn
        /\ k.answer = None
        /\ c \in GateCodes
    BY <1>1, <1>2, <1>4, Words DEF Job, Pc
  <2>3. r \in RecordType /\ r.event = "signature_rejected"
    BY <1>3, RecordTyped DEF Stations
  <2> HIDE DEF k, r, c
  <2>4. Shaped(k)
    BY <1>1, <2>2, Words DEF Shaped
  <2>5. ASSUME NEW m, More(log[d], r, m)
        PROVE  (file = "whole" => Tale(k, m)) /\ (faults = 0 => Counts(k, m))
    <3>1. ASSUME file = "whole" PROVE Tale(k, m)
      <4>1. Tale(j, log[d])
        BY <3>1, Facts
      <4> QED BY <1>1, <2>2, <2>3, <2>5, <4>1, Words DEF Tale, More, Entrance
    <3>2. ASSUME faults = 0 PROVE Counts(k, m)
      <4>1. Counts(j, log[d])
        BY <3>2, Facts
      <4> QED BY <1>1, <2>2, <2>3, <2>5, <4>1, Words DEF Counts, More, Entrance
    <3> QED BY <3>1, <3>2
  <2>6. Logs(d, r)
    BY <1>4 DEF r
  <2> HIDE DEF j
  <2> QED BY <2>1, <2>2, <2>3, <2>4, <2>5, <2>6, LogStep
<1>5. CASE Tears /\ Raise(d)
  BY <1>1, <1>5, TearRaised
<1>6. CASE LogAndGo(d, Record("signature_validated", 0, None), "session")
  <2>1. CASE Tears /\ Raise(d)
    BY <1>1, <2>1, TearRaised
  <2>2. CASE Logs(d, Record("signature_validated", 0, None)) /\ Goto(d, "session")
    <3> DEFINE k == [j EXCEPT !.pc = "session"]
               r == Record("signature_validated", 0, None)
    <3>1. job' = [job EXCEPT ![d] = k]
      BY <2>2 DEF Goto
    <3>2. /\ k \in Job /\ k.pc = "session" /\ k.code = None /\ k.p = j.p /\ k.turn = j.turn
          /\ k.answer = None
      BY <1>1 DEF Job, Pc
    <3>3. r \in RecordType /\ r.event = "signature_validated"
      BY <1>3, RecordTyped DEF Stations
    <3> HIDE DEF k, r
    <3>4. Shaped(k)
      BY <1>1, <3>2 DEF Shaped
    <3>5. ASSUME NEW m, More(log[d], r, m)
          PROVE  (file = "whole" => Tale(k, m)) /\ (faults = 0 => Counts(k, m))
      <4>1. ASSUME file = "whole" PROVE Tale(k, m)
        <5>1. Tale(j, log[d])
          BY <4>1, Facts
        <5> QED BY <1>1, <3>2, <3>3, <3>5, <5>1, Words DEF Tale, More, Entrance
      <4>2. ASSUME faults = 0 PROVE Counts(k, m)
        <5>1. Counts(j, log[d])
          BY <4>2, Facts
        <5> QED BY <1>1, <3>2, <3>3, <3>5, <5>1, Words DEF Counts, More, Entrance
      <4> QED BY <4>1, <4>2
    <3>6. Logs(d, r)
      BY <2>2 DEF r
    <3> HIDE DEF j
    <3> QED BY <3>1, <3>2, <3>3, <3>4, <3>5, <3>6, LogStep
  <2> QED BY <1>6, <2>1, <2>2 DEF LogAndGo
<1>7. CASE Goto(d, "session") /\ UNCHANGED <<log, file, faults>>
  <2> DEFINE k == [j EXCEPT !.pc = "session"]
  <2>1. job' = [job EXCEPT ![d] = k]
    BY <1>7 DEF Goto
  <2>2. /\ k \in Job /\ k.pc = "session" /\ k.code = None /\ k.p = j.p /\ k.turn = j.turn
        /\ k.answer = None
    BY <1>1 DEF Job, Pc
  <2> HIDE DEF k
  <2>3. Shaped(k)
    BY <1>1, <2>2 DEF Shaped
  <2> QED BY <1>1, <1>7, <2>1, <2>2, <2>3, Words, Passing DEF Entrance
<1> HIDE DEF j
<1> QED BY <1>4, <1>5, <1>6, <1>7 DEF Validate, j

LEMMA OpenSessionKeeps == ASSUME GInv, NEW d \in Deliveries, OpenSession(d) PROVE GInv'
<1> DEFINE j == job[d]
           c == EnvelopeCode(j.p)
<1>1. /\ j \in Job /\ Shaped(j) /\ j.pc = "session" /\ j.code = None /\ j.answer = None
      /\ UNCHANGED <<log, file, faults>>
  BY Facts DEF OpenSession, At, Shaped
<1>2. c \in {"missing_session_id", "missing_message_text", "valid"}
  BY DEF EnvelopeCode
<1>3. CASE c # "valid"
  <2> DEFINE k == [j EXCEPT !.pc = "refuse", !.code = c]
  <2>1. job' = [job EXCEPT ![d] = k]
    BY <1>3 DEF OpenSession, Refuse
  <2>2. /\ k \in Job /\ k.pc = "refuse" /\ k.code = c /\ k.p = j.p /\ k.turn = j.turn
        /\ k.answer = None
        /\ c \in Codes \ GateCodes /\ c # "duplicate_webhook" /\ c # "egress"
    BY <1>1, <1>2, <1>3, Words DEF Job, Pc
  <2> HIDE DEF k, c
  <2>3. Shaped(k)
    BY <1>1, <2>2, Constants DEF Shaped
  <2> QED BY <1>1, <2>1, <2>2, <2>3, Words, Passing DEF Entrance
<1>4. CASE c = "valid"
  <2> DEFINE l == IF Key(j.p) = None THEN "normalize" ELSE "guard"
             k == [j EXCEPT !.pc = l]
  <2>1. job' = [job EXCEPT ![d] = k]
    BY <1>4 DEF OpenSession, Goto
  <2>2. l \in {"normalize", "guard"}
    OBVIOUS
  <2> HIDE DEF l
  <2>3. /\ k \in Job /\ k.pc = l /\ k.code = None /\ k.p = j.p /\ k.turn = j.turn
        /\ k.answer = None
    BY <1>1, <2>2 DEF Job, Pc
  <2> HIDE DEF k
  <2>4. Shaped(k)
    BY <1>1, <2>2, <2>3 DEF Shaped
  <2> QED BY <1>1, <2>1, <2>2, <2>3, <2>4, Words, Passing DEF Entrance
<1> QED BY <1>3, <1>4

LEMMA GuardKeeps == ASSUME GInv, NEW d \in Deliveries, Guard(d) PROVE GInv'
<1> DEFINE j == job[d]
           c == IF <<job[d].p.session, Key(job[d].p)>> \in keys THEN "duplicate_webhook" ELSE None
           k == [j EXCEPT !.pc = "record", !.code = c]
<1>1. /\ j \in Job /\ Shaped(j) /\ j.pc = "guard" /\ j.code = None /\ j.answer = None
      /\ UNCHANGED <<log, file, faults>> /\ job' = [job EXCEPT ![d] = k]
  BY Facts DEF Guard, At, Shaped
<1>2. c \in {"duplicate_webhook", None}
  OBVIOUS
<1> HIDE DEF c
<1>3. /\ k \in Job /\ k.pc = "record" /\ k.code = c /\ k.p = j.p /\ k.turn = j.turn
      /\ k.answer = None
  BY <1>1, <1>2, Words DEF Job, Pc
<1> HIDE DEF k
<1>4. Shaped(k)
  BY <1>1, <1>2, <1>3 DEF Shaped
<1> QED BY <1>1, <1>2, <1>3, <1>4, Words, Passing DEF Entrance

LEMMA RecordKeyKeeps == ASSUME GInv, NEW d \in Deliveries, RecordKey(d) PROVE GInv'
<1> DEFINE j == job[d]
           k == [j EXCEPT !.pc = "audit"]
<1>1. /\ j \in Job /\ Shaped(j) /\ j.pc = "record" /\ j.code \in {None, "duplicate_webhook"}
      /\ j.answer = None
      /\ UNCHANGED <<log, file, faults>> /\ job' = [job EXCEPT ![d] = k]
  BY Facts DEF RecordKey, At, Shaped, Goto
<1>2. /\ k \in Job /\ k.pc = "audit" /\ k.code = j.code /\ k.p = j.p /\ k.turn = j.turn
      /\ k.answer = None
  BY <1>1 DEF Job, Pc
<1> HIDE DEF k
<1>3. Shaped(k)
  BY <1>1, <1>2 DEF Shaped
<1> QED BY <1>1, <1>2, <1>3, Words, Passing DEF Entrance

LEMMA AuditKeeps == ASSUME GInv, NEW d \in Deliveries, Audit(d) PROVE GInv'
<1> DEFINE j == job[d]
           r == Record("ingress_replay_guard", 0, j.code)
           l == IF j.code = None THEN "normalize" ELSE "refuse"
           k == [j EXCEPT !.pc = l]
<1>1. /\ j \in Job /\ Shaped(j) /\ j.pc = "audit" /\ j.code \in {None, "duplicate_webhook"}
      /\ j.answer = None
  BY Facts DEF Audit, At, Shaped
<1>2. CASE Tears /\ Raise(d)
  BY <1>1, <1>2, TearRaised
<1>3. CASE Logs(d, r) /\ Goto(d, l)
  <2>1. job' = [job EXCEPT ![d] = k]
    BY <1>3 DEF Goto
  <2>2. l = IF j.code = None THEN "normalize" ELSE "refuse"
    OBVIOUS
  <2> HIDE DEF l
  <2>3. /\ k \in Job /\ k.pc = l /\ k.code = j.code /\ k.p = j.p /\ k.turn = j.turn
        /\ k.answer = None
    BY <1>1, <2>2 DEF Job, Pc
  <2>4. r \in RecordType /\ r.event = "ingress_replay_guard" /\ r.class = j.code
    BY <1>1, Constants, RecordTyped DEF Stations
  <2> HIDE DEF k, r
  <2>5. Shaped(k)
    BY <1>1, <2>2, <2>3 DEF Shaped
  <2>6. ASSUME NEW m, More(log[d], r, m)
        PROVE  (file = "whole" => Tale(k, m)) /\ (faults = 0 => Counts(k, m))
    <3>1. ASSUME file = "whole" PROVE Tale(k, m)
      <4>1. Tale(j, log[d])
        BY <3>1, Facts
      <4> QED BY <1>1, <2>2, <2>3, <2>4, <2>6, <4>1, Words DEF Tale, More, Entrance
    <3>2. ASSUME faults = 0 PROVE Counts(k, m)
      <4>1. Counts(j, log[d])
        BY <3>2, Facts
      <4> QED BY <1>1, <2>2, <2>3, <2>4, <2>6, <4>1, Words DEF Counts, More, Entrance
    <3> QED BY <3>1, <3>2
  <2>7. Logs(d, r)
    BY <1>3
  <2> HIDE DEF j
  <2> QED BY <2>1, <2>3, <2>4, <2>5, <2>6, <2>7, LogStep
<1> QED BY <1>2, <1>3 DEF Audit, LogAndGo

-----------------------------------------------------------------------------
(* The send.                                                               *)

LEMMA NormalizeKeeps == ASSUME GInv, NEW d \in Deliveries, Normalize(d) PROVE GInv'
<1> DEFINE j == job[d]
           r == Record("ingress_normalized", 0, None)
           k == [j EXCEPT !.pc = "render", !.attempt = 1]
<1>1. j \in Job /\ Shaped(j) /\ j.pc = "normalize" /\ j.code = None /\ j.answer = None
  BY Facts DEF Normalize, At, Shaped
<1>2. CASE Tears /\ Raise(d)
  BY <1>1, <1>2, TearRaised
<1>3. CASE Logs(d, r) /\ job' = [job EXCEPT ![d].pc = "render", ![d].attempt = 1]
  <2>1. job' = [job EXCEPT ![d] = k]
    BY <1>3
  <2>2. /\ k \in Job /\ k.pc = "render" /\ k.code = None /\ k.p = j.p /\ k.turn = j.turn
        /\ k.answer = None /\ k.attempt = 1
    <3>1. 1 \in 0 .. MaxAttempts
      BY Constants
    <3> QED BY <1>1, <3>1 DEF Job, Pc
  <2>3. r \in RecordType /\ r.event = "ingress_normalized"
    BY Constants, RecordTyped DEF Stations
  <2> HIDE DEF k, r
  <2>4. Shaped(k)
    BY <1>1, <2>2 DEF Shaped
  <2>5. ASSUME NEW m, More(log[d], r, m)
        PROVE  (file = "whole" => Tale(k, m)) /\ (faults = 0 => Counts(k, m))
    <3>1. ASSUME file = "whole" PROVE Tale(k, m)
      <4>1. Tale(j, log[d])
        BY <3>1, Facts
      <4>2. Last(m) = r /\ Opens(r, 1) /\ m # <<>>
        BY <2>3, <2>5 DEF More, Opens
      <4> QED BY <1>1, <2>2, <2>3, <2>5, <4>1, <4>2, Words DEF Tale, More, Entrance
    <3>2. ASSUME faults = 0 PROVE Counts(k, m)
      <4>1. Counts(j, log[d])
        BY <3>2, Facts
      <4> QED BY <1>1, <2>2, <2>3, <2>5, <4>1, Words DEF Counts, More, Entrance
    <3> QED BY <3>1, <3>2
  <2>6. Logs(d, r)
    BY <1>3 DEF r
  <2> HIDE DEF j
  <2> QED BY <2>1, <2>2, <2>3, <2>4, <2>5, <2>6, LogStep
<1> QED BY <1>2, <1>3 DEF Normalize

\* An attempt that fails.
LEMMA AttemptFails ==
  ASSUME GInv, NEW d \in Deliveries, job[d].pc = "render",
         NEW c \in {"temporary", "permanent"}, Fails(d, c)
  PROVE  \E k \in Job :
           /\ job' = [job EXCEPT ![d] = k] /\ Shaped(k)
           /\ file = "whole" => Tale(k, log[d])
           /\ faults = 0 => Counts(k, log[d])
<1> DEFINE j == job[d]
           k == [j EXCEPT !.pc = "failed", !.class = c]
<1>1. /\ j \in Job /\ Shaped(j) /\ j.pc = "render" /\ j.code = None /\ j.answer = None
      /\ job' = [job EXCEPT ![d] = k]
  BY Facts DEF Fails, Shaped
<1>2. /\ k \in Job /\ k.pc = "failed" /\ k.class = c /\ k.code = None /\ k.p = j.p
      /\ k.attempt = j.attempt /\ k.turn = j.turn /\ k.answer = None /\ c # None
  BY <1>1, Constants DEF Job, Pc
<1> HIDE DEF k
<1>3. Shaped(k)
  BY <1>1, <1>2 DEF Shaped
<1>4. ASSUME file = "whole" PROVE Tale(k, log[d])
  <2>1. Tale(j, log[d])
    BY <1>4, Facts
  <2> QED BY <1>1, <1>2, <2>1, Words DEF Tale, Entrance
<1>5. ASSUME faults = 0 PROVE Counts(k, log[d])
  <2>1. Counts(j, log[d])
    BY <1>5, Facts
  <2> QED BY <1>1, <1>2, <2>1, Words DEF Counts, Entrance
<1> HIDE DEF j
<1> QED BY <1>1, <1>2, <1>3, <1>4, <1>5

LEMMA ClassType ==
  ASSUME NEW o \in AllOutcomes \ {"ok"}, NEW n PROVE Class(o, n) \in {"temporary", "permanent"}
BY DEF Class, AllOutcomes

LEMMA RenderKeeps == ASSUME GInv, NEW d \in Deliveries, Render(d) PROVE GInv'
<1> DEFINE j == job[d]
           n == j.attempt
           r == Record("egress_rendered", n, None)
<1>1. /\ j \in Job /\ Shaped(j) /\ j.pc = "render" /\ j.code = None /\ j.answer = None
      /\ n \in 0 .. MaxAttempts /\ j.turn = 0
  BY Facts DEF Render, At, Shaped, Job
<1>2. r \in RecordType /\ r.event = "egress_rendered" /\ r.n = n
  BY <1>1, RecordTyped DEF EgressEvents
<1>3. ASSUME NEW o \in Outcomes, o # "ok", Fails(d, Class(o, n)), UNCHANGED <<log, file, faults>>
      PROVE  GInv'
  <2>1. Class(o, n) \in {"temporary", "permanent"}
    BY <1>3, ClassType, OutcomesAssumption
  <2> QED BY <1>1, <1>3, <2>1, AttemptFails, QuietStep
<1>4. ASSUME Tears, Fails(d, Class("unexpected", n)) PROVE GInv'
  <2>1. Class("unexpected", n) \in {"temporary", "permanent"}
    BY ClassType DEF AllOutcomes
  <2> QED BY <1>1, <1>4, <2>1, AttemptFails, TearStep
<1>5. ASSUME Logs(d, r), IF j.p.via = "bridge" THEN Goto(d, "turn") ELSE Answer(d, "ok")
      PROVE  GInv'
  <2> DEFINE k == IF j.p.via = "bridge" THEN [j EXCEPT !.pc = "turn"]
                  ELSE [j EXCEPT !.pc = "answered", !.answer = "ok"]
  <2>1. job' = [job EXCEPT ![d] = k]
    BY <1>5 DEF Goto, Answer
  <2>2. /\ k \in Job /\ k.code = None /\ k.p = j.p /\ k.turn = 0
        /\ k.p.via = "bridge" => k.pc = "turn" /\ k.answer = None
        /\ k.p.via # "bridge" => k.pc = "answered" /\ k.answer = "ok"
    BY <1>1, Words DEF Job, Pc
  <2> HIDE DEF k, r
  <2>3. Shaped(k)
    BY <1>1, <2>2 DEF Shaped
  <2>4. ASSUME NEW m, More(log[d], r, m)
        PROVE  (file = "whole" => Tale(k, m)) /\ (faults = 0 => Counts(k, m))
    <3>1. ASSUME file = "whole" PROVE Tale(k, m)
      <4>1. Tale(j, log[d])
        BY <3>1, Facts
      <4>2. log[d] # <<>> /\ Continues(r, Last(log[d]))
        BY <1>1, <1>2, <4>1 DEF Tale, Continues
      <4>3. Chained(m) /\ OnlyOne(m, "ingress_normalized") /\ Has(m, "ingress_normalized")
            /\ Has(m, "egress_rendered")
        BY <1>1, <1>2, <2>4, <4>1, <4>2 DEF Tale, More
      <4>4. 1 .. k.turn = {}
        BY <2>2
      <4> QED BY <1>1, <2>2, <4>3, <4>4, Words DEF Tale, Entrance
    <3>2. ASSUME faults = 0 PROVE Counts(k, m)
      <4>1. Counts(j, log[d])
        BY <3>2, Facts
      <4> QED BY <1>1, <1>2, <2>2, <2>4, <4>1, Words DEF Counts, More, Entrance
    <3> QED BY <3>1, <3>2
  <2> HIDE DEF j
  <2> QED BY <1>2, <1>5, <2>1, <2>2, <2>3, <2>4, LogStep
<1> QED BY <1>3, <1>4, <1>5 DEF Render

LEMMA NoteFailureKeeps == ASSUME GInv, NEW d \in Deliveries, NoteFailure(d) PROVE GInv'
<1> DEFINE j == job[d]
           r == Record("egress_failed", j.attempt, j.class)
           k == [j EXCEPT !.pc = "decide"]
<1>1. /\ j \in Job /\ Shaped(j) /\ j.pc = "failed" /\ j.code = None /\ j.answer = None
      /\ j.attempt \in 0 .. MaxAttempts /\ j.class \in {"temporary", "permanent"}
  BY Facts DEF NoteFailure, At, Shaped, Job
<1>2. CASE Tears /\ Raise(d)
  BY <1>1, <1>2, TearRaised
<1>3. CASE Logs(d, r) /\ Goto(d, "decide")
  <2>1. job' = [job EXCEPT ![d] = k]
    BY <1>3 DEF Goto
  <2>2. /\ k \in Job /\ k.pc = "decide" /\ k.code = None /\ k.p = j.p /\ k.turn = j.turn
        /\ k.answer = None /\ k.attempt = j.attempt /\ k.class = j.class
    BY <1>1 DEF Job, Pc
  <2>3. r \in RecordType /\ r.event = "egress_failed" /\ r.n = j.attempt
        /\ r = Record("egress_failed", k.attempt, k.class)
    BY <1>1, <2>2, RecordTyped DEF EgressEvents
  <2> HIDE DEF k, r
  <2>4. Shaped(k)
    BY <1>1, <2>2, Constants DEF Shaped
  <2>5. ASSUME NEW m, More(log[d], r, m)
        PROVE  (file = "whole" => Tale(k, m)) /\ (faults = 0 => Counts(k, m))
    <3>1. ASSUME file = "whole" PROVE Tale(k, m)
      <4>1. Tale(j, log[d])
        BY <3>1, Facts
      <4>2. log[d] # <<>> /\ Continues(r, Last(log[d]))
        BY <1>1, <2>3, <4>1 DEF Tale, Continues
      <4>3. Chained(m) /\ OnlyOne(m, "ingress_normalized") /\ Has(m, "ingress_normalized")
            /\ m # <<>> /\ Last(m) = r
        BY <1>1, <2>3, <2>5, <4>1, <4>2 DEF Tale, More
      <4> QED BY <2>2, <2>3, <4>3, Words DEF Tale, Entrance
    <3>2. ASSUME faults = 0 PROVE Counts(k, m)
      <4>1. Counts(j, log[d])
        BY <3>2, Facts
      <4> QED BY <1>1, <2>2, <2>3, <2>5, <4>1, Words DEF Counts, More, Entrance
    <3> QED BY <3>1, <3>2
  <2>6. Logs(d, r)
    BY <1>3 DEF r
  <2> HIDE DEF j
  <2> QED BY <2>1, <2>2, <2>3, <2>4, <2>5, <2>6, LogStep
<1> QED BY <1>2, <1>3 DEF NoteFailure, LogAndGo

\* What follows a failed attempt.
LEMMA DecidedKeeps ==
  ASSUME GInv, NEW d \in Deliveries, job[d].pc = "decide",
         NEW k \in Job, job' = [job EXCEPT ![d] = k], Shaped(k),
         k.p = job[d].p, k.answer = None, k.turn = 0,
         NEW r \in RecordType, Logs(d, r), r.n = job[d].attempt, r.class = job[d].class,
         \/ /\ r.event = "egress_retry_scheduled" /\ k.pc = "render" /\ k.code = None
            /\ r.class = "temporary" /\ r.n < MaxAttempts /\ Opens(r, k.attempt)
         \/ /\ r.event = "egress_retry_exhausted" /\ k.pc = "refuse" /\ k.code = "egress"
            /\ r.class = "permanent" \/ r.n = MaxAttempts
  PROVE  GInv'
<1> DEFINE j == job[d]
<1>1. j \in Job /\ Shaped(j) /\ j.pc = "decide" /\ j.code = None /\ j.answer = None
  BY Facts DEF Shaped
<1>2. ASSUME NEW m, More(log[d], r, m)
      PROVE  (file = "whole" => Tale(k, m)) /\ (faults = 0 => Counts(k, m))
  <2>1. ASSUME file = "whole" PROVE Tale(k, m)
    <3>1. Tale(j, log[d])
      BY <2>1, Facts
    <3>2. log[d] # <<>> /\ Last(log[d]) = Record("egress_failed", r.n, r.class)
      BY <1>1, <3>1 DEF Tale
    <3>3. Continues(r, Last(log[d]))
      BY <3>2 DEF Continues
    <3>4. Chained(m) /\ OnlyOne(m, "ingress_normalized") /\ Has(m, "ingress_normalized")
          /\ m # <<>> /\ Last(m) = r
      BY <1>1, <1>2, <3>1, <3>2, <3>3 DEF Tale, More
    <3> QED BY <3>4, Words DEF Tale, Entrance
  <2>2. ASSUME faults = 0 PROVE Counts(k, m)
    <3>1. Counts(j, log[d])
      BY <2>2, Facts
    <3> QED BY <1>1, <1>2, <3>1, Words DEF Counts, More, Entrance
  <2> QED BY <2>1, <2>2
<1> HIDE DEF j
<1> QED BY <1>2, LogStep

LEMMA DecideKeeps == ASSUME GInv, NEW d \in Deliveries, Decide(d) PROVE GInv'
<1> DEFINE j == job[d]
           n == j.attempt
<1>1. /\ j \in Job /\ Shaped(j) /\ j.pc = "decide" /\ j.code = None /\ j.answer = None
      /\ n \in 0 .. MaxAttempts /\ j.class \in {"temporary", "permanent"} /\ j.turn = 0
  BY Facts DEF Decide, At, Shaped, Job
<1>2. CASE Tears /\ Raise(d)
  BY <1>1, <1>2, TearRaised
<1>3. ASSUME ShouldRetry(j.class, n), Logs(d, Record("egress_retry_scheduled", n, j.class)),
             job' = [job EXCEPT ![d].pc = "render", ![d].attempt = n + 1]
      PROVE  GInv'
  <2> DEFINE k == [j EXCEPT !.pc = "render", !.attempt = n + 1]
             r == Record("egress_retry_scheduled", n, j.class)
  <2>1. job' = [job EXCEPT ![d] = k]
    BY <1>3
  <2>2. n < MaxAttempts /\ n + 1 \in 0 .. MaxAttempts /\ n + 1 # 0 /\ j.class = "temporary"
    BY <1>1, <1>3, Constants DEF ShouldRetry
  <2>3. /\ k \in Job /\ k.pc = "render" /\ k.code = None /\ k.p = j.p /\ k.turn = 0
        /\ k.answer = None /\ k.attempt = n + 1
    BY <1>1, <2>2 DEF Job, Pc
  <2>4. /\ r \in RecordType /\ r.event = "egress_retry_scheduled" /\ r.n = n
        /\ r.class = j.class /\ Opens(r, n + 1)
    BY <1>1, RecordTyped DEF EgressEvents, Opens
  <2>5. Logs(d, r)
    BY <1>3
  <2> HIDE DEF k, r
  <2>6. Shaped(k)
    BY <1>1, <2>2, <2>3 DEF Shaped
  <2> QED BY <1>1, <2>1, <2>2, <2>3, <2>4, <2>5, <2>6, DecidedKeeps
<1>4. ASSUME ~ShouldRetry(j.class, n), Logs(d, Record("egress_retry_exhausted", n, j.class)),
             Refuse(d, "egress")
      PROVE  GInv'
  <2> DEFINE k == [j EXCEPT !.pc = "refuse", !.code = "egress"]
             r == Record("egress_retry_exhausted", n, j.class)
  <2>1. job' = [job EXCEPT ![d] = k]
    BY <1>4 DEF Refuse
  <2>2. j.class = "permanent" \/ n = MaxAttempts
    BY <1>1, <1>4, Constants DEF ShouldRetry
  <2>3. /\ k \in Job /\ k.pc = "refuse" /\ k.code = "egress" /\ k.p = j.p /\ k.turn = 0
        /\ k.answer = None
    BY <1>1, Words DEF Job, Pc
  <2>4. r \in RecordType /\ r.event = "egress_retry_exhausted" /\ r.n = n /\ r.class = j.class
    BY <1>1, RecordTyped DEF EgressEvents
  <2>5. Logs(d, r)
    BY <1>4
  <2> HIDE DEF k, r
  <2>6. Shaped(k)
    BY <1>1, <2>3, Words DEF Shaped
  <2> QED BY <1>1, <2>1, <2>2, <2>3, <2>4, <2>5, <2>6, DecidedKeeps
<1> QED BY <1>2, <1>3, <1>4 DEF Decide

-----------------------------------------------------------------------------
(* The answer.                                                             *)

LEMMA StatusType ==
  ASSUME NEW c \in Codes
  PROVE  /\ Status(c) \in Answers /\ Status(c) # "ok"
         /\ Status(c) = "duplicate_ignored" <=> c = "duplicate_webhook"
BY DEF Status, Answers

LEMMA RefusedKeeps == ASSUME GInv, NEW d \in Deliveries, Refused(d) PROVE GInv'
<1> DEFINE j == job[d]
           a == Status(j.code)
           r == Record("ingress_failed", 0, None)
           k == [j EXCEPT !.pc = "answered", !.answer = a]
<1>1. j \in Job /\ Shaped(j) /\ j.pc = "refuse" /\ j.code \in Codes /\ j.answer = None
  BY Facts, Constants DEF Refused, At, Shaped, Job
<1>2. CASE Tears /\ Raise(d)
  BY <1>1, <1>2, TearRaised
<1>3. CASE Logs(d, r) /\ Answer(d, a)
  <2>1. job' = [job EXCEPT ![d] = k]
    BY <1>3 DEF Answer
  <2>2. /\ a \in Answers /\ a # "ok"
        /\ a = "duplicate_ignored" <=> j.code = "duplicate_webhook"
    BY <1>1, StatusType
  <2>3. r \in RecordType /\ r.event = "ingress_failed"
    BY Constants, RecordTyped DEF Stations
  <2>4. Logs(d, r)
    BY <1>3
  <2> HIDE DEF a, r
  <2>5. k \in Job /\ k.pc = "answered" /\ k.code = j.code /\ k.p = j.p /\ k.answer = a
    BY <1>1, <2>2 DEF Job, Pc
  <2> HIDE DEF k
  <2>6. Shaped(k)
    BY <1>1, <2>5 DEF Shaped
  <2>7. ASSUME NEW m, More(log[d], r, m)
        PROVE  (file = "whole" => Tale(k, m)) /\ (faults = 0 => Counts(k, m))
    <3>1. ASSUME file = "whole" PROVE Tale(k, m)
      <4>1. Tale(j, log[d])
        BY <3>1, Facts
      <4> QED BY <1>1, <2>2, <2>3, <2>5, <2>7, <4>1, Words DEF Tale, More, Entrance
    <3>2. ASSUME faults = 0 PROVE Counts(k, m)
      <4>1. Counts(j, log[d])
        BY <3>2, Facts
      <4> QED BY <1>1, <2>2, <2>3, <2>5, <2>7, <4>1, Words DEF Counts, More, Entrance
    <3> QED BY <3>1, <3>2
  <2> HIDE DEF j
  <2> QED BY <2>1, <2>3, <2>4, <2>5, <2>6, <2>7, LogStep
<1> QED BY <1>2, <1>3 DEF Refused

\* The records of a turn are nobody else's.
LEMMA TurnWords ==
  /\ Len(TurnEvents) = 4
  /\ \A k \in 1 .. 4 : TurnEvents[k] \in Stations
       \ {"signature_rejected", "ingress_replay_guard", "ingress_normalized"}
  /\ \A k \in 1 .. 4 : TurnEvents[k] \notin EgressEvents
  /\ Required = {"ingress_normalized", "egress_rendered"} \cup {TurnEvents[k] : k \in 1 .. 4}
<1>1. /\ TurnEvents[1] = "route_decision" /\ TurnEvents[2] = "sla_evaluated"
      /\ TurnEvents[3] = "recommended_actions" /\ TurnEvents[4] = "handoff_decision"
      /\ Len(TurnEvents) = 4
  BY DEF TurnEvents
<1>2. \A k \in 1 .. 4 : k = 1 \/ k = 2 \/ k = 3 \/ k = 4
  OBVIOUS
<1> QED BY <1>1, <1>2 DEF Stations, EgressEvents, Required

\* A turn is left without a record: it answers or raises.
LEMMA TurnEnds ==
  ASSUME GInv, NEW d \in Deliveries, job[d].pc = "turn", NEW a \in Answers, Answer(d, a),
         a \in {"ok", "runtime_error", "traceback"}, UNCHANGED <<log, file, faults>>,
         a = "ok" => job[d].turn = Len(TurnEvents)
  PROVE  GInv'
<1> DEFINE j == job[d]
           k == [j EXCEPT !.pc = "answered", !.answer = a]
<1>1. /\ j \in Job /\ Shaped(j) /\ j.pc = "turn" /\ j.code = None /\ j.answer = None
      /\ job' = [job EXCEPT ![d] = k]
  BY Facts DEF Shaped, Answer
<1>2. k \in Job /\ k.pc = "answered" /\ k.code = None /\ k.p = j.p /\ k.answer = a
  BY <1>1 DEF Job, Pc
<1> HIDE DEF k
<1>3. Shaped(k)
  BY <1>1, <1>2 DEF Shaped
<1>4. ASSUME file = "whole" PROVE Tale(k, log[d])
  <2>1. Tale(j, log[d])
    BY <1>4, Facts
  <2>2. ASSUME a = "ok", NEW e \in Required PROVE Has(log[d], e)
    BY <1>1, <2>1, <2>2, TurnWords DEF Tale
  <2> QED BY <1>1, <1>2, <2>1, <2>2 DEF Tale, Entrance
<1>5. ASSUME faults = 0 PROVE Counts(k, log[d])
  <2>1. Counts(j, log[d])
    BY <1>5, Facts
  <2> QED BY <1>1, <1>2, <2>1, Words DEF Counts, Entrance
<1> QED BY <1>1, <1>2, <1>3, <1>4, <1>5, QuietStep

LEMMA TurnKeeps == ASSUME GInv, NEW d \in Deliveries, Turn(d) PROVE GInv'
<1> DEFINE j == job[d]
           t == j.turn
           r == Record(TurnEvents[t + 1], 0, None)
           k == [j EXCEPT !.turn = t + 1]
<1>1. /\ j \in Job /\ Shaped(j) /\ j.pc = "turn" /\ j.code = None /\ j.answer = None
      /\ t \in 0 .. 4
  BY Facts, TurnWords DEF Turn, At, Shaped, Job
<1>2. CASE Tears /\ Raise(d)
  BY <1>1, <1>2, TearRaised
<1>3. CASE t = Len(TurnEvents) /\ Answer(d, "ok") /\ UNCHANGED <<log, file, faults>>
  BY <1>1, <1>3, TurnEnds, Words
<1>4. CASE Raise(d) /\ UNCHANGED <<log, file, faults>>
  <2>1. PICK a \in {"runtime_error", "traceback"} : Answer(d, a)
    BY <1>4 DEF Raise
  <2>2. a \in Answers
    BY DEF Answers
  <2> QED BY <1>1, <1>4, <2>1, <2>2, TurnEnds
<1>5. CASE t < Len(TurnEvents) /\ Logs(d, r) /\ job' = [job EXCEPT ![d].turn = t + 1]
  <2>1. job' = [job EXCEPT ![d] = k]
    BY <1>5
  <2>2. t + 1 \in 1 .. 4 /\ t + 1 \in 0 .. Len(TurnEvents)
    BY <1>1, <1>5, TurnWords
  <2>3. /\ k \in Job /\ k.pc = "turn" /\ k.code = None /\ k.p = j.p
        /\ k.answer = None /\ k.turn = t + 1
    BY <1>1, <2>2 DEF Job
  <2>4. /\ r \in RecordType /\ r.event = TurnEvents[t + 1]
        /\ r.event \notin {"signature_rejected", "ingress_replay_guard", "ingress_normalized"}
        /\ r.event \notin EgressEvents
    BY <2>2, Constants, TurnWords, RecordTyped
  <2>5. Logs(d, r)
    BY <1>5
  <2> HIDE DEF k, r
  <2>6. Shaped(k)
    BY <1>1, <2>3 DEF Shaped
  <2>7. ASSUME NEW m, More(log[d], r, m)
        PROVE  (file = "whole" => Tale(k, m)) /\ (faults = 0 => Counts(k, m))
    <3>1. ASSUME file = "whole" PROVE Tale(k, m)
      <4>1. Tale(j, log[d])
        BY <3>1, Facts
      <4>2. Chained(m) /\ OnlyOne(m, "ingress_normalized") /\ Has(m, "ingress_normalized")
            /\ Has(m, "egress_rendered")
        BY <1>1, <2>4, <2>7, <4>1 DEF Tale, More
      <4>3. ASSUME NEW i \in 1 .. t + 1 PROVE Has(m, TurnEvents[i])
        <5>1. i \in 1 .. t \/ i = t + 1
          BY <1>1
        <5> QED BY <1>1, <2>4, <2>7, <4>1, <5>1 DEF Tale, More
      <4> QED BY <2>3, <4>2, <4>3, Words DEF Tale, Entrance
    <3>2. ASSUME faults = 0 PROVE Counts(k, m)
      <4>1. Counts(j, log[d])
        BY <3>2, Facts
      <4> QED BY <1>1, <2>3, <2>4, <2>7, <4>1, Words DEF Counts, More, Entrance
    <3> QED BY <3>1, <3>2
  <2> HIDE DEF j
  <2> QED BY <2>1, <2>3, <2>4, <2>5, <2>6, <2>7, LogStep
<1> QED BY <1>2, <1>3, <1>4, <1>5 DEF Turn

LEMMA StopKeeps == ASSUME GInv, Stop PROVE GInv'
<1>1. /\ job \in [Deliveries -> Job] /\ log \in [Deliveries -> Seq(RecordType)]
      /\ file \in {"whole", "tail", "broken"} /\ faults \in 0 .. MaxFaults
      /\ \A d \in Deliveries :
           job'[d] = IF Running(d) THEN [job[d] EXCEPT !.pc = "lost"] ELSE job[d]
      /\ DOMAIN job' = Deliveries /\ job' = [d \in Deliveries |-> job'[d]]
      /\ UNCHANGED <<log, file>>
  BY DEF GInv, TypeOK, Stop
<1>2. faults' \in 0 .. MaxFaults /\ faults' # 0
  BY <1>1, Constants DEF Stop
<1>3. ASSUME NEW d \in Deliveries
      PROVE  /\ job'[d] \in Job /\ Shaped(job'[d])
             /\ file = "whole" => Tale(job'[d], log[d])
  <2> DEFINE j == job[d]
             k == [j EXCEPT !.pc = "lost"]
  <2>1. j \in Job /\ Shaped(j) /\ (file = "whole" => Tale(j, log[d]))
    BY Facts
  <2>2. CASE ~Running(d)
    BY <1>1, <2>1, <2>2
  <2>3. CASE Running(d)
    <3>1. job'[d] = k
      BY <1>1, <2>3
    <3>2. j.pc # "waiting"
      BY <2>3 DEF Running
    <3>3. k \in Job /\ k.pc = "lost" /\ k.p = j.p /\ k.answer = j.answer
      BY <2>1 DEF Job, Pc
    <3> HIDE DEF k
    <3>4. Shaped(k)
      BY <2>1, <3>2, <3>3 DEF Shaped
    <3>5. ASSUME file = "whole" PROVE Tale(k, log[d])
      BY <2>1, <3>3, <3>5 DEF Tale, Entrance
    <3> QED BY <3>1, <3>3, <3>4, <3>5
  <2> QED BY <2>2, <2>3
<1>4. TypeOK'
  BY <1>1, <1>2, <1>3 DEF TypeOK
<1> QED BY <1>1, <1>2, <1>3, <1>4 DEF GInv

-----------------------------------------------------------------------------
(* The invariant, and the types.                                           *)

LEMMA InitGInv == ASSUME Init PROVE GInv
<1>1. /\ Idle \in Job /\ Idle.pc = "waiting" /\ Idle.code = None /\ Idle.turn = 0
      /\ Idle.answer = None
  BY Constants DEF Idle, Job, Pc, TurnEvents
<1>2. <<>> \in Seq(RecordType) /\ DOMAIN <<>> = {}
  BY EmptySeq
<1>3. /\ \A d \in Deliveries : job[d] = Idle /\ log[d] = <<>>
      /\ file = "whole" /\ faults = 0
  BY DEF Init
<1>4. TypeOK
  BY <1>1, <1>2, Constants DEF Init, TypeOK
<1>5. Shaped(Idle)
  BY <1>1 DEF Shaped
<1>6. Tale(Idle, <<>>)
  BY <1>1, <1>2, Words DEF Tale, Chained, OnlyOne, Has, Entrance
<1>7. Counts(Idle, <<>>)
  BY <1>1, <1>2, Words DEF Counts, OnlyOne, Has, Noted, Settled, Entrance
<1> QED BY <1>3, <1>4, <1>5, <1>6, <1>7 DEF GInv

LEMMA NextGInv == ASSUME GInv, [Next]_vars PROVE GInv'
<1>1. CASE UNCHANGED vars
  BY <1>1 DEF vars, GInv, TypeOK
<1>2. ASSUME NEW d \in Deliveries, NEW p \in Payloads, Receive(d, p) PROVE GInv'
  BY <1>2, ReceiveKeeps
<1>3. ASSUME NEW d \in Deliveries, Step(d) PROVE GInv'
  BY <1>3, ValidateKeeps, OpenSessionKeeps, GuardKeeps, RecordKeyKeeps, AuditKeeps,
     NormalizeKeeps, RenderKeeps, NoteFailureKeeps, DecideKeeps, RefusedKeeps, TurnKeeps DEF Step
<1>4. CASE Stop
  BY <1>4, StopKeeps
<1> QED BY <1>1, <1>2, <1>3, <1>4 DEF Next

\* What a delivery has in the log fits the station it is at, whatever failed
\* on the way, as long as the log can be read.
THEOREM Invariance == Spec => []GInv
<1>1. Init => GInv
  BY InitGInv
<1>2. GInv /\ [Next]_vars => GInv'
  BY NextGInv
<1> QED BY <1>1, <1>2, PTL DEF Spec

\* Every job and record has its type; a send makes at most MaxAttempts attempts.
THEOREM TypeCorrect == Spec => []TypeOK
<1>1. GInv => TypeOK
  BY DEF GInv
<1> QED BY <1>1, Invariance, PTL

-----------------------------------------------------------------------------
(* What the log tells.                                                     *)

\* The records of a send are one story, begun once and without a gap
\* (OutboundSender.send).
THEOREM SendsAreToldInOrder == Spec => []EgressChain
<1>1. GInv => EgressChain
  <2> SUFFICES ASSUME GInv, Readable, NEW d \in Deliveries
               PROVE  Chained(log[d]) /\ OnlyOne(log[d], "ingress_normalized")
    BY DEF EgressChain, Chained, OnlyOne
  <2> QED BY Facts DEF Readable, Tale
<1> QED BY <1>1, Invariance, PTL

\* What the bridge answered with "ok" is complete in the trace KPI, as long as
\* the log can be read (compute_trace_kpi).
THEOREM AnsweredIsTraced == Spec => []OkWasTraced
<1>1. GInv => OkWasTraced
  <2> SUFFICES ASSUME GInv, Readable, NEW d \in Deliveries,
                      job[d].answer = "ok", job[d].p.via = "bridge"
               PROVE  Complete(job[d].p.trace)
    BY DEF OkWasTraced
  <2>1. Tale(job[d], log[d]) /\ Shaped(job[d])
    BY Facts DEF Readable
  <2>2. job[d].p \in Payloads
    BY <2>1, Words DEF Shaped
  <2>3. d \in Trace(job[d].p.trace)
    BY <2>2, Constants DEF Trace
  <2>4. ASSUME NEW e \in Required PROVE e \in Events(d)
    <3>1. PICK i \in DOMAIN log[d] : log[d][i].event = e
      BY <2>1, <2>4 DEF Tale, Has
    <3>2. i \in 1 .. Len(log[d])
      BY <3>1, Facts, Elements
    <3> QED BY <3>1, <3>2 DEF Events
  <2> QED BY <2>3, <2>4 DEF Complete
<1> QED BY <1>1, Invariance, PTL

\* Two sets with a function from one to the other that meets everything once.
LEMMA SameCount ==
  ASSUME NEW S, IsFiniteSet(S), NEW T, NEW f \in [S -> T],
         \A a, b \in S : f[a] = f[b] => a = b,
         \A t \in T : \E s \in S : f[s] = t
  PROVE  IsFiniteSet(T) /\ Cardinality(S) = Cardinality(T)
<1>1. f \in Bijection(S, T)
  BY Fun_IsBij
<1>2. ExistsBijection(S, T)
  BY <1>1 DEF ExistsBijection
<1> QED BY <1>2, FS_Bijection

\* The log holds finitely many records of an event.
LEMMA FiniteRecords == ASSUME GInv, NEW e PROVE IsFiniteSet(Records(e))
<1> DEFINE All == {{d} \X DOMAIN log[d] : d \in Deliveries}
           f == [d \in Deliveries |-> {d} \X DOMAIN log[d]]
<1>1. IsFiniteSet(Deliveries)
  BY Constants, FS_Interval DEF Deliveries
<1>2. f \in Surjection(Deliveries, All)
  BY DEF Surjection
<1>3. IsFiniteSet(All)
  BY <1>1, <1>2, FS_Surjection
<1>4. ASSUME NEW d \in Deliveries PROVE IsFiniteSet({d} \X DOMAIN log[d])
  <2>1. DOMAIN log[d] = 1 .. Len(log[d]) /\ Len(log[d]) \in Nat
    BY Facts, Elements
  <2>2. IsFiniteSet(DOMAIN log[d])
    <3>1. \A n \in Nat : IsFiniteSet(1 .. n)
      BY FS_Interval
    <3> QED BY <2>1, <3>1
  <2>3. IsFiniteSet({d})
    BY FS_Singleton
  <2> QED BY <2>2, <2>3, FS_Product
<1>5. \A T \in All : IsFiniteSet(T)
  BY <1>4
<1> HIDE DEF All
<1>6. IsFiniteSet(UNION All)
  BY <1>3, <1>5, FS_UNION
<1>7. Records(e) \in SUBSET UNION All
  BY DEF Records, All
<1> QED BY <1>6, <1>7, FS_Subset

LEMMA RecordsOf ==
  ASSUME NEW e
  PROVE  /\ \A r \in Records(e) : /\ r = <<r[1], r[2]>> /\ r[1] \in Deliveries
                                  /\ r[2] \in DOMAIN log[r[1]] /\ log[r[1]][r[2]].event = e
         /\ \A d \in Deliveries : \A i \in DOMAIN log[d] :
              log[d][i].event = e => <<d, i>> \in Records(e)
BY DEF Records

\* As many records as deliveries, where each of these has one.
LEMMA OnePerDelivery ==
  ASSUME GInv, NEW e, NEW R \in SUBSET Records(e), NEW D \in SUBSET Deliveries,
         \A d \in Deliveries : OnlyOne(log[d], e),
         \A r \in R : r[1] \in D,
         \A d \in D : \E i \in DOMAIN log[d] : <<d, i>> \in R
  PROVE  IsFiniteSet(R) /\ Cardinality(R) = Cardinality(D)
<1> DEFINE f == [r \in R |-> r[1]]
<1>1. IsFiniteSet(R)
  BY FiniteRecords, FS_Subset
<1>2. f \in [R -> D]
  OBVIOUS
<1>3. ASSUME NEW a \in R, NEW b \in R, f[a] = f[b] PROVE a = b
  <2>1. /\ a = <<a[1], a[2]>> /\ b = <<b[1], b[2]>> /\ a[1] = b[1]
        /\ a[1] \in Deliveries /\ a[2] \in DOMAIN log[a[1]] /\ b[2] \in DOMAIN log[a[1]]
        /\ log[a[1]][a[2]].event = e /\ log[a[1]][b[2]].event = e
    BY <1>3, RecordsOf
  <2>2. a[2] = b[2]
    BY <2>1 DEF OnlyOne
  <2> QED BY <2>1, <2>2
<1>4. ASSUME NEW d \in D PROVE \E r \in R : f[r] = d
  <2>1. PICK i \in DOMAIN log[d] : <<d, i>> \in R
    OBVIOUS
  <2> QED BY <2>1
<1> HIDE DEF f
<1> QED BY <1>1, <1>2, <1>3, <1>4, SameCount

\* Without faults and with every delivery answered, the totals on the channels
\* page are those of the refusals, the ignored duplicates and the failed
\* attempts (summarize_reliability).
THEOREM TotalsAreTrue == Spec => []StatusAgrees
<1>1. GInv => StatusAgrees
  <2> SUFFICES ASSUME GInv, faults = 0, \A d \in Deliveries : ~Running(d)
               PROVE  /\ DuplicateTotal =
                           Cardinality({d \in Deliveries : job[d].answer = "duplicate_ignored"})
                      /\ RejectedTotal = Cardinality({d \in Deliveries : job[d].code \in GateCodes})
                      /\ FailedTotal =
                           ScheduledTotal + Cardinality({d \in Deliveries : job[d].code = "egress"})
    BY DEF StatusAgrees
  <2>1. \A d \in Deliveries : Counts(job[d], log[d]) /\ Tale(job[d], log[d]) /\ Shaped(job[d])
    BY Facts
  <2>2. \A d \in Deliveries : job[d].pc \in {"waiting", "answered"}
    BY <2>1 DEF Running, Counts
  <2>3. DuplicateTotal = Cardinality({d \in Deliveries : job[d].answer = "duplicate_ignored"})
    <3> DEFINE E == "ingress_replay_guard"
               R == {r \in Records(E) : log[r[1]][r[2]].class # None}
               D == {d \in Deliveries : job[d].answer = "duplicate_ignored"}
    <3>1. \A d \in Deliveries : OnlyOne(log[d], E)
      BY <2>1 DEF Counts
    <3>2. \A d \in Deliveries : d \in D <=> Noted(log[d])
      BY <2>1, <2>2, Words DEF Counts, Shaped
    <3>3. ASSUME NEW r \in R PROVE r[1] \in D
      BY <3>2, RecordsOf DEF Noted
    <3>4. ASSUME NEW d \in D PROVE \E i \in DOMAIN log[d] : <<d, i>> \in R
      <4>1. PICK i \in DOMAIN log[d] : log[d][i].event = E /\ log[d][i].class # None
        BY <3>2 DEF Noted
      <4>2. <<d, i>> \in Records(E)
        BY <4>1, RecordsOf
      <4> QED BY <4>1, <4>2
    <3>5. R \in SUBSET Records(E) /\ D \in SUBSET Deliveries /\ DuplicateTotal = Cardinality(R)
      BY DEF DuplicateTotal
    <3> HIDE DEF R, D, E
    <3>6. Cardinality(R) = Cardinality(D)
      BY <3>1, <3>3, <3>4, <3>5, OnePerDelivery
    <3> QED BY <3>5, <3>6 DEF D
  <2>4. RejectedTotal = Cardinality({d \in Deliveries : job[d].code \in GateCodes})
    <3> DEFINE E == "signature_rejected"
               D == {d \in Deliveries : job[d].code \in GateCodes}
    <3>1. \A d \in Deliveries : OnlyOne(log[d], E) /\ (d \in D <=> Has(log[d], E))
      BY <2>1 DEF Counts
    <3>2. ASSUME NEW r \in Records(E) PROVE r[1] \in D
      BY <3>1, RecordsOf DEF Has
    <3>3. ASSUME NEW d \in D PROVE \E i \in DOMAIN log[d] : <<d, i>> \in Records(E)
      BY <3>1, RecordsOf DEF Has
    <3>4. D \in SUBSET Deliveries /\ RejectedTotal = Cardinality(Records(E))
      BY DEF RejectedTotal
    <3> HIDE DEF D, E
    <3>5. Cardinality(Records(E)) = Cardinality(D)
      BY <3>1, <3>2, <3>3, <3>4, OnePerDelivery
    <3> QED BY <3>4, <3>5 DEF D
  <2>5. FailedTotal = ScheduledTotal + Cardinality({d \in Deliveries : job[d].code = "egress"})
    <3> DEFINE S == Records("egress_retry_scheduled")
               X == Records("egress_retry_exhausted")
               F == Records("egress_failed")
               D == {d \in Deliveries : job[d].code = "egress"}
               f == [r \in S \cup X |-> <<r[1], r[2] - 1>>]
    <3>1. IsFiniteSet(S) /\ IsFiniteSet(X) /\ IsFiniteSet(S \cup X)
      BY FiniteRecords, FS_Union
    <3>2. S \cap X = {}
      BY RecordsOf
    <3>3. Cardinality(X) = Cardinality(D)
      <4> DEFINE E == "egress_retry_exhausted"
      <4>1. \A d \in Deliveries : OnlyOne(log[d], E) /\ (d \in D <=> Has(log[d], E))
        BY <2>1 DEF Counts
      <4>2. ASSUME NEW r \in X PROVE r[1] \in D
        BY <4>1, RecordsOf DEF Has
      <4>3. ASSUME NEW d \in D PROVE \E i \in DOMAIN log[d] : <<d, i>> \in X
        BY <4>1, RecordsOf DEF Has
      <4>4. D \in SUBSET Deliveries
        OBVIOUS
      <4> HIDE DEF D
      <4> QED BY <4>1, <4>2, <4>3, <4>4, OnePerDelivery
    <3>4. ASSUME NEW r \in S \cup X
          PROVE  /\ r = <<r[1], r[2]>> /\ r[1] \in Deliveries /\ r[2] \in Nat
                 /\ <<r[1], r[2] - 1>> \in F
      <4> DEFINE d == r[1]
                 i == r[2]
      <4>1. /\ r = <<d, i>> /\ d \in Deliveries /\ i \in DOMAIN log[d]
            /\ log[d][i].event \in {"egress_retry_scheduled", "egress_retry_exhausted"}
        BY RecordsOf
      <4>2. i > 1 /\ Continues(log[d][i], log[d][i - 1])
        BY <2>1, <4>1, Words DEF Tale, Chained
      <4>3. log[d][i - 1].event = "egress_failed"
        BY <4>1, <4>2 DEF Continues, Record
      <4>4. DOMAIN log[d] = 1 .. Len(log[d]) /\ Len(log[d]) \in Nat
        BY <4>1, Facts, Elements
      <4>5. i \in Nat /\ i - 1 \in DOMAIN log[d]
        BY <4>1, <4>2, <4>4
      <4> QED BY <4>1, <4>3, <4>5, RecordsOf
    <3>5. f \in [S \cup X -> F]
      BY <3>4
    <3>6. ASSUME NEW a \in S \cup X, NEW b \in S \cup X, f[a] = f[b] PROVE a = b
      <4>1. a[1] = b[1] /\ a[2] - 1 = b[2] - 1
        BY <3>6
      <4>2. a = <<a[1], a[2]>> /\ b = <<b[1], b[2]>> /\ a[2] \in Nat /\ b[2] \in Nat
        BY <3>4
      <4>3. a[2] = b[2]
        BY <4>1, <4>2
      <4> QED BY <4>1, <4>2, <4>3
    <3>7. ASSUME NEW t \in F PROVE \E s \in S \cup X : f[s] = t
      <4> DEFINE d == t[1]
                 i == t[2]
      <4>1. /\ t = <<d, i>> /\ d \in Deliveries /\ i \in DOMAIN log[d]
            /\ log[d][i].event = "egress_failed"
        BY RecordsOf
      <4>2. Decided(log[d], i)
        BY <2>1, <2>2, <4>1 DEF Counts, Settled
      <4>3. <<d, i + 1>> \in S \cup X
        BY <4>1, <4>2, RecordsOf DEF Decided
      <4>4. i \in Nat
        BY <4>1, Facts, Elements
      <4>5. f[<<d, i + 1>>] = t
        BY <4>1, <4>3, <4>4
      <4> QED BY <4>3, <4>5
    <3>8. FailedTotal = Cardinality(F) /\ ScheduledTotal = Cardinality(S)
      BY DEF FailedTotal, ScheduledTotal
    <3> HIDE DEF S, X, F, f
    <3>9. Cardinality(F) = Cardinality(S \cup X)
      BY <3>1, <3>5, <3>6, <3>7, SameCount
    <3>10. Cardinality(S \cup X) = Cardinality(S) + Cardinality(X)
      <4>1. Cardinality(S \cup X) = Cardinality(S) + Cardinality(X) - Cardinality(S \cap X)
        BY <3>1, FS_Union
      <4>2. Cardinality(S \cap X) = 0
        BY <3>2, FS_EmptySet
      <4>3. Cardinality(S) \in Nat /\ Cardinality(X) \in Nat
        BY <3>1, FS_CardinalityType
      <4> QED BY <4>1, <4>2, <4>3
    <3> QED BY <3>3, <3>8, <3>9, <3>10
  <2> QED BY <2>3, <2>4, <2>5
<1> QED BY <1>1, Invariance, PTL
=============================================================================
