---------------------------- MODULE Turns_proofs ----------------------------
(***************************************************************************)
(* Proofs about Turns, for any sessions, tickets and workers, any messages,*)
(* any policy file, any number of providers and any bounds.                *)
(***************************************************************************)
EXTENDS Turns, TLAPS

-----------------------------------------------------------------------------
(* The inductive invariant.                                                *)

\* What a turn can be, by how far it is.
Fetched == {"summary", "copy", "judge", "mark", "reply", "record", "push"}
Judged == {"mark", "reply", "record", "push"}
Labels == {"idle", "ticket", "read"} \cup Fetched

\* What the router says, and why a ticket may be handed over.
Routed == {Route(m) : m \in Kinds}
Whys == {HandoffRules[i].reason : i \in 1 .. Len(HandoffRules)}

Turning ==
  [pc : Labels, id : 0 .. MaxTurns, session : Sessions \cup {None},
   says : Routed \cup {None}, asked : Tickets \cup {None},
   ticket : Tickets \cup {None}, snap : Rows \cup {None}, seen : BOOLEAN,
   provider : 1 .. Len(Retries) + 1, attempt : Nat, trace : TraceType,
   breaches : SUBSET DefaultBreaches,
   reasons : SUBSET Whys]

WellFormed(j) ==
  \/ j = Idle
  \/ /\ j.pc # "idle" /\ j.id > 0
     /\ j.session \in Sessions /\ j.says \in Routed
     /\ j.ticket = None <=> j.pc = "ticket"
     /\ j.snap = None <=> j.pc = "ticket"
     /\ j.breaches # {} => j.pc \in Judged
     /\ j.reasons # {} => j.pc \in Judged
     /\ j.pc = "mark" => j.reasons # {}

Typed ==
  /\ row \in [Tickets -> Rows \cup {None}]
  /\ bound \in [Sessions -> Tickets \cup {None}]
  /\ events \in [Tickets -> [count : Nat, first : Nat]]
  /\ last \in TraceType
  /\ now \in 0 .. MaxTime /\ turns \in 0 .. MaxTurns /\ acts \in 0 .. MaxActs
  /\ turn \in [Workers -> Turning]
  /\ claim \in [Tickets -> Claims \cup {None}]
  /\ \A w \in Workers : WellFormed(turn[w]) /\ turn[w].id <= turns
  /\ \A t \in Tickets : Exists(t) => row[t].created <= now

\* What a session is bound to and a turn works on is a row.
Rowed == /\ \A s \in Sessions : bound[s] # None => Exists(bound[s])
         /\ \A w \in Workers : /\ turn[w].asked # None => Exists(turn[w].asked)
                               /\ turn[w].ticket # None => Exists(turn[w].ticket)

\* A row is claimed and has its first response as the timeline says.
Timelines ==
  \A t \in Tickets :
    /\ claim[t] # None <=> Exists(t) /\ row[t].assigned
    /\ claim[t] # None <=> events[t].first > 0
    /\ claim[t] # None => events[t].first <= EventLimit \/ claim[t].buried
    /\ events[t].first <= events[t].count

\* A turn that read no first response of a claimed ticket ran already when it
\* was claimed, or could not see that far; and calls late only what it read so.
Unseen ==
  \A w \in Workers :
    /\ turn[w].pc \in Fetched /\ ~turn[w].seen /\ claim[T(w)] # None
         => turn[w].id \in claim[T(w)].turns \/ claim[T(w)].buried
    /\ "first_response_overdue" \in turn[w].breaches => ~turn[w].seen

\* An agent has settled what is resolved or closed.
Settled == \A t \in Tickets : Exists(t) /\ row[t].status \in {"resolved", "closed"} => t \in settled

\* Turns that run at the same time have met.
Meetings == \A v, w \in Running : v # w => {turn[v].id, turn[w].id} \in met

\* Whose trace lies ready, and whose a turn has taken.
Traces ==
  \A w \in Workers :
    /\ At(w, "copy") => last.of = turn[w].id \/ {last.of, turn[w].id} \in met
    /\ turn[w].pc \in Judged \cup {"judge"} =>
         turn[w].trace.of = turn[w].id \/ {turn[w].trace.of, turn[w].id} \in met

\* What the timeline says already of a ticket that is handed over.
Promised ==
  \A w \in Workers : turn[w].reasons # {} =>
    /\ turn[w].pc \in {"reply", "record", "push"} =>
         <<"handoff_triggered", T(w), turn[w].id>> \in told
    /\ turn[w].pc = "push" => <<"ticket_handoff_requested", T(w), turn[w].id>> \in told

\* A turn that was answered has a ticket.
Served == \A d \in done : d.how = "answered" => d.ticket \in Tickets /\ Exists(d.ticket)

TInv == /\ Typed /\ Rowed /\ Timelines /\ Unseen /\ Settled /\ Meetings /\ Traces
        /\ Promised /\ Served
        /\ PromiseKept /\ NewWorkPushed /\ OnlySettledFail /\ TraceOwnAlone

-----------------------------------------------------------------------------
(* Types.                                                                  *)

LEMMA Constants ==
  /\ Len(Retries) \in Nat
  /\ \A i \in 1 .. Len(Retries) : Retries[i] \in Nat
  /\ MaxTime \in Nat /\ MaxTurns \in Nat /\ MaxActs \in Nat
  /\ TickLength \in Nat \ {0} /\ EventLimit \in Nat \ {0}
<1>1. Retries \in Seq(Nat) /\ EventLimit \in Nat \ {0} /\ TickLength \in Nat \ {0}
      /\ {MaxTime, MaxTurns, MaxActs} \subseteq Nat
  BY RetriesAssumption, TurnsBoundsAssumption
<1> QED
  BY <1>1

LEMMA Absence == None \notin Tickets /\ None \notin Rows /\ None \notin Claims
BY AbsenceAssumption

\* The events of a claim.
LEMMA ClaimEvents ==
  ASSUME NEW S, NEW e \in [S -> [count : Nat, first : Nat]], NEW t \in S, NEW f \in Nat
  PROVE  LET g == [e EXCEPT ![t].count = @ + 3, ![t].first = f]
         IN  /\ g \in [S -> [count : Nat, first : Nat]]
             /\ g[t].count = e[t].count + 3 /\ g[t].first = f
             /\ \A u \in S : u # t => g[u] = e[u]
<1> DEFINE h == [e EXCEPT ![t].count = @ + 3]
           g == [h EXCEPT ![t].first = f]
<1>1. h \in [S -> [count : Nat, first : Nat]] /\ h[t].count = e[t].count + 3
      /\ \A u \in S : u # t => h[u] = e[u]
  OBVIOUS
<1>2. g \in [S -> [count : Nat, first : Nat]] /\ g[t].count = h[t].count /\ g[t].first = f
      /\ \A u \in S : u # t => g[u] = h[u]
  <2> HIDE DEF h
  <2> QED
    BY <1>1
<1>3. g = [e EXCEPT ![t].count = @ + 3, ![t].first = f]
  OBVIOUS
<1> HIDE DEF g, h
<1> QED
  BY <1>1, <1>2, <1>3

\* What one turn looks like while it is a turn.
LEMMA Turned ==
  ASSUME Typed, NEW w \in Workers
  PROVE  turn[w] \in Turning /\ WellFormed(turn[w]) /\ turn[w].id <= turns
BY DEF Typed

\* An idle worker.
LEMMA IdleTyped == Idle \in Turning /\ WellFormed(Idle) /\ Idle.pc = "idle" /\ Idle.id = 0
BY Constants DEF Idle, Turning, WellFormed, Labels, TraceType, NoTrace

\* The worker a step is of moves its own turn only.
LEMMA MovesAlone ==
  ASSUME Typed, NEW u \in Workers,
         Step(u) \/ \E s \in Sessions, m \in Kinds : Start(u, s, m),
         NEW v \in Workers, v # u
  PROVE  turn'[v] = turn[v]
BY DEF Typed, Step, Start, Open, Continue, Read, Call, Summarize, Copy, Judge, Mark, Reply, Record,
       Push, Failed, End, Goto

\* The turn a step begins.
LEMMA TypedStart ==
  ASSUME Typed, NEW w \in Workers, NEW s \in Sessions, NEW m \in Kinds, Start(w, s, m)
  PROVE  turn'[w] \in Turning /\ WellFormed(turn'[w]) /\ turn'[w].id <= turns'
<1> DEFINE r == [Idle EXCEPT !.pc = "ticket", !.id = turns', !.session = s,
                             !.says = Route(m), !.asked = bound[s]]
<1>1. /\ turns' \in 1 .. MaxTurns
      /\ bound[s] \in Tickets \cup {None}
      /\ Route(m) \in Routed
  BY Constants DEF Start, Typed, Routed
<1>2. turn'[w] = r
  BY DEF Start, Typed
<1>3. ASSUME NEW n \in 1 .. MaxTurns, NEW b \in Tickets \cup {None}, NEW z \in Routed, NEW k,
             k = [Idle EXCEPT !.pc = "ticket", !.id = n, !.session = s, !.says = z, !.asked = b]
      PROVE  k \in Turning /\ WellFormed(k) /\ k.id = n
  <2>0. n \in 0 .. MaxTurns /\ Idle \in Turning
    BY Constants, IdleTyped
  <2>1. k \in Turning /\ k.id = n
    BY <1>3, <2>0 DEF Turning, Labels
  <2>2. WellFormed(k)
    BY <1>3, Constants DEF Idle, WellFormed
  <2> QED
    BY <2>1, <2>2
<1>4. r \in Turning /\ WellFormed(r) /\ r.id = turns'
  <2> DEFINE n == turns'
             b == bound[s]
             z == Route(m)
             q == [Idle EXCEPT !.pc = "ticket", !.id = n, !.session = s, !.says = z, !.asked = b]
  <2>1. n \in 1 .. MaxTurns /\ b \in Tickets \cup {None} /\ z \in Routed
    BY <1>1
  <2>2. r = q
    OBVIOUS
  <2>3. n = turns'
    OBVIOUS
  <2> HIDE DEF n, b, z, r
  <2>4. q \in Turning /\ WellFormed(q) /\ q.id = n
    BY <1>3, <2>1
  <2> QED
    BY <2>2, <2>3, <2>4
<1> QED
  BY <1>1, <1>2, <1>4

\* The row a turn opens.
LEMMA FreshRow ==
  ASSUME Typed, NEW w \in Workers, At(w, "ticket")
  PROVE  Fresh(w) \in Rows
<1>1. turn[w].session \in Sessions /\ turn[w].says \in Routed
  BY Turned DEF At, WellFormed, Idle
<1>2. NoTrace \in TraceType /\ now \in 0 .. MaxTime
  BY Constants DEF NoTrace, TraceType, Typed
<1>3. turn[w].says.intent \in {Route(m).intent : m \in Kinds}
  BY <1>1 DEF Routed
<1> QED
  BY <1>1, <1>2, <1>3 DEF Fresh, Rows, Status

\* The row a turn continues or hands over.
LEMMA Rewritten ==
  ASSUME Typed, NEW t \in Tickets, Exists(t), NEW w \in Workers
  PROVE  /\ row[t] \in Rows
         /\ turn[w].pc = "ticket" => [row[t] EXCEPT !.intent = turn[w].says.intent] \in Rows
         /\ [row[t] EXCEPT !.status = "handoff", !.queue = "human-handoff"] \in Rows
<1>1. row[t] \in Rows /\ WellFormed(turn[w])
  BY DEF Typed, Exists
<1>2. [row[t] EXCEPT !.status = "handoff", !.queue = "human-handoff"] \in Rows
  BY <1>1 DEF Rows, Status
<1>3. ASSUME turn[w].pc = "ticket"
      PROVE  [row[t] EXCEPT !.intent = turn[w].says.intent] \in Rows
  <2>1. turn[w].says.intent \in {Route(m).intent : m \in Kinds}
    BY <1>1, <1>3 DEF WellFormed, Idle, Routed
  <2> QED
    BY <1>1, <2>1 DEF Rows
<1> QED
  BY <1>1, <1>2, <1>3

\* The ticket a turn continues or has taken is there.
LEMMA Standing ==
  ASSUME Typed, Rowed, NEW w \in Workers
  PROVE  /\ \A t \in Tickets : Continue(w, t) => Exists(t)
         /\ turn[w].pc \in Fetched \cup {"read"} => T(w) \in Tickets /\ Exists(T(w))
<1>1. turn[w] \in Turning /\ WellFormed(turn[w])
  BY Turned
<1>2. ASSUME NEW t \in Tickets, Continue(w, t) PROVE Exists(t)
  BY <1>2, Absence DEF Continue, Candidates, Rowed
<1>3. ASSUME turn[w].pc \in Fetched \cup {"read"} PROVE T(w) \in Tickets /\ Exists(T(w))
  BY <1>1, <1>3 DEF Rowed, WellFormed, T, Turning, Fetched, Idle
<1> QED
  BY <1>2, <1>3

\* A turn goes on as a turn.
GoesOn(j, k) == k \in Turning /\ WellFormed(k) /\ k.id = j.id

\* The changes a step makes to a turn.
LEMMA Altered ==
  ASSUME NEW j \in Turning, WellFormed(j)
  PROVE  /\ \A t \in Tickets, s \in Rows : j.pc = "ticket" =>
              GoesOn(j, [j EXCEPT !.pc = "read", !.ticket = t, !.snap = s])
         /\ \A b \in BOOLEAN : j.pc = "read" =>
              GoesOn(j, [j EXCEPT !.pc = "summary", !.seen = b])
         /\ \A p \in 1 .. Len(Retries) + 1, a \in Nat : j.pc # "idle" =>
              GoesOn(j, [j EXCEPT !.provider = p, !.attempt = a])
         /\ j.pc = "summary" =>
              GoesOn(j, [j EXCEPT !.pc = "copy", !.provider = 1, !.attempt = 0])
         /\ \A r \in TraceType : j.pc = "copy" =>
              GoesOn(j, [j EXCEPT !.pc = "judge", !.trace = r])
         /\ \A late \in SUBSET DefaultBreaches, why \in SUBSET Whys : j.pc = "judge" =>
              GoesOn(j, [j EXCEPT !.breaches = late, !.reasons = why,
                                        !.pc = IF why = {} THEN "reply" ELSE "mark"])
         /\ \A s \in Rows : j.pc = "mark" =>
              GoesOn(j, [j EXCEPT !.pc = "reply", !.snap = s])
         /\ j.pc = "reply" =>
              GoesOn(j, [j EXCEPT !.pc = "record", !.provider = 1, !.attempt = 0])
         /\ j.pc = "record" =>
              GoesOn(j, [j EXCEPT !.pc = "push"])
<1>1. ASSUME NEW k \in Turning, j.pc # "idle", k.pc \notin {"idle", "ticket"},
             k.id = j.id, k.session = j.session, k.says = j.says, k.ticket # None, k.snap # None,
             k.breaches # {} => k.pc \in Judged, k.reasons # {} => k.pc \in Judged,
             k.pc = "mark" => k.reasons # {}
      PROVE  WellFormed(k)
  BY <1>1 DEF WellFormed, Idle
<1>2. ASSUME j.pc \notin {"idle", "ticket"}
      PROVE  j.ticket # None /\ j.snap # None
  BY <1>2 DEF WellFormed, Idle
<1>3. /\ j.breaches # {} => j.pc \in Judged
      /\ j.reasons # {} => j.pc \in Judged
      /\ j.pc = "mark" => j.reasons # {}
  BY DEF WellFormed, Idle
<1>4. ASSUME NEW t \in Tickets, NEW s \in Rows, j.pc = "ticket", NEW k,
             k = [j EXCEPT !.pc = "read", !.ticket = t, !.snap = s]
      PROVE  GoesOn(j, k)
  <2>1. /\ k \in Turning /\ k.id = j.id /\ k.session = j.session /\ k.says = j.says /\ k.pc = "read"
        /\ k.ticket = t /\ k.snap = s /\ k.breaches = j.breaches /\ k.reasons = j.reasons
    BY <1>4 DEF Turning, Labels
  <2> QED
    BY <1>1, <1>3, <1>4, <2>1, Absence DEF Judged, GoesOn
<1>5. ASSUME NEW b \in BOOLEAN, j.pc = "read", NEW k, k = [j EXCEPT !.pc = "summary", !.seen = b]
      PROVE  GoesOn(j, k)
  <2>1. /\ k \in Turning /\ k.id = j.id /\ k.session = j.session /\ k.says = j.says
        /\ k.pc = "summary" /\ k.ticket = j.ticket /\ k.snap = j.snap
        /\ k.breaches = j.breaches /\ k.reasons = j.reasons
    BY <1>5 DEF Turning, Labels, Fetched
  <2> QED
    BY <1>1, <1>2, <1>3, <1>5, <2>1 DEF Judged, GoesOn
<1>6. ASSUME NEW p \in 1 .. Len(Retries) + 1, NEW a \in Nat, j.pc # "idle", NEW k,
             k = [j EXCEPT !.provider = p, !.attempt = a]
      PROVE  GoesOn(j, k)
  <2>1. /\ k \in Turning /\ k.id = j.id /\ k.session = j.session /\ k.says = j.says /\ k.pc = j.pc
        /\ k.ticket = j.ticket /\ k.snap = j.snap /\ k.breaches = j.breaches
        /\ k.reasons = j.reasons
    BY <1>6 DEF Turning
  <2> QED
    BY <1>6, <2>1 DEF WellFormed, Idle, GoesOn
<1>7. ASSUME j.pc = "summary", NEW k, k = [j EXCEPT !.pc = "copy", !.provider = 1, !.attempt = 0]
      PROVE  GoesOn(j, k)
  <2>1. /\ k \in Turning /\ k.id = j.id /\ k.session = j.session /\ k.says = j.says
        /\ k.pc = "copy" /\ k.ticket = j.ticket /\ k.snap = j.snap
        /\ k.breaches = j.breaches /\ k.reasons = j.reasons
    BY <1>7, 1 \in 1 .. Len(Retries) + 1, 0 \in Nat DEF Turning, Labels, Fetched
  <2> QED
    BY <1>1, <1>2, <1>3, <1>7, <2>1 DEF Judged, GoesOn
<1>8. ASSUME NEW r \in TraceType, j.pc = "copy", NEW k, k = [j EXCEPT !.pc = "judge", !.trace = r]
      PROVE  GoesOn(j, k)
  <2>1. /\ k \in Turning /\ k.id = j.id /\ k.session = j.session /\ k.says = j.says
        /\ k.pc = "judge" /\ k.ticket = j.ticket /\ k.snap = j.snap
        /\ k.breaches = j.breaches /\ k.reasons = j.reasons
    BY <1>8 DEF Turning, Labels, Fetched
  <2> QED
    BY <1>1, <1>2, <1>3, <1>8, <2>1 DEF Judged, GoesOn
<1>9. ASSUME NEW late \in SUBSET DefaultBreaches, NEW why \in SUBSET Whys, j.pc = "judge", NEW k,
             k = [j EXCEPT !.breaches = late, !.reasons = why,
                           !.pc = IF why = {} THEN "reply" ELSE "mark"]
      PROVE  GoesOn(j, k)
  <2>0. ASSUME NEW l \in {"reply", "mark"}, NEW i,
               i = [j EXCEPT !.breaches = late, !.reasons = why, !.pc = l]
        PROVE  /\ i \in Turning /\ i.id = j.id /\ i.session = j.session /\ i.says = j.says
               /\ i.pc = l /\ i.ticket = j.ticket /\ i.snap = j.snap /\ i.reasons = why
    BY <2>0 DEF Turning, Labels, Fetched
  <2>1. /\ k \in Turning /\ k.id = j.id /\ k.session = j.session /\ k.says = j.says
        /\ k.pc = (IF why = {} THEN "reply" ELSE "mark") /\ k.ticket = j.ticket /\ k.snap = j.snap
        /\ k.reasons = why
    BY <1>9, <2>0
  <2>2. k.pc \in {"mark", "reply"} /\ (k.pc = "mark" => why # {})
    BY <2>1
  <2> QED
    BY <1>1, <1>2, <1>9, <2>1, <2>2 DEF Judged, GoesOn
<1>10. ASSUME NEW s \in Rows, j.pc = "mark", NEW k, k = [j EXCEPT !.pc = "reply", !.snap = s]
       PROVE  GoesOn(j, k)
  <2>1. /\ k \in Turning /\ k.id = j.id /\ k.session = j.session /\ k.says = j.says
        /\ k.pc = "reply" /\ k.ticket = j.ticket /\ k.snap = s
    BY <1>10 DEF Turning, Labels, Fetched
  <2> QED
    BY <1>1, <1>2, <1>10, <2>1, Absence DEF Judged, GoesOn
<1>11. ASSUME j.pc = "reply", NEW k, k = [j EXCEPT !.pc = "record", !.provider = 1, !.attempt = 0]
       PROVE  GoesOn(j, k)
  <2>1. /\ k \in Turning /\ k.id = j.id /\ k.session = j.session /\ k.says = j.says
        /\ k.pc = "record" /\ k.ticket = j.ticket /\ k.snap = j.snap
    BY <1>11, 1 \in 1 .. Len(Retries) + 1, 0 \in Nat DEF Turning, Labels, Fetched
  <2> QED
    BY <1>1, <1>2, <1>11, <2>1 DEF Judged, GoesOn
<1>12. ASSUME j.pc = "record", NEW k, k = [j EXCEPT !.pc = "push"]
       PROVE  GoesOn(j, k)
  <2>1. /\ k \in Turning /\ k.id = j.id /\ k.session = j.session /\ k.says = j.says
        /\ k.pc = "push" /\ k.ticket = j.ticket /\ k.snap = j.snap
    BY <1>12 DEF Turning, Labels, Fetched
  <2> QED
    BY <1>1, <1>2, <1>12, <2>1 DEF Judged, GoesOn
<1> QED
  BY <1>4, <1>5, <1>6, <1>7, <1>8, <1>9, <1>10, <1>11, <1>12

\* A turn after one of its steps.
LEMMA TypedMove ==
  ASSUME Typed, Rowed, NEW w \in Workers, Step(w)
  PROVE  turn'[w] \in Turning /\ WellFormed(turn'[w]) /\ turn'[w].id <= turns'
<1> DEFINE j == turn[w]
<1>0. j \in Turning /\ WellFormed(j) /\ j.id <= turns /\ turns' = turns
  BY Turned DEF Step, Open, Continue, Read, Call, Summarize, Copy, Judge, Mark, Reply, Record, Push
<1> SUFFICES turn'[w] = Idle \/ GoesOn(j, turn'[w])
  BY <1>0, IdleTyped DEF Typed, GoesOn
<1>1. CASE Read(w)
  <2>1. j.pc = "read" /\ turn'[w] = [j EXCEPT !.pc = "summary", !.seen = Seen(T(w))]
    BY <1>1 DEF Read, Typed, At
  <2>2. Seen(T(w)) \in BOOLEAN
    BY DEF Seen
  <2>3. GoesOn(j, [j EXCEPT !.pc = "summary", !.seen = Seen(T(w))])
    BY <1>0, <2>1, <2>2, Altered
  <2> QED
    BY <2>1, <2>3
<1>2. CASE Call(w)
  <2> DEFINE p == NextCall(w)[1]
             a == NextCall(w)[2]
  <2>1. p \in 1 .. Len(Retries) + 1 /\ a \in Nat
    <3>1. /\ j.provider \in 1 .. Len(Retries) /\ j.attempt \in Nat
          /\ Len(Retries) \in Nat
      BY <1>0, <1>2, Constants DEF Call, Turning
    <3>2. \/ p = j.provider /\ a = j.attempt + 1
          \/ p = j.provider + 1 /\ a = 0
      BY DEF NextCall
    <3> HIDE DEF p, a, j
    <3> QED
      BY <3>1, <3>2
  <2>2. j.pc # "idle" /\ turn'[w] = [j EXCEPT !.provider = p, !.attempt = a]
    BY <1>2 DEF Call, Typed, At
  <2> HIDE DEF p, a
  <2>3. GoesOn(j, [j EXCEPT !.provider = p, !.attempt = a])
    BY <1>0, <2>1, <2>2, Altered
  <2> QED
    BY <2>2, <2>3
<1>3. CASE Summarize(w)
  <2>1. j.pc = "summary" /\ turn'[w] = [j EXCEPT !.pc = "copy", !.provider = 1, !.attempt = 0]
    BY <1>3 DEF Summarize, Typed, At
  <2> QED
    BY <1>0, <2>1, Altered
<1>4. CASE Copy(w)
  <2>1. j.pc = "copy" /\ turn'[w] = [j EXCEPT !.pc = "judge", !.trace = last] /\ last \in TraceType
    BY <1>4 DEF Copy, Typed, At
  <2> QED
    BY <1>0, <2>1, Altered
<1>5. CASE Judge(w)
  <2> DEFINE late == Breaches(j.snap, j.seen, now)
             why  == Reasons(j.snap, j.says, late)
  <2>1. late \in SUBSET DefaultBreaches
    BY DEF Breaches, DefaultBreaches
  <2>2. why \in SUBSET Whys
    BY DEF Reasons, Whys
  <2>3. /\ j.pc = "judge"
        /\ turn'[w] = [j EXCEPT !.breaches = late, !.reasons = why,
                                !.pc = IF why = {} THEN "reply" ELSE "mark"]
    BY <1>5 DEF Judge, Typed, At
  <2> HIDE DEF late, why
  <2>4. GoesOn(j, [j EXCEPT !.breaches = late, !.reasons = why,
                            !.pc = IF why = {} THEN "reply" ELSE "mark"])
    BY <1>0, <2>1, <2>2, <2>3, Altered
  <2> QED
    BY <2>3, <2>4
<1>6. CASE Reply(w)
  <2>1. j.pc = "reply" /\ turn'[w] = [j EXCEPT !.pc = "record", !.provider = 1, !.attempt = 0]
    BY <1>6 DEF Reply, Typed, At
  <2> QED
    BY <1>0, <2>1, Altered
<1>7. ASSUME NEW t \in Tickets, Open(w, t)
      PROVE  GoesOn(j, turn'[w])
  <2>1. Fresh(w) \in Rows
    BY <1>7, FreshRow DEF Open
  <2>2. j.pc = "ticket" /\ turn'[w] = [j EXCEPT !.pc = "read", !.ticket = t, !.snap = Fresh(w)]
    BY <1>7 DEF Open, At, Typed
  <2>3. GoesOn(j, [j EXCEPT !.pc = "read", !.ticket = t, !.snap = Fresh(w)])
    BY <1>0, <2>1, <2>2, Altered
  <2> QED
    BY <2>2, <2>3
<1>8. ASSUME NEW t \in Tickets, Continue(w, t)
      PROVE  turn'[w] = Idle \/ GoesOn(j, turn'[w])
  <2> DEFINE updated == [row[t] EXCEPT !.intent = turn[w].says.intent]
  <2>1. j.pc = "ticket" /\ updated \in Rows
    BY <1>8, Standing, Rewritten DEF Continue, At
  <2>2. \/ turn'[w] = Idle
        \/ turn'[w] = [j EXCEPT !.pc = "read", !.ticket = t, !.snap = updated]
    BY <1>8 DEF Continue, Typed, Failed, End
  <2> HIDE DEF updated
  <2>3. GoesOn(j, [j EXCEPT !.pc = "read", !.ticket = t, !.snap = updated])
    BY <1>0, <2>1, Altered
  <2> QED
    BY <2>2, <2>3
<1>9. CASE Mark(w)
  <2> DEFINE marked == [row[T(w)] EXCEPT !.status = "handoff", !.queue = "human-handoff"]
  <2>1. j.pc = "mark" /\ marked \in Rows
    BY <1>9, Standing, Rewritten DEF Mark, At, Fetched
  <2>2. \/ turn'[w] = Idle
        \/ turn'[w] = [j EXCEPT !.pc = "reply", !.snap = marked]
    BY <1>9 DEF Mark, Typed, Failed, End
  <2> HIDE DEF marked
  <2> QED
    BY <1>0, <2>1, <2>2, Altered
<1>10. CASE Record(w)
  <2>1. /\ j.pc = "record"
        /\ \/ turn'[w] = Idle
           \/ turn'[w] = [j EXCEPT !.pc = "push"]
    BY <1>10 DEF Record, Typed, Failed, End, Goto, At
  <2> QED
    BY <1>0, <2>1, Altered
<1>11. CASE Push(w)
  BY <1>11 DEF Push, Typed, Failed, End
<1> QED
  BY <1>1, <1>2, <1>3, <1>4, <1>5, <1>6, <1>7, <1>8, <1>9, <1>10, <1>11 DEF Step

-----------------------------------------------------------------------------
(* What a step writes into a row and its timeline.                         *)

\* A row that may take the place of t's, or be t's first.
Follows(t, r) ==
  /\ r \in Rows
  /\ Exists(t) =>
       /\ r.created = row[t].created
       /\ row[t].handoff # "none" => r.handoff # "none"
       /\ r.status \in {"resolved", "closed"} => r.status = row[t].status \/ t \in settled'
       /\ \/ r.trace = row[t].trace
          \/ \E w \in Workers : At(w, "record")
                                /\ r.trace = [turn[w].trace EXCEPT !.by = turn[w].id]
  /\ ~Exists(t) => r.created = now /\ r.status = "open" /\ r.trace = NoTrace /\ ~r.assigned

\* A step other than a claim writes at most one row, and after it at most some
\* events that are no first response.
Writes(t, r, n) ==
  /\ Follows(t, r)
  /\ row' = [row EXCEPT ![t] = r]
  /\ Exists(t) => r.assigned = row[t].assigned
  /\ events' = [events EXCEPT ![t].count = @ + n]
  /\ claim' = claim

Writing == \E t \in Tickets, r \in Rows, n \in Nat : Writes(t, r, n)

\* The rows a turn writes.
LEMMA TurnWrites ==
  ASSUME Typed, Rowed, NEW w \in Workers, Step(w)
  PROVE  (row' = row /\ events' = events /\ claim' = claim) \/ Writing
<1> DEFINE same == row' = row /\ events' = events /\ claim' = claim
<1>0. turn[w] \in Turning /\ WellFormed(turn[w])
  BY Turned
<1>1. ASSUME NEW t \in Tickets, Open(w, t) PROVE Writing
  <2>1. Fresh(w) \in Rows
    BY <1>1, FreshRow DEF Open
  <2>2. /\ ~Exists(t) /\ row' = [row EXCEPT ![t] = Fresh(w)]
        /\ events' = [events EXCEPT ![t].count = @ + 1] /\ claim' = claim
    BY <1>1 DEF Open, Wrote
  <2>3. Fresh(w).created = now /\ Fresh(w).status = "open" /\ Fresh(w).trace = NoTrace
        /\ ~Fresh(w).assigned
    BY DEF Fresh
  <2>4. Writes(t, Fresh(w), 1)
    BY <2>1, <2>2, <2>3 DEF Writes, Follows
  <2> QED
    BY <2>1, <2>4 DEF Writing
<1>2. ASSUME NEW t \in Tickets, Exists(t), NEW r \in Rows, NEW n \in Nat,
             r.created = row[t].created, r.assigned = row[t].assigned,
             row[t].handoff # "none" => r.handoff # "none",
             r.status \in {"resolved", "closed"} => r.status = row[t].status,
             r.trace = row[t].trace, row' = [row EXCEPT ![t] = r],
             events' = [events EXCEPT ![t].count = @ + n], claim' = claim
      PROVE  Writing
  BY <1>2 DEF Writing, Writes, Follows
<1>3. ASSUME NEW t \in Tickets, Continue(w, t) PROVE same \/ Writing
  <2> DEFINE r == [row[t] EXCEPT !.intent = turn[w].says.intent]
  <2>1. Exists(t) /\ turn[w].pc = "ticket" /\ row[t] \in Rows /\ r \in Rows
    BY <1>3, Standing, Rewritten DEF Continue, At
  <2>2. /\ r.created = row[t].created /\ r.assigned = row[t].assigned
        /\ r.handoff = row[t].handoff /\ r.status = row[t].status /\ r.trace = row[t].trace
    BY <2>1 DEF Rows
  <2>3. \/ same
        \/ row' = [row EXCEPT ![t] = r] /\ events' = [events EXCEPT ![t].count = @ + 1]
           /\ claim' = claim
    BY <1>3 DEF Continue, Failed, Wrote
  <2> HIDE DEF r
  <2> QED
    BY <1>2, <2>1, <2>2, <2>3
<1>4. CASE Mark(w)
  <2> DEFINE t == T(w)
             r == [row[t] EXCEPT !.status = "handoff", !.queue = "human-handoff"]
  <2>1. t \in Tickets /\ Exists(t) /\ row[t] \in Rows /\ r \in Rows
    BY <1>4, Standing, Rewritten DEF Mark, At, Fetched
  <2>2. /\ r.created = row[t].created /\ r.assigned = row[t].assigned
        /\ r.handoff = row[t].handoff /\ r.status = "handoff" /\ r.trace = row[t].trace
    BY <2>1 DEF Rows
  <2>3. \/ same
        \/ row' = [row EXCEPT ![t] = r] /\ events' = [events EXCEPT ![t].count = @ + 2]
           /\ claim' = claim
    BY <1>4 DEF Mark, Failed, Wrote
  <2> HIDE DEF r, t
  <2> QED
    BY <1>2, <2>1, <2>2, <2>3
<1>5. CASE Record(w)
  <2> DEFINE t == T(w)
             x == [turn[w].trace EXCEPT !.by = turn[w].id]
             r == [row[t] EXCEPT !.trace = x]
  <2>1. t \in Tickets /\ Exists(t) /\ row[t] \in Rows /\ At(w, "record")
    BY <1>5, Standing, Rewritten DEF Record, At, Fetched
  <2>2. x \in TraceType
    BY <1>0 DEF Turning, TraceType
  <2>3. /\ r \in Rows /\ r.created = row[t].created /\ r.assigned = row[t].assigned
        /\ r.handoff = row[t].handoff /\ r.status = row[t].status /\ r.trace = x
    BY <2>1, <2>2 DEF Rows
  <2>4. PICK n \in {7, 9} :
          same \/ (row' = [row EXCEPT ![t] = r] /\ events' = [events EXCEPT ![t].count = @ + n]
                   /\ claim' = claim)
    <3>1. \/ same
          \/ /\ row' = [row EXCEPT ![t].trace = x] /\ claim' = claim
             /\ \/ events' = [events EXCEPT ![t].count = @ + 7]
                \/ events' = [events EXCEPT ![t].count = @ + 9]
      BY <1>5 DEF Record, Failed, Wrote
    <3>2. [row EXCEPT ![t].trace = x] = [row EXCEPT ![t] = r]
      BY <2>1 DEF Typed
    <3> QED
      BY <3>1, <3>2
  <2>5. CASE same
    BY <2>5
  <2>6. CASE row' = [row EXCEPT ![t] = r] /\ events' = [events EXCEPT ![t].count = @ + n]
             /\ claim' = claim
    <3>1. Follows(t, r)
      BY <2>1, <2>3 DEF Follows
    <3>2. Writes(t, r, n) /\ n \in Nat
      BY <2>1, <2>3, <2>6, <3>1 DEF Writes
    <3> HIDE DEF t, r
    <3> QED
      BY <2>1, <2>3, <3>2 DEF Writing
  <2> QED
    BY <2>4, <2>5, <2>6
<1>6. CASE Push(w)
  <2> DEFINE t == T(w)
             r == [row[t] EXCEPT !.handoff = "pending_claim"]
  <2>1. t \in Tickets /\ Exists(t) /\ row[t] \in Rows
    BY <1>6, Standing, Rewritten DEF Push, At, Fetched
  <2>2. /\ r \in Rows /\ r.created = row[t].created /\ r.assigned = row[t].assigned
        /\ r.handoff = "pending_claim" /\ r.status = row[t].status /\ r.trace = row[t].trace
    BY <2>1 DEF Rows
  <2>3. /\ [row EXCEPT ![t].handoff = "pending_claim"] = [row EXCEPT ![t] = r]
        /\ [row EXCEPT ![t] = row[t]] = row
    BY <2>1 DEF Typed
  <2>4. /\ claim' = claim
        /\ \/ same
           \/ row' = [row EXCEPT ![t] = r] /\ events' = [events EXCEPT ![t].count = @ + 2]
           \/ row' = [row EXCEPT ![t] = row[t]] /\ events' = [events EXCEPT ![t].count = @ + 1]
    BY <1>6, <2>3 DEF Push, Failed, Wrote
  <2> HIDE DEF t, r
  <2> QED
    BY <1>2, <2>1, <2>2, <2>4
<1> QED
  BY <1>1, <1>3, <1>4, <1>5, <1>6 DEF Step, Read, Call, Summarize, Copy, Judge, Reply

\* The rows an agent's command writes.
LEMMA AgentWrites ==
  ASSUME Typed, NEW t \in Tickets, Claim(t) \/ Escalate(t) \/ Settle(t)
  PROVE  /\ Claim(t) => \E r \in Rows : /\ Follows(t, r) /\ r.assigned
                                        /\ row' = [row EXCEPT ![t] = r]
         /\ Escalate(t) \/ Settle(t) => Writing
<1>0. Exists(t) /\ row[t] \in Rows
  BY DEF Typed, Exists, Claim, Escalate, Settle, Agent
<1>1. ASSUME Claim(t)
      PROVE  \E r \in Rows : Follows(t, r) /\ r.assigned /\ row' = [row EXCEPT ![t] = r]
  <2> DEFINE r == [row[t] EXCEPT !.status = "pending", !.assigned = TRUE, !.handoff = "claimed"]
  <2>1. /\ r \in Rows /\ r.created = row[t].created /\ r.assigned /\ r.handoff = "claimed"
        /\ r.status = "pending" /\ r.trace = row[t].trace
    BY <1>0 DEF Rows, Status
  <2>2. row' = [row EXCEPT ![t] = r]
    BY <1>0, <1>1 DEF Claim, Typed
  <2>3. Follows(t, r)
    BY <1>0, <2>1 DEF Follows
  <2> HIDE DEF r
  <2> QED
    BY <2>1, <2>2, <2>3
<1>2. ASSUME Escalate(t) PROVE Writing
  <2> DEFINE r == [row[t] EXCEPT !.status = "escalated", !.priority = "P1", !.handoff = "requested"]
  <2>1. /\ r \in Rows /\ r.created = row[t].created /\ r.assigned = row[t].assigned
        /\ r.handoff = "requested" /\ r.status = "escalated" /\ r.trace = row[t].trace
    BY <1>0 DEF Rows, Status
  <2>2. row' = [row EXCEPT ![t] = r]
    BY <1>0, <1>2 DEF Escalate, Typed
  <2>3. events' = [events EXCEPT ![t].count = @ + 2] /\ claim' = claim
    BY <1>2 DEF Escalate, Wrote
  <2>4. Writes(t, r, 2)
    BY <1>0, <2>1, <2>2, <2>3 DEF Writes, Follows
  <2> HIDE DEF r
  <2> QED
    BY <2>1, <2>4 DEF Writing
<1>3. ASSUME Settle(t) PROVE Writing
  <2>1. ASSUME NEW s \in {"resolved", "closed"}, NEW h \in {"waiting_customer", "completed"},
               NEW n \in Nat, row' = [row EXCEPT ![t].status = s, ![t].handoff = h],
               events' = [events EXCEPT ![t].count = @ + n]
        PROVE  Writing
    <3> DEFINE r == [row[t] EXCEPT !.status = s, !.handoff = h]
    <3>1. /\ r \in Rows /\ r.created = row[t].created /\ r.assigned = row[t].assigned
          /\ r.handoff = h /\ r.status = s /\ r.trace = row[t].trace
      BY <1>0 DEF Rows, Status
    <3>2. row' = [row EXCEPT ![t] = r]
      BY <1>0, <2>1 DEF Typed
    <3>3. claim' = claim /\ t \in settled'
      BY <1>3 DEF Settle
    <3>4. Writes(t, r, n)
      BY <1>0, <2>1, <3>1, <3>2, <3>3 DEF Writes, Follows
    <3> HIDE DEF r
    <3> QED
      BY <3>1, <3>4 DEF Writing
  <2> QED
    BY <1>3, <2>1 DEF Settle, Wrote
<1> QED
  BY <1>1, <1>2, <1>3

\* What a claim writes.
Claiming(t, r) == /\ Claim(t) /\ Follows(t, r) /\ r.assigned
                  /\ row' = [row EXCEPT ![t] = r]

\* And so with every step.
LEMMA StepWrites ==
  ASSUME Typed, Rowed, [Next]_vars
  PROVE  \/ row' = row /\ events' = events /\ claim' = claim
         \/ Writing
         \/ \E t \in Tickets, r \in Rows : Claiming(t, r)
<1>1. ASSUME NEW w \in Workers, NEW s \in Sessions, NEW m \in Kinds, Start(w, s, m)
      PROVE  row' = row /\ events' = events /\ claim' = claim
  BY <1>1 DEF Start
<1>2. CASE Tick \/ UNCHANGED vars
  BY <1>2 DEF Tick, vars
<1> QED
  BY <1>1, <1>2, TurnWrites, AgentWrites DEF Next, Claiming

\* Only the turns and the clock move what is not in the database, and what has
\* been noted stays.
LEMMA Notes ==
  ASSUME [Next]_vars
  PROVE  told \subseteq told' /\ met \subseteq met' /\ done \subseteq done'
         /\ settled \subseteq settled'
<1> DEFINE kept == /\ told \subseteq told' /\ met \subseteq met' /\ done \subseteq done'
                   /\ settled \subseteq settled'
<1>1. ASSUME NEW w \in Workers, Step(w) PROVE kept
  <2>1. ASSUME NEW t \in Tickets, Open(w, t) \/ Continue(w, t) PROVE kept
    BY <2>1 DEF Open, Continue, Failed, End
  <2>2. CASE Read(w) \/ Call(w) \/ Summarize(w) \/ Copy(w) \/ Judge(w) \/ Reply(w)
    BY <2>2 DEF Read, Call, Summarize, Copy, Judge, Reply
  <2>3. CASE Mark(w)
    BY <2>3 DEF Mark, Failed, End
  <2>4. CASE Record(w)
    BY <2>4 DEF Record, Failed, End
  <2>5. CASE Push(w)
    BY <2>5 DEF Push, Failed, End
  <2> QED
    BY <1>1, <2>1, <2>2, <2>3, <2>4, <2>5 DEF Step
<1>2. ASSUME NEW w \in Workers, NEW s \in Sessions, NEW m \in Kinds, Start(w, s, m) PROVE kept
  BY <1>2 DEF Start
<1>3. ASSUME NEW t \in Tickets, Claim(t) \/ Escalate(t) \/ Settle(t) PROVE kept
  BY <1>3 DEF Claim, Escalate, Settle, Agent
<1>4. CASE Tick \/ UNCHANGED vars
  BY <1>4 DEF Tick, vars
<1> QED
  BY <1>1, <1>2, <1>3, <1>4 DEF Next

\* The clock and the counters go up, one at a time.
LEMMA Counts ==
  ASSUME [Next]_vars
  PROVE  /\ now' = now \/ (now + TickLength <= MaxTime /\ now' = now + TickLength)
         /\ turns' = turns \/ (turns < MaxTurns /\ turns' = turns + 1)
         /\ acts' = acts \/ (acts < MaxActs /\ acts' = acts + 1)
<1> DEFINE counted == /\ now' = now \/ (now + TickLength <= MaxTime /\ now' = now + TickLength)
                      /\ turns' = turns \/ (turns < MaxTurns /\ turns' = turns + 1)
                      /\ acts' = acts \/ (acts < MaxActs /\ acts' = acts + 1)
<1>1. ASSUME NEW w \in Workers, Step(w) PROVE counted
  BY <1>1 DEF Step, Open, Continue, Read, Call, Summarize, Copy, Judge, Mark, Reply, Record, Push
<1>2. ASSUME NEW w \in Workers, NEW s \in Sessions, NEW m \in Kinds, Start(w, s, m) PROVE counted
  BY <1>2 DEF Start
<1>3. ASSUME NEW t \in Tickets, Claim(t) \/ Escalate(t) \/ Settle(t) PROVE counted
  BY <1>3 DEF Claim, Escalate, Settle, Agent
<1>4. CASE Tick \/ UNCHANGED vars
  BY <1>4 DEF Tick, vars
<1> QED
  BY <1>1, <1>2, <1>3, <1>4 DEF Next

\* A row follows another, and is there as long as there is one.
LEMMA RowsFollow ==
  ASSUME Typed, Rowed, [Next]_vars, NEW t \in Tickets
  PROVE  /\ row'[t] \in Rows \cup {None}
         /\ row'[t] = row[t] \/ Follows(t, row'[t])
         /\ Exists(t) => Exists(t)'
<1>1. row[t] \in Rows \cup {None}
  BY DEF Typed
<1>2. ASSUME NEW u \in Tickets, NEW r \in Rows, Follows(u, r), row' = [row EXCEPT ![u] = r]
      PROVE  /\ row'[t] \in Rows \cup {None}
             /\ row'[t] = row[t] \/ Follows(t, row'[t])
  BY <1>1, <1>2 DEF Typed
<1>3. /\ row'[t] \in Rows \cup {None}
      /\ row'[t] = row[t] \/ Follows(t, row'[t])
  BY <1>1, <1>2, StepWrites DEF Writing, Writes, Claiming
<1>4. Exists(t) => Exists(t)'
  BY <1>1, <1>3, Absence DEF Follows, Exists
<1> QED
  BY <1>3, <1>4

\* The turns after a step.
LEMMA TurnsFollow ==
  ASSUME Typed, Rowed, [Next]_vars
  PROVE  /\ turn' \in [Workers -> Turning]
         /\ \A w \in Workers : WellFormed(turn'[w]) /\ turn'[w].id <= turns'
<1>1. \A w \in Workers : turn[w] \in Turning /\ WellFormed(turn[w]) /\ turn[w].id <= turns
  BY Turned
<1>2. CASE turn' = turn /\ turns' = turns
  BY <1>1, <1>2 DEF Typed
<1>3. ASSUME NEW u \in Workers,
             Step(u) \/ \E s \in Sessions, m \in Kinds : Start(u, s, m)
      PROVE  /\ turn' \in [Workers -> Turning]
             /\ \A w \in Workers : WellFormed(turn'[w]) /\ turn'[w].id <= turns'
  <2>1. turn'[u] \in Turning /\ WellFormed(turn'[u]) /\ turn'[u].id <= turns'
    BY <1>3, TypedMove, TypedStart
  <2>2. turns \in Nat /\ turns' \in Nat /\ turns <= turns'
    BY Counts, Constants DEF Typed
  <2>3. \A w \in Workers : w # u => turn'[w] = turn[w]
    BY <1>3, MovesAlone
  <2>4. \A w \in Workers : turn'[w] \in Turning /\ WellFormed(turn'[w]) /\ turn'[w].id <= turns'
    <3>1. \A w \in Workers : turn[w].id \in Nat
      BY <1>1, Constants DEF Turning
    <3> QED
      BY <1>1, <2>1, <2>2, <2>3, <3>1
  <2>5. \E f : turn' = [turn EXCEPT ![u] = f]
    <3>1. ASSUME NEW s \in Sessions, NEW m \in Kinds, Start(u, s, m)
          PROVE  \E f : turn' = [turn EXCEPT ![u] = f]
      BY <3>1 DEF Start
    <3>2. ASSUME NEW t \in Tickets, Open(u, t) \/ Continue(u, t)
          PROVE  \E f : turn' = [turn EXCEPT ![u] = f]
      BY <3>2 DEF Open, Continue, Failed, End
    <3>3. CASE Read(u) \/ Call(u) \/ Summarize(u) \/ Copy(u) \/ Judge(u) \/ Reply(u)
      BY <3>3 DEF Read, Call, Summarize, Copy, Judge, Reply
    <3>4. CASE Mark(u) \/ Record(u) \/ Push(u)
      BY <3>4 DEF Mark, Record, Push, Failed, End, Goto
    <3> QED
      BY <1>3, <3>1, <3>2, <3>3, <3>4 DEF Step
  <2> QED
    BY <2>4, <2>5 DEF Typed
<1> QED
  BY <1>2, <1>3 DEF Next, vars, Claim, Escalate, Settle, Agent, Tick

\* The circumstances of a claim.
Circumstances(t) == [turns |-> {turn[w].id : w \in Running}, buried |-> events[t].count >= EventLimit]

LEMMA CircumstancesTyped ==
  ASSUME Typed, NEW t \in Tickets
  PROVE  Circumstances(t) \in Claims /\ Circumstances(t) # None
<1>1. \A w \in Running : turn[w].id \in 1 .. MaxTurns
  <2> SUFFICES ASSUME NEW w \in Running PROVE turn[w].id \in 1 .. MaxTurns
    OBVIOUS
  <2>1. w \in Workers /\ turn[w].pc # "idle"
    BY DEF Running
  <2>2. turn[w] \in Turning /\ WellFormed(turn[w])
    BY <2>1, Turned
  <2> QED
    BY <2>1, <2>2, Constants DEF Turning, WellFormed, Idle
<1>2. (events[t].count >= EventLimit) \in BOOLEAN
  OBVIOUS
<1>3. Circumstances(t) \in Claims
  <2> DEFINE i == {turn[w].id : w \in Running}
             b == events[t].count >= EventLimit
  <2>1. i \in SUBSET (1 .. MaxTurns) /\ b \in BOOLEAN
    BY <1>1, <1>2
  <2> HIDE DEF i, b
  <2>2. [turns |-> i, buried |-> b] \in Claims
    BY <2>1 DEF Claims
  <2> QED
    BY <2>2 DEF Circumstances, i, b
<1> QED
  BY <1>3, Absence

LEMMA TypedStep == Typed /\ Rowed /\ [Next]_vars => Typed'
<1> SUFFICES ASSUME Typed, Rowed, [Next]_vars PROVE Typed'
  OBVIOUS
<1>1. /\ row' \in [Tickets -> Rows \cup {None}]
      /\ events' \in [Tickets -> [count : Nat, first : Nat]]
  <2>1. \A t \in Tickets : row'[t] \in Rows \cup {None}
    BY RowsFollow
  <2>2. ASSUME NEW t \in Tickets, NEW r \in Rows, row' = [row EXCEPT ![t] = r]
        PROVE  row' \in [Tickets -> Rows \cup {None}]
    BY <2>2 DEF Typed
  <2>3. ASSUME NEW t \in Tickets, NEW n \in Nat, events' = [events EXCEPT ![t].count = @ + n]
        PROVE  events' \in [Tickets -> [count : Nat, first : Nat]]
    BY <2>3 DEF Typed
  <2>4. ASSUME NEW t \in Tickets, Claim(t)
        PROVE  events' \in [Tickets -> [count : Nat, first : Nat]]
    <3> DEFINE f == FirstResponse(t)
    <3>1. f \in Nat
      BY DEF FirstResponse, Typed
    <3>2. events' = [events EXCEPT ![t].count = @ + 3, ![t].first = f]
      BY <2>4 DEF Claim
    <3>3. events \in [Tickets -> [count : Nat, first : Nat]]
      BY DEF Typed
    <3> HIDE DEF f
    <3>4. [events EXCEPT ![t].count = @ + 3, ![t].first = f]
             \in [Tickets -> [count : Nat, first : Nat]]
      BY <3>1, <3>3, ClaimEvents
    <3> QED
      BY <3>2, <3>4
  <2>5. CASE row' = row /\ events' = events
    BY <2>5 DEF Typed
  <2> QED
    BY <2>2, <2>3, <2>4, <2>5, StepWrites DEF Writing, Writes, Claiming
<1>2. bound' \in [Sessions -> Tickets \cup {None}] /\ last' \in TraceType
  <2>1. ASSUME NEW w \in Workers, Step(w)
        PROVE  bound' \in [Sessions -> Tickets \cup {None}] /\ last' \in TraceType
    <3>1. bound' = bound \/ \E t \in Tickets : bound' = [bound EXCEPT ![turn[w].session] = t]
      BY <2>1 DEF Step, Open, Continue, Read, Call, Summarize, Copy, Judge, Mark, Reply, Record, Push,
                  Failed
    <3>2. last' \in TraceType
      <4>1. turn[w].id \in 0 .. MaxTurns
        BY Turned DEF Turning
      <4>2. Answered(w) \in TraceType /\ Exhausted(w) \in TraceType
        BY <4>1, Constants DEF Answered, Exhausted, TraceType
      <4>3. last' = last \/ last' = Answered(w) \/ last' = Exhausted(w)
        BY <2>1 DEF Step, Open, Continue, Read, Call, Summarize, Copy, Judge, Mark, Reply, Record,
                    Push, Remember
      <4> QED
        BY <4>2, <4>3 DEF Typed
    <3> QED
      BY <3>1, <3>2 DEF Typed
  <2>2. CASE bound' = bound /\ last' = last
    BY <2>2 DEF Typed
  <2> QED
    BY <2>1, <2>2 DEF Next, vars, Start, Claim, Escalate, Settle, Agent, Tick
<1>3. /\ now' \in 0 .. MaxTime /\ now <= now' /\ turns' \in 0 .. MaxTurns
      /\ acts' \in 0 .. MaxActs
  BY Counts, Constants DEF Typed
<1>4. claim' \in [Tickets -> Claims \cup {None}]
  <2>1. ASSUME NEW t \in Tickets, Claim(t) PROVE claim' \in [Tickets -> Claims \cup {None}]
    <3>1. claim' = [claim EXCEPT ![t] = IF @ # None THEN @ ELSE Circumstances(t)]
      BY <2>1 DEF Claim, Circumstances
    <3> QED
      BY <3>1, CircumstancesTyped DEF Typed
  <2>2. claim' = claim \/ \E t \in Tickets : Claim(t)
    BY StepWrites DEF Writing, Writes, Claiming
  <2> QED
    BY <2>1, <2>2 DEF Typed
<1>5. \A t \in Tickets : Exists(t)' => row'[t].created <= now'
  <2> SUFFICES ASSUME NEW t \in Tickets, Exists(t)' PROVE row'[t].created <= now'
    OBVIOUS
  <2>1. row'[t] \in Rows /\ now \in Nat /\ now' \in Nat
    BY <1>1, <1>3, Constants DEF Exists, Typed
  <2>2. row'[t].created <= now
    <3>1. CASE row'[t] = row[t]
      BY <3>1 DEF Typed, Exists
    <3>2. CASE Follows(t, row'[t])
      BY <2>1, <3>2 DEF Follows, Typed
    <3> QED
      BY <3>1, <3>2, RowsFollow
  <2>3. row'[t].created \in Nat
    BY <2>1, Constants DEF Rows
  <2> QED
    BY <1>3, <2>1, <2>2, <2>3
<1> QED
  BY <1>1, <1>2, <1>3, <1>4, <1>5, TurnsFollow DEF Typed

-----------------------------------------------------------------------------
(* The rest of the invariant, step by step.                                *)

\* What a turn is about stays, from one of its steps to the next.
LEMMA SameTurn ==
  ASSUME Typed, NEW w \in Workers, Step(w)
  PROVE  \/ turn'[w] = Idle
         \/ /\ turn'[w].id = turn[w].id /\ turn'[w].asked = turn[w].asked
            /\ \/ turn'[w].ticket = turn[w].ticket
               \/ /\ At(w, "ticket") /\ turn'[w].pc = "read"
                  /\ \E t \in Tickets : (Open(w, t) \/ Continue(w, t)) /\ turn'[w].ticket = t
<1>0. turn[w] \in Turning
  BY Turned
<1>1. ASSUME NEW t \in Tickets, Open(w, t) \/ Continue(w, t), turn'[w] # Idle
      PROVE  /\ turn'[w].id = turn[w].id /\ turn'[w].asked = turn[w].asked
             /\ At(w, "ticket") /\ turn'[w].pc = "read" /\ turn'[w].ticket = t
  <2>1. ASSUME NEW s, turn' = [turn EXCEPT ![w].pc = "read", ![w].ticket = t, ![w].snap = s]
        PROVE  /\ turn'[w].id = turn[w].id /\ turn'[w].asked = turn[w].asked
               /\ turn'[w].pc = "read" /\ turn'[w].ticket = t
    BY <1>0, <2>1 DEF Typed, Turning
  <2>2. At(w, "ticket")
    BY <1>1 DEF Open, Continue
  <2>3. \/ turn' = [turn EXCEPT ![w] = Idle]
        \/ \E s : turn' = [turn EXCEPT ![w].pc = "read", ![w].ticket = t, ![w].snap = s]
    BY <1>1 DEF Open, Continue, Failed, End
  <2>4. turn' # [turn EXCEPT ![w] = Idle]
    BY <1>1 DEF Typed
  <2> QED
    BY <2>1, <2>2, <2>3, <2>4
<1>2. ASSUME Read(w) \/ Copy(w) \/ Call(w) \/ Summarize(w) \/ Reply(w) \/ Judge(w)
      PROVE  /\ turn'[w].id = turn[w].id /\ turn'[w].asked = turn[w].asked
             /\ turn'[w].ticket = turn[w].ticket
  BY <1>0, <1>2 DEF Typed, Turning, Read, Copy, Call, Summarize, Reply, Judge
<1>3. ASSUME Mark(w) \/ Record(w) \/ Push(w), turn'[w] # Idle
      PROVE  /\ turn'[w].id = turn[w].id /\ turn'[w].asked = turn[w].asked
             /\ turn'[w].ticket = turn[w].ticket
  <2>1. CASE Mark(w)
    BY <1>0, <1>3, <2>1 DEF Typed, Turning, Mark, Failed, End
  <2>2. CASE Record(w)
    BY <1>0, <1>3, <2>2 DEF Typed, Turning, Record, Failed, End, Goto
  <2>3. CASE Push(w)
    BY <1>0, <1>3, <2>3 DEF Typed, Turning, Push, Failed, End
  <2> QED
    BY <1>3, <2>1, <2>2, <2>3
<1> QED
  BY <1>1, <1>2, <1>3 DEF Step

LEMMA RowedStep == Typed /\ Rowed /\ [Next]_vars => Rowed'
<1> SUFFICES ASSUME Typed, Rowed, [Next]_vars PROVE Rowed'
  OBVIOUS
<1> DEFINE On(t) == t = None \/ (t \in Tickets /\ row'[t] # None)
<1>0. \A t \in Tickets : row[t] # None => row'[t] # None
  BY RowsFollow DEF Exists
<1>1. \A t \in Tickets, w \in Workers : Open(w, t) \/ Continue(w, t) => row'[t] # None
  <2> SUFFICES ASSUME NEW t \in Tickets, NEW w \in Workers, Open(w, t) \/ Continue(w, t)
               PROVE  row'[t] # None
    OBVIOUS
  <2>1. CASE Continue(w, t)
    BY <1>0, <2>1, Standing DEF Exists
  <2>2. CASE Open(w, t)
    <3>1. row'[t] = Fresh(w) /\ Fresh(w) \in Rows
      BY <2>2, FreshRow DEF Open, Typed
    <3> QED
      BY <3>1, Absence
  <2> QED
    BY <2>1, <2>2
<1>2. \A s \in Sessions : bound[s] # None => bound[s] \in Tickets /\ row'[bound[s]] # None
  BY <1>0 DEF Rowed, Typed, Exists
<1>3. \A w \in Workers : On(turn[w].asked) /\ On(turn[w].ticket)
  <2> SUFFICES ASSUME NEW w \in Workers PROVE On(turn[w].asked) /\ On(turn[w].ticket)
    OBVIOUS
  <2>1. turn[w].asked \in Tickets \cup {None} /\ turn[w].ticket \in Tickets \cup {None}
    BY Turned DEF Turning
  <2> QED
    BY <1>0, <2>1 DEF Rowed, Exists
<1>4. \A s \in Sessions : bound'[s] # None => row'[bound'[s]] # None
  <2>1. ASSUME NEW w \in Workers, NEW t \in Tickets, Open(w, t) \/ Continue(w, t)
        PROVE  \A s \in Sessions : bound'[s] # None => row'[bound'[s]] # None
    <3>1. bound' = bound \/ bound' = [bound EXCEPT ![turn[w].session] = t]
      BY <2>1 DEF Open, Continue, Failed
    <3> QED
      BY <1>1, <1>2, <2>1, <3>1 DEF Typed
  <2>2. bound' = bound \/ \E w \in Workers, t \in Tickets : Open(w, t) \/ Continue(w, t)
    <3>1. ASSUME NEW w \in Workers, Step(w), ~\E t \in Tickets : Open(w, t) \/ Continue(w, t)
          PROVE  bound' = bound
      BY <3>1 DEF Step, Read, Call, Summarize, Copy, Judge, Mark, Reply, Record, Push, Failed
    <3> QED
      BY <3>1 DEF Next, vars, Start, Claim, Escalate, Settle, Agent, Tick
  <2> QED
    BY <1>2, <2>1, <2>2
<1>5. \A w \in Workers : On(turn'[w].asked) /\ On(turn'[w].ticket)
  <2>1. ASSUME NEW u \in Workers, NEW s \in Sessions, NEW m \in Kinds, Start(u, s, m)
        PROVE  \A w \in Workers : On(turn'[w].asked) /\ On(turn'[w].ticket)
    <3>1. turn'[u].asked = bound[s] /\ turn'[u].ticket = None
      BY <2>1 DEF Start, Typed, Idle
    <3>2. On(turn'[u].asked) /\ On(turn'[u].ticket)
      BY <1>2, <3>1
    <3> QED
      BY <1>3, <2>1, <3>2, MovesAlone
  <2>2. ASSUME NEW u \in Workers, Step(u)
        PROVE  \A w \in Workers : On(turn'[w].asked) /\ On(turn'[w].ticket)
    <3>1. On(turn'[u].asked) /\ On(turn'[u].ticket)
      <4>1. CASE turn'[u] = Idle
        <5>1. Idle.asked = None /\ Idle.ticket = None
          BY DEF Idle
        <5> QED
          BY <4>1, <5>1
      <4>2. CASE turn'[u] # Idle
        BY <1>1, <1>3, <2>2, <4>2, SameTurn
      <4> QED
        BY <4>1, <4>2
    <3> QED
      BY <1>3, <2>2, <3>1, MovesAlone
  <2>3. CASE turn' = turn
    BY <1>3, <2>3
  <2> QED
    BY <2>1, <2>2, <2>3 DEF Next, vars, Claim, Escalate, Settle, Agent, Tick
<1> QED
  BY <1>4, <1>5 DEF Rowed, Exists

LEMMA TimelinesStep == Typed /\ Rowed /\ Timelines /\ [Next]_vars => Timelines'
<1> SUFFICES ASSUME Typed, Rowed, Timelines, [Next]_vars, NEW t \in Tickets
             PROVE  /\ claim'[t] # None <=> Exists(t)' /\ row'[t].assigned
                    /\ claim'[t] # None <=> events'[t].first > 0
                    /\ claim'[t] # None => events'[t].first <= EventLimit \/ claim'[t].buried
                    /\ events'[t].first <= events'[t].count
  BY DEF Timelines
<1>0. /\ events[t] \in [count : Nat, first : Nat] /\ row[t] \in Rows \cup {None}
      /\ claim[t] \in Claims \cup {None} /\ EventLimit \in Nat
      /\ claim[t] # None <=> Exists(t) /\ row[t].assigned
      /\ claim[t] # None <=> events[t].first > 0
      /\ claim[t] # None => events[t].first <= EventLimit \/ claim[t].buried
      /\ events[t].first <= events[t].count
  BY Constants DEF Typed, Timelines
<1>1. CASE row' = row /\ events' = events /\ claim' = claim
  BY <1>0, <1>1 DEF Exists
<1>2. ASSUME NEW u \in Tickets, NEW r \in Rows, NEW n \in Nat, Writes(u, r, n)
      PROVE  /\ claim'[t] # None <=> Exists(t)' /\ row'[t].assigned
             /\ claim'[t] # None <=> events'[t].first > 0
             /\ claim'[t] # None => events'[t].first <= EventLimit \/ claim'[t].buried
             /\ events'[t].first <= events'[t].count
  <2>1. claim'[t] = claim[t] /\ events'[t].first = events[t].first
        /\ (events'[t].count = events[t].count \/ events'[t].count = events[t].count + n)
    BY <1>0, <1>2 DEF Writes, Typed
  <2>2. CASE u # t
    <3>1. row'[t] = row[t]
      BY <1>2, <2>2 DEF Writes, Typed
    <3> QED
      BY <1>0, <2>1, <3>1 DEF Exists
  <2>3. CASE u = t
    <3>1. row'[t] = r /\ Exists(t)'
      BY <1>2, <2>3, Absence DEF Writes, Typed, Exists
    <3>2. Exists(t) => r.assigned = row[t].assigned
      BY <1>2, <2>3 DEF Writes
    <3>3. ~Exists(t) => ~r.assigned
      BY <1>2, <2>3 DEF Writes, Follows
    <3> QED
      BY <1>0, <2>1, <3>1, <3>2, <3>3
  <2> QED
    BY <2>2, <2>3
<1>3. ASSUME NEW u \in Tickets, NEW r \in Rows, Claiming(u, r)
      PROVE  /\ claim'[t] # None <=> Exists(t)' /\ row'[t].assigned
             /\ claim'[t] # None <=> events'[t].first > 0
             /\ claim'[t] # None => events'[t].first <= EventLimit \/ claim'[t].buried
             /\ events'[t].first <= events'[t].count
  <2> DEFINE x == Circumstances(u)
             f == FirstResponse(u)
  <2>1. /\ events' = [events EXCEPT ![u].count = @ + 3, ![u].first = f]
        /\ claim' = [claim EXCEPT ![u] = IF @ # None THEN @ ELSE x]
    BY <1>3 DEF Claiming, Claim, Circumstances
  <2>2. CASE u # t
    <3>1. row'[t] = row[t] /\ events'[t] = events[t] /\ claim'[t] = claim[t]
      BY <1>3, <2>1, <2>2 DEF Claiming, Typed
    <3> QED
      BY <1>0, <3>1 DEF Exists
  <2>3. CASE u = t
    <3>1. row'[t] = r /\ Exists(t)' /\ r.assigned /\ Exists(t)
      BY <1>3, <2>3, Absence DEF Claiming, Claim, Agent, Typed, Exists
    <3>2. f = IF row[t].assigned THEN events[t].first ELSE events[t].count + 1
      BY <2>3 DEF FirstResponse
    <3>3. /\ events'[t].count = events[t].count + 3 /\ events'[t].first = f
          /\ claim'[t] = IF claim[t] # None THEN claim[t] ELSE x
      <4> HIDE DEF f, x
      <4> QED
        BY <1>0, <2>1, <2>3 DEF Typed
    <3>4. CASE claim[t] # None
      BY <1>0, <3>1, <3>2, <3>3, <3>4
    <3>5. CASE claim[t] = None
      <4>1. ~row[t].assigned /\ f = events[t].count + 1
        BY <1>0, <3>1, <3>2, <3>5
      <4>2. claim'[t] = x /\ claim'[t] \in Claims \cup {None} /\ x # None
        BY <3>3, <3>5, TypedStep, CircumstancesTyped DEF Typed
      <4>3. x.buried <=> events[t].count >= EventLimit
        BY <2>3 DEF Circumstances
      <4> HIDE DEF x, f
      <4> QED
        BY <1>0, <3>1, <3>3, <4>1, <4>2, <4>3
    <3> QED
      BY <3>4, <3>5
  <2> QED
    BY <2>2, <2>3
<1> QED
  BY <1>1, <1>2, <1>3, StepWrites DEF Writing

LEMMA SettledStep == Typed /\ Rowed /\ Settled /\ [Next]_vars => Settled'
<1> SUFFICES ASSUME Typed, Rowed, Settled, [Next]_vars, NEW t \in Tickets, row'[t] # None,
                    row'[t].status \in {"resolved", "closed"}
             PROVE  t \in settled'
  BY DEF Settled, Exists
<1>1. CASE row'[t] = row[t]
  BY <1>1, Notes DEF Settled, Exists
<1>2. CASE Follows(t, row'[t]) /\ Exists(t)
  BY <1>2, Notes DEF Settled, Follows
<1>3. CASE Follows(t, row'[t]) /\ ~Exists(t)
  BY <1>3 DEF Follows
<1> QED
  BY <1>1, <1>2, <1>3, RowsFollow

\* A turn that has read the timeline has read it for good.
LEMMA SeenStays ==
  ASSUME Typed, NEW w \in Workers, Step(w), ~Read(w), turn'[w].pc \in Fetched
  PROVE  /\ turn[w].pc \in Fetched /\ turn'[w].seen = turn[w].seen
         /\ turn'[w].ticket = turn[w].ticket /\ turn'[w].id = turn[w].id
<1>0. turn[w] \in Turning
  BY Turned
<1>1. turn'[w] # Idle
  BY DEF Idle, Fetched
<1>2. ASSUME NEW t \in Tickets PROVE ~Open(w, t) /\ ~Continue(w, t)
  <2>1. ASSUME NEW s, turn' = [turn EXCEPT ![w].pc = "read", ![w].ticket = t, ![w].snap = s]
        PROVE  FALSE
    BY <1>0, <2>1 DEF Typed, Turning, Fetched
  <2> QED
    BY <1>1, <2>1 DEF Open, Continue, Failed, End, Typed
<1>3. CASE Copy(w) \/ Call(w) \/ Summarize(w) \/ Reply(w)
  BY <1>0, <1>3 DEF Typed, Turning, Copy, Call, Summarize, Reply, At, Fetched
<1>4. CASE Judge(w)
  BY <1>0, <1>4 DEF Typed, Turning, Judge, At, Fetched
<1>5. CASE Mark(w) \/ Record(w) \/ Push(w)
  BY <1>0, <1>1, <1>5 DEF Typed, Turning, Mark, Record, Push, Failed, End, Goto, At, Fetched
<1> QED
  BY <1>2, <1>3, <1>4, <1>5 DEF Step

LEMMA UnseenStep ==
  Typed /\ Rowed /\ Timelines /\ Unseen /\ [Next]_vars => Unseen'
<1> SUFFICES ASSUME Typed, Rowed, Timelines, Unseen, [Next]_vars, NEW w \in Workers
             PROVE  /\ turn'[w].pc \in Fetched /\ ~turn'[w].seen /\ claim'[turn'[w].ticket] # None
                         => \/ turn'[w].id \in claim'[turn'[w].ticket].turns
                            \/ claim'[turn'[w].ticket].buried
                    /\ "first_response_overdue" \in turn'[w].breaches => ~turn'[w].seen
  BY DEF Unseen, T
<1>0. turn[w] \in Turning /\ WellFormed(turn[w])
  BY Turned
<1>1. CASE turn'[w] = turn[w] /\ claim' = claim
  BY <1>1 DEF Unseen, T
<1>2. ASSUME NEW s \in Sessions, NEW m \in Kinds, Start(w, s, m)
      PROVE  turn'[w].pc \notin Fetched /\ turn'[w].breaches = {}
  BY <1>2 DEF Start, Typed, Idle, Fetched
<1>3. CASE Step(w)
  <2>1. claim' = claim
    BY <1>3 DEF Step, Open, Continue, Read, Call, Summarize, Copy, Judge, Mark, Reply, Record, Push
  <2>2. CASE Read(w)
    <3> DEFINE t == T(w)
    <3>1. t \in Tickets
      BY <2>2, Standing DEF Read, At
    <3>2. /\ turn'[w].ticket = t /\ turn'[w].breaches = turn[w].breaches
          /\ turn'[w].seen = Seen(t)
      BY <1>0, <2>2 DEF Read, Typed, Turning, T
    <3>3. turn[w].breaches = {}
      BY <1>0, <2>2 DEF Read, At, WellFormed, Idle, Judged
    <3>4. claim[t] # None /\ ~Seen(t) => claim[t].buried
      BY <3>1, Constants DEF Timelines, Seen, Typed
    <3> QED
      BY <2>1, <3>2, <3>3, <3>4
  <2>3. CASE ~Read(w)
    <3>1. ASSUME turn'[w].pc \in Fetched, ~turn'[w].seen, claim'[turn'[w].ticket] # None
          PROVE  \/ turn'[w].id \in claim'[turn'[w].ticket].turns
                 \/ claim'[turn'[w].ticket].buried
      BY <1>3, <2>1, <2>3, <3>1, SeenStays DEF Unseen, T
    <3>2. ASSUME "first_response_overdue" \in turn'[w].breaches
          PROVE  ~turn'[w].seen
      <4>1. turn'[w].pc \in Fetched
        BY <3>2, TurnsFollow DEF WellFormed, Idle, Judged, Fetched
      <4>2. turn'[w].seen = turn[w].seen
        BY <1>3, <2>3, <4>1, SeenStays
      <4>3. CASE Judge(w)
        <5>1. turn'[w].breaches = Breaches(turn[w].snap, turn[w].seen, now)
          BY <1>0, <4>3 DEF Judge, Typed, Turning
        <5>2. "first_response_overdue" \in Breaches(turn[w].snap, turn[w].seen, now)
          BY <3>2, <5>1
        <5> QED
          BY <4>2, <5>2 DEF Breaches
      <4>4. CASE ~Judge(w)
        <5>1. turn'[w] = Idle \/ turn'[w].breaches = turn[w].breaches
          <6>1. ASSUME NEW t \in Tickets, Open(w, t) \/ Continue(w, t)
                PROVE  turn'[w] = Idle \/ turn'[w].breaches = turn[w].breaches
            <7>1. ASSUME NEW s,
                         turn' = [turn EXCEPT ![w].pc = "read", ![w].ticket = t, ![w].snap = s]
                  PROVE  turn'[w].breaches = turn[w].breaches
              BY <1>0, <7>1 DEF Typed, Turning
            <7> QED
              BY <6>1, <7>1 DEF Open, Continue, Failed, End, Typed
          <6>2. CASE Copy(w) \/ Call(w) \/ Summarize(w) \/ Reply(w)
            BY <1>0, <6>2 DEF Typed, Turning, Copy, Call, Summarize, Reply
          <6>3. CASE Mark(w) \/ Record(w) \/ Push(w)
            BY <1>0, <6>3 DEF Typed, Turning, Mark, Record, Push, Failed, End, Goto
          <6> QED
            BY <1>3, <2>3, <4>4, <6>1, <6>2, <6>3 DEF Step
        <5>2. turn'[w].breaches = turn[w].breaches
          BY <3>2, <5>1 DEF Idle
        <5> QED
          BY <3>2, <4>2, <5>2 DEF Unseen
      <4> QED
        BY <4>3, <4>4
    <3> QED
      BY <3>1, <3>2
  <2> QED
    BY <2>2, <2>3
<1>4. ASSUME NEW t \in Tickets, Claim(t)
      PROVE  /\ turn'[w].pc \in Fetched /\ ~turn'[w].seen /\ claim'[turn'[w].ticket] # None
                  => \/ turn'[w].id \in claim'[turn'[w].ticket].turns
                     \/ claim'[turn'[w].ticket].buried
             /\ "first_response_overdue" \in turn'[w].breaches => ~turn'[w].seen
  <2>1. /\ turn' = turn
        /\ claim' = [claim EXCEPT ![t] = IF @ # None THEN @ ELSE Circumstances(t)]
    BY <1>4 DEF Claim, Agent, Circumstances
  <2>2. CASE turn[w].ticket = t /\ claim[t] = None /\ turn[w].pc \in Fetched
    <3>1. claim'[t] = Circumstances(t)
      BY <2>1, <2>2 DEF Typed
    <3>2. w \in Running
      BY <2>2 DEF Running, Fetched
    <3>3. turn[w].id \in Circumstances(t).turns
      BY <3>2 DEF Circumstances
    <3> QED
      BY <2>1, <2>2, <3>1, <3>3 DEF Unseen
  <2>3. CASE turn[w].ticket = t /\ claim[t] # None
    BY <2>1, <2>3 DEF Unseen, T, Typed
  <2>4. CASE turn[w].ticket # t \/ turn[w].pc \notin Fetched
    <3>1. turn[w].pc \in Fetched => turn[w].ticket \in Tickets
      BY Standing DEF T
    <3> QED
      BY <2>1, <2>4, <3>1 DEF Unseen, T, Typed
  <2> QED
    BY <2>2, <2>3, <2>4
<1>5. ASSUME NEW u \in Workers, u # w,
             Step(u) \/ \E s \in Sessions, m \in Kinds : Start(u, s, m)
      PROVE  turn'[w] = turn[w] /\ claim' = claim
  <2>1. claim' = claim
    BY <1>5 DEF Start, Step, Open, Continue, Read, Call, Summarize, Copy, Judge, Mark, Reply, Record,
                Push
  <2> QED
    BY <1>5, <2>1, MovesAlone
<1>6. CASE Tick \/ UNCHANGED vars \/ \E t \in Tickets : Escalate(t) \/ Settle(t)
  BY <1>1, <1>6 DEF Tick, vars, Escalate, Settle, Agent
<1> QED
  BY <1>1, <1>2, <1>3, <1>4, <1>5, <1>6 DEF Next

\* Who runs after a step.
LEMMA StillRunning ==
  ASSUME Typed, NEW u \in Workers, Step(u), NEW w \in Workers, turn'[w].pc # "idle"
  PROVE  w \in Running /\ turn'[w].id = turn[w].id
<1>1. CASE w # u
  BY <1>1, MovesAlone DEF Running
<1>2. CASE w = u
  <2>1. turn'[w] # Idle
    BY DEF Idle
  <2>2. turn[w].pc # "idle"
    BY <1>2 DEF Step, Open, Continue, Read, Call, Summarize, Copy, Judge, Mark, Reply, Record, Push, At
  <2> QED
    BY <1>2, <2>1, <2>2, SameTurn DEF Running
<1> QED
  BY <1>1, <1>2

LEMMA MeetingsStep == Typed /\ Meetings /\ [Next]_vars => Meetings'
<1> SUFFICES ASSUME Typed, Meetings, [Next]_vars, NEW v \in Workers, NEW w \in Workers, v # w,
                    turn'[v].pc # "idle", turn'[w].pc # "idle"
             PROVE  {turn'[v].id, turn'[w].id} \in met'
  BY DEF Meetings, Running
<1>1. ASSUME NEW u \in Workers, Step(u) PROVE {turn'[v].id, turn'[w].id} \in met'
  BY <1>1, StillRunning, Notes DEF Meetings
<1>2. ASSUME NEW u \in Workers, NEW s \in Sessions, NEW m \in Kinds, Start(u, s, m)
      PROVE  {turn'[v].id, turn'[w].id} \in met'
  <2>1. turn'[u].id = turns' /\ \A x \in Workers : x # u => turn'[x] = turn[x]
    BY <1>2, MovesAlone DEF Start, Typed, Idle
  <2>2. \A x \in Running : {turns', turn[x].id} \in met'
    BY <1>2 DEF Start
  <2>3. CASE v = u
    BY <2>1, <2>2, <2>3 DEF Running
  <2>4. CASE w = u
    <3>1. {turn'[w].id, turn'[v].id} \in met'
      BY <2>1, <2>2, <2>4 DEF Running
    <3>2. {turn'[w].id, turn'[v].id} = {turn'[v].id, turn'[w].id}
      OBVIOUS
    <3> QED
      BY <3>1, <3>2
  <2>5. CASE v # u /\ w # u
    BY <2>1, <2>5, Notes DEF Meetings, Running
  <2> QED
    BY <2>3, <2>4, <2>5
<1>3. CASE turn' = turn
  BY <1>3, Notes DEF Meetings, Running
<1> QED
  BY <1>1, <1>2, <1>3 DEF Next, vars, Claim, Escalate, Settle, Agent, Tick

\* Where a turn comes from that has been judged, or has a trace.
LEMMA Before ==
  ASSUME Typed, NEW w \in Workers, Step(w)
  PROVE  /\ turn'[w].pc = "copy" => Summarize(w)
         /\ turn'[w].pc = "judge" => Copy(w)
         /\ turn'[w].pc = "mark" => Judge(w)
         /\ turn'[w].pc = "reply" => Call(w) \/ Judge(w) \/ Mark(w)
         /\ turn'[w].pc = "record" => Reply(w)
         /\ turn'[w].pc = "push" => Record(w)
<1>0. turn[w] \in Turning
  BY Turned
<1>1. ASSUME NEW t \in Tickets, Open(w, t) \/ Continue(w, t)
      PROVE  turn'[w].pc \in {"idle", "read"}
  <2>1. ASSUME NEW s, turn' = [turn EXCEPT ![w].pc = "read", ![w].ticket = t, ![w].snap = s]
        PROVE  turn'[w].pc = "read"
    BY <1>0, <2>1 DEF Typed, Turning
  <2>2. \/ turn' = [turn EXCEPT ![w] = Idle]
        \/ \E s : turn' = [turn EXCEPT ![w].pc = "read", ![w].ticket = t, ![w].snap = s]
    BY <1>1 DEF Open, Continue, Failed, End
  <2>3. turn' = [turn EXCEPT ![w] = Idle] => turn'[w].pc = "idle"
    BY DEF Typed, Idle
  <2> QED
    BY <2>1, <2>2, <2>3
<1>2. /\ Read(w) => turn'[w].pc = "summary"
      /\ Call(w) => turn'[w].pc \in {"summary", "reply"}
      /\ Summarize(w) => turn'[w].pc = "copy"
      /\ Copy(w) => turn'[w].pc = "judge"
      /\ Judge(w) => turn'[w].pc \in {"mark", "reply"}
      /\ Reply(w) => turn'[w].pc = "record"
  BY <1>0 DEF Read, Call, Summarize, Copy, Judge, Reply, Typed, Turning, At
<1>3. /\ Mark(w) => turn'[w].pc \in {"idle", "reply"}
      /\ Record(w) => turn'[w].pc \in {"idle", "push"}
      /\ Push(w) => turn'[w].pc = "idle"
  BY <1>0 DEF Mark, Record, Push, Failed, End, Goto, Typed, Turning, Idle
<1> QED
  BY <1>1, <1>2, <1>3 DEF Step

\* A step later than the copy leaves the trace, and one later than the
\* judgement the reasons.
LEMMA Carried ==
  ASSUME Typed, NEW w \in Workers, Step(w), turn'[w].pc # "idle"
  PROVE  /\ turn'[w].trace = IF Copy(w) THEN last ELSE turn[w].trace
         /\ ~Judge(w) => turn'[w].reasons = turn[w].reasons
<1>0. turn[w] \in Turning /\ turn'[w] # Idle
  BY Turned DEF Idle
<1>1. ASSUME NEW t \in Tickets, Open(w, t) \/ Continue(w, t)
      PROVE  turn'[w].trace = turn[w].trace /\ turn'[w].reasons = turn[w].reasons /\ ~Copy(w)
  <2>1. ASSUME NEW s, turn' = [turn EXCEPT ![w].pc = "read", ![w].ticket = t, ![w].snap = s]
        PROVE  turn'[w].trace = turn[w].trace /\ turn'[w].reasons = turn[w].reasons
    BY <1>0, <2>1 DEF Typed, Turning
  <2>2. ~Copy(w)
    BY <1>1 DEF Open, Continue, Copy, At
  <2> QED
    BY <1>0, <1>1, <2>1, <2>2 DEF Open, Continue, Failed, End, Typed
<1>2. CASE Copy(w)
  BY <1>0, <1>2 DEF Copy, Typed, Turning
<1>3. CASE Read(w) \/ Call(w) \/ Summarize(w) \/ Reply(w)
  <2>1. turn'[w].trace = turn[w].trace /\ turn'[w].reasons = turn[w].reasons
    BY <1>0, <1>3 DEF Read, Call, Summarize, Reply, Typed, Turning
  <2> QED
    BY <1>3, <2>1 DEF Read, Call, Summarize, Reply, Copy, At
<1>4. CASE Judge(w)
  <2>1. turn'[w].trace = turn[w].trace
    BY <1>0, <1>4 DEF Judge, Typed, Turning
  <2> QED
    BY <1>4, <2>1 DEF Judge, Copy, At
<1>5. CASE Mark(w) \/ Record(w) \/ Push(w)
  <2>1. turn'[w].trace = turn[w].trace /\ turn'[w].reasons = turn[w].reasons
    BY <1>0, <1>5 DEF Mark, Record, Push, Failed, End, Goto, Typed, Turning
  <2> QED
    BY <1>5, <2>1 DEF Mark, Record, Push, Copy, At
<1> QED
  BY <1>1, <1>2, <1>3, <1>4, <1>5 DEF Step

LEMMA TracesStep == Typed /\ Rowed /\ Meetings /\ Traces /\ [Next]_vars => Traces'
<1> DEFINE own(x, i) == x.of = i \/ {x.of, i} \in met'
<1> SUFFICES ASSUME Typed, Rowed, Meetings, Traces, [Next]_vars, NEW w \in Workers
             PROVE  /\ turn'[w].pc = "copy" => own(last', turn'[w].id)
                    /\ turn'[w].pc \in Judged \cup {"judge"} => own(turn'[w].trace, turn'[w].id)
  BY DEF Traces, At
<1>0. /\ turn[w].pc = "copy" => own(last, turn[w].id)
      /\ turn[w].pc \in Judged \cup {"judge"} => own(turn[w].trace, turn[w].id)
  BY Notes DEF Traces, At
<1>1. CASE turn' = turn /\ last' = last
  BY <1>0, <1>1
<1>2. ASSUME NEW u \in Workers, NEW s \in Sessions, NEW m \in Kinds, Start(u, s, m)
      PROVE  /\ turn'[w].pc = "copy" => own(last', turn'[w].id)
             /\ turn'[w].pc \in Judged \cup {"judge"} => own(turn'[w].trace, turn'[w].id)
  <2>1. last' = last /\ turn'[u].pc = "ticket"
    BY <1>2 DEF Start, Typed, Idle
  <2> QED
    BY <1>0, <1>2, <2>1, MovesAlone DEF Judged
<1>3. ASSUME NEW u \in Workers, Step(u)
      PROVE  /\ turn'[w].pc = "copy" => own(last', turn'[w].id)
             /\ turn'[w].pc \in Judged \cup {"judge"} => own(turn'[w].trace, turn'[w].id)
  <2>1. last' = last \/ (last'.of = turn[u].id /\ Summarize(u))
    <3>1. Summarize(u) => last'.of = turn[u].id
      BY DEF Summarize, Remember, Answered, Exhausted
    <3>2. ~Summarize(u) => last' = last
      BY <1>3 DEF Step, Open, Continue, Read, Call, Copy, Judge, Mark, Reply, Record, Push
    <3> QED
      BY <3>1, <3>2
  <2>2. ASSUME turn'[w].pc = "copy" PROVE own(last', turn'[w].id)
    <3>1. CASE w = u
      <4>1. Summarize(u) /\ turn'[u].id = turn[u].id
        BY <1>3, <2>2, <3>1, Before, StillRunning
      <4>2. last'.of = turn[u].id
        BY <4>1 DEF Summarize, Remember, Answered, Exhausted
      <4> QED
        BY <3>1, <4>1, <4>2
    <3>2. CASE w # u
      <4>1. turn'[w] = turn[w] /\ w \in Running
        BY <1>3, <2>2, <3>2, MovesAlone DEF Running
      <4>2. CASE last' = last
        BY <1>0, <2>2, <4>1, <4>2
      <4>3. CASE last'.of = turn[u].id /\ Summarize(u)
        <5>1. u \in Running
          BY <4>3 DEF Summarize, At, Running
        <5>2. {turn[u].id, turn[w].id} \in met'
          BY <3>2, <4>1, <5>1, Notes DEF Meetings
        <5> QED
          BY <4>1, <4>3, <5>2
      <4> QED
        BY <2>1, <4>2, <4>3
    <3> QED
      BY <3>1, <3>2
  <2>3. ASSUME turn'[w].pc \in Judged \cup {"judge"} PROVE own(turn'[w].trace, turn'[w].id)
    <3>1. CASE w = u
      <4>1. turn'[w].id = turn[w].id /\ turn'[w].trace = IF Copy(w) THEN last ELSE turn[w].trace
        BY <1>3, <2>3, <3>1, StillRunning, Carried DEF Judged
      <4>2. Copy(w) \/ turn[w].pc \in Judged \cup {"judge"}
        <5>1. /\ Call(w) /\ turn'[w].pc = "reply" => turn[w].pc = "reply"
              /\ Judge(w) => turn[w].pc = "judge"
              /\ Mark(w) => turn[w].pc = "mark"
              /\ Reply(w) => turn[w].pc = "reply"
              /\ Record(w) => turn[w].pc = "record"
          <6>1. Call(w) => turn'[w].pc = turn[w].pc
            BY Turned DEF Call, Typed, Turning
          <6> QED
            BY <6>1 DEF Judge, Mark, Reply, Record, At
        <5> QED
          BY <1>3, <2>3, <3>1, <5>1, Before DEF Judged
      <4>3. Copy(w) => turn[w].pc = "copy"
        BY DEF Copy, At
      <4> QED
        BY <1>0, <4>1, <4>2, <4>3
    <3>2. CASE w # u
      BY <1>0, <1>3, <2>3, <3>2, MovesAlone
    <3> QED
      BY <3>1, <3>2
  <2> QED
    BY <2>2, <2>3
<1> QED
  BY <1>1, <1>2, <1>3 DEF Next, vars, Claim, Escalate, Settle, Agent, Tick

LEMMA TraceOwnStep ==
  Typed /\ Rowed /\ Traces /\ TraceOwnAlone /\ [Next]_vars => TraceOwnAlone'
<1> SUFFICES ASSUME Typed, Rowed, Traces, TraceOwnAlone, [Next]_vars, NEW t \in Tickets,
                    row'[t] # None
             PROVE  LET trace == row'[t].trace IN
                    trace.of = trace.by \/ {trace.of, trace.by} \in met'
  BY DEF TraceOwnAlone, Exists
<1>1. CASE row'[t] = row[t]
  BY <1>1, Notes DEF TraceOwnAlone, Exists
<1>2. CASE Follows(t, row'[t]) /\ ~Exists(t)
  BY <1>2 DEF Follows, NoTrace
<1>3. CASE Follows(t, row'[t]) /\ Exists(t)
  <2>1. CASE row'[t].trace = row[t].trace
    BY <1>3, <2>1, Notes DEF TraceOwnAlone
  <2>2. ASSUME NEW w \in Workers, At(w, "record"),
               row'[t].trace = [turn[w].trace EXCEPT !.by = turn[w].id]
        PROVE  LET trace == row'[t].trace IN
               trace.of = trace.by \/ {trace.of, trace.by} \in met'
    <3>1. row'[t].trace.of = turn[w].trace.of /\ row'[t].trace.by = turn[w].id
      BY <2>2, Turned DEF Turning, TraceType
    <3>2. turn[w].trace.of = turn[w].id \/ {turn[w].trace.of, turn[w].id} \in met
      BY <2>2 DEF Traces, At, Judged
    <3> QED
      BY <3>1, <3>2, Notes
  <2> QED
    BY <1>3, <2>1, <2>2 DEF Follows
<1> QED
  BY <1>1, <1>2, <1>3, RowsFollow

LEMMA PromisedStep == Typed /\ Rowed /\ Promised /\ [Next]_vars => Promised'
<1> SUFFICES ASSUME Typed, Rowed, Promised, [Next]_vars, NEW w \in Workers,
                    turn'[w].reasons # {}
             PROVE  /\ turn'[w].pc \in {"reply", "record", "push"} =>
                         <<"handoff_triggered", turn'[w].ticket, turn'[w].id>> \in told'
                    /\ turn'[w].pc = "push" =>
                         <<"ticket_handoff_requested", turn'[w].ticket, turn'[w].id>> \in told'
  BY DEF Promised, T
<1>0. turn[w] \in Turning /\ told \subseteq told'
  BY Turned, Notes
<1>1. CASE turn'[w] = turn[w]
  BY <1>0, <1>1 DEF Promised, T
<1>2. ASSUME NEW s \in Sessions, NEW m \in Kinds, Start(w, s, m) PROVE FALSE
  <2>1. turn'[w].reasons = {}
    BY <1>2 DEF Start, Typed, Idle
  <2> QED
    BY <2>1
<1>3. CASE Step(w) /\ turn'[w].pc \in {"reply", "record", "push"}
  <2>1. /\ turn'[w].id = turn[w].id
        /\ ~Judge(w) => turn'[w].reasons = turn[w].reasons
    BY <1>3, StillRunning, Carried
  <2>2. turn'[w].ticket = turn[w].ticket
    <3>1. turn'[w] # Idle /\ turn'[w].pc # "read"
      BY <1>3 DEF Idle
    <3> QED
      BY <1>3, <3>1, SameTurn
  <2>3. CASE turn'[w].pc = "reply" /\ Judge(w)
    <3> DEFINE why == Reasons(turn[w].snap, turn[w].says,
                              Breaches(turn[w].snap, turn[w].seen, now))
    <3>1. turn'[w].reasons = why /\ turn'[w].pc = IF why = {} THEN "reply" ELSE "mark"
      <4>1. \E x : turn' = [turn EXCEPT ![w].breaches = x, ![w].reasons = why,
                                        ![w].pc = IF why = {} THEN "reply" ELSE "mark"]
        BY <2>3 DEF Judge
      <4> HIDE DEF why
      <4> QED
        BY <1>0, <4>1 DEF Typed, Turning
    <3> QED
      BY <2>3, <3>1
  <2>4. CASE turn'[w].pc = "reply" /\ Mark(w)
    <3>1. <<"handoff_triggered", T(w), turn[w].id>> \in told'
      <4>1. MayHandOff(T(w))
        <5>1. ~MayHandOff(T(w)) => turn'[w] = Idle
          BY <2>4 DEF Mark, Failed, End, Typed
        <5> QED
          BY <2>4, <5>1 DEF Idle
      <4> QED
        BY <2>4, <4>1 DEF Mark
    <3> QED
      BY <2>1, <2>2, <2>4, <3>1 DEF T
  <2>5. CASE turn'[w].pc = "reply" /\ Call(w)
    <3>1. turn[w].pc = "reply" /\ turn[w].reasons # {}
      <4>1. turn'[w].pc = turn[w].pc /\ turn'[w].reasons = turn[w].reasons
        BY <1>0, <2>5 DEF Call, Typed, Turning
      <4> QED
        BY <2>5, <4>1
    <3> QED
      BY <1>0, <2>1, <2>2, <2>5, <3>1 DEF Promised, T
  <2>6. CASE turn'[w].pc = "record"
    <3>1. Reply(w) /\ turn[w].pc = "reply"
      BY <1>3, <2>6, Before DEF Reply, At
    <3>2. turn[w].reasons # {}
      <4>1. ~Judge(w)
        BY <3>1 DEF Judge, At
      <4> QED
        BY <2>1, <4>1
    <3> QED
      BY <1>0, <2>1, <2>2, <2>6, <3>1, <3>2 DEF Promised, T
  <2>7. CASE turn'[w].pc = "push"
    <3>1. Record(w) /\ turn[w].pc = "record"
      BY <1>3, <2>7, Before DEF Record, At
    <3>2. turn[w].reasons # {}
      <4>1. ~Judge(w)
        BY <3>1 DEF Judge, At
      <4> QED
        BY <2>1, <4>1
    <3>3. told' = told \cup {<<"ticket_handoff_requested", T(w), turn[w].id>> : r \in turn[w].reasons}
      <4>1. Closed(T(w)) => turn'[w] = Idle
        BY <3>1 DEF Record, Failed, End, Typed
      <4>2. turn'[w] # Idle
        BY <2>7 DEF Idle
      <4> QED
        BY <3>1, <4>1, <4>2 DEF Record
    <3> QED
      BY <1>0, <2>1, <2>2, <2>7, <3>1, <3>2, <3>3 DEF Promised, T
  <2> QED
    BY <1>3, <2>3, <2>4, <2>5, <2>6, <2>7, Before
<1>4. ASSUME NEW u \in Workers, u # w,
             Step(u) \/ \E s \in Sessions, m \in Kinds : Start(u, s, m)
      PROVE  turn'[w] = turn[w]
  BY <1>4, MovesAlone
<1> QED
  BY <1>1, <1>2, <1>3, <1>4 DEF Next, vars, Claim, Escalate, Settle, Agent, Tick

\* What is true of a turn that ends with this step.
Ending(d) ==
  /\ d.how = "failed" => d.ticket \in settled
  /\ d.how = "answered" =>
       /\ d.ticket \in Tickets /\ row'[d.ticket] # None
       /\ d.handoff => {<<"handoff_triggered", d.ticket, d.id>>,
                        <<"ticket_handoff_requested", d.ticket, d.id>>} \subseteq told'
       /\ d.new /\ d.queue # "faq" =>
            <<"collab_push", d.ticket, d.id>> \in told' /\ row'[d.ticket].handoff # "none"

\* What a turn says of itself when it has a ticket.
LEMMA Said ==
  ASSUME Typed, NEW w \in Workers, turn[w].pc \notin {"idle", "ticket"}, NEW how
  PROVE  LET d == Outcome(w, how) IN
         /\ d.id = turn[w].id /\ d.how = how /\ d.new = (turn[w].asked = None)
         /\ d.ticket = T(w) /\ d.handoff = (turn[w].reasons # {})
         /\ d.queue = turn[w].snap.queue
BY Turned DEF Outcome, T, WellFormed, Idle

LEMMA Ends ==
  ASSUME Typed, Rowed, Settled, Promised, [Next]_vars
  PROVE  \A d \in done' : d \in done \/ Ending(d)
<1>1. ASSUME NEW w \in Workers, NEW how, End(w, how), Ending(Outcome(w, how))
      PROVE  \A d \in done' : d \in done \/ Ending(d)
  BY <1>1 DEF End
<1>2. ASSUME NEW w \in Workers, Step(w), turn[w].pc \notin {"idle", "ticket"},
             T(w) \in settled
      PROVE  Ending(Outcome(w, "failed"))
  BY <1>2, Said DEF Ending
<1>3. ASSUME NEW w \in Workers, NEW t \in Tickets, Continue(w, t)
      PROVE  \A d \in done' : d \in done \/ Ending(d)
  <2>1. CASE Closed(t)
    <3>1. Exists(t)
      BY <1>3, Standing
    <3>2. turn[w].asked = t
      BY <1>3, <2>1 DEF Continue, Candidates
    <3>3. turn[w].ticket = None
      BY <1>3, Turned DEF Continue, At, WellFormed, Idle
    <3>4. t \in settled
      BY <2>1, <3>1 DEF Settled, Closed
    <3>5. Outcome(w, "failed").ticket = t /\ Outcome(w, "failed").how = "failed"
      BY <3>2, <3>3 DEF Outcome, T
    <3>6. Ending(Outcome(w, "failed"))
      BY <3>4, <3>5 DEF Ending
    <3> QED
      BY <1>1, <1>3, <2>1, <3>6 DEF Continue, Failed
  <2>2. CASE ~Closed(t)
    BY <1>3, <2>2 DEF Continue
  <2> QED
    BY <2>1, <2>2
<1>4. ASSUME NEW w \in Workers, Mark(w)
      PROVE  \A d \in done' : d \in done \/ Ending(d)
  <2>1. T(w) \in Tickets /\ Exists(T(w)) /\ turn[w].pc = "mark"
    BY <1>4, Standing DEF Mark, At, Fetched
  <2>2. CASE ~MayHandOff(T(w))
    <3>1. row[T(w)].status \in {"resolved", "closed"}
      <4>1. row[T(w)].status \in Status
        BY <2>1 DEF Typed, Exists, Rows
      <4> QED
        BY <2>2, <4>1 DEF MayHandOff, MayMove, AllowedNext, Status
    <3>2. T(w) \in settled
      BY <2>1, <3>1 DEF Settled
    <3>3. Ending(Outcome(w, "failed"))
      BY <1>2, <1>4, <2>1, <3>2 DEF Step
    <3> QED
      BY <1>1, <1>4, <2>2, <3>3 DEF Mark, Failed
  <2>3. CASE MayHandOff(T(w))
    BY <1>4, <2>3 DEF Mark
  <2> QED
    BY <2>2, <2>3
<1>5. ASSUME NEW w \in Workers, Record(w) \/ Push(w), T(w) \in Tickets, Exists(T(w)), Closed(T(w)),
             End(w, "failed")
      PROVE  \A d \in done' : d \in done \/ Ending(d)
  <2>1. T(w) \in settled
    BY <1>5 DEF Settled, Closed
  <2>2. turn[w].pc \notin {"idle", "ticket"}
    BY <1>5 DEF Record, Push, At
  <2>3. Ending(Outcome(w, "failed"))
    BY <1>2, <1>5, <2>1, <2>2 DEF Step
  <2> QED
    BY <1>1, <1>5, <2>3
<1>6. ASSUME NEW w \in Workers, Record(w)
      PROVE  \A d \in done' : d \in done \/ Ending(d)
  <2>1. T(w) \in Tickets /\ Exists(T(w)) /\ turn[w].pc = "record" /\ row'[T(w)] # None
    <3>1. T(w) \in Tickets /\ Exists(T(w)) /\ turn[w].pc = "record"
      BY <1>6, Standing DEF Record, At, Fetched
    <3> QED
      BY <3>1, RowsFollow DEF Exists
  <2>2. CASE Closed(T(w))
    BY <1>5, <1>6, <2>1, <2>2 DEF Record, Failed
  <2>3. CASE ~Closed(T(w)) /\ ToPush(w)
    BY <1>6, <2>3 DEF Record
  <2>4. CASE ~Closed(T(w)) /\ ~ToPush(w)
    <3> DEFINE d == Outcome(w, "answered")
    <3>1. /\ d.id = turn[w].id /\ d.how = "answered" /\ d.new = (turn[w].asked = None)
          /\ d.ticket = T(w) /\ d.handoff = (turn[w].reasons # {})
          /\ d.queue = turn[w].snap.queue
      BY <2>1, Said
    <3>2. ~(d.new /\ d.queue # "faq")
      BY <2>4, <3>1 DEF ToPush
    <3>3. /\ End(w, "answered")
          /\ told' = told \cup {<<"ticket_handoff_requested", T(w), turn[w].id>> :
                                  r \in turn[w].reasons}
      BY <1>6, <2>4 DEF Record
    <3>4. d.handoff => {<<"handoff_triggered", d.ticket, d.id>>,
                        <<"ticket_handoff_requested", d.ticket, d.id>>} \subseteq told'
      BY <2>1, <3>1, <3>3 DEF Promised
    <3> HIDE DEF d
    <3>5. Ending(d)
      BY <2>1, <3>1, <3>2, <3>4 DEF Ending
    <3> QED
      BY <1>1, <3>3, <3>5 DEF d
  <2> QED
    BY <2>2, <2>3, <2>4
<1>7. ASSUME NEW w \in Workers, Push(w)
      PROVE  \A d \in done' : d \in done \/ Ending(d)
  <2>1. T(w) \in Tickets /\ Exists(T(w)) /\ turn[w].pc = "push" /\ row'[T(w)] # None
        /\ row[T(w)] \in Rows
    <3>1. T(w) \in Tickets /\ Exists(T(w)) /\ turn[w].pc = "push"
      BY <1>7, Standing DEF Push, At, Fetched
    <3> QED
      BY <3>1, RowsFollow DEF Exists, Typed
  <2> DEFINE untouched == row[T(w)].handoff = "none"
  <2>2. CASE untouched /\ Closed(T(w))
    BY <1>5, <1>7, <2>1, <2>2 DEF Push, Failed
  <2>3. CASE ~(untouched /\ Closed(T(w)))
    <3> DEFINE d == Outcome(w, "answered")
    <3>1. /\ d.id = turn[w].id /\ d.how = "answered" /\ d.new = (turn[w].asked = None)
          /\ d.ticket = T(w) /\ d.handoff = (turn[w].reasons # {})
          /\ d.queue = turn[w].snap.queue
      BY <2>1, Said
    <3>2. /\ End(w, "answered") /\ told' = told \cup {<<"collab_push", T(w), turn[w].id>>}
          /\ row' = IF untouched THEN [row EXCEPT ![T(w)].handoff = "pending_claim"] ELSE row
      BY <1>7, <2>3 DEF Push
    <3>3. row'[T(w)].handoff # "none"
      BY <2>1, <3>2 DEF Typed, Rows
    <3>4. d.handoff => {<<"handoff_triggered", d.ticket, d.id>>,
                        <<"ticket_handoff_requested", d.ticket, d.id>>} \subseteq told'
      BY <2>1, <3>1, <3>2 DEF Promised
    <3> HIDE DEF d
    <3>5. Ending(d)
      BY <2>1, <3>1, <3>2, <3>3, <3>4 DEF Ending
    <3> QED
      BY <1>1, <3>2, <3>5 DEF d
  <2> QED
    BY <2>2, <2>3
<1>8. ASSUME NEW w \in Workers, Step(w)
      PROVE  \A d \in done' : d \in done \/ Ending(d)
  BY <1>3, <1>4, <1>6, <1>7, <1>8 DEF Step, Open, Read, Call, Summarize, Copy, Judge, Reply
<1>9. CASE done' = done
  BY <1>9
<1> QED
  BY <1>8, <1>9 DEF Next, vars, Start, Claim, Escalate, Settle, Agent, Tick

LEMMA EndsStep ==
  /\ Typed /\ Rowed /\ Settled /\ Promised /\ [Next]_vars
  /\ Served /\ PromiseKept /\ NewWorkPushed /\ OnlySettledFail
  => Served' /\ PromiseKept' /\ NewWorkPushed' /\ OnlySettledFail'
<1> SUFFICES ASSUME Typed, Rowed, Settled, Promised, [Next]_vars,
                    Served, PromiseKept, NewWorkPushed, OnlySettledFail
             PROVE  Served' /\ PromiseKept' /\ NewWorkPushed' /\ OnlySettledFail'
  OBVIOUS
<1>0. /\ told \subseteq told' /\ settled \subseteq settled'
      /\ \A d \in done' : d \in done \/ Ending(d)
  BY Notes, Ends
<1>1. ASSUME NEW t \in Tickets, row[t] # None
      PROVE  row'[t] # None /\ (row[t].handoff # "none" => row'[t].handoff # "none")
  BY <1>1, RowsFollow DEF Follows, Exists
<1>2. Served'
  <2> SUFFICES ASSUME NEW d \in done', d.how = "answered"
               PROVE  d.ticket \in Tickets /\ row'[d.ticket] # None
    BY DEF Served, Exists
  <2> QED
    BY <1>0, <1>1 DEF Served, Ending, Exists
<1>3. PromiseKept'
  BY <1>0 DEF PromiseKept, Ending
<1>4. NewWorkPushed'
  <2> SUFFICES ASSUME NEW d \in done', d.how = "answered", d.new, d.queue # "faq"
               PROVE  <<"collab_push", d.ticket, d.id>> \in told' /\ row'[d.ticket].handoff # "none"
    BY DEF NewWorkPushed
  <2>1. CASE d \in done
    <3>1. d.ticket \in Tickets /\ row[d.ticket] # None
      BY <2>1 DEF Served, Exists
    <3>2. <<"collab_push", d.ticket, d.id>> \in told /\ row[d.ticket].handoff # "none"
      BY <2>1 DEF NewWorkPushed
    <3> QED
      BY <1>0, <1>1, <3>1, <3>2
  <2> QED
    BY <1>0, <2>1 DEF Ending
<1>5. OnlySettledFail'
  BY <1>0 DEF OnlySettledFail, Ending
<1> QED
  BY <1>2, <1>3, <1>4, <1>5

-----------------------------------------------------------------------------
(* The theorems.                                                           *)

LEMMA InitTInv == Init => TInv
<1> SUFFICES ASSUME Init PROVE TInv
  OBVIOUS
<1>1. /\ \A t \in Tickets : row[t] = None /\ claim[t] = None /\ events[t] = NoEvents
      /\ \A s \in Sessions : bound[s] = None
      /\ \A w \in Workers : turn[w] = Idle
      /\ done = {} /\ Running = {}
  BY DEF Init, Running, Idle
<1>2. Typed
  BY <1>1, IdleTyped, Constants DEF Init, Typed, Exists, NoTrace, TraceType, NoEvents
<1>3. Rowed /\ Timelines
  BY <1>1 DEF Rowed, Timelines, Exists, NoEvents, Idle
<1>4. Unseen /\ Settled /\ Meetings /\ Traces /\ Promised
  BY <1>1 DEF Unseen, Settled, Meetings, Traces, Promised, Exists, Idle, At, Fetched, Judged
<1>5. Served /\ PromiseKept /\ NewWorkPushed /\ OnlySettledFail /\ TraceOwnAlone
  BY <1>1 DEF Served, PromiseKept, NewWorkPushed, OnlySettledFail, TraceOwnAlone, Exists
<1> QED
  BY <1>2, <1>3, <1>4, <1>5 DEF TInv

\* The invariant holds of every turn, however turns, commands and the clock
\* interleave.
THEOREM Invariance == Spec => []TInv
<1>1. TInv /\ [Next]_vars => TInv'
  BY TypedStep, RowedStep, TimelinesStep, UnseenStep, SettledStep, MeetingsStep, TracesStep,
     PromisedStep, EndsStep, TraceOwnStep DEF TInv
<1> QED
  BY InitTInv, <1>1, PTL DEF Spec

\* Rows, turns and timelines are of their kinds, and a row is assigned exactly
\* when its timeline has a first response.
THEOREM TypeCorrect == Spec => []TypeOK
<1>1. TInv => TypeOK
  <2> SUFFICES ASSUME TInv PROVE TypeOK
    OBVIOUS
  <2>1. \A t \in Tickets : Exists(t) =>
          /\ row[t] \in Rows /\ row[t].created <= now
          /\ row[t].assigned <=> events[t].first > 0
          /\ events[t].first <= events[t].count
    BY DEF TInv, Typed, Timelines, Exists
  <2>2. \A w \in Workers :
          /\ turn[w].id \in 0 .. turns
          /\ turn[w].provider \in 1 .. Len(Retries) + 1
          /\ turn[w].pc \in {"idle", "ticket", "read", "summary", "copy", "judge", "mark",
                             "reply", "record", "push"}
          /\ turn[w].pc \notin {"idle", "ticket"} => Exists(T(w))
    <3> SUFFICES ASSUME NEW w \in Workers
                 PROVE  /\ turn[w].id \in 0 .. turns
                        /\ turn[w].provider \in 1 .. Len(Retries) + 1
                        /\ turn[w].pc \in {"idle", "ticket", "read", "summary", "copy", "judge",
                                           "mark", "reply", "record", "push"}
                        /\ turn[w].pc \notin {"idle", "ticket"} => Exists(T(w))
      OBVIOUS
    <3>1. turn[w] \in Turning /\ turn[w].id <= turns /\ Typed /\ Rowed /\ turns \in Nat
      BY Turned, Constants DEF TInv, Typed
    <3>2. turn[w].id \in 0 .. turns
      BY <3>1, Constants DEF Turning
    <3> QED
      BY <3>1, <3>2, Standing DEF Turning, Labels, Fetched
  <2> QED
    BY <2>1, <2>2 DEF TInv, Typed, Rowed, TypeOK
<1> QED
  BY <1>1, Invariance, PTL

\* Whoever was told that a human takes over is in the hand-off queue's timeline
\* for that message.
THEOREM PromisesAreKept == Spec => []PromiseKept
BY Invariance, PTL DEF TInv

\* No new case is answered and left for nobody to see.
THEOREM NewWorkIsPushed == Spec => []NewWorkPushed
BY Invariance, PTL DEF TInv

\* A turn raises on tickets only that an agent has settled.
THEOREM FailuresHaveACause == Spec => []OnlySettledFail
BY Invariance, PTL DEF TInv

\* The trace kept with a ticket is that of the turn that kept it, or of one it
\* met.
THEOREM TracesAreOwn == Spec => []TraceOwnAlone
BY Invariance, PTL DEF TInv

\* A claim stops the clock of the first response, for every turn that began
\* after it.
THEOREM ClaimsCount == Spec => []ClaimCounts
<1>1. TInv => ClaimCounts
  <2> SUFFICES ASSUME TInv, NEW w \in Workers, "first_response_overdue" \in turn[w].breaches,
                      claim[T(w)] # None
               PROVE  turn[w].id \in claim[T(w)].turns \/ claim[T(w)].buried
    BY DEF ClaimCounts
  <2>1. turn[w].pc \in Fetched
    BY Turned DEF TInv, WellFormed, Idle, Judged, Fetched
  <2> QED
    BY <2>1 DEF TInv, Unseen
<1> QED
  BY <1>1, Invariance, PTL
-----------------------------------------------------------------------------
(* What the router takes a message for.                                    *)

\* How many keywords of the intent at a place of the list a message holds, and
\* what that counts for.
Hits(m, i) == m.hits[Intents[i]]
ScoreAt(m, i) == Score(Hits(m, i))

\* Of finitely many places the greatest score is taken at one of them, and
\* among the places that take it there is a first.
LEMMA SomeIntentLeads ==
  ASSUME NEW s \in [1 .. 6 -> Nat]
  PROVE  LET top  == Max({s[i] : i \in 1 .. 6})
             best == Min({i \in 1 .. 6 : s[i] = top})
         IN /\ best \in 1 .. 6 /\ s[best] = top
            /\ \A i \in 1 .. 6 : s[i] <= top /\ (s[i] = top => best <= i)
<1> DEFINE S == {s[i] : i \in 1 .. 6}
           top == Max(S)
           B == {i \in 1 .. 6 : s[i] = top}
<1>1. \E i \in 1 .. 6 : \A k \in 1 .. 6 : s[i] >= s[k]
  <2>1. \A i \in 1 .. 6 : s[i] \in Nat
    OBVIOUS
  <2>2. \E i \in {1, 2} : \A k \in {1, 2} : s[i] >= s[k]
    BY <2>1
  <2>3. \E i \in {1, 2, 3} : \A k \in {1, 2, 3} : s[i] >= s[k]
    BY <2>1, <2>2
  <2>4. \E i \in {1, 2, 3, 4} : \A k \in {1, 2, 3, 4} : s[i] >= s[k]
    BY <2>1, <2>3
  <2>5. \E i \in {1, 2, 3, 4, 5} : \A k \in {1, 2, 3, 4, 5} : s[i] >= s[k]
    BY <2>1, <2>4
  <2>6. \E i \in {1, 2, 3, 4, 5, 6} : \A k \in {1, 2, 3, 4, 5, 6} : s[i] >= s[k]
    BY <2>1, <2>5
  <2> QED BY <2>6
<1>2. \E x \in S : \A y \in S : x >= y
  BY <1>1
<1>3. top \in S /\ \A y \in S : top >= y
  BY <1>2 DEF Max
<1>4. PICK i \in 1 .. 6 : s[i] = top
  BY <1>3
<1>5. \A k \in 1 .. 6 : s[k] <= top
  <2> SUFFICES ASSUME NEW k \in 1 .. 6 PROVE s[k] <= top
    OBVIOUS
  <2>1. s[k] \in Nat /\ s[k] \in S /\ top \in Nat
    BY <1>4
  <2> QED BY <1>3, <2>1
<1> HIDE DEF top, S
<1>6. \E x \in B : \A y \in B : x <= y
  <2> DEFINE P(k) == s[k] = top
  <2>1. P(1) \/ P(2) \/ P(3) \/ P(4) \/ P(5) \/ P(6)
    BY <1>4
  <2> HIDE DEF P
  <2>2. \E k \in 1 .. 6 : P(k) /\ \A l \in 1 .. 6 : P(l) => k <= l
    BY <2>1
  <2> QED BY <2>2 DEF P
<1>7. Min(B) \in B /\ \A y \in B : Min(B) <= y
  BY <1>6 DEF Min
<1> QED BY <1>5, <1>7 DEF top, S

\* The router is at a loss only about a message without any keyword.  Otherwise it
\* takes an intent of which the message holds as many keywords as of any other,
\* or three at least, where more do not count; of several the one tried first.
THEOREM RouterTakesTheBest ==
  ASSUME NEW m \in Kinds
  PROVE  LET r == Route(m) IN
         /\ r.low <=> \A i \in Range(Intents) : m.hits[i] = 0
         /\ r.low => r.intent = "other"
         /\ ~r.low => \E b \in DOMAIN Intents :
              /\ r.intent = Intents[b]
              /\ \A i \in DOMAIN Intents :
                   /\ m.hits[Intents[i]] <= m.hits[r.intent] \/ m.hits[r.intent] >= 3
                   /\ i < b => m.hits[Intents[i]] < m.hits[r.intent]
<1>1. DOMAIN Intents = 1 .. 6 /\ \A i \in 1 .. 6 : Intents[i] \in Range(Intents)
  BY DEF Intents, Range
<1>2. \A x \in Range(Intents) : \E i \in 1 .. 6 : x = Intents[i]
  BY <1>1 DEF Range
<1>3. \A i \in 1 .. 6 : Hits(m, i) \in Nat
  BY <1>1, KindsAssumption DEF Hits
<1>4. \A h \in Nat : Score(h) = IF h = 0 THEN 0 ELSE IF h = 1 THEN 65 ELSE IF h = 2 THEN 85 ELSE 100
  <2> SUFFICES ASSUME NEW h \in Nat, h # 0
               PROVE  Min({100, 65 + 20 * (h - 1)})
                        = IF h = 1 THEN 65 ELSE IF h = 2 THEN 85 ELSE 100
    BY DEF Score
  <2>1. ASSUME NEW a \in Nat, NEW b \in Nat PROVE Min({a, b}) = IF a <= b THEN a ELSE b
    <3>1. \E x \in {a, b} : \A y \in {a, b} : x <= y
      OBVIOUS
    <3>2. Min({a, b}) \in {a, b} /\ \A y \in {a, b} : Min({a, b}) <= y
      BY <3>1 DEF Min
    <3> QED BY <3>2
  <2>2. 65 + 20 * (h - 1) \in Nat
    OBVIOUS
  <2>3. Min({100, 65 + 20 * (h - 1)}) = IF 100 <= 65 + 20 * (h - 1) THEN 100 ELSE 65 + 20 * (h - 1)
    BY <2>1, <2>2
  <2> QED BY <2>3
<1> DEFINE s == [i \in 1 .. 6 |-> ScoreAt(m, i)]
           top == Max({s[i] : i \in 1 .. 6})
           best == Min({i \in 1 .. 6 : s[i] = top})
<1>5. s \in [1 .. 6 -> Nat]
  BY <1>3, <1>4 DEF ScoreAt
<1>6. /\ best \in 1 .. 6 /\ s[best] = top
      /\ \A i \in 1 .. 6 : s[i] <= top /\ (s[i] = top => best <= i)
  BY <1>5, SomeIntentLeads
<1>7. Route(m) = [intent |-> IF top < Threshold THEN "other" ELSE Intents[best],
                  low |-> top < Threshold, human |-> m.human]
  BY <1>1 DEF Route, ScoreAt, Hits
<1>8. \A i \in 1 .. 6 : s[i] = Score(Hits(m, i))
  BY DEF ScoreAt
<1> HIDE DEF s, top, best
<1>9. \A i \in 1 .. 6 : Score(Hits(m, i)) <= Score(Hits(m, best))
  BY <1>6, <1>8
<1>10. \A i \in 1 .. 6 : i < best => Score(Hits(m, i)) # Score(Hits(m, best))
  BY <1>6, <1>8
<1>11. top < Threshold <=> Hits(m, best) = 0
  BY <1>3, <1>4, <1>6, <1>8 DEF Threshold
<1>12. Hits(m, best) = 0 <=> \A i \in 1 .. 6 : Hits(m, i) = 0
  BY <1>3, <1>4, <1>6, <1>9
<1>13. ASSUME NEW i \in 1 .. 6
       PROVE  /\ Hits(m, i) <= Hits(m, best) \/ Hits(m, best) >= 3
              /\ i < best => Hits(m, i) < Hits(m, best)
  <2>1. Hits(m, i) \in Nat /\ Hits(m, best) \in Nat
    BY <1>3, <1>6
  <2> QED BY <1>4, <1>6, <1>9, <1>10, <2>1
<1>14. /\ Route(m).low = (top < Threshold)
       /\ Route(m).intent = IF top < Threshold THEN "other" ELSE Intents[best]
  <2> DEFINE low == top < Threshold
             intent == IF top < Threshold THEN "other" ELSE Intents[best]
  <2>1. Route(m) = [intent |-> intent, low |-> low, human |-> m.human]
    BY <1>7
  <2> HIDE DEF low, intent
  <2>2. /\ [intent |-> intent, low |-> low, human |-> m.human].low = low
        /\ [intent |-> intent, low |-> low, human |-> m.human].intent = intent
    OBVIOUS
  <2>3. Route(m).low = low /\ Route(m).intent = intent
    BY <2>1, <2>2, Zenon
  <2> QED BY <2>3 DEF low, intent
<1>15. Route(m).low <=> \A x \in Range(Intents) : m.hits[x] = 0
  <2>1. Hits(m, best) = 0 <=> \A x \in Range(Intents) : m.hits[x] = 0
    BY <1>1, <1>2, <1>12 DEF Hits
  <2> QED BY <1>11, <1>14, <2>1, Zenon
<1>16. /\ Route(m).low => Route(m).intent = "other"
       /\ ~Route(m).low => Route(m).intent = Intents[best]
  BY <1>14, Zenon
<1> QED BY <1>1, <1>6, <1>13, <1>14, <1>15, <1>16 DEF Hits
=============================================================================
