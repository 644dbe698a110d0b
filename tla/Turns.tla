------------------------------- MODULE Turns -------------------------------
(***************************************************************************)
(* A turn: what SupportIntakeWorkflow.run does with one message, from the  *)
(* ticket it opens or continues to the reply (core/workflow_engine.py,     *)
(* workflows/support_intake_workflow.py).  The bridge runs every message   *)
(* in a thread of its own over one WorkflowEngine, hence one SummaryEngine *)
(* with one _last_generation_metadata, and a turn is slow: it calls the    *)
(* language model twice, with retries and fallback providers, while agents *)
(* claim, escalate, resolve and close the same tickets and the SLA's clock *)
(* goes on.                                                                *)
(*                                                                         *)
(* A call of TicketAPI is one step; TicketRequests takes the calls apart.  *)
(* Which ticket a session is bound to when messages are repeated or late   *)
(* is in Inbound, and the trace log in Gateway.                            *)
(***************************************************************************)
EXTENDS Policy, TicketStates

CONSTANTS Sessions, Tickets, Workers,
          Kinds,       \* the messages: [hits, human], see Policy
          ChannelOf,   \* the channel of each session
          Retries,     \* per provider of the language model, its retry_count
          EventLimit,  \* the limit of list_events (200)
          TickLength,  \* minutes of a tick of the clock
          MaxTime,     \* bound on the clock, in minutes
          MaxTurns,    \* bound on the messages
          MaxActs      \* bound on the agents' commands

ASSUME KindsAssumption == \A m \in Kinds : /\ m.hits \in [Range(Intents) -> Nat]
                                          /\ m.human \in BOOLEAN
ASSUME RetriesAssumption == Retries \in Seq(Nat)
ASSUME TurnsBoundsAssumption == /\ EventLimit \in Nat \ {0}
                                /\ TickLength \in Nat \ {0}
                                /\ {MaxTime, MaxTurns, MaxActs} \subseteq Nat

TraceType == [of : 0 .. MaxTurns, by : 0 .. MaxTurns, degraded : BOOLEAN]

\* A row of the tickets table, and what is remembered of a claim.
Rows == [session : Sessions, channel : {ChannelOf[s] : s \in Sessions},
         intent : {Route(m).intent : m \in Kinds}, status : Status,
         priority : {"P1", "P2", "P3", "P4"},
         queue : {"faq", "support", "human-handoff"}, created : 0 .. MaxTime,
         handoff : {"none", "pending_claim", "claimed", "requested", "waiting_customer",
                    "completed"},
         assigned : BOOLEAN, trace : TraceType]
Claims == [turns : SUBSET (1 .. MaxTurns), buried : BOOLEAN]

ASSUME AbsenceAssumption == None \notin Tickets \cup Rows \cup Claims

VARIABLES row,      \* the tickets table
          bound,    \* the ticket each session is bound to
          events,   \* per ticket, how many events it has and which is the first response
          last,     \* SummaryEngine._last_generation_metadata
          now,      \* minutes
          turn,     \* per worker, the turn it is in
          turns,    \* turns started
          acts,     \* agents' commands so far
          told,     \* history: <<event, ticket, turn>> of the events a reader waits for
          done,     \* history: the turns that are over
          met,      \* history: pairs of turns that ran at the same time
          settled,  \* history: tickets an agent resolved or closed
          claim     \* history: per ticket, the circumstances of its first claim

vars == <<row, bound, events, last, now, turn, turns, acts, told, done, met, settled, claim>>
-----------------------------------------------------------------------------
NoTrace == [of |-> 0, by |-> 0, degraded |-> TRUE]
NoEvents == [count |-> 0, first |-> 0]

Idle == [pc |-> "idle", id |-> 0, session |-> None, says |-> None, asked |-> None,
         ticket |-> None, snap |-> None, seen |-> FALSE, provider |-> 1,
         attempt |-> 0, trace |-> NoTrace, breaches |-> {}, reasons |-> {}]

Consulting == {"faq", "greeting"}
Exists(t) == row[t] # None
Closed(t) == row[t].status = "closed"
Running == {w \in Workers : turn[w].pc # "idle"}
At(w, label) == turn[w].pc = label
T(w) == turn[w].ticket

Wrote(t, n) == events' = [events EXCEPT ![t].count = @ + n]

\* Mutant of Seen: the first response is looked for among the last five events.
SeenRecently(t) == events[t].first > 0 /\ events[t].first + 5 > events[t].count

\* Whether the first response is among the oldest EventLimit events, which is
\* what list_events returns.
Seen(t) == events[t].first \in 1 .. EventLimit

Goto(w, label) == turn' = [turn EXCEPT ![w].pc = label]

Outcome(w, how) == [id |-> turn[w].id, how |-> how, new |-> turn[w].asked = None,
                    ticket |-> IF T(w) = None THEN turn[w].asked ELSE T(w),
                    handoff |-> turn[w].reasons # {},
                    queue |-> IF turn[w].snap = None THEN None ELSE turn[w].snap.queue]

\* The turn is over, by an answer or an exception.
End(w, how) == /\ turn' = [turn EXCEPT ![w] = Idle]
               /\ done' = done \cup {Outcome(w, how)}

Failed(w) == End(w, "failed") /\ UNCHANGED <<row, bound, events, told>>
-----------------------------------------------------------------------------
Init == /\ row = [t \in Tickets |-> None]
        /\ bound = [s \in Sessions |-> None]
        /\ events = [t \in Tickets |-> NoEvents]
        /\ last = NoTrace
        /\ now = 0
        /\ turn = [w \in Workers |-> Idle]
        /\ turns = 0
        /\ acts = 0
        /\ told = {}
        /\ done = {}
        /\ met = {}
        /\ settled = {}
        /\ claim = [t \in Tickets |-> None]

\* A message arrives with the ticket its session is bound to.  Nothing stores an
\* active or a recent ticket with a session, so resolve_existing_ticket_id has no
\* other candidate, whatever ticket the text names and however it asks.
Start(w, s, m) ==
  /\ At(w, "idle")
  /\ turns < MaxTurns
  /\ turns' = turns + 1
  /\ turn' = [turn EXCEPT ![w] = [Idle EXCEPT !.pc = "ticket", !.id = turns', !.session = s,
                                              !.says = Route(m), !.asked = bound[s]]]
  /\ met' = met \cup {{turns', turn[v].id} : v \in Running}
  /\ UNCHANGED <<row, bound, events, last, now, acts, told, done, settled, claim>>

Consults(w) == turn[w].says.intent \in Consulting /\ ~turn[w].says.low

\* _find_recent_consulting_ticket, of which the latest updated is taken.
Candidates(w) == {t \in Tickets : /\ Exists(t)
                                  /\ row[t].session = turn[w].session
                                  /\ row[t].intent \in Consulting
                                  /\ row[t].queue = "faq"
                                  /\ ~Closed(t)}

Fresh(w) ==
  LET intent == turn[w].says.intent IN
  [session |-> turn[w].session, channel |-> ChannelOf[turn[w].session], intent |-> intent,
   status |-> "open", created |-> now, handoff |-> "none", assigned |-> FALSE,
   trace |-> NoTrace,
   queue |-> IF Consults(w) THEN "faq" ELSE "support",
   priority |-> IF Consults(w) THEN "P4"
                ELSE IF intent \in {"repair", "billing"} THEN "P2" ELSE "P3"]

\* create_ticket, which binds the session.
Open(w, t) ==
  /\ At(w, "ticket") /\ turn[w].asked = None
  /\ ~Consults(w) \/ Candidates(w) = {}
  /\ ~Exists(t)
  /\ row' = [row EXCEPT ![t] = Fresh(w)]
  /\ bound' = [bound EXCEPT ![turn[w].session] = t]
  /\ Wrote(t, 1)
  /\ turn' = [turn EXCEPT ![w].pc = "read", ![w].ticket = t,
                          ![w].snap = Fresh(w)]
  /\ UNCHANGED <<last, now, turns, acts, told, done, met, settled, claim>>

\* update_ticket and bind_session_ticket on the ticket the message goes to.
Continue(w, t) ==
  /\ At(w, "ticket")
  /\ \/ t = turn[w].asked
     \/ turn[w].asked = None /\ Consults(w) /\ t \in Candidates(w)
  /\ LET updated == [row[t] EXCEPT !.intent = turn[w].says.intent] IN
     IF Closed(t) THEN Failed(w)
     ELSE /\ row' = [row EXCEPT ![t] = updated]
          /\ bound' = [bound EXCEPT ![turn[w].session] = t]
          /\ Wrote(t, 1)
          /\ turn' = [turn EXCEPT ![w].pc = "read", ![w].ticket = t, ![w].snap = updated]
          /\ UNCHANGED <<told, done>>
  /\ UNCHANGED <<last, now, turns, acts, met, settled, claim>>

\* list_events: the timeline the rest of the turn uses.
Read(w) ==
  /\ At(w, "read")
  /\ turn' = [turn EXCEPT ![w].pc = "summary", ![w].seen = Seen(T(w))]
  /\ UNCHANGED <<row, bound, events, last, now, turns, acts, told, done, met, settled, claim>>
-----------------------------------------------------------------------------
\* Mutant of NextCall: after the last provider it is the first one's turn again.
NextCallRound(w) == IF turn[w].attempt < Retries[turn[w].provider]
                    THEN <<turn[w].provider, turn[w].attempt + 1>>
                    ELSE <<(turn[w].provider % Len(Retries)) + 1, 0>>

\* After a failed call: the provider's next attempt, or the next provider
\* (OpenAICompatibleProvider.complete, ProviderFallbackRouter.complete).
NextCall(w) == IF turn[w].attempt < Retries[turn[w].provider]
               THEN <<turn[w].provider, turn[w].attempt + 1>>
               ELSE <<turn[w].provider + 1, 0>>

\* What generate_with_trace says of a call that was answered, or of none:
\* LLMGenerationError, or _fallback_metadata where the model is disabled.
Answered(w) == [of |-> turn[w].id, by |-> 0, degraded |-> turn[w].provider > 1]
Exhausted(w) == [of |-> turn[w].id, by |-> 0, degraded |-> TRUE]

\* Mutant of Remember: a summary that failed leaves the metadata of the one before.
RememberSuccess(trace) == last' = IF trace.degraded THEN last ELSE trace
Remember(trace) == last' = trace

\* A call of the model fails or times out.
Call(w) ==
  /\ At(w, "summary") \/ At(w, "reply")
  /\ turn[w].provider \in 1 .. Len(Retries)
  /\ turn' = [turn EXCEPT ![w].provider = NextCall(w)[1], ![w].attempt = NextCall(w)[2]]
  /\ UNCHANGED <<row, bound, events, last, now, turns, acts, told, done, met, settled, claim>>

\* _render returns: with the model's text, or with the fallback's.
Summarize(w) ==
  /\ At(w, "summary")
  /\ turn' = [turn EXCEPT ![w].pc = "copy", ![w].provider = 1, ![w].attempt = 0]
  /\ IF turn[w].provider \in 1 .. Len(Retries) THEN Remember(Answered(w))
                                               ELSE Remember(Exhausted(w))
  /\ UNCHANGED <<row, bound, events, now, turns, acts, told, done, met, settled, claim>>

\* llm_trace is a copy of what last_generation_metadata() returns.
Copy(w) ==
  /\ At(w, "copy")
  /\ turn' = [turn EXCEPT ![w].pc = "judge", ![w].trace = last]
  /\ UNCHANGED <<row, bound, events, last, now, turns, acts, told, done, met, settled, claim>>
-----------------------------------------------------------------------------
\* The SLA and the handoff rules, on the ticket and the timeline read before.
Judge(w) ==
  LET late == Breaches(turn[w].snap, turn[w].seen, now)
      why  == Reasons(turn[w].snap, turn[w].says, late)
  IN /\ At(w, "judge")
     /\ turn' = [turn EXCEPT ![w].breaches = late, ![w].reasons = why,
                             ![w].pc = IF why = {} THEN "reply" ELSE "mark"]
     /\ UNCHANGED <<row, bound, events, last, now, turns, acts, told, done, met, settled, claim>>

\* Mutant of MayHandOff: only from another status.
MayHandOffOnce(t) == "handoff" \in AllowedNext(row[t].status)
MayHandOff(t) == MayMove(row[t].status, "handoff")

\* Mutant of Mark: where the transition is forbidden the turn goes on.
MarkOrNot(w) ==
  /\ At(w, "mark")
  /\ LET marked == [row[T(w)] EXCEPT !.status = "handoff", !.queue = "human-handoff"] IN
     IF MayHandOff(T(w))
     THEN /\ row' = [row EXCEPT ![T(w)] = marked]
          /\ Wrote(T(w), 2)
          /\ told' = told \cup {<<"handoff_triggered", T(w), turn[w].id>>}
          /\ turn' = [turn EXCEPT ![w].pc = "reply", ![w].snap = marked]
     ELSE Goto(w, "reply") /\ UNCHANGED <<row, events, told>>
  /\ UNCHANGED <<bound, last, now, turns, acts, done, met, settled, claim>>

\* mark_handoff: a transition, which raises where the table forbids it.
Mark(w) ==
  /\ At(w, "mark")
  /\ LET marked == [row[T(w)] EXCEPT !.status = "handoff", !.queue = "human-handoff"] IN
     IF ~MayHandOff(T(w)) THEN Failed(w)
     ELSE /\ row' = [row EXCEPT ![T(w)] = marked]
          /\ Wrote(T(w), 2)
          /\ told' = told \cup {<<"handoff_triggered", T(w), turn[w].id>>}
          /\ turn' = [turn EXCEPT ![w].pc = "reply", ![w].snap = marked]
          /\ UNCHANGED <<bound, done>>
  /\ UNCHANGED <<last, now, turns, acts, met, settled, claim>>

\* ReplyGenerator.generate calls the model as the summary does, and returns its
\* text, or the fallback's where no provider answered or the answer cannot be
\* parsed.
Reply(w) ==
  /\ At(w, "reply")
  /\ turn' = [turn EXCEPT ![w].pc = "record", ![w].provider = 1, ![w].attempt = 0]
  /\ UNCHANGED <<row, bound, events, last, now, turns, acts, told, done, met, settled, claim>>

\* Mutant of ToPush: only what is in the support queue.
ToPushFromSupport(w) == turn[w].asked = None /\ turn[w].snap.queue = "support"

\* _should_push_to_collab
ToPush(w) == turn[w].asked = None /\ turn[w].snap.queue # "faq"

\* _record_intake_trace: the trace and the dues are stored and the events
\* appended, eight with a handoff and six without.
Record(w) ==
  /\ At(w, "record")
  /\ IF Closed(T(w)) THEN Failed(w)
     ELSE /\ row' = [row EXCEPT ![T(w)].trace = [turn[w].trace EXCEPT !.by = turn[w].id]]
          /\ Wrote(T(w), IF turn[w].reasons = {} THEN 7 ELSE 9)
          /\ told' = told \cup {<<"ticket_handoff_requested", T(w), turn[w].id>> :
                                  r \in turn[w].reasons}
          /\ IF ToPush(w) THEN Goto(w, "push") /\ UNCHANGED done ELSE End(w, "answered")
          /\ UNCHANGED bound
  /\ UNCHANGED <<last, now, turns, acts, met, settled, claim>>

\* push_new_ticket: a ticket nobody has touched waits to be claimed.
Push(w) ==
  /\ At(w, "push")
  /\ LET untouched == row[T(w)].handoff = "none" IN
     IF untouched /\ Closed(T(w)) THEN Failed(w)
     ELSE /\ row' = IF untouched THEN [row EXCEPT ![T(w)].handoff = "pending_claim"] ELSE row
          /\ Wrote(T(w), IF untouched THEN 2 ELSE 1)
          /\ told' = told \cup {<<"collab_push", T(w), turn[w].id>>}
          /\ End(w, "answered")
          /\ UNCHANGED bound
  /\ UNCHANGED <<last, now, turns, acts, met, settled, claim>>
-----------------------------------------------------------------------------
\* An agent's command on a ticket that is not closed.
Agent(t) == /\ acts < MaxActs
            /\ Exists(t) /\ ~Closed(t)
            /\ acts' = acts + 1
            /\ UNCHANGED <<bound, last, now, turn, turns, told, done, met>>

\* assign_ticket's event is a first response only where there was no assignee.
FirstResponse(t) == IF row[t].assigned THEN events[t].first ELSE events[t].count + 1

\* Command claim: assign_ticket, update_ticket and an event.
Claim(t) ==
  /\ Agent(t)
  /\ row' = [row EXCEPT ![t].status = "pending", ![t].assigned = TRUE, ![t].handoff = "claimed"]
  /\ events' = [events EXCEPT ![t].count = @ + 3,
                              ![t].first = FirstResponse(t)]
  /\ claim' = [claim EXCEPT ![t] =
                 IF @ # None THEN @
                 ELSE [turns |-> {turn[w].id : w \in Running},
                       buried |-> events[t].count >= EventLimit]]
  /\ UNCHANGED settled

\* escalate_ticket, once approved.
Escalate(t) ==
  /\ Agent(t)
  /\ MayMove(row[t].status, "escalated")
  /\ row' = [row EXCEPT ![t].status = "escalated", ![t].priority = "P1",
                        ![t].handoff = "requested"]
  /\ Wrote(t, 2)
  /\ UNCHANGED <<settled, claim>>

\* Commands resolve and close: resolve_ticket, or close_ticket, which resolves first.
Settle(t) ==
  /\ Agent(t)
  /\ \/ /\ row' = [row EXCEPT ![t].status = "resolved", ![t].handoff = "waiting_customer"]
        /\ Wrote(t, 3)
     \/ /\ row' = [row EXCEPT ![t].status = "closed", ![t].handoff = "completed"]
        /\ Wrote(t, IF row[t].status = "resolved" THEN 2 ELSE 3)
  /\ settled' = settled \cup {t}
  /\ UNCHANGED claim

Tick == /\ now + TickLength <= MaxTime
        /\ now' = now + TickLength
        /\ UNCHANGED <<row, bound, events, last, turn, turns, acts, told, done, met, settled,
                       claim>>

Step(w) == \/ \E t \in Tickets : Open(w, t) \/ Continue(w, t)
           \/ Read(w) \/ Call(w) \/ Summarize(w) \/ Copy(w)
           \/ Judge(w) \/ Mark(w) \/ Reply(w) \/ Record(w) \/ Push(w)

Next == \/ \E w \in Workers : \/ \E s \in Sessions, m \in Kinds : Start(w, s, m)
                              \/ Step(w)
        \/ \E t \in Tickets : Claim(t) \/ Escalate(t) \/ Settle(t)
        \/ Tick

\* A thread that has a message to serve goes on with it.
Spec == Init /\ [][Next]_vars /\ \A w \in Workers : WF_vars(Step(w))
-----------------------------------------------------------------------------
TypeOK ==
  /\ \A t \in Tickets : Exists(t) =>
       /\ row[t] \in Rows
       /\ row[t].created <= now
       /\ row[t].assigned <=> events[t].first > 0
       /\ events[t].first <= events[t].count
  /\ bound \in [Sessions -> Tickets \cup {None}]
  /\ \A s \in Sessions : bound[s] # None => Exists(bound[s])
  /\ last \in TraceType
  /\ now \in 0 .. MaxTime /\ turns \in 0 .. MaxTurns /\ acts \in 0 .. MaxActs
  /\ \A w \in Workers :
       /\ turn[w].id \in 0 .. turns
       /\ turn[w].provider \in 1 .. Len(Retries) + 1
       /\ turn[w].pc \in {"idle", "ticket", "read", "summary", "copy", "judge", "mark",
                          "reply", "record", "push"}
       /\ turn[w].pc \notin {"idle", "ticket"} => Exists(T(w))

\* The language model's trace kept with a ticket is about the summary of the
\* turn that stored it, or of one that ran at the same time: a turn that runs
\* alone never stores what an earlier one left (_last_generation_metadata is
\* set on every path of _render).
TraceOwnAlone == \A t \in Tickets : Exists(t) =>
                   LET trace == row[t].trace IN
                   trace.of = trace.by \/ {trace.of, trace.by} \in met

\* A customer who is told that a human takes over is right: the ticket was put
\* in the hand-off queue for this very message, and its timeline says why.
PromiseKept ==
  \A d \in done : d.how = "answered" /\ d.handoff =>
    {<<"handoff_triggered", d.ticket, d.id>>, <<"ticket_handoff_requested", d.ticket, d.id>>}
      \subseteq told

\* A new case does not wait unseen: when the message that had no ticket before
\* is answered and is not mere consulting, the collaborators were told of the
\* ticket and it waits to be claimed, or someone has dealt with it since.
NewWorkPushed ==
  \A d \in done : d.how = "answered" /\ d.new /\ d.queue # "faq" =>
    <<"collab_push", d.ticket, d.id>> \in told /\ row[d.ticket].handoff # "none"

\* A turn raises only on a ticket that an agent has resolved or closed.
OnlySettledFail == \A d \in done : d.how = "failed" => d.ticket \in settled

\* A ticket someone has claimed is not called late in its first response, by
\* any turn that began after the claim, unless the timeline had EventLimit
\* events before it.
ClaimCounts ==
  \A w \in Workers :
    "first_response_overdue" \in turn[w].breaches /\ claim[T(w)] # None =>
      turn[w].id \in claim[T(w)].turns \/ claim[T(w)].buried

\* Every turn ends, whatever the language model does.
TurnEnds == \A w \in Workers : turn[w].pc # "idle" ~> turn[w].pc = "idle"
=============================================================================
