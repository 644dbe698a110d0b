----------------------------- MODULE Approvals ------------------------------
(***************************************************************************)
(* The human approval of risky actions: core/hitl as the Ops API threads   *)
(* and the collaboration commands drive it.  The approvals of a ticket are *)
(* a list inside the metadata column of its row; every change reads the    *)
(* row, rebuilds the list and writes it back with update_ticket.  There is *)
(* no timer: an approval times out when somebody looks.  Looking one up by *)
(* id walks over all tickets, most recently updated first, and applies the *)
(* timeouts of each on the way.                                            *)
(*                                                                         *)
(* A step here is one TicketAPI or repository call; what happens inside a  *)
(* TicketAPI call is the subject of TicketRequests.  Requests of several   *)
(* workers interleave between calls and may be cut off there.              *)
(***************************************************************************)
EXTENDS TicketStates, Naturals, Sequences, FiniteSets

CONSTANTS Tickets,      \* the tickets, all created before the run
          Workers,      \* request threads
          Approvals,    \* approval ids
          Commands,     \* commands clients issue, a subset of AllCommands
          Types,        \* actions asked for, a subset of ActionTypes
          Ttls,         \* values of timeout_minutes
          MaxTime,      \* bound on the clock
          MaxRequests,  \* bound on the requests started
          None          \* no approval, no ticket, nothing read

\* An approval names an escalation, a sensitive reassign to a person, or one
\* to a queue only (which changes no status).
ActionTypes == {"escalate", "reassign", "requeue"}
AllCommands == {"ask", "approve", "reject", "list", "show", "assign", "state",
                "resolve", "close", "collab_close"}
Handoff == {"none", "claimed", "requested", "pending_approval", "completed"}
State == {"pending_approval", "approved", "rejected", "timeout"}

ASSUME CommandsAssumption == Commands \subseteq AllCommands
ASSUME TypesAssumption == Types \subseteq ActionTypes
ASSUME NatAssumption == Ttls \subseteq Nat /\ MaxTime \in Nat /\ MaxRequests \in Nat
ASSUME TicketsAssumption == IsFiniteSet(Tickets)
ASSUME NoneAssumption == None \notin Tickets \cup Approvals

VARIABLES row,        \* per ticket: status, handoff_state, pending_actions
          recent,     \* the tickets, most recently updated first
          now,        \* the clock
          job,        \* per worker, the request it carries out
          timeline,   \* decision events: set of <<approval, kind>>
          issued,     \* approval ids handed out
          executed,   \* history: approvals whose action was carried out
          stacked,    \* history: tickets asked about while already suspended
          raced,      \* history: tickets written from a copy that another request made old
          cut,        \* history: approvals whose events were cut off
          started     \* requests started so far

vars == <<row, recent, now, job, timeline, issued, executed, stacked, raced, cut,
          started>>

\* A worker without a request.  `view' is what the scan read of every ticket,
\* `todo' the tickets it has still to walk over, `found' the row its last
\* look-up returned, `result' the row the executed action returned, `events'
\* the events the request is about to append.
Idle == [pc |-> "idle", cmd |-> None, id |-> None, on |-> None, type |-> None,
         due |-> 0, resume |-> "none", view |-> None, todo |-> <<>>, found |-> None,
         result |-> None, events |-> <<>>, after |-> "idle"]

-----------------------------------------------------------------------------
(* Lists of approvals.                                                     *)

Open(as) == {i \in DOMAIN as : as[i].state = "pending_approval"}
\* Mutant of Due: a deadline that passes one unit early.
DueEarly(as) == {i \in Open(as) : as[i].due <= now + 1}

Due(as) == {i \in Open(as) : as[i].due <= now}
Has(as, a) == \E i \in DOMAIN as : as[i].id = a
At(as, a) == as[CHOOSE i \in DOMAIN as : as[i].id = a]

\* replace_action, with the state the decision gives.
Decided(as, a, s) ==
  [i \in DOMAIN as |-> IF as[i].id = a THEN [as[i] EXCEPT !.state = s] ELSE as[i]]

TimedOut(as) ==
  [i \in DOMAIN as |-> IF i \in Due(as) THEN [as[i] EXCEPT !.state = "timeout"] ELSE as[i]]

LatestDue(as) == as[CHOOSE i \in Due(as) : \A j \in Due(as) : j <= i]

\* The listing with a ticket moved to its head.
Headed(t) ==
  LET place == CHOOSE i \in DOMAIN recent : recent[i] = t
  IN [i \in DOMAIN recent |-> CASE i = 1 -> t
                               [] i # 1 /\ i <= place -> recent[i - 1]
                               [] OTHER -> recent[i]]

\* The UPDATE sets updated_at, which puts the ticket first in every listing.
Update(t, r) == row' = [row EXCEPT ![t] = r] /\ recent' = Headed(t)

-----------------------------------------------------------------------------
Init ==
  /\ row = [t \in Tickets |-> [status |-> "open", handoff |-> "none", actions |-> <<>>]]
  /\ recent \in {s \in [1 .. Cardinality(Tickets) -> Tickets] :
                   \A t \in Tickets : \E i \in DOMAIN s : \A j \in DOMAIN s : s[j] = t <=> j = i}
  /\ now = 0
  /\ job = [w \in Workers |-> Idle]
  /\ timeline = {}
  /\ issued = {}
  /\ executed = {}
  /\ stacked = {}
  /\ raced = {}
  /\ cut = {}
  /\ started = 0

Tick ==
  /\ now < MaxTime
  /\ now' = now + 1
  /\ UNCHANGED <<row, recent, job, timeline, issued, executed, stacked, raced, cut, started>>

history == <<now, issued, executed, stacked, raced, cut, started>>

Go(w, j) == job' = [job EXCEPT ![w] = j]
Finish(w) == Go(w, Idle)

\* Where the handler of each command begins.
FirstStep(c) ==
  CASE c = "ask"                         -> "context"
    [] c \in {"approve", "reject", "list"} -> "scan"
    [] c = "collab_close"                -> "trail"
    [] OTHER                             -> c

\* A request arrives.  An approval id comes from an earlier answer.
Start(w) ==
  /\ job[w].pc = "idle"
  /\ started < MaxRequests
  /\ started' = started + 1
  /\ \E c \in Commands :
       IF c \in {"approve", "reject"}
       THEN \E a \in issued :
              Go(w, [Idle EXCEPT !.pc = FirstStep(c), !.cmd = c, !.id = a])
       ELSE IF c = "ask"
       THEN \E t \in Tickets, ty \in Types, d \in Ttls :
              Go(w, [Idle EXCEPT !.pc = FirstStep(c), !.cmd = c, !.on = t,
                                 !.type = ty, !.due = d])
       ELSE \E t \in IF c = "list" THEN {None} ELSE Tickets :
              Go(w, [Idle EXCEPT !.pc = FirstStep(c), !.cmd = c, !.on = t])
  /\ UNCHANGED <<row, recent, now, timeline, issued, executed, stacked, raced, cut>>

-----------------------------------------------------------------------------
(* The calls that write the row.                                           *)

Writing == {"append", "execute", "mark", "assign", "state", "resolve", "close", "complete"}

\* The status the next call asks for, of a ticket whose status is s.
Goal(j, s) ==
  CASE j.pc = "execute" /\ At(j.found.actions, j.id).type = "escalate" -> "escalated"
    [] j.pc = "execute" /\ At(j.found.actions, j.id).type = "reassign" -> "pending"
    [] j.pc = "assign"               -> "pending"
    [] j.pc = "resolve"              -> "resolved"
    [] j.pc \in {"close", "complete"} -> "closed"
    [] OTHER                         -> s

\* The copy that a request writes back to a ticket is not what is stored there.
Races(t, outdated) == raced' = IF outdated THEN raced \cup {t} ELSE raced

\* TicketAPI carries the call out; otherwise it raises.
Accepts(j, t) == /\ row[t].status # "closed"
                 /\ MayMove(row[t].status, Goal(j, row[t].status))

-----------------------------------------------------------------------------
(* Asking: the context of the approval, the row it is added to and the     *)
(* write are three separate calls.                                         *)

\* build_approval_context notes the handoff_state to return to.
AskContext(w) ==
  /\ job[w].pc = "context"
  /\ Go(w, [job[w] EXCEPT !.pc = "build", !.resume = row[job[w].on].handoff])
  /\ UNCHANGED <<row, recent, timeline, history>>

\* request_approval_if_needed reads the ticket and sets the deadline.
AskRead(w) ==
  /\ job[w].pc = "build"
  /\ Go(w, [job[w] EXCEPT !.pc = "append", !.found = row[job[w].on], !.due = now + @])
  /\ UNCHANGED <<row, recent, timeline, history>>

AskWrite(w) ==
  LET j == job[w] IN
  /\ j.pc = "append"
  /\ Accepts(j, j.on)
  /\ \E a \in Approvals \ issued :
       LET new == [id |-> a, type |-> j.type, state |-> "pending_approval",
                   resume |-> j.resume, due |-> j.due]
       IN /\ issued' = issued \cup {a}
          /\ Update(j.on, [row[j.on] EXCEPT !.handoff = "pending_approval",
                                            !.actions = Append(j.found.actions, new)])
          /\ Go(w, [j EXCEPT !.pc = "note", !.id = a, !.events = <<<<a, "requested">>>>])
  /\ stacked' = IF \/ row[j.on].handoff = "pending_approval"
                   \/ Open(row[j.on].actions) # {}
                THEN stacked \cup {j.on} ELSE stacked
  /\ Races(j.on, j.found.actions # row[j.on].actions \/ j.resume # row[j.on].handoff)
  /\ UNCHANGED <<timeline, now, executed, cut, started>>

-----------------------------------------------------------------------------
(* Looking up.                                                             *)

\* list_all_tickets, or require_ticket of the one ticket shown.
Scan(w) ==
  /\ job[w].pc \in {"scan", "show"}
  /\ Go(w, [job[w] EXCEPT !.pc = "sweep", !.view = row,
                          !.todo = IF job[w].pc = "show" THEN <<job[w].on>> ELSE recent])
  /\ UNCHANGED <<row, recent, timeline, history>>

Swept(w) == job[w].view[Head(job[w].todo)].actions
Sweeping(w) == /\ job[w].pc = "sweep" /\ job[w].todo # <<>>
               /\ Due(Swept(w)) # {}

\* _apply_timeouts: the timed-out list replaces what is stored now, and only
\* the latest of the approvals that timed out gets an event.
Sweep(w) ==
  LET j == job[w]
      t == Head(j.todo)
      next == TimedOut(Swept(w))
  IN /\ Sweeping(w)
     /\ Accepts(j, t)
     /\ Update(t, [row[t] EXCEPT
                     !.handoff = IF Open(next) = {} THEN LatestDue(Swept(w)).resume
                                                    ELSE j.view[t].handoff,
                     !.actions = next])
     /\ Go(w, [j EXCEPT !.pc = "note", !.after = "look",
                        !.events = <<<<LatestDue(Swept(w)).id, "timeout">>>>])
     /\ Races(t, Swept(w) # row[t].actions)
     /\ UNCHANGED <<timeline, now, issued, executed, stacked, cut, started>>

\* Mutants of AfterFound: the state of the approval is not looked at again, or
\* the action is left to somebody else to execute.
AfterFoundTrusting(j, act) ==
  IF j.cmd = "approve" /\ j.result = None THEN "execute" ELSE "mark"

AfterFoundSkipping(j, act) == IF act.state = "pending_approval" THEN "mark" ELSE "idle"

\* What get_pending_action's caller does with the approval it found.  The
\* route that approves does not look at its state before it executes it.
AfterFound(j, act) ==
  IF j.cmd = "approve" /\ j.result = None THEN "execute"
  ELSE IF act.state = "pending_approval" THEN "mark" ELSE "idle"

\* The ticket is read again and, if the approval is on it, the walk ends.
Look(w) ==
  LET j == job[w]
      t == Head(j.todo)
  IN /\ \/ j.pc = "look"
        \/ j.pc = "sweep" /\ j.todo # <<>> /\ ~Sweeping(w)
     /\ IF j.id # None /\ Has(row[t].actions, j.id)
        THEN IF AfterFound(j, At(row[t].actions, j.id)) = "idle"
             THEN Finish(w)
             ELSE Go(w, [j EXCEPT !.pc = AfterFound(j, At(row[t].actions, j.id)),
                                  !.on = t, !.found = row[t], !.view = None, !.todo = <<>>])
        ELSE Go(w, [j EXCEPT !.pc = "sweep", !.todo = Tail(@)])
     /\ UNCHANGED <<row, recent, timeline, history>>

\* The end of a listing; for a decision, KeyError.
Exhausted(w) ==
  /\ job[w].pc = "sweep" /\ job[w].todo = <<>>
  /\ Finish(w)
  /\ UNCHANGED <<row, recent, timeline, history>>

-----------------------------------------------------------------------------
(* Deciding.                                                               *)

\* _execute_action_without_approval, then the second look-up.  What a reassign
\* reads back afterwards is taken to be what it wrote.
Execute(w) ==
  LET j == job[w]
      r == row[j.on]
      next == [r EXCEPT !.status = Goal(j, @),
                        !.handoff = IF Goal(j, "open") = "escalated" THEN "requested" ELSE @]
  IN /\ j.pc = "execute"
     /\ Accepts(j, j.on)
     /\ Update(j.on, next)
     /\ executed' = executed \cup {j.id}
     /\ Go(w, [j EXCEPT !.pc = "scan", !.result = next, !.found = None])
     /\ UNCHANGED <<timeline, now, issued, stacked, raced, cut, started>>

\* Mutant of Mark: what is still open is counted before the decision is made.
MarkHeld(w) ==
  LET j == job[w]
      verdict == IF j.cmd = "approve" THEN "approved" ELSE "rejected"
      base == IF j.cmd = "approve" THEN j.result ELSE j.found
  IN /\ j.pc = "mark"
     /\ Accepts(j, j.on)
     /\ Update(j.on, [row[j.on] EXCEPT
                        !.handoff = IF Open(j.found.actions) = {}
                                    THEN At(j.found.actions, j.id).resume ELSE base.handoff,
                        !.actions = Decided(j.found.actions, j.id, verdict)])
     /\ Go(w, [j EXCEPT !.pc = "note", !.found = None, !.result = None,
                        !.events = <<<<j.id, verdict>>>>])
     /\ Races(j.on, j.found.actions # row[j.on].actions)
     /\ UNCHANGED <<timeline, now, issued, executed, stacked, cut, started>>

\* The write of mark_approved and mark_rejected: the list as looked up, with
\* this approval decided.
Mark(w) ==
  LET j == job[w]
      verdict == IF j.cmd = "approve" THEN "approved" ELSE "rejected"
      next == Decided(j.found.actions, j.id, verdict)
      base == IF j.cmd = "approve" THEN j.result ELSE j.found
  IN /\ j.pc = "mark"
     /\ Accepts(j, j.on)
     /\ Update(j.on, [row[j.on] EXCEPT
                        !.handoff = IF Open(next) = {} THEN At(next, j.id).resume
                                                       ELSE base.handoff,
                        !.actions = next])
     /\ Go(w, [j EXCEPT !.pc = "note", !.found = None, !.result = None,
                        !.events = IF j.cmd = "approve"
                                   THEN <<<<j.id, "approved">>, <<j.id, "resumed">>>>
                                   ELSE <<<<j.id, "rejected">>>>])
     /\ Races(j.on, j.found.actions # row[j.on].actions)
     /\ UNCHANGED <<timeline, now, issued, executed, stacked, cut, started>>

\* Mutant of Note: of the events of a request only the last is appended.
NoteLast(w) ==
  LET j == job[w] IN
  /\ j.pc = "note"
  /\ timeline' = timeline \cup {j.events[Len(j.events)]}
  /\ IF j.after = "idle"
     THEN Finish(w)
     ELSE Go(w, [j EXCEPT !.pc = j.after, !.events = <<>>, !.after = "idle"])
  /\ UNCHANGED <<row, recent, history>>

\* add_event, once per event.
Note(w) ==
  LET j == job[w] IN
  /\ j.pc = "note"
  /\ timeline' = timeline \cup {Head(j.events)}
  /\ IF Len(j.events) > 1
     THEN Go(w, [j EXCEPT !.events = Tail(@)])
     ELSE IF j.after = "idle"
     THEN Finish(w)
     ELSE Go(w, [j EXCEPT !.pc = j.after, !.events = <<>>, !.after = "idle"])
  /\ UNCHANGED <<row, recent, history>>

-----------------------------------------------------------------------------
(* The other requests that write the columns the approvals rely on.        *)

\* Claiming or reassigning without approval, a collaboration /state, /resolve,
\* and the Ops API's close.
Simple(w) ==
  LET j == job[w] IN
  /\ j.pc \in {"assign", "state", "resolve", "close"}
  /\ Accepts(j, j.on)
  /\ Update(j.on, [row[j.on] EXCEPT !.status = Goal(j, @),
                                    !.handoff = IF j.pc = "state" THEN "claimed" ELSE @])
  /\ Finish(w)
  /\ UNCHANGED <<timeline, history>>

\* A collaboration /close writes back the metadata it read before.
CollabCloseRead(w) ==
  /\ job[w].pc = "trail"
  /\ Go(w, [job[w] EXCEPT !.pc = "complete", !.found = row[job[w].on]])
  /\ UNCHANGED <<row, recent, timeline, history>>

CollabClose(w) ==
  LET j == job[w] IN
  /\ j.pc = "complete"
  /\ Accepts(j, j.on)
  /\ Update(j.on, [status |-> "closed", handoff |-> "completed", actions |-> j.found.actions])
  /\ Races(j.on, j.found.actions # row[j.on].actions)
  /\ Finish(w)
  /\ UNCHANGED <<timeline, now, issued, executed, stacked, cut, started>>

-----------------------------------------------------------------------------
\* The request ends with an error; whatever it has written stays written.
Refuse(w) ==
  /\ \/ job[w].pc \in Writing /\ ~Accepts(job[w], job[w].on)
     \/ Sweeping(w) /\ ~Accepts(job[w], Head(job[w].todo))
  /\ Finish(w)
  /\ UNCHANGED <<row, recent, timeline, history>>

\* The request is cut off between two calls.
Crash(w) ==
  /\ job[w].pc # "idle"
  /\ Finish(w)
  /\ cut' = cut \cup {job[w].events[i][1] : i \in DOMAIN job[w].events}
  /\ UNCHANGED <<row, recent, timeline, now, issued, executed, stacked, raced, started>>

Step(w) == \/ AskContext(w) \/ AskRead(w) \/ AskWrite(w)
           \/ Scan(w) \/ Sweep(w) \/ Look(w) \/ Exhausted(w)
           \/ Execute(w) \/ Mark(w) \/ Note(w)
           \/ Simple(w) \/ CollabCloseRead(w) \/ CollabClose(w)
           \/ Refuse(w)

Next == Tick \/ \E w \in Workers : Start(w) \/ Step(w) \/ Crash(w)

Spec == Init /\ [][Next]_vars

-----------------------------------------------------------------------------
(* Properties.                                                             *)

Action == [id : Approvals, type : ActionTypes, state : State, resume : Handoff, due : Nat]
Row == [status : Status, handoff : Handoff, actions : Seq(Action)]
Kind == {"requested", "approved", "rejected", "timeout", "resumed"}
Pc == {"idle", "context", "build", "scan", "show", "sweep", "look", "note", "trail"}
        \cup Writing

Job == [pc : Pc, cmd : AllCommands \cup {None}, id : Approvals \cup {None},
        on : Tickets \cup {None}, type : ActionTypes \cup {None}, due : Nat,
        resume : Handoff, view : [Tickets -> Row] \cup {None}, todo : Seq(Tickets),
        found : Row \cup {None}, result : Row \cup {None},
        events : Seq(Approvals \X Kind), after : {"idle", "look"}]

TypeOK ==
  /\ row \in [Tickets -> Row]
  /\ recent \in Seq(Tickets)
  /\ now \in 0 .. MaxTime
  /\ job \in [Workers -> Job]
  /\ timeline \in SUBSET (Approvals \X Kind)
  /\ issued \in SUBSET Approvals
  /\ executed \in SUBSET Approvals
  /\ {stacked, raced} \subseteq SUBSET Tickets
  /\ cut \in SUBSET Approvals
  /\ started \in 0 .. MaxRequests

\* The verdict stored for an approval, wherever it is stored.
Verdict(a) == IF \E t \in Tickets : Has(row[t].actions, a)
              THEN At(row[CHOOSE t \in Tickets : Has(row[t].actions, a)].actions, a).state
              ELSE "none"

\* Every approval goes its way once.  The list is rewritten whole by requests,
\* decisions, timeouts and closings, each from a copy read some calls earlier,
\* and none may bring an old verdict back, drop an approval or decide it twice.
\* So it is with one request at a time, cut off anywhere.
Lifecycle == INSTANCE ApprovalLifecycle
               WITH verdict <- [a \in Approvals |-> Verdict(a)]
LifecycleImplemented == Lifecycle!Spec

\* However many requests overlap, on a ticket that was never written from an
\* outdated copy no approval is dropped or moved, none is decided twice, and none
\* approved before its action was carried out.
DecidedOnce ==
  [][\A t \in Tickets \ raced' : \A i \in DOMAIN row[t].actions :
       LET old == row[t].actions[i]
           new == row'[t].actions[i] IN
       /\ i \in DOMAIN row'[t].actions /\ new.id = old.id
       /\ \/ new.state = old.state
          \/ old.state = "pending_approval" /\ (new.state = "approved" => new.id \in executed)]_vars

\* No approval is stored as approved before its action has been carried out,
\* nor announced as approved or resumed, whatever requests it races with.
ApprovedWasExecuted ==
  \A a \in Approvals :
    Verdict(a) = "approved" \/ <<a, "approved">> \in timeline \/ <<a, "resumed">> \in timeline
      => a \in executed

\* A timeout is stored or announced only for an approval whose deadline has
\* passed.
TimeoutWasDue ==
  \A t \in Tickets : \A i \in DOMAIN row[t].actions :
    LET act == row[t].actions[i] IN
    act.state = "timeout" \/ <<act.id, "timeout">> \in timeline => act.due <= now

\* A ticket that never had two approvals at once is suspended no longer than
\* its approval is open, whatever requests overlap: each decision and each
\* timeout returns it to the handoff_state it had, unless it was written from an
\* outdated copy.
SuspendedWhileOpen ==
  \A t \in Tickets \ (stacked \cup raced) :
    row[t].handoff = "pending_approval" => Open(row[t].actions) # {}

\* Each decision of a person is in the timeline, unless the request that took
\* it was cut off before the event, or has not come to it yet; no other request
\* stores it for it, and none makes it lost.
DecisionAudited ==
  \A a \in Approvals \ cut :
    /\ Verdict(a) \in {"approved", "rejected"}
    /\ \A w \in Workers : job[w].id # a
    => <<a, Verdict(a)>> \in timeline

-----------------------------------------------------------------------------
(* A statement of the documents that the code does not keep.               *)

\* EVAL.md:98: before its approval no high-risk action is executed, and a
\* rejected or timed-out one rolls back.  So what is executed is open.
ExecutedWhileOpen ==
  [][\A a \in executed' \ executed : Verdict(a) = "pending_approval"]_vars

=============================================================================
