-------------------------- MODULE TicketRequests ---------------------------
(***************************************************************************)
(* TicketAPI (core/ticket_api.py) as the HTTP threads of the Ops API and   *)
(* the WeCom bridge run it.  Every repository call opens its own SQLite    *)
(* connection and transaction, so a request is a sequence of separate      *)
(* steps: read the row and refuse a closed one, read it again and check    *)
(* the transition, UPDATE it (WHERE ticket_id only), append the event.     *)
(* Requests of different workers interleave between the steps, and a       *)
(* request can be cut off after any of them (process killed, "database is  *)
(* locked" raised).                                                        *)
(*                                                                         *)
(* A row keeps the columns the properties speak of.  `rev' counts the      *)
(* UPDATEs of the row and stands for updated_at, which every UPDATE sets:  *)
(* a write that only touches columns left out here still shows.            *)
(***************************************************************************)
EXTENDS TicketStates, Naturals, Sequences

CONSTANTS Tickets,      \* ticket ids
          Workers,      \* request threads
          Commands,     \* the commands clients issue, a subset of AllCommands
          MaxRequests,  \* bound on the requests started
          NoTicket      \* what an idle worker works on

VARIABLES row,          \* the tickets table
          log,          \* per ticket, its events that carry from/to statuses
          pc,           \* per worker, the step it is about to take
          on,           \* per worker, the ticket of its request
          call,         \* per worker, the TicketAPI call in progress
          rest,         \* per worker, the call its handler makes after it
          seen,         \* per worker, the status its last read returned
          started,      \* requests started so far
          overlapped,   \* history: tickets two requests were on at once
          cut           \* history: tickets a request was cut off on

vars == <<row, log, pc, on, call, rest, seen, started, overlapped, cut>>
worker == <<pc, on, call, rest, seen>>

-----------------------------------------------------------------------------
(* The calls a handler makes on one ticket, in order: the first, the       *)
(* second and, of an intake that hands over, the third.  "touch" is an     *)
(* update_ticket that writes no column kept here (message, queue,          *)
(* handoff_state, metadata); "return" is no further call.                  *)
FirstCall(c) ==
  CASE c = "create"                                   -> "create"
    [] c \in {"assign", "claim"}                      -> "assign"
    [] c = "escalate"                                 -> "escalate"
    [] c \in {"resolve", "collab_resolve"}            -> "resolve"
    [] c = "close"                                    -> "close"
    [] c = "resume"                                   -> "resume"
    [] c \in {"update", "reassign", "intake", "intake_handoff"} -> "touch"

SecondCall(c) ==
  CASE c \in {"claim", "collab_resolve"} -> "touch"
    [] c = "reassign"                    -> "assign"
    [] c = "intake"                      -> "draft"
    [] c = "intake_handoff"              -> "handoff"
    [] OTHER                             -> "return"

ThirdCall(k) == IF k = "handoff" THEN "await" ELSE "return"

AllCommands == {"create", "update", "assign", "claim", "reassign", "escalate",
                "resolve", "collab_resolve", "close", "resume", "intake",
                "intake_handoff"}

ASSUME CommandsAssumption == Commands \subseteq AllCommands
ASSUME NoTicketAssumption == NoTicket \notin Tickets
ASSUME MaxRequestsAssumption == MaxRequests \in Nat

\* Calls that go through _transition_status, and the status they ask for.
Target(k) ==
  CASE k \in {"assign", "resume"} -> "pending"
    [] k = "escalate"             -> "escalated"
    [] k = "resolve"              -> "resolved"
    [] k = "closing"              -> "closed"
    [] k = "handoff"              -> "handoff"

Transitions == {"assign", "escalate", "resolve", "closing", "handoff", "resume"}

\* update_ticket with "status": when the status read is the one asked for,
\* the other columns are written and the status is left out of the UPDATE.
StatusUpdates == {"handoff", "resume"}
WithoutStatus(k) == IF k = "handoff" THEN "flag" ELSE "unflag"

Plain == {"touch", "draft", "await"}

Calls == {"create", "close", "flag", "unflag"} \cup Transitions \cup Plain

\* Mutant of Written: resolve_ticket forgets needs_handoff.
WrittenKeepingNeeds(k, r) ==
  LET w == [r EXCEPT !.rev = r.rev + 1] IN
  CASE k \in {"create", "resume"} -> [w EXCEPT !.status = "open", !.needs = FALSE]
    [] k \in {"flag", "handoff"}  -> [w EXCEPT !.status = "handoff", !.needs = TRUE]
    [] k = "resolve" -> [w EXCEPT !.status = "resolved", !.resolvedAt = TRUE]
    [] k = "closing" -> [w EXCEPT !.status = "closed", !.closedAt = TRUE, !.needs = FALSE]
    [] OTHER         -> w

\* The UPDATE (or the INSERT) of each call, applied to the row as it is now.
Written(k, r) ==
  LET w == [r EXCEPT !.rev = r.rev + 1] IN
  CASE k = "create"   -> [w EXCEPT !.status = "open", !.stage = "intake"]
    [] k = "touch"    -> w
    [] k = "draft"    -> [w EXCEPT !.stage = "drafted"]
    [] k = "await"    -> [w EXCEPT !.stage = "awaiting_human"]
    [] k = "flag"     -> [w EXCEPT !.needs = TRUE]
    [] k = "unflag"   -> [w EXCEPT !.needs = FALSE]
    [] k = "assign"   -> [w EXCEPT !.status = "pending", !.stage = "classified"]
    [] k = "resume"   -> [w EXCEPT !.status = "pending", !.stage = "classified",
                                   !.needs = FALSE]
    [] k = "escalate" -> [w EXCEPT !.status = "escalated", !.stage = "awaiting_human"]
    [] k = "handoff"  -> [w EXCEPT !.status = "handoff", !.stage = "awaiting_human",
                                   !.needs = TRUE]
    [] k = "resolve"  -> [w EXCEPT !.status = "resolved", !.stage = "resolved",
                                   !.needs = FALSE, !.resolvedAt = TRUE]
    [] k = "closing"  -> [w EXCEPT !.status = "closed", !.stage = "closed",
                                   !.needs = FALSE, !.closedAt = TRUE]

NoRow == [status |-> Absent, stage |-> "intake", needs |-> FALSE,
          resolvedAt |-> FALSE, closedAt |-> FALSE, rev |-> 0]

InFlight(w) == pc[w] # "idle"

-----------------------------------------------------------------------------
Init ==
  /\ row = [t \in Tickets |-> NoRow]
  /\ log = [t \in Tickets |-> <<>>]
  /\ pc = [w \in Workers |-> "idle"]
  /\ on = [w \in Workers |-> NoTicket]
  /\ call = [w \in Workers |-> "touch"]
  /\ rest = [w \in Workers |-> "return"]
  /\ seen = [w \in Workers |-> Absent]
  /\ started = 0
  /\ overlapped = {}
  /\ cut = {}

\* A worker takes a request.  create_ticket draws a fresh id; every other
\* command names a ticket that exists (an unknown one raises KeyError and
\* changes nothing).
Start(w, c, t) ==
  /\ pc[w] = "idle"
  /\ started < MaxRequests
  /\ IF c = "create"
     THEN row[t].status = Absent /\ \A v \in Workers : on[v] # t
     ELSE row[t].status # Absent
  /\ pc' = [pc EXCEPT ![w] = IF c = "create" THEN "write" ELSE "read"]
  /\ on' = [on EXCEPT ![w] = t]
  /\ call' = [call EXCEPT ![w] = FirstCall(c)]
  /\ rest' = [rest EXCEPT ![w] = SecondCall(c)]
  /\ started' = started + 1
  /\ overlapped' = IF \E v \in Workers : on[v] = t THEN overlapped \cup {t}
                                                   ELSE overlapped
  /\ UNCHANGED <<row, log, seen, cut>>

\* The worker answers its client, with a result or with an error.
Finish(w) ==
  /\ pc' = [pc EXCEPT ![w] = "idle"]
  /\ on' = [on EXCEPT ![w] = NoTicket]
  /\ call' = [call EXCEPT ![w] = "touch"]
  /\ rest' = [rest EXCEPT ![w] = "return"]
  /\ seen' = [seen EXCEPT ![w] = Absent]

\* require_ticket and _ensure_not_closed at the head of a call.
Refuse(w) ==
  /\ pc[w] = "read"
  /\ row[on[w]].status = "closed"
  /\ Finish(w)
  /\ UNCHANGED <<row, log, started, overlapped, cut>>

\* Mutant of Reading: _ensure_not_closed left out.
ReadingAnything(w) ==
  /\ pc[w] = "read"
  /\ seen' = [seen EXCEPT ![w] = row[on[w]].status]
  /\ UNCHANGED <<row, log, on, started, overlapped, cut>>

Reading(w) ==
  /\ pc[w] = "read"
  /\ row[on[w]].status # "closed"
  /\ seen' = [seen EXCEPT ![w] = row[on[w]].status]
  /\ UNCHANGED <<row, log, on, started, overlapped, cut>>

\* update_ticket without a new status: straight to the UPDATE.
ReadPlain(w) ==
  /\ Reading(w)
  /\ \/ /\ call[w] \in Plain
        /\ UNCHANGED call
     \/ /\ call[w] \in StatusUpdates
        /\ row[on[w]].status = Target(call[w])
        /\ call' = [call EXCEPT ![w] = WithoutStatus(call[w])]
  /\ pc' = [pc EXCEPT ![w] = "write"]
  /\ UNCHANGED rest

\* A call that changes the status goes on to _transition_status.
ReadTransition(w) ==
  /\ Reading(w)
  /\ call[w] \in Transitions
  /\ call[w] \in StatusUpdates => row[on[w]].status # Target(call[w])
  /\ pc' = [pc EXCEPT ![w] = "check"]
  /\ UNCHANGED <<call, rest>>

\* Mutant of ReadClose: close_ticket never resolves the ticket first.
ReadCloseDirect(w) ==
  /\ Reading(w)
  /\ call[w] = "close"
  /\ call' = [call EXCEPT ![w] = "closing"]
  /\ pc' = [pc EXCEPT ![w] = "check"]
  /\ UNCHANGED rest

\* close_ticket resolves the ticket first unless it read it as resolved.
ReadClose(w) ==
  /\ Reading(w)
  /\ call[w] = "close"
  /\ IF row[on[w]].status = "resolved"
     THEN /\ call' = [call EXCEPT ![w] = "closing"]
          /\ pc' = [pc EXCEPT ![w] = "check"]
          /\ UNCHANGED rest
     ELSE /\ call' = [call EXCEPT ![w] = "resolve"]
          /\ rest' = [rest EXCEPT ![w] = "closing"]
          /\ UNCHANGED pc

\* Mutants of Check: the transition is not asserted, or it is asserted on the
\* row the handler read earlier.
CheckTrusting(w) ==
  /\ pc[w] = "check"
  /\ seen' = [seen EXCEPT ![w] = row[on[w]].status]
  /\ pc' = [pc EXCEPT ![w] = "write"]
  /\ UNCHANGED <<row, log, on, call, rest, started, overlapped, cut>>

CheckOnFirstRead(w) ==
  /\ pc[w] = "check"
  /\ MayMove(seen[w], Target(call[w]))
  /\ pc' = [pc EXCEPT ![w] = "write"]
  /\ UNCHANGED <<row, log, on, call, rest, seen, started, overlapped, cut>>

\* _transition_status reads the row again and asserts the transition.
Check(w) ==
  /\ pc[w] = "check"
  /\ MayMove(row[on[w]].status, Target(call[w]))
  /\ seen' = [seen EXCEPT ![w] = row[on[w]].status]
  /\ pc' = [pc EXCEPT ![w] = "write"]
  /\ UNCHANGED <<row, log, on, call, rest, started, overlapped, cut>>

Forbid(w) ==
  /\ pc[w] = "check"
  /\ ~MayMove(row[on[w]].status, Target(call[w]))
  /\ Finish(w)
  /\ UNCHANGED <<row, log, started, overlapped, cut>>

Write(w) ==
  /\ pc[w] = "write"
  /\ row' = [row EXCEPT ![on[w]] = Written(call[w], @)]
  /\ pc' = [pc EXCEPT ![w] = "log"]
  /\ UNCHANGED <<log, on, call, rest, seen, started, overlapped, cut>>

\* The event of the call.  Those of plain updates carry no status.
CarriesStatus(k) == k = "create" \/ k \in Transitions
Entry(w) == IF call[w] = "create" THEN [from |-> Absent, to |-> "open"]
                                  ELSE [from |-> seen[w], to |-> Target(call[w])]

\* The call returns; its handler makes the next one.  Inside close_ticket the
\* call after resolve_ticket is _transition_status, which does not look at
\* _ensure_not_closed.
Log(w) ==
  /\ pc[w] = "log"
  /\ log' = IF CarriesStatus(call[w])
            THEN [log EXCEPT ![on[w]] = Append(@, Entry(w))]
            ELSE log
  /\ IF rest[w] = "return"
     THEN Finish(w)
     ELSE /\ call' = [call EXCEPT ![w] = rest[w]]
          /\ rest' = [rest EXCEPT ![w] = ThirdCall(rest[w])]
          /\ pc' = [pc EXCEPT ![w] = IF rest[w] = "closing" THEN "check" ELSE "read"]
          /\ UNCHANGED <<on, seen>>
  /\ UNCHANGED <<row, started, overlapped, cut>>

\* The request is cut off between two of its transactions.
Crash(w) ==
  /\ InFlight(w)
  /\ cut' = cut \cup {on[w]}
  /\ Finish(w)
  /\ UNCHANGED <<row, log, started, overlapped>>

Step(w) == \/ Refuse(w) \/ ReadPlain(w) \/ ReadTransition(w) \/ ReadClose(w)
           \/ Check(w) \/ Forbid(w) \/ Write(w) \/ Log(w)

Next == \E w \in Workers :
          \/ \E c \in Commands, t \in Tickets : Start(w, c, t)
          \/ Step(w)
          \/ Crash(w)

Spec == Init /\ [][Next]_vars

-----------------------------------------------------------------------------
(* Properties.                                                             *)

TypeOK ==
  /\ row \in [Tickets -> [status : Status \cup {Absent}, stage : Stage, needs : BOOLEAN,
                          resolvedAt : BOOLEAN, closedAt : BOOLEAN, rev : Nat]]
  /\ log \in [Tickets -> Seq([from : Status \cup {Absent}, to : Status])]
  /\ pc \in [Workers -> {"idle", "read", "check", "write", "log"}]
  /\ on \in [Workers -> Tickets \cup {NoTicket}]
  /\ call \in [Workers -> Calls]
  /\ rest \in [Workers -> {"return", "closing", "touch", "assign", "draft", "await", "handoff"}]
  /\ seen \in [Workers -> Status \cup {Absent}]
  /\ started \in 0 .. MaxRequests
  /\ overlapped \in SUBSET Tickets
  /\ cut \in SUBSET Tickets

\* A closed row carries its closing time, and nothing reaches `resolved' or
\* `closed' without a resolution time: close_ticket may skip resolve_ticket on
\* the word of one read and write on the word of another, with requests of
\* other workers and crashes in between.
FinishedWasResolved ==
  \A t \in Tickets :
    /\ row[t].status \in {"resolved", "closed"} => row[t].resolvedAt
    /\ row[t].status = "closed" => row[t].closedAt

\* _ensure_not_closed as a guarantee: once closed, a ticket is never written
\* again, if no two requests on it were ever in progress together.  The check
\* is made on a read that is two transactions away from the UPDATE.
ClosedFrozen ==
  [][\A t \in Tickets : row[t].status = "closed" /\ t \notin overlapped
                           => row'[t] = row[t]]_vars

\* A ticket that is resolved or closed no longer asks for a human: mark_handoff
\* sets needs_handoff from any status but these, and resolve and close clear it.
FinishedNeedsNobody ==
  \A t \in Tickets :
    row[t].status \in {"resolved", "closed"} /\ t \notin overlapped => ~row[t].needs

\* The event list is a faithful account of the status: it begins with the
\* creation, each entry starts from the status the previous one reached, and
\* the last one reached the status in the row, unless its event is about to be
\* appended.  Two overlapping requests, or one cut off between UPDATE and
\* INSERT, leave a gap in the account.
AuditChain ==
  \A t \in Tickets \ (overlapped \cup cut) :
    LET pending == \E w \in Workers : on[w] = t /\ pc[w] = "log"
        last == IF log[t] = <<>> THEN Absent ELSE log[t][Len(log[t])].to
    IN /\ \A i \in 1 .. Len(log[t]) :
             log[t][i].from = IF i = 1 THEN Absent ELSE log[t][i - 1].to
       /\ ~pending => row[t].status = last

\* The requests carry out the lifecycle TicketAPI promises.
Lifecycle == INSTANCE TicketLifecycle
               WITH status <- [t \in Tickets |-> row[t].status],
                    contended <- overlapped
LifecycleImplemented == Lifecycle!Spec

-----------------------------------------------------------------------------
(* The inductive invariant behind the properties above.                    *)

\* A worker has a ticket exactly while it has a request.
Placed == \A w \in Workers : pc[w] = "idle" <=> on[w] = NoTicket

\* Which call a worker can be making at each step, and on what row.
WorkerShape ==
  \A w \in Workers :
    /\ pc[w] = "read" => call[w] \notin {"create", "closing", "flag", "unflag"}
    /\ pc[w] = "check" => call[w] \in Transitions
    /\ pc[w] \in {"write", "log"} => call[w] # "close"
    /\ rest[w] = "closing" => call[w] = "resolve"
    /\ InFlight(w) =>
         (row[on[w]].status = Absent <=> call[w] = "create" /\ pc[w] = "write")

\* Two workers on one ticket have been noticed, and neither is inserting it.
MeetingsNoticed ==
  \A v, w \in Workers :
    v # w /\ InFlight(w) /\ on[v] = on[w] =>
      on[w] \in overlapped /\ row[on[w]].status # Absent

\* close_ticket reaches its second half only on a resolved_at that is set.
ClosingWasResolved ==
  \A w \in Workers :
    InFlight(w) /\ (call[w] = "closing" \/ (rest[w] = "closing" /\ pc[w] = "log"))
      => row[on[w]].resolvedAt

\* What a worker has read still holds when it writes, if it is alone.
ReadsHold ==
  \A w \in Workers :
    InFlight(w) /\ on[w] \notin overlapped =>
      /\ pc[w] \in {"check", "write"} => row[on[w]].status # "closed"
      /\ pc[w] = "write" /\ call[w] \in Transitions
           => /\ MayMove(row[on[w]].status, Target(call[w]))
              /\ seen[w] = row[on[w]].status
      /\ pc[w] = "write" /\ call[w] = "flag" => row[on[w]].status = "handoff"
      /\ pc[w] = "log" /\ rest[w] = "closing" => row[on[w]].status = "resolved"

IInv == /\ TypeOK /\ Placed /\ WorkerShape /\ MeetingsNoticed /\ ClosingWasResolved
        /\ ReadsHold /\ FinishedWasResolved /\ FinishedNeedsNobody

=============================================================================
