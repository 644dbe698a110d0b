------------------------------ MODULE Inbound ------------------------------
(***************************************************************************)
(* A customer's message on its way from the WeCom bridge to a ticket:      *)
(* process_wecom_message (scripts/wecom_bridge_server.py) calls the        *)
(* gateway, whose InboundHandler looks the session up and asks the replay  *)
(* guard, and then the intake workflow, which picks or opens the ticket    *)
(* and binds the session to it.                                            *)
(*                                                                         *)
(* The bridge is a ThreadingHTTPServer and SessionMapper opens a           *)
(* connection per statement, so every SELECT and every upsert of the       *)
(* session's row is a step of its own.  An upsert writes the whole row     *)
(* from what its worker read before.  The channel may deliver a message    *)
(* any number of times and in any order; a worker may stop at any step.    *)
(* The rest of the intake (hand-off, stage, events) is in TicketRequests.  *)
(***************************************************************************)
EXTENDS Naturals, Sequences, FiniteSets

CONSTANTS Sessions, Messages, Tickets, Workers,
          SessionOf,      \* the session each message is sent in
          Numbered,       \* the messages that carry a MsgId
          Consulting,     \* the messages whose intent is faq or greeting
          Confident,      \* the messages whose intent is not of low confidence
          HistoryLimit,   \* history_limit of record_idempotency_key (50)
          MaxTime,        \* bound on the clock, in seconds
          MaxDeliveries,  \* bound on the deliveries
          None

ASSUME SessionsAssumption == SessionOf \in [Messages -> Sessions]
ASSUME KindsAssumption == /\ Numbered \subseteq Messages
                          /\ Consulting \subseteq Messages
                          /\ Confident \subseteq Messages
ASSUME BoundsAssumption == /\ HistoryLimit \in Nat \ {0}
                           /\ MaxTime \in Nat
                           /\ MaxDeliveries \in Nat
ASSUME NoneAssumption == None \notin Tickets \cup Messages \cup Sessions

VARIABLES binding,     \* session_bindings: the row of each session
          tickets,     \* the tickets table
          now,         \* seconds
          job,         \* per worker, the delivery it is working on
          delivered,   \* deliveries so far
          accepted,    \* history: how often each message was accepted
          served,      \* history: messages answered from a ticket
          ignored,     \* history: messages dropped as duplicates
          dropped,     \* history: per session, deliveries dropped as duplicates
          opened,      \* history: the tickets opened for each message
          forgotten,   \* history: keys that fell off the end of a history
          overlapped,  \* history: sessions with two deliveries at once
          cut          \* history: sessions a worker stopped on

vars == <<binding, tickets, now, job, delivered, accepted, served, ignored, dropped,
          opened, forgotten, overlapped, cut>>
history == <<accepted, served, ignored, dropped, opened, forgotten>>

-----------------------------------------------------------------------------
\* A row of session_bindings.  `stamp' is the metadata every delivery merges
\* in (msg_id, create_time, ...), `trace', `intent' and `mode' its trace_id,
\* last_intent and session_mode; an unused session has no stamp.
NoBinding == [ticket |-> None, stamp |-> None, trace |-> None, intent |-> None,
              mode |-> None, keys |-> <<>>, replays |-> 0]

NoRow == [session |-> None, faq |-> FALSE, consulting |-> FALSE, closed |-> FALSE]

Idle == [pc |-> "idle", msg |-> None, key |-> None, time |-> 0, snap |-> NoBinding,
         duplicate |-> FALSE, keys |-> <<>>, replays |-> 0, ticket |-> None,
         how |-> None]

\* Mutant of Key: the session and the second, whether or not there is a MsgId.
KeyWithoutId(m, second) == <<SessionOf[m], second>>

\* WeComAdapter.idempotency_key over the payload of the bridge, which sets
\* CreateTime to its own clock: MsgId if there is one, else session and second.
Key(m, second) == IF m \in Numbered THEN <<m>> ELSE <<SessionOf[m], second>>

Session(w) == SessionOf[job[w].msg]

\* A message process_intake keeps in a consulting ticket, is_consulting.
Consults(w) == job[w].msg \in Consulting \cap Confident
Stamp(w) == <<job[w].key, job[w].time>>

\* The metadata of the delivery merged into a row.  The trace id is the
\* message's own, or made of the second, as the key is.
Stamped(w, row) == [row EXCEPT !.stamp = Stamp(w), !.trace = job[w].key]

Elements(s) == {s[i] : i \in 1 .. Len(s)}

\* Mutant of Trimmed: one key too many.
TrimmedLate(s) == IF Len(s) <= HistoryLimit + 1 THEN s ELSE Tail(s)

\* processed_message_ids[-history_limit:] of a list that grew by one.
Trimmed(s) == IF Len(s) <= HistoryLimit THEN s ELSE Tail(s)

\* _upsert: the whole row, whatever it has become since it was read.
Upsert(w, row) == binding' = [binding EXCEPT ![Session(w)] = row]

Goto(w, label) == job' = [job EXCEPT ![w].pc = label]

\* SessionMapper.get
Fetch(w, label) == job' = [job EXCEPT ![w].pc = label, ![w].snap = binding[Session(w)]]

At(w, label) == job[w].pc = label

Finish(w) == job' = [job EXCEPT ![w] = Idle]

-----------------------------------------------------------------------------
Init == /\ binding = [s \in Sessions |-> NoBinding]
        /\ tickets = [t \in Tickets |-> NoRow]
        /\ now = 0
        /\ job = [w \in Workers |-> Idle]
        /\ delivered = 0
        /\ accepted = [m \in Messages |-> 0]
        /\ served = {}
        /\ ignored = {}
        /\ dropped = [s \in Sessions |-> 0]
        /\ opened = [m \in Messages |-> {}]
        /\ forgotten = {}
        /\ overlapped = {}
        /\ cut = {}

\* The channel delivers a message, for the first time or again, in the second
\* of the last delivery or later.
Deliver(w, m) ==
  /\ At(w, "idle")
  /\ delivered < MaxDeliveries
  /\ delivered' = delivered + 1
  /\ now' \in now .. MaxTime
  /\ job' = [job EXCEPT ![w] = [Idle EXCEPT !.pc = "open", !.msg = m,
                                            !.key = Key(m, now'), !.time = now']]
  /\ overlapped' = IF \E v \in Workers : ~At(v, "idle") /\ Session(v) = SessionOf[m]
                   THEN overlapped \cup {SessionOf[m]} ELSE overlapped
  /\ UNCHANGED <<binding, tickets, history, cut>>

\* InboundHandler.handle: get_or_create with the metadata of the delivery,
\* which is written only if it changes the row.
OpenSession(w) ==
  /\ At(w, "open")
  /\ Fetch(w, IF Stamped(w, binding[Session(w)]) = binding[Session(w)] THEN "guard"
              ELSE "refresh")
  /\ UNCHANGED <<binding, tickets, now, delivered, history, overlapped, cut>>

\* Mutant of Refresh: the upsert leaves ticket_id to its default.
RefreshUnbound(w) ==
  /\ At(w, "refresh")
  /\ Upsert(w, [Stamped(w, job[w].snap) EXCEPT !.ticket = None])
  /\ Goto(w, "guard")
  /\ UNCHANGED <<tickets, now, delivered, history, overlapped, cut>>

Refresh(w) ==
  /\ At(w, "refresh")
  /\ Upsert(w, Stamped(w, job[w].snap))
  /\ Goto(w, "guard")
  /\ UNCHANGED <<tickets, now, delivered, history, overlapped, cut>>

\* Mutant of Guard: only the last message is remembered.
GuardLastOnly(w) ==
  /\ At(w, "guard")
  /\ LET seen == binding[Session(w)]
         dup == seen.keys # <<>> /\ job[w].key = seen.keys[Len(seen.keys)] IN
     job' = [job EXCEPT
               ![w].pc = "again",
               ![w].duplicate = dup,
               ![w].keys = IF dup THEN <<>> ELSE Trimmed(Append(seen.keys, job[w].key)),
               ![w].replays = IF dup THEN seen.replays + 1 ELSE 0]
  /\ UNCHANGED <<binding, tickets, now, delivered, history, overlapped, cut>>

\* record_idempotency_key, first read: is the key a duplicate, and what is to
\* be written if it is, or is not.
Guard(w) ==
  /\ At(w, "guard")
  /\ LET seen == binding[Session(w)]
         dup == job[w].key \in Elements(seen.keys) IN
     job' = [job EXCEPT
               ![w].pc = "again",
               ![w].duplicate = dup,
               ![w].keys = IF dup THEN <<>> ELSE Trimmed(Append(seen.keys, job[w].key)),
               ![w].replays = IF dup THEN seen.replays + 1 ELSE 0]
  /\ UNCHANGED <<binding, tickets, now, delivered, history, overlapped, cut>>

\* Its second read, by get_or_create: the row the updates are merged into.
GuardAgain(w) ==
  /\ At(w, "again")
  /\ Fetch(w, "record")
  /\ UNCHANGED <<binding, tickets, now, delivered, history, overlapped, cut>>

\* The upsert of the merged row, and enforce: a duplicate goes no further.
RecordDuplicate(w) ==
  /\ At(w, "record")
  /\ job[w].duplicate
  /\ Upsert(w, [job[w].snap EXCEPT !.replays = job[w].replays])
  /\ ignored' = ignored \cup {job[w].msg}
  /\ dropped' = [dropped EXCEPT ![Session(w)] = @ + 1]
  /\ Finish(w)
  /\ UNCHANGED <<tickets, now, delivered, accepted, served, opened, forgotten,
                 overlapped, cut>>

\* The upsert is skipped when it changes nothing, last_message_id and
\* last_trace_id included: another delivery may have touched those since it
\* recorded the same key, so a row that looks the same is written back or not.
RecordAccepted(w) ==
  /\ At(w, "record")
  /\ ~job[w].duplicate
  /\ LET row == [job[w].snap EXCEPT !.keys = job[w].keys] IN
       Upsert(w, row) \/ (row = job[w].snap /\ UNCHANGED binding)
  /\ accepted' = [accepted EXCEPT ![job[w].msg] = @ + 1]
  /\ forgotten' = forgotten \cup (Elements(job[w].snap.keys) \ Elements(job[w].keys))
  /\ Goto(w, "route")
  /\ UNCHANGED <<tickets, now, delivered, served, ignored, dropped, opened,
                 overlapped, cut>>

-----------------------------------------------------------------------------
\* Mutant of Route: the binding is not consulted.
RouteAlone(w) ==
  /\ At(w, "route")
  /\ job' = [job EXCEPT ![w].replays = binding[Session(w)].replays,
                        ![w].pc = IF Consults(w) THEN "find" ELSE "insert"]
  /\ UNCHANGED <<binding, tickets, now, delivered, history, overlapped, cut>>

\* The handler reads the row once more; the envelope takes its ticket and its
\* replay_count.  process_intake goes to that ticket if there is one.
Route(w) ==
  /\ At(w, "route")
  /\ LET row == binding[Session(w)] IN
     job' = [job EXCEPT
               ![w].replays = row.replays,
               ![w].ticket = row.ticket,
               ![w].how = IF row.ticket # None THEN "bound" ELSE None,
               ![w].pc = IF row.ticket # None THEN "read"
                         ELSE IF Consults(w) THEN "find" ELSE "insert"]
  /\ UNCHANGED <<binding, tickets, now, delivered, history, overlapped, cut>>

\* _find_recent_consulting_ticket: a consulting ticket of the session that is
\* not closed.  The code takes the one updated last; which, is left open here.
Candidates(s) == {t \in Tickets : /\ tickets[t].session = s
                                  /\ tickets[t].faq
                                  /\ tickets[t].consulting
                                  /\ ~tickets[t].closed}

Find(w) ==
  /\ At(w, "find")
  /\ \/ /\ Candidates(Session(w)) = {}
        /\ Goto(w, "insert")
     \/ \E t \in Candidates(Session(w)) :
          job' = [job EXCEPT ![w].pc = "read", ![w].ticket = t, ![w].how = "reused"]
  /\ UNCHANGED <<binding, tickets, now, delivered, history, overlapped, cut>>

\* update_ticket refuses a closed ticket; the bridge answers with an apology.
RefuseClosed(w) ==
  /\ At(w, "read")
  /\ tickets[job[w].ticket].closed
  /\ Finish(w)
  /\ UNCHANGED <<binding, tickets, now, delivered, history, overlapped, cut>>

ReadTicket(w) ==
  /\ At(w, "read")
  /\ ~tickets[job[w].ticket].closed
  /\ Goto(w, "touch")
  /\ UNCHANGED <<binding, tickets, now, delivered, history, overlapped, cut>>

\* The UPDATE of latest_message and intent.
Touch(w) ==
  /\ At(w, "touch")
  /\ tickets' = [tickets EXCEPT ![job[w].ticket].consulting = job[w].msg \in Consulting]
  /\ Goto(w, "bind")
  /\ UNCHANGED <<binding, now, delivered, history, overlapped, cut>>

\* create_ticket: the row, under an id drawn at random.
Insert(w) ==
  /\ At(w, "insert")
  /\ \E t \in Tickets :
       /\ tickets[t] = NoRow
       /\ tickets' = [tickets EXCEPT ![t] =
            [session |-> Session(w), faq |-> Consults(w),
             consulting |-> job[w].msg \in Consulting, closed |-> FALSE]]
       /\ opened' = [opened EXCEPT ![job[w].msg] = @ \cup {t}]
       /\ job' = [job EXCEPT ![w].pc = "bind", ![w].ticket = t, ![w].how = "created"]
  /\ UNCHANGED <<binding, now, delivered, accepted, served, ignored, dropped, forgotten,
                 overlapped, cut>>

-----------------------------------------------------------------------------
\* set_ticket_id merges metadata into the row, once in get_or_create and once
\* in its own upsert: for a new ticket the envelope's, replay_count included,
\* otherwise the trace id, the intent and the mode of the session.
Intent(w) == IF job[w].msg \in Consulting THEN "consulting" ELSE "support"

Mode(w, row) == IF job[w].how = "bound" THEN "single_issue"
                ELSE IF Consults(w) THEN "faq_consulting" ELSE row.mode

\* Mutant of Merged: the envelope starts counting replays anew.
MergedUncounted(w, row) ==
  IF job[w].how = "created" THEN [Stamped(w, row) EXCEPT !.replays = 0]
  ELSE [row EXCEPT !.trace = job[w].key]

Merged(w, row) ==
  LET told == [row EXCEPT !.trace = job[w].key, !.intent = Intent(w), !.mode = Mode(w, row)]
  IN IF job[w].how = "created" THEN [Stamped(w, told) EXCEPT !.replays = job[w].replays]
     ELSE told

\* A new ticket's metadata always changes the row: it brings the thread and
\* the idempotency key along.
Bind(w) ==
  /\ At(w, "bind")
  /\ LET row == binding[Session(w)] IN
       Fetch(w, IF job[w].how = "created" \/ Merged(w, row) # row THEN "merge" ELSE "bound")
  /\ UNCHANGED <<binding, tickets, now, delivered, history, overlapped, cut>>

BindMerge(w) ==
  /\ At(w, "merge")
  /\ Upsert(w, Merged(w, job[w].snap))
  /\ Goto(w, "reread")
  /\ UNCHANGED <<tickets, now, delivered, history, overlapped, cut>>

BindReread(w) ==
  /\ At(w, "reread")
  /\ Fetch(w, "bound")
  /\ UNCHANGED <<binding, tickets, now, delivered, history, overlapped, cut>>

\* The session is bound, and the rest of the intake answers the customer.
BindTicket(w) ==
  /\ At(w, "bound")
  /\ Upsert(w, [Merged(w, job[w].snap) EXCEPT !.ticket = job[w].ticket])
  /\ served' = served \cup {job[w].msg}
  /\ Finish(w)
  /\ UNCHANGED <<tickets, now, delivered, accepted, ignored, dropped, opened, forgotten,
                 overlapped, cut>>

\* A worker stops, or a statement raises "database is locked".
Crash(w) ==
  /\ ~At(w, "idle")
  /\ cut' = cut \cup {Session(w)}
  /\ Finish(w)
  /\ UNCHANGED <<binding, tickets, now, delivered, history, overlapped>>

\* An operator closes a ticket: TicketRequests, seen from here.
CloseTicket(t) ==
  /\ tickets[t] # NoRow
  /\ ~tickets[t].closed
  /\ tickets' = [tickets EXCEPT ![t].closed = TRUE]
  /\ UNCHANGED <<binding, now, job, delivered, history, overlapped, cut>>

Gateway(w) == \/ OpenSession(w) \/ Refresh(w) \/ Guard(w) \/ GuardAgain(w)
              \/ RecordDuplicate(w) \/ RecordAccepted(w)

Intake(w) == \/ Route(w) \/ Find(w) \/ RefuseClosed(w) \/ ReadTicket(w) \/ Touch(w)
             \/ Insert(w) \/ Bind(w) \/ BindMerge(w) \/ BindReread(w) \/ BindTicket(w)

Next == \/ \E w \in Workers :
             \/ \E m \in Messages : Deliver(w, m)
             \/ Gateway(w)
             \/ Intake(w)
             \/ Crash(w)
        \/ \E t \in Tickets : CloseTicket(t)

Spec == Init /\ [][Next]_vars

-----------------------------------------------------------------------------
(* Properties.                                                             *)

Labels == {"idle", "open", "refresh", "guard", "again", "record", "route", "find",
           "read", "touch", "insert", "bind", "merge", "reread", "bound"}

TypeOK ==
  /\ \A s \in Sessions : /\ binding[s].ticket \in Tickets \cup {None}
                         /\ binding[s].intent \in {None, "consulting", "support"}
                         /\ binding[s].mode \in {None, "single_issue", "faq_consulting"}
                         /\ Len(binding[s].keys) <= HistoryLimit
                         /\ binding[s].replays \in 0 .. MaxDeliveries
  /\ \A t \in Tickets : tickets[t].session \in Sessions \cup {None}
  /\ now \in 0 .. MaxTime
  /\ \A w \in Workers : /\ job[w].pc \in Labels
                        /\ job[w].msg \in Messages \cup {None}
                        /\ job[w].ticket \in Tickets \cup {None}
                        /\ job[w].how \in {None, "created", "reused", "bound"}
  /\ delivered \in 0 .. MaxDeliveries
  /\ accepted \in [Messages -> 0 .. MaxDeliveries]
  /\ served \in SUBSET Messages /\ ignored \in SUBSET Messages
  /\ dropped \in [Sessions -> 0 .. MaxDeliveries]
  /\ opened \in [Messages -> SUBSET Tickets]
  /\ overlapped \in SUBSET Sessions /\ cut \in SUBSET Sessions

\* The promise is not kept for messages without an id, in sessions with two
\* deliveries at once, or whose key has fallen out of the history.
Exempt == {m \in Messages : \/ m \notin Numbered
                            \/ SessionOf[m] \in overlapped
                            \/ <<m>> \in forgotten}

\* Delivering a message again, in any order and after any cut-off, never has
\* it accepted again, opens no second ticket for it and serves it no second
\* time: the key is written before the work, and survives every later upsert.
Stage(m) == CASE accepted[m] = 0                   -> "new"
              [] accepted[m] = 1 /\ m \notin served -> "accepted"
              [] accepted[m] = 1 /\ m \in served    -> "served"
              [] OTHER                              -> "repeated"

Promise == INSTANCE Deliveries WITH stage <- [m \in Messages |-> Stage(m)],
                                    exempt <- Exempt
DeliveriesImplemented == Promise!Spec

\* Whatever the races, nothing that carries an id is dropped as a duplicate
\* before it was accepted: upserts may lose keys of the history, but none
\* gets in that the guard did not let through.
IgnoredWasAccepted == \A m \in ignored \cap Numbered : accepted[m] > 0

\* A session bound to a ticket stays bound to it: of the four upserts a
\* delivery makes only the last sets ticket_id, and the others write back the
\* one they read.
BindingKept ==
  [][\A s \in Sessions \ overlapped :
       binding[s].ticket # None => binding'[s].ticket = binding[s].ticket]_vars

\* A session has one ticket, unless a delivery was cut off before it bound the
\* ticket it had opened.
OneTicketPerSession ==
  \A s \in Sessions \ (overlapped \cup cut) :
    Cardinality({t \in Tickets : tickets[t].session = s}) <= 1

\* replay_count is the number of deliveries dropped, although create_ticket
\* writes it back from the envelope.
ReplaysCounted == \A s \in Sessions \ overlapped : binding[s].replays = dropped[s]

-----------------------------------------------------------------------------
(* A statement of the documents that the code does not keep.               *)

\* EVAL.md:78: a repeated webhook does not open a ticket again.
OneTicketPerMessage == \A m \in Numbered : Cardinality(opened[m]) <= 1

=============================================================================
