# Verification of the support agent platform

TLA+ models of the parts of this repository that keep state, checked with TLC on
small instances, and proofs of the most important properties of the core with
TLAPS. Everything is translated from the code under `src/`; documents are quoted
only as statements that the code keeps or does not keep. Paths below are relative
to `src/`.

## 1. The system

A support desk. Customers write to a channel (WeCom); each message becomes part of
a ticket; an engine classifies it, drafts a reply and decides whether a human takes
over; staff work on tickets from a collaboration chat and from a web console; risky
actions need an approval.

    channel --> WeCom bridge --> gateway --> replay guard/session --> intake workflow
                                                                          |
    web console --> Ops API --+--> approvals --+                          v
    staff chat  --> collab ---+----------------+------------------> TicketAPI --> SQLite

Two processes, the bridge and the Ops API, are threading HTTP servers over one
SQLite file. There is no lock, no background worker and no timer, and **every
repository call opens its own connection and transaction**
(`storage/ticket_repository.py:387`, `openclaw_adapter/session_mapper.py:202`), so
a handler is a sequence of small transactions and two handlers may interleave
between any two of them. That is what most of the models are about.

### Components

"M" is modelled whole, "p" in part, "-" not at all (section 6 says why).

| component | state it keeps | operations | hard behaviour | what makes it correct | |
|---|---|---|---|---|---|
| Ticket lifecycle, `core/ticket_api.py` over `storage/ticket_repository.py` | `tickets`, `ticket_events` | create, update, assign, resolve, escalate, close, merge, events | check and UPDATE in different transactions; UPDATE and event in different transactions | the transition table is obeyed; closed tickets are frozen; resolved/closed rows are complete; events tell the row's story; merges end and are final | p |
| Approvals, `core/hitl/*` and the approve/reject/pending routes | a list in the metadata column of the ticket; `handoff_state` | request, look-up, list, approve + execute, reject, time out on look-up | read-modify-write of a list several calls apart; execution before the decision; no timer | decided once; executed before it is approved; timed out only when due; ticket resumes; decisions audited | M |
| Collaboration, `workflows/case_collab_workflow.py` | none of its own | /claim, /reassign, /escalate, /resolve, /close, /state, push | the same, plus metadata written back from an earlier read | (through the two above) | M |
| Inbound, `openclaw_adapter/*` | `session_bindings`: ticket, metadata with the last 50 message keys, replay count | gate, look up or create the session, record key, bind | redelivery, two deliveries at once, upserts of whole rows from old reads, keys falling out | a message is accepted once; a session keeps its ticket; a refused message is answered | M |
| Channel adapters and signatures, `channel_adapters/*` | none | build, verify, key of a message | keys that are not unique | (through the gate) | p |
| Outbound, retry manager | none | send with retries | classification of failures, last attempt | bounded attempts, one outcome | M |
| Trace log and what is computed from it | JSONL file | log, status, KPI | half a line after a failed write | counters agree with what was answered | p |
| WeCom bridge, `scripts/wecom_bridge_server.py` | none of its own | a thread per message | exceptions of everything behind it | every message is answered | M |
| Intake, `workflows/support_intake_workflow.py`, `core/workflow_engine.py` | none of its own | choose or create the ticket, evaluate, hand over, record, push | a turn of several TicketAPI and model calls on a ticket others work on | an announced hand-off took place; new work is pushed; turns end | p |
| LLM clients and fallback, `llm/*` | none | retry within a provider, fall back to the next | order, when to stop | an answer or a marked degradation | M |
| Summaries and replies | `_last_generation_metadata` of the engine | render with fallback | one variable for all threads | a stored trace belongs to its turn | M |
| Intent router | none | route (pure) | ties, thresholds | no intent beaten by another is taken | M |
| SLA engine | policy file | evaluate (pure), two file forms | defaults, boundaries of deadlines, a timeline cut at 200 | a claim counts as the first response | M |
| Hand-off manager | policy file | evaluate, mark_handoff, resume | `update_ticket` with a status equal to the one read | no finished ticket asks for a human | M |
| Ops API, `scripts/ops_api_server.py` | none of its own | routes | a thread per request | (through the others) | p |
| Knowledge store of the Ops API | `ops_api_kb.json` | seed, list, add, edit, delete | file read and rewritten whole per request | no undisturbed update lost; the file can be read | M |
| Migrations | schema, `schema_migrations` | apply, roll back | every statement and the record commit on their own | schema and records agree; someone finishes | M |
| Release scripts | state file, snapshots | deploy, roll back, verify | a database that is in use; one previous release; a state file written in place | a rollback returns to what was copied | M |
| Retrieval, recommended actions, tool router, duplicate scores, acceptance scripts, web console | none shared between requests | | | | - |

## 2. Modules

| module | models | uses | proofs |
|---|---|---|---|
| `TicketStates` | statuses, stages and the transition table | | |
| `TicketLifecycle` | abstract: what TicketAPI promises of a ticket's status | `TicketStates` | |
| `TicketRequests` | TicketAPI transaction by transaction, run by several workers | implements `TicketLifecycle` | `TicketRequests_proofs` |
| `Merges` | accepting and rejecting merge suggestions, transaction by transaction | `TicketStates` | `Merges_proofs` |
| `ApprovalLifecycle` | abstract: what becomes of an approval | | |
| `Approvals` | the approval runtime and its routes, call by call | implements `ApprovalLifecycle` | `Approvals_proofs` |
| `Deliveries` | abstract: what the replay guard promises of a message | | |
| `Inbound` | bridge, gateway, session mapper and choice of the ticket, statement by statement | implements `Deliveries` | `Inbound_proofs` |
| `Gateway` | the stations of a delivery, the outbound retries, the trace log and what is counted in it | | `Gateway_proofs` |
| `Policy` | intent router, SLA and hand-off rules, as operators | | |
| `Turns` | a turn of the intake workflow beside other turns and agents | `Policy`, `TicketStates` | `Turns_proofs` |
| `Migrations` | apply_all and rollback_last | | `Releases_proofs` |
| `Releases` | deploy, roll back and verify, over `Migrations` | `Migrations` | `Releases_proofs` |
| `Knowledge` | the knowledge base file of the Ops API | | `Knowledge_proofs` |
| `MC...` | the instances TLC checks | | |

Definitions whose comment begins with "Mutant of" are plausible bugs of the
definition they name. Nothing uses them; put in its place each makes a property of a
run fail, which shows that the property depends on the code.

### TicketRequests

`row` is the tickets table, with the columns the properties speak of; `rev` counts
the UPDATEs of a row and stands for `updated_at`, so that a write of columns that
are left out still shows. `log` keeps, of the events, those with a from- and a
to-status. Each worker has a program counter (`pc`), the ticket its request is on,
the TicketAPI call in progress and the one to follow (`call`, `rest`), and the
status it read (`seen`).

| action | code |
|---|---|
| `Start` | a request arrives; `create` takes an id nobody has |
| `Refuse`, `ReadPlain`, `ReadTransition`, `ReadClose` | `require_ticket` and `_ensure_not_closed` (`core/ticket_api.py:88`), then the way `update_ticket`, `assign_ticket`/..., `close_ticket` go on |
| `Check`, `Forbid` | the second read and `_assert_transition_allowed` in `_transition_status` (`:481`) |
| `Write` | `UPDATE tickets ... WHERE ticket_id = ?`, without regard to the status |
| `Log` | `append_event`, and on to the next call of the handler |
| `Crash` | the process is stopped or a statement raises, at any step |

The commands are those of the Ops API (`assign`, `escalate`, `resolve`, `close`, ...)
and of the workflows, as the sequences of calls they make: `claim` is an assignment
followed by an update, `intake_handoff` is update, `mark_handoff`, update. `close`
resolves first unless it read the ticket as resolved; `mark_handoff` and `resume`
go through `update_ticket`, which leaves the status out of the UPDATE if the one it
read is the one asked for. `overlapped` remembers the tickets two requests were on
at once and `cut` those a request was cut off on.

### Approvals

A step is one TicketAPI or repository call. A ticket's `actions` is the list in its
metadata, `recent` the order of `list_all_tickets` (most recently updated first),
`now` the clock. `job` holds what a request carries from call to call: the view its
scan read, what is left to walk over, the row it found, the row the executed action
returned, the events it has still to append. `raced` remembers the tickets a request
wrote although the list it had read, or the `handoff_state` it had noted, was no longer
what is stored.

| action | code |
|---|---|
| `AskContext`, `AskRead`, `AskWrite` | `build_approval_context`, `request_approval_if_needed`: read, read, write |
| `Scan`, `Look`, `Exhausted` | `get_pending_action`, `list_pending_actions`: list all tickets, then each again |
| `Sweep` | `_apply_timeouts` of a ticket walked over |
| `Execute` | the approve route carries the action out, before it decides |
| `Mark` | the write of `mark_approved` / `mark_rejected` |
| `Note` | the events, one `add_event` each |
| `Simple`, `CollabCloseRead`, `CollabClose` | requests that write the same columns |
| `Refuse`, `Crash`, `Tick` | a call that raises; a cut-off; time |

The tickets exist and are open when a run starts; their creation is in
`TicketRequests`. "claimed" stands for every handoff state `/state` can set. What
happens inside one TicketAPI call is not repeated here.

### Inbound

`binding` is `session_bindings`. A delivery is `OpenSession`/`Refresh`
(`get_or_create` with the metadata of the message), `Guard`, `GuardAgain`,
`RecordDuplicate` or `RecordAccepted` (`record_idempotency_key`, two reads and an
upsert, and `enforce`), `Route` (what the envelope takes from the row), `Find`,
`Insert` or `ReadTicket`/`Touch`/`RefuseClosed` (which ticket), and
`Bind`/`BindMerge`/`BindReread`/`BindTicket` (`set_ticket_id`). Every upsert writes
the whole row from the copy (`snap`) of its worker. The key of a message is its
MsgId or, without one, its session and the second of the bridge's clock; `Deliver`
chooses the second a message arrives in. `CloseTicket` is an operator's close. Left
open: which of several recent consulting tickets is taken.

### Merges

`row` holds a ticket's status and the four metadata keys a merge writes. A request
is `ReadSource`, `ReadTarget` (the two `_ensure_not_closed` at the beginning of
`accept_merge_suggestion`, `core/ticket_api.py:346`, and the copies of the metadata
the rest works on), `ReadClose`/`Check`/`Resolve`/`Close` (`close_ticket` with both
its halves; the UPDATE writes the prepared metadata), `Announce`, then
`ReadUpdate`/`WriteUpdate` (`update_ticket` of the target, or of the source where
the suggestion is rejected) and `Tell`. `Refuse` is a RuntimeError, `Crash` a
cut-off. A plain close and an update of other metadata keys are the requests that
meet them. `merged` remembers the closings, `overlapped` and `cut` are as above.

### Gateway

A delivery is a thread of the bridge or a run of the replay script. `Receive` is
`do_POST` up to the gateway, `Validate` the signature gate with its record,
`OpenSession` the envelope and the session, `Guard`/`RecordKey`/`Audit` the replay
guard, `Normalize`, `Render`/`NoteFailure`/`Decide` the attempts of
`OutboundSender.send`, `Refused` the error path of `receive`, `Turn` the records of
the intake behind it. `Logs` and `Tears` are `JsonTraceLogger.log` when it works and
when it fails half way: the file then ends in half a line, and the next record
becomes its end. `Stop` ends the process. What `gateway_status` and `trace_kpi`
compute are operators over the log.

### Policy and Turns

`Policy` has the router (`Route`: scores in hundredths, the first intent with the
best score), `_select_rule` and `evaluate` of the SLA engine over either form of the
policy file, and the hand-off rules. `Turns` runs it: `Start` routes the message
with the ticket its session is bound to; `Open` or `Continue` is the ticket;
`Read` the timeline of at most `EventLimit` events; `Call` a failed call of the
model, `Summarize` and `Copy` what `SummaryEngine` leaves in its variable and what
the turn reads from it; `Judge` the rules; `Mark` the hand-off; `Reply`; `Record`
the trace and events; `Push` the message to the collaborators. `Claim`, `Escalate`
and `Settle` are agents' commands, `Tick` the clock. A TicketAPI call is one step.
A message is how many keywords of each intent it holds and whether it asks for a
human. MCTurns holds the policy file the repository ships.

### Migrations and Releases

`db` has the tables, the columns each migration added, the records and the age of
the rows. A process is `Start` (the read of `schema_migrations`), a `Statement` at a
time, `Record`, or `Down` and `Unrecord`; `Kill` anywhere. `Releases` adds the
scripts: `Check` (the health check, which migrates), `CopyDb`, `CopyLog`, `Load`,
`Empty` and `Fill` (`save_state`, which empties the file and then fills it) for a
deployment, `Rollback`, `RestoreDb`, `RestoreLog` for a rollback, `Verify`. `Clean`
is someone who deletes a snapshot. A copy of one file is one step.

### Knowledge

`file` is missing, unreadable or a JSON text with its length. A request is `Start`,
`Load`, `Truncate`, `Fill`: `write_text` truncates when it opens and then writes
from offset 0, so of two writes at once the longer leaves its tail. `Boot` and
`Seed` are `build_runtime`, `Kill` ends the server. `told` is the store as the
answers describe it.

## 3. Runs

`CHECK_DEADLOCK FALSE` because the bounds on requests, deliveries, turns and time end
every behaviour.

| run | instance | shows |
|---|---|---|
| `requests` | 2 workers that may meet, 2 tickets, all commands, 4 requests, crashes | the events account for the status (`AuditChain`); resolved/closed rows have their times in spite of stale reads; tickets nobody met on stay closed and, once finished, ask for no human; refinement of `TicketLifecycle` |
| `approvals_serial` | 1 worker, 2 tickets, 2 approvals, all commands and action types, 4 requests, crashes | refinement of `ApprovalLifecycle`: no request writes back a list that its own steps have made old |
| `approvals_overlap` | 2 workers asking, deciding, listing, closing, setting states; 2 tickets, 2 approvals, 4 requests, crashes | nothing is approved that was not executed; nothing times out early; decisions are in the timeline; where no outdated list was written, a ticket with one approval is suspended only while that is open and no approval is dropped or decided twice |
| `approvals_executed` (violation) | 1 worker, 1 ticket, 1 approval | section 5 |
| `inbound` | 2 workers, 1 session, 3 messages, 3 deliveries, history of 2, crashes, closings | types and the limit of the history; refinement of `Deliveries`: accepted once, one ticket, served once; the session keeps its one ticket; replays are counted; nothing is ignored before it was accepted, whatever overlapping upserts lose |
| `inbound_repeated` (violation) | 2 workers, 2 deliveries | section 5 |
| `merges` | 2 workers, 3 tickets, 3 requests of every kind, history of 2, crashes | links are mirrored and make no circle where requests did not meet; a merge is final; a target lists only what was closed for it; the event of a merge is there whatever meets |
| `gateway` | 2 deliveries of every payload of `SomePayloads`, every outcome of a send, 3 attempts, 1 fault | the records of a send are one story with one end; "ok" has a complete trace; the counters agree with the answers; every delivery is answered (liveness) |
| `turns_serial` | 1 worker, 3 messages of 3 kinds, 2 commands of agents, 2 ticks, shipped policy | an announced hand-off took place; a turn raises only on a settled ticket; a claim counts |
| `turns_overlap` | 2 workers, 2 messages, 1 command, older policy form, 2 providers, the first with a retry | the trace stored is the turn's or that of one beside it; new work is pushed; every turn ends (liveness) |
| `releases` | operator and one service, 3 starts, 3 scripts, 1 write, 1 tick, the repository's migrations | recorded migrations are whole, however many processes migrate at once; a start fails only for a cause; someone finishes the schema (liveness); the active release can be rolled back; a rollback returns what was copied; the history agrees with the state, and its last entry also after the limit of 2 has dropped one |
| `knowledge` | 3 workers, 2 documents, 3 texts, 4 requests, 1 kill | the file is unreadable only for a cause; what was told is what is kept |

What the exemptions in the properties mean. Where the code makes no promise under a
race, the property says for which tickets, sessions or documents it speaks:
`Tickets \ overlapped` are those no two requests were on at once, `\ cut` those no
request was cut off on, and `\ raced`, in `Approvals`, those whose list was never
written back from a copy that was no longer what was stored: requests may meet there
as they like, as long as none makes the copy of another old and that other still
writes. The runs do reach the other states, and the properties
without an exemption (`FinishedWasResolved`, `ListedWasMerged`, `ApprovedWasExecuted`,
`IgnoredWasAccepted`, `EgressChain`, `PromiseKept`, ...) hold in them.
What is exempt is a failure the code has, and section 5 lists each. `ClaimCounts` leaves
out a claim buried under a timeline longer than its limit, `HistoryReplays` speaks of
the whole history until the state file drops entries and of its last entry after that.
`RecordedIsWhole` allows a migration that is not whole after a rollback, or a restored
snapshot, that met another process at work (`crossed`) and after a rollback that was
cut, but not because processes migrated at once. `ReadableOrCause` allows an unreadable
file while it is seeded or written, after two writes crossed, and after a kill in a
write; `ToldIsKept` leaves out the documents of requests that overlapped.

Fairness. `Gateway`, `Turns` and `Releases` assume weak fairness of the steps of a
thread, or of a process that migrates: a thread takes no lock of the program, and
the disk, SQLite (a busy timeout, then an exception, which is a step too) and the
model (an HTTP timeout, which is `Call`) answer or fail. Nothing is assumed of
arrivals, agents, clocks and scripts. The other modules assume none: nothing in them
has to happen unless a client asks again, and what is promised to happen is stated
as safety (a request that ended without a cut-off has left its event, its binding).

Why the bounds are enough. The properties relate two requests on one row, so two
workers give every interleaving that matters; a third request lets something happen
to the row before or after, a fourth lets a refused or cut-off one be tried again. A
second ticket, approval or session shows that what happens to one does not reach
the other, and gives a walk over tickets something to walk over; a chain or circle
of merges that is not between two needs the third ticket. One tick is enough
for a deadline to pass or not; 0 and 1 as time-outs put it before, at and after
(`approvals_overlap` uses 1 alone), and two ticks of 31 minutes pass the limits of 15,
20, 25, 30 and 60 minutes. A history of two keys overflows with the third
message. The messages of `inbound` are one that consults and two repair
requests, which are alike and may be exchanged; `inbound_repeated` has the one with
a consulting intent of low confidence, the third way through `process_intake`. Three attempts are those of the code; one fault can hit each of
the records. Three texts of different lengths let a write be shorter, equal and
longer than another. Two releases in one second and in two, each with a rollback,
fit in three scripts, and the third is one more than the state file's history of two
keeps. Symmetry is used for tickets, workers and approval ids, which
the models only compare.

In the passing run of `Inbound` the clock does not move (`MaxTime = 0`): every
message there has a MsgId, and only a message without one looks at the clock.

History variables (`overlapped`, `cut`, `executed`, `stacked`, `raced`, `forgotten`,
`accepted`, `merged`, `told`, `causes`, ...) record what happened and are read by
properties only.

## 4. Proofs

TLC checks the instances of section 3; the theorems hold for every value of the
constants. A `*_proofs` module states an inductive invariant of its module, shows
that it holds at first and that every action keeps it, mostly with one lemma per
conjunct or per action, and draws the properties from it. The invariants were
model-checked on the instances of the runs before they were proved. A theorem named
`TypeCorrect` states the type invariant `TypeOK` of its module; `Invariance` states
the inductive invariant. The others:

| module | theorem | property | says |
|---|---|---|---|
| `TicketRequests_proofs` | `FinishedRowsResolved` | `FinishedWasResolved` | resolved and closed rows have their times, under any interleaving and crash |
| | `FinishedRowsNeedNobody` | `FinishedNeedsNobody` | a resolved or closed ticket nobody met on needs no human |
| | `ClosedStaysClosed` | `ClosedFrozen` | a closed ticket nobody met on is never written |
| | `EventsAccountForStatus` | `AuditChain` | the events tell how a ticket came to its status |
| | `Refinement` | `LifecycleImplemented` | every step is a step or a stutter of `TicketLifecycle` |
| `Merges_proofs` | `LinksAgree` | `LinksMirrored` | both ends of a merge agree, where nobody met or was cut off |
| | `MergesMakeNoCircle` | `NoCircle` | no circle of merges among tickets nobody met on |
| | `ListsOnlyMerged` | `ListedWasMerged` | whatever meets, a list names what was closed for it |
| | `MergesAreAudited` | `MergeAudited` | whatever meets, a merge that was not cut off has its event |
| | `MergesAreFinal` | `MergeFinal` | a merged ticket nobody met on keeps status and target |
| `Approvals_proofs` | `ApprovalsAreExecuted` | `ApprovedWasExecuted` | whatever meets, nothing is approved that was not carried out |
| | `TimeoutsAreDue` | `TimeoutWasDue` | whatever meets, nothing times out early |
| | `SuspensionEnds` | `SuspendedWhileOpen` | whatever meets, where no outdated list was written: suspended only while the approval is open |
| | `DecisionsAreAudited` | `DecisionAudited` | whatever meets, decisions are in the timeline |
| | `DecisionsAreFinal` | `DecidedOnce` | whatever meets, where no outdated list was written: nothing is dropped or decided twice |
| | `CopiesStayCurrent` | (`NeverRaced`) | one worker: no outdated list is written |
| | `CurrentCopiesGoTheirWay` | `LifecycleImplemented` | in every behaviour where none is: every step is a step of `ApprovalLifecycle` or a stutter |
| | `ApprovalsGoTheirWay` | `LifecycleImplemented` | so it is with one worker |
| `Inbound_proofs` | `ReplaysAreCounted` | `ReplaysCounted` | a session nobody met on counts what was dropped |
| | `SessionsHaveOneTicket` | `OneTicketPerSession` | it has one ticket, unless a delivery was cut off |
| | `OnlyAcceptedAreIgnored` | `IgnoredWasAccepted` | whatever meets, only accepted messages are dropped |
| | `SessionsStayBound` | `BindingKept` | a session nobody met on keeps its ticket |
| | `DeliveriesKeepTheirPromise` | `DeliveriesImplemented` | every step is a step or a stutter of `Deliveries` |
| `Gateway_proofs` | `SendsAreToldInOrder` | `EgressChain` | the records of a send follow each other without a gap |
| | `AnsweredIsTraced` | `OkWasTraced` | "ok" has a complete trace |
| | `TotalsAreTrue` | `StatusAgrees` | the counters agree with the answers |
| `Turns_proofs` | `PromisesAreKept` | `PromiseKept` | an announced hand-off took place |
| | `NewWorkIsPushed` | `NewWorkPushed` | new work is pushed |
| | `FailuresHaveACause` | `OnlySettledFail` | a turn raises only on a settled ticket |
| | `TracesAreOwn` | `TraceOwnAlone` | a stored trace is the turn's or that of one it met |
| | `ClaimsCount` | `ClaimCounts` | a claim counts as the first response |
| | `RouterTakesTheBest` | (the operator `Route`) | no intent beaten by another is taken, for any numbers of keywords; TLC evaluates it up to three |
| `Releases_proofs` | `MigrationsAreWhole` | `RecordedIsWhole` | a recorded migration has run to its end |
| | `StartsFailForACause` | `FailsForACause` | a start fails only for a cause |
| | `ActiveCanBeRestored` | `ActiveRestorable` | what the active release needs is there |
| | `RollbacksUndo` | `RollbackUndoes` | a rollback puts back what was copied |
| | `HistoryIsReplayed` | `HistoryReplays` | the history, replayed, ends in the active and the previous release, and its last entry names them also after entries were dropped |
| `Knowledge_proofs` | `FileReadable` | `ReadableOrCause` | the file is unreadable only for a cause |
| | `AnswersKept` | `ToldIsKept` | what was told is what the file holds |

The assumptions are the named `ASSUME`s of the modules, which TLC evaluates in the
runs: bounds are natural numbers; the mark for "absent" is none of the things it
could be mistaken for; commands, payloads and kinds of messages are of their types;
`Approvals` has finitely many tickets (its scan walks over all of them in order);
no two migrations create the same table, and `tickets` is created before columns
are added to it, as in `storage/migrations`. `Alone` in `Approvals_proofs` is the
one hypothesis beyond them: `CopiesStayCurrent`, and `ApprovalsGoTheirWay` which
follows from it, are about one worker, as their run is, since with two a later write
may replace a decision (section 5). `CurrentCopiesGoTheirWay` says it without `Alone`
of the behaviours in which that does not happen.

The arguments. None of the properties is inductive, and nearly always for the same
reason: what a request writes it has read some transactions before, so the
invariant has to say what the copies in flight have to do with the rows.

**TicketRequests.** `IInv` says where a request can be (`Placed`, `WorkerShape`);
that two on one ticket are in `overlapped`, so that a worker whose ticket is not
there is alone on it (`MeetingsNoticed`); that what such a worker has read is still
so when it writes (`ReadsHold`: the row is not closed, the move is allowed from the
status it has); and that between the halves of `close_ticket` the row has its
resolution time (`ClosingWasResolved`, which holds under overlap, as no UPDATE
unsets `resolved_at`). `Refinement` maps the status column to `status` and
`overlapped` to `contended`: `Write` is a creation, a move of the table or no
change, `Start` contends, all else stutters. For `AuditChain`, `AuditInv` adds that
outside `overlapped` and `cut` the last event of a ticket, followed by the event
that the worker between UPDATE and INSERT still owes, leads to the row's status,
and that each event begins where the one before it ended.

**Merges.** `MInv` has two layers. Under any overlap: no copy of a list names a
source that was not closed for its target (`CopiesListed`), and a merge whose event
is missing is at `announce` (`Audited`). Where a request is alone: its copies are
what the rows hold, but for the source it adds (`CopiesHold`); a ticket that says
where it was merged into is closed (`MergedIsClosed`); the two ends differ only for
a merge between its two UPDATEs (`Mirrored` with `Halfway`). `NoCircle` is kept
because a source is open when it is closed for its target and so is the target,
which therefore points nowhere.

**Approvals.** A list of approvals is written back from a copy, so `AInv` speaks of
every approval in a row or in any copy a request carries (`Circulating`): its id was
issued, all of its copies have one deadline (`OneDue`), and it has only a verdict
that was earned, approved if it was executed and timed out if it was due
(`Genuine`); likewise for events (`Announced`). `StepKeeps` shows this for all
actions at once: an approval in circulation after a step has one like it (`Kin`)
before, or was just issued. `MInv` adds, still under any overlap, what is true of
every list of a ticket, the stored one and each copy in flight (`Copies`): an
approval is in one place of the lists of one ticket (`OneHome`), a decision in them
is in the timeline or on its way to it (`Audited`), and as long as the ticket is not
in `raced` every approval of a copy is in the stored list too (`NoneMissing`). What a
request writes is a copy with one approval decided, the due ones timed out, or one
added, so a write outside `raced` does just that to what is stored (`ListStep`), and
`DecidedOnce` and the lifecycle (`Lived`) are read off it. `SuspendedWhileOpen` needs
to know what an open approval returns its ticket to (`ResumesElsewhere`). That one
worker makes no copy old itself is `CInv`: its copies are what the rows hold, except
for the ticket it has just written, which it does not write again from them
(`Current`); this needs that every ticket is in the list it walks over once.

**Inbound.** Under any overlap every key in a row, a copy or a verdict is that of an
accepted message (`Genuine`), and counts are bounded by deliveries (`Counted`).
Deliveries of one session at once have been noticed (`Noticed`), and one that is
alone holds what the row holds: copy, verdict, count and ticket (`RowsHeld`). Every
ticket of a session nobody met on is the one it is bound to or one a delivery is
about to bind (`AllOwned`, `Brings`). The refinement is per message: `StageOf` reads
the abstract stage off the histories and the places of its deliveries, and `EachOnce`
says that one of them at most is past the guard. Messages without an id are exempt
from the promise from the start.

**Gateway.** `GInv` ties what each delivery has in the log to its station: what the
station says of the job (`Shaped`), what the log tells as long as it can be read
(`Tale`), and how often if nothing failed (`Counts`). These speak of one delivery and
its records, so that a step needs a look at one delivery only: the steps of `QuietStep` write
nothing, those of `LogStep` append one record, those of `TearStep` fail half way. `TotalsAreTrue`
then counts: each total is the size of a set of records that a bijection maps to the
deliveries, or to the failed attempts, it is to agree with.

**Turns.** Every write of a ticket's row is one of few (`Follows`, `StepWrites`), so
a conjunct about rows needs no case per action. `TInv` says that a row is assigned
exactly when its timeline has a first response, at most `EventLimit` deep or buried
(`Timelines`); that a turn which did not see it ran already or could not see so far
(`Unseen`); that what is resolved or closed was settled by an agent (`Settled`); that
turns which run at the same time have met, and that a trace ready or taken is the
turn's own or that of one it met (`Meetings`, `Traces`); and which of its promises a
turn has written when (`Promised`, `Served`). `Policy` is used as it is: what the
rules say matters only as the set of reasons.

**Releases.** `RInv` has three parts. The schema: as long as no rollback of a
migration, and no restore, met another process at work and no rollback was cut
(`Orderly`), the records are the first migrations in order, each whole, and every
snapshot of the database is as sound (`Sane`). Processes that migrate at once are no
exception: each is at a migration that is recorded or the next one, the scripts that
create tables may be repeated, and of the processes at one that adds columns only one
is past the first column, since the others raise. As long as nothing but a restore
has happened (`Untouched`), no column is there that is not on record, so that no
`ALTER TABLE` can fail (`Pristine`). The shelf: a snapshot is
what was copied or was deleted, and every release that the state file or a running
script knows was copied (`Shelf`). A release id given twice is in `shared` when it is
copied again, which is what the exemptions are about. The ledger: a script in the
middle of its change holds the state the file has, and that state is what the file's
history, replayed, ends in (`Ledger`), so that each script adds one entry to a history
that is right so far (`ReplayOneMore`). `Replayed` is a fold of the community modules,
which is a recursive function under a `CHOOSE`. That such a function exists for a
history of any length, and that two of them agree, are inductions over the length
(`FoldingExists`, `FoldingAgrees`); they are done without the library's induction
theorems, by taking the least length where the claim fails (`Least`, from `WFMin`).

**Knowledge.** `Consistent` says that a server that is not up has no request and
seeds what was told at first (`Starting`); that as long as no two writes crossed, a
request between truncation and text is there alone and the file is empty (`Alone`);
that of two requests which both have read and not written the documents are in `met`
(`OverlapsNoticed`); and that outside `met` the copy a request will write is what
will then have been told (`ViewsHold`).

Only model-checked. The liveness properties `Answered`, `TurnEnds` and
`SomeoneMigrates`: the proof system does not reach fairness here. Of `Policy`, what
the SLA engine selects: `SelectSeq` takes an operator and is recursive, which leaves
no way to say what it returns for every policy file; the runs have the shipped file
and the older form. The two runs that expect a violation.

## 5. Where code and documents disagree

| run | what happens | statement |
|---|---|---|
| `approvals_executed` | the approve route executes what was rejected, timed out or approved before, and only then refuses | EVAL.md:98 |
| `inbound_repeated` | one message delivered twice at once opens two tickets | EVAL.md:78 |

Seen while modelling, without a run. On tickets:

- check and UPDATE are separate transactions, so a handler that read a ticket before
  its close writes the closed row (ARCHITECTURE.md:80 rules it out; the properties
  exempt `overlapped` tickets for it);
- `resolved` leads back to `open` and `pending` in the transition table
  (UPGRADE3_FINAL.md:116 lists it as terminal);
- two merges that cross, each reading both tickets while they are open, make a
  circle of `merged_into_ticket_id`;
- `list_events` returns the oldest 200 events, so on a longer timeline a first
  response is not seen (`ClaimCounts` exempts it as `buried`);
- a handed-off ticket (status `handoff`, handoff_state none or pending_claim) is in
  no count of `_queue_summary` and `_dashboard_summary`
  (`scripts/ops_api_server.py:763`, `:976`), and finished tickets past their due
  date count as breached (`_sla_state`, `:237`).

On approvals:

- a second approval on a suspended ticket remembers the suspended state and restores
  it (EVAL.md:98; `SuspendedWhileOpen` exempts `stacked`);
- one closed ticket with an overdue approval makes the look-ups that reach it raise
  (升级3-实施要求与验收测试规范.md:311);
- approvals of a ticket that time out in one look-up share one event (`Sweep`;
  EVAL.md:87 has the approval events in the timeline);
- two workers that both looked an approval up while it was open both decide it, and
  the later write replaces the earlier decision (`Mark`; `DecidedOnce` and
  `SuspendedWhileOpen` exempt it as `raced`).

On messages:

- a delivery that read the session earlier writes its ticket binding away
  (TODO.md:65, :68; `BindingKept` exempts overlapping deliveries);
- without a MsgId the key of a message is the second the bridge received it in
  (`Key`): delivered again later it is accepted again, and a second message in the
  same second is dropped;
- the key is recorded before the message is processed: when a record or the send
  fails, the redelivery is dropped as a duplicate;
- half a line in the trace log makes every reader of it fail from then on
  (`Readable`);
- `TicketAPI` and the session routes of the Ops API call `switch_active_ticket`,
  `reset_session_context`, `begin_new_issue`, `get_session_context` and
  `list_session_ticket_ids`, which `SessionMapper` does not define; a session bound
  to a closed ticket therefore has no way to a new one, and each of its messages
  ends in `RefuseClosed`.

On turns:

- the metadata of the last generation is one variable of the engine, and concurrent
  turns store each other's (`core/workflow_engine.py:214`; EVAL.md:14);
- a complaint on a resolved ticket raises, since `resolved` may not move to
  `handoff`;
- a session that began with a consulting message is not pushed when a later message
  of it is handed off (`workflows/support_intake_workflow.py:102`, README.md:79);
- "你好，我要投诉", one word of greeting and one of complaint, ties, and the earlier
  intent wins: queue `faq`, no hand-off; "hi" is found inside other words;
- `_derive_ticket_action` reports `create_ticket` or `notify_collab` for tickets that
  existed.

On files:

- `apply_all` after `rollback_last` of 0003 or 0004 raises "duplicate column", since
  the down scripts leave the columns (工单系统计划书.md:277, TODO.md:73;
  `storage/migration_manager.py:25`);
- a deployment goes on when the database cannot be migrated ("degraded"), and
  `verify_release` migrates it by its health check;
- after a kill in `save_state` every deployment, rollback and verification raises;
- releases A, B, C and two rollbacks lose A, and two releases in one second share a
  snapshot directory;
- overlapping requests on the knowledge base lose updates; once its file is
  unreadable every route over it answers 400 `invalid_payload`;
- PATCH accepts blank fields and any `source_type`, and edits never reach retrieval,
  which loads the seed files once.

## 6. Not modelled, and why

- `append_event` with an idempotency key: no caller in the repository passes one.
- `switch_active_session_ticket` and the session routes: they raise AttributeError on
  their first call of `SessionMapper`.
- `assess_disambiguation` and `resolve_generation_type`: imported from modules that
  are not in the repository; `Turns` leaves the branches they decide out.
- Retrieval, recommended actions, duplicate scores: numbers computed from one request
  over data that is loaded once. What a model depends on (which tickets are
  suggested for a merge) is a free choice.
- The tool router: only `search_kb` is ever called through it, read only.
- Views (lists, copilot, dashboard): computed from one read, nothing is written.
- Vendor payloads and HMAC: conversion of one payload. `Gateway` keeps what the gate
  looks at and whether the signature verifies.
- Acceptance and evaluation scripts: tests of the program. Web console: a client.
- SQLite itself: a statement is atomic and durable; "database is locked" is a
  cut-off. `shutil.copy2` of the live database (`scripts/deploy_release.py:106`) is one
  step too: a copy torn by a write in the middle of it is not seen.
- Other tickets than the bound one in `resolve_existing_ticket_id` (a ticket named in
  the text, an active one asked about): the candidates come from metadata that nothing
  on the way of a message sets, so only the bound ticket is left.
- `require_ticket` at the end of a reassign to a queue
  (`scripts/ops_api_server.py:1403`): `Execute` takes it to return what was written.

## 7. Plan

Done: the modules of section 2, in the order of importance: the ticket lifecycle, on
which everything stands, what decides over people's actions, what lets messages in,
merges, the gateway, turns, releases, the knowledge base.

Proved: every safety invariant, action property and refinement that a run checks.

Left: nothing that the proof system reaches is planned. What would extend the project
is in section 6: the retrieval and the tool router, once they keep state that requests
share, and the session routes, once `SessionMapper` has the methods they call.
