----------------------- MODULE TicketRequests_proofs -----------------------
(***************************************************************************)
(* Proofs about TicketRequests, for every set of tickets and workers and   *)
(* every bound on the requests.                                            *)
(***************************************************************************)
EXTENDS TicketRequests, TLAPS

USE NoTicketAssumption, MaxRequestsAssumption, CommandsAssumption

-----------------------------------------------------------------------------
(* The operators the steps are built from.                                 *)

Rows == [status : Status \cup {Absent}, stage : Stage, needs : BOOLEAN,
         resolvedAt : BOOLEAN, closedAt : BOOLEAN, rev : Nat]

\* The programs of the handlers are made of calls the model knows.
LEMMA ProgramType ==
  ASSUME NEW c \in AllCommands
  PROVE  /\ FirstCall(c) \in (Calls \ {"closing", "flag", "unflag"})
         /\ FirstCall(c) = "create" <=> c = "create"
         /\ SecondCall(c) \in {"return", "touch", "assign", "draft", "handoff"}
  BY DEF AllCommands, FirstCall, SecondCall, Calls, Transitions, Plain

\* _transition_status is only asked for statuses there are.
LEMMA TargetType ==
  ASSUME NEW k \in Transitions
  PROVE  Target(k) \in Status
  BY DEF Transitions, Target, Status

\* Every UPDATE leaves a well-formed row.
LEMMA WrittenType ==
  ASSUME NEW r \in Rows, NEW k \in Calls \ {"close"}
  PROVE  Written(k, r) \in Rows
<1> DEFINE w == [r EXCEPT !.rev = r.rev + 1]
<1>1. w \in Rows
  BY DEF Rows
<1>2. CASE k \in {"touch", "draft", "await", "flag", "unflag"}
  BY <1>1, <1>2 DEF Rows, Written, Stage
<1>3. CASE k \in {"create", "assign", "resume", "escalate", "handoff"}
  BY <1>1, <1>3 DEF Rows, Written, Stage, Status
<1>4. CASE k \in {"resolve", "closing"}
  BY <1>1, <1>4 DEF Rows, Written, Stage, Status
<1> QED
  BY <1>2, <1>3, <1>4 DEF Calls, Transitions, Plain

\* Everything the properties need to know of the UPDATE of a call.
LEMMA WrittenColumns ==
  ASSUME NEW r \in Rows, NEW k \in Calls \ {"close"}
  PROVE  LET n == Written(k, r) IN
         /\ n.status = IF k = "create" THEN "open"
                       ELSE IF k \in Transitions THEN Target(k) ELSE r.status
         /\ n.resolvedAt <=> r.resolvedAt \/ k = "resolve"
         /\ n.closedAt <=> r.closedAt \/ k = "closing"
         /\ n.needs <=> \/ k \in {"flag", "handoff"}
                        \/ r.needs /\ k \notin {"unflag", "resume", "resolve", "closing"}
<1> DEFINE w == [r EXCEPT !.rev = r.rev + 1]
<1>1. /\ w \in Rows /\ w.status = r.status /\ w.needs = r.needs
      /\ w.resolvedAt = r.resolvedAt /\ w.closedAt = r.closedAt
  BY DEF Rows
<1>2a. CASE k \in {"touch", "draft", "await"}
  BY <1>1, <1>2a DEF Rows, Written, Transitions
<1>2b. CASE k \in {"flag", "unflag"}
  BY <1>1, <1>2b DEF Rows, Written, Transitions
<1>3. CASE k \in {"create", "assign", "resume", "escalate", "handoff"}
  BY <1>1, <1>3 DEF Rows, Written, Transitions, Target
<1>4. CASE k \in {"resolve", "closing"}
  BY <1>1, <1>4 DEF Rows, Written, Transitions, Target
<1> QED
  BY <1>2a, <1>2b, <1>3, <1>4 DEF Calls, Transitions, Plain

\* A write never leaves the row without a status.
LEMMA WrittenStatus ==
  ASSUME NEW r \in Rows, NEW k \in Calls \ {"close"}, k # "create" => r.status # Absent
  PROVE  Written(k, r).status # Absent
<1>1. "open" # Absent /\ \A j \in Transitions : Target(j) # Absent
  BY DEF Target, Transitions, Absent
<1> QED
  BY <1>1, WrittenColumns

\* So is the row of a ticket that has not been created.
LEMMA NoRowType == NoRow \in Rows
  BY DEF Rows, NoRow, Stage

-----------------------------------------------------------------------------
(* A step keeps the variables typed.                                       *)

\* A worker that answers its client keeps the variables typed.
LEMMA FinishType ==
  ASSUME TypeOK, Placed, NEW w \in Workers, Finish(w)
  PROVE  /\ pc' \in [Workers -> {"idle", "read", "check", "write", "log"}]
         /\ on' \in [Workers -> Tickets \cup {NoTicket}]
         /\ call' \in [Workers -> Calls]
         /\ rest' \in [Workers -> {"return", "closing", "touch", "assign", "draft",
                                   "await", "handoff"}]
         /\ seen' \in [Workers -> Status \cup {Absent}]
         /\ Placed'
  BY DEF TypeOK, Finish, Calls, Plain, Placed

\* A request in flight is on a ticket of the table.
LEMMA RowOfRequest ==
  ASSUME TypeOK, Placed, NEW w \in Workers, InFlight(w)
  PROVE  /\ on[w] \in Tickets
         /\ row[on[w]] \in Rows
         /\ row[on[w]].status \in Status \cup {Absent}
  BY DEF TypeOK, Placed, InFlight, Rows

\* The variables are typed at first, and every worker is idle.
LEMMA InitType == Init => TypeOK /\ Placed
  BY NoRowType DEF Init, TypeOK, Rows, Calls, Plain, Placed

\* Every step keeps them typed and a worker on a ticket exactly while it is busy.
LEMMA NextType == TypeOK /\ Placed /\ WorkerShape /\ [Next]_vars => TypeOK' /\ Placed'
<1> SUFFICES ASSUME TypeOK, Placed, WorkerShape, [Next]_vars
             PROVE  TypeOK' /\ Placed'
  OBVIOUS
<1>1. ASSUME NEW w \in Workers, NEW c \in Commands, NEW t \in Tickets, Start(w, c, t)
      PROVE  TypeOK' /\ Placed'
  <2>1. /\ FirstCall(c) \in Calls
        /\ SecondCall(c) \in {"return", "touch", "assign", "draft", "handoff"}
    BY ProgramType
  <2>a. started' \in 0 .. MaxRequests
    BY <1>1 DEF TypeOK, Start
  <2>b. /\ pc' \in [Workers -> {"idle", "read", "check", "write", "log"}]
        /\ on' \in [Workers -> Tickets \cup {NoTicket}]
    BY <1>1 DEF TypeOK, Start
  <2>c. /\ call' \in [Workers -> Calls]
        /\ rest' \in [Workers -> {"return", "closing", "touch", "assign", "draft",
                                  "await", "handoff"}]
    BY <1>1, <2>1 DEF TypeOK, Start
  <2>d. overlapped' \in SUBSET Tickets
    BY <1>1 DEF TypeOK, Start
  <2>2. TypeOK'
    BY <1>1, <2>a, <2>b, <2>c, <2>d DEF TypeOK, Start
  <2>3. Placed'
    BY <1>1 DEF TypeOK, Placed, Start
  <2> QED
    BY <2>2, <2>3
<1>2. ASSUME NEW w \in Workers, Refuse(w)
      PROVE  TypeOK' /\ Placed'
  BY <1>2, FinishType DEF TypeOK, Refuse
<1>3. ASSUME NEW w \in Workers, ReadPlain(w)
      PROVE  TypeOK' /\ Placed'
  <2>1. WithoutStatus(call[w]) \in Calls
    BY DEF WithoutStatus, Calls
  <2>2. InFlight(w) /\ row[on[w]].status \in Status \cup {Absent}
    BY <1>3, RowOfRequest DEF ReadPlain, Reading, InFlight
  <2>3. call' \in [Workers -> Calls]
    BY <1>3, <2>1 DEF TypeOK, ReadPlain
  <2> QED
    BY <1>3, <2>2, <2>3 DEF TypeOK, Placed, ReadPlain, Reading, InFlight
<1>4. ASSUME NEW w \in Workers, ReadTransition(w)
      PROVE  TypeOK' /\ Placed'
  BY <1>4, RowOfRequest DEF TypeOK, Placed, ReadTransition, Reading, InFlight
<1>5. ASSUME NEW w \in Workers, ReadClose(w)
      PROVE  TypeOK' /\ Placed'
  <2>1. {"closing", "resolve"} \subseteq Calls
    BY DEF Calls, Transitions
  <2>2. InFlight(w) /\ row[on[w]].status \in Status \cup {Absent}
    BY <1>5, RowOfRequest DEF ReadClose, Reading, InFlight
  <2>3. /\ pc[w] = "read" /\ seen' = [seen EXCEPT ![w] = row[on[w]].status]
        /\ UNCHANGED <<row, log, on, started, overlapped, cut>>
    BY <1>5 DEF ReadClose, Reading
  <2>4. /\ \E k \in {"closing", "resolve"} : call' = [call EXCEPT ![w] = k]
        /\ rest' = rest \/ rest' = [rest EXCEPT ![w] = "closing"]
        /\ pc' = pc \/ pc' = [pc EXCEPT ![w] = "check"]
    BY <1>5 DEF ReadClose
  <2>5. /\ call' \in [Workers -> Calls]
        /\ pc' \in [Workers -> {"idle", "read", "check", "write", "log"}]
        /\ seen' \in [Workers -> Status \cup {Absent}]
    <3>1. /\ pc \in [Workers -> {"idle", "read", "check", "write", "log"}]
          /\ call \in [Workers -> Calls] /\ seen \in [Workers -> Status \cup {Absent}]
      BY DEF TypeOK
    <3>2. call' \in [Workers -> Calls]
      BY <2>1, <2>4, <3>1
    <3>3. pc' \in [Workers -> {"idle", "read", "check", "write", "log"}]
      BY <2>4, <3>1
    <3>4. seen' \in [Workers -> Status \cup {Absent}]
      BY <2>2, <2>3, <3>1
    <3> QED BY <3>2, <3>3, <3>4
  <2> QED
    BY <2>2, <2>3, <2>4, <2>5 DEF TypeOK, Placed, InFlight
<1>6. ASSUME NEW w \in Workers, Check(w)
      PROVE  TypeOK' /\ Placed'
  BY <1>6, RowOfRequest DEF TypeOK, Placed, Check, InFlight
<1>7. ASSUME NEW w \in Workers, Forbid(w)
      PROVE  TypeOK' /\ Placed'
  BY <1>7, FinishType DEF TypeOK, Forbid
<1>8. ASSUME NEW w \in Workers, Write(w)
      PROVE  TypeOK' /\ Placed'
  <2>1. InFlight(w) /\ call[w] \in Calls \ {"close"}
    BY <1>8 DEF Write, InFlight, WorkerShape, TypeOK
  <2>2. Written(call[w], row[on[w]]) \in Rows
    BY <2>1, RowOfRequest, WrittenType
  <2>3. row' \in [Tickets -> Rows]
    BY <1>8, <2>2 DEF TypeOK, Write, Rows
  <2> QED
    BY <1>8, <2>3, RowOfRequest DEF TypeOK, Placed, Write, Rows
<1>9. ASSUME NEW w \in Workers, Log(w)
      PROVE  TypeOK' /\ Placed'
  <2>1. InFlight(w) /\ on[w] \in Tickets
    BY <1>9, RowOfRequest DEF Log, InFlight
  <2>2. CarriesStatus(call[w]) => Entry(w) \in [from : Status \cup {Absent}, to : Status]
    BY TargetType DEF CarriesStatus, Entry, TypeOK, Status
  <2>3. log' \in [Tickets -> Seq([from : Status \cup {Absent}, to : Status])]
    <3> DEFINE E == [from : Status \cup {Absent}, to : Status]
    <3>1. log \in [Tickets -> Seq(E)] /\ log[on[w]] \in Seq(E)
      BY <2>1 DEF TypeOK
    <3>2. CASE CarriesStatus(call[w])
      <4>1. Append(log[on[w]], Entry(w)) \in Seq(E)
        BY <2>2, <3>1, <3>2
      <4>2. log' = [log EXCEPT ![on[w]] = Append(@, Entry(w))]
        BY <1>9, <3>2 DEF Log
      <4> QED
        BY <3>1, <4>1, <4>2
    <3>3. CASE ~CarriesStatus(call[w])
      BY <1>9, <3>1, <3>3 DEF Log
    <3> QED
      BY <3>2, <3>3
  <2>4. CASE rest[w] = "return"
    BY <1>9, <2>3, <2>4, FinishType DEF TypeOK, Log
  <2>5. CASE rest[w] # "return"
    <3>1. rest[w] \in Calls /\ ThirdCall(rest[w]) \in {"await", "return"}
      BY <2>5 DEF TypeOK, Calls, Transitions, Plain, ThirdCall
    <3>2. /\ call' = [call EXCEPT ![w] = rest[w]] /\ UNCHANGED <<on, seen>>
          /\ rest' = [rest EXCEPT ![w] = ThirdCall(rest[w])]
          /\ \E p \in {"check", "read"} : pc' = [pc EXCEPT ![w] = p]
          /\ UNCHANGED <<row, started, overlapped, cut>> /\ pc[w] = "log"
      BY <1>9, <2>5 DEF Log
    <3>3. /\ call' \in [Workers -> Calls]
          /\ pc' \in [Workers -> {"idle", "read", "check", "write", "log"}]
      BY <3>1, <3>2 DEF TypeOK
    <3> QED
      BY <2>1, <2>3, <3>1, <3>2, <3>3 DEF TypeOK, Placed, InFlight
  <2> QED
    BY <2>4, <2>5
<1>10. ASSUME NEW w \in Workers, Crash(w)
       PROVE  TypeOK' /\ Placed'
  BY <1>10, FinishType, RowOfRequest DEF TypeOK, Crash
<1>11. CASE UNCHANGED vars
  BY <1>11 DEF vars, TypeOK, Placed
<1> QED
  BY <1>1, <1>2, <1>3, <1>4, <1>5, <1>6, <1>7, <1>8, <1>9, <1>10, <1>11 DEF Next, Step
-----------------------------------------------------------------------------
(* The conjuncts of IInv, one lemma each.                                  *)

\* What a write leaves in the table.
LEMMA WriteRow ==
  ASSUME TypeOK, Placed, WorkerShape, NEW w \in Workers, Write(w)
  PROVE  /\ on[w] \in Tickets /\ row[on[w]] \in Rows
         /\ call[w] \in Calls \ {"close"}
         /\ row'[on[w]] = Written(call[w], row[on[w]])
         /\ \A t \in Tickets : t # on[w] => row'[t] = row[t]
         /\ \A t \in Tickets : row[t] \in Rows
<1>1. InFlight(w) /\ call[w] \in Calls \ {"close"}
  BY DEF Write, InFlight, WorkerShape, TypeOK
<1>2. on[w] \in Tickets /\ row[on[w]] \in Rows
  BY <1>1, RowOfRequest
<1>3. \A t \in Tickets : row[t] \in Rows
  BY DEF TypeOK, Rows
<1> QED
  BY <1>1, <1>2, <1>3 DEF Write, TypeOK

\* After a write the ticket has a row.
LEMMA WriteAppears ==
  ASSUME TypeOK, Placed, WorkerShape, NEW w \in Workers, Write(w)
  PROVE  row'[on[w]].status # Absent
<1>1. call[w] # "create" => row[on[w]].status # Absent
  BY DEF Write, WorkerShape, InFlight
<1> QED
  BY <1>1, WriteRow, WrittenStatus

\* A worker that finishes is idle and holds nothing; the others are as before.
LEMMA FinishFrees ==
  ASSUME TypeOK, NEW w \in Workers, Finish(w)
  PROVE  /\ pc'[w] = "idle" /\ on'[w] = NoTicket /\ call'[w] = "touch" /\ rest'[w] = "return"
         /\ \A v \in Workers : v # w => /\ pc'[v] = pc[v] /\ on'[v] = on[v]
                                      /\ call'[v] = call[v] /\ rest'[v] = rest[v]
                                      /\ seen'[v] = seen[v]
  BY DEF TypeOK, Finish

\* A worker stays within the programs: each step hands it on to a call that
\* step may make, on a row that is there unless it is about to insert it.
LEMMA ShapeStep ==
  ASSUME TypeOK, Placed, WorkerShape, MeetingsNoticed, [Next]_vars
  PROVE  WorkerShape'
<1>1. ASSUME NEW w \in Workers, NEW c \in Commands, NEW t \in Tickets, Start(w, c, t)
      PROVE  WorkerShape'
  <2>1. /\ FirstCall(c) \in (Calls \ {"closing", "flag", "unflag"})
        /\ FirstCall(c) = "create" <=> c = "create"
        /\ SecondCall(c) # "closing"
    BY ProgramType
  <2> QED
    BY <1>1, <2>1 DEF WorkerShape, InFlight, Start, TypeOK, Placed
<1>2. ASSUME NEW w \in Workers, Refuse(w)
      PROVE  WorkerShape'
  BY <1>2 DEF WorkerShape, InFlight, Refuse, Finish, TypeOK
<1>3. ASSUME NEW w \in Workers, ReadPlain(w)
      PROVE  WorkerShape'
  BY <1>3 DEF WorkerShape, InFlight, ReadPlain, Reading, TypeOK, Plain, StatusUpdates, WithoutStatus
<1>4. ASSUME NEW w \in Workers, ReadTransition(w)
      PROVE  WorkerShape'
  BY <1>4 DEF WorkerShape, InFlight, ReadTransition, Reading, TypeOK
<1>5. ASSUME NEW w \in Workers, ReadClose(w)
      PROVE  WorkerShape'
  BY <1>5 DEF WorkerShape, InFlight, ReadClose, Reading, TypeOK, Transitions
<1>6. ASSUME NEW w \in Workers, Check(w)
      PROVE  WorkerShape'
  BY <1>6 DEF WorkerShape, InFlight, Check, TypeOK, Transitions
<1>7. ASSUME NEW w \in Workers, Forbid(w)
      PROVE  WorkerShape'
  BY <1>7 DEF WorkerShape, InFlight, Forbid, Finish, TypeOK
<1>8. ASSUME NEW w \in Workers, Write(w)
      PROVE  WorkerShape'
  <2>1. row'[on[w]].status # Absent
    BY <1>8, WriteAppears
  <2>2. \A v \in Workers : v # w /\ InFlight(v) /\ on[v] = on[w] =>
           ~(call[v] = "create" /\ pc[v] = "write")
    BY <1>8 DEF MeetingsNoticed, WorkerShape, InFlight, Write
  <2>3. \A v \in Workers : InFlight(v) => on[v] \in Tickets
    BY RowOfRequest
  <2> QED
    BY <1>8, <2>1, <2>2, <2>3, WriteRow DEF WorkerShape, InFlight, Write, TypeOK
<1>9. ASSUME NEW w \in Workers, Log(w)
      PROVE  WorkerShape'
  <2>1. row' = row /\ row[on[w]].status # Absent
    BY <1>9 DEF WorkerShape, InFlight, Log
  <2>2. CASE rest[w] = "return"
    BY <1>9, <2>1, <2>2, FinishFrees DEF WorkerShape, InFlight, Log
  <2>3. CASE rest[w] # "return"
    <3>1. /\ rest[w] \in {"closing", "touch", "assign", "draft", "await", "handoff"}
          /\ ThirdCall(rest[w]) # "closing"
      BY <2>3 DEF TypeOK, ThirdCall
    <3>2. /\ call'[w] = rest[w] /\ rest'[w] = ThirdCall(rest[w]) /\ on' = on
          /\ pc'[w] = IF rest[w] = "closing" THEN "check" ELSE "read"
          /\ \A v \in Workers : v # w => /\ pc'[v] = pc[v] /\ call'[v] = call[v]
                                       /\ rest'[v] = rest[v]
      BY <1>9, <2>3 DEF Log, TypeOK
    <3> QED
      BY <2>1, <3>1, <3>2 DEF WorkerShape, InFlight, Transitions
  <2> QED
    BY <2>2, <2>3
<1>10. ASSUME NEW w \in Workers, Crash(w)
       PROVE  WorkerShape'
  BY <1>10 DEF WorkerShape, InFlight, Crash, Finish, TypeOK
<1>11. CASE UNCHANGED vars
  BY <1>11 DEF vars, WorkerShape, InFlight
<1> QED
  BY <1>1, <1>2, <1>3, <1>4, <1>5, <1>6, <1>7, <1>8, <1>9, <1>10, <1>11 DEF Next, Step

\* Two workers never come to be on one ticket unnoticed: Start records it.
LEMMA MeetingsStep ==
  ASSUME TypeOK, Placed, WorkerShape, MeetingsNoticed, [Next]_vars
  PROVE  MeetingsNoticed'
<1>1. ASSUME NEW w \in Workers, NEW c \in Commands, NEW t \in Tickets, Start(w, c, t)
      PROVE  MeetingsNoticed'
  BY <1>1 DEF MeetingsNoticed, InFlight, TypeOK, Placed, Start
<1>2. ASSUME NEW w \in Workers, Refuse(w)
      PROVE  MeetingsNoticed'
  BY <1>2, FinishFrees DEF MeetingsNoticed, InFlight, Placed, Refuse
<1>3. ASSUME NEW w \in Workers, ReadPlain(w)
      PROVE  MeetingsNoticed'
  BY <1>3 DEF MeetingsNoticed, InFlight, TypeOK, ReadPlain, Reading
<1>4. ASSUME NEW w \in Workers, ReadTransition(w)
      PROVE  MeetingsNoticed'
  BY <1>4 DEF MeetingsNoticed, InFlight, TypeOK, ReadTransition, Reading
<1>5. ASSUME NEW w \in Workers, ReadClose(w)
      PROVE  MeetingsNoticed'
  BY <1>5 DEF MeetingsNoticed, InFlight, TypeOK, ReadClose, Reading
<1>6. ASSUME NEW w \in Workers, Check(w)
      PROVE  MeetingsNoticed'
  BY <1>6 DEF MeetingsNoticed, InFlight, TypeOK, Check
<1>7. ASSUME NEW w \in Workers, Forbid(w)
      PROVE  MeetingsNoticed'
  BY <1>7, FinishFrees DEF MeetingsNoticed, InFlight, Placed, Forbid
<1>8. ASSUME NEW w \in Workers, Write(w)
      PROVE  MeetingsNoticed'
  <2>1. row'[on[w]].status # Absent
    BY <1>8, WriteAppears
  <2>2. \A v \in Workers : InFlight(v) => on[v] \in Tickets
    BY RowOfRequest
  <2> QED
    BY <1>8, <2>1, <2>2, WriteRow DEF MeetingsNoticed, InFlight, Write, TypeOK
<1>9. ASSUME NEW w \in Workers, Log(w)
      PROVE  MeetingsNoticed'
  <2>1. CASE rest[w] = "return"
    BY <1>9, <2>1, FinishFrees DEF MeetingsNoticed, InFlight, Placed, Log
  <2>2. CASE rest[w] # "return"
    BY <1>9, <2>2 DEF MeetingsNoticed, InFlight, TypeOK, Log
  <2> QED
    BY <2>1, <2>2
<1>10. ASSUME NEW w \in Workers, Crash(w)
      PROVE  MeetingsNoticed'
  BY <1>10, FinishFrees DEF MeetingsNoticed, InFlight, Placed, Crash
<1>11. CASE UNCHANGED vars
  BY <1>11 DEF vars, MeetingsNoticed, InFlight
<1> QED
  BY <1>1, <1>2, <1>3, <1>4, <1>5, <1>6, <1>7, <1>8, <1>9, <1>10, <1>11 DEF Next, Step

\* Nothing unsets resolved_at, so the second half of close_ticket keeps it.
LEMMA ClosingStep ==
  ASSUME TypeOK, Placed, WorkerShape, ClosingWasResolved, FinishedWasResolved, [Next]_vars
  PROVE  ClosingWasResolved'
<1>1. ASSUME NEW w \in Workers, NEW c \in Commands, NEW t \in Tickets, Start(w, c, t)
      PROVE  ClosingWasResolved'
  <2>1. FirstCall(c) # "closing" /\ SecondCall(c) # "closing"
    BY ProgramType
  <2> QED
    BY <1>1, <2>1 DEF ClosingWasResolved, InFlight, TypeOK, Placed, Start
<1>2. ASSUME NEW w \in Workers, Refuse(w)
      PROVE  ClosingWasResolved'
  BY <1>2 DEF ClosingWasResolved, InFlight, TypeOK, WorkerShape, Refuse, Finish
<1>3. ASSUME NEW w \in Workers, ReadPlain(w)
      PROVE  ClosingWasResolved'
  BY <1>3 DEF ClosingWasResolved, InFlight, TypeOK, WorkerShape, Plain, StatusUpdates, WithoutStatus, ReadPlain, Reading
<1>4. ASSUME NEW w \in Workers, ReadTransition(w)
      PROVE  ClosingWasResolved'
  BY <1>4 DEF ClosingWasResolved, InFlight, TypeOK, WorkerShape, ReadTransition, Reading
<1>5. ASSUME NEW w \in Workers, ReadClose(w)
      PROVE  ClosingWasResolved'
  <2>1. row[on[w]].status = "resolved" => row[on[w]].resolvedAt
    BY <1>5, RowOfRequest DEF FinishedWasResolved, InFlight, ReadClose, Reading
  <2> QED
    BY <1>5, <2>1 DEF ClosingWasResolved, InFlight, TypeOK, WorkerShape, ReadClose, Reading
<1>6. ASSUME NEW w \in Workers, Check(w)
      PROVE  ClosingWasResolved'
  BY <1>6 DEF ClosingWasResolved, InFlight, TypeOK, WorkerShape, Check
<1>7. ASSUME NEW w \in Workers, Forbid(w)
      PROVE  ClosingWasResolved'
  BY <1>7 DEF ClosingWasResolved, InFlight, TypeOK, WorkerShape, Forbid, Finish
<1>8. ASSUME NEW w \in Workers, Write(w)
      PROVE  ClosingWasResolved'
  <2>1. \A t \in Tickets : row[t].resolvedAt => row'[t].resolvedAt
    BY <1>8, WriteRow, WrittenColumns
  <2>2. call[w] = "resolve" => row'[on[w]].resolvedAt
    BY <1>8, WriteRow, WrittenColumns
  <2>3. \A v \in Workers : InFlight(v) => on[v] \in Tickets
    BY RowOfRequest
  <2> QED
    BY <1>8, <2>1, <2>2, <2>3 DEF ClosingWasResolved, WorkerShape, InFlight, Write, TypeOK
<1>9. ASSUME NEW w \in Workers, Log(w)
      PROVE  ClosingWasResolved'
  BY <1>9 DEF ClosingWasResolved, InFlight, TypeOK, WorkerShape, Log, Finish, ThirdCall
<1>10. ASSUME NEW w \in Workers, Crash(w)
      PROVE  ClosingWasResolved'
  BY <1>10 DEF ClosingWasResolved, InFlight, TypeOK, WorkerShape, Crash, Finish
<1>11. CASE UNCHANGED vars
  BY <1>11 DEF vars, ClosingWasResolved, InFlight
<1> QED
  BY <1>1, <1>2, <1>3, <1>4, <1>5, <1>6, <1>7, <1>8, <1>9, <1>10, <1>11 DEF Next, Step

\* Only the writes of resolve and close reach a finished status, and each
\* brings, or finds, the times it needs.
LEMMA FinishedStep ==
  ASSUME TypeOK, Placed, WorkerShape, ClosingWasResolved, FinishedWasResolved, [Next]_vars
  PROVE  FinishedWasResolved'
<1>1. ASSUME NEW w \in Workers, Write(w)
      PROVE  FinishedWasResolved'
  <2>1. call[w] = "closing" => row[on[w]].resolvedAt
    BY <1>1 DEF ClosingWasResolved, InFlight, Write
  <2>2. /\ row'[on[w]].status \in {"resolved", "closed"} => row'[on[w]].resolvedAt
        /\ row'[on[w]].status = "closed" => row'[on[w]].closedAt
    BY <1>1, <2>1, WriteRow, WrittenColumns
       DEF FinishedWasResolved, Target, Transitions
  <2> QED
    BY <1>1, <2>2, WriteRow DEF FinishedWasResolved
<1>2. CASE UNCHANGED row
  BY <1>2 DEF FinishedWasResolved
<1> QED
  BY <1>1, <1>2 DEF Next, Step, Start, Refuse, ReadPlain, ReadTransition, ReadClose, Reading,
                    Check, Forbid, Log, Crash, vars

\* What a lone worker has read still holds when it writes.
LEMMA ReadsHoldStep ==
  ASSUME TypeOK, Placed, WorkerShape, MeetingsNoticed, ReadsHold, [Next]_vars
  PROVE  ReadsHold'
<1>1. ASSUME NEW w \in Workers, NEW c \in Commands, NEW t \in Tickets, Start(w, c, t)
      PROVE  ReadsHold'
  <2>1. c = "create" => FirstCall(c) = "create"
    BY ProgramType
  <2>2. /\ \A v \in Workers : v # w => /\ pc'[v] = pc[v] /\ on'[v] = on[v]
                                       /\ call'[v] = call[v] /\ rest'[v] = rest[v]
        /\ seen' = seen /\ row' = row /\ overlapped \subseteq overlapped'
        /\ pc'[w] = (IF c = "create" THEN "write" ELSE "read")
        /\ on'[w] = t /\ call'[w] = FirstCall(c)
        /\ c = "create" => row[t].status = Absent
    BY <1>1 DEF Start, TypeOK
  <2> QED
    BY <2>1, <2>2 DEF ReadsHold, InFlight, Transitions, Absent
<1>2. ASSUME NEW w \in Workers, Refuse(w)
      PROVE  ReadsHold'
  BY <1>2, FinishFrees DEF ReadsHold, InFlight, Refuse
<1>3. ASSUME NEW w \in Workers, ReadPlain(w)
      PROVE  ReadsHold'
  BY <1>3 DEF ReadsHold, InFlight, TypeOK, Plain, Transitions, StatusUpdates,
              WithoutStatus, Target, ReadPlain, Reading
<1>4. ASSUME NEW w \in Workers, ReadTransition(w)
      PROVE  ReadsHold'
  BY <1>4 DEF ReadsHold, InFlight, TypeOK, ReadTransition, Reading
<1>5. ASSUME NEW w \in Workers, ReadClose(w)
      PROVE  ReadsHold'
  BY <1>5 DEF ReadsHold, InFlight, TypeOK, ReadClose, Reading
<1>6. ASSUME NEW w \in Workers, Check(w)
      PROVE  ReadsHold'
  BY <1>6 DEF ReadsHold, InFlight, TypeOK, WorkerShape, Transitions, Check
<1>7. ASSUME NEW w \in Workers, Forbid(w)
      PROVE  ReadsHold'
  BY <1>7, FinishFrees DEF ReadsHold, InFlight, Forbid
<1>8. ASSUME NEW w \in Workers, Write(w)
      PROVE  ReadsHold'
  <2>1. rest[w] = "closing" => row'[on[w]].status = "resolved"
    BY <1>8, WriteRow, WrittenColumns DEF WorkerShape, Transitions, Target
  <2>2. /\ pc'[w] = "log" /\ on' = on /\ call' = call /\ rest' = rest /\ seen' = seen
        /\ overlapped' = overlapped
        /\ \A v \in Workers : v # w => pc'[v] = pc[v]
    BY <1>8 DEF Write, TypeOK
  <2>3. \A v \in Workers : v # w /\ InFlight(v) /\ on[v] \notin overlapped =>
           row'[on[v]] = row[on[v]]
    <3> SUFFICES ASSUME NEW v \in Workers, v # w, InFlight(v), on[v] \notin overlapped
                 PROVE  row'[on[v]] = row[on[v]]
      OBVIOUS
    <3>1. on[v] \in Tickets /\ InFlight(w)
      BY <1>8, RowOfRequest DEF InFlight, Write
    <3>2. on[v] # on[w]
      BY <3>1 DEF MeetingsNoticed
    <3> QED
      BY <1>8, <3>1, <3>2, WriteRow
  <2> QED
    BY <2>1, <2>2, <2>3 DEF ReadsHold, InFlight
<1>9. ASSUME NEW w \in Workers, Log(w)
      PROVE  ReadsHold'
  <2>1. row' = row /\ overlapped' = overlapped /\ InFlight(w)
    BY <1>9 DEF Log, InFlight
  <2>2. CASE rest[w] = "return"
    BY <1>9, <2>1, <2>2, FinishFrees DEF ReadsHold, InFlight, Log
  <2>3. CASE rest[w] # "return"
    <3>1. /\ call'[w] = rest[w] /\ on' = on /\ seen' = seen
          /\ pc'[w] = IF rest[w] = "closing" THEN "check" ELSE "read"
          /\ \A v \in Workers : v # w => /\ pc'[v] = pc[v] /\ call'[v] = call[v]
                                       /\ rest'[v] = rest[v]
      BY <1>9, <2>3 DEF Log, TypeOK
    <3> QED
      BY <1>9, <2>1, <3>1 DEF ReadsHold, InFlight, Log
  <2> QED
    BY <2>2, <2>3
<1>10. ASSUME NEW w \in Workers, Crash(w)
       PROVE  ReadsHold'
  BY <1>10, FinishFrees DEF ReadsHold, InFlight, Crash
<1>11. CASE UNCHANGED vars
  BY <1>11 DEF vars, ReadsHold, InFlight
<1> QED
  BY <1>1, <1>2, <1>3, <1>4, <1>5, <1>6, <1>7, <1>8, <1>9, <1>10, <1>11 DEF Next, Step

\* A write to a ticket nobody else is on leaves no finished ticket asking for
\* a human: the flag is only raised on a row that is, or becomes, `handoff'.
LEMMA NeedsStep ==
  ASSUME TypeOK, Placed, WorkerShape, ReadsHold, FinishedNeedsNobody, [Next]_vars
  PROVE  FinishedNeedsNobody'
<1>1. ASSUME NEW w \in Workers, Write(w)
      PROVE  FinishedNeedsNobody'
  <2>1. InFlight(w) /\ overlapped' = overlapped
    BY <1>1 DEF InFlight, Write
  <2>2. on[w] \notin overlapped /\ call[w] = "flag" => row[on[w]].status = "handoff"
    BY <1>1, <2>1 DEF ReadsHold, Write
  <2>3. on[w] \notin overlapped /\ row'[on[w]].status \in {"resolved", "closed"}
           => ~row'[on[w]].needs
    BY <1>1, <2>2, WriteRow, WrittenColumns
       DEF FinishedNeedsNobody, Target, Transitions
  <2> QED
    BY <1>1, <2>1, <2>3, WriteRow DEF FinishedNeedsNobody
<1>2. CASE row' = row /\ overlapped \subseteq overlapped'
  BY <1>2 DEF FinishedNeedsNobody
<1> QED
  BY <1>1, <1>2 DEF Next, Step, Start, Refuse, ReadPlain, ReadTransition, ReadClose, Reading,
                    Check, Forbid, Log, Crash, vars

\* The initial states satisfy the inductive invariant.
LEMMA InitIInv == Init => IInv
<1> SUFFICES ASSUME Init PROVE IInv
  OBVIOUS
<1>1. TypeOK /\ Placed
  BY InitType
<1>2. FinishedWasResolved /\ FinishedNeedsNobody
  BY DEF Init, NoRow, Absent, FinishedWasResolved, FinishedNeedsNobody
<1>3. \A w \in Workers : pc[w] = "idle" /\ rest[w] = "return"
  BY DEF Init
<1>4. WorkerShape /\ MeetingsNoticed /\ ClosingWasResolved /\ ReadsHold
  BY <1>3 DEF InFlight, WorkerShape, MeetingsNoticed, ClosingWasResolved, ReadsHold
<1> QED
  BY <1>1, <1>2, <1>4 DEF IInv

\* Every step keeps it.
LEMMA NextIInv == IInv /\ [Next]_vars => IInv'
  BY NextType, ShapeStep, MeetingsStep, ClosingStep, ReadsHoldStep, FinishedStep,
     NeedsStep DEF IInv

-----------------------------------------------------------------------------
(* The theorems.                                                           *)

\* IInv is an invariant: in every reachable state a request's place in its
\* handler, the row it is on and the meetings noted so far fit together.
THEOREM Invariance == Spec => []IInv
  BY InitIInv, NextIInv, PTL DEF Spec

\* The variables keep their types.
THEOREM TypeCorrect == Spec => []TypeOK
<1>1. IInv => TypeOK
  BY DEF IInv
<1> QED
  BY <1>1, Invariance, PTL

\* No interleaving or cut-off leaves a closed or resolved row without its
\* times, although close_ticket decides on reads that may be stale.
THEOREM FinishedRowsResolved == Spec => []FinishedWasResolved
<1>1. IInv => FinishedWasResolved
  BY DEF IInv
<1> QED
  BY <1>1, Invariance, PTL

\* A resolved or closed ticket that was never contended needs no human.
THEOREM FinishedRowsNeedNobody == Spec => []FinishedNeedsNobody
<1>1. IInv => FinishedNeedsNobody
  BY DEF IInv
<1> QED
  BY <1>1, Invariance, PTL

\* A closed ticket no two requests were ever on together is never written.
THEOREM ClosedStaysClosed == Spec => ClosedFrozen
<1> DEFINE Frozen == \A t \in Tickets : row[t].status = "closed" /\ t \notin overlapped
                                          => row'[t] = row[t]
<1>1. IInv /\ [Next]_vars => [Frozen]_vars
  <2> SUFFICES ASSUME IInv, [Next]_vars PROVE [Frozen]_vars
    OBVIOUS
  <2>1. ASSUME NEW w \in Workers, Write(w) PROVE Frozen
    <3>1. on[w] \notin overlapped => row[on[w]].status # "closed"
      BY <2>1 DEF IInv, ReadsHold, InFlight, Write
    <3> QED
      BY <2>1, <3>1, WriteRow DEF IInv
  <2>2. CASE row' = row
    BY <2>2
  <2> QED
    BY <2>1, <2>2 DEF Next, Step, Start, Refuse, ReadPlain, ReadTransition, ReadClose,
                      Reading, Check, Forbid, Log, Crash, vars
<1> QED
  BY <1>1, Invariance, PTL DEF Spec, ClosedFrozen

-----------------------------------------------------------------------------
(* The events account for the status.                                      *)

\* The status an account of events has reached, and when each of its entries
\* starts where the one before it ended.
Reached(s) == IF s = <<>> THEN Absent ELSE s[Len(s)].to
Linked(s) == \A i \in 1 .. Len(s) : s[i].from = IF i = 1 THEN Absent ELSE s[i - 1].to

Entries == [from : Status \cup {Absent}, to : Status]

\* The row is where the account has led, or where it will once the worker that
\* wrote the row has appended the event it owes.
Accounted(t) ==
  /\ Linked(log[t])
  /\ (\A w \in Workers : on[w] = t => pc[w] # "log") => row[t].status = Reached(log[t])
  /\ \A w \in Workers :
       on[w] = t /\ pc[w] = "log" =>
         IF CarriesStatus(call[w])
         THEN Entry(w).from = Reached(log[t]) /\ row[t].status = Entry(w).to
         ELSE row[t].status = Reached(log[t])

AuditInv == \A t \in Tickets \ (overlapped \cup cut) : Accounted(t)

\* An entry that starts where an account ends carries it on.
LEMMA AccountGoesOn ==
  ASSUME NEW s \in Seq(Entries), NEW e \in Entries, Linked(s), e.from = Reached(s)
  PROVE  Linked(Append(s, e)) /\ Reached(Append(s, e)) = e.to
<1> DEFINE a == Append(s, e)
<1>1. /\ Len(a) = Len(s) + 1 /\ a[Len(s) + 1] = e /\ Len(s) \in Nat
      /\ \A i \in 1 .. Len(s) : a[i] = s[i]
  OBVIOUS
<1>2. a # <<>>
  BY <1>1
<1>3. s = <<>> <=> Len(s) = 0
  OBVIOUS
<1> HIDE DEF a
<1>4. Reached(a) = e.to
  BY <1>1, <1>2 DEF Reached
<1>5. ASSUME NEW i \in 1 .. Len(a)
      PROVE  a[i].from = IF i = 1 THEN Absent ELSE a[i - 1].to
  <2>1. CASE i \in 1 .. Len(s)
    BY <1>1, <2>1 DEF Linked
  <2>2. CASE i = Len(s) + 1
    BY <1>1, <1>3, <2>2 DEF Reached
  <2> QED
    BY <1>1, <1>5, <2>1, <2>2
<1> QED
  BY <1>4, <1>5 DEF a, Linked

\* Steps that leave the log and the rows alone, and owe no other events than
\* before, keep every account.
LEMMA AccountsStay ==
  ASSUME AuditInv, TypeOK, row' = row, log' = log, overlapped \subseteq overlapped',
         cut \subseteq cut',
         \A w \in Workers : pc'[w] = "log" <=> pc[w] = "log",
         \A w \in Workers : pc[w] = "log" =>
           on'[w] = on[w] /\ call'[w] = call[w] /\ seen'[w] = seen[w]
  PROVE  AuditInv'
<1> SUFFICES ASSUME NEW t \in Tickets, t \notin overlapped', t \notin cut'
             PROVE  Accounted(t)'
  BY DEF AuditInv
<1>1. Accounted(t)
  BY DEF AuditInv
<1>2. \A w \in Workers : on'[w] = t /\ pc'[w] = "log" <=> on[w] = t /\ pc[w] = "log"
  OBVIOUS
<1>3. \A w \in Workers : pc[w] = "log" => Entry(w)' = Entry(w)
  BY DEF Entry
<1> QED
  BY <1>1, <1>2, <1>3 DEF Accounted

\* The event of an UPDATE goes from the status the row had to the one it has,
\* since nobody else wrote the row between the check and the UPDATE.
LEMMA AuditStep ==
  ASSUME IInv, AuditInv, [Next]_vars
  PROVE  AuditInv'
<1> USE DEF IInv
<1>1. ASSUME NEW w \in Workers, NEW c \in Commands, NEW t \in Tickets, Start(w, c, t)
      PROVE  AuditInv'
  <2>1. /\ row' = row /\ log' = log /\ cut' = cut /\ overlapped \subseteq overlapped'
        /\ seen' = seen /\ pc[w] = "idle" /\ pc'[w] # "log"
        /\ \A v \in Workers : v # w => pc'[v] = pc[v] /\ on'[v] = on[v] /\ call'[v] = call[v]
    BY <1>1 DEF Start, TypeOK
  <2> QED
    BY <2>1, AccountsStay
<1>2. ASSUME NEW w \in Workers, Refuse(w) \/ Forbid(w)
      PROVE  AuditInv'
  BY <1>2, AccountsStay, FinishFrees DEF Refuse, Forbid
<1>3. ASSUME NEW w \in Workers, ReadPlain(w) \/ ReadTransition(w) \/ ReadClose(w) \/ Check(w)
      PROVE  AuditInv'
  <2>1. /\ row' = row /\ log' = log /\ cut' = cut /\ overlapped' = overlapped /\ on' = on
        /\ pc[w] # "log" /\ pc'[w] # "log"
    BY <1>3 DEF ReadPlain, ReadTransition, ReadClose, Reading, Check, TypeOK
  <2>2. \A v \in Workers : v # w => pc'[v] = pc[v] /\ call'[v] = call[v] /\ seen'[v] = seen[v]
    BY <1>3 DEF ReadPlain, ReadTransition, ReadClose, Reading, Check, TypeOK
  <2> QED
    BY <2>1, <2>2, AccountsStay
<1>4. ASSUME NEW w \in Workers, Write(w)
      PROVE  AuditInv'
  <2> SUFFICES ASSUME NEW t \in Tickets, t \notin overlapped, t \notin cut
               PROVE  Accounted(t)'
    BY <1>4 DEF AuditInv, Write
  <2>1. Accounted(t)
    BY DEF AuditInv
  <2>2. /\ log' = log /\ on' = on /\ call' = call /\ seen' = seen /\ pc[w] = "write"
        /\ pc' = [pc EXCEPT ![w] = "log"] /\ InFlight(w)
    BY <1>4 DEF Write, InFlight
  <2>3. \A v \in Workers : Entry(v)' = Entry(v)
    BY <2>2 DEF Entry
  <2>4. CASE on[w] # t
    <3>1. row'[t] = row[t]
      BY <1>4, <2>4, WriteRow
    <3>2. \A v \in Workers : on'[v] = t => pc'[v] = pc[v]
      BY <2>2, <2>4 DEF TypeOK
    <3> QED
      BY <2>1, <2>2, <2>3, <3>1, <3>2 DEF Accounted
  <2>5. CASE on[w] = t
    <3>1. \A v \in Workers : v # w => on[v] # t
      BY <2>2, <2>5 DEF MeetingsNoticed, InFlight
    <3>2. row[t].status = Reached(log[t])
      BY <2>1, <2>2, <2>5, <3>1 DEF Accounted
    <3>3. row'[t].status = IF call[w] = "create" THEN "open"
                           ELSE IF call[w] \in Transitions THEN Target(call[w])
                           ELSE row[t].status
      BY <1>4, <2>5, WriteRow, WrittenColumns
    <3>4. IF CarriesStatus(call[w])
          THEN Entry(w).from = Reached(log[t]) /\ row'[t].status = Entry(w).to
          ELSE row'[t].status = Reached(log[t])
      <4>1. CASE call[w] = "create"
        BY <2>2, <2>5, <3>2, <3>3, <4>1 DEF Entry, CarriesStatus, WorkerShape
      <4>2. CASE call[w] # "create" /\ call[w] \in Transitions
        BY <2>2, <2>5, <3>2, <3>3, <4>2 DEF Entry, CarriesStatus, ReadsHold
      <4>3. CASE call[w] # "create" /\ call[w] \notin Transitions
        BY <3>2, <3>3, <4>3 DEF CarriesStatus
      <4> QED
        BY <4>1, <4>2, <4>3
    <3>5. pc'[w] = "log"
      BY <2>2 DEF TypeOK
    <3> QED
      BY <2>1, <2>2, <2>3, <2>5, <3>1, <3>4, <3>5 DEF Accounted
  <2> QED
    BY <2>4, <2>5
<1>5. ASSUME NEW w \in Workers, Log(w)
      PROVE  AuditInv'
  <2> SUFFICES ASSUME NEW t \in Tickets, t \notin overlapped, t \notin cut
               PROVE  Accounted(t)'
    BY <1>5 DEF AuditInv, Log
  <2>1. Accounted(t)
    BY DEF AuditInv
  <2>2. row' = row /\ pc[w] = "log" /\ pc'[w] # "log" /\ InFlight(w) /\ on[w] \in Tickets
    BY <1>5, RowOfRequest DEF Log, Finish, TypeOK, InFlight
  <2>3. \A v \in Workers : v # w => /\ pc'[v] = pc[v] /\ on'[v] = on[v]
                                    /\ call'[v] = call[v] /\ seen'[v] = seen[v]
    BY <1>5 DEF Log, Finish, TypeOK
  <2>4. \A v \in Workers : v # w => Entry(v)' = Entry(v)
    BY <2>3 DEF Entry
  <2>5. CASE on[w] # t
    <3>1. log'[t] = log[t]
      BY <1>5, <2>2, <2>5 DEF Log, TypeOK
    <3> QED
      BY <2>1, <2>2, <2>3, <2>4, <2>5, <3>1 DEF Accounted
  <2>6. CASE on[w] = t
    <3>1. \A v \in Workers : v # w => on[v] # t
      BY <2>2, <2>6 DEF MeetingsNoticed, InFlight
    <3>2. Linked(log'[t]) /\ row[t].status = Reached(log'[t])
      <4>1. CASE CarriesStatus(call[w])
        <5>1. Entry(w) \in Entries
          BY <4>1, TargetType DEF CarriesStatus, Entry, TypeOK, Status, Entries
        <5>2. log[t] \in Seq(Entries)
          BY DEF TypeOK, Entries
        <5>3. log'[t] = Append(log[t], Entry(w))
          BY <1>5, <2>6, <4>1 DEF Log, TypeOK
        <5>4. Linked(log[t]) /\ Entry(w).from = Reached(log[t]) /\ row[t].status = Entry(w).to
          BY <2>1, <2>2, <2>6, <4>1 DEF Accounted
        <5> QED
          BY <5>1, <5>2, <5>3, <5>4, AccountGoesOn
      <4>2. CASE ~CarriesStatus(call[w])
        BY <1>5, <2>1, <2>2, <2>6, <4>2 DEF Log, Accounted
      <4> QED
        BY <4>1, <4>2
    <3>3. \A v \in Workers : on'[v] = t => pc'[v] # "log"
      BY <2>2, <2>3, <3>1
    <3> QED
      BY <2>2, <3>2, <3>3 DEF Accounted
  <2> QED
    BY <2>5, <2>6
<1>6. ASSUME NEW w \in Workers, Crash(w)
      PROVE  AuditInv'
  <2> SUFFICES ASSUME NEW t \in Tickets, t \notin overlapped, t \notin cut, t # on[w]
               PROVE  Accounted(t)'
    BY <1>6 DEF AuditInv, Crash
  <2>1. Accounted(t)
    BY DEF AuditInv
  <2>2. row' = row /\ log' = log /\ pc'[w] # "log"
    BY <1>6, FinishFrees DEF Crash
  <2>3. \A v \in Workers : v # w => /\ pc'[v] = pc[v] /\ on'[v] = on[v]
                                    /\ call'[v] = call[v] /\ Entry(v)' = Entry(v)
    BY <1>6, FinishFrees DEF Crash, Entry
  <2> QED
    BY <2>1, <2>2, <2>3 DEF Accounted
<1>7. CASE UNCHANGED vars
  BY <1>7, AccountsStay DEF vars
<1> QED
  BY <1>1, <1>2, <1>3, <1>4, <1>5, <1>6, <1>7 DEF Next, Step

\* The events of a ticket nobody met on and no request was cut off on tell how
\* it came to its status, one entry after the other, except for the event a
\* request is about to append.
THEOREM EventsAccountForStatus == Spec => []AuditChain
<1>1. Init => AuditInv
  <2> SUFFICES ASSUME Init, NEW t \in Tickets PROVE Accounted(t)
    BY DEF AuditInv
  <2>1. log[t] = <<>> /\ row[t].status = Absent /\ \A w \in Workers : pc[w] = "idle"
    BY DEF Init, NoRow
  <2>2. Linked(<<>>) /\ Reached(<<>>) = Absent
    BY DEF Linked, Reached
  <2> QED
    BY <2>1, <2>2 DEF Accounted
<1>2. AuditInv => AuditChain
  BY DEF AuditInv, Accounted, Linked, Reached, AuditChain
<1> QED
  BY <1>1, <1>2, AuditStep, Invariance, PTL DEF Spec

-----------------------------------------------------------------------------
(* The requests implement TicketLifecycle.                                 *)

\* What TicketLifecycle calls the status of the tickets.
StatusOf == [t \in Tickets |-> row[t].status]

\* An UPDATE is a creation, a move the lifecycle allows, or leaves the status.
LEMMA WriteImplements ==
  ASSUME IInv, NEW w \in Workers, Write(w)
  PROVE  Lifecycle!Next \/ StatusOf' = StatusOf
<1> DEFINE t == on[w]
           s == row'[t].status
<1>1. /\ t \in Tickets /\ call[w] \in Calls \ {"close"} /\ overlapped' = overlapped
      /\ InFlight(w) /\ row[t].status \in Status \cup {Absent}
  BY WriteRow DEF IInv, Write, InFlight, Rows
<1>2. StatusOf' = [StatusOf EXCEPT ![t] = s]
  BY <1>1, WriteRow DEF IInv, StatusOf
<1>3. s = IF call[w] = "create" THEN "open"
          ELSE IF call[w] \in Transitions THEN Target(call[w]) ELSE row[t].status
  BY WriteRow, WrittenColumns DEF IInv
<1>4. row[t].status = Absent <=> call[w] = "create"
  BY <1>1 DEF IInv, WorkerShape, Write
<1>5. CASE call[w] = "create"
  <2>1. Lifecycle!Create(t)
    BY <1>1, <1>2, <1>3, <1>4, <1>5 DEF Lifecycle!Create, StatusOf, Absent, Lifecycle!Absent
  <2> QED
    BY <1>1, <2>1 DEF Lifecycle!Next, Lifecycle!Create
<1>6. CASE call[w] \in Transitions
  <2>1. call[w] # "create" /\ s \in Status
    BY <1>3, <1>6, TargetType DEF Transitions
  <2>2. t \in overlapped \/ s = row[t].status \/ s \in AllowedNext(row[t].status)
    BY <1>1, <1>3, <1>6, <2>1 DEF IInv, ReadsHold, Write, MayMove
  <2>3. CASE s = row[t].status
    BY <1>1, <1>2, <2>3 DEF StatusOf
  <2>4. CASE t \in overlapped \/ s \in AllowedNext(row[t].status)
    <3>1. row[t].status \in Status
      BY <1>1, <1>4, <2>1
    <3>2. Lifecycle!Move(t, s)
      BY <1>1, <1>2, <2>1, <2>4, <3>1
         DEF Lifecycle!Move, StatusOf, Status, Lifecycle!Status, AllowedNext, Lifecycle!AllowedNext
    <3> QED
      BY <1>1, <2>1, <3>2 DEF Lifecycle!Next, Lifecycle!Move, Status, Lifecycle!Status
  <2> QED
    BY <2>2, <2>3, <2>4
<1>7. CASE call[w] # "create" /\ call[w] \notin Transitions
  BY <1>1, <1>2, <1>3, <1>7 DEF StatusOf
<1> QED
  BY <1>5, <1>6, <1>7

\* Starting a request on a ticket another request is on contends it.
LEMMA StartImplements ==
  ASSUME IInv, NEW w \in Workers, NEW c \in Commands, NEW t \in Tickets, Start(w, c, t)
  PROVE  StatusOf' = StatusOf /\ (Lifecycle!Next \/ overlapped' = overlapped)
<1>1. StatusOf' = StatusOf
  BY DEF Start, StatusOf
<1>2. CASE \E v \in Workers : on[v] = t
  <2>1. row[t].status \in Status /\ overlapped' = overlapped \cup {t}
    BY <1>2 DEF IInv, TypeOK, Start
  <2>2. Lifecycle!Contend(t)
    BY <1>1, <2>1 DEF Lifecycle!Contend, StatusOf, Status, Lifecycle!Status
  <2> QED
    BY <1>1, <2>2 DEF Lifecycle!Next
<1>3. CASE \A v \in Workers : on[v] # t
  BY <1>1, <1>3 DEF Start
<1> QED
  BY <1>2, <1>3

\* Every run of the requests is a run of the abstract ticket lifecycle, with
\* the statuses read off the rows: outside contended tickets only the moves of
\* _ALLOWED_STATUS_TRANSITIONS happen, whatever the handlers and crashes do.
THEOREM Refinement == Spec => LifecycleImplemented
<1>1. Init => Lifecycle!Init
  BY DEF Init, NoRow, Lifecycle!Init, Absent, Lifecycle!Absent
<1>2. IInv /\ [Next]_vars => [Lifecycle!Next]_(Lifecycle!vars)
  <2> SUFFICES ASSUME IInv, [Next]_vars
               PROVE  Lifecycle!Next \/ (StatusOf' = StatusOf /\ overlapped' = overlapped)
    BY DEF Lifecycle!vars, StatusOf
  <2>1. ASSUME NEW w \in Workers, Write(w)
        PROVE  Lifecycle!Next \/ (StatusOf' = StatusOf /\ overlapped' = overlapped)
    BY <2>1, WriteImplements DEF Write
  <2>2. ASSUME NEW w \in Workers, NEW c \in Commands, NEW t \in Tickets, Start(w, c, t)
        PROVE  Lifecycle!Next \/ (StatusOf' = StatusOf /\ overlapped' = overlapped)
    BY <2>2, StartImplements
  <2>3. CASE row' = row /\ overlapped' = overlapped
    BY <2>3 DEF StatusOf
  <2> QED
    BY <2>1, <2>2, <2>3 DEF Next, Step, Refuse, ReadPlain, ReadTransition, ReadClose,
                            Reading, Check, Forbid, Log, Crash, vars
<1> QED
  BY <1>1, <1>2, Invariance, PTL DEF Spec, LifecycleImplemented, Lifecycle!Spec
=============================================================================
