--------------------------- MODULE Inbound_proofs ---------------------------
(***************************************************************************)
(* Proofs about Inbound, for any sessions, messages, tickets and workers,  *)
(* any kinds of messages and any bounds.                                   *)
(***************************************************************************)
EXTENDS Inbound, FiniteSetTheorems, TLAPS

USE SessionsAssumption, KindsAssumption, BoundsAssumption, NoneAssumption

-----------------------------------------------------------------------------
(* Histories of keys.                                                      *)

\* A key added to a history is in it, with all that was there.
LEMMA Appended ==
  ASSUME NEW K, NEW s \in Seq(K), NEW k \in K
  PROVE  Append(s, k) \in Seq(K) /\ Elements(Append(s, k)) = Elements(s) \cup {k}
<1>1. /\ Append(s, k) \in Seq(K) /\ Len(Append(s, k)) = Len(s) + 1 /\ Len(s) \in Nat
      /\ Append(s, k)[Len(s) + 1] = k /\ \A i \in 1 .. Len(s) : Append(s, k)[i] = s[i]
  OBVIOUS
<1>2. ASSUME NEW x \in Elements(Append(s, k)) PROVE x \in Elements(s) \cup {k}
  <2>1. PICK i \in 1 .. Len(Append(s, k)) : x = Append(s, k)[i]
    BY <1>2 DEF Elements
  <2>2. i \in 1 .. Len(s) \/ i = Len(s) + 1
    BY <1>1, <2>1
  <2> QED
    BY <1>1, <2>1, <2>2 DEF Elements
<1>3. ASSUME NEW x \in Elements(s) PROVE x \in Elements(Append(s, k))
  <2>1. PICK i \in 1 .. Len(s) : x = s[i]
    BY <1>3 DEF Elements
  <2>2. i \in 1 .. Len(Append(s, k)) /\ x = Append(s, k)[i]
    BY <1>1, <2>1
  <2> QED
    BY <2>2 DEF Elements
<1>4. k \in Elements(Append(s, k))
  <2>1. Len(s) + 1 \in 1 .. Len(Append(s, k))
    BY <1>1
  <2> QED
    BY <1>1, <2>1 DEF Elements
<1> QED
  BY <1>1, <1>2, <1>3, <1>4

\* What falls off a history is its oldest key.
LEMMA TailKeeps ==
  ASSUME NEW K, NEW s \in Seq(K), Len(s) > 0
  PROVE  /\ Tail(s) \in Seq(K) /\ Len(Tail(s)) = Len(s) - 1
         /\ Elements(Tail(s)) \subseteq Elements(s)
         /\ Len(s) > 1 => s[Len(s)] \in Elements(Tail(s))
<1>1. s # <<>>
  OBVIOUS
<1>2. /\ Tail(s) \in Seq(K) /\ Len(Tail(s)) = Len(s) - 1 /\ Len(s) \in Nat
      /\ \A i \in 1 .. Len(s) - 1 : Tail(s)[i] = s[i + 1]
  BY <1>1
<1>3. ASSUME NEW x \in Elements(Tail(s)) PROVE x \in Elements(s)
  <2>1. PICK i \in 1 .. Len(Tail(s)) : x = Tail(s)[i]
    BY <1>3 DEF Elements
  <2>2. i + 1 \in 1 .. Len(s) /\ x = s[i + 1]
    BY <1>2, <2>1
  <2> QED
    BY <2>2 DEF Elements
<1>4. ASSUME Len(s) > 1 PROVE s[Len(s)] \in Elements(Tail(s))
  <2>1. Len(s) - 1 \in 1 .. Len(Tail(s)) /\ Tail(s)[Len(s) - 1] = s[Len(s)]
    BY <1>2, <1>4
  <2> QED
    BY <2>1 DEF Elements
<1> QED
  BY <1>2, <1>3, <1>4

\* record_idempotency_key keeps a history within its limit, with the new key
\* in it, and brings no other.
LEMMA Recorded ==
  ASSUME NEW K, NEW s \in Seq(K), NEW k \in K, Len(s) <= HistoryLimit
  PROVE  LET n == Trimmed(Append(s, k)) IN
         /\ n \in Seq(K) /\ Len(n) <= HistoryLimit
         /\ k \in Elements(n) /\ Elements(n) \subseteq Elements(s) \cup {k}
<1> DEFINE a == Append(s, k)
<1>1. /\ a \in Seq(K) /\ Len(a) = Len(s) + 1 /\ Len(s) \in Nat /\ a[Len(a)] = k
  OBVIOUS
<1>2. Elements(a) = Elements(s) \cup {k}
  BY Appended
<1> HIDE DEF a
<1>3. CASE Len(a) <= HistoryLimit
  BY <1>1, <1>2, <1>3 DEF Trimmed, a
<1>4. CASE ~(Len(a) <= HistoryLimit)
  <2>1. Len(a) > 1 /\ Len(a) = HistoryLimit + 1
    BY <1>1, <1>4
  <2>2. /\ Tail(a) \in Seq(K) /\ Len(Tail(a)) = Len(a) - 1
        /\ Elements(Tail(a)) \subseteq Elements(a) /\ a[Len(a)] \in Elements(Tail(a))
    BY <1>1, <2>1, TailKeeps
  <2> QED
    BY <1>1, <1>2, <1>4, <2>1, <2>2 DEF Trimmed, a
<1> QED
  BY <1>3, <1>4

-----------------------------------------------------------------------------
(* Types.                                                                  *)

Keys == {<<m>> : m \in Messages} \cup (Sessions \X Nat)

Bindings == [ticket : Tickets \cup {None}, stamp : {None} \cup (Keys \X Nat),
             trace : {None} \cup Keys, intent : {None, "consulting", "support"},
             mode : {None, "single_issue", "faq_consulting"},
             keys : Seq(Keys), replays : Nat]

Rows == [session : Sessions \cup {None}, faq : BOOLEAN, consulting : BOOLEAN,
         closed : BOOLEAN]

Jobs == [pc : Labels, msg : Messages \cup {None}, key : {None} \cup Keys, time : Nat,
         snap : Bindings, duplicate : BOOLEAN, keys : Seq(Keys), replays : Nat,
         ticket : Tickets \cup {None}, how : {None, "created", "reused", "bound"}]

InFlight(w) == job[w].pc # "idle"

Typed ==
  /\ binding \in [Sessions -> Bindings]
  /\ tickets \in [Tickets -> Rows]
  /\ now \in 0 .. MaxTime
  /\ job \in [Workers -> Jobs]
  /\ delivered \in 0 .. MaxDeliveries
  /\ accepted \in [Messages -> Nat]
  /\ served \in SUBSET Messages /\ ignored \in SUBSET Messages
  /\ dropped \in [Sessions -> Nat]
  /\ opened \in [Messages -> SUBSET Tickets]
  /\ forgotten \in SUBSET Keys
  /\ overlapped \in SUBSET Sessions /\ cut \in SUBSET Sessions

\* A worker has a message exactly as long as it has a delivery, and the key
\* the message had when it came.
InHand == \A w \in Workers : InFlight(w) => /\ job[w].msg \in Messages
                                            /\ job[w].key = Key(job[w].msg, job[w].time)

\* A key is a key.
LEMMA KeyType ==
  ASSUME NEW m \in Messages, NEW n \in Nat
  PROVE  Key(m, n) \in Keys
  BY DEF Key, Keys

\* The key of a message with an id is no other's, and never the key of a
\* session and a second.
LEMMA KeyIsOwn ==
  ASSUME NEW m \in Messages, NEW n \in Messages, NEW k \in Nat, <<m>> = Key(n, k)
  PROVE  n = m /\ n \in Numbered
<1>1. Len(<<m>>) = 1 /\ Len(<<SessionOf[n], k>>) = 2
  OBVIOUS
<1>2. Key(n, k) = <<n>> /\ n \in Numbered
  BY <1>1 DEF Key
<1>3. <<m>>[1] = m /\ <<n>>[1] = n
  OBVIOUS
<1> QED
  BY <1>2, <1>3

\* What is known of a delivery under way.
LEMMA Delivery ==
  ASSUME Typed, InHand, NEW w \in Workers, InFlight(w)
  PROVE  /\ job[w] \in Jobs /\ job[w].msg \in Messages /\ job[w].key \in Keys
         /\ Session(w) \in Sessions /\ binding[Session(w)] \in Bindings
         /\ job[w].snap \in Bindings
<1>1. job[w] \in Jobs /\ job[w].msg \in Messages
  BY DEF Typed, InHand
<1>2. job[w].time \in Nat /\ job[w].snap \in Bindings
  BY <1>1 DEF Jobs
<1>3. job[w].key \in Keys
  BY <1>1, <1>2, KeyType DEF InHand
<1>4. Session(w) \in Sessions
  BY <1>1 DEF Session
<1> QED
  BY <1>1, <1>2, <1>3, <1>4 DEF Typed

\* The metadata of a delivery leaves the ticket, the keys and the count alone.
LEMMA StampedRow ==
  ASSUME Typed, InHand, NEW w \in Workers, InFlight(w), NEW row \in Bindings
  PROVE  /\ Stamped(w, row) \in Bindings
         /\ Stamped(w, row).ticket = row.ticket
         /\ Stamped(w, row).keys = row.keys
         /\ Stamped(w, row).replays = row.replays
<1>1. job[w].key \in Keys /\ job[w].time \in Nat
  BY Delivery DEF Jobs
<1>2. Stamp(w) \in Keys \X Nat
  BY <1>1 DEF Stamp
<1> QED
  BY <1>1, <1>2 DEF Stamped, Bindings

\* Neither do set_ticket_id's, but for the count of the envelope.
LEMMA MergedRow ==
  ASSUME Typed, InHand, NEW w \in Workers, InFlight(w), NEW row \in Bindings
  PROVE  /\ Merged(w, row) \in Bindings
         /\ Merged(w, row).ticket = row.ticket
         /\ Merged(w, row).keys = row.keys
         /\ Merged(w, row).replays = IF job[w].how = "created" THEN job[w].replays
                                     ELSE row.replays
<1>1. job[w].key \in Keys /\ job[w].replays \in Nat
  BY Delivery DEF Jobs
<1>2. Intent(w) \in {None, "consulting", "support"}
  BY DEF Intent
<1>3. Mode(w, row) \in {None, "single_issue", "faq_consulting"}
  BY DEF Mode, Bindings
<1> DEFINE told == [row EXCEPT !.trace = job[w].key, !.intent = Intent(w),
                               !.mode = Mode(w, row)]
<1>4. /\ told \in Bindings /\ told.ticket = row.ticket /\ told.keys = row.keys
      /\ told.replays = row.replays
  BY <1>1, <1>2, <1>3 DEF Bindings
<1> HIDE DEF told
<1>5. /\ Stamped(w, told) \in Bindings /\ Stamped(w, told).ticket = told.ticket
      /\ Stamped(w, told).keys = told.keys
  BY <1>4, StampedRow
<1>6. Merged(w, row) = IF job[w].how = "created"
                       THEN [Stamped(w, told) EXCEPT !.replays = job[w].replays] ELSE told
  BY DEF Merged, told
<1>7. CASE job[w].how = "created"
  <2>1. \A b \in Bindings : \A n \in Nat :
          LET c == [b EXCEPT !.replays = n] IN
          c \in Bindings /\ c.ticket = b.ticket /\ c.keys = b.keys /\ c.replays = n
    BY DEF Bindings
  <2> QED
    BY <1>1, <1>4, <1>5, <1>6, <1>7, <2>1
<1> QED
  BY <1>4, <1>6, <1>7

-----------------------------------------------------------------------------
(* What a step of a delivery may do to its worker and to the sessions.     *)

\* The job a worker goes on with: typed, and with the message it has.
GoesOn(w, j) ==
  /\ j \in Jobs
  /\ j.pc # "idle" => j.msg = job[w].msg /\ j.key = job[w].key /\ j.time = job[w].time

Moves(w) ==
  /\ InFlight(w)
  /\ \E j : GoesOn(w, j) /\ job' = [job EXCEPT ![w] = j]
  /\ \E n \in Bindings : binding' = [binding EXCEPT ![Session(w)] = n]
  /\ UNCHANGED <<now, delivered, overlapped>>

\* A worker goes to another step with what it has, or ends.
LEMMA GoesToStep ==
  ASSUME Typed, InHand, NEW w \in Workers, InFlight(w), NEW l \in Labels
  PROVE  /\ Goto(w, l) => \E j : GoesOn(w, j) /\ job' = [job EXCEPT ![w] = j]
         /\ Fetch(w, l) => \E j : GoesOn(w, j) /\ job' = [job EXCEPT ![w] = j]
         /\ Finish(w) => \E j : GoesOn(w, j) /\ job' = [job EXCEPT ![w] = j]
<1>1. job[w] \in Jobs /\ binding[Session(w)] \in Bindings
  BY Delivery
<1>2. ASSUME Goto(w, l) PROVE \E j : GoesOn(w, j) /\ job' = [job EXCEPT ![w] = j]
  <2> DEFINE j == [job[w] EXCEPT !.pc = l]
  <2>1. GoesOn(w, j)
    BY <1>1 DEF GoesOn, Jobs
  <2>2. job' = [job EXCEPT ![w] = j]
    BY <1>2 DEF Goto
  <2> QED
    BY <2>1, <2>2
<1>3. ASSUME Fetch(w, l) PROVE \E j : GoesOn(w, j) /\ job' = [job EXCEPT ![w] = j]
  <2> DEFINE j == [job[w] EXCEPT !.pc = l, !.snap = binding[Session(w)]]
  <2>1. GoesOn(w, j)
    BY <1>1 DEF GoesOn, Jobs
  <2>2. job' = [job EXCEPT ![w] = j]
    BY <1>3 DEF Fetch
  <2> QED
    BY <2>1, <2>2
<1>4. ASSUME Finish(w) PROVE \E j : GoesOn(w, j) /\ job' = [job EXCEPT ![w] = j]
  <2>1. GoesOn(w, Idle)
    BY DEF GoesOn, Idle, Jobs, NoBinding, Bindings, Labels
  <2> QED
    BY <1>4, <2>1 DEF Finish
<1> QED
  BY <1>2, <1>3, <1>4

\* Reading leaves the sessions as they are; an upsert writes one row.
LEMMA OneRowWritten ==
  ASSUME Typed, InHand, NEW w \in Workers, InFlight(w)
  PROVE  /\ binding' = binding =>
              \E n \in Bindings : binding' = [binding EXCEPT ![Session(w)] = n]
         /\ \A n \in Bindings : Upsert(w, n) => binding' = [binding EXCEPT ![Session(w)] = n]
<1>1. Session(w) \in Sessions /\ binding[Session(w)] \in Bindings /\ binding \in [Sessions -> Bindings]
  BY Delivery DEF Typed
<1>2. binding = [binding EXCEPT ![Session(w)] = binding[Session(w)]]
  BY <1>1
<1> QED
  BY <1>1, <1>2 DEF Upsert

\* Every step of the gateway, of the intake and every cut-off is such a step.
LEMMA StepsMove ==
  ASSUME Typed, InHand, NEW w \in Workers, Gateway(w) \/ Intake(w) \/ Crash(w)
  PROVE  Moves(w)
<1>1. InFlight(w)
  BY DEF Gateway, Intake, Crash, OpenSession, Refresh, Guard, GuardAgain, RecordDuplicate,
         RecordAccepted, Route, Find, RefuseClosed, ReadTicket, Touch, Insert, Bind,
         BindMerge, BindReread, BindTicket, At, InFlight
<1>2. UNCHANGED <<now, delivered, overlapped>>
  BY DEF Gateway, Intake, Crash, OpenSession, Refresh, Guard, GuardAgain, RecordDuplicate,
         RecordAccepted, Route, Find, RefuseClosed, ReadTicket, Touch, Insert, Bind,
         BindMerge, BindReread, BindTicket, history
<1>3. /\ job[w] \in Jobs /\ job[w].msg \in Messages /\ job[w].key \in Keys
      /\ Session(w) \in Sessions /\ binding[Session(w)] \in Bindings
      /\ job[w].snap \in Bindings
  BY <1>1, Delivery
<1>4. /\ \A l \in Labels : Goto(w, l) \/ Fetch(w, l) \/ Finish(w) =>
           \E j : GoesOn(w, j) /\ job' = [job EXCEPT ![w] = j]
      /\ Finish(w) => \E j : GoesOn(w, j) /\ job' = [job EXCEPT ![w] = j]
  <2>1. "idle" \in Labels
    BY DEF Labels
  <2> QED
    BY <1>1, <2>1, GoesToStep
<1>5. /\ {"idle", "open", "refresh", "guard", "again", "record", "route", "find", "read",
          "touch", "insert", "bind", "merge", "reread", "bound"} = Labels
  BY DEF Labels
<1>6. CASE binding' = binding
  <2>1. \E n \in Bindings : binding' = [binding EXCEPT ![Session(w)] = n]
    BY <1>1, <1>6, OneRowWritten
  <2>2. \E j : GoesOn(w, j) /\ job' = [job EXCEPT ![w] = j]
    <3>1. CASE Guard(w)
      <4> DEFINE seen == binding[Session(w)]
                 dup == job[w].key \in Elements(seen.keys)
                 ks == IF dup THEN <<>> ELSE Trimmed(Append(seen.keys, job[w].key))
                 n == IF dup THEN seen.replays + 1 ELSE 0
                 j == [job[w] EXCEPT !.pc = "again", !.duplicate = dup, !.keys = ks,
                                     !.replays = n]
      <4>1. dup \in BOOLEAN
        BY DEF Elements
      <4>2. n \in Nat
        BY <1>3 DEF Bindings
      <4>3. ks \in Seq(Keys)
        <5>1. seen.keys \in Seq(Keys)
          BY <1>3 DEF Bindings
        <5>2. Append(seen.keys, job[w].key) \in Seq(Keys)
          BY <1>3, <5>1
        <5>3. \A q \in Seq(Keys) : Len(q) > 0 => Trimmed(q) \in Seq(Keys)
          BY TailKeeps DEF Trimmed
        <5>4. Len(Append(seen.keys, job[w].key)) > 0
          BY <1>3, <5>1
        <5>5. Trimmed(Append(seen.keys, job[w].key)) \in Seq(Keys)
          BY <5>2, <5>3, <5>4
        <5>6. <<>> \in Seq(Keys)
          OBVIOUS
        <5> HIDE DEF seen, dup
        <5> QED
          BY <5>5, <5>6
      <4>4. job' = [job EXCEPT ![w] = j]
        BY <3>1 DEF Guard
      <4> HIDE DEF ks, n, dup
      <4>5. GoesOn(w, j)
        BY <1>3, <1>5, <4>1, <4>2, <4>3 DEF GoesOn, Jobs
      <4> QED
        BY <4>4, <4>5
    <3>2. CASE Route(w)
      <4> DEFINE row == binding[Session(w)]
                 l == IF row.ticket # None THEN "read"
                      ELSE IF Consults(w) THEN "find" ELSE "insert"
                 j == [job[w] EXCEPT !.replays = row.replays, !.ticket = row.ticket,
                         !.how = IF row.ticket # None THEN "bound" ELSE None, !.pc = l]
      <4>1. row.replays \in Nat /\ row.ticket \in Tickets \cup {None} /\ l \in Labels
        BY <1>3, <1>5 DEF Bindings
      <4>2. job' = [job EXCEPT ![w] = j]
        BY <3>2 DEF Route
      <4> HIDE DEF row, l
      <4>3. GoesOn(w, j)
        BY <1>3, <4>1 DEF GoesOn, Jobs
      <4> QED
        BY <4>2, <4>3
    <3>3. CASE Find(w)
      <4>1. CASE Goto(w, "insert")
        BY <1>4, <1>5, <4>1
      <4>2. ASSUME NEW t \in Tickets,
                   job' = [job EXCEPT ![w].pc = "read", ![w].ticket = t, ![w].how = "reused"]
            PROVE  \E j : GoesOn(w, j) /\ job' = [job EXCEPT ![w] = j]
        <5> DEFINE j == [job[w] EXCEPT !.pc = "read", !.ticket = t, !.how = "reused"]
        <5>1. GoesOn(w, j)
          BY <1>3, <1>5 DEF GoesOn, Jobs
        <5>2. job' = [job EXCEPT ![w] = j]
          BY <4>2
        <5> QED
          BY <5>1, <5>2
      <4> QED
        BY <3>3, <4>1, <4>2 DEF Find, Candidates
    <3>4. CASE Insert(w)
      <4>1. PICK t \in Tickets :
              job' = [job EXCEPT ![w].pc = "bind", ![w].ticket = t, ![w].how = "created"]
        BY <3>4 DEF Insert
      <4> DEFINE j == [job[w] EXCEPT !.pc = "bind", !.ticket = t, !.how = "created"]
      <4>2. GoesOn(w, j)
        BY <1>3, <1>5 DEF GoesOn, Jobs
      <4>3. job' = [job EXCEPT ![w] = j]
        BY <4>1
      <4> QED
        BY <4>2, <4>3
    <3>5. CASE ~(Guard(w) \/ Route(w) \/ Find(w) \/ Insert(w))
      <4>1. Finish(w) \/ \E l \in Labels : Goto(w, l) \/ Fetch(w, l)
        BY <1>5, <3>5 DEF Gateway, Intake, Crash, OpenSession, Refresh, GuardAgain,
           RecordDuplicate, RecordAccepted, RefuseClosed, ReadTicket, Touch, Bind,
           BindMerge, BindReread, BindTicket
      <4> QED
        BY <1>4, <4>1
    <3> QED
      BY <3>1, <3>2, <3>3, <3>4, <3>5
  <2> QED
    BY <1>1, <1>2, <2>1, <2>2 DEF Moves
<1>7. CASE binding' # binding
  <2>1. Refresh(w) \/ RecordDuplicate(w) \/ RecordAccepted(w) \/ BindMerge(w) \/ BindTicket(w)
    BY <1>7 DEF Gateway, Intake, Crash, OpenSession, Guard, GuardAgain, Route, Find,
       RefuseClosed, ReadTicket, Touch, Insert, Bind, BindReread
  <2>2. Finish(w) \/ \E l \in Labels : Goto(w, l)
    BY <1>5, <2>1 DEF Refresh, RecordDuplicate, RecordAccepted, BindMerge, BindTicket
  <2>3. \E n \in Bindings : Upsert(w, n)
    <3>1. CASE Refresh(w)
      BY <1>1, <1>3, <3>1, StampedRow DEF Refresh
    <3>2. CASE RecordDuplicate(w)
      <4>1. [job[w].snap EXCEPT !.replays = job[w].replays] \in Bindings
        BY <1>3 DEF Bindings, Jobs
      <4> QED
        BY <3>2, <4>1 DEF RecordDuplicate
    <3>3. CASE RecordAccepted(w)
      <4>1. [job[w].snap EXCEPT !.keys = job[w].keys] \in Bindings
        BY <1>3 DEF Bindings, Jobs
      <4> QED
        BY <1>7, <3>3, <4>1 DEF RecordAccepted
    <3>4. CASE BindMerge(w)
      BY <1>1, <1>3, <3>4, MergedRow DEF BindMerge
    <3>5. CASE BindTicket(w)
      <4>1. Merged(w, job[w].snap) \in Bindings /\ job[w].ticket \in Tickets \cup {None}
        BY <1>1, <1>3, MergedRow DEF Jobs
      <4>2. [Merged(w, job[w].snap) EXCEPT !.ticket = job[w].ticket] \in Bindings
        BY <4>1 DEF Bindings
      <4> QED
        BY <3>5, <4>2 DEF BindTicket
    <3> QED
      BY <2>1, <3>1, <3>2, <3>3, <3>4, <3>5
  <2> QED
    BY <1>1, <1>2, <1>4, <2>2, <2>3, OneRowWritten DEF Moves
<1> QED
  BY <1>6, <1>7

\* What a move leaves alone, and that it keeps jobs and sessions typed.
LEMMA MovesAlone ==
  ASSUME Typed, InHand, NEW w \in Workers, Moves(w)
  PROVE  /\ InFlight(w) /\ Session(w) \in Sessions
         /\ binding' \in [Sessions -> Bindings] /\ job' \in [Workers -> Jobs]
         /\ \A s \in Sessions : s # Session(w) => binding'[s] = binding[s]
         /\ \A v \in Workers : v # w => job'[v] = job[v]
         /\ GoesOn(w, job'[w])
         /\ InHand'
         /\ now' = now /\ delivered' = delivered /\ overlapped' = overlapped
<1>1. PICK n \in Bindings : binding' = [binding EXCEPT ![Session(w)] = n]
  BY DEF Moves
<1>2. PICK j : GoesOn(w, j) /\ job' = [job EXCEPT ![w] = j]
  BY DEF Moves
<1>3. /\ InFlight(w) /\ Session(w) \in Sessions
      /\ job[w].msg \in Messages /\ job[w].key = Key(job[w].msg, job[w].time)
  BY Delivery DEF Moves, InHand
<1>4. /\ binding' \in [Sessions -> Bindings]
      /\ \A s \in Sessions : s # Session(w) => binding'[s] = binding[s]
  BY <1>1 DEF Typed
<1>5. /\ job' \in [Workers -> Jobs] /\ job'[w] = j
      /\ \A v \in Workers : v # w => job'[v] = job[v]
  BY <1>2 DEF Typed, GoesOn
<1>6. InHand'
  BY <1>2, <1>3, <1>5 DEF InHand, InFlight, GoesOn
<1> QED
  BY <1>2, <1>3, <1>4, <1>5, <1>6 DEF Moves

\* The state a delivery arrives in, and what it changes.
LEMMA Arrival ==
  ASSUME Typed, InHand, NEW w \in Workers, NEW m \in Messages, Deliver(w, m)
  PROVE  /\ ~InFlight(w) /\ job' \in [Workers -> Jobs] /\ InHand'
         /\ job'[w].pc = "open" /\ job'[w].msg = m /\ Session(w)' = SessionOf[m]
         /\ job'[w].snap = NoBinding /\ job'[w].keys = <<>>
         /\ \A v \in Workers : v # w => job'[v] = job[v]
         /\ now' \in 0 .. MaxTime /\ delivered' = delivered + 1 /\ delivered' \in 0 .. MaxDeliveries
         /\ overlapped' \in SUBSET Sessions /\ overlapped \subseteq overlapped'
         /\ \A v \in Workers : InFlight(v) /\ Session(v) = SessionOf[m] => SessionOf[m] \in overlapped'
         /\ UNCHANGED <<binding, tickets, history, cut>>
<1> DEFINE j == [Idle EXCEPT !.pc = "open", !.msg = m, !.key = Key(m, now'), !.time = now']
<1>1. now' \in 0 .. MaxTime /\ now' \in Nat
  BY DEF Deliver, Typed
<1>2. Key(m, now') \in Keys
  BY <1>1, KeyType
<1>3. Idle \in Jobs /\ Idle.snap = NoBinding /\ Idle.keys = <<>>
  BY DEF Idle, Jobs, NoBinding, Bindings, Labels
<1>4. /\ j \in Jobs /\ j.pc = "open" /\ j.msg = m /\ j.key = Key(m, now') /\ j.time = now'
      /\ j.snap = NoBinding /\ j.keys = <<>>
  BY <1>1, <1>2, <1>3 DEF Jobs, Labels
<1>5. job' = [job EXCEPT ![w] = j] /\ job[w].pc = "idle"
  BY DEF Deliver, At
<1> HIDE DEF j
<1>6. /\ job' \in [Workers -> Jobs] /\ job'[w] = j
      /\ \A v \in Workers : v # w => job'[v] = job[v]
  BY <1>4, <1>5 DEF Typed
<1>7. InHand'
  BY <1>4, <1>6 DEF InHand, InFlight
<1>8. Session(w)' = SessionOf[m]
  BY <1>4, <1>6 DEF Session
<1>9. /\ overlapped' \in SUBSET Sessions /\ overlapped \subseteq overlapped'
      /\ \A v \in Workers : InFlight(v) /\ Session(v) = SessionOf[m] => SessionOf[m] \in overlapped'
      /\ UNCHANGED <<binding, tickets, history, cut>>
      /\ delivered' = delivered + 1 /\ delivered' \in 0 .. MaxDeliveries
  BY DEF Deliver, Typed, InFlight, At
<1> QED
  BY <1>1, <1>4, <1>5, <1>6, <1>7, <1>8, <1>9 DEF InFlight

\* The variables are typed at first.
LEMMA InitTyped == Init => Typed /\ InHand
<1> SUFFICES ASSUME Init PROVE Typed /\ InHand
  OBVIOUS
<1>1. NoBinding \in Bindings
  BY DEF NoBinding, Bindings
<1>2. Idle \in Jobs
  BY <1>1 DEF Idle, Jobs, Labels
<1>3. NoRow \in Rows
  BY DEF NoRow, Rows
<1>4. Typed
  BY <1>1, <1>2, <1>3 DEF Init, Typed
<1>5. InHand
  BY DEF Init, InHand, InFlight, Idle
<1> QED
  BY <1>4, <1>5

\* Every step keeps them typed.
LEMMA NextTyped ==
  ASSUME Typed, InHand, [Next]_vars
  PROVE  Typed' /\ InHand'
<1>1. ASSUME NEW w \in Workers, NEW m \in Messages, Deliver(w, m)
      PROVE  Typed' /\ InHand'
  <2>1. binding' = binding /\ tickets' = tickets /\ cut' = cut
    BY <1>1 DEF Deliver
  <2>2. /\ accepted' = accepted /\ served' = served /\ ignored' = ignored
        /\ dropped' = dropped /\ opened' = opened /\ forgotten' = forgotten
    BY <1>1 DEF Deliver, history
  <2> QED
    BY <1>1, <2>1, <2>2, Arrival DEF Typed
<1>2. ASSUME NEW w \in Workers, Gateway(w) \/ Intake(w) \/ Crash(w)
      PROVE  Typed' /\ InHand'
  <2>1. Moves(w)
    BY <1>2, StepsMove
  <2>2. /\ InFlight(w) /\ Session(w) \in Sessions
        /\ binding' \in [Sessions -> Bindings] /\ job' \in [Workers -> Jobs]
        /\ InHand' /\ now' = now /\ delivered' = delivered /\ overlapped' = overlapped
    BY <2>1, MovesAlone
  <2>3. job[w].msg \in Messages /\ job[w] \in Jobs /\ job[w].snap \in Bindings
    BY <2>2, Delivery
  <2>4. tickets' \in [Tickets -> Rows] /\ opened' \in [Messages -> SUBSET Tickets]
    <3>1. CASE Touch(w)
      <4>1. opened' = opened
        BY <3>1 DEF Touch, history
      <4>3. tickets' = [tickets EXCEPT ![job[w].ticket] =
                          [tickets[job[w].ticket] EXCEPT !.consulting = job[w].msg \in Consulting]]
        BY <3>1 DEF Touch
      <4>4. CASE job[w].ticket \in Tickets
        <5> DEFINE b == job[w].msg \in Consulting
                   r == [tickets[job[w].ticket] EXCEPT !.consulting = b]
        <5>0. tickets[job[w].ticket] \in Rows
          BY <4>4 DEF Typed
        <5>1. b \in BOOLEAN
          OBVIOUS
        <5>2. tickets' = [tickets EXCEPT ![job[w].ticket] = r]
          BY <4>3
        <5> HIDE DEF b
        <5>3. r \in Rows
          BY <5>0, <5>1 DEF Rows
        <5> HIDE DEF r
        <5> QED
          BY <4>1, <4>4, <5>2, <5>3 DEF Typed
      <4>5. CASE job[w].ticket \notin Tickets
        BY <4>1, <4>3, <4>5 DEF Typed
      <4> QED
        BY <4>4, <4>5
    <3>2. CASE Insert(w)
      <4>1. PICK t \in Tickets :
              /\ tickets' = [tickets EXCEPT ![t] =
                   [session |-> Session(w), faq |-> Consults(w),
                    consulting |-> job[w].msg \in Consulting, closed |-> FALSE]]
              /\ opened' = [opened EXCEPT ![job[w].msg] = @ \cup {t}]
        BY <3>2 DEF Insert
      <4>2. [session |-> Session(w), faq |-> Consults(w),
             consulting |-> job[w].msg \in Consulting, closed |-> FALSE] \in Rows
        BY <2>2 DEF Rows, Consults
      <4> QED
        BY <4>1, <4>2, <2>3 DEF Typed
    <3>3. CASE ~Touch(w) /\ ~Insert(w)
      <4>1. tickets' = tickets /\ opened' = opened
        BY <1>2, <3>3 DEF Gateway, Intake, Crash, OpenSession, Refresh, Guard, GuardAgain,
           RecordDuplicate, RecordAccepted, Route, Find, RefuseClosed, ReadTicket, Bind,
           BindMerge, BindReread, BindTicket, history
      <4> QED
        BY <4>1 DEF Typed
    <3> QED
      BY <3>1, <3>2, <3>3
  <2>5. /\ accepted' \in [Messages -> Nat] /\ dropped' \in [Sessions -> Nat]
        /\ served' \in SUBSET Messages /\ ignored' \in SUBSET Messages
        /\ forgotten' \in SUBSET Keys
    <3>1. CASE RecordAccepted(w)
      <4>1. job[w].snap.keys \in Seq(Keys)
        BY <2>3 DEF Bindings
      <4>2. Elements(job[w].snap.keys) \subseteq Keys
        BY <4>1 DEF Elements
      <4> QED
        BY <2>3, <3>1, <4>2 DEF RecordAccepted, Typed
    <3>2. CASE RecordDuplicate(w)
      BY <2>2, <2>3, <3>2 DEF RecordDuplicate, Typed
    <3>3. CASE BindTicket(w)
      BY <2>3, <3>3 DEF BindTicket, Typed
    <3>4. CASE ~RecordAccepted(w) /\ ~RecordDuplicate(w) /\ ~BindTicket(w)
      <4>1. /\ accepted' = accepted /\ dropped' = dropped /\ served' = served
            /\ ignored' = ignored /\ forgotten' = forgotten
        BY <1>2, <3>4 DEF Gateway, Intake, Crash, OpenSession, Refresh, Guard, GuardAgain,
           Route, Find, RefuseClosed, ReadTicket, Touch, Insert, Bind, BindMerge,
           BindReread, history
      <4> QED
        BY <4>1 DEF Typed
    <3> QED
      BY <3>1, <3>2, <3>3, <3>4
  <2>6. cut' \in SUBSET Sessions
    <3>1. cut' = cut \/ cut' = cut \cup {Session(w)}
      BY <1>2 DEF Gateway, Intake, Crash, OpenSession, Refresh, Guard, GuardAgain,
         RecordDuplicate, RecordAccepted, Route, Find, RefuseClosed, ReadTicket, Touch,
         Insert, Bind, BindMerge, BindReread, BindTicket
    <3> QED
      BY <2>2, <3>1 DEF Typed
  <2> QED
    BY <2>2, <2>4, <2>5, <2>6 DEF Typed
<1>3. ASSUME NEW t \in Tickets, CloseTicket(t)
      PROVE  Typed' /\ InHand'
  <2> DEFINE r == [tickets[t] EXCEPT !.closed = TRUE]
  <2>0. tickets[t] \in Rows
    BY DEF Typed
  <2>1. r \in Rows
    BY <2>0 DEF Rows
  <2>a. tickets' = [tickets EXCEPT ![t] = r]
    BY <1>3 DEF CloseTicket
  <2> HIDE DEF r
  <2>2. tickets' \in [Tickets -> Rows]
    BY <2>1, <2>a DEF Typed
  <2>3. /\ binding' = binding /\ now' = now /\ job' = job /\ delivered' = delivered
        /\ accepted' = accepted /\ served' = served /\ ignored' = ignored
        /\ dropped' = dropped /\ opened' = opened /\ forgotten' = forgotten
        /\ overlapped' = overlapped /\ cut' = cut
    BY <1>3 DEF CloseTicket, history
  <2> QED
    BY <2>2, <2>3 DEF Typed, InHand, InFlight
<1>4. CASE UNCHANGED vars
  BY <1>4 DEF vars, Typed, InHand, InFlight
<1> QED
  BY <1>1, <1>2, <1>3, <1>4 DEF Next

-----------------------------------------------------------------------------
(* What circulates: histories of keys and counts of replays, in rows and   *)
(* in what deliveries carry.                                               *)

\* A step that is not record_idempotency_key's first read passes on what there
\* is, or starts from nothing; only an acceptance writes a history of its own.
PassesOn(w, new, k) ==
  LET old == binding[Session(w)]
      j == job[w] IN
  /\ new.keys \in {old.keys, j.snap.keys} \/ (RecordAccepted(w) /\ new.keys = j.keys)
  /\ new.replays \in {old.replays, j.snap.replays, j.replays}
  /\ k.snap.keys \in {j.snap.keys, old.keys, <<>>}
  /\ k.snap.replays \in {j.snap.replays, old.replays, 0}
  /\ k.keys \in {j.keys, <<>>}
  /\ k.replays \in {j.replays, old.replays, 0}
  /\ k.duplicate \in {j.duplicate, FALSE}
  /\ k.pc = "idle" => k.keys = <<>>
  /\ k.pc # "again"
  /\ k.pc = "record" => j.pc \in {"again", "record"} /\ k.duplicate = j.duplicate

LEMMA Circulation ==
  ASSUME Typed, InHand, NEW w \in Workers, Gateway(w) \/ Intake(w) \/ Crash(w), ~Guard(w)
  PROVE  PassesOn(w, binding'[Session(w)], job'[w])
<1>0. InFlight(w) /\ Session(w) \in Sessions /\ job[w] \in Jobs /\ job[w].snap \in Bindings
  BY StepsMove, MovesAlone, Delivery
<1>z. /\ Idle.snap.keys = <<>> /\ Idle.snap.replays = 0 /\ Idle.keys = <<>>
      /\ Idle.replays = 0 /\ Idle.pc = "idle" /\ Idle.duplicate = FALSE
  BY DEF Idle, NoBinding
<1>1. /\ Finish(w) => job'[w] = Idle
      /\ \A l : Goto(w, l) => job'[w] = [job[w] EXCEPT !.pc = l]
      /\ \A l : Fetch(w, l) => job'[w] = [job[w] EXCEPT !.pc = l, !.snap = binding[Session(w)]]
      /\ \A n : Upsert(w, n) => binding'[Session(w)] = n
  BY <1>0 DEF Finish, Goto, Fetch, Upsert, Typed
<1>2. CASE OpenSession(w) \/ GuardAgain(w) \/ Bind(w) \/ BindReread(w)
  <2>1. /\ binding' = binding
        /\ \E l \in {"guard", "refresh", "record", "merge", "bound"} :
             /\ job'[w] = [job[w] EXCEPT !.pc = l, !.snap = binding[Session(w)]]
             /\ l = "record" => job[w].pc = "again"
    BY <1>1, <1>2 DEF OpenSession, GuardAgain, Bind, BindReread, At
  <2> QED
    BY <1>0, <2>1 DEF PassesOn, Jobs
<1>3. CASE RefuseClosed(w) \/ Crash(w)
  BY <1>1, <1>3, <1>z DEF RefuseClosed, Crash, PassesOn
<1>4. CASE ReadTicket(w) \/ Touch(w)
  <2>1. /\ binding' = binding
        /\ \E l \in {"touch", "bind"} : job'[w] = [job[w] EXCEPT !.pc = l]
    BY <1>1, <1>4 DEF ReadTicket, Touch
  <2> QED
    BY <1>0, <2>1 DEF PassesOn, Jobs
<1>5. CASE Refresh(w) \/ BindMerge(w)
  <2>1. \E l \in {"guard", "reread"} : job'[w] = [job[w] EXCEPT !.pc = l]
    BY <1>1, <1>5 DEF Refresh, BindMerge
  <2>2. binding'[Session(w)] \in {Stamped(w, job[w].snap), Merged(w, job[w].snap)}
    BY <1>1, <1>5 DEF Refresh, BindMerge
  <2>3. /\ binding'[Session(w)].keys = job[w].snap.keys
        /\ binding'[Session(w)].replays \in {job[w].snap.replays, job[w].replays}
    BY <1>0, <2>2, StampedRow, MergedRow
  <2> QED
    BY <1>0, <2>1, <2>3 DEF PassesOn, Jobs
<1>6. CASE RecordDuplicate(w)
  <2>1. binding'[Session(w)] = [job[w].snap EXCEPT !.replays = job[w].replays]
    BY <1>1, <1>6 DEF RecordDuplicate
  <2>2. /\ binding'[Session(w)].keys = job[w].snap.keys
        /\ binding'[Session(w)].replays = job[w].replays
    BY <1>0, <2>1 DEF Bindings
  <2> QED
    BY <1>1, <1>6, <1>z, <2>2 DEF RecordDuplicate, PassesOn
<1>7. CASE RecordAccepted(w)
  <2>1. binding' = binding \/ binding'[Session(w)] = [job[w].snap EXCEPT !.keys = job[w].keys]
    BY <1>1, <1>7 DEF RecordAccepted
  <2>2. \/ binding' = binding
        \/ /\ binding'[Session(w)].keys = job[w].keys
           /\ binding'[Session(w)].replays = job[w].snap.replays
    BY <1>0, <2>1 DEF Bindings
  <2>3. job'[w] = [job[w] EXCEPT !.pc = "route"]
    BY <1>1, <1>7 DEF RecordAccepted
  <2> QED
    BY <1>0, <1>7, <2>2, <2>3 DEF PassesOn, Jobs
<1>8. CASE BindTicket(w)
  <2>1. binding'[Session(w)] = [Merged(w, job[w].snap) EXCEPT !.ticket = job[w].ticket]
    BY <1>1, <1>8 DEF BindTicket
  <2>2. /\ Merged(w, job[w].snap) \in Bindings /\ Merged(w, job[w].snap).keys = job[w].snap.keys
        /\ Merged(w, job[w].snap).replays \in {job[w].snap.replays, job[w].replays}
    BY <1>0, MergedRow
  <2>3. /\ binding'[Session(w)].keys = job[w].snap.keys
        /\ binding'[Session(w)].replays \in {job[w].snap.replays, job[w].replays}
    BY <2>1, <2>2 DEF Bindings
  <2> QED
    BY <1>1, <1>8, <1>z, <2>3 DEF BindTicket, PassesOn
<1>9. CASE Route(w)
  <2>1. /\ binding' = binding
        /\ \E l \in {"read", "find", "insert"} :
             job'[w] = [job[w] EXCEPT !.replays = binding[Session(w)].replays,
                                      !.ticket = binding[Session(w)].ticket,
                                      !.how = IF binding[Session(w)].ticket # None
                                              THEN "bound" ELSE None,
                                      !.pc = l]
    BY <1>9 DEF Route, Typed
  <2> QED
    BY <1>0, <2>1 DEF PassesOn, Jobs
<1>10. CASE Find(w) \/ Insert(w)
  <2>1. binding' = binding
    BY <1>10 DEF Find, Insert
  <2>2. \/ job'[w] = [job[w] EXCEPT !.pc = "insert"]
        \/ \E t \in Tickets : \E l \in {"read", "bind"}, h \in {"reused", "created"} :
             job'[w] = [job[w] EXCEPT !.pc = l, !.ticket = t, !.how = h]
    BY <1>1, <1>10 DEF Find, Insert, Candidates, Typed
  <2> QED
    BY <1>0, <2>1, <2>2 DEF PassesOn, Jobs
<1> QED
  BY <1>2, <1>3, <1>4, <1>5, <1>6, <1>7, <1>8, <1>9, <1>10 DEF Gateway, Intake

\* What the first read of record_idempotency_key makes of the row.
LEMMA Guarded ==
  ASSUME Typed, InHand, NEW w \in Workers, Guard(w)
  PROVE  LET old == binding[Session(w)]
             j == job[w]
             k == job'[w]
         IN /\ InFlight(w) /\ j.pc = "guard" /\ k.pc = "again" /\ binding' = binding
            /\ k.snap = j.snap /\ k.msg = j.msg /\ k.key = j.key /\ k.how = j.how
            /\ k.duplicate <=> j.key \in Elements(old.keys)
            /\ k.duplicate => k.keys = <<>> /\ k.replays = old.replays + 1
            /\ ~k.duplicate => k.keys = Trimmed(Append(old.keys, j.key)) /\ k.replays = 0
<1>1. job[w] \in Jobs /\ job \in [Workers -> Jobs]
  BY DEF Typed
<1> DEFINE dup == job[w].key \in Elements(binding[Session(w)].keys)
<1>2. job'[w] = [job[w] EXCEPT
         !.pc = "again", !.duplicate = dup,
         !.keys = IF dup THEN <<>> ELSE Trimmed(Append(binding[Session(w)].keys, job[w].key)),
         !.replays = IF dup THEN binding[Session(w)].replays + 1 ELSE 0]
  BY <1>1 DEF Guard
<1> HIDE DEF dup
<1>3. /\ job'[w].pc = "again" /\ job'[w].duplicate = dup /\ job'[w].snap = job[w].snap
      /\ job'[w].msg = job[w].msg /\ job'[w].key = job[w].key /\ job'[w].how = job[w].how
      /\ job'[w].keys = IF dup THEN <<>>
                        ELSE Trimmed(Append(binding[Session(w)].keys, job[w].key))
      /\ job'[w].replays = IF dup THEN binding[Session(w)].replays + 1 ELSE 0
  BY <1>1, <1>2 DEF Jobs
<1>4. job[w].pc = "guard" /\ binding' = binding
  BY DEF Guard, At
<1> QED
  BY <1>3, <1>4 DEF dup, InFlight

-----------------------------------------------------------------------------
(* Whatever meets: histories stay short and hold only keys that were       *)
(* accepted.                                                               *)

\* No history is longer than its limit, in a row or in a worker's hands.
Short == /\ \A s \in Sessions : Len(binding[s].keys) <= HistoryLimit
         /\ \A w \in Workers : /\ Len(job[w].snap.keys) <= HistoryLimit
                               /\ Len(job[w].keys) <= HistoryLimit

\* A key in a history, in a row or in a worker's hands, is of a message that
\* was accepted, or is the worker's own; and so is one found to be a duplicate.
Genuine ==
  \A m \in Numbered :
    /\ \A s \in Sessions : <<m>> \in Elements(binding[s].keys) => accepted[m] > 0
    /\ \A w \in Workers :
         /\ <<m>> \in Elements(job[w].snap.keys) => accepted[m] > 0
         /\ <<m>> \in Elements(job[w].keys) => accepted[m] > 0 \/ job[w].msg = m
         /\ job[w].pc \in {"again", "record"} /\ job[w].duplicate /\ job[w].msg = m
              => accepted[m] > 0
    /\ m \in ignored => accepted[m] > 0

\* An empty history is short and has no keys.
LEMMA EmptyHistory == Len(<<>>) <= HistoryLimit /\ Elements(<<>>) = {}
  BY DEF Elements

\* The guard adds to a short history.
LEMMA ShortStep ==
  ASSUME Typed, InHand, Short, [Next]_vars
  PROVE  Short'
<1>1. ASSUME NEW w \in Workers, NEW m \in Messages, Deliver(w, m)
      PROVE  Short'
  <2>1. NoBinding.keys = <<>> /\ binding' = binding
    BY <1>1 DEF NoBinding, Deliver
  <2> QED
    BY <1>1, <2>1, Arrival, EmptyHistory DEF Short
<1>2. ASSUME NEW w \in Workers, Gateway(w) \/ Intake(w) \/ Crash(w)
      PROVE  Short'
  <2>1. Moves(w)
    BY <1>2, StepsMove
  <2>2. /\ InFlight(w) /\ Session(w) \in Sessions /\ job[w].key \in Keys
        /\ binding[Session(w)] \in Bindings
        /\ \A s \in Sessions : s # Session(w) => binding'[s] = binding[s]
        /\ \A v \in Workers : v # w => job'[v] = job[v]
    BY <2>1, MovesAlone, Delivery
  <2>3. /\ Len(binding'[Session(w)].keys) <= HistoryLimit
        /\ Len(job'[w].snap.keys) <= HistoryLimit /\ Len(job'[w].keys) <= HistoryLimit
    <3>1. CASE Guard(w)
      <4>1. /\ binding' = binding /\ job'[w].snap = job[w].snap
            /\ job'[w].keys \in {<<>>, Trimmed(Append(binding[Session(w)].keys, job[w].key))}
        BY <3>1, Guarded
      <4>2. Len(Trimmed(Append(binding[Session(w)].keys, job[w].key))) <= HistoryLimit
        BY <2>2, Recorded DEF Short, Bindings
      <4> QED
        BY <2>2, <4>1, <4>2, EmptyHistory DEF Short
    <3>2. CASE ~Guard(w)
      <4>1. PassesOn(w, binding'[Session(w)], job'[w])
        BY <1>2, <3>2, Circulation
      <4> QED
        BY <2>2, <4>1, EmptyHistory DEF Short, PassesOn
    <3> QED
      BY <3>1, <3>2
  <2> QED
    BY <2>2, <2>3 DEF Short
<1>3. CASE binding' = binding /\ job' = job
  BY <1>3 DEF Short
<1> QED
  BY <1>1, <1>2, <1>3 DEF Next, CloseTicket, vars

\* Only an acceptance writes its key, and it is counted in the same step.
LEMMA GenuineStep ==
  ASSUME Typed, InHand, Short, Genuine, [Next]_vars
  PROVE  Genuine'
<1>0. \A m \in Numbered : m \in Messages
  OBVIOUS
<1>1. ASSUME NEW w \in Workers, NEW m \in Messages, Deliver(w, m)
      PROVE  Genuine'
  <2>1. /\ NoBinding.keys = <<>> /\ binding' = binding /\ accepted' = accepted
        /\ ignored' = ignored
    BY <1>1 DEF NoBinding, Deliver, history
  <2>2. /\ job'[w].snap = NoBinding /\ job'[w].keys = <<>> /\ job'[w].pc = "open"
        /\ \A v \in Workers : v # w => job'[v] = job[v]
    BY <1>1, Arrival
  <2> QED
    BY <2>1, <2>2, EmptyHistory DEF Genuine
<1>2. ASSUME NEW w \in Workers, Gateway(w) \/ Intake(w) \/ Crash(w)
      PROVE  Genuine'
  <2>1. Moves(w)
    BY <1>2, StepsMove
  <2>2. /\ InFlight(w) /\ Session(w) \in Sessions /\ job[w].key \in Keys
        /\ binding[Session(w)] \in Bindings /\ job[w].msg \in Messages
        /\ \A s \in Sessions : s # Session(w) => binding'[s] = binding[s]
        /\ \A v \in Workers : v # w => job'[v] = job[v]
        /\ GoesOn(w, job'[w])
    BY <2>1, MovesAlone, Delivery
  <2>3. \A m \in Messages : \/ accepted'[m] = accepted[m]
                            \/ accepted'[m] = accepted[m] + 1
    <3>1. CASE RecordAccepted(w)
      BY <2>2, <3>1 DEF RecordAccepted, Typed
    <3>2. CASE ~RecordAccepted(w)
      BY <1>2, <3>2 DEF Gateway, Intake, Crash, OpenSession, Refresh, Guard, GuardAgain,
         RecordDuplicate, Route, Find, RefuseClosed, ReadTicket, Touch, Insert, Bind,
         BindMerge, BindReread, BindTicket, history
    <3> QED
      BY <3>1, <3>2
  <2>4. \A m \in Messages : accepted[m] > 0 => accepted'[m] > 0
    BY <2>3 DEF Typed
  <2>5. RecordAccepted(w) => accepted'[job[w].msg] > 0
    BY <2>2 DEF RecordAccepted, Typed
  <2>6. ignored' = ignored \/ (RecordDuplicate(w) /\ ignored' = ignored \cup {job[w].msg})
    BY <1>2 DEF Gateway, Intake, Crash, OpenSession, Refresh, Guard, GuardAgain,
       RecordDuplicate, RecordAccepted, Route, Find, RefuseClosed, ReadTicket, Touch,
       Insert, Bind, BindMerge, BindReread, BindTicket, history
  <2>7. CASE Guard(w)
    <3>1. /\ binding' = binding /\ job'[w].snap = job[w].snap /\ job'[w].msg = job[w].msg
          /\ job'[w].duplicate <=> job[w].key \in Elements(binding[Session(w)].keys)
          /\ job'[w].duplicate => job'[w].keys = <<>>
          /\ ~job'[w].duplicate =>
               job'[w].keys = Trimmed(Append(binding[Session(w)].keys, job[w].key))
      BY <2>7, Guarded
    <3>2. Elements(job'[w].keys) \subseteq Elements(binding[Session(w)].keys) \cup {job[w].key}
      <4>1. binding[Session(w)].keys \in Seq(Keys)
        BY <2>2 DEF Bindings
      <4>2. Elements(Trimmed(Append(binding[Session(w)].keys, job[w].key)))
              \subseteq Elements(binding[Session(w)].keys) \cup {job[w].key}
        BY <2>2, <4>1, Recorded DEF Short
      <4> QED
        BY <3>1, <4>2, EmptyHistory
    <3>3. \A m \in Numbered : job[w].key = <<m>> <=> job[w].msg = m
      <4>1. job[w].key = Key(job[w].msg, job[w].time) /\ job[w].time \in Nat
        BY <2>2 DEF InHand, Typed, Jobs
      <4> QED
        BY <2>2, <4>1, KeyIsOwn DEF Key
    <3>4. accepted' = accepted /\ ignored' = ignored
      BY <2>7 DEF Guard, history
    <3> QED
      BY <2>2, <3>1, <3>2, <3>3, <3>4 DEF Genuine
  <2>8. CASE ~Guard(w)
    <3>1. PassesOn(w, binding'[Session(w)], job'[w])
      BY <1>2, <2>8, Circulation
    <3>2. ASSUME NEW m \in Numbered
          PROVE  <<m>> \in Elements(binding'[Session(w)].keys) => accepted'[m] > 0
      BY <2>2, <2>4, <2>5, <3>1, EmptyHistory DEF Genuine, PassesOn
    <3>3. ASSUME NEW m \in Numbered
          PROVE  /\ <<m>> \in Elements(job'[w].snap.keys) => accepted'[m] > 0
                 /\ <<m>> \in Elements(job'[w].keys) => accepted'[m] > 0 \/ job'[w].msg = m
                 /\ job'[w].pc \in {"again", "record"} /\ job'[w].duplicate /\ job'[w].msg = m
                      => accepted'[m] > 0
      <4>1. <<m>> \in Elements(job'[w].snap.keys) => accepted'[m] > 0
        BY <2>2, <2>4, <3>1, EmptyHistory DEF Genuine, PassesOn
      <4>2. job'[w].pc = "idle" => job'[w].keys = <<>>
        BY <3>1 DEF PassesOn
      <4> QED
        BY <2>2, <2>4, <3>1, <4>1, EmptyHistory DEF Genuine, PassesOn, GoesOn
    <3>4. ASSUME NEW m \in Numbered
          PROVE  m \in ignored' => accepted'[m] > 0
      <4>1. RecordDuplicate(w) => job[w].pc = "record" /\ job[w].duplicate
        BY DEF RecordDuplicate, At
      <4> QED
        BY <2>4, <2>6, <4>1 DEF Genuine
    <3> SUFFICES ASSUME NEW m \in Numbered
                 PROVE  /\ \A s \in Sessions :
                             <<m>> \in Elements(binding'[s].keys) => accepted'[m] > 0
                        /\ \A v \in Workers :
                             /\ <<m>> \in Elements(job'[v].snap.keys) => accepted'[m] > 0
                             /\ <<m>> \in Elements(job'[v].keys)
                                  => accepted'[m] > 0 \/ job'[v].msg = m
                             /\ job'[v].pc \in {"again", "record"} /\ job'[v].duplicate
                                  /\ job'[v].msg = m => accepted'[m] > 0
                        /\ m \in ignored' => accepted'[m] > 0
      BY DEF Genuine
    <3>5. accepted[m] > 0 => accepted'[m] > 0
      BY <2>4
    <3>6. \A s \in Sessions : <<m>> \in Elements(binding'[s].keys) => accepted'[m] > 0
      BY <2>2, <3>2, <3>5 DEF Genuine
    <3> QED
      BY <2>2, <3>3, <3>4, <3>5, <3>6 DEF Genuine
  <2> QED
    BY <2>7, <2>8
<1>3. CASE binding' = binding /\ job' = job /\ accepted' = accepted /\ ignored' = ignored
  BY <1>3 DEF Genuine
<1> QED
  BY <1>1, <1>2, <1>3 DEF Next, CloseTicket, vars, history

-----------------------------------------------------------------------------
(* Whatever meets: no count exceeds the deliveries.                        *)

\* The deliveries that have not asked the guard, and those it has not settled.
Coming == {w \in Workers : job[w].pc \in {"open", "refresh", "guard"}}
Unsettled == {w \in Workers : job[w].pc \in {"open", "refresh", "guard", "again", "record"}}

\* Every delivery under way may still raise a count, and none does so twice.
Counted ==
  /\ IsFiniteSet(Unsettled)
  /\ \A s \in Sessions : /\ binding[s].replays + Cardinality(Coming) <= delivered
                         /\ dropped[s] + Cardinality(Unsettled) <= delivered
  /\ \A w \in Workers : /\ job[w].snap.replays + Cardinality(Coming) <= delivered
                        /\ job[w].replays + Cardinality(Coming) <= delivered
  /\ \A m \in Messages : accepted[m] + Cardinality(Unsettled) <= delivered

\* The deliveries the guard has not been asked about are among the unsettled.
LEMMA CountsType ==
  ASSUME IsFiniteSet(Unsettled)
  PROVE  /\ IsFiniteSet(Coming) /\ Cardinality(Coming) \in Nat
         /\ Cardinality(Unsettled) \in Nat
<1>1. Coming \subseteq Unsettled
  BY DEF Coming, Unsettled
<1> QED
  BY <1>1, FS_Subset, FS_CardinalityType

\* A delivery that arrives is one more under way.
LEMMA CountArrival ==
  ASSUME Typed, InHand, Counted, NEW w \in Workers, NEW m \in Messages, Deliver(w, m)
  PROVE  Counted'
<1>1. /\ job'[w].pc = "open" /\ job'[w].snap = NoBinding /\ job[w].pc = "idle"
      /\ \A v \in Workers : v # w => job'[v] = job[v]
      /\ delivered' = delivered + 1 /\ UNCHANGED <<binding, history>>
  BY Arrival DEF InFlight
<1>2. Unsettled' = Unsettled \cup {w} /\ w \notin Unsettled
  BY <1>1 DEF Unsettled
<1>3. Coming' = Coming \cup {w} /\ w \notin Coming
  BY <1>1 DEF Coming
<1>4. /\ IsFiniteSet(Unsettled) /\ IsFiniteSet(Coming) /\ Cardinality(Coming) \in Nat
      /\ Cardinality(Unsettled) \in Nat
  BY CountsType DEF Counted
<1>5. /\ IsFiniteSet(Unsettled') /\ Cardinality(Unsettled') = Cardinality(Unsettled) + 1
      /\ Cardinality(Coming') = Cardinality(Coming) + 1
  BY <1>2, <1>3, <1>4, FS_AddElement
<1>6. /\ NoBinding.replays = 0 /\ job'[w].replays = 0
  <2>1. job'[w] = [Idle EXCEPT !.pc = "open", !.msg = m, !.key = Key(m, now'), !.time = now']
    BY DEF Deliver, Typed
  <2> QED
    BY <2>1 DEF NoBinding, Idle
<1>7. /\ accepted' = accepted /\ dropped' = dropped /\ binding' = binding
  BY <1>1 DEF history
<1>8. \A n \in Nat : n + Cardinality(Coming) <= delivered => n + Cardinality(Coming') <= delivered'
  BY <1>1, <1>4, <1>5 DEF Typed
<1>9. \A n \in Nat : n + Cardinality(Unsettled) <= delivered
                       => n + Cardinality(Unsettled') <= delivered'
  BY <1>1, <1>4, <1>5 DEF Typed
<1>10. 0 + Cardinality(Coming') <= delivered'
  <2>1. job[w].replays \in Nat
    BY DEF Typed, Jobs
  <2>2. job[w].replays + Cardinality(Coming) <= delivered
    BY DEF Counted
  <2> QED
    BY <1>1, <1>4, <1>5, <2>1, <2>2 DEF Typed
<1>11. \A s \in Sessions : binding[s].replays \in Nat /\ dropped[s] \in Nat
  BY DEF Typed, Bindings
<1>12. \A v \in Workers : job[v].snap.replays \in Nat /\ job[v].replays \in Nat
  BY DEF Typed, Jobs, Bindings
<1>13. \A v \in Workers : /\ job'[v].snap.replays + Cardinality(Coming') <= delivered'
                          /\ job'[v].replays + Cardinality(Coming') <= delivered'
  BY <1>1, <1>6, <1>8, <1>10, <1>12 DEF Counted
<1>14. \A s \in Sessions : /\ binding'[s].replays + Cardinality(Coming') <= delivered'
                           /\ dropped'[s] + Cardinality(Unsettled') <= delivered'
  BY <1>7, <1>8, <1>9, <1>11 DEF Counted
<1>15. \A n \in Messages : accepted'[n] + Cardinality(Unsettled') <= delivered'
  BY <1>7, <1>9 DEF Counted, Typed
<1> QED
  BY <1>5, <1>13, <1>14, <1>15 DEF Counted

\* A delivery that goes on never rejoins those under way, and leaves them when
\* it raises a count.
LEMMA CountMove ==
  ASSUME Typed, InHand, Counted, NEW w \in Workers, Gateway(w) \/ Intake(w) \/ Crash(w)
  PROVE  Counted'
<1>1. /\ InFlight(w) /\ Session(w) \in Sessions /\ job[w].msg \in Messages
      /\ delivered' = delivered /\ job[w] \in Jobs /\ binding[Session(w)] \in Bindings
      /\ \A s \in Sessions : s # Session(w) => binding'[s] = binding[s]
      /\ \A v \in Workers : v # w => job'[v] = job[v]
      /\ binding' \in [Sessions -> Bindings] /\ job' \in [Workers -> Jobs]
  BY StepsMove, MovesAlone, Delivery
<1>2. /\ IsFiniteSet(Unsettled) /\ IsFiniteSet(Coming) /\ Cardinality(Coming) \in Nat
      /\ Cardinality(Unsettled) \in Nat
  BY CountsType DEF Counted
<1>3. /\ job'[w].pc \in {"open", "refresh", "guard", "again", "record"}
           => job[w].pc \in {"open", "refresh", "guard", "again", "record"}
      /\ job'[w].pc \in {"open", "refresh", "guard"} => job[w].pc \in {"open", "refresh", "guard"}
      /\ RecordAccepted(w) \/ RecordDuplicate(w) =>
           job[w].pc = "record" /\ job'[w].pc \in {"idle", "route"}
      /\ Guard(w) => job[w].pc = "guard" /\ job'[w].pc = "again"
  <2>1. /\ \A l : Goto(w, l) \/ Fetch(w, l) => job'[w].pc = l
        /\ Finish(w) => job'[w].pc = "idle"
    <3>1. \A l : [job[w] EXCEPT !.pc = l].pc = l
      BY <1>1 DEF Jobs
    <3>2. \A l : [job[w] EXCEPT !.pc = l, !.snap = binding[Session(w)]].pc = l
      BY <1>1 DEF Jobs
    <3>3. Idle.pc = "idle"
      BY DEF Idle
    <3>4. /\ \A l : Goto(w, l) => job'[w] = [job[w] EXCEPT !.pc = l]
          /\ \A l : Fetch(w, l) => job'[w] = [job[w] EXCEPT !.pc = l, !.snap = binding[Session(w)]]
          /\ Finish(w) => job'[w] = Idle
      BY DEF Goto, Fetch, Finish, Typed
    <3> QED
      BY <3>1, <3>2, <3>3, <3>4
  <2>2. CASE OpenSession(w) \/ Refresh(w) \/ GuardAgain(w) \/ RecordDuplicate(w) \/ RecordAccepted(w)
    BY <2>1, <2>2 DEF OpenSession, Refresh, Guard, GuardAgain, RecordDuplicate,
       RecordAccepted, At
  <2>3. CASE Guard(w)
    BY <2>3, Guarded DEF RecordDuplicate, RecordAccepted, At
  <2>4. CASE Crash(w)
    BY <2>1, <2>4, Guarded DEF Crash, RecordDuplicate, RecordAccepted, At
  <2>5. CASE Intake(w)
    <3>1. job'[w].pc \in {"idle", "find", "insert", "read", "touch", "bind", "merge",
                          "reread", "bound"}
      <4>1. CASE Route(w)
        <5>1. job'[w].pc = IF binding[Session(w)].ticket # None THEN "read"
                           ELSE IF Consults(w) THEN "find" ELSE "insert"
          BY <1>1, <4>1 DEF Route, Jobs, Typed
        <5> QED
          BY <5>1
      <4>2. CASE Find(w)
        <5>1. Goto(w, "insert") \/ job'[w].pc = "read"
          <6>1. ASSUME NEW t, job' = [job EXCEPT ![w].pc = "read", ![w].ticket = t,
                                                 ![w].how = "reused"]
                PROVE  job'[w].pc = "read"
            <7>1. job'[w] = [job[w] EXCEPT !.pc = "read", !.ticket = t, !.how = "reused"]
              BY <6>1 DEF Typed
            <7> QED
              BY <1>1, <7>1 DEF Jobs
          <6> QED
            BY <4>2, <6>1 DEF Find
        <5> QED
          BY <2>1, <5>1
      <4>3. CASE Insert(w)
        BY <1>1, <4>3 DEF Insert, Jobs, Typed
      <4>4. CASE ~Route(w) /\ ~Find(w) /\ ~Insert(w)
        BY <2>1, <2>5, <4>4 DEF Intake, RefuseClosed, ReadTicket, Touch, Bind, BindMerge,
           BindReread, BindTicket
      <4> QED
        BY <4>1, <4>2, <4>3, <4>4
    <3>2. job[w].pc \notin {"open", "refresh", "guard", "again", "record"}
      BY <2>5 DEF Intake, Route, Find, RefuseClosed, ReadTicket, Touch, Insert, Bind,
         BindMerge, BindReread, BindTicket, At
    <3> QED
      BY <3>1, <3>2 DEF Guard, RecordDuplicate, RecordAccepted, At
  <2> QED
    BY <2>2, <2>3, <2>4, <2>5 DEF Gateway
<1>4. /\ Unsettled' \subseteq Unsettled /\ Coming' \subseteq Coming
      /\ RecordAccepted(w) \/ RecordDuplicate(w) => Unsettled' = Unsettled \ {w} /\ w \in Unsettled
      /\ Guard(w) => Coming' = Coming \ {w} /\ w \in Coming
  BY <1>1, <1>3 DEF Unsettled, Coming
<1>5. /\ IsFiniteSet(Unsettled') /\ Cardinality(Unsettled') <= Cardinality(Unsettled)
      /\ Cardinality(Coming') <= Cardinality(Coming)
      /\ Cardinality(Coming') \in Nat /\ Cardinality(Unsettled') \in Nat
  BY <1>2, <1>4, FS_Subset, FS_CardinalityType
<1>6. RecordAccepted(w) \/ RecordDuplicate(w)
        => Cardinality(Unsettled') = Cardinality(Unsettled) - 1
  BY <1>2, <1>4, FS_RemoveElement
<1>7. Guard(w) => Cardinality(Coming') = Cardinality(Coming) - 1
  BY <1>2, <1>4, FS_RemoveElement
<1>8. /\ \A n \in Nat : n + Cardinality(Coming) <= delivered
                          => n + Cardinality(Coming') <= delivered'
      /\ \A n \in Nat : n + Cardinality(Unsettled) <= delivered
                          => n + Cardinality(Unsettled') <= delivered'
  BY <1>1, <1>2, <1>5 DEF Typed
<1>9. \A m \in Messages : accepted'[m] + Cardinality(Unsettled') <= delivered'
  <2>1. CASE RecordAccepted(w)
    <3>1. accepted' = [accepted EXCEPT ![job[w].msg] = @ + 1]
      BY <2>1 DEF RecordAccepted
    <3>2. ASSUME NEW m \in Messages PROVE accepted'[m] + Cardinality(Unsettled') <= delivered'
      <4>1. accepted'[m] = accepted[m] \/ accepted'[m] = accepted[m] + 1
        BY <1>1, <3>1 DEF Typed
      <4>2. accepted[m] \in Nat /\ accepted[m] + Cardinality(Unsettled) <= delivered
        BY DEF Counted, Typed
      <4> QED
        BY <1>1, <1>2, <1>6, <2>1, <4>1, <4>2 DEF Typed
    <3> QED
      BY <3>2
  <2>2. CASE ~RecordAccepted(w)
    <3>1. accepted' = accepted
      BY <2>2 DEF Gateway, Intake, Crash, OpenSession, Refresh, Guard, GuardAgain,
         RecordDuplicate, Route, Find, RefuseClosed, ReadTicket, Touch, Insert, Bind,
         BindMerge, BindReread, BindTicket, history
    <3> QED
      BY <1>8, <3>1 DEF Counted, Typed
  <2> QED
    BY <2>1, <2>2
<1>10. \A s \in Sessions : dropped'[s] + Cardinality(Unsettled') <= delivered'
  <2>1. CASE RecordDuplicate(w)
    <3>1. dropped' = [dropped EXCEPT ![Session(w)] = @ + 1]
      BY <2>1 DEF RecordDuplicate
    <3>2. ASSUME NEW s \in Sessions PROVE dropped'[s] + Cardinality(Unsettled') <= delivered'
      <4>1. dropped'[s] = dropped[s] \/ dropped'[s] = dropped[s] + 1
        BY <1>1, <3>1 DEF Typed
      <4>2. dropped[s] \in Nat /\ dropped[s] + Cardinality(Unsettled) <= delivered
        BY DEF Counted, Typed
      <4> QED
        BY <1>1, <1>2, <1>6, <2>1, <4>1, <4>2 DEF Typed
    <3> QED
      BY <3>2
  <2>2. CASE ~RecordDuplicate(w)
    <3>1. dropped' = dropped
      BY <2>2 DEF Gateway, Intake, Crash, OpenSession, Refresh, Guard, GuardAgain,
         RecordAccepted, Route, Find, RefuseClosed, ReadTicket, Touch, Insert, Bind,
         BindMerge, BindReread, BindTicket, history
    <3> QED
      BY <1>8, <3>1 DEF Counted, Typed
  <2> QED
    BY <2>1, <2>2
<1>11. /\ \A s \in Sessions : binding[s].replays \in Nat
       /\ \A v \in Workers : job[v].replays \in Nat /\ job[v].snap.replays \in Nat
       /\ binding[Session(w)].replays + Cardinality(Coming) <= delivered
       /\ job[w].replays + Cardinality(Coming) <= delivered
       /\ job[w].snap.replays + Cardinality(Coming) <= delivered
  BY <1>1 DEF Counted, Typed, Bindings, Jobs
<1>12. 0 + Cardinality(Coming) <= delivered
  BY <1>1, <1>2, <1>11 DEF Typed
<1>13. /\ binding'[Session(w)].replays + Cardinality(Coming') <= delivered'
       /\ job'[w].snap.replays + Cardinality(Coming') <= delivered'
       /\ job'[w].replays + Cardinality(Coming') <= delivered'
  <2>1. CASE Guard(w)
    <3>1. /\ binding' = binding /\ job'[w].snap = job[w].snap
          /\ job'[w].replays = binding[Session(w)].replays + 1 \/ job'[w].replays = 0
      BY <2>1, Guarded
    <3>2. binding[Session(w)].replays \in Nat /\ delivered \in Nat
      BY <1>1, <1>11 DEF Typed
    <3>3. job'[w].replays + Cardinality(Coming') <= delivered'
      BY <1>1, <1>2, <1>7, <1>8, <1>11, <1>12, <2>1, <3>1, <3>2
    <3>4. job[w].snap.replays \in Nat /\ job[w].snap.replays + Cardinality(Coming) <= delivered
      BY <1>11
    <3> QED
      BY <1>8, <1>11, <3>1, <3>2, <3>3, <3>4
  <2>2. CASE ~Guard(w)
    <3>1. PassesOn(w, binding'[Session(w)], job'[w])
      BY <2>2, Circulation
    <3> QED
      BY <1>1, <1>8, <1>11, <1>12, <3>1 DEF PassesOn
  <2> QED
    BY <2>1, <2>2
<1>14. \A s \in Sessions : binding'[s].replays + Cardinality(Coming') <= delivered'
  BY <1>1, <1>8, <1>11, <1>13 DEF Counted
<1>15. \A v \in Workers : /\ job'[v].snap.replays + Cardinality(Coming') <= delivered'
                          /\ job'[v].replays + Cardinality(Coming') <= delivered'
  BY <1>1, <1>8, <1>11, <1>13 DEF Counted
<1> QED
  BY <1>5, <1>9, <1>10, <1>14, <1>15 DEF Counted

\* So every step keeps the counts within the deliveries.
LEMMA CountedStep ==
  ASSUME Typed, InHand, Counted, [Next]_vars
  PROVE  Counted'
<1>1. CASE \/ UNCHANGED vars
           \/ \E t \in Tickets : CloseTicket(t)
  <2>1. UNCHANGED <<job, binding, delivered, accepted, dropped>>
    BY <1>1 DEF vars, CloseTicket, history
  <2>2. Unsettled' = Unsettled /\ Coming' = Coming
    BY <2>1 DEF Unsettled, Coming
  <2> QED
    BY <2>1, <2>2 DEF Counted
<1> QED
  BY <1>1, CountArrival, CountMove DEF Next

-----------------------------------------------------------------------------
(* A delivery that is alone on its session.                                *)

\* Two deliveries on one session have been noticed.
Noticed ==
  \A v, w \in Workers :
    v # w /\ InFlight(v) /\ InFlight(w) /\ Session(v) = Session(w) => Session(w) \in overlapped

Alone(w) == InFlight(w) /\ Session(w) \notin overlapped

\* What such a delivery holds is what its session's row holds: the copy it is
\* about to write back, the verdict of the guard, the count of the envelope and
\* the ticket it goes to.
CopyHeld(j, r) == j.pc \in {"refresh", "record", "merge", "bound"} => j.snap = r

VerdictHeld(j, r) ==
  j.pc \in {"again", "record"} =>
    IF j.duplicate THEN j.replays = r.replays + 1 /\ j.key \in Elements(r.keys)
                   ELSE /\ j.key \notin Elements(r.keys)
                        /\ j.keys = Trimmed(Append(r.keys, j.key))

CountHeld(j, r) ==
  j.pc \in {"find", "read", "touch", "insert", "bind", "merge", "reread", "bound"}
    => j.replays = r.replays

TicketHeld(j, r) ==
  /\ j.pc \in {"find", "insert"} => r.ticket = None
  /\ j.pc \in {"read", "touch", "bind", "merge", "reread", "bound"}
       => r.ticket = IF j.how = "bound" THEN j.ticket ELSE None

Holds(j, r) == CopyHeld(j, r) /\ VerdictHeld(j, r) /\ CountHeld(j, r) /\ TicketHeld(j, r)

RowsHeld == \A w \in Workers : Alone(w) => Holds(job[w], binding[Session(w)])

\* Deliver notices every meeting.
LEMMA NoticedStep ==
  ASSUME Typed, InHand, Noticed, [Next]_vars
  PROVE  Noticed'
<1>1. ASSUME NEW u \in Workers, NEW m \in Messages, Deliver(u, m)
      PROVE  Noticed'
  <2>1. /\ ~InFlight(u) /\ Session(u)' = SessionOf[m] /\ overlapped \subseteq overlapped'
        /\ \A v \in Workers : v # u => job'[v] = job[v]
        /\ \A v \in Workers : InFlight(v) /\ Session(v) = SessionOf[m] => SessionOf[m] \in overlapped'
    BY <1>1, Arrival
  <2>2. \A v \in Workers : v # u => /\ Session(v)' = Session(v)
                                    /\ InFlight(v)' <=> InFlight(v)
    BY <2>1 DEF Session, InFlight
  <2> QED
    BY <2>1, <2>2 DEF Noticed
<1>2. ASSUME NEW u \in Workers, Gateway(u) \/ Intake(u) \/ Crash(u)
      PROVE  Noticed'
  <2>1. /\ InFlight(u) /\ GoesOn(u, job'[u]) /\ overlapped' = overlapped
        /\ \A v \in Workers : v # u => job'[v] = job[v]
    BY <1>2, StepsMove, MovesAlone
  <2>2. \A v \in Workers : InFlight(v)' => InFlight(v) /\ Session(v)' = Session(v)
    BY <2>1 DEF Session, InFlight, GoesOn
  <2> QED
    BY <2>1, <2>2 DEF Noticed
<1>3. CASE job' = job /\ overlapped' = overlapped
  BY <1>3 DEF Noticed, InFlight, Session
<1> QED
  BY <1>1, <1>2, <1>3 DEF Next, CloseTicket, vars

\* What the upsert of a delivery that is alone does to its row: of the three
\* columns the properties speak of each is changed by one step only.
LEMMA AloneWrites ==
  ASSUME Typed, InHand, NEW w \in Workers, Gateway(w) \/ Intake(w) \/ Crash(w),
         Holds(job[w], binding[Session(w)])
  PROVE  LET r == binding[Session(w)]
             n == binding'[Session(w)]
         IN /\ n.ticket = IF BindTicket(w) THEN job[w].ticket ELSE r.ticket
            /\ n.keys = IF RecordAccepted(w) THEN job[w].keys ELSE r.keys
            /\ n.replays = IF RecordDuplicate(w) THEN r.replays + 1 ELSE r.replays
<1> DEFINE r == binding[Session(w)]
           n == binding'[Session(w)]
<1>1. /\ InFlight(w) /\ Session(w) \in Sessions /\ job[w] \in Jobs
      /\ r \in Bindings /\ job[w].snap \in Bindings
  BY StepsMove, MovesAlone, Delivery
<1>2. \A x : Upsert(w, x) => n = x
  BY <1>1 DEF Upsert, Typed
<1>3. CASE Refresh(w)
  <2>1. n = Stamped(w, r) /\ job[w].pc = "refresh"
    BY <1>2, <1>3 DEF Refresh, At, Holds, CopyHeld
  <2> QED
    BY <1>1, <1>3, <2>1, StampedRow DEF BindTicket, RecordAccepted, RecordDuplicate, At
<1>4. CASE RecordDuplicate(w)
  <2>1. /\ n = [r EXCEPT !.replays = job[w].replays] /\ job[w].pc = "record"
        /\ job[w].replays = r.replays + 1
    BY <1>2, <1>4 DEF RecordDuplicate, At, Holds, CopyHeld, VerdictHeld
  <2>2. /\ n.ticket = r.ticket /\ n.keys = r.keys /\ n.replays = r.replays + 1
    BY <1>1, <2>1 DEF Bindings
  <2> QED
    BY <1>4, <2>1, <2>2 DEF BindTicket, RecordAccepted, RecordDuplicate, At
<1>5. CASE RecordAccepted(w)
  <2>1. /\ job[w].snap = r /\ job[w].pc = "record"
        /\ \/ [r EXCEPT !.keys = job[w].keys] = r /\ n = r
           \/ n = [r EXCEPT !.keys = job[w].keys]
    BY <1>2, <1>5 DEF RecordAccepted, At, Holds, CopyHeld
  <2>2. /\ n.ticket = r.ticket /\ n.keys = job[w].keys /\ n.replays = r.replays
    BY <1>1, <2>1 DEF Bindings
  <2> QED
    BY <1>5, <2>1, <2>2 DEF BindTicket, RecordAccepted, RecordDuplicate, At
<1>6. CASE BindMerge(w)
  <2>1. n = Merged(w, r) /\ job[w].pc = "merge" /\ job[w].replays = r.replays
    BY <1>2, <1>6 DEF BindMerge, At, Holds, CopyHeld, CountHeld
  <2> QED
    BY <1>1, <1>6, <2>1, MergedRow DEF BindTicket, RecordAccepted, RecordDuplicate, At
<1>7. CASE BindTicket(w)
  <2>1. /\ n = [Merged(w, r) EXCEPT !.ticket = job[w].ticket] /\ job[w].pc = "bound"
        /\ job[w].replays = r.replays
    BY <1>2, <1>7 DEF BindTicket, At, Holds, CopyHeld, CountHeld
  <2>2. Merged(w, r) \in Bindings /\ Merged(w, r).keys = r.keys /\ Merged(w, r).replays = r.replays
    BY <1>1, <2>1, MergedRow
  <2>3. n.ticket = job[w].ticket /\ n.keys = r.keys /\ n.replays = r.replays
    BY <2>1, <2>2 DEF Bindings
  <2> QED
    BY <1>7, <2>1, <2>3 DEF RecordAccepted, RecordDuplicate, At
<1>8. CASE ~(\/ Refresh(w) \/ RecordDuplicate(w) \/ RecordAccepted(w) \/ BindMerge(w)
             \/ BindTicket(w))
  <2>1. binding' = binding
    BY <1>8 DEF Gateway, Intake, Crash, OpenSession, Guard, GuardAgain, Route, Find,
       RefuseClosed, ReadTicket, Touch, Insert, Bind, BindReread
  <2> QED
    BY <1>8, <2>1
<1> QED
  BY <1>3, <1>4, <1>5, <1>6, <1>7, <1>8

\* A delivery that is alone holds its row from step to step.
LEMMA AloneGoesOn ==
  ASSUME Typed, InHand, NEW w \in Workers, Gateway(w) \/ Intake(w) \/ Crash(w),
         Holds(job[w], binding[Session(w)])
  PROVE  Holds(job'[w], binding'[Session(w)])
<1> DEFINE r == binding[Session(w)]
           n == binding'[Session(w)]
           j == job[w]
           k == job'[w]
<1>1. /\ InFlight(w) /\ Session(w) \in Sessions /\ j \in Jobs
      /\ r \in Bindings /\ j.snap \in Bindings
  BY StepsMove, MovesAlone, Delivery
<1>2. /\ n.ticket = IF BindTicket(w) THEN j.ticket ELSE r.ticket
      /\ n.replays = IF RecordDuplicate(w) THEN r.replays + 1 ELSE r.replays
  BY AloneWrites
<1> DEFINE Same == /\ k.duplicate = j.duplicate /\ k.replays = j.replays /\ k.key = j.key
                   /\ k.keys = j.keys /\ k.how = j.how /\ k.ticket = j.ticket
<1>3. Finish(w) => k.pc = "idle"
  BY DEF Finish, Idle, Typed
<1>4. ASSUME NEW l, Goto(w, l) PROVE k.pc = l /\ Same
  <2>1. k = [j EXCEPT !.pc = l]
    BY <1>4 DEF Goto, Typed
  <2> QED
    BY <1>1, <2>1 DEF Jobs
<1>5. ASSUME NEW l, Fetch(w, l) PROVE k.pc = l /\ k.snap = r /\ Same
  <2>1. k = [j EXCEPT !.pc = l, !.snap = r]
    BY <1>5 DEF Fetch, Typed
  <2> QED
    BY <1>1, <2>1 DEF Jobs
<1>6. CASE OpenSession(w) \/ Refresh(w) \/ RecordDuplicate(w) \/ RecordAccepted(w)
           \/ RefuseClosed(w) \/ BindTicket(w) \/ Crash(w)
  <2>1. CASE OpenSession(w)
    <3>1. n = r /\ k.pc \in {"guard", "refresh"} /\ k.snap = r
      BY <1>5, <2>1 DEF OpenSession
    <3> QED
      BY <3>1 DEF Holds, CopyHeld, VerdictHeld, CountHeld, TicketHeld
  <2>2. CASE ~OpenSession(w)
    <3>1. k.pc \in {"guard", "route", "idle"}
      BY <1>3, <1>4, <1>6, <2>2 DEF Refresh, RecordDuplicate, RecordAccepted, RefuseClosed,
         BindTicket, Crash
    <3> QED
      BY <3>1 DEF Holds, CopyHeld, VerdictHeld, CountHeld, TicketHeld
  <2> QED
    BY <2>1, <2>2
<1>7. CASE Guard(w)
  BY <1>7, Guarded DEF Holds, CopyHeld, VerdictHeld, CountHeld, TicketHeld
<1>8. CASE GuardAgain(w)
  <2>1. n = r /\ k.pc = "record" /\ k.snap = r /\ j.pc = "again"
    BY <1>5, <1>8 DEF GuardAgain, At
  <2>2. /\ k.duplicate = j.duplicate /\ k.replays = j.replays /\ k.key = j.key
        /\ k.keys = j.keys
    BY <1>5, <1>8 DEF GuardAgain
  <2> QED
    BY <2>1, <2>2 DEF Holds, CopyHeld, VerdictHeld, CountHeld, TicketHeld
<1>9. CASE Route(w)
  <2>1. \E l \in {"read", "find", "insert"} :
          /\ k = [j EXCEPT !.replays = r.replays, !.ticket = r.ticket,
                           !.how = IF r.ticket # None THEN "bound" ELSE None, !.pc = l]
          /\ l = "read" <=> r.ticket # None
    BY <1>9 DEF Route, Typed
  <2>2. /\ k.pc \in {"read", "find", "insert"} /\ k.replays = r.replays
        /\ k.pc = "read" => r.ticket # None /\ k.how = "bound" /\ k.ticket = r.ticket
        /\ k.pc # "read" => r.ticket = None
    BY <1>1, <2>1 DEF Jobs
  <2>3. n = r
    BY <1>9 DEF Route
  <2> QED
    BY <2>2, <2>3 DEF Holds, CopyHeld, VerdictHeld, CountHeld, TicketHeld
<1>10. CASE Find(w) \/ Insert(w)
  <2>1. n = r /\ j.pc \in {"find", "insert"}
    BY <1>10 DEF Find, Insert, At
  <2>2. \/ Goto(w, "insert")
        \/ \E t : \E l \in {"read", "bind"}, h \in {"reused", "created"} :
             k = [j EXCEPT !.pc = l, !.ticket = t, !.how = h]
    BY <1>10 DEF Find, Insert, Typed
  <2>3. /\ k.replays = j.replays /\ k.pc \in {"insert", "read", "bind"}
        /\ k.pc # "insert" => k.how # "bound"
    BY <1>1, <1>4, <2>2 DEF Jobs
  <2> QED
    BY <2>1, <2>3 DEF Holds, CopyHeld, VerdictHeld, CountHeld, TicketHeld
<1>11. CASE ReadTicket(w) \/ Touch(w) \/ Bind(w) \/ BindMerge(w) \/ BindReread(w)
  <2>1. /\ j.pc \in {"read", "touch", "bind", "merge", "reread"}
        /\ k.pc \in {"touch", "bind", "merge", "reread", "bound"}
    BY <1>4, <1>5, <1>11 DEF ReadTicket, Touch, Bind, BindMerge, BindReread, At
  <2>2. /\ k.replays = j.replays /\ k.how = j.how /\ k.ticket = j.ticket
    BY <1>4, <1>5, <1>11 DEF ReadTicket, Touch, Bind, BindMerge, BindReread
  <2>3. ~BindTicket(w) /\ ~RecordDuplicate(w)
    BY <2>1 DEF BindTicket, RecordDuplicate, At
  <2>4. k.pc \in {"merge", "bound"} => k.snap = r /\ n = r
    BY <1>4, <1>5, <1>11 DEF ReadTicket, Touch, Bind, BindMerge, BindReread
  <2> QED
    BY <1>2, <2>1, <2>2, <2>3, <2>4 DEF Holds, CopyHeld, VerdictHeld, CountHeld, TicketHeld
<1> QED
  BY <1>6, <1>7, <1>8, <1>9, <1>10, <1>11 DEF Gateway, Intake

\* The step of one delivery does not touch the row of another that is alone.
LEMMA OthersKeep ==
  ASSUME Typed, InHand, Noticed, NEW u \in Workers, Gateway(u) \/ Intake(u) \/ Crash(u),
         NEW v \in Workers, v # u, Alone(v)'
  PROVE  /\ Alone(v) /\ job'[v] = job[v] /\ Session(v)' = Session(v)
         /\ Session(v) \in Sessions /\ binding'[Session(v)] = binding[Session(v)]
<1>1. /\ InFlight(u) /\ overlapped' = overlapped /\ job'[v] = job[v]
      /\ \A s \in Sessions : s # Session(u) => binding'[s] = binding[s]
  BY StepsMove, MovesAlone
<1>2. Alone(v) /\ Session(v)' = Session(v)
  BY <1>1 DEF Alone, InFlight, Session
<1>3. Session(v) \in Sessions
  BY <1>2, Delivery DEF Alone
<1>4. Session(v) # Session(u)
  BY <1>1, <1>2 DEF Noticed, Alone
<1> QED
  BY <1>1, <1>2, <1>3, <1>4

\* So whoever is alone holds its row.
LEMMA RowsHeldStep ==
  ASSUME Typed, InHand, Noticed, RowsHeld, [Next]_vars
  PROVE  RowsHeld'
<1>1. ASSUME NEW u \in Workers, NEW m \in Messages, Deliver(u, m)
      PROVE  RowsHeld'
  <2> SUFFICES ASSUME NEW v \in Workers, Alone(v)'
               PROVE  Holds(job'[v], binding'[Session(v)'])
    BY DEF RowsHeld
  <2>1. /\ job'[u].pc = "open" /\ overlapped \subseteq overlapped' /\ binding' = binding
        /\ v # u => job'[v] = job[v]
    BY <1>1, Arrival
  <2>2. CASE v = u
    BY <2>1, <2>2 DEF Holds, CopyHeld, VerdictHeld, CountHeld, TicketHeld
  <2>3. CASE v # u
    <3>1. Alone(v) /\ Session(v)' = Session(v)
      BY <2>1, <2>3 DEF Alone, InFlight, Session
    <3> QED
      BY <2>1, <2>3, <3>1 DEF RowsHeld
  <2> QED
    BY <2>2, <2>3
<1>2. ASSUME NEW u \in Workers, Gateway(u) \/ Intake(u) \/ Crash(u)
      PROVE  RowsHeld'
  <2> SUFFICES ASSUME NEW v \in Workers, Alone(v)'
               PROVE  Holds(job'[v], binding'[Session(v)'])
    BY DEF RowsHeld
  <2>1. CASE v = u
    <3>1. InFlight(u) /\ overlapped' = overlapped /\ GoesOn(u, job'[u])
      BY <1>2, StepsMove, MovesAlone
    <3>2. Session(u)' = Session(u)
      BY <2>1, <3>1 DEF Alone, InFlight, Session, GoesOn
    <3>3. Holds(job[u], binding[Session(u)])
      BY <2>1, <3>1, <3>2 DEF Alone, RowsHeld
    <3> QED
      BY <1>2, <2>1, <3>2, <3>3, AloneGoesOn
  <2>2. CASE v # u
    BY <1>2, <2>2, OthersKeep DEF RowsHeld
  <2> QED
    BY <2>1, <2>2
<1>3. CASE job' = job /\ overlapped' = overlapped /\ binding' = binding
  BY <1>3 DEF RowsHeld, Alone, InFlight, Session
<1> QED
  BY <1>1, <1>2, <1>3 DEF Next, CloseTicket, vars

\* A step of a delivery on a session nobody met on finds it alone.
LEMMA FoundAlone ==
  ASSUME Typed, InHand, RowsHeld, NEW w \in Workers, InFlight(w),
         NEW s \in Sessions, s \notin overlapped, Session(w) = s
  PROVE  Alone(w) /\ Holds(job[w], binding[s])
  BY DEF Alone, RowsHeld

\* The count of the row moves with the deliveries dropped.
LEMMA ReplaysStep ==
  ASSUME Typed, InHand, Noticed, RowsHeld, ReplaysCounted, [Next]_vars
  PROVE  ReplaysCounted'
<1>1. ASSUME NEW u \in Workers, NEW m \in Messages, Deliver(u, m)
      PROVE  ReplaysCounted'
  BY <1>1, Arrival DEF ReplaysCounted, history
<1>2. ASSUME NEW u \in Workers, Gateway(u) \/ Intake(u) \/ Crash(u)
      PROVE  ReplaysCounted'
  <2> SUFFICES ASSUME NEW s \in Sessions, s \notin overlapped'
               PROVE  binding'[s].replays = dropped'[s]
    BY DEF ReplaysCounted
  <2>1. /\ InFlight(u) /\ overlapped' = overlapped /\ Session(u) \in Sessions
        /\ s # Session(u) => binding'[s] = binding[s]
    BY <1>2, StepsMove, MovesAlone
  <2>2. dropped' = IF RecordDuplicate(u) THEN [dropped EXCEPT ![Session(u)] = @ + 1]
                                         ELSE dropped
    <3>1. CASE RecordDuplicate(u)
      BY <3>1 DEF RecordDuplicate
    <3>2. CASE ~RecordDuplicate(u)
      <4>1. dropped' = dropped
        BY <1>2, <3>2 DEF Gateway, Intake, Crash, OpenSession, Refresh, Guard, GuardAgain,
           RecordAccepted, Route, Find, RefuseClosed, ReadTicket, Touch, Insert, Bind,
           BindMerge, BindReread, BindTicket, history
      <4> QED
        BY <3>2, <4>1
    <3> QED
      BY <3>1, <3>2
  <2>3. binding[s].replays = dropped[s]
    BY <2>1 DEF ReplaysCounted
  <2>4. CASE s = Session(u)
    <3>1. Holds(job[u], binding[s])
      BY <2>1, <2>4, FoundAlone
    <3>2. binding'[s].replays = IF RecordDuplicate(u) THEN binding[s].replays + 1
                                                      ELSE binding[s].replays
      BY <1>2, <2>4, <3>1, AloneWrites
    <3> QED
      BY <2>2, <2>3, <2>4, <3>2 DEF Typed
  <2>5. CASE s # Session(u)
    BY <2>1, <2>2, <2>3, <2>5 DEF Typed
  <2> QED
    BY <2>4, <2>5
<1>3. CASE UNCHANGED <<binding, dropped, overlapped>>
  BY <1>3 DEF ReplaysCounted
<1> QED
  BY <1>1, <1>2, <1>3 DEF Next, CloseTicket, vars, history

\* No step unbinds a session nobody met on, or binds it to another ticket.
LEMMA TicketStays ==
  ASSUME Typed, InHand, RowsHeld, NEW u \in Workers, Gateway(u) \/ Intake(u) \/ Crash(u),
         NEW s \in Sessions, s \notin overlapped, binding[s].ticket # None
  PROVE  binding'[s].ticket = binding[s].ticket
<1>1. /\ InFlight(u)
      /\ s # Session(u) => binding'[s] = binding[s]
  BY StepsMove, MovesAlone
<1>2. CASE s = Session(u)
  <2>1. Holds(job[u], binding[s])
    BY <1>1, <1>2, FoundAlone
  <2>2. binding'[s].ticket = IF BindTicket(u) THEN job[u].ticket ELSE binding[s].ticket
    BY <1>2, <2>1, AloneWrites
  <2>3. BindTicket(u) => job[u].ticket = binding[s].ticket
    BY <2>1 DEF BindTicket, At, Holds, TicketHeld
  <2> QED
    BY <2>2, <2>3
<1> QED
  BY <1>1, <1>2

-----------------------------------------------------------------------------
(* A session and its ticket.                                               *)

\* A worker has inserted a ticket for session s, and has not bound it yet.
Brings(w, s, t) ==
  /\ job[w].pc \in {"bind", "merge", "reread", "bound"} /\ job[w].how = "created"
  /\ job[w].ticket = t /\ Session(w) = s

\* Every ticket of a session is the one it is bound to, or is about to be.
Owned(s) == \A t \in Tickets : tickets[t].session = s =>
              binding[s].ticket = t \/ \E w \in Workers : Brings(w, s, t)

AllOwned == \A s \in Sessions \ (overlapped \cup cut) : Owned(s)

\* Of these there is one at most.
LEMMA OneOwned ==
  ASSUME Typed, InHand, Noticed, RowsHeld, AllOwned
  PROVE  OneTicketPerSession
<1> SUFFICES ASSUME NEW s \in Sessions, s \notin overlapped, s \notin cut
             PROVE  Cardinality({t \in Tickets : tickets[t].session = s}) <= 1
  BY DEF OneTicketPerSession
<1>1. Owned(s)
  BY DEF AllOwned
<1>2. ASSUME NEW w \in Workers, NEW t \in Tickets, Brings(w, s, t)
      PROVE  InFlight(w) /\ binding[s].ticket = None
  <2>1. InFlight(w)
    BY <1>2 DEF Brings, InFlight
  <2>2. Holds(job[w], binding[s])
    BY <1>2, <2>1, FoundAlone DEF Brings
  <2> QED
    BY <1>2, <2>1, <2>2 DEF Brings, Holds, TicketHeld
<1>3. ASSUME NEW t1 \in Tickets, NEW t2 \in Tickets,
             tickets[t1].session = s, tickets[t2].session = s
      PROVE  t1 = t2
  <2>1. CASE binding[s].ticket = t1
    BY <1>1, <1>2, <1>3, <2>1 DEF Owned
  <2>2. CASE binding[s].ticket # t1
    <3>1. PICK v \in Workers : Brings(v, s, t1)
      BY <1>1, <1>3, <2>2 DEF Owned
    <3>2. binding[s].ticket = None /\ InFlight(v)
      BY <1>2, <3>1
    <3>3. PICK w \in Workers : Brings(w, s, t2)
      BY <1>1, <1>3, <3>2 DEF Owned
    <3>4. v = w
      BY <1>2, <3>1, <3>2, <3>3 DEF Brings, Noticed
    <3> QED
      BY <3>1, <3>3, <3>4 DEF Brings
  <2> QED
    BY <2>1, <2>2
<1> DEFINE S == {t \in Tickets : tickets[t].session = s}
<1>4. CASE S = {}
  <2>1. Cardinality(S) = 0
    BY <1>4, FS_EmptySet
  <2> QED
    BY <2>1
<1>5. CASE S # {}
  <2>1. PICK t : t \in S
    BY <1>5
  <2>2. S = {t}
    BY <1>3, <2>1
  <2>3. Cardinality(S) = 1
    BY <2>2, FS_Singleton
  <2> QED
    BY <2>3
<1> QED
  BY <1>4, <1>5

\* What a step does to the sessions of the tickets: only Insert writes one.
LEMMA TicketSessions ==
  ASSUME Typed, InHand, NEW w \in Workers, Gateway(w) \/ Intake(w) \/ Crash(w)
  PROVE  \/ /\ \A t \in Tickets : tickets'[t].session = tickets[t].session
            /\ opened' = opened
         \/ /\ Insert(w)
            /\ \E t \in Tickets :
                 /\ tickets[t].session = None /\ tickets'[t].session = Session(w)
                 /\ \A o \in Tickets : o # t => tickets'[o] = tickets[o]
                 /\ opened' = [opened EXCEPT ![job[w].msg] = @ \cup {t}]
                 /\ job'[w].pc = "bind" /\ job'[w].how = "created" /\ job'[w].ticket = t
                 /\ job'[w].msg = job[w].msg
<1>1. CASE Insert(w)
  <2>1. PICK t \in Tickets :
       /\ tickets[t] = NoRow
       /\ tickets' = [tickets EXCEPT ![t] =
            [session |-> Session(w), faq |-> Consults(w),
             consulting |-> job[w].msg \in Consulting, closed |-> FALSE]]
       /\ opened' = [opened EXCEPT ![job[w].msg] = @ \cup {t}]
       /\ job' = [job EXCEPT ![w].pc = "bind", ![w].ticket = t, ![w].how = "created"]
    BY <1>1 DEF Insert
  <2>2. /\ tickets[t].session = None /\ tickets'[t].session = Session(w)
        /\ \A o \in Tickets : o # t => tickets'[o] = tickets[o]
    BY <2>1 DEF NoRow, Typed
  <2>3. job[w] \in Jobs /\ job'[w] = [job[w] EXCEPT !.pc = "bind", !.ticket = t, !.how = "created"]
    BY <2>1 DEF Typed
  <2>4. /\ job'[w].pc = "bind" /\ job'[w].how = "created" /\ job'[w].ticket = t
        /\ job'[w].msg = job[w].msg
    BY <2>3 DEF Jobs
  <2> QED
    BY <1>1, <2>1, <2>2, <2>4
<1>2. CASE Touch(w)
  <2>1. opened' = opened
    BY <1>2 DEF Touch, history
  <2> DEFINE b == job[w].msg \in Consulting
             r == [tickets[job[w].ticket] EXCEPT !.consulting = b]
  <2>2. tickets' = [tickets EXCEPT ![job[w].ticket] = r]
    BY <1>2 DEF Touch
  <2> HIDE DEF b
  <2>3. job[w].ticket \in Tickets => r.session = tickets[job[w].ticket].session
    BY DEF Typed, Rows
  <2> HIDE DEF r
  <2> QED
    BY <2>1, <2>2, <2>3 DEF Typed
<1>3. CASE ~Insert(w) /\ ~Touch(w)
  <2>1. tickets' = tickets /\ opened' = opened
    BY <1>3 DEF Gateway, Intake, Crash, OpenSession, Refresh, Guard, GuardAgain,
       RecordDuplicate, RecordAccepted, Route, Find, RefuseClosed, ReadTicket, Bind,
       BindMerge, BindReread, BindTicket, history
  <2> QED
    BY <2>1
<1> QED
  BY <1>1, <1>2, <1>3

\* A worker that does not bind or end keeps what it brings, and only the one
\* that has just inserted a ticket begins to bring one.
LEMMA BringsOn ==
  ASSUME Typed, InHand, NEW w \in Workers, Gateway(w) \/ Intake(w) \/ Crash(w),
         NEW s \in Sessions, NEW t \in Tickets, Brings(w, s, t), ~Crash(w), ~BindTicket(w)
  PROVE  Brings(w, s, t)'
<1>1. job[w] \in Jobs /\ job[w].pc \in {"bind", "merge", "reread", "bound"}
  BY DEF Typed, Brings
<1>2. Bind(w) \/ BindMerge(w) \/ BindReread(w)
  BY <1>1 DEF Gateway, Intake, OpenSession, Refresh, Guard, GuardAgain, RecordDuplicate,
     RecordAccepted, Route, Find, RefuseClosed, ReadTicket, Touch, Insert, At
<1>3. \E l \in {"merge", "bound", "reread"} : Goto(w, l) \/ Fetch(w, l)
  BY <1>2 DEF Bind, BindMerge, BindReread
<1>4. PICK l \in {"merge", "bound", "reread"} : Goto(w, l) \/ Fetch(w, l)
  BY <1>3
<1>5. \/ job'[w] = [job[w] EXCEPT !.pc = l]
      \/ job'[w] = [job[w] EXCEPT !.pc = l, !.snap = binding[Session(w)]]
  BY <1>4 DEF Goto, Fetch, Typed
<1>6. /\ job'[w].pc = l /\ job'[w].how = job[w].how /\ job'[w].ticket = job[w].ticket
      /\ job'[w].msg = job[w].msg
  BY <1>1, <1>5 DEF Jobs
<1> QED
  BY <1>4, <1>6 DEF Brings, Session

\* A ticket just opened is in its worker's hands until the session is bound
\* to it, and a session that is bound stays bound.
LEMMA OwnedStep ==
  ASSUME Typed, InHand, Noticed, RowsHeld, AllOwned, [Next]_vars
  PROVE  AllOwned'
<1>1. ASSUME NEW u \in Workers, NEW m \in Messages, Deliver(u, m)
      PROVE  AllOwned'
  <2>1. /\ ~InFlight(u) /\ overlapped \subseteq overlapped'
        /\ \A v \in Workers : v # u => job'[v] = job[v]
        /\ UNCHANGED <<binding, tickets, history, cut>>
    BY <1>1, Arrival
  <2>2. \A s \in Sessions, t \in Tickets, v \in Workers : Brings(v, s, t) => Brings(v, s, t)'
    BY <2>1 DEF Brings, InFlight, Session
  <2> QED
    BY <2>1, <2>2 DEF AllOwned, Owned
<1>2. ASSUME NEW u \in Workers, Gateway(u) \/ Intake(u) \/ Crash(u)
      PROVE  AllOwned'
  <2>1. /\ InFlight(u) /\ overlapped' = overlapped /\ Session(u) \in Sessions
        /\ \A v \in Workers : v # u => job'[v] = job[v]
        /\ \A s \in Sessions : s # Session(u) => binding'[s] = binding[s]
    BY <1>2, StepsMove, MovesAlone
  <2>2. cut \subseteq cut' /\ (Crash(u) => Session(u) \in cut')
    BY <1>2 DEF Gateway, Intake, Crash, OpenSession, Refresh, Guard, GuardAgain,
       RecordDuplicate, RecordAccepted, Route, Find, RefuseClosed, ReadTicket, Touch,
       Insert, Bind, BindMerge, BindReread, BindTicket
  <2> SUFFICES ASSUME NEW s \in Sessions, s \notin overlapped, s \notin cut',
                      NEW t \in Tickets, tickets'[t].session = s
               PROVE  binding'[s].ticket = t \/ \E w \in Workers : Brings(w, s, t)'
    BY <2>1 DEF AllOwned, Owned
  <2>3. Owned(s)
    BY <2>2 DEF AllOwned
  <2>4. \A v \in Workers : v # u => (Brings(v, s, t) => Brings(v, s, t)')
    BY <2>1 DEF Brings, Session
  <2>5. CASE tickets[t].session = s
    <3>1. CASE binding[s].ticket = t
      <4>1. binding'[s].ticket = t
        BY <1>2, <3>1, TicketStays
      <4> QED
        BY <4>1
    <3>2. CASE binding[s].ticket # t
      <4>1. PICK w \in Workers : Brings(w, s, t)
        BY <2>3, <2>5, <3>2 DEF Owned
      <4>2. CASE w # u
        BY <2>4, <4>1, <4>2
      <4>3. CASE w = u /\ BindTicket(u)
        <5>1. Session(u) = s /\ job[u].ticket = t
          BY <4>1, <4>3 DEF Brings
        <5>2. Holds(job[u], binding[s])
          BY <2>1, <5>1, FoundAlone
        <5>3. binding'[s].ticket = t
          BY <1>2, <4>3, <5>1, <5>2, AloneWrites
        <5> QED
          BY <5>3
      <4>4. CASE w = u /\ ~BindTicket(u)
        <5>1. ~Crash(u)
          BY <2>2, <4>1, <4>4 DEF Brings
        <5>2. Brings(w, s, t)'
          BY <1>2, <4>1, <4>4, <5>1, BringsOn
        <5> QED
          BY <5>2
      <4> QED
        BY <4>2, <4>3, <4>4
    <3> QED
      BY <3>1, <3>2
  <2>6. CASE tickets[t].session # s
    <3>1. /\ Session(u) = s /\ job'[u].pc = "bind" /\ job'[u].how = "created"
          /\ job'[u].ticket = t /\ job'[u].msg = job[u].msg
      BY <1>2, <2>6, TicketSessions
    <3>2. Brings(u, s, t)'
      BY <3>1 DEF Brings, Session
    <3> QED
      BY <3>2
  <2> QED
    BY <2>5, <2>6
<1>3. ASSUME NEW t \in Tickets, CloseTicket(t)
      PROVE  AllOwned'
  <2>1. UNCHANGED <<binding, job, overlapped, cut>>
    BY <1>3 DEF CloseTicket
  <2>2. \A o \in Tickets : tickets'[o].session = tickets[o].session
    BY <1>3 DEF CloseTicket, Typed, Rows
  <2> QED
    BY <2>1, <2>2 DEF AllOwned, Owned, Brings, Session
<1>4. CASE UNCHANGED vars
  BY <1>4 DEF vars, AllOwned, Owned, Brings, Session
<1> QED
  BY <1>1, <1>2, <1>3, <1>4 DEF Next

\* A ticket opened for a message has a row of its own.
OpenedExist == \A m \in Messages : \A t \in opened[m] : tickets[t].session # None

\* Tickets are never taken back.
LEMMA OpenedStep ==
  ASSUME Typed, InHand, OpenedExist, [Next]_vars
  PROVE  OpenedExist'
<1>1. ASSUME NEW u \in Workers, Gateway(u) \/ Intake(u) \/ Crash(u)
      PROVE  OpenedExist'
  <2>1. Session(u) \in Sessions /\ job[u].msg \in Messages
    BY <1>1, StepsMove, MovesAlone, Delivery
  <2>2. CASE /\ \A t \in Tickets : tickets'[t].session = tickets[t].session
             /\ opened' = opened
    BY <2>2 DEF OpenedExist, Typed
  <2>3. ASSUME NEW t \in Tickets, tickets'[t].session = Session(u),
               \A o \in Tickets : o # t => tickets'[o] = tickets[o],
               opened' = [opened EXCEPT ![job[u].msg] = @ \cup {t}]
        PROVE  OpenedExist'
    BY <2>1, <2>3 DEF OpenedExist, Typed
  <2> QED
    BY <1>1, <2>2, <2>3, TicketSessions
<1>2. ASSUME NEW t \in Tickets, CloseTicket(t)
      PROVE  OpenedExist'
  <2>1. opened' = opened
    BY <1>2 DEF CloseTicket, history
  <2>2. \A o \in Tickets : tickets'[o].session = tickets[o].session
    BY <1>2 DEF CloseTicket, Typed, Rows
  <2> QED
    BY <2>1, <2>2 DEF OpenedExist, Typed
<1>3. CASE UNCHANGED <<tickets, opened>>
  BY <1>3 DEF OpenedExist
<1> QED
  BY <1>1, <1>2, <1>3 DEF Next, Deliver, vars, history

-----------------------------------------------------------------------------
(* A message and what becomes of it.                                       *)

\* The steps after an acceptance, and those before the ticket is there.
Past == {"route", "find", "insert", "read", "touch", "bind", "merge", "reread", "bound"}
Choosing == {"route", "find", "insert"}

\* A message the promise is made for is accepted once at most, its key is then
\* in its session's row, it is served only after that, and whoever works on it
\* has accepted it and has not served it yet.
Once(m) ==
  /\ accepted[m] <= 1
  /\ accepted[m] = 1 => <<m>> \in Elements(binding[SessionOf[m]].keys)
  /\ m \in served \/ opened[m] # {} => accepted[m] = 1
  /\ \A w \in Workers :
       job[w].msg = m =>
         /\ job[w].pc \in Past => accepted[m] = 1 /\ m \notin served
         /\ job[w].pc \in Choosing => opened[m] = {}

EachOnce == \A m \in Messages \ Exempt : Once(m)

\* Nobody comes to work on a message but by accepting it, or to choose its
\* ticket once it has one.
LEMMA Onward ==
  ASSUME Typed, InHand, NEW u \in Workers, Gateway(u) \/ Intake(u) \/ Crash(u)
  PROVE  /\ job'[u].pc \in Past => job[u].pc \in Past \/ RecordAccepted(u)
         /\ job'[u].pc \in Choosing =>
              (job[u].pc \in {"route", "find"} /\ ~Insert(u)) \/ RecordAccepted(u)
         /\ BindTicket(u) => job'[u].pc = "idle" /\ job[u].pc = "bound"
         /\ Insert(u) => job[u].pc = "insert" /\ job'[u].pc = "bind"
<1>0. InFlight(u) /\ job[u] \in Jobs
  BY StepsMove, MovesAlone, Delivery
<1>1. Finish(u) => job'[u].pc = "idle"
  BY DEF Finish, Idle, Typed
<1>2. ASSUME NEW l, Goto(u, l) \/ Fetch(u, l) PROVE job'[u].pc = l
  <2>1. \/ job'[u] = [job[u] EXCEPT !.pc = l]
        \/ job'[u] = [job[u] EXCEPT !.pc = l, !.snap = binding[Session(u)]]
    BY <1>2 DEF Goto, Fetch, Typed
  <2> QED
    BY <1>0, <2>1 DEF Jobs
<1>3. CASE \/ OpenSession(u) \/ Refresh(u) \/ GuardAgain(u) \/ RecordDuplicate(u) \/ Crash(u)
           \/ RefuseClosed(u)
  <2>1. job'[u].pc \in {"guard", "refresh", "record", "idle"}
    BY <1>1, <1>2, <1>3 DEF OpenSession, Refresh, GuardAgain, RecordDuplicate, Crash,
       RefuseClosed
  <2>2. ~Insert(u)
    <3>1. ASSUME Insert(u) PROVE job'[u].pc = "bind"
      BY <1>0, <3>1 DEF Insert, Jobs, Typed
    <3> QED
      BY <2>1, <3>1
  <2>3. BindTicket(u) => job[u].pc = "bound" /\ job'[u].pc = "idle"
    BY <1>1 DEF BindTicket, At
  <2> QED
    BY <2>1, <2>2, <2>3 DEF Past, Choosing
<1>4. CASE Guard(u)
  BY <1>4, Guarded DEF Past, Choosing, BindTicket, Insert, At
<1>5. CASE RecordAccepted(u)
  BY <1>5 DEF RecordAccepted, BindTicket, Insert, At
<1>6. CASE Route(u)
  BY <1>6 DEF Route, BindTicket, Insert, At, Past
<1>7. CASE Find(u)
  BY <1>7 DEF Find, BindTicket, Insert, At, Past
<1>8. CASE Insert(u)
  <2>1. job'[u].pc = "bind" /\ job[u].pc = "insert"
    BY <1>0, <1>8 DEF Insert, Jobs, Typed, At
  <2> QED
    BY <2>1 DEF Past, Choosing, BindTicket, At
<1>9. CASE ReadTicket(u) \/ Touch(u) \/ Bind(u) \/ BindMerge(u) \/ BindReread(u)
  <2>1. /\ job'[u].pc \in {"touch", "bind", "merge", "bound", "reread"}
        /\ job[u].pc \in {"read", "touch", "bind", "merge", "reread"}
    BY <1>2, <1>9 DEF ReadTicket, Touch, Bind, BindMerge, BindReread, At
  <2> QED
    BY <2>1 DEF Past, Choosing, BindTicket, Insert, At
<1>10. CASE BindTicket(u)
  BY <1>1, <1>10 DEF BindTicket, Insert, At, Past, Choosing
<1> QED
  BY <1>3, <1>4, <1>5, <1>6, <1>7, <1>8, <1>9, <1>10 DEF Gateway, Intake

\* The history a message leaves: three steps write it, each of the worker that
\* has the message.
LEMMA Written ==
  ASSUME Typed, InHand, NEW u \in Workers, Gateway(u) \/ Intake(u) \/ Crash(u)
  PROVE  /\ accepted' = IF RecordAccepted(u) THEN [accepted EXCEPT ![job[u].msg] = @ + 1]
                        ELSE accepted
         /\ served' = IF BindTicket(u) THEN served \cup {job[u].msg} ELSE served
         /\ forgotten' = IF RecordAccepted(u)
                         THEN forgotten \cup (Elements(job[u].snap.keys) \ Elements(job[u].keys))
                         ELSE forgotten
<1>1. CASE RecordAccepted(u)
  BY <1>1 DEF RecordAccepted, BindTicket, At
<1>2. CASE BindTicket(u)
  BY <1>2 DEF RecordAccepted, BindTicket, At
<1>3. CASE ~RecordAccepted(u) /\ ~BindTicket(u)
  <2>1. accepted' = accepted /\ served' = served /\ forgotten' = forgotten
    BY <1>3 DEF Gateway, Intake, Crash, OpenSession, Refresh, Guard, GuardAgain,
       RecordDuplicate, Route, Find, RefuseClosed, ReadTicket, Touch, Insert, Bind,
       BindMerge, BindReread, history
  <2> QED
    BY <1>3, <2>1
<1> QED
  BY <1>1, <1>2, <1>3

\* What is exempt stays so.
LEMMA ExemptGrows ==
  ASSUME Typed, InHand, [Next]_vars
  PROVE  Exempt \subseteq Exempt'
<1>1. ASSUME NEW u \in Workers, NEW m \in Messages, Deliver(u, m)
      PROVE  Exempt \subseteq Exempt'
  BY <1>1, Arrival DEF Exempt, history
<1>2. ASSUME NEW u \in Workers, Gateway(u) \/ Intake(u) \/ Crash(u)
      PROVE  Exempt \subseteq Exempt'
  <2>1. overlapped' = overlapped /\ forgotten \subseteq forgotten'
    BY <1>2, StepsMove, MovesAlone, Written
  <2> QED
    BY <2>1 DEF Exempt
<1>3. CASE UNCHANGED <<overlapped, forgotten>>
  BY <1>3 DEF Exempt
<1> QED
  BY <1>1, <1>2, <1>3 DEF Next, CloseTicket, vars, history

\* The worker of a message the promise is made for is alone, and its key is
\* the message's id.
LEMMA WorkerOfMessage ==
  ASSUME Typed, InHand, Noticed, RowsHeld, NEW w \in Workers, InFlight(w), job[w].msg \notin Exempt
  PROVE  /\ Alone(w) /\ Holds(job[w], binding[Session(w)])
         /\ job[w].msg \in Numbered /\ job[w].key = <<job[w].msg>>
         /\ \A v \in Workers : v # w /\ InFlight(v) => job[v].msg # job[w].msg
<1>1. /\ job[w].msg \in Messages /\ Session(w) \in Sessions
      /\ job[w].key = Key(job[w].msg, job[w].time)
  BY Delivery DEF InHand
<1>2. job[w].msg \in Numbered /\ Session(w) \notin overlapped
  BY <1>1 DEF Exempt, Session
<1>3. Alone(w) /\ Holds(job[w], binding[Session(w)])
  BY <1>1, <1>2, FoundAlone
<1>4. \A v \in Workers : v # w /\ InFlight(v) => job[v].msg # job[w].msg
  BY <1>2 DEF Noticed, Session
<1> QED
  BY <1>1, <1>2, <1>3, <1>4 DEF Key

\* An acceptance is the first one: the guard has looked into the row.
LEMMA FirstAcceptance ==
  ASSUME Typed, InHand, Noticed, RowsHeld, EachOnce, Short,
         NEW u \in Workers, RecordAccepted(u), job[u].msg \notin Exempt
  PROVE  /\ accepted[job[u].msg] = 0
         /\ <<job[u].msg>> \in Elements(job[u].keys)
<1>1. /\ InFlight(u) /\ job[u].pc = "record" /\ ~job[u].duplicate
  BY DEF RecordAccepted, At, InFlight
<1>2. /\ Holds(job[u], binding[Session(u)]) /\ job[u].key = <<job[u].msg>>
  BY <1>1, WorkerOfMessage
<1>3. /\ job[u].key \notin Elements(binding[Session(u)].keys)
      /\ job[u].keys = Trimmed(Append(binding[Session(u)].keys, job[u].key))
  BY <1>1, <1>2 DEF Holds, VerdictHeld
<1>4. /\ job[u].msg \in Messages /\ Session(u) \in Sessions /\ job[u].key \in Keys
      /\ binding[Session(u)].keys \in Seq(Keys)
      /\ Len(binding[Session(u)].keys) <= HistoryLimit
  BY <1>1, Delivery DEF Bindings, Short
<1>5. accepted[job[u].msg] # 1 /\ accepted[job[u].msg] <= 1
  BY <1>2, <1>3, <1>4 DEF EachOnce, Once, Session
<1>6. job[u].key \in Elements(job[u].keys)
  BY <1>3, <1>4, Recorded
<1>7. accepted[job[u].msg] \in Nat
  BY <1>4 DEF Typed
<1> QED
  BY <1>2, <1>5, <1>6, <1>7

\* A step of a delivery keeps the promise of every message that is not exempt
\* after it.
LEMMA OnceMove ==
  ASSUME Typed, InHand, Noticed, RowsHeld, EachOnce, Short,
         NEW u \in Workers, Gateway(u) \/ Intake(u) \/ Crash(u), Exempt \subseteq Exempt',
         NEW m \in Messages, m \notin Exempt'
  PROVE  Once(m)'
<1>1. /\ InFlight(u) /\ Session(u) \in Sessions /\ job[u].msg \in Messages
      /\ overlapped' = overlapped /\ GoesOn(u, job'[u])
      /\ \A v \in Workers : v # u => job'[v] = job[v]
      /\ \A s \in Sessions : s # Session(u) => binding'[s] = binding[s]
  BY StepsMove, MovesAlone, Delivery
<1>2. /\ Once(m) /\ m \notin Exempt /\ SessionOf[m] \in Sessions
      /\ SessionOf[m] \notin overlapped /\ m \in Numbered
  BY DEF EachOnce, Exempt
<1>3. /\ accepted' = IF RecordAccepted(u) THEN [accepted EXCEPT ![job[u].msg] = @ + 1]
                     ELSE accepted
      /\ served' = IF BindTicket(u) THEN served \cup {job[u].msg} ELSE served
  BY Written
<1>4. \/ opened'[m] = opened[m]
      \/ Insert(u) /\ job[u].msg = m
  BY TicketSessions DEF Typed
<1>5. accepted[m] \in Nat
  BY DEF Typed
<1>6. CASE SessionOf[m] # Session(u)
  <2>1. job[u].msg # m
    BY <1>6 DEF Session
  <2>2. /\ accepted'[m] = accepted[m] /\ (m \in served' <=> m \in served)
        /\ opened'[m] = opened[m] /\ binding'[SessionOf[m]] = binding[SessionOf[m]]
    BY <1>1, <1>2, <1>3, <1>4, <1>6, <2>1 DEF Typed
  <2>3. job'[u].msg = m => job'[u].pc = "idle"
    BY <1>1, <2>1 DEF GoesOn
  <2>4. \A w \in Workers :
           job'[w].msg = m =>
             /\ job'[w].pc \in Past => accepted[m] = 1 /\ m \notin served
             /\ job'[w].pc \in Choosing => opened[m] = {}
    BY <1>1, <1>2, <2>3 DEF Once, Past, Choosing
  <2> QED
    BY <1>2, <2>2, <2>4 DEF Once
<1>7. CASE SessionOf[m] = Session(u)
  <2>1. Alone(u) /\ Holds(job[u], binding[Session(u)])
    BY <1>1, <1>2, <1>7, FoundAlone
  <2>2. \A v \in Workers : v # u /\ InFlight(v) => job[v].msg # m
    BY <1>1, <1>2, <1>7 DEF Noticed, Session
  <2>3. binding'[Session(u)].keys = IF RecordAccepted(u) THEN job[u].keys
                                    ELSE binding[Session(u)].keys
    BY <2>1, AloneWrites
  <2>4. job[u].msg = m /\ RecordAccepted(u) =>
           /\ accepted[m] = 0 /\ <<m>> \in Elements(job[u].keys)
    BY <1>2, FirstAcceptance
  <2>5. accepted'[m] = IF RecordAccepted(u) /\ job[u].msg = m THEN 1 ELSE accepted[m]
    BY <1>1, <1>3, <1>5, <2>4 DEF Typed
  <2>6. accepted'[m] = 1 => <<m>> \in Elements(binding'[SessionOf[m]].keys)
    <3>1. CASE RecordAccepted(u) /\ job[u].msg = m
      BY <1>7, <2>3, <2>4, <3>1
    <3>2. CASE RecordAccepted(u) /\ job[u].msg # m
      <4>1. job[u].snap = binding[Session(u)]
        BY <2>1, <3>2 DEF RecordAccepted, At, Holds, CopyHeld
      <4>2. Elements(job[u].snap.keys) \ Elements(job[u].keys) \subseteq forgotten'
        BY <3>2, Written
      <4>3. <<m>> \notin forgotten'
        BY DEF Exempt
      <4> QED
        BY <1>2, <1>7, <2>3, <2>5, <3>2, <4>1, <4>2, <4>3 DEF Once
    <3>3. CASE ~RecordAccepted(u)
      BY <1>2, <1>7, <2>3, <2>5, <3>3 DEF Once
    <3> QED
      BY <3>1, <3>2, <3>3
  <2>7. accepted'[m] <= 1
    BY <1>2, <2>5 DEF Once
  <2>8. m \in served' => accepted'[m] = 1
    <3>1. BindTicket(u) /\ job[u].msg = m => accepted[m] = 1
      BY <1>2, Onward DEF Once, Past
    <3> QED
      BY <1>2, <1>3, <2>5, <3>1 DEF Once
  <2>9. opened'[m] # {} => accepted'[m] = 1
    <3>1. Insert(u) /\ job[u].msg = m => accepted[m] = 1
      BY <1>2, Onward DEF Once, Past
    <3> QED
      BY <1>2, <1>4, <2>5, <3>1 DEF Once
  <2>10. ASSUME NEW w \in Workers, job'[w].msg = m
         PROVE  /\ job'[w].pc \in Past => accepted'[m] = 1 /\ m \notin served'
                /\ job'[w].pc \in Choosing => opened'[m] = {}
    <3>1. CASE w # u
      <4>1. job'[w].pc = "idle"
        BY <1>1, <2>2, <2>10, <3>1 DEF InFlight
      <4> QED
        BY <4>1 DEF Past, Choosing
    <3>2. CASE w = u
      <4>1. CASE job'[u].pc = "idle"
        BY <3>2, <4>1 DEF Past, Choosing
      <4>2. CASE job'[u].pc # "idle"
        <5>1. job[u].msg = m /\ ~BindTicket(u)
          BY <1>1, <2>10, <3>2, <4>2, Onward DEF GoesOn
        <5>2. served' = served
          BY <1>3, <5>1
        <5>3. job'[u].pc \in Past => accepted'[m] = 1 /\ m \notin served'
          BY <1>2, <2>4, <2>5, <5>1, <5>2, Onward DEF Once
        <5>4. job'[u].pc \in Choosing => opened'[m] = {}
          <6>1. Insert(u) => job'[u].pc \notin Choosing
            BY Onward DEF Choosing
          <6> QED
            BY <1>2, <1>4, <2>4, <5>1, <6>1, Onward DEF Once, Choosing
        <5> QED
          BY <3>2, <5>3, <5>4
      <4> QED
        BY <4>1, <4>2
    <3> QED
      BY <3>1, <3>2
  <2> QED
    BY <2>6, <2>7, <2>8, <2>9, <2>10 DEF Once
<1> QED
  BY <1>6, <1>7

\* So every step keeps it.
LEMMA OnceStep ==
  ASSUME Typed, InHand, Noticed, RowsHeld, EachOnce, Short, [Next]_vars
  PROVE  EachOnce'
<1> SUFFICES ASSUME NEW m \in Messages, m \notin Exempt'
             PROVE  Once(m)'
  BY DEF EachOnce
<1>0. Exempt \subseteq Exempt' /\ Once(m)
  BY ExemptGrows DEF EachOnce
<1>1. ASSUME NEW u \in Workers, NEW n \in Messages, Deliver(u, n)
      PROVE  Once(m)'
  <2>1. /\ job'[u].pc = "open" /\ UNCHANGED <<binding, history>>
        /\ \A v \in Workers : v # u => job'[v] = job[v]
    BY <1>1, Arrival
  <2> QED
    BY <1>0, <2>1 DEF Once, history, Past, Choosing
<1>2. ASSUME NEW u \in Workers, Gateway(u) \/ Intake(u) \/ Crash(u)
      PROVE  Once(m)'
  BY <1>0, <1>2, OnceMove
<1>3. CASE UNCHANGED <<binding, job, history>>
  BY <1>0, <1>3 DEF Once, history
<1> QED
  BY <1>1, <1>2, <1>3 DEF Next, CloseTicket, vars, history

-----------------------------------------------------------------------------
(* The inductive invariant and the theorems.                               *)

BInv == /\ Typed /\ InHand /\ Short /\ Genuine /\ Counted /\ Noticed /\ RowsHeld
        /\ ReplaysCounted /\ AllOwned /\ OpenedExist /\ EachOnce

\* The initial states satisfy it.
LEMMA InitBInv == Init => BInv
<1> SUFFICES ASSUME Init PROVE BInv
  OBVIOUS
<1>1. Typed /\ InHand
  BY InitTyped
<1>2. /\ \A w \in Workers : job[w] = Idle /\ ~InFlight(w)
      /\ \A s \in Sessions : binding[s] = NoBinding /\ dropped[s] = 0
      /\ \A t \in Tickets : tickets[t] = NoRow
      /\ \A m \in Messages : accepted[m] = 0 /\ opened[m] = {}
      /\ served = {} /\ ignored = {} /\ delivered = 0
  BY DEF Init, InFlight, Idle
<1>3. /\ Idle.pc = "idle" /\ Idle.snap = NoBinding /\ Idle.keys = <<>> /\ Idle.replays = 0
      /\ NoBinding.keys = <<>> /\ NoBinding.replays = 0 /\ NoRow.session = None
  BY DEF Idle, NoBinding, NoRow
<1>4. Short /\ Genuine
  BY <1>2, <1>3, EmptyHistory DEF Short, Genuine
<1>5. Counted
  <2>1. Unsettled = {} /\ Coming = {}
    BY <1>2, <1>3 DEF Unsettled, Coming
  <2>2. IsFiniteSet({}) /\ Cardinality({}) = 0
    BY FS_EmptySet
  <2> QED
    BY <1>2, <1>3, <2>1, <2>2 DEF Counted
<1>6. Noticed /\ RowsHeld /\ ReplaysCounted
  BY <1>2, <1>3 DEF Noticed, RowsHeld, Alone, ReplaysCounted
<1>7. AllOwned /\ OpenedExist
  BY <1>2, <1>3 DEF AllOwned, Owned, OpenedExist
<1>8. EachOnce
  BY <1>2, <1>3 DEF EachOnce, Once, Past, Choosing
<1> QED
  BY <1>1, <1>4, <1>5, <1>6, <1>7, <1>8 DEF BInv

\* Every step keeps it.
LEMMA NextBInv == BInv /\ [Next]_vars => BInv'
  BY NextTyped, ShortStep, GenuineStep, CountedStep, NoticedStep, RowsHeldStep,
     ReplaysStep, OwnedStep, OpenedStep, OnceStep DEF BInv

\* BInv is an invariant: histories hold only accepted keys whatever meets, and
\* a delivery that is alone on its session holds what the session's row holds.
THEOREM Invariance == Spec => []BInv
  BY InitBInv, NextBInv, PTL DEF Spec

\* The variables keep their types: histories stay within their limit, and no
\* count of a row or of a message exceeds the deliveries.
THEOREM TypeCorrect == Spec => []TypeOK
<1>1. BInv => TypeOK
  <2> SUFFICES ASSUME BInv PROVE TypeOK
    OBVIOUS
  <2>1. Typed /\ Short /\ Counted
    BY DEF BInv
  <2>2. /\ Cardinality(Coming) \in Nat /\ Cardinality(Unsettled) \in Nat
        /\ delivered \in 0 .. MaxDeliveries
    BY <2>1, CountsType DEF Counted, Typed
  <2>3. \A n, c \in Nat : n + c <= delivered => n \in 0 .. MaxDeliveries
    BY <2>2
  <2>4. \A s \in Sessions : /\ binding[s].replays \in 0 .. MaxDeliveries
                            /\ dropped[s] \in 0 .. MaxDeliveries
    <3>1. \A s \in Sessions : binding[s].replays \in Nat /\ dropped[s] \in Nat
      BY <2>1 DEF Typed, Bindings
    <3> QED
      BY <2>1, <2>2, <2>3, <3>1 DEF Counted
  <2>5. \A m \in Messages : accepted[m] \in 0 .. MaxDeliveries
    BY <2>1, <2>2, <2>3 DEF Counted, Typed
  <2>6. accepted \in [Messages -> 0 .. MaxDeliveries] /\ dropped \in [Sessions -> 0 .. MaxDeliveries]
    BY <2>1, <2>4, <2>5 DEF Typed
  <2>7. \A s \in Sessions : /\ binding[s].ticket \in Tickets \cup {None}
                            /\ binding[s].intent \in {None, "consulting", "support"}
                            /\ binding[s].mode \in {None, "single_issue", "faq_consulting"}
    BY <2>1 DEF Typed, Bindings
  <2>8. \A t \in Tickets : tickets[t].session \in Sessions \cup {None}
    BY <2>1 DEF Typed, Rows
  <2>9. \A w \in Workers : /\ job[w].pc \in Labels
                           /\ job[w].msg \in Messages \cup {None}
                           /\ job[w].ticket \in Tickets \cup {None}
                           /\ job[w].how \in {None, "created", "reused", "bound"}
    BY <2>1 DEF Typed, Jobs
  <2> QED
    BY <2>1, <2>4, <2>6, <2>7, <2>8, <2>9 DEF TypeOK, Typed, Short
<1> QED
  BY <1>1, Invariance, PTL

\* The replay count of a session nobody met on is the number of deliveries
\* dropped, although create_ticket writes it back from the envelope.
THEOREM ReplaysAreCounted == Spec => []ReplaysCounted
<1>1. BInv => ReplaysCounted
  BY DEF BInv
<1> QED
  BY <1>1, Invariance, PTL

\* A session nobody met on and no delivery was cut off on has one ticket.
THEOREM SessionsHaveOneTicket == Spec => []OneTicketPerSession
<1>1. BInv => OneTicketPerSession
  BY OneOwned DEF BInv
<1> QED
  BY <1>1, Invariance, PTL

\* Whatever meets and whatever is overwritten, a message with an id is dropped
\* as a duplicate only if it was accepted.
THEOREM OnlyAcceptedAreIgnored == Spec => []IgnoredWasAccepted
<1>1. BInv => IgnoredWasAccepted
  BY DEF BInv, Genuine, IgnoredWasAccepted
<1> QED
  BY <1>1, Invariance, PTL

\* A session nobody met on that is bound to a ticket stays bound to it.
THEOREM SessionsStayBound == Spec => BindingKept
<1> DEFINE Kept == \A s \in Sessions \ overlapped :
                     binding[s].ticket # None => binding'[s].ticket = binding[s].ticket
<1>1. BInv /\ [Next]_vars => [Kept]_vars
  <2> SUFFICES ASSUME BInv, [Next]_vars PROVE [Kept]_vars
    OBVIOUS
  <2>1. ASSUME NEW u \in Workers, Gateway(u) \/ Intake(u) \/ Crash(u)
        PROVE  Kept
    BY <2>1, TicketStays DEF BInv
  <2>2. CASE binding' = binding
    BY <2>2
  <2> QED
    BY <2>1, <2>2 DEF Next, Deliver, CloseTicket, vars
<1> QED
  BY <1>1, Invariance, PTL DEF Spec, BindingKept

-----------------------------------------------------------------------------
(* The deliveries keep the promise of the replay guard.                    *)

\* What Deliveries calls the stage of the messages.
StageOf == [m \in Messages |-> Stage(m)]

\* The stage of a message the promise is made for.
LEMMA StageIs ==
  ASSUME Typed, NEW m \in Messages
  PROVE  /\ accepted[m] = 0 => Stage(m) = "new"
         /\ accepted[m] = 1 /\ m \notin served => Stage(m) = "accepted"
         /\ accepted[m] = 1 /\ m \in served => Stage(m) = "served"
  BY DEF Stage

\* A step of a delivery moves its own message only, and that as promised.
LEMMA MoveKeepsPromise ==
  ASSUME BInv, BInv', NEW u \in Workers, Gateway(u) \/ Intake(u) \/ Crash(u),
         Exempt \subseteq Exempt'
  PROVE  Promise!Next
<1>0. job[u].msg \in Messages /\ InFlight(u) /\ Typed /\ Typed'
  BY StepsMove, MovesAlone, Delivery DEF BInv
<1> SUFFICES ASSUME NEW m \in Messages, m = job[u].msg
             PROVE  Promise!Next
  BY <1>0
<1>1. m \in Messages /\ InFlight(u) /\ Typed /\ Typed'
  BY <1>0
<1>2. /\ accepted' = IF RecordAccepted(u) THEN [accepted EXCEPT ![m] = @ + 1] ELSE accepted
      /\ served' = IF BindTicket(u) THEN served \cup {m} ELSE served
  BY Written DEF BInv
<1>3. \/ opened' = opened
      \/ /\ Insert(u)
         /\ \E t \in Tickets : /\ tickets[t].session = None
                               /\ opened' = [opened EXCEPT ![m] = @ \cup {t}]
  BY TicketSessions DEF BInv
<1>4. ASSUME NEW n \in Messages, n # m
      PROVE  StageOf'[n] = StageOf[n] /\ opened'[n] = opened[n]
  <2>1. accepted'[n] = accepted[n] /\ (n \in served' <=> n \in served) /\ opened'[n] = opened[n]
    BY <1>1, <1>2, <1>3, <1>4 DEF Typed
  <2> QED
    BY <2>1 DEF StageOf, Stage
<1>5. \/ m \in Exempt'
      \/ StageOf'[m] = StageOf[m] /\ opened'[m] = opened[m]
      \/ StageOf[m] = "new" /\ StageOf'[m] = "accepted" /\ opened'[m] = opened[m]
      \/ StageOf[m] = "accepted" /\ StageOf'[m] = "served" /\ opened'[m] = opened[m]
      \/ /\ StageOf[m] = "accepted" /\ StageOf'[m] = StageOf[m] /\ opened[m] = {}
         /\ \E t \in Tickets : /\ opened'[m] = {t}
                               /\ \A n \in Messages : t \notin opened[n]
  <2> SUFFICES ASSUME m \notin Exempt'
               PROVE  \/ StageOf'[m] = StageOf[m] /\ opened'[m] = opened[m]
                      \/ StageOf[m] = "new" /\ StageOf'[m] = "accepted" /\ opened'[m] = opened[m]
                      \/ StageOf[m] = "accepted" /\ StageOf'[m] = "served" /\ opened'[m] = opened[m]
                      \/ /\ StageOf[m] = "accepted" /\ StageOf'[m] = StageOf[m] /\ opened[m] = {}
                         /\ \E t \in Tickets : /\ opened'[m] = {t}
                                               /\ \A n \in Messages : t \notin opened[n]
    OBVIOUS
  <2>1. Once(m) /\ m \notin Exempt
    BY <1>1 DEF BInv, EachOnce
  <2>2. StageOf[m] = Stage(m) /\ StageOf'[m] = Stage(m)'
    BY <1>1 DEF StageOf
  <2>3. CASE RecordAccepted(u)
    <3>1. accepted[m] = 0 /\ m \notin served
      BY <2>1, <2>3, FirstAcceptance DEF BInv, Once
    <3>2. ~BindTicket(u) /\ ~Insert(u)
      BY <2>3 DEF RecordAccepted, BindTicket, Insert, At
    <3>3. accepted'[m] = 1 /\ m \notin served' /\ opened' = opened
      BY <1>1, <1>2, <1>3, <2>3, <3>1, <3>2 DEF Typed
    <3>4. Stage(m) = "new" /\ Stage(m)' = "accepted"
      BY <3>1, <3>3 DEF Stage
    <3> QED
      BY <2>2, <3>3, <3>4
  <2>4. CASE BindTicket(u)
    <3>1. accepted[m] = 1 /\ m \notin served
      BY <1>1, <2>1, <2>4, Onward DEF BInv, Once, Past
    <3>2. ~RecordAccepted(u) /\ ~Insert(u)
      BY <2>4 DEF RecordAccepted, BindTicket, Insert, At
    <3>3. accepted'[m] = 1 /\ m \in served' /\ opened' = opened
      BY <1>1, <1>2, <1>3, <2>4, <3>1, <3>2
    <3>4. Stage(m) = "accepted" /\ Stage(m)' = "served"
      BY <3>1, <3>3 DEF Stage
    <3> QED
      BY <2>2, <3>3, <3>4
  <2>5. CASE Insert(u) /\ opened' # opened
    <3>1. accepted[m] = 1 /\ m \notin served /\ opened[m] = {}
      <4>1. job[u].pc = "insert"
        BY <2>5, Onward DEF BInv
      <4> QED
        BY <2>1, <4>1 DEF Once, Past, Choosing
    <3>2. ~RecordAccepted(u) /\ ~BindTicket(u)
      BY <2>5 DEF RecordAccepted, BindTicket, Insert, At
    <3>3. accepted'[m] = 1 /\ m \notin served'
      BY <1>2, <3>1, <3>2
    <3>4. Stage(m) = "accepted" /\ Stage(m)' = "accepted"
      BY <3>1, <3>3 DEF Stage
    <3>5. PICK t \in Tickets : /\ tickets[t].session = None
                               /\ opened' = [opened EXCEPT ![m] = @ \cup {t}]
      BY <1>3, <2>5
    <3>6. opened'[m] = {t}
      BY <1>1, <3>1, <3>5 DEF Typed
    <3>7. \A n \in Messages : t \notin opened[n]
      BY <3>5 DEF BInv, OpenedExist
    <3> QED
      BY <2>2, <3>1, <3>4, <3>6, <3>7
  <2>6. CASE ~RecordAccepted(u) /\ ~BindTicket(u) /\ opened' = opened
    <3>1. accepted' = accepted /\ served' = served
      BY <1>2, <2>6
    <3>2. Stage(m)' = Stage(m)
      BY <3>1 DEF Stage
    <3> QED
      BY <2>2, <2>6, <3>2
  <2> QED
    BY <1>3, <2>3, <2>4, <2>5, <2>6
<1>6. \/ Promise!Accept(m) \/ Promise!Serve(m) \/ \E t \in Tickets : Promise!Open(m, t)
      \/ Promise!Same(m) \/ m \in Exempt'
  BY <1>5 DEF Promise!Accept, Promise!Serve, Promise!Open, Promise!Same, StageOf
<1>7. \A n \in Messages \ ({m} \cup Exempt') : Promise!Same(n)
  BY <1>4 DEF Promise!Same, StageOf
<1> QED
  BY <1>1, <1>6, <1>7 DEF Promise!Next

\* Every run of the bridge is a run of Deliveries: a message the promise is
\* made for is accepted, gets its ticket and is served once at most, however
\* often and in whatever order the channel delivers it and whoever is cut off.
THEOREM DeliveriesKeepTheirPromise == Spec => DeliveriesImplemented
<1>1. Init => Promise!Init
  <2> SUFFICES ASSUME Init PROVE Promise!Init
    OBVIOUS
  <2>1. \A m \in Messages : Stage(m) = "new"
    BY DEF Init, Stage
  <2>2. opened = [m \in Messages |-> {}] /\ Exempt \in SUBSET Messages
    BY DEF Init, Exempt
  <2> QED
    BY <2>1, <2>2 DEF Promise!Init
<1>2. BInv /\ BInv' /\ [Next]_vars => [Promise!Next]_(Promise!vars)
  <2> SUFFICES ASSUME BInv, BInv', [Next]_vars
               PROVE  Promise!Next \/ (/\ StageOf' = StageOf /\ opened' = opened
                                       /\ Exempt' = Exempt)
    BY DEF Promise!vars, StageOf
  <2>0. Exempt \subseteq Exempt'
    BY ExemptGrows DEF BInv
  <2>1. ASSUME NEW u \in Workers, NEW m \in Messages, Deliver(u, m)
        PROVE  Promise!Next
    <3>1. accepted' = accepted /\ served' = served /\ opened' = opened
      BY <2>1 DEF Deliver, history
    <3>2. \A n \in Messages : StageOf'[n] = StageOf[n] /\ opened'[n] = opened[n]
      BY <3>1 DEF StageOf, Stage
    <3>3. \A n \in Messages : Promise!Same(n)
      BY <3>2 DEF Promise!Same, StageOf
    <3> QED
      BY <2>0, <3>3 DEF Promise!Next
  <2>2. ASSUME NEW u \in Workers, Gateway(u) \/ Intake(u) \/ Crash(u)
        PROVE  Promise!Next
    BY <2>0, <2>2, MoveKeepsPromise
  <2>3. CASE UNCHANGED <<accepted, served, opened, forgotten, overlapped>>
    BY <2>3 DEF StageOf, Stage, Exempt
  <2> QED
    BY <2>1, <2>2, <2>3 DEF Next, CloseTicket, vars, history
<1> QED
  BY <1>1, <1>2, Invariance, PTL DEF Spec, DeliveriesImplemented, Promise!Spec

=============================================================================
