-------------------------- MODULE Approvals_proofs --------------------------
(***************************************************************************)
(* Proofs about Approvals, for any number of tickets, workers and ids, any *)
(* subset of the commands and any bounds.                                  *)
(*                                                                         *)
(* A list of approvals is written back from a copy read some calls before, *)
(* so nothing can be said of the stored rows alone.  The invariant speaks  *)
(* of every approval there is in a row or in a copy a request carries:     *)
(* whatever is true of all of them is true of what any request may write.  *)
(***************************************************************************)
EXTENDS Approvals, TLAPS, SequenceTheorems, FiniteSetTheorems, WellFoundedInduction

-----------------------------------------------------------------------------
(* The inductive invariant.                                                *)

\* The request is on its way over the tickets it read.
Walking(j) == j.pc \in {"sweep", "look"} \/ (j.pc = "note" /\ j.after = "look")

\* What a request has in hand at each step.
WellFormed(j) ==
  /\ j.pc \in {"context", "build", "append"} =>
       j.on \in Tickets /\ j.type \in ActionTypes /\ j.result = None
  /\ j.pc \in {"show", "assign", "state", "resolve", "close", "trail", "complete"} => j.on \in Tickets
  /\ Walking(j) => j.view \in [Tickets -> Row]
  /\ j.pc # "sweep" /\ Walking(j) => j.todo # <<>>
  /\ j.pc \in {"append", "complete"} => j.found \in Row
  /\ j.pc \in {"execute", "mark"} =>
       /\ j.on \in Tickets /\ j.id \in Approvals /\ j.found \in Row
       /\ Has(j.found.actions, j.id)
  /\ j.pc = "mark" /\ j.cmd = "approve" => j.result \in Row \ {None}
  /\ j.pc = "note" => j.events # <<>>
  /\ j.pc # "note" => j.after = "idle"

Shaped == \A w \in Workers : WellFormed(job[w])

Elems(as) == {as[i] : i \in DOMAIN as}
OnTickets(rows) == UNION {Elems(rows[t].actions) : t \in Tickets}

\* The approvals a request carries along, and all there are.
Carried(j) ==
  (IF Walking(j) THEN OnTickets(j.view) ELSE {})
    \cup IF j.pc \in {"append", "execute", "mark", "complete"} THEN Elems(j.found.actions) ELSE {}
Circulating == OnTickets(row) \cup UNION {Carried(job[w]) : w \in Workers}

\* No copy of an approval has a verdict that was never due to it.
Earned(x) == /\ x.state = "approved" => x.id \in executed
             /\ x.state = "timeout" => x.due <= now
Genuine == \A x \in Circulating : x.id \in issued /\ Earned(x)

\* The copies of an approval agree on its deadline.
OneDue == \A x, y \in Circulating : x.id = y.id => x.due = y.due

\* The events appended and about to be appended.
Events == timeline \cup UNION {Elems(job[w].events) : w \in Workers}

Announced ==
  \A e \in Events :
    /\ e[1] \in issued
    /\ e[2] \in {"approved", "resumed"} => e[1] \in executed
    /\ e[2] = "timeout" => \A x \in Circulating : x.id = e[1] => x.due <= now

ExecutedFirst == \A w \in Workers : job[w].result # None => job[w].id \in executed

IdsIssued == executed \subseteq issued /\ \A w \in Workers : job[w].id # None => job[w].id \in issued

AInv == /\ TypeOK /\ Shaped /\ Genuine /\ OneDue /\ Announced /\ ExecutedFirst /\ IdsIssued

-----------------------------------------------------------------------------
(* Sequences and lists of approvals.                                       *)

\* A set of numbers up to n that is not empty has a greatest.
LEMMA Least ==
  ASSUME NEW T \in SUBSET Nat, T # {}
  PROVE  \E x \in T : \A y \in T : x <= y
<1> DEFINE R == OpToRel(<, Nat)
<1>1. IsWellFoundedOn(R, Nat)
  BY NatLessThanWellFounded
<1>2. \A x, y \in Nat : <<x, y>> \in R <=> x < y
  BY DEF OpToRel
<1> HIDE DEF R
<1>3. PICK x \in T : \A y \in T : ~(<<y, x>> \in R)
  BY <1>1, WFMin
<1>4. ASSUME NEW y \in T PROVE x <= y
  <2>1. x \in Nat /\ y \in Nat /\ ~(y < x)
    BY <1>2, <1>3
  <2> QED BY <2>1
<1> QED BY <1>4

LEMMA Greatest ==
  ASSUME NEW n \in Nat, NEW T \in SUBSET (1 .. n), T # {}
  PROVE  \E x \in T : \A y \in T : y <= x
<1> DEFINE U == {n - i : i \in T}
<1>1. PICK i \in T : TRUE
  OBVIOUS
<1>2. n - i \in U /\ U \in SUBSET Nat
  OBVIOUS
<1>3. PICK m \in U : \A k \in U : m <= k
  <2> HIDE DEF U
  <2> QED BY <1>2, Least
<1>4. PICK x \in T : m = n - x
  BY <1>3
<1>5. \A y \in T : n - x <= n - y
  BY <1>3, <1>4
<1>6. \A y \in T : y <= x
  BY <1>5
<1> QED BY <1>6

\* The elements of a sequence over a set, and a sequence by its elements.
LEMMA SeqElements ==
  ASSUME NEW S, NEW s \in Seq(S)
  PROVE  /\ Len(s) \in Nat /\ DOMAIN s = 1 .. Len(s)
         /\ \A i \in DOMAIN s : s[i] \in S
         /\ Elems(s) \subseteq S
BY DEF Elems

LEMMA SeqByElements ==
  ASSUME NEW S, NEW n \in Nat, NEW s, s \in [1 .. n -> S]
  PROVE  s \in Seq(S)
BY SeqDef

\* Deciding one approval of a list.
LEMMA DecidedList ==
  ASSUME NEW as \in Seq(Action), NEW a, NEW s \in State
  PROVE  /\ Decided(as, a, s) \in Seq(Action)
         /\ DOMAIN Decided(as, a, s) = DOMAIN as
         /\ \A x \in Elems(Decided(as, a, s)) : \E y \in Elems(as) :
              /\ x.id = y.id /\ x.due = y.due /\ x.type = y.type /\ x.resume = y.resume
              /\ (x.id = a => x.state = s) /\ (x.id # a => x.state = y.state)
<1> DEFINE d == Decided(as, a, s)
<1>1. Len(as) \in Nat /\ DOMAIN as = 1 .. Len(as) /\ \A i \in DOMAIN as : as[i] \in Action
  BY SeqElements
<1>2. DOMAIN d = DOMAIN as
  BY DEF Decided
<1>3. \A i \in DOMAIN as : d[i] = IF as[i].id = a THEN [as[i] EXCEPT !.state = s] ELSE as[i]
  BY DEF Decided
<1>4. d = [i \in DOMAIN as |-> d[i]]
  BY DEF Decided
<1> HIDE DEF d
<1>5. ASSUME NEW i \in DOMAIN as
      PROVE  /\ d[i] \in Action
             /\ d[i].id = as[i].id /\ d[i].due = as[i].due
             /\ d[i].type = as[i].type /\ d[i].resume = as[i].resume
             /\ (d[i].id = a => d[i].state = s) /\ (d[i].id # a => d[i].state = as[i].state)
  <2>1. as[i] \in Action
    BY <1>1
  <2> QED BY <2>1, <1>3 DEF Action
<1>6. d \in [1 .. Len(as) -> Action]
  BY <1>1, <1>4, <1>5
<1>7. d \in Seq(Action)
  BY <1>1, <1>6, SeqByElements
<1>8. \A x \in Elems(d) : \E i \in DOMAIN as : x = d[i] /\ as[i] \in Elems(as)
  BY <1>2 DEF Elems
<1>9. ASSUME NEW x \in Elems(d)
      PROVE  \E y \in Elems(as) :
               /\ x.id = y.id /\ x.due = y.due /\ x.type = y.type /\ x.resume = y.resume
               /\ (x.id = a => x.state = s) /\ (x.id # a => x.state = y.state)
  <2>1. PICK i \in DOMAIN as : x = d[i] /\ as[i] \in Elems(as)
    BY <1>8
  <2> QED BY <1>5, <2>1
<1> QED BY <1>2, <1>7, <1>9 DEF d

\* Timing out the approvals of a list whose deadline has passed.
LEMMA TimedOutList ==
  ASSUME NEW as \in Seq(Action)
  PROVE  /\ TimedOut(as) \in Seq(Action)
         /\ DOMAIN TimedOut(as) = DOMAIN as
         /\ \A x \in Elems(TimedOut(as)) : \E y \in Elems(as) :
              /\ x.id = y.id /\ x.due = y.due /\ x.type = y.type /\ x.resume = y.resume
              /\ \/ x.state = y.state
                 \/ x.state = "timeout" /\ x.due <= now /\ y.state = "pending_approval"
<1> DEFINE d == TimedOut(as)
<1>1. Len(as) \in Nat /\ DOMAIN as = 1 .. Len(as) /\ \A i \in DOMAIN as : as[i] \in Action
  BY SeqElements
<1>2. DOMAIN d = DOMAIN as
  BY DEF TimedOut
<1>3. \A i \in DOMAIN as :
        d[i] = IF i \in Due(as) THEN [as[i] EXCEPT !.state = "timeout"] ELSE as[i]
  BY DEF TimedOut
<1>4. d = [i \in DOMAIN as |-> d[i]]
  BY DEF TimedOut
<1> HIDE DEF d
<1>5. ASSUME NEW i \in DOMAIN as
      PROVE  /\ d[i] \in Action
             /\ d[i].id = as[i].id /\ d[i].due = as[i].due
             /\ d[i].type = as[i].type /\ d[i].resume = as[i].resume
             /\ \/ d[i].state = as[i].state
                \/ d[i].state = "timeout" /\ d[i].due <= now /\ as[i].state = "pending_approval"
  <2>1. as[i] \in Action
    BY <1>1
  <2>2. CASE i \in Due(as)
    <3>1. as[i].due <= now /\ as[i].state = "pending_approval"
      BY <2>2 DEF Due, Open
    <3>2. d[i] = [as[i] EXCEPT !.state = "timeout"]
      BY <1>3, <2>2
    <3> QED BY <2>1, <3>1, <3>2 DEF Action, State
  <2>3. CASE i \notin Due(as)
    BY <1>3, <2>1, <2>3
  <2> QED BY <2>2, <2>3
<1>6. d \in [1 .. Len(as) -> Action]
  BY <1>1, <1>4, <1>5
<1>7. d \in Seq(Action)
  BY <1>1, <1>6, SeqByElements
<1>8. \A x \in Elems(d) : \E i \in DOMAIN as : x = d[i] /\ as[i] \in Elems(as)
  BY <1>2 DEF Elems
<1>9. ASSUME NEW x \in Elems(d)
      PROVE  \E y \in Elems(as) :
               /\ x.id = y.id /\ x.due = y.due /\ x.type = y.type /\ x.resume = y.resume
               /\ \/ x.state = y.state
                  \/ x.state = "timeout" /\ x.due <= now /\ y.state = "pending_approval"
  <2>1. PICK i \in DOMAIN as : x = d[i] /\ as[i] \in Elems(as)
    BY <1>8
  <2> QED BY <1>5, <2>1
<1> QED BY <1>2, <1>7, <1>9 DEF d

\* The events of one call.
LEMMA OneEvent ==
  ASSUME NEW S, NEW e \in S
  PROVE  <<e>> \in Seq(S) /\ Elems(<<e>>) = {e} /\ <<e>> # <<>>
<1>1. Elems(<<e>>) = {e}
  BY DEF Elems
<1> QED BY <1>1

LEMMA TwoEvents ==
  ASSUME NEW S, NEW e \in S, NEW f \in S
  PROVE  <<e, f>> \in Seq(S) /\ Elems(<<e, f>>) = {e, f} /\ <<e, f>> # <<>>
<1>1. DOMAIN <<e, f>> = {1, 2}
  OBVIOUS
<1>2. Elems(<<e, f>>) = {e, f}
  BY <1>1 DEF Elems
<1> QED BY <1>2

\* The approval with a given id.
LEMMA AtList ==
  ASSUME NEW as \in Seq(Action), NEW a, Has(as, a)
  PROVE  At(as, a) \in Elems(as) /\ At(as, a) \in Action /\ At(as, a).id = a
<1> DEFINE i == CHOOSE k \in DOMAIN as : as[k].id = a
<1>1. i \in DOMAIN as /\ as[i].id = a
  BY DEF Has
<1>2. At(as, a) = as[i]
  BY DEF At
<1> HIDE DEF i
<1>3. as[i] \in Action /\ as[i] \in Elems(as)
  BY <1>1, SeqElements DEF Elems
<1> QED BY <1>1, <1>2, <1>3

\* The last of the approvals that time out.
LEMMA LatestList ==
  ASSUME NEW as \in Seq(Action), Due(as) # {}
  PROVE  /\ LatestDue(as) \in Elems(as) /\ LatestDue(as) \in Action
         /\ LatestDue(as).due <= now
         /\ \E i \in Due(as) : LatestDue(as) = as[i] /\ \A j \in Due(as) : j <= i
<1> DEFINE i == CHOOSE k \in Due(as) : \A j \in Due(as) : j <= k
<1>1. Due(as) \subseteq DOMAIN as
  BY DEF Due, Open
<1>2. DOMAIN as = 1 .. Len(as) /\ Len(as) \in Nat
  BY SeqElements
<1>3. i \in Due(as) /\ \A j \in Due(as) : j <= i
  BY <1>1, <1>2, Greatest
<1>4. LatestDue(as) = as[i]
  BY DEF LatestDue
<1> HIDE DEF i
<1>5. as[i].due <= now /\ i \in DOMAIN as
  BY <1>3 DEF Due, Open
<1>6. as[i] \in Action /\ as[i] \in Elems(as)
  BY <1>5, SeqElements DEF Elems
<1> QED BY <1>3, <1>4, <1>5, <1>6

\* The listing stays a list of tickets.
LEMMA HeadedList ==
  ASSUME recent \in Seq(Tickets), NEW t \in Tickets
  PROVE  Headed(t) \in Seq(Tickets)
<1> DEFINE place == CHOOSE i \in DOMAIN recent : recent[i] = t
           new(i) == CASE i = 1 -> t
                       [] i # 1 /\ i <= place -> recent[i - 1]
                       [] OTHER -> recent[i]
<1>1. Len(recent) \in Nat /\ DOMAIN recent = 1 .. Len(recent)
      /\ \A i \in DOMAIN recent : recent[i] \in Tickets
  BY SeqElements
<1>2. Headed(t) = [i \in 1 .. Len(recent) |-> new(i)]
  BY <1>1 DEF Headed
<1>3. ASSUME NEW i \in 1 .. Len(recent) PROVE new(i) \in Tickets
  <2> HIDE DEF place
  <2>1. i # 1 => i - 1 \in 1 .. Len(recent)
    BY <1>1
  <2> QED BY <1>1, <2>1
<1>4. [i \in 1 .. Len(recent) |-> new(i)] \in [1 .. Len(recent) -> Tickets]
  BY <1>3
<1> QED BY <1>1, <1>2, <1>4, SeqByElements

-----------------------------------------------------------------------------
(* What a step does to the approvals there are.                            *)

\* A copy after the step that comes from one before it.
Kin(x, y) == /\ x.id = y.id /\ x.due = y.due
             /\ x.state = y.state \/ Earned(x)'
HasKin(x) == \E y \in Circulating : Kin(x, y)

\* An approval just asked for.
Born(x) == x.id \in issued' \ issued /\ x.state = "pending_approval"

\* An event there may be after the step.
Warranted(e) == /\ e[1] \in issued'
                /\ e[2] \in {"approved", "resumed"} => e[1] \in executed'
                /\ e[2] = "timeout" => \E y \in Circulating : y.id = e[1] /\ y.due <= now'

\* The deadlines are numbers.
LEMMA OnTicketsTyped ==
  ASSUME NEW rows \in [Tickets -> Row]
  PROVE  \A x \in OnTickets(rows) : x \in Action
<1> SUFFICES ASSUME NEW t \in Tickets, NEW x \in Elems(rows[t].actions) PROVE x \in Action
  BY DEF OnTickets
<1>1. rows[t].actions \in Seq(Action)
  BY DEF Row
<1> QED BY <1>1, SeqElements

LEMMA AllDues ==
  ASSUME AInv, NEW x \in Circulating
  PROVE  x \in Action /\ x.due \in Nat
<1>1. ASSUME x \in OnTickets(row) PROVE x \in Action
  BY <1>1, OnTicketsTyped DEF AInv, TypeOK
<1>2. ASSUME NEW w \in Workers, x \in Carried(job[w]) PROVE x \in Action
  <2>1. WellFormed(job[w])
    BY DEF AInv, Shaped
  <2>2. CASE Walking(job[w]) /\ x \in OnTickets(job[w].view)
    BY <2>1, <2>2, OnTicketsTyped DEF WellFormed
  <2>3. CASE job[w].pc \in {"append", "execute", "mark", "complete"} /\ x \in Elems(job[w].found.actions)
    <3>1. job[w].found \in Row
      BY <2>1, <2>3 DEF WellFormed
    <3>2. job[w].found.actions \in Seq(Action)
      BY <3>1 DEF Row
    <3> QED BY <2>3, <3>2, SeqElements
  <2> QED BY <1>2, <2>2, <2>3 DEF Carried
<1>3. x \in Action
  BY <1>1, <1>2 DEF Circulating
<1> QED BY <1>3 DEF Action

LEMMA InitInv == Init => AInv
<1> SUFFICES ASSUME Init PROVE AInv
  OBVIOUS
<1>1. Idle \in Job
  <2>1. <<>> \in Seq(Tickets) /\ <<>> \in Seq(Approvals \X Kind)
    OBVIOUS
  <2> QED BY <2>1 DEF Idle, Job, Pc, Writing, Handoff
<1>2. <<>> \in Seq(Action)
  OBVIOUS
<1>3. recent \in Seq(Tickets)
  <2>1. Cardinality(Tickets) \in Nat
    BY TicketsAssumption, FS_CardinalityType
  <2> QED BY <2>1, SeqByElements DEF Init
<1>4. TypeOK
  BY <1>1, <1>2, <1>3, NatAssumption DEF Init, TypeOK, Row, Status, Handoff
<1>5. OnTickets(row) = {}
  BY DEF Init, OnTickets, Elems
<1>6. \A w \in Workers : job[w] = Idle
  BY DEF Init
<1>7. Carried(Idle) = {} /\ Elems(Idle.events) = {} /\ WellFormed(Idle)
  BY DEF Carried, Walking, Idle, Elems, WellFormed
<1>8. Circulating = {} /\ Events = {}
  BY <1>5, <1>6, <1>7 DEF Circulating, Events, Init
<1>9. Idle.result = None /\ Idle.id = None
  BY DEF Idle
<1> QED BY <1>4, <1>6, <1>7, <1>8, <1>9
        DEF Init, AInv, Shaped, Genuine, OneDue, Announced, ExecutedFirst, IdsIssued

\* Every step of a worker keeps the invariant if what it leaves in the rows
\* and in its copies comes from what there was, or was just asked for.
LEMMA StepKeeps ==
  ASSUME AInv, TypeOK', NEW w \in Workers, NEW j, Go(w, j), WellFormed(j),
         now <= now', issued \subseteq issued', executed \subseteq executed', executed' \subseteq issued',
         NEW New, \A x \in New : Born(x), \A x, y \in New : x = y,
         \A x \in OnTickets(row') \cup Carried(j) : HasKin(x) \/ x \in New,
         \A e \in timeline' \cup Elems(j.events) : e \in Events \/ Warranted(e),
         j.result # None => j.id \in executed', j.id # None => j.id \in issued'
  PROVE  AInv'
<1>1. \A v \in Workers : job'[v] = IF v = w THEN j ELSE job[v]
  BY DEF Go, AInv, TypeOK
<1>2. \A x \in Circulating : HasKin(x)
  BY DEF HasKin, Kin
<1>3. \A v \in Workers : Carried(job[v]) \subseteq Circulating /\ Elems(job[v].events) \subseteq Events
  BY DEF Circulating, Events
<1>4. Circulating' = OnTickets(row') \cup UNION {Carried(job'[v]) : v \in Workers}
  BY DEF Circulating
<1>5. Events' = timeline' \cup UNION {Elems(job'[v].events) : v \in Workers}
  BY DEF Events
<1>6. ASSUME NEW x \in Circulating' PROVE HasKin(x) \/ x \in New
  <2>1. CASE x \in OnTickets(row')
    BY <2>1
  <2>2. CASE \E v \in Workers : x \in Carried(job'[v])
    <3>1. PICK v \in Workers : x \in Carried(job'[v])
      BY <2>2
    <3>2. CASE v = w
      BY <1>1, <3>1, <3>2
    <3>3. CASE v # w
      BY <1>1, <1>2, <1>3, <3>1, <3>3
    <3> QED BY <3>2, <3>3
  <2> QED BY <1>4, <2>1, <2>2
<1>7. ASSUME NEW e \in Events' PROVE e \in Events \/ Warranted(e)
  <2>1. CASE e \in timeline'
    BY <2>1
  <2>2. CASE \E v \in Workers : e \in Elems(job'[v].events)
    <3>1. PICK v \in Workers : e \in Elems(job'[v].events)
      BY <2>2
    <3>2. CASE v = w
      BY <1>1, <3>1, <3>2
    <3>3. CASE v # w
      BY <1>1, <1>3, <3>1, <3>3
    <3> QED BY <3>2, <3>3
  <2> QED BY <1>5, <2>1, <2>2
<1>8. now \in Nat /\ now' \in Nat
  BY NatAssumption DEF AInv, TypeOK
<1>9. \A x \in Circulating : x.id \in issued /\ Earned(x) /\ \A y \in Circulating : x.id = y.id => x.due = y.due
  BY DEF AInv, Genuine, OneDue
<1> HIDE DEF Circulating
<1>10. ASSUME NEW x \in Circulating' PROVE x.id \in issued' /\ Earned(x)'
  <2>1. CASE x \in New
    BY <2>1 DEF Born, Earned
  <2>2. CASE HasKin(x)
    <3>1. PICK y \in Circulating : Kin(x, y)
      BY <2>2 DEF HasKin
    <3>2. x.id \in issued'
      BY <1>9, <3>1 DEF Kin
    <3>3. CASE Earned(x)'
      BY <3>2, <3>3
    <3>4. CASE x.state = y.state
      <4>1. x.state = "approved" => x.id \in executed'
        BY <1>9, <3>1, <3>4 DEF Kin, Earned
      <4>2. x.state = "timeout" => x.due <= now'
        <5>1. SUFFICES ASSUME x.state = "timeout" PROVE x.due <= now'
          OBVIOUS
        <5>2. x.due = y.due /\ y.due <= now
          BY <1>9, <3>1, <3>4, <5>1 DEF Kin, Earned
        <5>3. y.due \in Nat
          BY AllDues
        <5> QED BY <1>8, <5>2, <5>3
      <4> QED BY <3>2, <4>1, <4>2 DEF Earned
    <3> QED BY <3>1, <3>3, <3>4 DEF Kin
  <2> QED BY <1>6, <2>1, <2>2
<1>11. Genuine'
  BY <1>10 DEF Genuine
<1>12. OneDue'
  <2> SUFFICES ASSUME NEW x \in Circulating', NEW y \in Circulating', x.id = y.id
               PROVE  x.due = y.due
    BY DEF OneDue
  <2>1. CASE x \in New /\ y \in New
    BY <2>1
  <2>2. CASE HasKin(x) /\ HasKin(y)
    BY <1>9, <2>2 DEF HasKin, Kin
  <2>3. \A a \in New : \A b : HasKin(b) => a.id # b.id
    BY <1>9 DEF Born, HasKin, Kin
  <2> QED BY <1>6, <2>1, <2>2, <2>3
<1>13. Announced'
  <2> SUFFICES ASSUME NEW e \in Events'
               PROVE  /\ e[1] \in issued'
                      /\ e[2] \in {"approved", "resumed"} => e[1] \in executed'
                      /\ e[2] = "timeout" => \A x \in Circulating' : x.id = e[1] => x.due <= now'
    BY DEF Announced
  <2>1. e \in Events => /\ e[1] \in issued
                        /\ e[2] \in {"approved", "resumed"} => e[1] \in executed
                        /\ e[2] = "timeout" => \A x \in Circulating : x.id = e[1] => x.due <= now
    BY DEF AInv, Announced
  <2>2. e[1] \in issued' /\ (e[2] \in {"approved", "resumed"} => e[1] \in executed')
    BY <1>7, <2>1 DEF Warranted
  <2>3. ASSUME e[2] = "timeout", NEW x \in Circulating', x.id = e[1] PROVE x.due <= now'
    <3>1. e[1] \in issued
      BY <1>7, <1>9, <2>1, <2>3 DEF Warranted
    <3>2. HasKin(x)
      BY <1>6, <2>3, <3>1 DEF Born
    <3>3. PICK y \in Circulating : Kin(x, y)
      BY <3>2 DEF HasKin
    <3>4. x.due = y.due /\ y.id = e[1] /\ y.due \in Nat
      BY <2>3, <3>3, AllDues DEF Kin
    <3>5. CASE e \in Events
      <4>1. y.due <= now
        BY <2>1, <2>3, <3>4, <3>5
      <4> QED BY <1>8, <3>4, <4>1
    <3>6. CASE Warranted(e)
      BY <1>9, <2>3, <3>4, <3>6 DEF Warranted
    <3> QED BY <1>7, <3>5, <3>6
  <2> QED BY <2>2, <2>3
<1>14. Shaped' /\ ExecutedFirst' /\ IdsIssued'
  BY <1>1 DEF AInv, Shaped, ExecutedFirst, IdsIssued
<1> QED BY <1>11, <1>12, <1>13, <1>14 DEF AInv

-----------------------------------------------------------------------------
(* One step at a time: each lemma says that the step keeps the types and   *)
(* where what it writes and what it reads come from.                       *)

\* What the invariant says of the row of a ticket and of a request.
LEMMA Facts ==
  ASSUME AInv, NEW w \in Workers
  PROVE  /\ job[w] \in Job /\ WellFormed(job[w])
         /\ job[w].result # None => job[w].id \in executed
         /\ job[w].id # None => job[w].id \in issued
         /\ Carried(job[w]) \subseteq Circulating
         /\ Elems(job[w].events) \subseteq Events
         /\ timeline \subseteq Events
         /\ OnTickets(row) \subseteq Circulating
         /\ \A t \in Tickets : row[t] \in Row /\ Elems(row[t].actions) \subseteq Circulating
         /\ issued \subseteq issued /\ executed \subseteq issued /\ now <= now
         /\ \A x \in Circulating : HasKin(x)
<1>1. now \in Nat
  BY NatAssumption DEF AInv, TypeOK
<1>2. \A x \in Circulating : HasKin(x)
  BY DEF HasKin, Kin
<1>3. \A t \in Tickets : Elems(row[t].actions) \subseteq OnTickets(row)
  BY DEF OnTickets
<1>4. OnTickets(row) \subseteq Circulating /\ Carried(job[w]) \subseteq Circulating
  BY DEF Circulating
<1>5. Elems(job[w].events) \subseteq Events /\ timeline \subseteq Events
  BY DEF Events
<1>6. job[w] \in Job /\ \A t \in Tickets : row[t] \in Row
  BY DEF AInv, TypeOK
<1> QED BY <1>1, <1>2, <1>3, <1>4, <1>5, <1>6 DEF AInv, Shaped, ExecutedFirst, IdsIssued

\* A step that writes no row and gives out no id: a request goes on with what
\* it had, or with what it read in the rows.
LEMMA Reading ==
  ASSUME AInv, NEW w \in Workers, NEW j \in Job, Go(w, j), WellFormed(j),
         UNCHANGED <<row, recent, now, issued, executed, stacked, raced>>,
         timeline' \subseteq Events, cut' \subseteq Approvals, started' \in 0 .. MaxRequests,
         Carried(j) \subseteq Circulating, Elems(j.events) \subseteq Events,
         j.result # None => j.id \in executed, j.id # None => j.id \in issued
  PROVE  AInv'
<1>1. Events \subseteq Approvals \X Kind
  <2>1. \A v \in Workers : job[v].events \in Seq(Approvals \X Kind)
    BY DEF AInv, TypeOK, Job
  <2>2. \A v \in Workers : Elems(job[v].events) \subseteq Approvals \X Kind
    BY <2>1, SeqElements
  <2> QED BY <2>2 DEF AInv, TypeOK, Events
<1>2. TypeOK'
  BY <1>1 DEF AInv, TypeOK, Go
<1> DEFINE New == {}
<1>3. \A x \in OnTickets(row') \cup Carried(j) : HasKin(x) \/ x \in New
  BY Facts
<1>4. \A e \in timeline' \cup Elems(j.events) : e \in Events \/ Warranted(e)
  OBVIOUS
<1>5. now <= now' /\ issued \subseteq issued' /\ executed \subseteq executed' /\ executed' \subseteq issued'
  BY Facts
<1>6. (j.result # None => j.id \in executed') /\ (j.id # None => j.id \in issued')
  OBVIOUS
<1>7. (\A x \in New : Born(x)) /\ \A x, y \in New : x = y
  OBVIOUS
<1> HIDE DEF New
<1> QED BY <1>2, <1>3, <1>4, <1>5, <1>6, <1>7, StepKeeps

\* A request that ends.
LEMMA Ending ==
  ASSUME AInv, NEW w \in Workers, Finish(w),
         UNCHANGED <<row, recent, now, issued, executed, stacked, raced, started>>,
         timeline' \subseteq Events, cut' \subseteq Approvals
  PROVE  AInv'
<1>1. Idle \in Job /\ WellFormed(Idle) /\ Carried(Idle) = {} /\ Elems(Idle.events) = {}
      /\ Idle.result = None /\ Idle.id = None
  <2>1. <<>> \in Seq(Tickets) /\ <<>> \in Seq(Approvals \X Kind)
    OBVIOUS
  <2>2. Idle \in Job
    BY <2>1 DEF Idle, Job, Pc, Writing, Handoff
  <2> QED BY <2>2 DEF Idle, WellFormed, Carried, Walking, Elems
<1>2. started' \in 0 .. MaxRequests
  BY DEF AInv, TypeOK
<1> QED BY <1>1, <1>2, Reading DEF Finish

\* A write from an outdated copy is put down.
LEMMA RacesAdds ==
  ASSUME AInv, NEW t \in Tickets, NEW outdated, Races(t, outdated)
  PROVE  raced \subseteq raced' /\ raced' \subseteq Tickets /\ (outdated => t \in raced')
BY DEF AInv, TypeOK, Races

\* A write of one row, from lists whose approvals have kin.
LEMMA Writes ==
  ASSUME AInv, NEW w \in Workers, NEW j \in Job, Go(w, j), WellFormed(j),
         NEW t \in Tickets, NEW r \in Row, Update(t, r),
         now' = now, started' = started, cut' = cut, timeline' = timeline,
         stacked' \subseteq Tickets, raced' \subseteq Tickets, issued' \subseteq Approvals,
         issued \subseteq issued', executed \subseteq executed', executed' \subseteq issued',
         NEW New, \A x \in New : Born(x), \A x, y \in New : x = y,
         \A x \in Elems(r.actions) \cup Carried(j) : HasKin(x) \/ x \in New,
         \A e \in Elems(j.events) : e \in Events \/ Warranted(e),
         j.result # None => j.id \in executed', j.id # None => j.id \in issued'
  PROVE  AInv'
<1>1. Headed(t) \in Seq(Tickets)
  BY HeadedList DEF AInv, TypeOK
<1>2. TypeOK'
  BY <1>1 DEF AInv, TypeOK, Go, Update
<1>3. \A s \in Tickets : row'[s] = IF s = t THEN r ELSE row[s]
  BY DEF Update, AInv, TypeOK
<1>4. ASSUME NEW x \in OnTickets(row') PROVE x \in Elems(r.actions) \/ x \in OnTickets(row)
  BY <1>3 DEF OnTickets
<1>5. \A x \in OnTickets(row') \cup Carried(j) : HasKin(x) \/ x \in New
  BY <1>4, Facts
<1>6. \A e \in timeline' \cup Elems(j.events) : e \in Events \/ Warranted(e)
  BY Facts
<1>7. now <= now'
  BY Facts
<1> HIDE DEF WellFormed, Go, Update
<1> QED BY <1>2, <1>5, <1>6, <1>7, StepKeeps

LEMMA TickKeeps ==
  ASSUME AInv, Tick PROVE AInv'
<1>1. TypeOK' /\ now <= now' /\ now \in Nat
  BY NatAssumption DEF AInv, TypeOK, Tick
<1>2. Circulating' = Circulating /\ Events' = Events
  BY DEF Tick, Circulating, Events
<1>3. \A x \in Circulating : x.due \in Nat
  BY AllDues
<1>4. Genuine'
  BY <1>1, <1>2, <1>3 DEF AInv, Genuine, Earned, Tick
<1>5. Announced'
  BY <1>1, <1>2, <1>3 DEF AInv, Announced, Tick
<1> QED BY <1>1, <1>2, <1>4, <1>5
        DEF AInv, Shaped, OneDue, ExecutedFirst, IdsIssued, Tick

LEMMA StartKeeps ==
  ASSUME AInv, NEW w \in Workers, Start(w) PROVE AInv'
<1>1. ASSUME NEW j \in Job, Go(w, j), WellFormed(j), Carried(j) = {}, j.events = <<>>,
             j.result = None, j.id # None => j.id \in issued
      PROVE  AInv'
  <2>1. Elems(j.events) = {}
    BY <1>1 DEF Elems
  <2>2. started' \in 0 .. MaxRequests
    <3>1. started \in 0 .. MaxRequests /\ started < MaxRequests /\ started' = started + 1
      BY DEF Start, AInv, TypeOK
    <3> QED BY <3>1, NatAssumption
  <2>3. cut' \subseteq Approvals
    BY DEF Start, AInv, TypeOK
  <2>4. UNCHANGED <<row, recent, now, issued, executed, stacked, raced>> /\ timeline' \subseteq Events
    BY DEF Start, Events
  <2> QED BY <1>1, <2>1, <2>2, <2>3, <2>4, Reading
<1>2. PICK c \in Commands :
        IF c \in {"approve", "reject"}
        THEN \E a \in issued : Go(w, [Idle EXCEPT !.pc = FirstStep(c), !.cmd = c, !.id = a])
        ELSE IF c = "ask"
        THEN \E t \in Tickets, ty \in Types, d \in Ttls :
               Go(w, [Idle EXCEPT !.pc = FirstStep(c), !.cmd = c, !.on = t, !.type = ty, !.due = d])
        ELSE \E t \in IF c = "list" THEN {None} ELSE Tickets :
               Go(w, [Idle EXCEPT !.pc = FirstStep(c), !.cmd = c, !.on = t])
  BY DEF Start
<1>3. c \in AllCommands /\ FirstStep(c) \in {"context", "scan", "trail", "show", "assign", "state",
                                             "resolve", "close"}
      /\ (FirstStep(c) = "context" <=> c = "ask")
      /\ (c = "list" => FirstStep(c) = "scan")
      /\ (c \in {"approve", "reject"} => FirstStep(c) = "scan")
  BY CommandsAssumption DEF FirstStep, AllCommands
<1>4. <<>> \in Seq(Tickets) /\ <<>> \in Seq(Approvals \X Kind)
  OBVIOUS
<1>5. issued \subseteq Approvals
  BY DEF AInv, TypeOK
<1>6. CASE c \in {"approve", "reject"}
  <2>1. PICK a \in issued : Go(w, [Idle EXCEPT !.pc = FirstStep(c), !.cmd = c, !.id = a])
    BY <1>2, <1>6
  <2> DEFINE j == [Idle EXCEPT !.pc = FirstStep(c), !.cmd = c, !.id = a]
  <2>2. FirstStep(c) = "scan"
    BY <1>3, <1>6
  <2>3. j \in Job
    BY <1>3, <1>4, <1>5, <2>2 DEF Idle, Job, Pc, Writing, Handoff
  <2>4. j.pc = "scan" /\ j.after = "idle" /\ j.id = a /\ j.events = <<>> /\ j.result = None
    BY <2>2 DEF Idle
  <2>5. Go(w, j)
    BY <2>1
  <2> HIDE DEF j
  <2>6. WellFormed(j) /\ Carried(j) = {}
    BY <2>4 DEF WellFormed, Carried, Walking
  <2> QED BY <1>1, <2>3, <2>4, <2>5, <2>6
<1>7. CASE c = "ask"
  <2>1. PICK t \in Tickets, ty \in Types, d \in Ttls :
          Go(w, [Idle EXCEPT !.pc = FirstStep(c), !.cmd = c, !.on = t, !.type = ty, !.due = d])
    BY <1>2, <1>7
  <2> DEFINE j == [Idle EXCEPT !.pc = FirstStep(c), !.cmd = c, !.on = t, !.type = ty, !.due = d]
  <2>2. FirstStep(c) = "context" /\ ty \in ActionTypes /\ d \in Nat
    BY <1>3, <1>7, TypesAssumption, NatAssumption
  <2>3. j \in Job
    BY <1>3, <1>4, <2>2 DEF Idle, Job, Pc, Writing, Handoff
  <2>4. j.pc = "context" /\ j.after = "idle" /\ j.id = None /\ j.events = <<>> /\ j.result = None
        /\ j.on \in Tickets /\ j.type \in ActionTypes
    BY <2>2 DEF Idle
  <2>5. Go(w, j)
    BY <2>1
  <2> HIDE DEF j
  <2>6. WellFormed(j) /\ Carried(j) = {}
    BY <2>4 DEF WellFormed, Carried, Walking
  <2> QED BY <1>1, <2>3, <2>4, <2>5, <2>6
<1>8. CASE c \notin {"approve", "reject", "ask"}
  <2>1. PICK t \in IF c = "list" THEN {None} ELSE Tickets :
          Go(w, [Idle EXCEPT !.pc = FirstStep(c), !.cmd = c, !.on = t])
    BY <1>2, <1>8
  <2> DEFINE j == [Idle EXCEPT !.pc = FirstStep(c), !.cmd = c, !.on = t]
  <2>2. FirstStep(c) # "context" /\ t \in Tickets \cup {None}
    BY <1>3, <1>8
  <2>3. j \in Job
    BY <1>3, <1>4, <2>2 DEF Idle, Job, Pc, Writing, Handoff
  <2>4. j.pc = FirstStep(c) /\ j.after = "idle" /\ j.on = t /\ j.id = None /\ j.events = <<>> /\ j.result = None
    BY DEF Idle
  <2>5. Go(w, j)
    BY <2>1
  <2> HIDE DEF j
  <2>6. WellFormed(j) /\ Carried(j) = {}
    BY <1>3, <2>2, <2>4 DEF WellFormed, Carried, Walking
  <2> QED BY <1>1, <2>3, <2>4, <2>5, <2>6
<1> QED BY <1>6, <1>7, <1>8

\* A request that goes on with the row it has just read.
LEMMA RequestHolds ==
  ASSUME NEW j \in Job, NEW p \in Pc, NEW r \in Row, NEW d \in Nat, NEW h \in Handoff
  PROVE  /\ [j EXCEPT !.pc = p, !.resume = h] \in Job
         /\ [j EXCEPT !.pc = p, !.found = r] \in Job
         /\ [j EXCEPT !.pc = p, !.found = r, !.due = d] \in Job
<1>1. [j EXCEPT !.pc = p, !.resume = h] \in Job
  BY DEF Job
<1>2. [j EXCEPT !.pc = p, !.found = r] \in Job
  BY DEF Job
<1>3. [j EXCEPT !.pc = p, !.found = r, !.due = d] \in Job
  BY DEF Job
<1> QED BY <1>1, <1>2, <1>3

LEMMA AskContextKeeps ==
  ASSUME AInv, NEW w \in Workers, AskContext(w) PROVE AInv'
<1> DEFINE j == [job[w] EXCEPT !.pc = "build", !.resume = row[job[w].on].handoff]
<1>1. job[w].pc = "context" /\ Go(w, j)
      /\ UNCHANGED <<row, recent, timeline, now, issued, executed, stacked, raced, cut, started>>
  BY DEF AskContext, history
<1>2. job[w].on \in Tickets /\ job[w].type \in ActionTypes
      /\ job[w].result = None /\ job[w].after = "idle"
  BY <1>1, Facts DEF WellFormed
<1>3. j \in Job
  <2>1. row[job[w].on] \in Row /\ job[w] \in Job
    BY <1>2, Facts
  <2>2. row[job[w].on].handoff \in Handoff
    BY <2>1 DEF Row
  <2>3. "build" \in Pc /\ 0 \in Nat
    BY DEF Pc
  <2> QED BY <2>1, <2>2, <2>3, RequestHolds
<1>4. j.pc = "build" /\ j.on = job[w].on /\ j.type = job[w].type /\ j.id = job[w].id
      /\ j.result = job[w].result /\ j.events = job[w].events /\ j.after = job[w].after
  BY Facts DEF Job
<1> HIDE DEF j
<1>5. WellFormed(j) /\ Carried(j) = {}
  BY <1>2, <1>4 DEF WellFormed, Carried, Walking
<1> QED BY <1>1, <1>3, <1>4, <1>5, Facts, Reading DEF AInv, TypeOK

LEMMA AskReadKeeps ==
  ASSUME AInv, NEW w \in Workers, AskRead(w) PROVE AInv'
<1> DEFINE j == [job[w] EXCEPT !.pc = "append", !.found = row[job[w].on], !.due = now + @]
<1>1. job[w].pc = "build" /\ Go(w, j)
      /\ UNCHANGED <<row, recent, timeline, now, issued, executed, stacked, raced, cut, started>>
  BY DEF AskRead, history
<1>2. job[w].on \in Tickets /\ job[w].type \in ActionTypes
      /\ job[w].result = None /\ job[w].after = "idle"
  BY <1>1, Facts DEF WellFormed
<1>3. j \in Job
  <2>1. row[job[w].on] \in Row /\ job[w] \in Job /\ now \in Nat
    BY <1>2, Facts, NatAssumption DEF AInv, TypeOK
  <2>2. now + job[w].due \in Nat
    BY <2>1 DEF Job
  <2>3. ASSUME NEW d \in Nat
        PROVE  [job[w] EXCEPT !.pc = "append", !.found = row[job[w].on], !.due = d] \in Job
    <3>1. "append" \in Pc /\ "none" \in Handoff
      BY DEF Pc, Writing, Handoff
    <3> QED BY <2>1, <3>1, RequestHolds
  <2>4. j = [job[w] EXCEPT !.pc = "append", !.found = row[job[w].on], !.due = now + job[w].due]
    BY <2>1 DEF Job
  <2> HIDE DEF j
  <2> QED BY <2>2, <2>3, <2>4
<1>4. j.pc = "append" /\ j.on = job[w].on /\ j.type = job[w].type /\ j.id = job[w].id
      /\ j.result = job[w].result /\ j.events = job[w].events /\ j.after = job[w].after
      /\ j.found = row[job[w].on]
  BY Facts DEF Job
<1> HIDE DEF j
<1>5. WellFormed(j) /\ Carried(j) \subseteq Circulating
  BY <1>2, <1>4, Facts DEF WellFormed, Carried, Walking
<1> QED BY <1>1, <1>3, <1>4, <1>5, Facts, Reading DEF AInv, TypeOK

LEMMA AskWriteKeeps ==
  ASSUME AInv, NEW w \in Workers, AskWrite(w) PROVE AInv'
<1>1. job[w].pc = "append" /\ now' = now /\ started' = started /\ cut' = cut
      /\ timeline' = timeline /\ executed' = executed
  BY DEF AskWrite
<1>2. job[w] \in Job /\ WellFormed(job[w])
  BY Facts
<1>3. job[w].on \in Tickets /\ job[w].type \in ActionTypes /\ job[w].found \in Row
      /\ job[w].due \in Nat /\ job[w].resume \in Handoff
  BY <1>1, <1>2 DEF WellFormed, Job
<1>4. PICK a \in Approvals \ issued :
        LET new == [id |-> a, type |-> job[w].type, state |-> "pending_approval",
                    resume |-> job[w].resume, due |-> job[w].due]
        IN /\ issued' = issued \cup {a}
           /\ Update(job[w].on, [row[job[w].on] EXCEPT !.handoff = "pending_approval",
                                   !.actions = Append(job[w].found.actions, new)])
           /\ Go(w, [job[w] EXCEPT !.pc = "note", !.id = a, !.events = <<<<a, "requested">>>>])
  BY DEF AskWrite
<1> DEFINE new == [id |-> a, type |-> job[w].type, state |-> "pending_approval",
                   resume |-> job[w].resume, due |-> job[w].due]
           as == Append(job[w].found.actions, new)
           r == [row[job[w].on] EXCEPT !.handoff = "pending_approval", !.actions = as]
           j == [job[w] EXCEPT !.pc = "note", !.id = a, !.events = <<<<a, "requested">>>>]
<1>5. new \in Action /\ new.id = a /\ new.state = "pending_approval"
  BY <1>3 DEF Action, State
<1>6. issued' = issued \cup {a} /\ Update(job[w].on, r) /\ Go(w, j)
  BY <1>4
<1> HIDE DEF new
<1>7. as \in Seq(Action) /\ Elems(as) \subseteq Elems(job[w].found.actions) \cup {new}
  <2>1. job[w].found.actions \in Seq(Action)
    BY <1>3 DEF Row
  <2> QED BY <1>5, <2>1, AppendProperties DEF Elems
<1> HIDE DEF as
<1>8. r \in Row /\ r.actions = as
  <2>1. row[job[w].on] \in Row
    BY <1>3, Facts
  <2> QED BY <1>7, <2>1 DEF Row, Handoff
<1> HIDE DEF r
<1>9. <<<<a, "requested">>>> \in Seq(Approvals \X Kind)
  BY DEF Kind
<1>10. j \in Job
  <2>1. "note" \in Pc /\ a \in Approvals \cup {None}
    BY DEF Pc
  <2>2. ASSUME NEW e \in Seq(Approvals \X Kind)
        PROVE  [job[w] EXCEPT !.pc = "note", !.id = a, !.events = e] \in Job
    BY <1>2, <2>1 DEF Job
  <2> QED BY <1>9, <2>2
<1>11. j.pc = "note" /\ j.id = a /\ j.result = job[w].result /\ j.after = job[w].after
       /\ j.events = <<<<a, "requested">>>> /\ j.view = job[w].view /\ j.todo = job[w].todo
  BY <1>2 DEF Job
<1> HIDE DEF j
<1>12. Elems(job[w].found.actions) \subseteq Circulating
  BY <1>1, Facts DEF Carried
<1> DEFINE New == {new}
<1>13. (\A x \in New : Born(x)) /\ \A x, y \in New : x = y
  BY <1>5, <1>6 DEF Born
<1>14. job[w].after = "idle"
  BY <1>1, <1>2 DEF WellFormed
<1>15. WellFormed(j) /\ Carried(j) = {}
  BY <1>11, <1>14 DEF WellFormed, Carried, Walking
<1>16. \A x \in Elems(r.actions) \cup Carried(j) : HasKin(x) \/ x \in New
  BY <1>7, <1>8, <1>12, <1>15, Facts
<1>17. \A e \in Elems(j.events) : e \in Events \/ Warranted(e)
  BY <1>6, <1>11 DEF Elems, Warranted
<1>18. stacked' \subseteq Tickets
  BY <1>3 DEF AskWrite, AInv, TypeOK
<1>19. /\ issued' \subseteq Approvals /\ issued \subseteq issued'
       /\ executed \subseteq executed' /\ executed' \subseteq issued'
  BY <1>1, <1>6, Facts DEF AInv, TypeOK
<1>20. (j.result # None => j.id \in executed') /\ (j.id # None => j.id \in issued')
  <2>1. j.result = None
    BY <1>1, <1>2, <1>11 DEF WellFormed
  <2> QED BY <1>6, <1>11, <2>1
<1> HIDE DEF New
<1>21. job[w].on \in Tickets /\ r \in Row
  BY <1>3, <1>8
<1>22. raced' \subseteq Tickets
  BY <1>21, RacesAdds DEF AskWrite
<1> QED BY <1>1, <1>6, <1>10, <1>13, <1>15, <1>16, <1>17, <1>18, <1>19, <1>20, <1>21, <1>22,
       SMTT(60), Writes

\* A write of one row by a request that asks for nothing new.
LEMMA Rewrites ==
  ASSUME AInv, NEW w \in Workers, NEW j \in Job, Go(w, j), WellFormed(j),
         NEW t \in Tickets, NEW r \in Row, Update(t, r),
         UNCHANGED <<timeline, now, issued, stacked, cut, started>>, raced' \subseteq Tickets,
         executed \subseteq executed', executed' \subseteq issued,
         \A x \in Elems(r.actions) \cup Carried(j) : HasKin(x),
         \A e \in Elems(j.events) : e \in Events \/ Warranted(e),
         j.result # None => j.id \in executed', j.id # None => j.id \in issued
  PROVE  AInv'
<1> DEFINE New == {}
<1>1. (\A x \in New : Born(x)) /\ \A x, y \in New : x = y
  OBVIOUS
<1>2. \A x \in Elems(r.actions) \cup Carried(j) : HasKin(x) \/ x \in New
  OBVIOUS
<1>3. stacked' \subseteq Tickets /\ issued' \subseteq Approvals
  BY DEF AInv, TypeOK
<1>4. issued \subseteq issued' /\ executed' \subseteq issued' /\ (j.id # None => j.id \in issued')
      /\ now' = now /\ started' = started /\ cut' = cut /\ timeline' = timeline
  OBVIOUS
<1> HIDE DEF New
<1> QED BY <1>1, <1>2, <1>3, <1>4, SMTT(60), Writes

\* The status a call asks for is one there is.
LEMMA GoalStatus ==
  ASSUME NEW j, NEW s \in Status PROVE Goal(j, s) \in Status
BY DEF Goal, Status

LEMMA ScanKeeps ==
  ASSUME AInv, NEW w \in Workers, Scan(w) PROVE AInv'
<1> DEFINE todo == IF job[w].pc = "show" THEN <<job[w].on>> ELSE recent
           j == [job[w] EXCEPT !.pc = "sweep", !.view = row, !.todo = todo]
<1>1. job[w].pc \in {"scan", "show"} /\ Go(w, j)
      /\ UNCHANGED <<row, recent, timeline, now, issued, executed, stacked, raced, cut, started>>
  BY DEF Scan, history
<1>2. job[w] \in Job /\ WellFormed(job[w])
  BY Facts
<1>3. todo \in Seq(Tickets)
  BY <1>1, <1>2 DEF WellFormed, AInv, TypeOK
<1>4. row \in [Tickets -> Row]
  BY DEF AInv, TypeOK
<1> HIDE DEF todo
<1>5. j \in Job
  BY <1>2, <1>3, <1>4 DEF Job, Pc
<1>6. j.pc = "sweep" /\ j.view = row /\ j.id = job[w].id /\ j.result = job[w].result
      /\ j.events = job[w].events /\ j.after = job[w].after
  BY <1>2 DEF Job
<1>7. job[w].after = "idle"
  BY <1>1, <1>2 DEF WellFormed
<1> HIDE DEF j
<1>8. WellFormed(j) /\ Carried(j) = OnTickets(row)
  BY <1>4, <1>6, <1>7 DEF WellFormed, Carried, Walking
<1> QED BY <1>1, <1>5, <1>6, <1>8, Facts, Reading DEF AInv, TypeOK

LEMMA SweepKeeps ==
  ASSUME AInv, NEW w \in Workers, Sweep(w) PROVE AInv'
<1> DEFINE t == Head(job[w].todo)
           as == job[w].view[t].actions
           next == TimedOut(as)
           handoff == IF Open(next) = {} THEN LatestDue(as).resume ELSE job[w].view[t].handoff
           r == [row[t] EXCEPT !.handoff = handoff, !.actions = next]
           events == <<<<LatestDue(as).id, "timeout">>>>
           j == [job[w] EXCEPT !.pc = "note", !.after = "look", !.events = events]
<1>1. /\ job[w].pc = "sweep" /\ job[w].todo # <<>> /\ Due(as) # {}
      /\ Update(t, r) /\ Go(w, j)
      /\ UNCHANGED <<timeline, now, issued, executed, stacked, cut, started>>
  BY DEF Sweep, Sweeping, Swept, history
<1>2. job[w] \in Job /\ WellFormed(job[w])
  BY Facts
<1>3. t \in Tickets
  BY <1>1, <1>2, HeadTailProperties DEF Job
<1>4. job[w].view \in [Tickets -> Row]
  BY <1>1, <1>2 DEF WellFormed, Walking
<1>5. job[w].view[t] \in Row /\ as \in Seq(Action) /\ row[t] \in Row
  <2>1. job[w].view[t] \in Row /\ row[t] \in Row
    BY <1>3, <1>4, Facts
  <2> QED BY <2>1 DEF Row
<1>6. Elems(as) \subseteq Carried(job[w]) /\ Carried(job[w]) = OnTickets(job[w].view)
  BY <1>1, <1>3 DEF Carried, Walking, OnTickets
<1>7. LatestDue(as) \in Action /\ LatestDue(as) \in Circulating /\ LatestDue(as).due <= now
  BY <1>1, <1>5, <1>6, Facts, LatestList
<1>8. /\ handoff \in Handoff
      /\ events \in Seq(Approvals \X Kind) /\ events # <<>>
      /\ \A e \in Elems(events) : e[1] = LatestDue(as).id /\ e[2] = "timeout"
  <2>1. handoff \in Handoff
    BY <1>5, <1>7 DEF Action, Row
  <2>2. <<LatestDue(as).id, "timeout">> \in Approvals \X Kind
    BY <1>7 DEF Action, Kind
  <2>3. events \in Seq(Approvals \X Kind) /\ events # <<>>
        /\ Elems(events) = {<<LatestDue(as).id, "timeout">>}
    BY <2>2, OneEvent
  <2> HIDE DEF events, handoff
  <2> QED BY <2>1, <2>3
<1>9. next \in Seq(Action)
  BY <1>5, TimedOutList
<1>10. \A x \in Elems(next) : \E y \in Elems(as) :
         x.id = y.id /\ x.due = y.due /\ (x.state = y.state \/ (x.state = "timeout" /\ x.due <= now))
  <2> HIDE DEF as
  <2> QED BY <1>5, TimedOutList
<1>11. raced' \subseteq Tickets
  BY <1>3, RacesAdds DEF Sweep
<1> HIDE DEF next, handoff, events, as
<1>13. r \in Row /\ r.actions = next
  BY <1>5, <1>8, <1>9 DEF Row
<1>14. j \in Job
  <2>1. "note" \in Pc
    BY DEF Pc
  <2> QED BY <1>2, <1>8, <2>1 DEF Job
<1>15. /\ j.pc = "note" /\ j.after = "look" /\ j.view = job[w].view /\ j.todo = job[w].todo
       /\ j.id = job[w].id /\ j.result = job[w].result /\ j.events = events
  BY <1>2 DEF Job
<1> HIDE DEF j, r, t
<1>16. WellFormed(j) /\ Carried(j) = Carried(job[w])
  BY <1>1, <1>4, <1>6, <1>8, <1>15 DEF WellFormed, Carried, Walking
<1>17. \A x \in Elems(r.actions) \cup Carried(j) : HasKin(x)
  <2>1. ASSUME NEW x \in Elems(next) PROVE HasKin(x)
    <3>1. PICK y \in Elems(as) : x.id = y.id /\ x.due = y.due
                                 /\ (x.state = y.state \/ (x.state = "timeout" /\ x.due <= now))
      BY <1>10
    <3>2. y \in Circulating
      BY <1>6, Facts
    <3> QED BY <1>1, <3>1, <3>2 DEF HasKin, Kin, Earned
  <2> QED BY <1>13, <1>16, <2>1, Facts
<1>18. \A e \in Elems(j.events) : e \in Events \/ Warranted(e)
  <2>1. LatestDue(as).id \in issued
    BY <1>7 DEF AInv, Genuine
  <2> QED BY <1>1, <1>7, <1>8, <1>15, <2>1 DEF Warranted
<1>19. /\ j.result # None => j.id \in executed'
       /\ j.id # None => j.id \in issued
       /\ executed \subseteq executed' /\ executed' \subseteq issued
  BY <1>1, <1>15, Facts
<1>20. UNCHANGED <<timeline, now, issued, stacked, cut, started>>
  BY <1>1
<1>21. Update(t, r) /\ Go(w, j)
  BY <1>1
<1> QED BY <1>3, <1>11, <1>13, <1>14, <1>16, <1>17, <1>18, <1>19, <1>20, <1>21, Rewrites

LEMMA LookKeeps ==
  ASSUME AInv, NEW w \in Workers, Look(w) PROVE AInv'
<1> DEFINE t == Head(job[w].todo)
           after == AfterFound(job[w], At(row[t].actions, job[w].id))
<1>1. job[w] \in Job /\ WellFormed(job[w])
  BY Facts
<1>2. /\ job[w].pc \in {"look", "sweep"} /\ job[w].todo # <<>>
      /\ UNCHANGED <<row, recent, timeline, now, issued, executed, stacked, raced, cut, started>>
  BY <1>1 DEF Look, history, WellFormed, Walking
<1>3. t \in Tickets
  BY <1>1, <1>2, HeadTailProperties DEF Job
<1>4. row[t] \in Row /\ Elems(row[t].actions) \subseteq Circulating
  BY <1>3, Facts
<1>5. job[w].after = "idle"
  BY <1>1, <1>2 DEF WellFormed
<1>6. timeline' \subseteq Events /\ cut' \subseteq Approvals /\ started' \in 0 .. MaxRequests
  BY <1>2, Facts DEF AInv, TypeOK
<1>7. CASE Finish(w)
  BY <1>2, <1>6, <1>7, Ending
<1>8. CASE /\ job[w].id # None /\ Has(row[t].actions, job[w].id) /\ after # "idle"
           /\ Go(w, [job[w] EXCEPT !.pc = after, !.on = t, !.found = row[t], !.view = None, !.todo = <<>>])
  <2> DEFINE j == [job[w] EXCEPT !.pc = after, !.on = t, !.found = row[t], !.view = None, !.todo = <<>>]
  <2>1. /\ after \in {"execute", "mark"}
        /\ after = "mark" /\ job[w].cmd = "approve" => job[w].result # None
    BY <1>8 DEF AfterFound
  <2> HIDE DEF after, t
  <2>2. <<>> \in Seq(Tickets)
    OBVIOUS
  <2>3. j \in Job
    <3>1. after \in Pc
      BY <2>1 DEF Pc, Writing
    <3> QED BY <1>1, <1>3, <1>4, <2>2, <3>1 DEF Job
  <2>4. /\ j.pc = after /\ j.on = t /\ j.found = row[t] /\ j.id = job[w].id /\ j.cmd = job[w].cmd
        /\ j.result = job[w].result /\ j.events = job[w].events /\ j.after = "idle"
    BY <1>1, <1>5 DEF Job
  <2>5. job[w].id \in Approvals /\ job[w].result \in Row \cup {None}
    BY <1>1, <1>8 DEF Job
  <2>6. Go(w, j)
    BY <1>8
  <2> HIDE DEF j
  <2>7. WellFormed(j) /\ Carried(j) = Elems(row[t].actions)
    BY <1>3, <1>4, <1>8, <2>1, <2>4, <2>5 DEF WellFormed, Carried, Walking
  <2> QED BY <1>2, <1>4, <1>6, <2>3, <2>4, <2>6, <2>7, Facts, Reading
<1>9. CASE Go(w, [job[w] EXCEPT !.pc = "sweep", !.todo = Tail(@)])
  <2> DEFINE j == [job[w] EXCEPT !.pc = "sweep", !.todo = Tail(@)]
  <2>1. Tail(job[w].todo) \in Seq(Tickets)
    BY <1>1, <1>2, HeadTailProperties DEF Job
  <2>2. j \in Job
    BY <1>1, <2>1 DEF Job, Pc
  <2>3. /\ j.pc = "sweep" /\ j.view = job[w].view /\ j.id = job[w].id /\ j.after = "idle"
        /\ j.result = job[w].result /\ j.events = job[w].events
    BY <1>1, <1>5 DEF Job
  <2>4. Go(w, j)
    BY <1>9
  <2> HIDE DEF j
  <2>5. Walking(job[w]) /\ job[w].view \in [Tickets -> Row]
    BY <1>1, <1>2 DEF WellFormed, Walking
  <2>6. WellFormed(j) /\ Carried(j) = Carried(job[w])
    BY <1>2, <2>3, <2>5 DEF WellFormed, Carried, Walking
  <2> QED BY <1>2, <1>6, <2>2, <2>3, <2>4, <2>6, Facts, Reading
<1> QED BY <1>7, <1>8, <1>9 DEF Look

LEMMA ExhaustedKeeps ==
  ASSUME AInv, NEW w \in Workers, Exhausted(w) PROVE AInv'
BY Facts, Ending DEF Exhausted, history, AInv, TypeOK

LEMMA RefuseKeeps ==
  ASSUME AInv, NEW w \in Workers, Refuse(w) PROVE AInv'
BY Facts, Ending DEF Refuse, history, AInv, TypeOK

LEMMA CrashKeeps ==
  ASSUME AInv, NEW w \in Workers, Crash(w) PROVE AInv'
<1>1. job[w].events \in Seq(Approvals \X Kind)
  BY Facts DEF Job
<1>2. \A i \in DOMAIN job[w].events : job[w].events[i] \in Approvals \X Kind
  BY <1>1, SeqElements
<1>3. cut' \subseteq Approvals
  BY <1>2 DEF Crash, AInv, TypeOK
<1> QED BY <1>3, Facts, Ending DEF Crash

LEMMA ExecuteKeeps ==
  ASSUME AInv, NEW w \in Workers, Execute(w) PROVE AInv'
<1> DEFINE t == job[w].on
           r == [row[t] EXCEPT !.status = Goal(job[w], @),
                               !.handoff = IF Goal(job[w], "open") = "escalated"
                                           THEN "requested" ELSE @]
           j == [job[w] EXCEPT !.pc = "scan", !.result = r, !.found = None]
<1>1. /\ job[w].pc = "execute" /\ Update(t, r) /\ Go(w, j)
      /\ UNCHANGED <<timeline, now, issued, stacked, cut, started>>
      /\ executed' = executed \cup {job[w].id}
  BY DEF Execute
<1>2. job[w] \in Job /\ WellFormed(job[w])
  BY Facts
<1>3. t \in Tickets /\ job[w].id \in Approvals /\ job[w].after = "idle"
      /\ job[w].found \in Row /\ Has(job[w].found.actions, job[w].id)
  BY <1>1, <1>2 DEF WellFormed
<1>4. row[t] \in Row /\ Elems(row[t].actions) \subseteq Circulating
  BY <1>3, Facts
<1>5. Goal(job[w], row[t].status) \in Status
  BY <1>4, GoalStatus DEF Row
<1>6. r \in Row /\ r.actions = row[t].actions
  BY <1>4, <1>5 DEF Row, Handoff
<1> HIDE DEF r
<1>7. j \in Job
  BY <1>2, <1>6 DEF Job, Pc
<1>8. j.pc = "scan" /\ j.result = r /\ j.id = job[w].id /\ j.after = "idle" /\ j.events = job[w].events
  BY <1>2, <1>3 DEF Job
<1>9. Update(t, r) /\ Go(w, j)
  BY <1>1
<1> HIDE DEF j
<1>10. WellFormed(j) /\ Carried(j) = {}
  BY <1>8 DEF WellFormed, Carried, Walking
<1>11. job[w].id \in issued
  <2>1. job[w].found.actions \in Seq(Action)
    BY <1>3 DEF Row
  <2>2. PICK i \in DOMAIN job[w].found.actions : job[w].found.actions[i].id = job[w].id
    BY <1>3 DEF Has
  <2>3. job[w].found.actions[i] \in Circulating
    BY <1>1, Facts DEF Carried, Elems
  <2> QED BY <2>2, <2>3 DEF AInv, Genuine
<1>12. \A x \in Elems(r.actions) \cup Carried(j) : HasKin(x)
  BY <1>4, <1>6, <1>10, Facts
<1>13. executed \subseteq executed' /\ executed' \subseteq issued
  BY <1>1, <1>11, Facts
<1>14. (j.result # None => j.id \in executed') /\ (j.id # None => j.id \in issued)
  BY <1>1, <1>8, <1>11
<1>15. \A e \in Elems(j.events) : e \in Events \/ Warranted(e)
  BY <1>8, Facts
<1>16. raced' \subseteq Tickets
  BY DEF Execute, AInv, TypeOK
<1> QED BY <1>1, <1>3, <1>6, <1>7, <1>9, <1>10, <1>12, <1>13, <1>14, <1>15, <1>16, Rewrites

LEMMA MarkKeeps ==
  ASSUME AInv, NEW w \in Workers, Mark(w) PROVE AInv'
<1> DEFINE t == job[w].on
           as == job[w].found.actions
           verdict == IF job[w].cmd = "approve" THEN "approved" ELSE "rejected"
           next == Decided(as, job[w].id, verdict)
           base == IF job[w].cmd = "approve" THEN job[w].result ELSE job[w].found
           handoff == IF Open(next) = {} THEN At(next, job[w].id).resume ELSE base.handoff
           r == [row[t] EXCEPT !.handoff = handoff, !.actions = next]
           events == IF job[w].cmd = "approve"
                     THEN <<<<job[w].id, "approved">>, <<job[w].id, "resumed">>>>
                     ELSE <<<<job[w].id, "rejected">>>>
           j == [job[w] EXCEPT !.pc = "note", !.found = None, !.result = None, !.events = events]
<1>1. /\ job[w].pc = "mark" /\ Update(t, r) /\ Go(w, j)
      /\ UNCHANGED <<timeline, now, issued, executed, stacked, cut, started>>
  BY DEF Mark, history
<1>2. job[w] \in Job /\ WellFormed(job[w])
  BY Facts
<1>3. t \in Tickets /\ job[w].id \in Approvals /\ job[w].after = "idle"
      /\ job[w].found \in Row /\ Has(as, job[w].id)
      /\ (job[w].cmd = "approve" => job[w].result \in Row \ {None})
  BY <1>1, <1>2 DEF WellFormed
<1>4. row[t] \in Row /\ as \in Seq(Action) /\ base.handoff \in Handoff
  BY <1>3, Facts DEF Row
<1>5. Elems(as) \subseteq Circulating
  BY <1>1, Facts DEF Carried
<1>6. job[w].id \in issued /\ (job[w].cmd = "approve" => job[w].id \in executed)
  <2>1. PICK i \in DOMAIN as : as[i].id = job[w].id
    BY <1>3 DEF Has
  <2>2. as[i] \in Circulating
    BY <1>5 DEF Elems
  <2> QED BY <1>3, <2>1, <2>2, Facts DEF AInv, Genuine
<1>7. verdict \in State
  BY DEF State
<1>8. /\ next \in Seq(Action)
      /\ DOMAIN next = DOMAIN as
      /\ \A x \in Elems(next) : \E y \in Elems(as) :
           /\ x.id = y.id /\ x.due = y.due /\ x.type = y.type /\ x.resume = y.resume
           /\ (x.id = job[w].id => x.state = verdict) /\ (x.id # job[w].id => x.state = y.state)
  <2>1. next = Decided(as, job[w].id, verdict)
    OBVIOUS
  <2>2. as \in Seq(Action)
    BY <1>4
  <2> HIDE DEF as, verdict, next, t, base, handoff, r, events, j
  <2>3. ASSUME NEW l \in Seq(Action), NEW a, NEW v \in State, l = as, a = job[w].id, v = verdict
        PROVE  <1>8!:
    <3>1. next = Decided(l, a, v) /\ as = l /\ job[w].id = a /\ verdict = v
      BY <2>1, <2>3
    <3>2. /\ Decided(l, a, v) \in Seq(Action) /\ DOMAIN Decided(l, a, v) = DOMAIN l
          /\ \A x \in Elems(Decided(l, a, v)) : \E y \in Elems(l) :
               /\ x.id = y.id /\ x.due = y.due /\ x.type = y.type /\ x.resume = y.resume
               /\ (x.id = a => x.state = v) /\ (x.id # a => x.state = y.state)
      BY DecidedList
    <3> HIDE DEF Elems, Decided
    <3> QED BY <3>1, <3>2
  <2> QED BY <1>7, <2>2, <2>3
<1>9. Has(next, job[w].id)
  <2>1. PICK i \in DOMAIN as : as[i].id = job[w].id
    BY <1>3 DEF Has
  <2>2. next[i].id = as[i].id
    <3>1. as[i] \in Action
      BY <1>4, <2>1, SeqElements
    <3> QED BY <2>1, <3>1 DEF Decided, Action
  <2> QED BY <1>8, <2>1, <2>2 DEF Has
<1>10. handoff \in Handoff
  <2>1. At(next, job[w].id) \in Action
    BY <1>8, <1>9, AtList
  <2> QED BY <1>4, <2>1 DEF Action
<1>11. /\ events \in Seq(Approvals \X Kind) /\ events # <<>>
       /\ \A e \in Elems(events) : e[1] = job[w].id /\ e[2] # "timeout"
                                   /\ (e[2] \in {"approved", "resumed"} => job[w].cmd = "approve")
  <2>1. \A k \in {"approved", "resumed", "rejected"} : <<job[w].id, k>> \in Approvals \X Kind
    BY <1>3 DEF Kind
  <2>2. CASE job[w].cmd = "approve"
    <3>1. events = <<<<job[w].id, "approved">>, <<job[w].id, "resumed">>>>
      BY <2>2
    <3> HIDE DEF events
    <3>2. /\ events \in Seq(Approvals \X Kind) /\ events # <<>>
          /\ Elems(events) = {<<job[w].id, "approved">>, <<job[w].id, "resumed">>}
      BY <2>1, <3>1, TwoEvents
    <3> QED BY <2>2, <3>2
  <2>3. CASE job[w].cmd # "approve"
    <3>1. events = <<<<job[w].id, "rejected">>>>
      BY <2>3
    <3> HIDE DEF events
    <3>2. /\ events \in Seq(Approvals \X Kind) /\ events # <<>>
          /\ Elems(events) = {<<job[w].id, "rejected">>}
      BY <2>1, <3>1, OneEvent
    <3> QED BY <2>3, <3>2
  <2> QED BY <2>2, <2>3
<1>13. verdict # "timeout" /\ (verdict = "approved" => job[w].cmd = "approve")
  OBVIOUS
<1>14. Update(t, r) /\ Go(w, j)
  BY <1>1
<1> HIDE DEF next, handoff, events, as, base, verdict
<1>15. r \in Row /\ r.actions = next
  BY <1>4, <1>8, <1>10 DEF Row
<1>16. j \in Job
  <2>1. "note" \in Pc
    BY DEF Pc
  <2> QED BY <1>2, <1>11, <2>1 DEF Job
<1>17. j.pc = "note" /\ j.after = "idle" /\ j.id = job[w].id /\ j.result = None /\ j.events = events
  BY <1>2, <1>3 DEF Job
<1> HIDE DEF j, r, t
<1>18. WellFormed(j) /\ Carried(j) = {}
  BY <1>11, <1>17 DEF WellFormed, Carried, Walking
<1>19. \A x \in Elems(r.actions) \cup Carried(j) : HasKin(x)
  <2>1. ASSUME NEW x \in Elems(next) PROVE HasKin(x)
    <3>1. PICK y \in Elems(as) :
            /\ x.id = y.id /\ x.due = y.due /\ x.type = y.type /\ x.resume = y.resume
            /\ (x.id = job[w].id => x.state = verdict) /\ (x.id # job[w].id => x.state = y.state)
      BY <1>8
    <3>2. y \in Circulating
      BY <1>5
    <3> QED BY <1>1, <1>6, <1>13, <3>1, <3>2 DEF HasKin, Kin, Earned
  <2> QED BY <1>15, <1>18, <2>1
<1>20. \A e \in Elems(j.events) : e \in Events \/ Warranted(e)
  BY <1>1, <1>6, <1>11, <1>17 DEF Warranted
<1>21. /\ j.result # None => j.id \in executed'
       /\ j.id # None => j.id \in issued
       /\ executed \subseteq executed' /\ executed' \subseteq issued
  BY <1>1, <1>6, <1>17, Facts
<1>22. raced' \subseteq Tickets
  BY <1>3, RacesAdds DEF Mark, t
<1> QED BY <1>1, <1>3, <1>14, <1>15, <1>16, <1>18, <1>19, <1>20, <1>21, <1>22, Rewrites

LEMMA NoteKeeps ==
  ASSUME AInv, NEW w \in Workers, Note(w) PROVE AInv'
<1>1. job[w] \in Job /\ WellFormed(job[w])
  BY Facts
<1>2. /\ job[w].pc = "note" /\ job[w].events # <<>> /\ job[w].events \in Seq(Approvals \X Kind)
      /\ timeline' = timeline \cup {Head(job[w].events)}
      /\ UNCHANGED <<row, recent, now, issued, executed, stacked, raced, cut, started>>
  BY <1>1 DEF Note, history, WellFormed, Job
<1>3. Head(job[w].events) \in Elems(job[w].events)
  BY <1>2, SeqElements DEF Elems
<1>4. timeline' \subseteq Events /\ cut' \subseteq Approvals /\ started' \in 0 .. MaxRequests
  BY <1>2, <1>3, Facts DEF AInv, TypeOK
<1>5. CASE Len(job[w].events) > 1 /\ Go(w, [job[w] EXCEPT !.events = Tail(@)])
  <2> DEFINE j == [job[w] EXCEPT !.events = Tail(@)]
  <2>1. /\ Tail(job[w].events) \in Seq(Approvals \X Kind)
        /\ Tail(job[w].events) # <<>>
        /\ Elems(Tail(job[w].events)) \subseteq Elems(job[w].events)
    <3>1. Len(Tail(job[w].events)) = Len(job[w].events) - 1
      BY <1>2, HeadTailProperties
    <3>2. Tail(job[w].events) # <<>>
      <4>1. Len(job[w].events) \in Nat /\ Len(job[w].events) > 1
        BY <1>2, <1>5, SeqElements
      <4>2. ASSUME NEW s, Len(s) = Len(job[w].events) - 1 PROVE s # <<>>
        BY <4>1, <4>2
      <4> QED BY <3>1, <4>2, Zenon
    <3>3. Elems(Tail(job[w].events)) \subseteq Elems(job[w].events)
      BY <1>2, HeadTailProperties DEF Elems
    <3> QED BY <1>2, <3>2, <3>3, HeadTailProperties
  <2>2. j \in Job
    BY <1>1, <2>1 DEF Job
  <2>3. /\ j.pc = "note" /\ j.after = job[w].after /\ j.events = Tail(job[w].events)
        /\ j.view = job[w].view /\ j.todo = job[w].todo
        /\ j.id = job[w].id /\ j.result = job[w].result
    BY <1>1, <1>2 DEF Job
  <2>4. Go(w, j)
    BY <1>5
  <2> HIDE DEF j
  <2>5. WellFormed(j) /\ Carried(j) = Carried(job[w])
    BY <1>1, <1>2, <2>1, <2>3 DEF WellFormed, Carried, Walking
  <2> QED BY <1>2, <1>4, <2>1, <2>2, <2>3, <2>4, <2>5, Facts, Reading
<1>6. CASE Finish(w)
  BY <1>2, <1>4, <1>6, Ending
<1>7. CASE job[w].after # "idle"
           /\ Go(w, [job[w] EXCEPT !.pc = job[w].after, !.events = <<>>, !.after = "idle"])
  <2> DEFINE j == [job[w] EXCEPT !.pc = job[w].after, !.events = <<>>, !.after = "idle"]
  <2>1. job[w].after = "look"
    BY <1>1, <1>7 DEF Job
  <2>2. <<>> \in Seq(Approvals \X Kind)
    OBVIOUS
  <2>3. j \in Job
    <3>1. job[w].after \in Pc /\ "idle" \in {"idle", "look"}
      BY <2>1 DEF Pc
    <3> QED BY <1>1, <2>2, <3>1 DEF Job
  <2>4. /\ j.pc = "look" /\ j.after = "idle" /\ j.events = <<>>
        /\ j.view = job[w].view /\ j.todo = job[w].todo
        /\ j.id = job[w].id /\ j.result = job[w].result
    BY <1>1, <2>1 DEF Job
  <2>5. Go(w, j)
    BY <1>7
  <2> HIDE DEF j
  <2>6. WellFormed(j) /\ Carried(j) = Carried(job[w]) /\ Elems(j.events) = {}
    BY <1>1, <1>2, <2>1, <2>4 DEF WellFormed, Carried, Walking, Elems
  <2> QED BY <1>2, <1>4, <2>3, <2>4, <2>5, <2>6, Facts, Reading
<1> QED BY <1>5, <1>6, <1>7 DEF Note

\* The write of a row by the last call of a request.
LEMMA LastWrite ==
  ASSUME AInv, NEW w \in Workers, Finish(w), NEW t \in Tickets, NEW r \in Row, Update(t, r),
         UNCHANGED <<timeline, now, issued, executed, stacked, cut, started>>,
         raced' \subseteq Tickets, Elems(r.actions) \subseteq Circulating
  PROVE  AInv'
<1>1. Idle \in Job /\ WellFormed(Idle) /\ Carried(Idle) = {} /\ Elems(Idle.events) = {}
      /\ Idle.result = None /\ Idle.id = None
  <2>1. <<>> \in Seq(Tickets) /\ <<>> \in Seq(Approvals \X Kind)
    OBVIOUS
  <2>2. Idle \in Job
    BY <2>1 DEF Idle, Job, Pc, Writing, Handoff
  <2> QED BY <2>2 DEF Idle, WellFormed, Carried, Walking, Elems
<1>2. \A x \in Elems(r.actions) \cup Carried(Idle) : HasKin(x)
  BY <1>1, Facts
<1>3. executed \subseteq executed' /\ executed' \subseteq issued
  BY Facts
<1>4. Go(w, Idle)
  BY DEF Finish
<1> QED BY <1>1, <1>2, <1>3, <1>4, Rewrites

LEMMA SimpleKeeps ==
  ASSUME AInv, NEW w \in Workers, Simple(w) PROVE AInv'
<1> DEFINE t == job[w].on
           r == [row[t] EXCEPT !.status = Goal(job[w], @),
                               !.handoff = IF job[w].pc = "state" THEN "claimed" ELSE @]
<1>1. /\ job[w].pc \in {"assign", "state", "resolve", "close"} /\ Update(t, r) /\ Finish(w)
      /\ UNCHANGED <<timeline, now, issued, executed, stacked, raced, cut, started>>
  BY DEF Simple, history
<1>2. t \in Tickets
  BY <1>1, Facts DEF WellFormed
<1>3. row[t] \in Row /\ Elems(row[t].actions) \subseteq Circulating
  BY <1>2, Facts
<1>4. Goal(job[w], row[t].status) \in Status
  BY <1>3, GoalStatus DEF Row
<1>5. r \in Row /\ r.actions = row[t].actions
  BY <1>3, <1>4 DEF Row, Handoff
<1> HIDE DEF r
<1>6. raced' \subseteq Tickets
  BY <1>1 DEF AInv, TypeOK
<1> QED BY <1>1, <1>2, <1>3, <1>5, <1>6, LastWrite

LEMMA CollabCloseReadKeeps ==
  ASSUME AInv, NEW w \in Workers, CollabCloseRead(w) PROVE AInv'
<1> DEFINE j == [job[w] EXCEPT !.pc = "complete", !.found = row[job[w].on]]
<1>1. job[w].pc = "trail" /\ Go(w, j)
      /\ UNCHANGED <<row, recent, timeline, now, issued, executed, stacked, raced, cut, started>>
  BY DEF CollabCloseRead, history
<1>2. job[w] \in Job /\ job[w].on \in Tickets /\ job[w].after = "idle"
  BY <1>1, Facts DEF WellFormed
<1>3. row[job[w].on] \in Row /\ Elems(row[job[w].on].actions) \subseteq Circulating
  BY <1>2, Facts
<1>4. j \in Job
  <2>1. "complete" \in Pc /\ "none" \in Handoff /\ 0 \in Nat
    BY DEF Pc, Writing, Handoff
  <2> QED BY <1>2, <1>3, <2>1, RequestHolds
<1>5. /\ j.pc = "complete" /\ j.on = job[w].on /\ j.found = row[job[w].on] /\ j.id = job[w].id
      /\ j.result = job[w].result /\ j.events = job[w].events /\ j.after = "idle"
  BY <1>2 DEF Job
<1> HIDE DEF j
<1>6. WellFormed(j) /\ Carried(j) \subseteq Circulating
  BY <1>2, <1>3, <1>5 DEF WellFormed, Carried, Walking
<1> QED BY <1>1, <1>4, <1>5, <1>6, Facts, Reading DEF AInv, TypeOK

LEMMA CollabCloseKeeps ==
  ASSUME AInv, NEW w \in Workers, CollabClose(w) PROVE AInv'
<1> DEFINE t == job[w].on
           r == [status |-> "closed", handoff |-> "completed", actions |-> job[w].found.actions]
<1>1. /\ job[w].pc = "complete" /\ Update(t, r) /\ Finish(w)
      /\ UNCHANGED <<timeline, now, issued, executed, stacked, cut, started>>
  BY DEF CollabClose, history
<1>2. t \in Tickets /\ job[w].found \in Row
  BY <1>1, Facts DEF WellFormed
<1>3. Elems(job[w].found.actions) \subseteq Circulating
  BY <1>1, Facts DEF Carried
<1>4. r \in Row /\ r.actions = job[w].found.actions
  BY <1>2 DEF Row, Status, Handoff
<1> HIDE DEF r
<1>5. raced' \subseteq Tickets
  BY <1>2, RacesAdds DEF CollabClose
<1> QED BY <1>1, <1>2, <1>3, <1>4, <1>5, LastWrite

-----------------------------------------------------------------------------
(* The theorems.                                                           *)

LEMMA NextKeeps ==
  ASSUME AInv, [Next]_vars PROVE AInv'
<1>1. CASE Tick
  BY <1>1, TickKeeps
<1>2. ASSUME NEW w \in Workers, Start(w) PROVE AInv'
  BY <1>2, StartKeeps
<1>3. ASSUME NEW w \in Workers, Step(w) PROVE AInv'
  <2> USE <1>3
  <2>1. CASE AskContext(w) \/ AskRead(w) \/ AskWrite(w)
    BY <2>1, AskContextKeeps, AskReadKeeps, AskWriteKeeps
  <2>2. CASE Scan(w) \/ Sweep(w) \/ Look(w) \/ Exhausted(w)
    BY <2>2, ScanKeeps, SweepKeeps, LookKeeps, ExhaustedKeeps
  <2>3. CASE Execute(w) \/ Mark(w) \/ Note(w)
    BY <2>3, ExecuteKeeps, MarkKeeps, NoteKeeps
  <2>4. CASE Simple(w) \/ CollabCloseRead(w) \/ CollabClose(w) \/ Refuse(w)
    BY <2>4, SimpleKeeps, CollabCloseReadKeeps, CollabCloseKeeps, RefuseKeeps
  <2> QED BY <1>3, <2>1, <2>2, <2>3, <2>4 DEF Step
<1>4. ASSUME NEW w \in Workers, Crash(w) PROVE AInv'
  BY <1>4, CrashKeeps
<1>5. CASE UNCHANGED vars
  <2>1. Circulating' = Circulating /\ Events' = Events
    BY <1>5 DEF Circulating, Events, vars
  <2> QED BY <1>5, <2>1
          DEF AInv, vars, TypeOK, Shaped, Genuine, Earned, OneDue, Announced, ExecutedFirst, IdsIssued
<1> QED BY <1>1, <1>2, <1>3, <1>4, <1>5 DEF Next

\* Whatever requests race, time out or are cut off, every copy of an approval
\* has an id that was handed out, the one deadline and no verdict that was not
\* earned (AInv).
THEOREM Invariance == Spec => []AInv
<1>1. AInv /\ [Next]_vars => AInv'
  BY NextKeeps
<1> QED BY InitInv, <1>1, PTL DEF Spec

\* The rows, the copies and the events have their types (approval_runtime.py,
\* ticket_repository.py).
THEOREM TypeCorrect == Spec => []TypeOK
<1>1. AInv => TypeOK
  BY DEF AInv
<1> QED BY Invariance, <1>1, PTL

\* approve_action carries the action out before anything says that it is
\* approved, whatever other requests write the list meanwhile.
THEOREM ApprovalsAreExecuted == Spec => []ApprovedWasExecuted
<1>1. ASSUME AInv PROVE ApprovedWasExecuted
  <2> SUFFICES ASSUME NEW a \in Approvals,
                      Verdict(a) = "approved" \/ <<a, "approved">> \in timeline
                        \/ <<a, "resumed">> \in timeline
               PROVE  a \in executed
    BY DEF ApprovedWasExecuted
  <2>1. CASE <<a, "approved">> \in timeline \/ <<a, "resumed">> \in timeline
    BY <1>1, <2>1 DEF AInv, Announced, Events
  <2>2. CASE Verdict(a) = "approved"
    <3> DEFINE t == CHOOSE t \in Tickets : Has(row[t].actions, a)
    <3>1. t \in Tickets /\ Has(row[t].actions, a) /\ At(row[t].actions, a).state = "approved"
      BY <2>2 DEF Verdict
    <3> HIDE DEF t
    <3>2. row[t].actions \in Seq(Action)
      BY <1>1, <3>1 DEF AInv, TypeOK, Row
    <3>3. At(row[t].actions, a) \in Elems(row[t].actions) /\ At(row[t].actions, a).id = a
      BY <3>1, <3>2, AtList
    <3>4. At(row[t].actions, a) \in Circulating
      BY <3>1, <3>3 DEF Circulating, OnTickets
    <3> QED BY <1>1, <3>1, <3>3, <3>4 DEF AInv, Genuine, Earned
  <2> QED BY <2>1, <2>2
<1> QED BY Invariance, <1>1, PTL

\* _apply_timeouts never times an approval out before its deadline, nor does a
\* timeout event name one whose deadline is to come.
THEOREM TimeoutsAreDue == Spec => []TimeoutWasDue
<1>1. ASSUME AInv PROVE TimeoutWasDue
  <2> SUFFICES ASSUME NEW t \in Tickets, NEW i \in DOMAIN row[t].actions,
                      row[t].actions[i].state = "timeout"
                        \/ <<row[t].actions[i].id, "timeout">> \in timeline
               PROVE  row[t].actions[i].due <= now
    BY DEF TimeoutWasDue
  <2>1. row[t].actions[i] \in Circulating
    BY DEF Circulating, OnTickets, Elems
  <2>2. CASE row[t].actions[i].state = "timeout"
    BY <1>1, <2>1, <2>2 DEF AInv, Genuine, Earned
  <2>3. CASE <<row[t].actions[i].id, "timeout">> \in timeline
    BY <1>1, <2>1, <2>3 DEF AInv, Announced, Events
  <2> QED BY <2>2, <2>3
<1> QED BY Invariance, <1>1, PTL

-----------------------------------------------------------------------------
(* The lists.  A request writes a list back as it was when it copied it,   *)
(* with approvals decided, timed out or added: what is true of the row and *)
(* of every copy there is stays true of what any request may write.        *)

\* The lists of the approvals of a ticket that a request has, and all there are.
Held(j, t) ==
  (IF Walking(j) THEN {j.view[t].actions} ELSE {})
    \cup IF j.pc \in {"append", "execute", "mark", "complete"} /\ j.on = t
         THEN {j.found.actions} ELSE {}
Copies(t) == {row[t].actions} \cup UNION {Held(job[w], t) : w \in Workers}

\* An approval belongs to one ticket and has one place in a list.
OneHome ==
  \A s, t \in Tickets : \A l \in Copies(s), m \in Copies(t) : \A i \in DOMAIN l, k \in DOMAIN m :
    l[i].id = m[k].id => s = t /\ (l = m => i = k)

\* A decision is in the timeline or on its way to it, in whatever copy it is.
ToldBy(x, lost, appended, jobs) ==
  x.state \in {"approved", "rejected"} /\ x.id \notin lost =>
    \/ <<x.id, x.state>> \in appended
    \/ \E w \in Workers : jobs[w].id = x.id /\ <<x.id, x.state>> \in Elems(jobs[w].events)
Told(x) == ToldBy(x, cut, timeline, job)
Audited == \A t \in Tickets : \A l \in Copies(t) : \A i \in DOMAIN l : Told(l[i])

\* On a ticket never written from an outdated copy is every approval that a
\* request has a copy of.
NoneMissing ==
  \A t \in Tickets \ raced : \A l \in Copies(t) : \A i \in DOMAIN l : Has(row[t].actions, l[i].id)

\* A request tells only of what it has written, and decides what it saw open.
Steady(j) == /\ j.pc # "note" => j.events = <<>>
             /\ j.pc = "mark" => At(j.found.actions, j.id).state = "pending_approval"

\* An open approval returns its ticket to another state than suspension,
\* unless it was asked for while the ticket was suspended.
ResumesElsewhere ==
  \A t \in Tickets \ (stacked \cup raced) : \A i \in Open(row[t].actions) :
    row[t].actions[i].resume # "pending_approval"

MInv == /\ AInv /\ OneHome /\ Audited /\ NoneMissing
        /\ \A w \in Workers : Steady(job[w])
        /\ ResumesElsewhere /\ SuspendedWhileOpen

(* With one request at a time, the copies are what is stored, apart from   *)
(* the row that the request has itself just written.                       *)

Alone == \A v, w \in Workers : v = w

\* No ticket has been written from an outdated copy: neither by overlapping
\* requests, nor by one that its own earlier steps, the timeouts it applied or the
\* action it executed, have made old.
NeverRaced == raced = {}

\* Every ticket is in the list once.
Listing(s) == \A t \in Tickets : \E i \in DOMAIN s : \A k \in DOMAIN s : s[k] = t <=> k = i
NoRepeat(s) == \A i, k \in DOMAIN s : s[i] = s[k] => i = k

\* What a request has in hand is what the rows hold.
Current(j, rows) ==
  /\ j.pc \in {"append", "mark", "complete"} => j.found.actions = rows[j.on].actions
  /\ j.pc \in {"build", "append"} => j.resume = rows[j.on].handoff
  /\ Walking(j) => /\ NoRepeat(j.todo)
                   /\ \A i \in DOMAIN j.todo : i # 1 \/ j.pc = "sweep" =>
                        j.view[j.todo[i]].actions = rows[j.todo[i]].actions

CInv == AInv /\ Listing(recent) /\ NeverRaced /\ \A w \in Workers : Current(job[w], row)

-----------------------------------------------------------------------------
(* The verdicts by the rows.                                               *)

\* No approval is stored in two places.
Unambiguous(rows) ==
  \A s, t \in Tickets : \A i \in DOMAIN rows[s].actions, k \in DOMAIN rows[t].actions :
    rows[s].actions[i].id = rows[t].actions[k].id => s = t /\ i = k

\* The verdict of an approval by the rows.
VerdictIn(rows, a) ==
  IF \E t \in Tickets : Has(rows[t].actions, a)
  THEN At(rows[CHOOSE t \in Tickets : Has(rows[t].actions, a)].actions, a).state
  ELSE "none"

LEMMA VerdictByRows ==
  ASSUME NEW a PROVE Verdict(a) = VerdictIn(row, a) /\ Verdict(a)' = VerdictIn(row', a)
BY DEF Verdict, VerdictIn

LEMMA Stored ==
  ASSUME NEW rows, Unambiguous(rows), NEW t \in Tickets, NEW i \in DOMAIN rows[t].actions
  PROVE  VerdictIn(rows, rows[t].actions[i].id) = rows[t].actions[i].state
<1> DEFINE a == rows[t].actions[i].id
           u == CHOOSE u \in Tickets : Has(rows[u].actions, a)
           k == CHOOSE k \in DOMAIN rows[u].actions : rows[u].actions[k].id = a
<1>1. Has(rows[t].actions, a)
  BY DEF Has
<1>2. u \in Tickets /\ Has(rows[u].actions, a)
  BY <1>1
<1>3. VerdictIn(rows, a) = At(rows[u].actions, a).state
  BY <1>1 DEF VerdictIn
<1> HIDE DEF u
<1>4. k \in DOMAIN rows[u].actions /\ rows[u].actions[k].id = a
  BY <1>2 DEF Has
<1>5. At(rows[u].actions, a) = rows[u].actions[k]
  BY DEF At
<1> HIDE DEF k
<1>6. u = t /\ k = i
  BY <1>2, <1>4 DEF Unambiguous
<1> QED BY <1>3, <1>5, <1>6

LEMMA NotStored ==
  ASSUME NEW rows, NEW a,
         \A t \in Tickets : \A i \in DOMAIN rows[t].actions : rows[t].actions[i].id # a
  PROVE  VerdictIn(rows, a) = "none"
BY DEF VerdictIn, Has

\* One list is rewritten, with the same approvals in the same places.
LEMMA Rewritten ==
  ASSUME NEW rows, Unambiguous(rows), NEW next, NEW t \in Tickets,
         \A s \in Tickets \ {t} : next[s].actions = rows[s].actions,
         DOMAIN next[t].actions = DOMAIN rows[t].actions,
         \A i \in DOMAIN rows[t].actions : next[t].actions[i].id = rows[t].actions[i].id
  PROVE  /\ Unambiguous(next)
         /\ \A i \in DOMAIN rows[t].actions :
              VerdictIn(next, rows[t].actions[i].id) = next[t].actions[i].state
         /\ \A a : (\A i \in DOMAIN rows[t].actions : rows[t].actions[i].id # a)
                     => VerdictIn(next, a) = VerdictIn(rows, a)
<1>1. \A s \in Tickets : /\ DOMAIN next[s].actions = DOMAIN rows[s].actions
                         /\ \A i \in DOMAIN rows[s].actions :
                              next[s].actions[i].id = rows[s].actions[i].id
  OBVIOUS
<1>2. Unambiguous(next)
  BY <1>1 DEF Unambiguous
<1>3. ASSUME NEW i \in DOMAIN rows[t].actions
      PROVE  VerdictIn(next, rows[t].actions[i].id) = next[t].actions[i].state
  <2>1. i \in DOMAIN next[t].actions /\ next[t].actions[i].id = rows[t].actions[i].id
    OBVIOUS
  <2>2. VerdictIn(next, next[t].actions[i].id) = next[t].actions[i].state
    BY <1>2, <2>1, Stored
  <2> QED BY <2>1, <2>2
<1>4. ASSUME NEW a, \A i \in DOMAIN rows[t].actions : rows[t].actions[i].id # a
      PROVE  VerdictIn(next, a) = VerdictIn(rows, a)
  <2>1. CASE \E s \in Tickets : \E i \in DOMAIN rows[s].actions : rows[s].actions[i].id = a
    <3>0. PICK s \in Tickets : \E i \in DOMAIN rows[s].actions : rows[s].actions[i].id = a
      BY <2>1
    <3>1. PICK i \in DOMAIN rows[s].actions : rows[s].actions[i].id = a
      BY <3>0
    <3>2. s # t /\ next[s].actions = rows[s].actions
      BY <1>4, <3>1
    <3>3. VerdictIn(rows, a) = rows[s].actions[i].state
      BY <3>1, Stored
    <3>4. i \in DOMAIN next[s].actions /\ next[s].actions[i].id = a
      BY <3>1, <3>2
    <3>5. VerdictIn(next, a) = next[s].actions[i].state
      BY <1>2, <3>4, Stored
    <3> QED BY <3>2, <3>3, <3>5
  <2>2. CASE \A s \in Tickets : \A i \in DOMAIN rows[s].actions : rows[s].actions[i].id # a
    <3>1. VerdictIn(rows, a) = "none"
      BY <2>2, NotStored
    <3>2. \A s \in Tickets : \A i \in DOMAIN next[s].actions : next[s].actions[i].id # a
      BY <1>1, <2>2
    <3>3. VerdictIn(next, a) = "none"
      BY <3>2, NotStored
    <3> QED BY <3>1, <3>3
  <2> QED BY <2>1, <2>2
<1> QED BY <1>2, <1>3, <1>4

\* No list is rewritten.
LEMMA Unwritten ==
  ASSUME NEW rows, Unambiguous(rows), NEW next,
         \A s \in Tickets : next[s].actions = rows[s].actions
  PROVE  Unambiguous(next) /\ \A a : VerdictIn(next, a) = VerdictIn(rows, a)
<1>1. Unambiguous(next)
  BY DEF Unambiguous
<1>2. ASSUME NEW a PROVE VerdictIn(next, a) = VerdictIn(rows, a)
  <2>1. CASE \E s \in Tickets : \E i \in DOMAIN rows[s].actions : rows[s].actions[i].id = a
    <3>0. PICK s \in Tickets : \E i \in DOMAIN rows[s].actions : rows[s].actions[i].id = a
      BY <2>1
    <3>1. PICK i \in DOMAIN rows[s].actions : rows[s].actions[i].id = a
      BY <3>0
    <3>2. VerdictIn(rows, a) = rows[s].actions[i].state
      BY <3>1, Stored
    <3>3. next[s].actions = rows[s].actions /\ i \in DOMAIN next[s].actions
      BY <3>1
    <3>4. VerdictIn(next, next[s].actions[i].id) = next[s].actions[i].state
      BY <1>1, <3>3, Stored
    <3> QED BY <3>1, <3>2, <3>3, <3>4
  <2>2. CASE \A s \in Tickets : \A i \in DOMAIN rows[s].actions : rows[s].actions[i].id # a
    <3>1. VerdictIn(rows, a) = "none"
      BY <2>2, NotStored
    <3>2. VerdictIn(next, a) = "none"
      BY <2>2, NotStored
    <3> QED BY <3>1, <3>2
  <2> QED BY <2>1, <2>2
<1> QED BY <1>1, <1>2

\* The places of a decided list, and of one with approvals timed out.
LEMMA DecidedAt ==
  ASSUME NEW as \in Seq(Action), NEW a, NEW s \in State, NEW i \in DOMAIN as
  PROVE  LET d == Decided(as, a, s) IN
         /\ d[i].id = as[i].id /\ d[i].resume = as[i].resume
         /\ d[i].state = IF as[i].id = a THEN s ELSE as[i].state
<1>1. as[i] \in Action
  BY SeqElements
<1>2. Decided(as, a, s)[i] = IF as[i].id = a THEN [as[i] EXCEPT !.state = s] ELSE as[i]
  BY DEF Decided
<1> QED BY <1>1, <1>2 DEF Action

LEMMA TimedOutAt ==
  ASSUME NEW as \in Seq(Action), NEW i \in DOMAIN as
  PROVE  /\ TimedOut(as)[i].id = as[i].id /\ TimedOut(as)[i].resume = as[i].resume
         /\ TimedOut(as)[i].state = IF i \in Due(as) THEN "timeout" ELSE as[i].state
<1>1. as[i] \in Action
  BY SeqElements
<1>2. TimedOut(as)[i] = IF i \in Due(as) THEN [as[i] EXCEPT !.state = "timeout"] ELSE as[i]
  BY DEF TimedOut
<1> QED BY <1>1, <1>2 DEF Action

\* Moving a ticket to the head of the listing keeps every ticket in it once.
LEMMA HeadedListing ==
  ASSUME recent \in Seq(Tickets), Listing(recent), NEW t \in Tickets
  PROVE  Listing(Headed(t))
<1> DEFINE place == CHOOSE i \in DOMAIN recent : recent[i] = t
<1>1. Len(recent) \in Nat /\ DOMAIN recent = 1 .. Len(recent)
      /\ \A i \in DOMAIN recent : recent[i] \in Tickets
  BY SeqElements
<1>2. place \in DOMAIN recent /\ recent[place] = t /\ \A k \in DOMAIN recent : recent[k] = t <=> k = place
  <2>1. PICK i \in DOMAIN recent : \A k \in DOMAIN recent : recent[k] = t <=> k = i
    BY DEF Listing
  <2> QED BY <2>1
<1>3. /\ DOMAIN Headed(t) = DOMAIN recent
      /\ \A i \in DOMAIN recent :
           /\ i = 1 => Headed(t)[i] = t
           /\ i # 1 /\ i <= place => Headed(t)[i] = recent[i - 1]
           /\ i # 1 /\ ~(i <= place) => Headed(t)[i] = recent[i]
  BY DEF Headed
<1> HIDE DEF place
<1>4. ASSUME NEW s \in Tickets
      PROVE  \E i \in DOMAIN recent : \A k \in DOMAIN recent : Headed(t)[k] = s <=> k = i
  <2>1. CASE s = t
    <3>1. 1 \in DOMAIN recent
      BY <1>1, <1>2
    <3>2. ASSUME NEW k \in DOMAIN recent PROVE Headed(t)[k] = s <=> k = 1
      <4>1. CASE k = 1
        BY <1>3, <2>1, <4>1
      <4>2. CASE k # 1 /\ k <= place
        <5>1. k - 1 \in DOMAIN recent /\ k - 1 # place
          BY <1>1, <1>2, <4>2
        <5> QED BY <1>2, <1>3, <2>1, <4>2, <5>1
      <4>3. CASE k # 1 /\ ~(k <= place)
        <5>1. k # place
          BY <1>1, <1>2, <4>3
        <5> QED BY <1>2, <1>3, <2>1, <4>3, <5>1
      <4> QED BY <4>1, <4>2, <4>3
    <3> QED BY <3>1, <3>2
  <2>2. CASE s # t
    <3>1. PICK i \in DOMAIN recent : \A k \in DOMAIN recent : recent[k] = s <=> k = i
      BY DEF Listing
    <3>2. i # place
      BY <1>2, <2>2, <3>1
    <3>3. CASE i < place
      <4>1. i + 1 \in DOMAIN recent
        BY <1>1, <1>2, <3>3
      <4>2. ASSUME NEW k \in DOMAIN recent PROVE Headed(t)[k] = s <=> k = i + 1
        <5>1. CASE k = 1
          BY <1>1, <1>3, <2>2, <5>1
        <5>2. CASE k # 1 /\ k <= place
          <6>1. k - 1 \in DOMAIN recent
            BY <1>1, <5>2
          <6>2. k - 1 = i <=> k = i + 1
            BY <1>1
          <6> QED BY <1>3, <3>1, <5>2, <6>1, <6>2
        <5>3. CASE k # 1 /\ ~(k <= place)
          <6>1. k # i /\ k # i + 1
            BY <1>1, <1>2, <3>3, <5>3
          <6> QED BY <1>3, <3>1, <5>3, <6>1
        <5> QED BY <5>1, <5>2, <5>3
      <4> QED BY <4>1, <4>2
    <3>4. CASE ~(i < place)
      <4>1. ASSUME NEW k \in DOMAIN recent PROVE Headed(t)[k] = s <=> k = i
        <5>1. CASE k = 1
          BY <1>1, <1>2, <1>3, <2>2, <3>2, <3>4, <5>1
        <5>2. CASE k # 1 /\ k <= place
          <6>1. k - 1 \in DOMAIN recent /\ k - 1 # i /\ k # i
            BY <1>1, <1>2, <3>2, <3>4, <5>2
          <6> QED BY <1>3, <3>1, <5>2, <6>1
        <5>3. CASE k # 1 /\ ~(k <= place)
          BY <1>3, <3>1, <5>3
        <5> QED BY <5>1, <5>2, <5>3
      <4> QED BY <4>1
    <3> QED BY <3>3, <3>4
  <2> QED BY <2>1, <2>2
<1> QED BY <1>3, <1>4 DEF Listing

-----------------------------------------------------------------------------
(* What a step does to the lists there are.                                *)

\* What the invariants say of the rows and of a request.
LEMMA ListFacts ==
  ASSUME MInv, NEW w \in Workers
  PROVE  /\ AInv /\ job[w] \in Job /\ WellFormed(job[w]) /\ Steady(job[w])
         /\ \A t \in Tickets : /\ row[t] \in Row /\ row[t].actions \in Seq(Action)
                               /\ row[t].actions \in Copies(t) /\ Held(job[w], t) \subseteq Copies(t)
<1>1. AInv /\ Steady(job[w])
  BY DEF MInv
<1>2. \A t \in Tickets : row[t] \in Row
  BY <1>1, Facts
<1>3. \A t \in Tickets : row[t].actions \in Seq(Action)
  BY <1>2 DEF Row
<1>4. \A t \in Tickets : row[t].actions \in Copies(t) /\ Held(job[w], t) \subseteq Copies(t)
  BY DEF Copies
<1> QED BY <1>1, <1>2, <1>3, <1>4, Facts

LEMMA RowsUnambiguous ==
  ASSUME MInv PROVE Unambiguous(row)
<1>1. \A t \in Tickets : row[t].actions \in Copies(t)
  BY DEF Copies
<1> QED BY <1>1 DEF MInv, OneHome, Unambiguous

\* The approvals in the copies have been asked for.
LEMMA CopiesIssued ==
  ASSUME MInv, NEW t \in Tickets, NEW l \in Copies(t), NEW i \in DOMAIN l
  PROVE  l[i].id \in issued
<1>1. \A x \in Circulating : x.id \in issued
  BY DEF MInv, AInv, Genuine
<1>2. CASE l = row[t].actions
  BY <1>1, <1>2 DEF Circulating, OnTickets, Elems
<1>3. CASE \E w \in Workers : l \in Held(job[w], t)
  <2>1. PICK w \in Workers : l \in Held(job[w], t)
    BY <1>3
  <2>2. l[i] \in Carried(job[w])
    BY <2>1 DEF Held, Carried, OnTickets, Elems
  <2> QED BY <1>1, <2>2 DEF Circulating
<1> QED BY <1>2, <1>3 DEF Copies

\* A list that comes from another: the same approvals in the same places, some
\* of them decided, and at most one new at the end.
Grown(l, m, fresh) ==
  /\ DOMAIN m \subseteq DOMAIN l
  /\ \A i \in DOMAIN m : /\ l[i].id = m[i].id
                         /\ l[i].state = m[i].state \/ ToldBy(l[i], cut', timeline', job')
  /\ \A i \in DOMAIN l \ DOMAIN m : l[i].id = fresh /\ l[i].state = "pending_approval"
  /\ \A i, k \in DOMAIN l \ DOMAIN m : i = k

\* The events a request had to append are appended, lost with it, or still
\* to be appended.
Passed(w, j) ==
  \A e \in Elems(job[w].events) :
    e \in timeline' \/ e[1] \in cut' \/ (j.id = job[w].id /\ e \in Elems(j.events))

LEMMA ListsKeep ==
  ASSUME MInv, NEW w \in Workers, NEW j, Go(w, j), Steady(j),
         \A t \in Tickets : Held(j, t) \subseteq Copies(t),
         NEW fresh, fresh \notin issued, NEW home,
         \A t \in Tickets \ {home} : row'[t].actions = row[t].actions,
         \A t \in Tickets : \E m \in Copies(t) :
           Grown(row'[t].actions, m, fresh) /\ (m = row[t].actions \/ t \in raced'),
         raced \subseteq raced', timeline \subseteq timeline', cut \subseteq cut', Passed(w, j)
  PROVE  OneHome' /\ Audited' /\ NoneMissing' /\ \A v \in Workers : Steady(job[v])'
<1>1. \A v \in Workers : job'[v] = IF v = w THEN j ELSE job[v]
  BY DEF Go, MInv, AInv, TypeOK
<1>2. ASSUME NEW t \in Tickets, NEW l \in Copies(t)' PROVE l = row'[t].actions \/ l \in Copies(t)
  <2>1. Copies(t)' = {row'[t].actions} \cup UNION {Held(job'[v], t) : v \in Workers}
    BY DEF Copies, Held, Walking
  <2>2. CASE \E v \in Workers : l \in Held(job'[v], t)
    <3>1. PICK v \in Workers : l \in Held(job'[v], t)
      BY <2>2
    <3>2. Held(job'[v], t) \subseteq Copies(t)
      BY <1>1, ListFacts
    <3> QED BY <3>1, <3>2
  <2> QED BY <2>1, <2>2
<1>3. ASSUME NEW t \in Tickets, NEW l \in Copies(t)' PROVE \E m \in Copies(t) : Grown(l, m, fresh)
  <2>1. Grown(l, l, fresh)
    BY DEF Grown
  <2> QED BY <1>2, <2>1
<1>4. ASSUME NEW x, Told(x) PROVE Told(x)'
  <2> SUFFICES ASSUME x.state \in {"approved", "rejected"}, x.id \notin cut', <<x.id, x.state>> \notin timeline'
               PROVE  \E v \in Workers : job'[v].id = x.id /\ <<x.id, x.state>> \in Elems(job'[v].events)
    BY DEF Told, ToldBy
  <2>1. x.id \notin cut /\ <<x.id, x.state>> \notin timeline
    OBVIOUS
  <2>2. PICK v \in Workers : job[v].id = x.id /\ <<x.id, x.state>> \in Elems(job[v].events)
    BY <1>4, <2>1 DEF Told, ToldBy
  <2>3. CASE v # w
    BY <1>1, <2>2, <2>3
  <2>4. CASE v = w
    BY <1>1, <2>2, <2>4 DEF Passed
  <2> QED BY <2>3, <2>4
<1>5. OneHome'
  <2> SUFFICES ASSUME NEW s \in Tickets, NEW t \in Tickets, NEW l \in Copies(s)', NEW m \in Copies(t)',
                      NEW i \in DOMAIN l, NEW k \in DOMAIN m, l[i].id = m[k].id
               PROVE  s = t /\ (l = m => i = k)
    BY DEF OneHome
  <2>1. PICK a \in Copies(s) : Grown(l, a, fresh)
    BY <1>3
  <2>2. PICK b \in Copies(t) : Grown(m, b, fresh)
    BY <1>3
  <2>3. CASE i \in DOMAIN a
    <3>1. l[i].id = a[i].id /\ a[i].id # fresh
      BY <2>1, <2>3, CopiesIssued DEF Grown
    <3>2. k \in DOMAIN b /\ m[k].id = b[k].id
      <4>1. m[k].id # fresh
        BY <3>1
      <4>2. /\ \A x \in DOMAIN m \ DOMAIN b : m[x].id = fresh
            /\ \A x \in DOMAIN b : m[x].id = b[x].id
        BY <2>2 DEF Grown
      <4> QED BY <4>1, <4>2
    <3>3. s = t
      <4>1. a[i].id = b[k].id
        BY <3>1, <3>2
      <4>2. OneHome
        BY DEF MInv
      <4> QED BY <2>3, <3>2, <4>1, <4>2 DEF OneHome
    <3>4. ASSUME l = m PROVE i = k
      <4>1. k \in DOMAIN l /\ l[k].id = l[i].id /\ l[k].id # fresh
        BY <3>1, <3>4
      <4>2. k \in DOMAIN a /\ l[k].id = a[k].id
        BY <2>1, <4>1 DEF Grown
      <4>3. a[i].id = a[k].id
        BY <3>1, <4>1, <4>2
      <4> QED BY <2>3, <4>2, <4>3 DEF MInv, OneHome
    <3> QED BY <3>3, <3>4
  <2>4. CASE i \notin DOMAIN a
    <3>1. l[i].id = fresh
      BY <2>1, <2>4 DEF Grown
    <3>2. k \notin DOMAIN b
      <4>1. k \in DOMAIN b => m[k].id = b[k].id /\ b[k].id \in issued
        BY <2>2, CopiesIssued DEF Grown
      <4> QED BY <3>1, <4>1
    <3>3. l \notin Copies(s) /\ m \notin Copies(t)
      BY <3>1, CopiesIssued
    <3>4. l = row'[s].actions /\ m = row'[t].actions
      BY <1>2, <3>3
    <3>5. row[s].actions \in Copies(s) /\ row[t].actions \in Copies(t)
      BY ListFacts
    <3>6. s = home /\ t = home
      BY <3>3, <3>4, <3>5
    <3>7. i = k
      <4>1. k \in DOMAIN l /\ l[k].id = fresh
        BY <3>1, <3>4, <3>6
      <4>2. k \in DOMAIN a => l[k].id = a[k].id /\ a[k].id \in issued
        BY <2>1, CopiesIssued DEF Grown
      <4>3. k \in DOMAIN l \ DOMAIN a
        BY <4>1, <4>2
      <4> QED BY <2>1, <2>4, <4>3 DEF Grown
    <3> QED BY <3>6, <3>7
  <2> QED BY <2>3, <2>4
<1>6. Audited'
  <2> SUFFICES ASSUME NEW t \in Tickets, NEW l \in Copies(t)', NEW i \in DOMAIN l PROVE Told(l[i])'
    BY DEF Audited
  <2>1. PICK m \in Copies(t) : Grown(l, m, fresh)
    BY <1>3
  <2>2. CASE i \notin DOMAIN m
    <3>1. l[i].state = "pending_approval"
      BY <2>1, <2>2 DEF Grown
    <3> QED BY <3>1 DEF Told, ToldBy
  <2>3. CASE i \in DOMAIN m
    <3>1. Told(m[i])
      BY <2>3 DEF MInv, Audited
    <3>2. Told(m[i])'
      BY <1>4, <3>1
    <3>3. l[i].id = m[i].id /\ (l[i].state = m[i].state \/ Told(l[i])')
      BY <2>1, <2>3 DEF Grown, Told
    <3> QED BY <3>2, <3>3 DEF Told, ToldBy
  <2> QED BY <2>2, <2>3
<1>7. NoneMissing'
  <2> SUFFICES ASSUME NEW t \in Tickets, t \notin raced', NEW l \in Copies(t)', NEW i \in DOMAIN l
               PROVE  Has(row'[t].actions, l[i].id)
    BY DEF NoneMissing, Has
  <2>1. CASE l = row'[t].actions
    BY <2>1 DEF Has
  <2>2. CASE l \in Copies(t)
    <3>1. Has(row[t].actions, l[i].id)
      BY <2>2 DEF MInv, NoneMissing
    <3>2. Grown(row'[t].actions, row[t].actions, fresh)
      OBVIOUS
    <3> QED BY <3>1, <3>2 DEF Grown, Has
  <2> QED BY <1>2, <2>1, <2>2
<1>8. \A v \in Workers : Steady(job[v])'
  <2>1. \A v \in Workers : Steady(job'[v])
    BY <1>1 DEF MInv
  <2> QED BY <2>1 DEF Steady, At
<1> QED BY <1>5, <1>6, <1>7, <1>8

\* A step that rewrites no list and suspends no ticket.
LEMMA Silent ==
  ASSUME MInv, AInv', NEW w \in Workers, NEW j, Go(w, j), Steady(j),
         \A t \in Tickets : Held(j, t) \subseteq Copies(t),
         \A t \in Tickets : /\ row'[t].actions = row[t].actions
                            /\ row'[t].handoff = "pending_approval" => row[t].handoff = "pending_approval",
         UNCHANGED <<stacked, raced>>, timeline \subseteq timeline', cut \subseteq cut', Passed(w, j)
  PROVE  MInv'
<1>1. None \notin issued
  BY NoneAssumption DEF MInv, AInv, TypeOK
<1>2. ASSUME NEW t \in Tickets
      PROVE  row[t].actions \in Copies(t) /\ Grown(row'[t].actions, row[t].actions, None)
  BY ListFacts DEF Grown
<1>3. OneHome' /\ Audited' /\ NoneMissing' /\ \A v \in Workers : Steady(job[v])'
  <2>1. /\ \A t \in Tickets \ {None} : row'[t].actions = row[t].actions
        /\ \A t \in Tickets : \E m \in Copies(t) :
             Grown(row'[t].actions, m, None) /\ (m = row[t].actions \/ t \in raced')
    BY <1>2
  <2>2. raced \subseteq raced'
    OBVIOUS
  <2> QED BY <1>1, <2>1, <2>2, ListsKeep
<1>4. ResumesElsewhere'
  BY DEF MInv, ResumesElsewhere, Open
<1>5. SuspendedWhileOpen'
  BY DEF MInv, SuspendedWhileOpen, Open
<1> QED BY <1>3, <1>4, <1>5 DEF MInv

\* A step that writes no row, of a request with nothing to tell.
LEMMA Looking ==
  ASSUME MInv, AInv', NEW w \in Workers, NEW j, Go(w, j), job[w].pc # "note",
         UNCHANGED <<row, stacked, raced, timeline, cut>>, j.events = job[w].events,
         j.pc = "mark" => At(j.found.actions, j.id).state = "pending_approval",
         \A t \in Tickets : Held(j, t) \subseteq Copies(t)
  PROVE  MInv'
<1>1. job[w].events = <<>>
  BY ListFacts DEF Steady
<1>2. Steady(j) /\ Passed(w, j)
  BY <1>1 DEF Steady, Passed, Elems
<1> QED BY <1>2, Silent

\* A request that ends, having appended its events or lost them.
LEMMA Leaving ==
  ASSUME MInv, AInv', NEW w \in Workers, Finish(w),
         UNCHANGED <<row, stacked, raced>>, timeline \subseteq timeline', cut \subseteq cut',
         \A e \in Elems(job[w].events) : e \in timeline' \/ e[1] \in cut'
  PROVE  MInv'
<1>1. Steady(Idle) /\ \A t \in Tickets : Held(Idle, t) = {}
  BY DEF Steady, Held, Walking, Idle
<1>2. Passed(w, Idle) /\ Go(w, Idle)
  BY DEF Passed, Finish
<1> QED BY <1>1, <1>2, Silent

\* At most the events of a note are still to be appended.
LEMMA NoEvents ==
  ASSUME MInv, NEW w \in Workers, job[w].pc # "note"
  PROVE  job[w].events = <<>> /\ Elems(job[w].events) = {}
<1>1. job[w].events = <<>>
  BY ListFacts DEF Steady
<1> QED BY <1>1 DEF Elems

\* The rows after the write of one.
LEMMA RowWritten ==
  ASSUME AInv, NEW t \in Tickets, NEW r, Update(t, r)
  PROVE  \A s \in Tickets : row'[s] = IF s = t THEN r ELSE row[s]
BY DEF AInv, TypeOK, Update

\* A step that writes one list back as it is in some copy, with approvals
\* timed out or with the one that the request then tells of decided.
LEMMA Replaces ==
  ASSUME MInv, AInv', NEW w \in Workers, NEW j, Go(w, j), Steady(j), job[w].pc # "note",
         \A s \in Tickets : Held(j, s) \subseteq Copies(s),
         NEW t \in Tickets, NEW r, Update(t, r), UNCHANGED <<timeline, stacked, cut>>,
         NEW m \in Copies(t), Races(t, m # row[t].actions), DOMAIN r.actions = DOMAIN m,
         \A i \in DOMAIN m :
           /\ r.actions[i].id = m[i].id /\ r.actions[i].resume = m[i].resume
           /\ \/ r.actions[i].state = m[i].state
              \/ r.actions[i].state = "timeout"
              \/ /\ r.actions[i].state \in {"approved", "rejected"}
                 /\ j.id = m[i].id /\ <<m[i].id, r.actions[i].state>> \in Elems(j.events),
         \/ t \in stacked \cup raced \/ m # row[t].actions \/ Open(r.actions) # {}
         \/ r.handoff # "pending_approval"
  PROVE  MInv'
<1>1. None \notin issued
  BY NoneAssumption DEF MInv, AInv, TypeOK
<1>2. \A s \in Tickets : row'[s] = IF s = t THEN r ELSE row[s]
  BY RowWritten DEF MInv
<1>3. raced \subseteq raced' /\ (m = row[t].actions \/ t \in raced')
  BY RacesAdds DEF MInv
<1>4. job'[w] = j
  BY DEF Go, MInv, AInv, TypeOK
<1>5. Grown(r.actions, m, None)
  <2>1. ASSUME NEW i \in DOMAIN m
        PROVE  r.actions[i].id = m[i].id /\ (r.actions[i].state = m[i].state \/ Told(r.actions[i])')
    BY <1>4 DEF Told, ToldBy
  <2> QED BY <2>1 DEF Grown, Told
<1>6. \A s \in Tickets : row[s].actions \in Copies(s) /\ Grown(row[s].actions, row[s].actions, None)
  BY ListFacts DEF Grown
<1>7. OneHome' /\ Audited' /\ NoneMissing' /\ \A v \in Workers : Steady(job[v])'
  <2>1. \A s \in Tickets \ {t} : row'[s].actions = row[s].actions
    BY <1>2
  <2>2. \A s \in Tickets : \E l \in Copies(s) :
          Grown(row'[s].actions, l, None) /\ (l = row[s].actions \/ s \in raced')
    BY <1>2, <1>3, <1>5, <1>6
  <2>3. Passed(w, j)
    BY NoEvents DEF Passed
  <2> QED BY <1>1, <1>3, <2>1, <2>2, <2>3, ListsKeep
<1>8. ASSUME t \notin stacked, t \notin raced' PROVE \A i \in Open(r.actions) : r.actions[i].resume # "pending_approval"
  <2> SUFFICES ASSUME NEW i \in Open(r.actions) PROVE r.actions[i].resume # "pending_approval"
    OBVIOUS
  <2>1. m = row[t].actions /\ t \notin raced
    BY <1>3, <1>8
  <2>2. i \in DOMAIN m /\ r.actions[i].state = "pending_approval"
    BY DEF Open
  <2>3. m[i].state = "pending_approval" /\ r.actions[i].resume = m[i].resume
    BY <2>2
  <2>4. i \in Open(row[t].actions)
    BY <2>1, <2>2, <2>3 DEF Open
  <2> QED BY <1>8, <2>1, <2>3, <2>4 DEF MInv, ResumesElsewhere
<1>9. ResumesElsewhere'
  <2> SUFFICES ASSUME NEW s \in Tickets, s \notin stacked, s \notin raced', NEW i \in Open(row'[s].actions)
               PROVE  row'[s].actions[i].resume # "pending_approval"
    BY DEF ResumesElsewhere
  <2>1. CASE s = t
    BY <1>2, <1>8, <2>1
  <2>2. CASE s # t
    BY <1>2, <1>3, <2>2 DEF MInv, ResumesElsewhere
  <2> QED BY <2>1, <2>2
<1>10. SuspendedWhileOpen'
  <2> SUFFICES ASSUME NEW s \in Tickets, s \notin stacked, s \notin raced', row'[s].handoff = "pending_approval"
               PROVE  Open(row'[s].actions) # {}
    BY DEF SuspendedWhileOpen
  <2>1. CASE s = t
    BY <1>2, <1>3, <2>1
  <2>2. CASE s # t
    BY <1>2, <1>3, <2>2 DEF MInv, SuspendedWhileOpen
  <2> QED BY <2>1, <2>2
<1> QED BY <1>7, <1>9, <1>10 DEF MInv

\* One request at a time: the copies of the one that took the step are what is
\* stored.
LEMMA Stays ==
  ASSUME CInv, Alone, AInv', NEW w \in Workers, NEW j, Go(w, j), Current(j, row'),
         Listing(recent'), raced' = raced
  PROVE  CInv'
<1>1. job'[w] = j /\ \A v \in Workers : v = w
  BY DEF CInv, AInv, TypeOK, Go, Alone
<1>2. \A v \in Workers : Current(job[v], row)'
  <2>1. \A v \in Workers : Current(job'[v], row')
    BY <1>1
  <2> QED BY <2>1 DEF Current, Walking, NoRepeat
<1> QED BY <1>2 DEF CInv, NeverRaced, Listing

LEMMA Stayed ==
  ASSUME CInv, Alone, AInv', NEW w \in Workers, Finish(w), Listing(recent'), raced' = raced
  PROVE  CInv'
<1>1. Current(Idle, row') /\ Go(w, Idle)
  BY DEF Current, Idle, Walking, Finish
<1> QED BY <1>1, Stays

LEMMA NotRaced ==
  ASSUME NEW t, NEW outdated, Races(t, outdated), ~outdated PROVE raced' = raced
BY DEF Races

LEMMA ListingKept ==
  ASSUME CInv, NEW t \in Tickets, NEW r, Update(t, r) PROVE Listing(recent')
<1>1. recent \in Seq(Tickets) /\ Listing(recent)
  BY DEF CInv, AInv, TypeOK
<1> QED BY <1>1, HeadedListing DEF Update

-----------------------------------------------------------------------------
(* Each step keeps the two invariants.                                     *)

\* A step of the clock, or none.
LEMMA WaitMoves ==
  ASSUME AInv, AInv', UNCHANGED <<row, recent, job, timeline, stacked, raced, cut>>
  PROVE  (MInv => MInv') /\ (CInv /\ Alone => CInv')
<1>1. \A t : Copies(t)' = Copies(t)
  BY DEF Copies, Held, Walking
<1>2. \A x : Told(x)' <=> Told(x)
  BY DEF Told, ToldBy
<1>3. MInv => OneHome' /\ Audited' /\ NoneMissing'
  BY <1>1, <1>2 DEF MInv, OneHome, Audited, NoneMissing
<1>4. MInv => (\A w \in Workers : Steady(job[w])') /\ ResumesElsewhere' /\ SuspendedWhileOpen'
  BY DEF MInv, Steady, At, ResumesElsewhere, SuspendedWhileOpen
<1>5. CInv => CInv'
  BY DEF CInv, NeverRaced, Current, Listing, NoRepeat, Walking
<1> QED BY <1>3, <1>4, <1>5 DEF MInv

\* How a request begins.
LEMMA Started ==
  ASSUME NEW w \in Workers, Start(w)
  PROVE  \E j : /\ Go(w, j) /\ j.events = <<>> /\ ~Walking(j)
                /\ j.pc \in {"context", "scan", "trail", "show", "assign", "state", "resolve", "close"}
<1>1. \A c \in Commands :
        FirstStep(c) \in {"context", "scan", "trail", "show", "assign", "state", "resolve", "close"}
        \/ c \notin AllCommands
  BY DEF FirstStep, AllCommands
<1>2. \A c \in Commands :
        FirstStep(c) \in {"context", "scan", "trail", "show", "assign", "state", "resolve", "close"}
  BY <1>1, CommandsAssumption
<1>3. PICK c \in Commands : \E a, t, ty, d :
        \/ Go(w, [Idle EXCEPT !.pc = FirstStep(c), !.cmd = c, !.id = a])
        \/ Go(w, [Idle EXCEPT !.pc = FirstStep(c), !.cmd = c, !.on = t, !.type = ty, !.due = d])
        \/ Go(w, [Idle EXCEPT !.pc = FirstStep(c), !.cmd = c, !.on = t])
  BY DEF Start
<1>4. PICK a, t, ty, d :
        \/ Go(w, [Idle EXCEPT !.pc = FirstStep(c), !.cmd = c, !.id = a])
        \/ Go(w, [Idle EXCEPT !.pc = FirstStep(c), !.cmd = c, !.on = t, !.type = ty, !.due = d])
        \/ Go(w, [Idle EXCEPT !.pc = FirstStep(c), !.cmd = c, !.on = t])
  BY <1>3
<1> DEFINE decide == [Idle EXCEPT !.pc = FirstStep(c), !.cmd = c, !.id = a]
           ask == [Idle EXCEPT !.pc = FirstStep(c), !.cmd = c, !.on = t, !.type = ty, !.due = d]
           other == [Idle EXCEPT !.pc = FirstStep(c), !.cmd = c, !.on = t]
<1>5. \A j \in {decide, ask, other} : j.pc = FirstStep(c) /\ j.events = <<>> /\ j.after = "idle"
  BY DEF Idle
<1>6. \E j \in {decide, ask, other} : Go(w, j)
  BY <1>4
<1> HIDE DEF decide, ask, other
<1>7. PICK j \in {decide, ask, other} : Go(w, j)
  BY <1>6
<1>8. ~Walking(j)
  BY <1>2, <1>5 DEF Walking
<1> QED BY <1>2, <1>5, <1>7, <1>8

LEMMA StartMoves ==
  ASSUME AInv, AInv', NEW w \in Workers, Start(w)
  PROVE  (MInv => MInv') /\ (CInv /\ Alone => CInv')
<1>1. UNCHANGED <<row, recent, timeline, stacked, raced, cut>> /\ job[w].pc # "note"
  BY DEF Start
<1>2. PICK j : /\ Go(w, j) /\ j.events = <<>> /\ ~Walking(j)
               /\ j.pc \in {"context", "scan", "trail", "show", "assign", "state", "resolve", "close"}
  BY Started
<1>3. \A t \in Tickets : Held(j, t) = {}
  BY <1>2 DEF Held
<1>4. ASSUME MInv PROVE MInv'
  <2>1. j.events = job[w].events
    BY <1>1, <1>2, <1>4, NoEvents
  <2> QED BY <1>1, <1>2, <1>3, <1>4, <2>1, Looking
<1>5. ASSUME CInv, Alone PROVE CInv'
  BY <1>1, <1>2, <1>5, Stays DEF CInv, Current
<1> QED BY <1>4, <1>5

LEMMA AskContextMoves ==
  ASSUME AInv, AInv', NEW w \in Workers, AskContext(w)
  PROVE  (MInv => MInv') /\ (CInv /\ Alone => CInv')
<1> DEFINE j == [job[w] EXCEPT !.pc = "build", !.resume = row[job[w].on].handoff]
<1>1. job[w].pc = "context" /\ Go(w, j) /\ UNCHANGED <<row, recent, timeline, stacked, raced, cut>>
  BY DEF AskContext, history
<1>2. job[w] \in Job /\ job[w].after = "idle"
  BY <1>1, Facts DEF WellFormed
<1>3. /\ j.pc = "build" /\ j.resume = row[j.on].handoff /\ j.events = job[w].events
      /\ j.after = "idle"
  BY <1>2 DEF Job
<1> HIDE DEF j
<1>4. \A t \in Tickets : Held(j, t) = {}
  BY <1>3 DEF Held, Walking
<1>5. ASSUME MInv PROVE MInv'
  BY <1>1, <1>3, <1>4, <1>5, Looking
<1>6. ASSUME CInv, Alone PROVE CInv'
  BY <1>1, <1>3, <1>6, Stays DEF CInv, Current, Walking
<1> QED BY <1>5, <1>6

LEMMA AskReadMoves ==
  ASSUME AInv, AInv', NEW w \in Workers, AskRead(w)
  PROVE  (MInv => MInv') /\ (CInv /\ Alone => CInv')
<1> DEFINE j == [job[w] EXCEPT !.pc = "append", !.found = row[job[w].on], !.due = now + @]
<1>1. job[w].pc = "build" /\ Go(w, j) /\ UNCHANGED <<row, recent, timeline, stacked, raced, cut>>
  BY DEF AskRead, history
<1>2. job[w] \in Job /\ job[w].after = "idle"
  BY <1>1, Facts DEF WellFormed
<1>3. /\ j.pc = "append" /\ j.resume = job[w].resume /\ j.on = job[w].on /\ j.events = job[w].events
      /\ j.after = "idle" /\ j.found = row[job[w].on]
  BY <1>2 DEF Job
<1> HIDE DEF j
<1>4. \A t \in Tickets : Held(j, t) \subseteq {row[t].actions}
  BY <1>3 DEF Held, Walking
<1>5. ASSUME MInv PROVE MInv'
  <2>1. \A t \in Tickets : Held(j, t) \subseteq Copies(t)
    BY <1>4, <1>5, ListFacts
  <2> QED BY <1>1, <1>3, <1>5, <2>1, Looking
<1>6. ASSUME CInv, Alone PROVE CInv'
  <2>1. Current(j, row')
    BY <1>1, <1>3, <1>6 DEF CInv, Current, Walking
  <2> QED BY <1>1, <1>6, <2>1, Stays DEF CInv
<1> QED BY <1>5, <1>6

LEMMA ScanMoves ==
  ASSUME AInv, AInv', NEW w \in Workers, Scan(w)
  PROVE  (MInv => MInv') /\ (CInv /\ Alone => CInv')
<1> DEFINE todo == IF job[w].pc = "show" THEN <<job[w].on>> ELSE recent
           j == [job[w] EXCEPT !.pc = "sweep", !.view = row, !.todo = todo]
<1>1. job[w].pc \in {"scan", "show"} /\ Go(w, j)
      /\ UNCHANGED <<row, recent, timeline, stacked, raced, cut>>
  BY DEF Scan, history
<1>2. job[w] \in Job
  BY Facts
<1>3. CInv => NoRepeat(todo)
  <2>1. CInv => NoRepeat(recent)
    <3>1. recent \in Seq(Tickets)
      BY DEF AInv, TypeOK
    <3>2. \A i \in DOMAIN recent : recent[i] \in Tickets
      BY <3>1, SeqElements
    <3> QED BY <3>2 DEF CInv, Listing, NoRepeat
  <2>2. ASSUME NEW t PROVE NoRepeat(<<t>>)
    BY DEF NoRepeat
  <2> QED BY <2>1, <2>2
<1> HIDE DEF todo
<1>4. j.pc = "sweep" /\ j.view = row /\ j.todo = todo /\ j.events = job[w].events
  BY <1>2 DEF Job
<1> HIDE DEF j
<1>5. \A t \in Tickets : Held(j, t) \subseteq {row[t].actions}
  BY <1>4 DEF Held
<1>6. ASSUME MInv PROVE MInv'
  <2>1. \A t \in Tickets : Held(j, t) \subseteq Copies(t)
    BY <1>5, <1>6, ListFacts
  <2> QED BY <1>1, <1>4, <1>6, <2>1, Looking
<1>7. ASSUME CInv, Alone PROVE CInv'
  BY <1>1, <1>3, <1>4, <1>7, Stays DEF CInv, Current, Walking
<1> QED BY <1>6, <1>7

LEMMA TailOfList ==
  ASSUME NEW S, NEW s \in Seq(S), s # <<>>, NoRepeat(s)
  PROVE  /\ NoRepeat(Tail(s))
         /\ \A i \in DOMAIN Tail(s) : i + 1 \in DOMAIN s /\ i + 1 # 1 /\ Tail(s)[i] = s[i + 1]
<1>1. Len(s) \in Nat /\ DOMAIN s = 1 .. Len(s)
  OBVIOUS
<1>2. DOMAIN Tail(s) = 1 .. (Len(s) - 1) /\ \A i \in 1 .. (Len(s) - 1) : Tail(s)[i] = s[i + 1]
  BY HeadTailProperties
<1>3. \A i \in DOMAIN Tail(s) : i + 1 \in DOMAIN s /\ i + 1 # 1 /\ Tail(s)[i] = s[i + 1]
  BY <1>1, <1>2
<1>4. \A i, k \in DOMAIN Tail(s) : i + 1 = k + 1 => i = k
  BY <1>1, <1>2
<1> QED BY <1>3, <1>4 DEF NoRepeat

LEMMA LookMoves ==
  ASSUME AInv, AInv', NEW w \in Workers, Look(w)
  PROVE  (MInv => MInv') /\ (CInv /\ Alone => CInv')
<1> DEFINE t == Head(job[w].todo)
           after == AfterFound(job[w], At(row[t].actions, job[w].id))
<1>1. job[w] \in Job /\ WellFormed(job[w])
  BY Facts
<1>2. /\ job[w].pc \in {"look", "sweep"} /\ job[w].todo # <<>> /\ Walking(job[w])
      /\ UNCHANGED <<row, recent, timeline, stacked, raced, cut>>
  BY <1>1 DEF Look, history, WellFormed, Walking
<1>3. CASE Finish(w)
  <2>1. ASSUME MInv PROVE MInv'
    <3>1. Elems(job[w].events) = {}
      BY <1>2, <2>1, NoEvents
    <3> QED BY <1>2, <1>3, <2>1, <3>1, Leaving
  <2>2. CInv /\ Alone => CInv'
    BY <1>2, <1>3, Stayed DEF CInv
  <2> QED BY <2>1, <2>2
<1>4. CASE /\ after # "idle"
           /\ Go(w, [job[w] EXCEPT !.pc = after, !.on = t, !.found = row[t], !.view = None, !.todo = <<>>])
  <2> DEFINE j == [job[w] EXCEPT !.pc = after, !.on = t, !.found = row[t], !.view = None, !.todo = <<>>]
  <2>1. after = "execute" \/ (after = "mark" /\ At(row[t].actions, job[w].id).state = "pending_approval")
    BY <1>4 DEF AfterFound
  <2> HIDE DEF after, t
  <2>2. /\ j.pc = after /\ j.on = t /\ j.found = row[t] /\ j.id = job[w].id /\ j.events = job[w].events
    BY <1>1 DEF Job
  <2>3. Go(w, j)
    BY <1>4
  <2> HIDE DEF j
  <2>4. \A s \in Tickets : Held(j, s) \subseteq {row[s].actions}
    BY <2>1, <2>2 DEF Held, Walking
  <2>5. ASSUME MInv PROVE MInv'
    <3>1. \A s \in Tickets : Held(j, s) \subseteq Copies(s)
      BY <2>4, <2>5, ListFacts
    <3>2. j.pc = "mark" => At(j.found.actions, j.id).state = "pending_approval"
      BY <2>1, <2>2
    <3> QED BY <1>2, <2>2, <2>3, <2>5, <3>1, <3>2, Looking
  <2>6. ASSUME CInv, Alone PROVE CInv'
    <3>1. Current(j, row')
      BY <1>2, <2>1, <2>2 DEF Current, Walking
    <3> QED BY <1>2, <2>3, <2>6, <3>1, Stays DEF CInv
  <2> QED BY <2>5, <2>6
<1>5. CASE Go(w, [job[w] EXCEPT !.pc = "sweep", !.todo = Tail(@)])
  <2> DEFINE j == [job[w] EXCEPT !.pc = "sweep", !.todo = Tail(@)]
  <2>1. j.pc = "sweep" /\ j.view = job[w].view /\ j.todo = Tail(job[w].todo) /\ j.events = job[w].events
    BY <1>1 DEF Job
  <2>2. Go(w, j)
    BY <1>5
  <2> HIDE DEF j
  <2>3. \A s \in Tickets : Held(j, s) \subseteq Held(job[w], s)
    BY <1>2, <2>1 DEF Held
  <2>4. ASSUME MInv PROVE MInv'
    <3>1. \A s \in Tickets : Held(j, s) \subseteq Copies(s)
      BY <2>3, <2>4, ListFacts
    <3> QED BY <1>2, <2>1, <2>2, <2>4, <3>1, Looking
  <2>5. ASSUME CInv, Alone PROVE CInv'
    <3>1. /\ NoRepeat(job[w].todo) /\ job[w].todo \in Seq(Tickets)
          /\ \A i \in DOMAIN job[w].todo : i # 1 =>
               job[w].view[job[w].todo[i]].actions = row[job[w].todo[i]].actions
      BY <1>1, <1>2, <2>5 DEF CInv, Current, Job
    <3>2. /\ NoRepeat(j.todo)
          /\ \A i \in DOMAIN j.todo : i + 1 \in DOMAIN job[w].todo /\ i + 1 # 1
                                      /\ j.todo[i] = job[w].todo[i + 1]
      BY <1>2, <2>1, <3>1, TailOfList
    <3>3. \A i \in DOMAIN j.todo : j.view[j.todo[i]].actions = row'[j.todo[i]].actions
      BY <1>2, <2>1, <3>1, <3>2
    <3>4. Current(j, row')
      BY <2>1, <3>2, <3>3 DEF Current
    <3> QED BY <1>2, <2>2, <2>5, <3>4, Stays DEF CInv
  <2> QED BY <2>4, <2>5
<1> QED BY <1>3, <1>4, <1>5 DEF Look

LEMMA NoteMoves ==
  ASSUME AInv, AInv', NEW w \in Workers, Note(w)
  PROVE  (MInv => MInv') /\ (CInv /\ Alone => CInv')
<1>1. job[w] \in Job /\ WellFormed(job[w])
  BY Facts
<1>2. /\ job[w].pc = "note" /\ job[w].events # <<>> /\ job[w].events \in Seq(Approvals \X Kind)
      /\ timeline' = timeline \cup {Head(job[w].events)}
      /\ UNCHANGED <<row, recent, stacked, raced, cut>>
  BY <1>1 DEF Note, history, WellFormed, Job
<1> DEFINE es == job[w].events
<1>3. /\ Len(es) \in Nat /\ DOMAIN es = 1 .. Len(es) /\ Head(es) = es[1]
      /\ DOMAIN Tail(es) = 1 .. (Len(es) - 1) /\ \A i \in 1 .. (Len(es) - 1) : Tail(es)[i] = es[i + 1]
  BY <1>2, HeadTailProperties
<1> HIDE DEF es
<1>4. \A i \in DOMAIN es : i # 1 => i - 1 \in DOMAIN Tail(es) /\ Tail(es)[i - 1] = es[i]
  BY <1>3
<1>5. \A e \in Elems(es) : e = Head(es) \/ e \in Elems(Tail(es))
  BY <1>3, <1>4 DEF Elems
<1>6. ~(Len(es) > 1) => Elems(Tail(es)) = {}
  BY <1>3 DEF Elems
<1>7. CASE Len(es) > 1 /\ Go(w, [job[w] EXCEPT !.events = Tail(@)])
  <2> DEFINE j == [job[w] EXCEPT !.events = Tail(@)]
  <2>1. /\ j.pc = "note" /\ j.after = job[w].after /\ j.events = Tail(es)
        /\ j.view = job[w].view /\ j.todo = job[w].todo /\ j.id = job[w].id
    BY <1>1, <1>2 DEF Job, es
  <2>2. Go(w, j)
    BY <1>7
  <2> HIDE DEF j
  <2>3. Steady(j) /\ (Walking(j) <=> Walking(job[w])) /\ Passed(w, j)
    BY <1>2, <1>5, <2>1 DEF Steady, Walking, Passed, es
  <2>4. \A s \in Tickets : Held(j, s) \subseteq Held(job[w], s)
    BY <2>1, <2>3 DEF Held
  <2>5. ASSUME MInv PROVE MInv'
    <3>1. \A s \in Tickets : Held(j, s) \subseteq Copies(s)
      BY <2>4, <2>5, ListFacts
    <3> QED BY <1>2, <2>2, <2>3, <2>5, <3>1, Silent
  <2>6. ASSUME CInv, Alone PROVE CInv'
    <3>1. Current(j, row')
      BY <1>2, <2>1, <2>3, <2>6 DEF CInv, Current
    <3> QED BY <1>2, <2>2, <2>6, <3>1, Stays DEF CInv
  <2> QED BY <2>5, <2>6
<1>8. CASE ~(Len(es) > 1) /\ Finish(w)
  <2>1. \A e \in Elems(job[w].events) : e \in timeline'
    BY <1>2, <1>5, <1>6, <1>8 DEF es
  <2>2. MInv => MInv'
    BY <1>2, <1>8, <2>1, Leaving
  <2>3. CInv /\ Alone => CInv'
    BY <1>2, <1>8, Stayed DEF CInv
  <2> QED BY <2>2, <2>3
<1>9. CASE /\ ~(Len(es) > 1) /\ job[w].after # "idle"
           /\ Go(w, [job[w] EXCEPT !.pc = job[w].after, !.events = <<>>, !.after = "idle"])
  <2> DEFINE j == [job[w] EXCEPT !.pc = job[w].after, !.events = <<>>, !.after = "idle"]
  <2>1. job[w].after = "look"
    BY <1>1, <1>9 DEF Job
  <2>2. /\ j.pc = "look" /\ j.after = "idle" /\ j.events = <<>>
        /\ j.view = job[w].view /\ j.todo = job[w].todo /\ j.id = job[w].id
    BY <1>1, <2>1 DEF Job
  <2>3. Go(w, j)
    BY <1>9
  <2> HIDE DEF j
  <2>4. Walking(j) /\ Walking(job[w]) /\ Steady(j)
    BY <1>2, <2>1, <2>2 DEF Walking, Steady
  <2>5. Passed(w, j)
    BY <1>2, <1>5, <1>6, <1>9 DEF Passed, es
  <2>6. \A s \in Tickets : Held(j, s) \subseteq Held(job[w], s)
    BY <2>2, <2>4 DEF Held
  <2>7. ASSUME MInv PROVE MInv'
    <3>1. \A s \in Tickets : Held(j, s) \subseteq Copies(s)
      BY <2>6, <2>7, ListFacts
    <3> QED BY <1>2, <2>3, <2>4, <2>5, <2>7, <3>1, Silent
  <2>8. ASSUME CInv, Alone PROVE CInv'
    <3>1. Current(j, row')
      BY <1>2, <2>2, <2>4, <2>8 DEF CInv, Current
    <3> QED BY <1>2, <2>3, <2>8, <3>1, Stays DEF CInv
  <2> QED BY <2>7, <2>8
<1> QED BY <1>7, <1>8, <1>9 DEF Note, es

LEMMA LeaveMoves ==
  ASSUME AInv, AInv', NEW w \in Workers, Exhausted(w) \/ Refuse(w) \/ Crash(w)
  PROVE  (MInv => MInv') /\ (CInv /\ Alone => CInv')
<1>1. Finish(w) /\ UNCHANGED <<row, recent, timeline, stacked, raced>> /\ cut \subseteq cut'
  BY DEF Exhausted, Refuse, Crash, history
<1>2. ASSUME MInv PROVE MInv'
  <2>1. CASE Crash(w)
    <3>1. \A e \in Elems(job[w].events) : e[1] \in cut'
      BY <2>1 DEF Crash, Elems
    <3> QED BY <1>1, <1>2, <3>1, Leaving
  <2>2. CASE Exhausted(w) \/ Refuse(w)
    <3>1. job[w].pc # "note"
      BY <2>2 DEF Exhausted, Refuse, Sweeping, Writing
    <3> QED BY <1>1, <1>2, <3>1, NoEvents, Leaving
  <2> QED BY <2>1, <2>2
<1>3. CInv /\ Alone => CInv'
  BY <1>1, Stayed DEF CInv
<1> QED BY <1>2, <1>3

LEMMA SimpleMoves ==
  ASSUME AInv, AInv', NEW w \in Workers, Simple(w)
  PROVE  (MInv => MInv') /\ (CInv /\ Alone => CInv')
<1> DEFINE t == job[w].on
           r == [row[t] EXCEPT !.status = Goal(job[w], @),
                               !.handoff = IF job[w].pc = "state" THEN "claimed" ELSE @]
<1>1. /\ job[w].pc \in {"assign", "state", "resolve", "close"} /\ Update(t, r) /\ Finish(w)
      /\ UNCHANGED <<timeline, stacked, raced, cut>>
  BY DEF Simple, history
<1>2. t \in Tickets /\ row[t] \in Row
  BY <1>1, Facts DEF WellFormed
<1>3. r.actions = row[t].actions /\ (r.handoff = "pending_approval" => row[t].handoff = "pending_approval")
  BY <1>2 DEF Row
<1> HIDE DEF r
<1>4. \A s \in Tickets : /\ row'[s].actions = row[s].actions
                         /\ row'[s].handoff = "pending_approval" => row[s].handoff = "pending_approval"
  BY <1>1, <1>2, <1>3, RowWritten
<1>5. ASSUME MInv PROVE MInv'
  <2>1. Steady(Idle) /\ \A s \in Tickets : Held(Idle, s) = {}
    BY DEF Steady, Held, Walking, Idle
  <2>2. Passed(w, Idle) /\ Go(w, Idle)
    BY <1>1, <1>5, NoEvents DEF Passed, Finish
  <2> QED BY <1>1, <1>4, <1>5, <2>1, <2>2, Silent
<1>6. CInv /\ Alone => CInv'
  BY <1>1, <1>2, ListingKept, Stayed
<1> QED BY <1>5, <1>6

LEMMA ExecuteMoves ==
  ASSUME AInv, AInv', NEW w \in Workers, Execute(w)
  PROVE  (MInv => MInv') /\ (CInv /\ Alone => CInv')
<1> DEFINE t == job[w].on
           r == [row[t] EXCEPT !.status = Goal(job[w], @),
                               !.handoff = IF Goal(job[w], "open") = "escalated"
                                           THEN "requested" ELSE @]
           j == [job[w] EXCEPT !.pc = "scan", !.result = r, !.found = None]
<1>1. job[w].pc = "execute" /\ Update(t, r) /\ Go(w, j) /\ UNCHANGED <<timeline, stacked, raced, cut>>
  BY DEF Execute
<1>2. t \in Tickets /\ row[t] \in Row /\ job[w] \in Job /\ job[w].after = "idle"
  BY <1>1, Facts DEF WellFormed
<1>3. r.actions = row[t].actions /\ (r.handoff = "pending_approval" => row[t].handoff = "pending_approval")
  BY <1>2 DEF Row
<1> HIDE DEF r
<1>4. j.pc = "scan" /\ j.after = "idle" /\ j.events = job[w].events
  BY <1>2 DEF Job
<1>5. Go(w, j)
  BY <1>1
<1> HIDE DEF j
<1>6. \A s \in Tickets : /\ row'[s].actions = row[s].actions
                         /\ row'[s].handoff = "pending_approval" => row[s].handoff = "pending_approval"
  BY <1>1, <1>2, <1>3, RowWritten
<1>7. ASSUME MInv PROVE MInv'
  <2>1. \A s \in Tickets : Held(j, s) = {}
    BY <1>4 DEF Held, Walking
  <2>2. Steady(j) /\ Passed(w, j)
    BY <1>1, <1>4, <1>7, NoEvents DEF Steady, Passed
  <2> QED BY <1>1, <1>5, <1>6, <1>7, <2>1, <2>2, Silent
<1>8. ASSUME CInv, Alone PROVE CInv'
  <2>1. Current(j, row')
    BY <1>4 DEF Current, Walking
  <2> QED BY <1>1, <1>2, <1>5, <1>8, <2>1, ListingKept, Stays
<1> QED BY <1>7, <1>8

LEMMA CollabCloseReadMoves ==
  ASSUME AInv, AInv', NEW w \in Workers, CollabCloseRead(w)
  PROVE  (MInv => MInv') /\ (CInv /\ Alone => CInv')
<1> DEFINE j == [job[w] EXCEPT !.pc = "complete", !.found = row[job[w].on]]
<1>1. job[w].pc = "trail" /\ Go(w, j) /\ UNCHANGED <<row, recent, timeline, stacked, raced, cut>>
  BY DEF CollabCloseRead, history
<1>2. job[w] \in Job /\ job[w].after = "idle"
  BY <1>1, Facts DEF WellFormed
<1>3. /\ j.pc = "complete" /\ j.on = job[w].on /\ j.found = row[job[w].on]
      /\ j.events = job[w].events /\ j.after = "idle"
  BY <1>2 DEF Job
<1> HIDE DEF j
<1>4. \A s \in Tickets : Held(j, s) \subseteq {row[s].actions}
  BY <1>3 DEF Held, Walking
<1>5. ASSUME MInv PROVE MInv'
  <2>1. \A s \in Tickets : Held(j, s) \subseteq Copies(s)
    BY <1>4, <1>5, ListFacts
  <2> QED BY <1>1, <1>3, <1>5, <2>1, Looking
<1>6. ASSUME CInv, Alone PROVE CInv'
  <2>1. Current(j, row')
    BY <1>1, <1>3 DEF Current, Walking
  <2> QED BY <1>1, <1>6, <2>1, Stays DEF CInv
<1> QED BY <1>5, <1>6

LEMMA CollabCloseMoves ==
  ASSUME AInv, AInv', NEW w \in Workers, CollabClose(w)
  PROVE  (MInv => MInv') /\ (CInv /\ Alone => CInv')
<1> DEFINE t == job[w].on
           m == job[w].found.actions
           r == [status |-> "closed", handoff |-> "completed", actions |-> m]
<1>1. /\ job[w].pc = "complete" /\ Update(t, r) /\ Finish(w) /\ UNCHANGED <<timeline, stacked, cut>>
      /\ Races(t, m # row[t].actions)
  BY DEF CollabClose
<1>2. t \in Tickets
  BY <1>1, Facts DEF WellFormed
<1>3. r.actions = m /\ r.handoff # "pending_approval"
  OBVIOUS
<1>4. m \in Held(job[w], t)
  BY <1>1 DEF Held
<1> HIDE DEF r, m, t
<1>5. ASSUME MInv PROVE MInv'
  <2>1. m \in Copies(t)
    BY <1>2, <1>4, <1>5, ListFacts
  <2>2. Steady(Idle) /\ (\A s \in Tickets : Held(Idle, s) \subseteq Copies(s)) /\ Go(w, Idle)
    BY <1>1 DEF Steady, Held, Walking, Idle, Finish
  <2> QED BY <1>1, <1>2, <1>3, <1>5, <2>1, <2>2, Replaces
<1>6. ASSUME CInv, Alone PROVE CInv'
  <2>1. m = row[t].actions
    BY <1>1, <1>6 DEF CInv, Current, m, t
  <2> QED BY <1>1, <1>2, <1>6, <2>1, NotRaced, ListingKept, Stayed
<1> QED BY <1>5, <1>6

LEMMA SweepMoves ==
  ASSUME AInv, AInv', NEW w \in Workers, Sweep(w)
  PROVE  (MInv => MInv') /\ (CInv /\ Alone => CInv')
<1> DEFINE t == Head(job[w].todo)
           m == job[w].view[t].actions
           next == TimedOut(m)
           handoff == IF Open(next) = {} THEN LatestDue(m).resume ELSE job[w].view[t].handoff
           r == [row[t] EXCEPT !.handoff = handoff, !.actions = next]
           j == [job[w] EXCEPT !.pc = "note", !.after = "look",
                               !.events = <<<<LatestDue(m).id, "timeout">>>>]
<1>1. /\ job[w].pc = "sweep" /\ job[w].todo # <<>> /\ Due(m) # {}
      /\ Update(t, r) /\ Go(w, j) /\ UNCHANGED <<timeline, stacked, cut>>
      /\ Races(t, m # row[t].actions)
  BY DEF Sweep, Sweeping, Swept
<1>2. job[w] \in Job /\ job[w].todo \in Seq(Tickets) /\ job[w].view \in [Tickets -> Row]
  BY <1>1, Facts DEF WellFormed, Walking, Job
<1>3. t \in Tickets
  BY <1>1, <1>2, HeadTailProperties
<1>4. m \in Seq(Action) /\ row[t] \in Row /\ m \in Held(job[w], t)
  BY <1>1, <1>2, <1>3, Facts DEF Row, Held, Walking
<1>5. /\ DOMAIN next = DOMAIN m
      /\ \A i \in DOMAIN m : /\ next[i].id = m[i].id /\ next[i].resume = m[i].resume
                             /\ next[i].state = m[i].state \/ next[i].state = "timeout"
  <2> HIDE DEF m
  <2> QED BY <1>4, TimedOutList, TimedOutAt
<1>6. PICK last \in Due(m) : LatestDue(m) = m[last]
  BY <1>1, <1>4, LatestList
<1>7. Open(next) = {} => handoff = m[last].resume
  BY <1>6
<1> HIDE DEF next, handoff
<1>8. r.actions = next /\ r.handoff = handoff
  BY <1>4 DEF Row
<1>9. /\ j.pc = "note" /\ j.after = "look" /\ j.view = job[w].view /\ j.todo = job[w].todo
  BY <1>2 DEF Job
<1>10. Update(t, r) /\ Go(w, j) /\ job[w].pc # "note"
  BY <1>1
<1> HIDE DEF m, r, j, t
<1>11. ASSUME MInv PROVE MInv'
  <2>1. Steady(j) /\ \A s \in Tickets : Held(j, s) \subseteq Held(job[w], s)
    BY <1>1, <1>9 DEF Steady, Held, Walking
  <2>2. m \in Copies(t) /\ \A s \in Tickets : Held(j, s) \subseteq Copies(s)
    BY <1>3, <1>4, <1>11, <2>1, ListFacts
  <2>3. /\ DOMAIN r.actions = DOMAIN m
        /\ \A i \in DOMAIN m :
             /\ r.actions[i].id = m[i].id /\ r.actions[i].resume = m[i].resume
             /\ \/ r.actions[i].state = m[i].state
                \/ r.actions[i].state = "timeout"
                \/ /\ r.actions[i].state \in {"approved", "rejected"}
                   /\ j.id = m[i].id /\ <<m[i].id, r.actions[i].state>> \in Elems(j.events)
    BY <1>5, <1>8
  <2>4. \/ t \in stacked \cup raced \/ m # row[t].actions \/ Open(r.actions) # {}
        \/ r.handoff # "pending_approval"
    <3>1. SUFFICES ASSUME t \notin stacked \cup raced, m = row[t].actions, Open(r.actions) = {}
                   PROVE  r.handoff # "pending_approval"
      OBVIOUS
    <3>2. last \in Open(row[t].actions)
      BY <1>6, <3>1 DEF Due
    <3>3. m[last].resume # "pending_approval"
      BY <1>3, <1>11, <3>1, <3>2 DEF MInv, ResumesElsewhere
    <3> QED BY <1>7, <1>8, <3>1, <3>3
  <2> QED BY <1>1, <1>3, <1>10, <1>11, <2>1, <2>2, <2>3, <2>4, Replaces
<1>12. ASSUME CInv, Alone PROVE CInv'
  <2>1. /\ NoRepeat(job[w].todo) /\ 1 \in DOMAIN job[w].todo /\ t = job[w].todo[1]
        /\ \A i \in DOMAIN job[w].todo :
             job[w].view[job[w].todo[i]].actions = row[job[w].todo[i]].actions
    BY <1>1, <1>2, <1>12 DEF CInv, Current, Walking, t
  <2>2. m = row[t].actions /\ raced' = raced
    BY <1>1, <2>1, NotRaced DEF m
  <2>3. \A i \in DOMAIN job[w].todo : i # 1 => job[w].todo[i] \in Tickets \ {t}
    <3>1. \A i \in DOMAIN job[w].todo : job[w].todo[i] \in Tickets
      BY <1>2, SeqElements
    <3> QED BY <2>1, <3>1 DEF NoRepeat
  <2>4. \A s \in Tickets \ {t} : row'[s] = row[s]
    BY <1>3, <1>10, RowWritten
  <2>5. \A i \in DOMAIN j.todo : i # 1 => j.view[j.todo[i]].actions = row'[j.todo[i]].actions
    BY <1>9, <2>1, <2>3, <2>4
  <2>6. Current(j, row')
    BY <1>9, <2>1, <2>5 DEF Current
  <2>7. Listing(recent')
    BY <1>3, <1>10, <1>12, ListingKept
  <2> QED BY <1>10, <1>12, <2>2, <2>6, <2>7, Stays
<1> QED BY <1>11, <1>12

LEMMA MarkMoves ==
  ASSUME AInv, AInv', NEW w \in Workers, Mark(w)
  PROVE  (MInv => MInv') /\ (CInv /\ Alone => CInv')
<1> DEFINE t == job[w].on
           a == job[w].id
           m == job[w].found.actions
           v == IF job[w].cmd = "approve" THEN "approved" ELSE "rejected"
           next == Decided(m, a, v)
           base == IF job[w].cmd = "approve" THEN job[w].result ELSE job[w].found
           handoff == IF Open(next) = {} THEN At(next, a).resume ELSE base.handoff
           r == [row[t] EXCEPT !.handoff = handoff, !.actions = next]
           events == IF job[w].cmd = "approve"
                     THEN <<<<a, "approved">>, <<a, "resumed">>>>
                     ELSE <<<<a, "rejected">>>>
           j == [job[w] EXCEPT !.pc = "note", !.found = None, !.result = None, !.events = events]
<1>1. /\ job[w].pc = "mark" /\ Update(t, r) /\ Go(w, j) /\ UNCHANGED <<timeline, stacked, cut>>
      /\ Races(t, m # row[t].actions)
  BY DEF Mark
<1>2. job[w] \in Job /\ t \in Tickets /\ job[w].after = "idle" /\ Has(m, a) /\ job[w].found \in Row
  BY <1>1, Facts DEF WellFormed
<1>3. m \in Seq(Action) /\ row[t] \in Row /\ m \in Held(job[w], t) /\ v \in {"approved", "rejected"}
  BY <1>1, <1>2, Facts DEF Row, Held
<1>4. PICK n \in DOMAIN m : m[n].id = a /\ At(m, a) = m[n]
  <2> HIDE DEF a, m
  <2>1. \E n \in DOMAIN m : m[n].id = a
    BY <1>2 DEF Has
  <2> QED BY <2>1 DEF At
<1>5. /\ DOMAIN next = DOMAIN m
      /\ \A i \in DOMAIN m : /\ next[i].id = m[i].id /\ next[i].resume = m[i].resume
                             /\ next[i].state = IF m[i].id = a THEN v ELSE m[i].state
  <2>1. v \in State
    BY DEF State
  <2>2. DOMAIN next = DOMAIN m
    BY DEF Decided
  <2>3. ASSUME NEW l \in Seq(Action), NEW b, NEW s \in State, NEW i \in DOMAIN l
        PROVE  /\ Decided(l, b, s)[i].id = l[i].id /\ Decided(l, b, s)[i].resume = l[i].resume
               /\ Decided(l, b, s)[i].state = IF l[i].id = b THEN s ELSE l[i].state
    BY DecidedAt
  <2> HIDE DEF m, a, v
  <2> QED BY <1>3, <2>1, <2>2, <2>3
<1>6. <<a, v>> \in Elems(events)
  <2>1. CASE job[w].cmd = "approve"
    <3>1. v = "approved" /\ events = <<<<a, "approved">>, <<a, "resumed">>>>
      BY <2>1
    <3> HIDE DEF events, v, a
    <3> QED BY <3>1 DEF Elems
  <2>2. CASE job[w].cmd # "approve"
    <3>1. v = "rejected" /\ events = <<<<a, "rejected">>>>
      BY <2>2
    <3> HIDE DEF events, v, a
    <3> QED BY <3>1 DEF Elems
  <2> QED BY <2>1, <2>2
<1>7. Open(next) = {} => handoff = At(next, a).resume
  OBVIOUS
<1> HIDE DEF next, handoff, events, base
<1>8. r.actions = next /\ r.handoff = handoff
  BY <1>3 DEF Row
<1>9. /\ j.pc = "note" /\ j.after = "idle" /\ j.id = a /\ j.events = events
  BY <1>2 DEF Job
<1>10. Update(t, r) /\ Go(w, j) /\ job[w].pc # "note"
  BY <1>1
<1> HIDE DEF m, r, j, t, a, v
<1>11. ASSUME MInv PROVE MInv'
  <2>1. Steady(j) /\ \A s \in Tickets : Held(j, s) = {}
    BY <1>9 DEF Steady, Held, Walking
  <2>2. m \in Copies(t) /\ \A s \in Tickets : Held(j, s) \subseteq Copies(s)
    BY <1>2, <1>3, <1>11, <2>1, ListFacts
  <2>3. /\ DOMAIN r.actions = DOMAIN m
        /\ \A i \in DOMAIN m : /\ r.actions[i].id = m[i].id /\ r.actions[i].resume = m[i].resume
                               /\ \/ r.actions[i].state = m[i].state
                                  \/ /\ r.actions[i].state \in {"approved", "rejected"}
                                     /\ j.id = m[i].id /\ <<m[i].id, r.actions[i].state>> \in Elems(j.events)
    BY <1>3, <1>5, <1>6, <1>8, <1>9
  <2>4. \/ t \in stacked \cup raced \/ m # row[t].actions \/ Open(r.actions) # {}
        \/ r.handoff # "pending_approval"
    <3>1. SUFFICES ASSUME t \notin stacked \cup raced, m = row[t].actions, Open(r.actions) = {}
                   PROVE  r.handoff # "pending_approval"
      OBVIOUS
    <3>2. At(next, a) = next[n]
      <4>1. \A i \in DOMAIN next : next[i].id = a => i = n
        <5>1. \A i \in DOMAIN m : m[i].id = a => i = n
          BY <1>4, <1>11, <2>2, <1>2 DEF MInv, OneHome
        <5> QED BY <1>5, <5>1
      <4>2. n \in DOMAIN next /\ next[n].id = a
        BY <1>4, <1>5
      <4> QED BY <4>1, <4>2 DEF At
    <3>3. n \in Open(row[t].actions)
      <4>1. At(m, a).state = "pending_approval"
        BY <1>1, <1>11, ListFacts DEF Steady, m, a
      <4> QED BY <1>4, <3>1, <4>1 DEF Open
    <3>4. m[n].resume # "pending_approval"
      BY <1>2, <1>11, <3>1, <3>3 DEF MInv, ResumesElsewhere
    <3>5. next[n].resume = m[n].resume
      BY <1>4, <1>5
    <3> QED BY <1>7, <1>8, <3>1, <3>2, <3>4, <3>5
  <2> QED BY <1>1, <1>2, <1>10, <1>11, <2>1, <2>2, <2>3, <2>4, Replaces
<1>12. ASSUME CInv, Alone PROVE CInv'
  <2>1. m = row[t].actions /\ raced' = raced
    <3>1. m = row[t].actions
      BY <1>1, <1>12 DEF CInv, Current, m, t
    <3> QED BY <1>1, <3>1, NotRaced
  <2>2. Current(j, row')
    BY <1>9 DEF Current, Walking
  <2>3. Listing(recent')
    BY <1>2, <1>10, <1>12, ListingKept
  <2> QED BY <1>10, <1>12, <2>1, <2>2, <2>3, Stays
<1> QED BY <1>11, <1>12

LEMMA AppendedList ==
  ASSUME NEW S, NEW as \in Seq(S), NEW new \in S
  PROVE  \E n \in DOMAIN Append(as, new) :
           /\ n \notin DOMAIN as /\ Append(as, new)[n] = new
           /\ DOMAIN as \subseteq DOMAIN Append(as, new)
           /\ \A i \in DOMAIN as : Append(as, new)[i] = as[i]
           /\ \A i \in DOMAIN Append(as, new) : i \in DOMAIN as \/ i = n
<1> DEFINE k == Len(as)
           l == Append(as, new)
<1>1. k \in Nat /\ DOMAIN as = 1 .. k
  BY SeqElements
<1>2. /\ l \in Seq(S) /\ Len(l) = k + 1
      /\ \A i \in 1 .. k : l[i] = as[i]
      /\ l[k + 1] = new
  <2>1. l \in Seq(S) /\ Len(l) = k + 1
    BY AppendProperties
  <2>2. \A i \in 1 .. k : l[i] = as[i]
    BY AppendProperties
  <2>3. l[k + 1] = new
    BY AppendProperties
  <2> QED BY <2>1, <2>2, <2>3
<1> HIDE DEF k, l
<1>3. DOMAIN l = 1 .. (k + 1)
  BY <1>2, SeqElements
<1>4. k + 1 \in DOMAIN l /\ k + 1 \notin DOMAIN as /\ DOMAIN as \subseteq DOMAIN l
      /\ \A i \in DOMAIN l : i \in DOMAIN as \/ i = k + 1
  BY <1>1, <1>3
<1> QED BY <1>1, <1>2, <1>4 DEF l

LEMMA AskWriteMoves ==
  ASSUME AInv, AInv', NEW w \in Workers, AskWrite(w)
  PROVE  (MInv => MInv') /\ (CInv /\ Alone => CInv')
<1> DEFINE t == job[w].on
           m == job[w].found.actions
<1>1. /\ job[w].pc = "append" /\ UNCHANGED <<timeline, cut>>
      /\ stacked' = IF row[t].handoff = "pending_approval" \/ Open(row[t].actions) # {}
                    THEN stacked \cup {t} ELSE stacked
      /\ Races(t, m # row[t].actions \/ job[w].resume # row[t].handoff)
  BY DEF AskWrite
<1>2. /\ job[w] \in Job /\ t \in Tickets /\ job[w].after = "idle" /\ job[w].type \in ActionTypes
      /\ job[w].found \in Row
  BY <1>1, Facts DEF WellFormed
<1>3. m \in Seq(Action) /\ row[t] \in Row /\ m \in Held(job[w], t)
  BY <1>1, <1>2, Facts DEF Row, Held
<1>4. PICK a \in Approvals \ issued :
        LET new == [id |-> a, type |-> job[w].type, state |-> "pending_approval",
                    resume |-> job[w].resume, due |-> job[w].due]
        IN /\ Update(t, [row[t] EXCEPT !.handoff = "pending_approval", !.actions = Append(m, new)])
           /\ Go(w, [job[w] EXCEPT !.pc = "note", !.id = a, !.events = <<<<a, "requested">>>>])
  BY DEF AskWrite
<1> DEFINE new == [id |-> a, type |-> job[w].type, state |-> "pending_approval",
                   resume |-> job[w].resume, due |-> job[w].due]
           as == Append(m, new)
           r == [row[t] EXCEPT !.handoff = "pending_approval", !.actions = as]
           j == [job[w] EXCEPT !.pc = "note", !.id = a, !.events = <<<<a, "requested">>>>]
<1>5. new \in Action /\ new.id = a /\ new.state = "pending_approval" /\ new.resume = job[w].resume
  BY <1>2 DEF Action, State, Job
<1>6. Update(t, r) /\ Go(w, j) /\ job[w].pc # "note"
  BY <1>1, <1>4
<1>7. PICK n \in DOMAIN as :
        /\ n \notin DOMAIN m /\ as[n] = new /\ DOMAIN m \subseteq DOMAIN as
        /\ \A i \in DOMAIN m : as[i] = m[i]
        /\ \A i \in DOMAIN as : i \in DOMAIN m \/ i = n
  <2> HIDE DEF new, m
  <2> QED BY <1>3, <1>5, AppendedList
<1> HIDE DEF as, new
<1>8. r.actions = as
  BY <1>3 DEF Row
<1>9. j.pc = "note" /\ j.after = "idle"
  BY <1>2 DEF Job
<1> HIDE DEF r, j, t, m
<1>10. \A s \in Tickets : row'[s] = IF s = t THEN r ELSE row[s]
  BY <1>2, <1>6, RowWritten
<1>11. /\ raced \subseteq raced'
       /\ t \notin raced' => m = row[t].actions /\ job[w].resume = row[t].handoff
  BY <1>1, <1>2, RacesAdds
<1>12. ASSUME MInv PROVE MInv'
  <2>1. Steady(j) /\ \A s \in Tickets : Held(j, s) = {}
    BY <1>9 DEF Steady, Held, Walking
  <2>2. m \in Copies(t) /\ Passed(w, j)
    BY <1>2, <1>3, <1>6, <1>12, ListFacts, NoEvents DEF Passed
  <2>3. Grown(as, m, a)
    BY <1>5, <1>7 DEF Grown
  <2>4. \A s \in Tickets : row[s].actions \in Copies(s) /\ Grown(row[s].actions, row[s].actions, a)
    BY <1>12, ListFacts DEF Grown
  <2>5. OneHome' /\ Audited' /\ NoneMissing' /\ \A v \in Workers : Steady(job[v])'
    <3>1. \A s \in Tickets \ {t} : row'[s].actions = row[s].actions
      BY <1>10
    <3>2. \A s \in Tickets : \E l \in Copies(s) :
            Grown(row'[s].actions, l, a) /\ (l = row[s].actions \/ s \in raced')
      BY <1>2, <1>8, <1>10, <1>11, <2>2, <2>3, <2>4
    <3>3. (\A s \in Tickets : Held(j, s) \subseteq Copies(s)) /\ a \notin issued
      BY <2>1
    <3> QED BY <1>1, <1>6, <1>11, <1>12, <2>1, <2>2, <3>1, <3>2, <3>3, ListsKeep
  <2>6. ResumesElsewhere'
    <3> SUFFICES ASSUME NEW s \in Tickets, s \notin stacked', s \notin raced', NEW i \in Open(row'[s].actions)
                 PROVE  row'[s].actions[i].resume # "pending_approval"
      BY DEF ResumesElsewhere
    <3>1. s \notin stacked /\ s \notin raced
      BY <1>1, <1>11
    <3>2. CASE s # t
      BY <1>10, <1>12, <3>1, <3>2 DEF MInv, ResumesElsewhere
    <3>3. CASE s = t
      <4>1. /\ row'[s].actions = as /\ m = row[t].actions /\ row[t].handoff # "pending_approval"
            /\ job[w].resume = row[t].handoff
        BY <1>1, <1>8, <1>10, <1>11, <3>3
      <4>2. CASE i = n
        BY <1>5, <1>7, <4>1, <4>2
      <4>3. CASE i # n
        <5>1. i \in DOMAIN m /\ as[i] = m[i] /\ as[i].state = "pending_approval"
          BY <1>7, <4>1, <4>3 DEF Open
        <5>2. i \in Open(row[t].actions)
          BY <4>1, <5>1 DEF Open
        <5> QED BY <1>12, <3>1, <3>3, <4>1, <5>1, <5>2 DEF MInv, ResumesElsewhere
      <4> QED BY <4>2, <4>3
    <3> QED BY <3>2, <3>3
  <2>7. SuspendedWhileOpen'
    <3> SUFFICES ASSUME NEW s \in Tickets, s \notin stacked', s \notin raced', row'[s].handoff = "pending_approval"
                 PROVE  Open(row'[s].actions) # {}
      BY DEF SuspendedWhileOpen
    <3>1. s \notin stacked /\ s \notin raced
      BY <1>1, <1>11
    <3>2. CASE s # t
      BY <1>10, <1>12, <3>1, <3>2 DEF MInv, SuspendedWhileOpen
    <3>3. CASE s = t
      <4>1. n \in Open(row'[s].actions)
        BY <1>5, <1>7, <1>8, <1>10, <3>3 DEF Open
      <4> QED BY <4>1
    <3> QED BY <3>2, <3>3
  <2> QED BY <2>5, <2>6, <2>7 DEF MInv
<1>13. ASSUME CInv, Alone PROVE CInv'
  <2>1. m = row[t].actions /\ job[w].resume = row[t].handoff
    BY <1>1, <1>13 DEF CInv, Current, m, t
  <2>2. raced' = raced
    BY <1>1, <2>1, NotRaced
  <2>3. Current(j, row')
    BY <1>9 DEF Current, Walking
  <2>4. Listing(recent')
    BY <1>2, <1>6, <1>13, ListingKept
  <2> QED BY <1>6, <1>13, <2>2, <2>3, <2>4, Stays
<1> QED BY <1>12, <1>13

LEMMA NextMoves ==
  ASSUME AInv, AInv', [Next]_vars
  PROVE  (MInv => MInv') /\ (CInv /\ Alone => CInv')
<1>1. CASE Tick \/ UNCHANGED vars
  BY <1>1, WaitMoves DEF Tick, vars
<1>2. ASSUME NEW w \in Workers, Start(w) \/ Crash(w) PROVE (MInv => MInv') /\ (CInv /\ Alone => CInv')
  BY <1>2, StartMoves, LeaveMoves
<1>3. ASSUME NEW w \in Workers, Step(w) PROVE (MInv => MInv') /\ (CInv /\ Alone => CInv')
  <2>1. CASE AskContext(w) \/ AskRead(w) \/ AskWrite(w)
    BY <2>1, AskContextMoves, AskReadMoves, AskWriteMoves
  <2>2. CASE Scan(w) \/ Sweep(w) \/ Look(w) \/ Exhausted(w)
    BY <2>2, ScanMoves, SweepMoves, LookMoves, LeaveMoves
  <2>3. CASE Execute(w) \/ Mark(w) \/ Note(w)
    BY <2>3, ExecuteMoves, MarkMoves, NoteMoves
  <2>4. CASE Simple(w) \/ CollabCloseRead(w) \/ CollabClose(w) \/ Refuse(w)
    BY <2>4, SimpleMoves, CollabCloseReadMoves, CollabCloseMoves, LeaveMoves
  <2> QED BY <1>3, <2>1, <2>2, <2>3, <2>4 DEF Step
<1> QED BY <1>1, <1>2, <1>3 DEF Next

-----------------------------------------------------------------------------
(* What a step does to the stored lists, and so to the verdicts.           *)

\* A list that is not written from an outdated copy stays, or it is the only
\* one rewritten and its open approvals whose deadline has passed time out, an
\* open one is decided or a new one is added.
ListStep ==
  \/ /\ \A t \in Tickets \ raced' : row'[t].actions = row[t].actions
     /\ \/ executed' = executed
        \/ \E a \in Approvals, t \in Tickets :
             executed' = executed \cup {a} /\ (t \notin raced' => Has(row[t].actions, a))
  \/ /\ executed' = executed
     /\ \E t \in Tickets :
          /\ \A s \in Tickets \ {t} : row'[s].actions = row[s].actions
          /\ \/ Due(row[t].actions) # {} /\ row'[t].actions = TimedOut(row[t].actions)
             \/ \E a \in Approvals, v \in {"approved", "rejected"} :
                  /\ Has(row[t].actions, a) /\ At(row[t].actions, a).state = "pending_approval"
                  /\ v = "approved" => a \in executed
                  /\ row'[t].actions = Decided(row[t].actions, a, v)
             \/ \E new \in Action :
                  /\ new.id \notin issued /\ new.state = "pending_approval"
                  /\ row'[t].actions = Append(row[t].actions, new)

LEMMA SweepLists ==
  ASSUME MInv, NEW w \in Workers, Sweep(w) PROVE ListStep
<1> DEFINE t == Head(job[w].todo)
           m == job[w].view[t].actions
           handoff == IF Open(TimedOut(m)) = {} THEN LatestDue(m).resume ELSE job[w].view[t].handoff
           r == [row[t] EXCEPT !.handoff = handoff, !.actions = TimedOut(m)]
<1>1. /\ job[w].pc = "sweep" /\ job[w].todo # <<>> /\ Due(m) # {} /\ Update(t, r)
      /\ executed' = executed /\ Races(t, m # row[t].actions)
  BY DEF Sweep, Sweeping, Swept
<1>2. job[w] \in Job /\ job[w].todo \in Seq(Tickets)
  BY ListFacts DEF Job
<1>3. t \in Tickets
  BY <1>1, <1>2, HeadTailProperties
<1>4. row[t] \in Row
  BY <1>3, ListFacts
<1>5. r.actions = TimedOut(m)
  BY <1>4 DEF Row
<1> HIDE DEF r, t, m
<1>6. \A s \in Tickets : row'[s] = IF s = t THEN r ELSE row[s]
  BY <1>1, <1>3, RowWritten DEF MInv
<1>7. m # row[t].actions => t \in raced'
  BY <1>1, <1>3, RacesAdds DEF MInv
<1>8. CASE m = row[t].actions
  BY <1>1, <1>3, <1>5, <1>6, <1>8 DEF ListStep
<1>9. CASE t \in raced'
  BY <1>1, <1>6, <1>9 DEF ListStep
<1> QED BY <1>7, <1>8, <1>9

LEMMA MarkLists ==
  ASSUME MInv, NEW w \in Workers, Mark(w) PROVE ListStep
<1> DEFINE t == job[w].on
           a == job[w].id
           m == job[w].found.actions
           v == IF job[w].cmd = "approve" THEN "approved" ELSE "rejected"
           next == Decided(m, a, v)
           base == IF job[w].cmd = "approve" THEN job[w].result ELSE job[w].found
           handoff == IF Open(next) = {} THEN At(next, a).resume ELSE base.handoff
           r == [row[t] EXCEPT !.handoff = handoff, !.actions = next]
<1>1. /\ job[w].pc = "mark" /\ Update(t, r) /\ executed' = executed /\ Races(t, m # row[t].actions)
  BY DEF Mark
<1>2. /\ t \in Tickets /\ a \in Approvals /\ Has(m, a)
      /\ At(m, a).state = "pending_approval"
      /\ job[w].cmd = "approve" => job[w].result # None
  BY <1>1, ListFacts DEF WellFormed, Steady
<1>3. v \in {"approved", "rejected"} /\ (v = "approved" => a \in executed)
  BY <1>2, Facts DEF MInv
<1>4. row[t] \in Row
  BY <1>2, ListFacts
<1> HIDE DEF next, handoff
<1>5. r.actions = next
  BY <1>4 DEF Row
<1> HIDE DEF r, t, m, a, v
<1>6. \A s \in Tickets : row'[s] = IF s = t THEN r ELSE row[s]
  BY <1>1, <1>2, RowWritten DEF MInv
<1>7. m # row[t].actions => t \in raced'
  BY <1>1, <1>2, RacesAdds DEF MInv
<1>8. CASE m = row[t].actions
  <2>1. /\ \A s \in Tickets \ {t} : row'[s].actions = row[s].actions
        /\ row'[t].actions = Decided(row[t].actions, a, v)
    BY <1>2, <1>5, <1>6, <1>8 DEF next
  <2> QED BY <1>1, <1>2, <1>3, <1>8, <2>1 DEF ListStep
<1>9. CASE t \in raced'
  BY <1>1, <1>6, <1>9 DEF ListStep
<1> QED BY <1>7, <1>8, <1>9

LEMMA AskWriteLists ==
  ASSUME MInv, NEW w \in Workers, AskWrite(w) PROVE ListStep
<1> DEFINE t == job[w].on
           m == job[w].found.actions
<1>1. /\ job[w].pc = "append" /\ executed' = executed
      /\ Races(t, m # row[t].actions \/ job[w].resume # row[t].handoff)
  BY DEF AskWrite
<1>2. job[w] \in Job /\ t \in Tickets /\ job[w].type \in ActionTypes
  BY <1>1, ListFacts DEF WellFormed
<1>3. row[t] \in Row
  BY <1>2, ListFacts
<1>4. PICK a \in Approvals \ issued :
        Update(t, [row[t] EXCEPT
          !.handoff = "pending_approval",
          !.actions = Append(m, [id |-> a, type |-> job[w].type, state |-> "pending_approval",
                                 resume |-> job[w].resume, due |-> job[w].due])])
  BY DEF AskWrite
<1> DEFINE new == [id |-> a, type |-> job[w].type, state |-> "pending_approval",
                   resume |-> job[w].resume, due |-> job[w].due]
           r == [row[t] EXCEPT !.handoff = "pending_approval", !.actions = Append(m, new)]
<1>5. new \in Action /\ new.id \notin issued /\ new.state = "pending_approval"
  BY <1>2 DEF Action, State, Job
<1> HIDE DEF new
<1>6. r.actions = Append(m, new) /\ Update(t, r)
  BY <1>3, <1>4 DEF Row, new
<1> HIDE DEF r, t, m
<1>7. \A s \in Tickets : row'[s] = IF s = t THEN r ELSE row[s]
  BY <1>2, <1>6, RowWritten DEF MInv
<1>8. t \notin raced' => m = row[t].actions
  BY <1>1, <1>2, RacesAdds DEF MInv
<1>9. CASE m = row[t].actions
  BY <1>1, <1>2, <1>5, <1>6, <1>7, <1>9 DEF ListStep
<1>10. CASE t \in raced'
  BY <1>1, <1>7, <1>10 DEF ListStep
<1> QED BY <1>8, <1>9, <1>10

LEMMA NextLists ==
  ASSUME MInv, [Next]_vars PROVE ListStep
<1>1. CASE Tick \/ UNCHANGED vars
  BY <1>1 DEF Tick, vars, ListStep
<1>2. ASSUME NEW w \in Workers, Start(w) \/ Crash(w) PROVE ListStep
  BY <1>2 DEF Start, Crash, ListStep
<1>3. ASSUME NEW w \in Workers, Step(w) PROVE ListStep
  <2>1. CASE UNCHANGED <<row, executed>>
    BY <2>1 DEF ListStep
  <2>2. CASE Simple(w)
    <3> DEFINE t == job[w].on
               r == [row[t] EXCEPT !.status = Goal(job[w], @),
                                   !.handoff = IF job[w].pc = "state" THEN "claimed" ELSE @]
    <3>1. Update(t, r) /\ executed' = executed /\ t \in Tickets
      BY <2>2, ListFacts DEF Simple, history, WellFormed
    <3>2. r.actions = row[t].actions
      BY <3>1, ListFacts DEF Row
    <3> HIDE DEF r
    <3>3. \A s \in Tickets : row'[s].actions = row[s].actions
      BY <3>1, <3>2, RowWritten DEF MInv
    <3> QED BY <3>1, <3>3 DEF ListStep
  <2>3. CASE Execute(w)
    <3> DEFINE t == job[w].on
               r == [row[t] EXCEPT !.status = Goal(job[w], @),
                                   !.handoff = IF Goal(job[w], "open") = "escalated"
                                               THEN "requested" ELSE @]
    <3>1. /\ Update(t, r) /\ executed' = executed \cup {job[w].id} /\ raced' = raced
          /\ t \in Tickets /\ job[w].id \in Approvals /\ Has(job[w].found.actions, job[w].id)
          /\ job[w].pc = "execute"
      BY <2>3, ListFacts DEF Execute, WellFormed
    <3>2. r.actions = row[t].actions
      BY <3>1, ListFacts DEF Row
    <3> HIDE DEF r
    <3>3. \A s \in Tickets : row'[s].actions = row[s].actions
      BY <3>1, <3>2, RowWritten DEF MInv
    <3>4. ASSUME t \notin raced' PROVE Has(row[t].actions, job[w].id)
      <4>1. job[w].found.actions \in Copies(t)
        BY <3>1, ListFacts DEF Held
      <4>2. PICK i \in DOMAIN job[w].found.actions : job[w].found.actions[i].id = job[w].id
        BY <3>1 DEF Has
      <4>3. Has(row[t].actions, job[w].found.actions[i].id)
        BY <3>1, <3>4, <4>1 DEF MInv, NoneMissing
      <4> QED BY <4>2, <4>3
    <3> QED BY <3>1, <3>3, <3>4 DEF ListStep
  <2>4. CASE CollabClose(w)
    <3> DEFINE t == job[w].on
               m == job[w].found.actions
               r == [status |-> "closed", handoff |-> "completed", actions |-> m]
    <3>1. /\ Update(t, r) /\ executed' = executed /\ t \in Tickets
          /\ Races(t, m # row[t].actions)
      BY <2>4, ListFacts DEF CollabClose, WellFormed
    <3>2. r.actions = m
      OBVIOUS
    <3> HIDE DEF r, m, t
    <3>3. \A s \in Tickets : row'[s] = IF s = t THEN r ELSE row[s]
      BY <3>1, RowWritten DEF MInv
    <3>4. m = row[t].actions \/ t \in raced'
      BY <3>1, RacesAdds DEF MInv
    <3>5. \A s \in Tickets \ raced' : row'[s].actions = row[s].actions
      BY <3>2, <3>3, <3>4
    <3> QED BY <3>1, <3>5 DEF ListStep
  <2>5. CASE AskContext(w) \/ AskRead(w) \/ Scan(w) \/ Look(w) \/ Exhausted(w) \/ Note(w)
             \/ CollabCloseRead(w) \/ Refuse(w)
    BY <2>1, <2>5
       DEF AskContext, AskRead, Scan, Look, Exhausted, Note, CollabCloseRead, Refuse, history
  <2> QED BY <1>3, <2>2, <2>3, <2>4, <2>5, SweepLists, MarkLists, AskWriteLists DEF Step
<1> QED BY <1>1, <1>2, <1>3 DEF Next

\* An approval that is stored nowhere is added to one list: what is given, and
\* what follows.
Adds(rows, next, t, new) ==
  /\ Unambiguous(rows) /\ rows[t].actions \in Seq(Action) /\ new \in Action
  /\ \A s \in Tickets \ {t} : next[s].actions = rows[s].actions
  /\ next[t].actions = Append(rows[t].actions, new)
  /\ \A s \in Tickets : \A i \in DOMAIN rows[s].actions : rows[s].actions[i].id # new.id

Added(rows, next, t, new) ==
  /\ Unambiguous(next)
  /\ VerdictIn(next, new.id) = new.state
  /\ \A a : a # new.id => VerdictIn(next, a) = VerdictIn(rows, a)
  /\ DOMAIN rows[t].actions \subseteq DOMAIN next[t].actions
  /\ \A i \in DOMAIN rows[t].actions : next[t].actions[i] = rows[t].actions[i]
  /\ \E m \in DOMAIN next[t].actions : /\ next[t].actions[m] = new
                                       /\ \A i \in DOMAIN next[t].actions :
                                            i \in DOMAIN rows[t].actions \/ i = m

LEMMA Appended ==
  ASSUME NEW rows, NEW next, NEW t \in Tickets, NEW new, Adds(rows, next, t, new)
  PROVE  Added(rows, next, t, new)
<1> USE DEF Adds
<1> DEFINE m == Len(rows[t].actions) + 1
<1>1. /\ m \in Nat /\ DOMAIN rows[t].actions = 1 .. (m - 1)
      /\ DOMAIN next[t].actions = 1 .. m
      /\ \A i \in 1 .. (m - 1) : next[t].actions[i] = rows[t].actions[i]
      /\ next[t].actions[m] = new
  BY AppendProperties
<1> HIDE DEF m
<1>2. /\ DOMAIN rows[t].actions \subseteq DOMAIN next[t].actions /\ m \in DOMAIN next[t].actions
      /\ \A i \in DOMAIN next[t].actions : i \in DOMAIN rows[t].actions \/ i = m
  BY <1>1
<1>3. Unambiguous(next)
  <2> SUFFICES ASSUME NEW u \in Tickets, NEW s \in Tickets,
                      NEW i \in DOMAIN next[u].actions, NEW k \in DOMAIN next[s].actions,
                      next[u].actions[i].id = next[s].actions[k].id
               PROVE  u = s /\ i = k
    BY DEF Unambiguous
  <2>1. \A x \in Tickets : \A l \in DOMAIN next[x].actions :
          \/ x = t /\ l = m
          \/ l \in DOMAIN rows[x].actions /\ next[x].actions[l] = rows[x].actions[l]
    BY <1>1, <1>2
  <2>2. next[u].actions[i].id = new.id => u = t /\ i = m
    BY <2>1
  <2>3. next[s].actions[k].id = new.id => s = t /\ k = m
    BY <2>1
  <2>4. CASE next[u].actions[i].id = new.id
    BY <2>2, <2>3, <2>4
  <2>5. CASE next[u].actions[i].id # new.id
    <3>1. i \in DOMAIN rows[u].actions /\ k \in DOMAIN rows[s].actions
          /\ rows[u].actions[i].id = rows[s].actions[k].id
      BY <1>1, <2>1, <2>5
    <3> QED BY <3>1 DEF Unambiguous
  <2> QED BY <2>4, <2>5
<1>4. VerdictIn(next, new.id) = new.state
  BY <1>1, <1>2, <1>3, Stored
<1>5. ASSUME NEW a, a # new.id PROVE VerdictIn(next, a) = VerdictIn(rows, a)
  <2>1. CASE \E s \in Tickets : \E i \in DOMAIN rows[s].actions : rows[s].actions[i].id = a
    <3>0. PICK s \in Tickets : \E i \in DOMAIN rows[s].actions : rows[s].actions[i].id = a
      BY <2>1
    <3>1. PICK i \in DOMAIN rows[s].actions : rows[s].actions[i].id = a
      BY <3>0
    <3>2. VerdictIn(rows, a) = rows[s].actions[i].state
      BY <3>1, Stored
    <3>3. i \in DOMAIN next[s].actions /\ next[s].actions[i] = rows[s].actions[i]
      BY <1>1, <1>2
    <3>4. VerdictIn(next, next[s].actions[i].id) = next[s].actions[i].state
      BY <1>3, <3>3, Stored
    <3> QED BY <3>1, <3>2, <3>3, <3>4
  <2>2. CASE \A s \in Tickets : \A i \in DOMAIN rows[s].actions : rows[s].actions[i].id # a
    <3>1. VerdictIn(rows, a) = "none"
      BY <2>2, NotStored
    <3>2. \A s \in Tickets : \A i \in DOMAIN next[s].actions : next[s].actions[i].id # a
      <4> SUFFICES ASSUME NEW s \in Tickets, NEW i \in DOMAIN next[s].actions
                   PROVE  next[s].actions[i].id # a
        OBVIOUS
      <4>1. CASE s # t
        BY <2>2, <4>1
      <4>2. CASE s = t /\ i \in DOMAIN rows[t].actions
        BY <1>1, <2>2, <4>2
      <4>3. CASE s = t /\ i = m
        BY <1>1, <1>5, <4>3
      <4> QED BY <1>2, <4>1, <4>2, <4>3
    <3>3. VerdictIn(next, a) = "none"
      BY <3>2, NotStored
    <3> QED BY <3>1, <3>3
  <2> QED BY <2>1, <2>2
<1> QED BY <1>1, <1>2, <1>3, <1>4, <1>5 DEF Added

\* What it does to one approval of a list not written from an outdated copy.
LEMMA StepDecides ==
  ASSUME MInv, ListStep, NEW t \in Tickets, t \notin raced', NEW i \in DOMAIN row[t].actions
  PROVE  /\ i \in DOMAIN row'[t].actions /\ row'[t].actions[i].id = row[t].actions[i].id
         /\ \/ row'[t].actions[i].state = row[t].actions[i].state
            \/ /\ row[t].actions[i].state = "pending_approval"
               /\ row'[t].actions[i].state = "approved" => row'[t].actions[i].id \in executed
<1>1. row[t].actions \in Seq(Action)
  <2>1. row[t] \in Row
    BY DEF MInv, AInv, TypeOK
  <2> QED BY <2>1 DEF Row
<1>2. CASE row'[t].actions = row[t].actions
  BY <1>2
<1>3. CASE row'[t].actions = TimedOut(row[t].actions)
  <2>1. i \in Due(row[t].actions) => row[t].actions[i].state = "pending_approval"
    BY DEF Due, Open
  <2>2. i \in DOMAIN row'[t].actions
    BY <1>1, <1>3, TimedOutList
  <2> QED BY <1>1, <1>3, <2>1, <2>2, TimedOutAt
<1>4. ASSUME NEW a \in Approvals, NEW v \in {"approved", "rejected"}, Has(row[t].actions, a),
             At(row[t].actions, a).state = "pending_approval", v = "approved" => a \in executed,
             row'[t].actions = Decided(row[t].actions, a, v)
      PROVE  /\ i \in DOMAIN row'[t].actions /\ row'[t].actions[i].id = row[t].actions[i].id
             /\ \/ row'[t].actions[i].state = row[t].actions[i].state
                \/ /\ row[t].actions[i].state = "pending_approval"
                   /\ row'[t].actions[i].state = "approved" => row'[t].actions[i].id \in executed
  <2>1. v \in State
    BY DEF State
  <2>2. /\ i \in DOMAIN row'[t].actions /\ row'[t].actions[i].id = row[t].actions[i].id
        /\ row'[t].actions[i].state = IF row[t].actions[i].id = a THEN v ELSE row[t].actions[i].state
    BY <1>1, <1>4, <2>1, DecidedList, DecidedAt
  <2>3. ASSUME row[t].actions[i].id = a PROVE row[t].actions[i].state = "pending_approval"
    <3>1. \A k \in DOMAIN row[t].actions : row[t].actions[k].id = a => k = i
      BY <2>3, RowsUnambiguous DEF Unambiguous
    <3>2. At(row[t].actions, a) = row[t].actions[i]
      BY <2>3, <3>1 DEF At
    <3> QED BY <1>4, <3>2
  <2> QED BY <1>4, <2>2, <2>3
<1>5. ASSUME NEW new \in Action, row'[t].actions = Append(row[t].actions, new)
      PROVE  i \in DOMAIN row'[t].actions /\ row'[t].actions[i] = row[t].actions[i]
  BY <1>1, <1>5, AppendedList
<1> QED BY <1>2, <1>3, <1>4, <1>5 DEF ListStep

\* What a step does to the verdicts: nothing, or a step of the abstract
\* lifecycle of one approval, or of those that time out together.
VerdictsKept == \A a \in Approvals : Verdict(a)' = Verdict(a)

Lived ==
  \/ VerdictsKept /\ executed' = executed
  \/ \E a \in Approvals : VerdictsKept /\ Verdict(a) # "none" /\ executed' = executed \cup {a}
  \/ \E a \in Approvals :
       /\ Verdict(a) = "none" /\ executed' = executed
       /\ \A b \in Approvals : Verdict(b)' = IF b = a THEN "pending_approval" ELSE Verdict(b)
  \/ \E a \in Approvals, v \in {"approved", "rejected"} :
       /\ Verdict(a) = "pending_approval" /\ (v = "approved" => a \in executed) /\ executed' = executed
       /\ \A b \in Approvals : Verdict(b)' = IF b = a THEN v ELSE Verdict(b)
  \/ \E as \in SUBSET Approvals :
       /\ as # {} /\ (\A a \in as : Verdict(a) = "pending_approval") /\ executed' = executed
       /\ \A a \in Approvals : Verdict(a)' = IF a \in as THEN "timeout" ELSE Verdict(a)

\* The verdicts when one list is rewritten with the same approvals in it.
LEMMA VerdictsRewritten ==
  ASSUME MInv, NEW t \in Tickets, \A s \in Tickets \ {t} : row'[s].actions = row[s].actions,
         DOMAIN row'[t].actions = DOMAIN row[t].actions,
         \A i \in DOMAIN row[t].actions : row'[t].actions[i].id = row[t].actions[i].id
  PROVE  /\ \A i \in DOMAIN row[t].actions :
              /\ Verdict(row[t].actions[i].id) = row[t].actions[i].state
              /\ VerdictIn(row', row[t].actions[i].id) = row'[t].actions[i].state
         /\ \A a : (\A i \in DOMAIN row[t].actions : row[t].actions[i].id # a) => Verdict(a)' = Verdict(a)
<1>1. Unambiguous(row)
  BY RowsUnambiguous
<1>2. /\ \A i \in DOMAIN row[t].actions :
           VerdictIn(row', row[t].actions[i].id) = row'[t].actions[i].state
      /\ \A a : (\A i \in DOMAIN row[t].actions : row[t].actions[i].id # a)
                  => VerdictIn(row', a) = VerdictIn(row, a)
  BY <1>1, Rewritten
<1>3. \A i \in DOMAIN row[t].actions :
        VerdictIn(row, row[t].actions[i].id) = row[t].actions[i].state
  BY <1>1, Stored
<1>4. ASSUME NEW a, \A i \in DOMAIN row[t].actions : row[t].actions[i].id # a
      PROVE  Verdict(a)' = Verdict(a)
  BY <1>2, <1>4, VerdictByRows
<1>5. ASSUME NEW i \in DOMAIN row[t].actions
      PROVE  Verdict(row[t].actions[i].id) = row[t].actions[i].state
  BY <1>3 DEF Verdict, VerdictIn
<1> QED BY <1>2, <1>4, <1>5

LEMMA TimeOutLives ==
  ASSUME MInv, NEW t \in Tickets, \A s \in Tickets \ {t} : row'[s].actions = row[s].actions,
         Due(row[t].actions) # {}, row'[t].actions = TimedOut(row[t].actions), executed' = executed
  PROVE  Lived
<1> DEFINE due == Due(row[t].actions)
           as == {row[t].actions[i].id : i \in due}
<1>1. row[t].actions \in Seq(Action)
  <2>1. row[t] \in Row
    BY DEF MInv, AInv, TypeOK
  <2> QED BY <2>1 DEF Row
<1>2. /\ DOMAIN row'[t].actions = DOMAIN row[t].actions
      /\ \A i \in DOMAIN row[t].actions :
           /\ row'[t].actions[i].id = row[t].actions[i].id
           /\ row'[t].actions[i].state = IF i \in due THEN "timeout" ELSE row[t].actions[i].state
  BY <1>1, TimedOutList, TimedOutAt
<1>3. due \subseteq DOMAIN row[t].actions
      /\ \A i \in due : row[t].actions[i].state = "pending_approval"
  BY DEF Due, Open
<1>4. due # {}
  OBVIOUS
<1> HIDE DEF due
<1>5. /\ \A i \in DOMAIN row[t].actions :
           /\ Verdict(row[t].actions[i].id) = row[t].actions[i].state
           /\ VerdictIn(row', row[t].actions[i].id) = row'[t].actions[i].state
      /\ \A a : (\A i \in DOMAIN row[t].actions : row[t].actions[i].id # a) => Verdict(a)' = Verdict(a)
  BY <1>2, VerdictsRewritten
<1>6. as \in SUBSET Approvals /\ as # {}
  <2>1. \A i \in DOMAIN row[t].actions : row[t].actions[i] \in Action
    BY <1>1, SeqElements
  <2> QED BY <1>3, <1>4, <2>1 DEF Action
<1>7. \A a \in as : Verdict(a) = "pending_approval"
  BY <1>3, <1>5
<1>8. ASSUME NEW a \in Approvals PROVE Verdict(a)' = IF a \in as THEN "timeout" ELSE Verdict(a)
  <2>1. CASE \E i \in DOMAIN row[t].actions : row[t].actions[i].id = a
    <3>1. PICK i \in DOMAIN row[t].actions : row[t].actions[i].id = a
      BY <2>1
    <3>2. a \in as <=> i \in due
      <4>1. \A k \in DOMAIN row[t].actions : row[t].actions[k].id = a => k = i
        BY <3>1, RowsUnambiguous DEF Unambiguous
      <4> QED BY <1>3, <3>1, <4>1
    <3>3. VerdictIn(row', a) = row'[t].actions[i].state /\ Verdict(a) = row[t].actions[i].state
      BY <1>5, <3>1
    <3>4. row'[t].actions[i].state = IF i \in due THEN "timeout" ELSE row[t].actions[i].state
      BY <1>2, <3>1
    <3> QED BY <3>2, <3>3, <3>4, VerdictByRows
  <2>2. CASE \A i \in DOMAIN row[t].actions : row[t].actions[i].id # a
    <3>1. a \notin as
      BY <1>3, <2>2
    <3> QED BY <1>5, <2>2, <3>1
  <2> QED BY <2>1, <2>2
<1> HIDE DEF as
<1> QED BY <1>6, <1>7, <1>8 DEF Lived

LEMMA DecisionLives ==
  ASSUME MInv, NEW t \in Tickets, \A s \in Tickets \ {t} : row'[s].actions = row[s].actions,
         NEW a \in Approvals, NEW v \in {"approved", "rejected"}, Has(row[t].actions, a),
         At(row[t].actions, a).state = "pending_approval", v = "approved" => a \in executed,
         row'[t].actions = Decided(row[t].actions, a, v), executed' = executed
  PROVE  Lived
<1>1. row[t].actions \in Seq(Action)
  <2>1. row[t] \in Row
    BY DEF MInv, AInv, TypeOK
  <2> QED BY <2>1 DEF Row
<1>2. PICK n \in DOMAIN row[t].actions : row[t].actions[n].id = a
                                         /\ row[t].actions[n].state = "pending_approval"
  BY DEF Has, At
<1>3. \A i \in DOMAIN row[t].actions : row[t].actions[i].id = a <=> i = n
  BY <1>2, RowsUnambiguous DEF Unambiguous
<1>4. /\ DOMAIN row'[t].actions = DOMAIN row[t].actions
      /\ \A i \in DOMAIN row[t].actions :
           /\ row'[t].actions[i].id = row[t].actions[i].id
           /\ row'[t].actions[i].state = IF row[t].actions[i].id = a THEN v ELSE row[t].actions[i].state
  <2>1. v \in State
    BY DEF State
  <2> QED BY <1>1, <2>1, DecidedList, DecidedAt
<1>5. /\ \A i \in DOMAIN row[t].actions :
           /\ Verdict(row[t].actions[i].id) = row[t].actions[i].state
           /\ VerdictIn(row', row[t].actions[i].id) = row'[t].actions[i].state
      /\ \A b : (\A i \in DOMAIN row[t].actions : row[t].actions[i].id # b) => Verdict(b)' = Verdict(b)
  BY <1>4, VerdictsRewritten
<1>6. Verdict(a) = "pending_approval"
  BY <1>2, <1>5
<1>7. ASSUME NEW b \in Approvals PROVE Verdict(b)' = IF b = a THEN v ELSE Verdict(b)
  <2>1. CASE \E i \in DOMAIN row[t].actions : row[t].actions[i].id = b
    <3>1. PICK i \in DOMAIN row[t].actions : row[t].actions[i].id = b
      BY <2>1
    <3>2. VerdictIn(row', b) = row'[t].actions[i].state /\ Verdict(b) = row[t].actions[i].state
      BY <1>5, <3>1
    <3> QED BY <1>4, <3>1, <3>2, VerdictByRows
  <2>2. CASE \A i \in DOMAIN row[t].actions : row[t].actions[i].id # b
    BY <1>2, <1>5, <2>2
  <2> QED BY <2>1, <2>2
<1> QED BY <1>6, <1>7 DEF Lived

LEMMA AskingLives ==
  ASSUME MInv, NEW t \in Tickets, \A s \in Tickets \ {t} : row'[s].actions = row[s].actions,
         NEW new \in Action, new.id \notin issued, new.state = "pending_approval",
         row'[t].actions = Append(row[t].actions, new), executed' = executed
  PROVE  Lived
<1>1. row[t].actions \in Seq(Action)
  <2>1. row[t] \in Row
    BY DEF MInv, AInv, TypeOK
  <2> QED BY <2>1 DEF Row
<1>2. \A s \in Tickets : \A i \in DOMAIN row[s].actions : row[s].actions[i].id # new.id
  <2>1. \A s \in Tickets : row[s].actions \in Copies(s)
    BY DEF Copies
  <2> QED BY <2>1, CopiesIssued
<1>3. Added(row, row', t, new)
  <2>1. Unambiguous(row)
    BY RowsUnambiguous
  <2>2. Adds(row, row', t, new)
    BY <1>1, <1>2, <2>1 DEF Adds
  <2> QED BY <2>2, Appended
<1>4. Verdict(new.id) = "none" /\ Verdict(new.id)' = "pending_approval"
  <2>1. VerdictIn(row, new.id) = "none"
    BY <1>2, NotStored
  <2> QED BY <1>3, <2>1, VerdictByRows DEF Added
<1>5. \A b : b # new.id => Verdict(b)' = Verdict(b)
  BY <1>3, VerdictByRows DEF Added
<1>6. new.id \in Approvals
  BY DEF Action
<1> QED BY <1>4, <1>5, <1>6 DEF Lived

LEMMA StepLives ==
  ASSUME MInv, ListStep, raced' = {} PROVE Lived
<1>1. CASE \A t \in Tickets : row'[t].actions = row[t].actions
  <2>1. VerdictsKept
    BY <1>1, RowsUnambiguous, Unwritten, VerdictByRows DEF VerdictsKept
  <2>2. ASSUME NEW a \in Approvals, NEW t \in Tickets, Has(row[t].actions, a) PROVE Verdict(a) # "none"
    <3>1. PICK i \in DOMAIN row[t].actions : row[t].actions[i].id = a
      BY <2>2 DEF Has
    <3>2. Verdict(a) = row[t].actions[i].state
      BY <3>1, RowsUnambiguous, Stored, VerdictByRows
    <3>3. row[t].actions[i] \in Action
      <4>1. row[t] \in Row
        BY DEF MInv, AInv, TypeOK
      <4>2. row[t].actions \in Seq(Action)
        BY <4>1 DEF Row
      <4> QED BY <3>1, <4>2, SeqElements
    <3> QED BY <3>2, <3>3 DEF Action, State
  <2>3. CASE executed' = executed
    BY <2>1, <2>3 DEF Lived
  <2>4. CASE \E a \in Approvals, t \in Tickets :
               executed' = executed \cup {a} /\ (t \notin raced' => Has(row[t].actions, a))
    BY <2>1, <2>2, <2>4 DEF Lived
  <2>5. executed' = executed \/ \E a \in Approvals, t \in Tickets :
          executed' = executed \cup {a} /\ (t \notin raced' => Has(row[t].actions, a))
    BY DEF ListStep
  <2> QED BY <2>3, <2>4, <2>5
<1>2. CASE ~ \A t \in Tickets : row'[t].actions = row[t].actions
  BY <1>2, TimeOutLives, DecisionLives, AskingLives DEF ListStep
<1> QED BY <1>1, <1>2

-----------------------------------------------------------------------------
(* The theorems about the lists.                                           *)

LEMMA InitLists == Init => MInv /\ CInv
<1> SUFFICES ASSUME Init PROVE MInv /\ CInv
  OBVIOUS
<1>1. AInv
  BY InitInv
<1>2. \A t \in Tickets : row[t].actions = <<>> /\ row[t].handoff = "none"
  BY DEF Init
<1>3. \A w \in Workers : job[w] = Idle
  BY DEF Init
<1>4. \A t \in Tickets : Copies(t) \subseteq {<<>>}
  BY <1>2, <1>3 DEF Copies, Held, Walking, Idle
<1>5. OneHome /\ Audited /\ NoneMissing
  BY <1>4 DEF OneHome, Audited, NoneMissing
<1>6. ResumesElsewhere /\ SuspendedWhileOpen
  BY <1>2 DEF ResumesElsewhere, SuspendedWhileOpen, Open
<1>7. \A w \in Workers : Steady(job[w]) /\ Current(job[w], row)
  BY <1>3 DEF Steady, Current, Idle, Walking
<1>8. Listing(recent) /\ NeverRaced
  BY DEF Init, Listing, NeverRaced
<1> QED BY <1>1, <1>5, <1>6, <1>7, <1>8 DEF MInv, CInv

\* The lists and all their copies agree on whose approvals they are and on the
\* decisions told of, whatever requests overlap (MInv).
THEOREM ListsInvariance == Spec => []MInv
<1>1. Init => MInv
  BY InitLists
<1>2. ASSUME MInv, [Next]_vars PROVE MInv'
  <2>1. AInv /\ AInv'
    BY <1>2, NextKeeps DEF MInv
  <2> QED BY <1>2, <2>1, NextMoves
<1> QED BY <1>1, <1>2, PTL DEF Spec

\* A ticket that was never asked about twice and never written from an outdated
\* copy is suspended no longer than its approval is open (restore of
\* handoff_state in mark_* and _apply_timeouts), whatever requests overlap.
THEOREM SuspensionEnds == Spec => []SuspendedWhileOpen
<1>1. MInv => SuspendedWhileOpen
  BY DEF MInv
<1> QED BY ListsInvariance, <1>1, PTL

\* Each decision of a person is in the timeline once the request is over
\* (_record_event), unless it was cut off, whatever requests overlap.
THEOREM DecisionsAreAudited == Spec => []DecisionAudited
<1>1. ASSUME MInv PROVE DecisionAudited
  <2> SUFFICES ASSUME NEW a \in Approvals \ cut, Verdict(a) \in {"approved", "rejected"},
                      \A w \in Workers : job[w].id # a
               PROVE  <<a, Verdict(a)>> \in timeline
    BY DEF DecisionAudited
  <2>1. \E t \in Tickets : \E i \in DOMAIN row[t].actions : row[t].actions[i].id = a
    BY NotStored, VerdictByRows
  <2>2. PICK t \in Tickets : \E i \in DOMAIN row[t].actions : row[t].actions[i].id = a
    BY <2>1
  <2>3. PICK i \in DOMAIN row[t].actions : row[t].actions[i].id = a
    BY <2>2
  <2>4. Verdict(a) = row[t].actions[i].state
    BY <1>1, <2>3, RowsUnambiguous, Stored, VerdictByRows
  <2>5. row[t].actions \in Copies(t)
    BY DEF Copies
  <2>6. Told(row[t].actions[i])
    BY <1>1, <2>5 DEF MInv, Audited
  <2> QED BY <2>3, <2>4, <2>6 DEF Told, ToldBy
<1> QED BY ListsInvariance, <1>1, PTL

\* Whatever requests overlap, a list written only from current copies loses no
\* approval and decides none twice (mark_approved, mark_rejected and
\* _apply_timeouts look at the state they replace).
THEOREM DecisionsAreFinal == Spec => DecidedOnce
<1>1. ASSUME MInv, [Next]_vars
      PROVE  \A t \in Tickets \ raced' : \A i \in DOMAIN row[t].actions :
               LET old == row[t].actions[i]
                   new == row'[t].actions[i] IN
               /\ i \in DOMAIN row'[t].actions /\ new.id = old.id
               /\ \/ new.state = old.state
                  \/ old.state = "pending_approval" /\ (new.state = "approved" => new.id \in executed)
  <2>1. ListStep
    BY <1>1, NextLists
  <2> QED BY <1>1, <2>1, StepDecides
<1> QED BY ListsInvariance, <1>1, PTL DEF Spec, DecidedOnce

\* With requests one at a time, cut off anywhere, no request writes from an
\* outdated copy, though it holds copies over its own writes.
THEOREM CopiesStayCurrent == ASSUME Alone PROVE Spec => []NeverRaced
<1>1. Init => CInv
  BY InitLists
<1>2. ASSUME CInv, [Next]_vars PROVE CInv'
  <2>1. AInv /\ AInv'
    BY <1>2, NextKeeps DEF CInv
  <2> QED BY <1>2, <2>1, NextMoves
<1>3. CInv => NeverRaced
  BY DEF CInv
<1> QED BY <1>1, <1>2, <1>3, PTL DEF Spec

\* Whatever requests overlap: as long as none writes from an outdated copy, the
\* lists in the metadata implement the lifecycle, asked once, decided at most
\* once, approved only when executed, nothing brought back or lost by the
\* rewriting of the lists.
THEOREM CurrentCopiesGoTheirWay == Spec /\ []NeverRaced => LifecycleImplemented
<1> DEFINE verdict == [a \in Approvals |-> Verdict(a)]
<1>1. Init => Lifecycle!Init
  <2> SUFFICES ASSUME Init PROVE Lifecycle!Init
    OBVIOUS
  <2>1. \A a : Verdict(a) = "none"
    BY NotStored, VerdictByRows DEF Init
  <2> QED BY <2>1 DEF Init, Lifecycle!Init
<1>2. ASSUME MInv, NeverRaced', [Next]_vars PROVE [Lifecycle!Next]_(Lifecycle!vars)
  <2>1. Lived
    BY <1>2, NextLists, StepLives DEF NeverRaced
  <2>2. CASE VerdictsKept /\ executed' = executed
    BY <2>2 DEF VerdictsKept, Lifecycle!vars
  <2>3. ASSUME NEW a \in Approvals, VerdictsKept, Verdict(a) # "none", executed' = executed \cup {a}
        PROVE  Lifecycle!Execute(a)
    BY <2>3 DEF VerdictsKept, Lifecycle!Execute
  <2>4. ASSUME NEW a \in Approvals, Verdict(a) = "none", executed' = executed,
               \A b \in Approvals : Verdict(b)' = IF b = a THEN "pending_approval" ELSE Verdict(b)
        PROVE  Lifecycle!Ask(a)
    BY <2>4 DEF Lifecycle!Ask
  <2>5. ASSUME NEW a \in Approvals, Verdict(a) = "pending_approval", a \in executed, executed' = executed,
               \A b \in Approvals : Verdict(b)' = IF b = a THEN "approved" ELSE Verdict(b)
        PROVE  Lifecycle!Approve(a)
    BY <2>5 DEF Lifecycle!Approve
  <2>6. ASSUME NEW a \in Approvals, Verdict(a) = "pending_approval", executed' = executed,
               \A b \in Approvals : Verdict(b)' = IF b = a THEN "rejected" ELSE Verdict(b)
        PROVE  Lifecycle!Reject(a)
    BY <2>6 DEF Lifecycle!Reject
  <2>7. ASSUME NEW as \in SUBSET Approvals, as # {}, \A a \in as : Verdict(a) = "pending_approval",
               executed' = executed,
               \A a \in Approvals : Verdict(a)' = IF a \in as THEN "timeout" ELSE Verdict(a)
        PROVE  Lifecycle!TimeOut(as)
    BY <2>7 DEF Lifecycle!TimeOut
  <2> QED BY <2>1, <2>2, <2>3, <2>4, <2>5, <2>6, <2>7 DEF Lived, Lifecycle!Next
<1> QED BY ListsInvariance, <1>1, <1>2, PTL DEF Spec, LifecycleImplemented, Lifecycle!Spec

\* With requests one at a time, the lists implement the lifecycle.
THEOREM ApprovalsGoTheirWay == ASSUME Alone PROVE Spec => LifecycleImplemented
<1>1. Spec => []NeverRaced
  BY CopiesStayCurrent
<1> QED BY <1>1, CurrentCopiesGoTheirWay, PTL
=============================================================================
