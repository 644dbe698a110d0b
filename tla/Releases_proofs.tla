--------------------------- MODULE Releases_proofs ---------------------------
(***************************************************************************)
(* Theorems about Releases and the Migrations below it: for any number of  *)
(* processes and of scripts, deployments and rollbacks, killed anywhere.   *)
(*                                                                         *)
(* The argument has three parts.  The schema: as long as no rollback of a  *)
(* migration, and no restored database, comes in the way of a process at   *)
(* work, and no rollback is cut (Orderly), the migrations on record are    *)
(* the first ones, each whole, and those who migrate are at one of these   *)
(* or at the next, where one of them at most adds the columns; as long as  *)
(* nothing at all happened (Untouched), there is not a column too many.    *)
(* The shelf: what a snapshot holds is what was copied, or it was deleted, *)
(* and every release the state file or a script knows has been copied.     *)
(* The ledger: the fold of the history, which is computed by induction.    *)
(***************************************************************************)
EXTENDS Releases, SequenceTheorems, WellFoundedInduction, TLAPS

Orderly == causes \cap {"crossed", "cut rollback"} = {}
Untouched == causes \subseteq {"restore"}

AtWork(w) == w.pc \in {"up", "record", "unrecord"}
Migrating(w) == w.pc \in {"up", "record"}
Adding(w) == w.pc = "up" /\ w.next > 1

\* The migrations on record are the first ones in their order, and whole but
\* for the one that is being taken back.
Sound(d, taken) ==
  /\ \A i \in 1 .. Len(d.applied) : d.applied[i] = i
  /\ \A m \in 1 .. Len(d.applied) : m = taken \/ Whole(d, m)

\* No columns of migrations that are not on record.
Bare(d, n) == n > Len(d.applied) => d.columns[n] = 0

\* What a process at work on the database d does.
Doing(w, d) ==
  /\ Migrating(w) => /\ w.at \in Ids /\ w.known = 1 .. w.at - 1
                     /\ w.at <= Len(d.applied) + 1
                     /\ Sound(d, 0)
  /\ w.pc = "up" => w.next <= Columns[w.at] \/ Columns[w.at] = 0
  /\ Adding(w) => d.columns[w.at] = w.next - 1
  /\ w.pc = "record" => Whole(d, w.at)
  /\ w.pc = "unrecord" => w.at = Len(d.applied) /\ w.at # 0 /\ Sound(d, w.at)

Sane ==
  /\ \A p, q \in Processes :
       \/ proc[p].pc = "unrecord" /\ AtWork(proc[q])
       \/ Adding(proc[p]) /\ Adding(proc[q]) /\ proc[p].at = proc[q].at
       => p = q
  /\ \A p \in Processes : Doing(proc[p], db)
  /\ (\A p \in Processes : proc[p].pc # "unrecord") => Sound(db, 0)
  /\ \A i \in Seconds : snapshots[i].db # None => Sound(snapshots[i].db, 0)

Pristine ==
  /\ ~failed
  /\ \A p, q \in Processes : AtWork(proc[p]) /\ AtWork(proc[q]) => p = q
  /\ \A p \in Processes : /\ proc[p].pc # "unrecord"
                          /\ Migrating(proc[p]) => proc[p].at = Len(db.applied) + 1
                          /\ proc[p].pc = "up" => db.columns[proc[p].at] = proc[p].next - 1
  /\ \A n \in Ids : \/ Bare(db, n)
                    \/ \E p \in Processes : Migrating(proc[p]) /\ proc[p].at = n
  /\ \A i \in Seconds : snapshots[i].db # None => \A n \in Ids : Bare(snapshots[i].db, n)

Schema ==
  /\ proc[Operator].pc # "unrecord"
  /\ Orderly => Sane
  /\ Untouched => Pristine

\* A release the state file or a script knows.
Filed(r) == r # None => /\ before[r.id].db # None
                        /\ r.log => r.id \in shared \/ before[r.id].log > 0
Other(r, id) == r # None => r.id # id

Undid(u) ==
  /\ before[u.id].db # None
  /\ u.id \notin shared => /\ u.back.db = before[u.id].db
                           /\ u.log => u.back.log = before[u.id].log

\* A snapshot holds what was copied, or was deleted.
Copies == \A i \in Seconds : /\ snapshots[i].db \in {None, before[i].db}
                             /\ snapshots[i].log \in {0, before[i].log}
                             /\ i \notin cleaned => snapshots[i] = before[i]

\* What a script at o has done and knows.
Holds(o) ==
  /\ Filed(o.read.active) /\ Filed(o.read.previous)
  /\ o.pc \in {"copy log", "load", "save deploy"} => before[o.id].db # None
  /\ o.pc = "copy log" /\ o.id \notin shared =>
       /\ Other(file.active, o.id) /\ Other(file.previous, o.id)
       /\ Other(o.read.active, o.id) /\ Other(o.read.previous, o.id)
       /\ \A u \in undone : u.id # o.id
  /\ o.pc \in {"restore db", "restore log", "save rollback"} =>
       o.read.active # None /\ o.read.active.id = o.id
  /\ o.pc = "restore log" /\ ~o.missing /\ o.id \notin shared => o.back.db = before[o.id].db
  /\ o.pc = "save rollback" /\ o.id \notin shared =>
       /\ o.back.db = before[o.id].db
       /\ o.read.active.log => o.back.log = before[o.id].log

Shelf == /\ Copies
         /\ Filed(file.active) /\ Filed(file.previous)
         /\ \A u \in undone : Undid(u)
         /\ Holds(op)

\* A script is in the middle of a change of the state it has read, and the entry
\* it has still to write is one of the scripts run.
Changing(o) == o.pc \in {"save deploy", "restore db", "restore log", "save rollback"}
Ledger == /\ Len(file.history) <= ops
          /\ ~On("rest") => Len(file.history) + 1 <= ops
          /\ Changing(op) => op.read = [file EXCEPT !.torn = FALSE]
          /\ HistoryReplays

RInv == TypeOK /\ Schema /\ Shelf /\ Ledger

-----------------------------------------------------------------------------
(* Migrations and their order.                                             *)

LEMMA Scripts ==
  /\ Len(Table) \in Nat \ {0} /\ Ids = 1 .. Len(Table) /\ Columns \in [Ids -> Nat]
  /\ \A m \in Ids : (Table[m] = None) <=> (Columns[m] > 0)
  /\ \A m, n \in Ids : Table[m] = Table[n] /\ Table[m] # None => m = n
  /\ \A n \in Ids : Columns[n] > 0 => \E m \in 1 .. n - 1 : Table[m] = "tickets"
  /\ None # "tickets" /\ None \notin DbType
BY ScriptsAssumption, TablesAssumption, NoneAssumption DEF Ids

\* A set of numbers that is not empty has a least.
LEMMA Least ==
  ASSUME NEW T \in SUBSET Nat, T # {}
  PROVE  \E x \in T : \A y \in T : x <= y
<1> DEFINE R == OpToRel(<, Nat)
<1>1. IsWellFoundedOn(R, Nat)
  BY NatLessThanWellFounded
<1>2. \A x, y \in Nat : <<x, y>> \in R <=> x < y
  BY DEF OpToRel
<1> HIDE DEF R
<1>3. PICK x \in T : \A y \in T : ~(<<y, x>> \in R)
  BY <1>1, WFMin
<1>4. ASSUME NEW y \in T PROVE x <= y
  <2>1. x \in Nat /\ y \in Nat /\ ~(y < x)
    BY <1>2, <1>3
  <2> QED BY <2>1
<1> QED BY <1>4

\* apply_all goes on with the least that is left.
LEMMA PendingIsLeast ==
  ASSUME NEW known \in SUBSET Ids
  PROVE  \/ known = Ids /\ Pending(known) = 0
         \/ /\ Pending(known) \in Ids \ known
            /\ \A n \in Ids \ known : Pending(known) <= n
<1> DEFINE left == Ids \ known
<1>1. CASE left = {}
  BY <1>1 DEF Pending
<1>2. CASE left # {}
  <2>1. left \in SUBSET Nat
    BY Scripts
  <2>2. \E m \in left : \A n \in left : m <= n
    BY <1>2, <2>1, Least
  <2>3. Pending(known) = CHOOSE m \in left : \A n \in left : m <= n
    BY <1>2 DEF Pending
  <2> HIDE DEF left
  <2>4. Pending(known) \in left /\ \A n \in left : Pending(known) <= n
    BY <2>2, <2>3
  <2> QED BY <2>4 DEF left
<1> QED BY <1>1, <1>2

LEMMA PendingType ==
  ASSUME NEW known \in SUBSET Ids
  PROVE  Pending(known) \in Ids \cup {0} /\ (Pending(known) = 0 <=> known = Ids)
<1>1. 0 \notin Ids
  BY Scripts
<1> QED BY <1>1, PendingIsLeast

\* After the first n, that is the next one.
LEMMA PendingIsNext ==
  ASSUME NEW n \in Nat, 1 .. n \subseteq Ids
  PROVE  Pending(1 .. n) = 0 \/ (Pending(1 .. n) = n + 1 /\ n + 1 \in Ids)
<1> DEFINE m == Pending(1 .. n)
<1>1. \/ m = 0
      \/ m \in Ids \ (1 .. n) /\ \A k \in Ids \ (1 .. n) : m <= k
  BY PendingIsLeast
<1> HIDE DEF m
<1>2. CASE m \in Ids \ (1 .. n) /\ \A k \in Ids \ (1 .. n) : m <= k
  <2>1. m \in 1 .. Len(Table) /\ m > n /\ Len(Table) \in Nat
    BY <1>2, Scripts
  <2>2. n + 1 \in Ids \ (1 .. n)
    BY <2>1, Scripts
  <2>3. m <= n + 1
    BY <1>2, <2>2
  <2> QED BY <2>1, <2>2, <2>3 DEF m
<1> QED BY <1>1, <1>2 DEF m

\* What a sound database has on record.
LEMMA OnRecord ==
  ASSUME NEW d \in DbType, NEW taken, Sound(d, taken)
  PROVE  /\ Len(d.applied) \in Nat /\ Recorded(d) = 1 .. Len(d.applied)
         /\ Recorded(d) \subseteq Ids
<1>1. d.applied \in Seq(Ids)
  BY DEF DbType
<1>2. Len(d.applied) \in Nat
  BY <1>1, LenProperties
<1>3. \A i \in 1 .. Len(d.applied) : d.applied[i] = i /\ d.applied[i] \in Ids
  BY <1>1, ElementOfSeq DEF Sound
<1> QED BY <1>2, <1>3 DEF Recorded

LEMMA RecordedType ==
  ASSUME NEW d \in DbType PROVE Recorded(d) \subseteq Ids
<1>1. d.applied \in Seq(Ids)
  BY DEF DbType
<1> QED BY <1>1, ElementOfSeq DEF Recorded

\* What is said of a database does not depend on its rows.
LEMMA RowsDoNotMatter ==
  ASSUME NEW d, NEW e, e.tables = d.tables, e.columns = d.columns, e.applied = d.applied
  PROVE  /\ \A taken : Sound(e, taken) <=> Sound(d, taken)
         /\ \A n : Bare(e, n) <=> Bare(d, n)
         /\ \A w : Doing(w, e) <=> Doing(w, d)
BY DEF Sound, Bare, Doing, Whole, Adding

-----------------------------------------------------------------------------
(* The schema: the two ways it is kept.                                    *)

LEMMA OrderlyIf == Untouched => Orderly
BY DEF Untouched, Orderly

\* A process takes a step of its own and disturbs no other.
LEMMA Works ==
  ASSUME TypeOK, Schema, NEW p \in Processes, NEW w,
         proc' = [proc EXCEPT ![p] = w], snapshots' = snapshots,
         p = Operator => w.pc # "unrecord",
         Orderly' => /\ Orderly /\ \A q \in Processes \ {p} : proc[q].pc # "unrecord"
                     /\ \A q \in Processes \ {p} : Doing(proc[q], db')
                     /\ Doing(w, db') /\ (w.pc = "unrecord" \/ Sound(db', 0))
                     /\ w.pc = "unrecord" => \A q \in Processes \ {p} : ~AtWork(proc[q])
                     /\ Adding(w) => \A q \in Processes \ {p} : ~(Adding(proc[q]) /\ proc[q].at = w.at),
         Untouched' => /\ Untouched /\ ~failed' /\ w.pc # "unrecord"
                       /\ \A q \in Processes \ {p} : ~AtWork(proc[q])
                       /\ Migrating(w) => w.at = Len(db'.applied) + 1
                       /\ w.pc = "up" => db'.columns[w.at] = w.next - 1
                       /\ \A n \in Ids : Bare(db', n) \/ (Migrating(w) /\ w.at = n)
  PROVE  Schema'
<1>1. proc \in [Processes -> ProcType] /\ Operator \in Processes
  BY OperatorAssumption DEF TypeOK, MigrationsTypeOK
<1>2. proc'[p] = w /\ \A q \in Processes \ {p} : proc'[q] = proc[q]
  BY <1>1
<1>3. proc'[Operator].pc # "unrecord"
  BY <1>1, <1>2 DEF Schema
<1>4. ASSUME Orderly' PROVE Sane'
  <2>1. Sane
    BY <1>4 DEF Schema
  <2>2. ASSUME NEW a \in Processes, NEW b \in Processes, proc'[a].pc = "unrecord", AtWork(proc'[b])
        PROVE  a = b
    BY <1>2, <1>4, <2>2
  <2>3. ASSUME NEW a \in Processes, NEW b \in Processes, Adding(proc'[a]), Adding(proc'[b]),
               proc'[a].at = proc'[b].at
        PROVE  a = b
    BY <1>2, <1>4, <2>1, <2>3 DEF Sane
  <2>4. \A q \in Processes : Doing(proc'[q], db')
    BY <1>2, <1>4
  <2>5. (\A q \in Processes : proc'[q].pc # "unrecord") => Sound(db', 0)
    BY <1>2, <1>4
  <2> QED BY <2>1, <2>2, <2>3, <2>4, <2>5 DEF Sane
<1>5. ASSUME Untouched' PROVE Pristine'
  <2>1. Pristine
    BY <1>5 DEF Schema
  <2>2. \A q \in Processes \ {p} : ~AtWork(proc'[q])
    BY <1>2, <1>5
  <2>3. \A q \in Processes : /\ proc'[q].pc # "unrecord"
                             /\ Migrating(proc'[q]) => proc'[q].at = Len(db'.applied) + 1
                             /\ proc'[q].pc = "up" => db'.columns[proc'[q].at] = proc'[q].next - 1
    BY <1>2, <1>5, <2>2 DEF AtWork, Migrating
  <2>4. \A n \in Ids : \/ Bare(db', n)
                       \/ \E q \in Processes : Migrating(proc'[q]) /\ proc'[q].at = n
    BY <1>2, <1>5
  <2> QED BY <1>5, <2>1, <2>2, <2>3, <2>4 DEF Pristine
<1> QED BY <1>3, <1>4, <1>5 DEF Schema

\* A process ends, and the database is left as it is.
LEMMA Ends ==
  ASSUME TypeOK, Schema, NEW p \in Processes, NEW w,
         proc' = [proc EXCEPT ![p] = w], UNCHANGED <<db, failed, snapshots>>,
         causes \subseteq causes', ~AtWork(w),
         proc[p].pc = "unrecord" => ~Orderly', AtWork(proc[p]) => ~Untouched'
  PROVE  Schema'
<1>1. proc \in [Processes -> ProcType] /\ Operator \in Processes
  BY OperatorAssumption DEF TypeOK, MigrationsTypeOK
<1>2. proc'[p] = w /\ \A q \in Processes \ {p} : proc'[q] = proc[q]
  BY <1>1
<1>3. proc'[Operator].pc # "unrecord"
  BY <1>1, <1>2 DEF Schema, AtWork
<1>4. ASSUME Orderly' PROVE Sane'
  <2>1. Sane
    BY <1>4 DEF Schema, Orderly
  <2>2. \A a, b \in Processes :
          \/ proc'[a].pc = "unrecord" /\ AtWork(proc'[b])
          \/ Adding(proc'[a]) /\ Adding(proc'[b]) /\ proc'[a].at = proc'[b].at
          => a = b
    BY <1>2, <2>1 DEF Sane, AtWork, Adding
  <2>3. \A q \in Processes : Doing(proc'[q], db)
    BY <1>2, <2>1 DEF Doing, AtWork, Migrating, Adding, Sane
  <2>4. (\A q \in Processes : proc'[q].pc # "unrecord") => Sound(db, 0)
    BY <1>2, <1>4, <2>1 DEF Sane
  <2> QED BY <2>1, <2>2, <2>3, <2>4 DEF Sane
<1>5. ASSUME Untouched' PROVE Pristine'
  <2>1. Pristine /\ ~AtWork(proc[p])
    BY <1>5 DEF Schema, Untouched
  <2>2. \A q \in Processes : /\ proc'[q].pc # "unrecord"
                             /\ Migrating(proc'[q]) => proc'[q].at = Len(db.applied) + 1
                             /\ proc'[q].pc = "up" => db.columns[proc'[q].at] = proc'[q].next - 1
    BY <1>2, <2>1 DEF AtWork, Migrating, Pristine
  <2>3. \A n \in Ids : \/ Bare(db, n)
                       \/ \E q \in Processes : Migrating(proc'[q]) /\ proc'[q].at = n
    BY <1>2, <2>1 DEF AtWork, Migrating, Pristine
  <2>4. \A a, b \in Processes : AtWork(proc'[a]) /\ AtWork(proc'[b]) => a = b
    BY <1>2, <2>1 DEF Pristine
  <2> QED BY <1>5, <2>1, <2>2, <2>3, <2>4 DEF Pristine
<1> QED BY <1>3, <1>4, <1>5 DEF Schema

\* No process and no script touches the schema.
LEMMA Rests ==
  ASSUME TypeOK, Schema, UNCHANGED <<proc, failed, causes>>,
         db'.tables = db.tables, db'.columns = db.columns, db'.applied = db.applied,
         \A i \in Seconds : snapshots'[i].db \in {None, snapshots[i].db}
  PROVE  Schema'
<1>1. /\ \A taken : Sound(db', taken) <=> Sound(db, taken)
      /\ \A n : Bare(db', n) <=> Bare(db, n)
      /\ \A w : Doing(w, db') <=> Doing(w, db)
  BY RowsDoNotMatter
<1>2. ASSUME Orderly' PROVE Sane'
  <2>1. Sane
    BY <1>2 DEF Schema, Orderly
  <2> QED BY <1>1, <2>1 DEF Sane
<1>3. ASSUME Untouched' PROVE Pristine'
  <2>1. Pristine
    BY <1>3 DEF Schema, Untouched
  <2> QED BY <1>1, <2>1 DEF Pristine
<1> QED BY <1>2, <1>3 DEF Schema

-----------------------------------------------------------------------------
(* The schema: step by step.                                               *)

LEMMA Facts ==
  ASSUME TypeOK, NEW p \in Processes
  PROVE  /\ proc[p] \in ProcType /\ proc[p].known \subseteq Ids
         /\ proc[p].at \in Ids \cup {0} /\ proc[p].next \in Nat /\ proc[p].next # 0
         /\ db \in DbType /\ db.applied \in Seq(Ids) /\ Len(db.applied) \in Nat
         /\ db.columns \in [Ids -> Nat] /\ causes \subseteq Causes
<1>1. db \in DbType /\ proc[p] \in ProcType /\ causes \subseteq Causes
  BY DEF TypeOK, MigrationsTypeOK
<1>2. db.applied \in Seq(Ids) /\ db.columns \in [Ids -> Nat]
  BY <1>1 DEF DbType
<1>3. Len(db.applied) \in Nat
  BY <1>2, LenProperties
<1> QED BY <1>1, <1>2, <1>3 DEF ProcType

LEMMA MeetsNone ==
  ASSUME NEW p
  PROVE  /\ "crossed" \notin Meets(p) => \A q \in Processes \ {p} : proc[q].pc # "unrecord"
         /\ Meets(p) = {} => \A q \in Processes \ {p} : ~AtWork(proc[q])
         /\ Meets(p) \subseteq {"crossed", "overlap"}
BY DEF Meets, Busy, AtWork, At

LEMMA CrossesNone ==
  ASSUME NEW p
  PROVE  /\ "crossed" \notin Crosses(p) => \A q \in Processes \ {p} : ~AtWork(proc[q])
         /\ Crosses(p) \subseteq {"crossed"}
BY DEF Crosses, Busy, AtWork

\* Who migrates goes on as before when the database has only grown.
LEMMA GoesOn ==
  ASSUME NEW w, NEW d, NEW e, Doing(w, d), w.pc # "unrecord", Sound(e, 0),
         d.tables \subseteq e.tables, e.columns = d.columns,
         w.at \in Nat, Len(d.applied) \in Nat, Len(e.applied) \in Nat,
         Len(d.applied) <= Len(e.applied)
  PROVE  Doing(w, e)
<1>1. \A m : Whole(d, m) => Whole(e, m)
  BY DEF Whole
<1>2. w.at <= Len(d.applied) + 1 => w.at <= Len(e.applied) + 1
  OBVIOUS
<1> QED BY <1>1, <1>2 DEF Doing, Migrating, Adding

LEMMA StartSchema ==
  ASSUME TypeOK, Schema, NEW p \in Processes, Start(p), snapshots' = snapshots
  PROVE  Schema'
<1> DEFINE known == Known(db)
           m == Pending(known)
           w == [Off EXCEPT !.pc = IF m = 0 THEN "ready" ELSE "up", !.known = known, !.at = m]
           n == Len(db.applied)
<1>1. /\ proc' = [proc EXCEPT ![p] = w] /\ causes' = causes \cup Meets(p)
      /\ UNCHANGED <<db, failed>> /\ proc[p].pc = "off"
  BY DEF Start, At
<1>2. /\ w.pc = (IF m = 0 THEN "ready" ELSE "up") /\ w.known = known /\ w.at = m /\ w.next = 1
  BY DEF Off
<1>3. n \in Nat /\ db \in DbType
  BY Facts
<1> HIDE DEF w
<1>4. ASSUME Orderly'
      PROVE  /\ Orderly /\ \A q \in Processes \ {p} : proc[q].pc # "unrecord"
             /\ \A q \in Processes \ {p} : Doing(proc[q], db)
             /\ Doing(w, db) /\ Sound(db, 0) /\ ~Adding(w)
             /\ m # 0 => m = n + 1 /\ m \in Ids
  <2>1. Orderly /\ "crossed" \notin Meets(p)
    BY <1>1, <1>4 DEF Orderly
  <2>2. \A q \in Processes \ {p} : proc[q].pc # "unrecord"
    BY <2>1, MeetsNone
  <2>3. Sound(db, 0) /\ \A q \in Processes : Doing(proc[q], db)
    BY <1>1, <2>1, <2>2 DEF Schema, Sane
  <2>4. known = 1 .. n /\ 1 .. n \subseteq Ids
    BY <1>3, <2>3, OnRecord DEF Known
  <2>5. m # 0 => m = n + 1 /\ m \in Ids
    BY <1>3, <2>4, PendingIsNext
  <2>6. m # 0 => 1 <= Columns[m] \/ Columns[m] = 0
    <3>1. \A i \in Ids : 1 <= Columns[i] \/ Columns[i] = 0
      BY Scripts
    <3> QED BY <2>5, <3>1
  <2>7. ~Adding(w)
    BY <1>2 DEF Adding
  <2>8. m # 0 => m - 1 = n /\ m <= n + 1
    BY <1>3, <2>5
  <2> HIDE DEF m
  <2>9. Doing(w, db)
    BY <1>2, <2>3, <2>4, <2>5, <2>6, <2>7, <2>8 DEF Doing, Migrating
  <2> QED BY <2>1, <2>2, <2>3, <2>5, <2>7, <2>9
<1>5. ASSUME Untouched'
      PROVE  /\ Untouched /\ ~failed /\ \A q \in Processes \ {p} : ~AtWork(proc[q])
             /\ Migrating(w) => w.at = n + 1
             /\ w.pc = "up" => db.columns[w.at] = w.next - 1
             /\ \A i \in Ids : Bare(db, i)
  <2>1. Untouched /\ Orderly' /\ Meets(p) = {}
    BY <1>1, <1>5, MeetsNone DEF Untouched, Orderly
  <2>2. Pristine /\ \A q \in Processes \ {p} : ~AtWork(proc[q])
    BY <2>1, MeetsNone DEF Schema
  <2>3. \A q \in Processes : ~Migrating(proc[q])
    BY <1>1, <2>2 DEF AtWork, Migrating
  <2>4. \A i \in Ids : Bare(db, i)
    BY <2>2, <2>3 DEF Pristine
  <2>5. w.pc = "up" => db.columns[w.at] = 0
    BY <1>2, <1>3, <1>4, <2>1, <2>4 DEF Bare
  <2>6. Migrating(w) => w.at = n + 1
    BY <1>2, <1>4, <2>1 DEF Migrating
  <2> QED BY <1>2, <2>1, <2>2, <2>4, <2>5, <2>6 DEF Pristine
<1>6. w.pc # "unrecord"
  BY <1>2
<1>7. db' = db /\ (p = Operator => w.pc # "unrecord")
  BY <1>1, <1>6
<1>8. failed' = failed /\ snapshots' = snapshots /\ proc' = [proc EXCEPT ![p] = w]
  BY <1>1
<1> HIDE DEF m, known, w
<1> QED BY <1>4, <1>5, <1>6, <1>7, <1>8, Works

\* What there is to say of one that is at work, and of the others.
LEMMA Working ==
  ASSUME TypeOK, Schema, NEW p \in Processes, AtWork(proc[p]), Orderly
  PROVE  /\ \A q \in Processes \ {p} : proc[q].pc # "unrecord"
         /\ \A q \in Processes : Doing(proc[q], db)
         /\ proc[p].pc = "unrecord" => \A q \in Processes \ {p} : ~AtWork(proc[q])
         /\ Adding(proc[p]) =>
              \A q \in Processes \ {p} : ~(Adding(proc[q]) /\ proc[q].at = proc[p].at)
         /\ Untouched => \A q \in Processes \ {p} : ~AtWork(proc[q])
<1>1. Sane /\ (Untouched => Pristine)
  BY DEF Schema
<1>2. (\A q \in Processes \ {p} : proc[q].pc # "unrecord") /\ (\A q \in Processes : Doing(proc[q], db))
  BY <1>1 DEF Sane
<1>3. proc[p].pc = "unrecord" => \A q \in Processes \ {p} : ~AtWork(proc[q])
  BY <1>1 DEF Sane
<1>4. Adding(proc[p]) => \A q \in Processes \ {p} : ~(Adding(proc[q]) /\ proc[q].at = proc[p].at)
  BY <1>1 DEF Sane
<1>5. Untouched => \A q \in Processes \ {p} : ~AtWork(proc[q])
  BY <1>1 DEF Pristine
<1> QED BY <1>2, <1>3, <1>4, <1>5

\* The table or the columns a script adds to are there, and new to it.
LEMMA NothingInTheWay ==
  ASSUME TypeOK, Schema, NEW p \in Processes, proc[p].pc = "up", Untouched,
         Columns[proc[p].at] # 0
  PROVE  "tickets" \in db.tables /\ db.columns[proc[p].at] < proc[p].next
<1> DEFINE m == proc[p].at
<1>1. Doing(proc[p], db) /\ Pristine
  BY Working, OrderlyIf DEF AtWork, Schema
<1>2. m \in Ids /\ m = Len(db.applied) + 1 /\ Sound(db, 0)
  BY <1>1 DEF Doing, Migrating, Pristine
<1>3. db.columns[m] = proc[p].next - 1 /\ proc[p].next \in Nat
  BY <1>1, Facts DEF Pristine
<1>4. PICK t \in 1 .. m - 1 : Table[t] = "tickets"
  BY <1>2, Scripts
<1>5. t \in 1 .. Len(db.applied) /\ t \in Ids
  BY <1>2, Facts, Scripts
<1>6. Whole(db, t) /\ ~(Columns[t] > 0)
  <2>1. Whole(db, t)
    BY <1>2, <1>5, Scripts DEF Sound
  <2> QED BY <1>4, <1>5, <2>1, Scripts
<1>7. "tickets" \in db.tables
  BY <1>4, <1>6 DEF Whole
<1>8. db.columns[m] < proc[p].next
  BY <1>3
<1> QED BY <1>7, <1>8

\* A process that fails leaves the schema in order; where nothing happened,
\* none does.
LEMMA RaiseSchema ==
  ASSUME TypeOK, Schema, NEW p \in Processes, Migrating(proc[p]), Raise(p), ~Untouched,
         UNCHANGED <<causes, snapshots>>
  PROVE  Schema'
<1> DEFINE w == [proc[p] EXCEPT !.pc = "failed"]
<1>1. /\ proc' = [proc EXCEPT ![p] = w] /\ db' = db
  BY DEF Raise, Goto
<1>2. w.pc = "failed"
  BY Facts DEF ProcType
<1> HIDE DEF w
<1>3. ASSUME Orderly'
      PROVE  /\ Orderly /\ \A q \in Processes \ {p} : proc[q].pc # "unrecord"
             /\ \A q \in Processes \ {p} : Doing(proc[q], db)
             /\ Doing(w, db) /\ Sound(db, 0) /\ ~Adding(w)
  <2>1. Orderly /\ AtWork(proc[p])
    BY <1>3 DEF Orderly, AtWork, Migrating
  <2>2. /\ \A q \in Processes \ {p} : proc[q].pc # "unrecord"
        /\ \A q \in Processes : Doing(proc[q], db)
    BY <2>1, Working
  <2>3. Sound(db, 0) /\ Doing(w, db) /\ ~Adding(w)
    BY <1>2, <2>2 DEF Doing, Migrating, Adding
  <2> QED BY <2>1, <2>2, <2>3
<1>4. ~Untouched'
  BY DEF Untouched
<1> QED BY <1>1, <1>2, <1>3, <1>4, Works

LEMMA CreateTableSchema ==
  ASSUME TypeOK, Schema, NEW p \in Processes, proc[p].pc = "up", Columns[proc[p].at] = 0,
         CreateTable(p, proc[p].at), UNCHANGED <<causes, snapshots>>
  PROVE  Schema'
<1> DEFINE w == [proc[p] EXCEPT !.pc = "record"]
           m == proc[p].at
<1>1. /\ proc' = [proc EXCEPT ![p] = w] /\ failed' = failed
      /\ db' = [db EXCEPT !.tables = @ \cup {Table[m]}]
  BY DEF CreateTable, Goto
<1>2. /\ db'.tables = db.tables \cup {Table[m]} /\ db'.columns = db.columns
      /\ db'.applied = db.applied
  BY <1>1, Facts DEF DbType
<1>3. /\ w.pc = "record" /\ w.at = m /\ w.known = proc[p].known /\ w.next = proc[p].next
  BY Facts DEF ProcType
<1> HIDE DEF w
<1>4. ASSUME Orderly'
      PROVE  /\ Orderly /\ \A q \in Processes \ {p} : proc[q].pc # "unrecord"
             /\ \A q \in Processes \ {p} : Doing(proc[q], db')
             /\ Doing(w, db') /\ Sound(db', 0) /\ ~Adding(w)
  <2>1. Orderly
    BY <1>4 DEF Orderly
  <2>2. /\ \A q \in Processes \ {p} : proc[q].pc # "unrecord"
        /\ \A q \in Processes : Doing(proc[q], db)
    BY <2>1, Working DEF AtWork
  <2>3. /\ Sound(db, 0) /\ m \in Ids
        /\ proc[p].known = 1 .. m - 1 /\ m <= Len(db.applied) + 1
    BY <2>2 DEF Doing, Migrating
  <2>4. \A i \in Ids : Whole(db, i) => Whole(db', i)
    BY <1>2 DEF Whole
  <2>5. Whole(db', m)
    BY <1>2 DEF Whole
  <2>6. Sound(db', 0)
    <3>1. \A i \in 1 .. Len(db.applied) : i \in Ids
      BY <2>3, Facts, OnRecord
    <3> QED BY <1>2, <2>3, <2>4, <3>1 DEF Sound
  <2>7. ~Adding(w)
    BY <1>3 DEF Adding
  <2>8. Doing(w, db')
    BY <1>2, <1>3, <2>3, <2>5, <2>6, <2>7 DEF Doing, Migrating
  <2>9. ASSUME NEW q \in Processes \ {p} PROVE Doing(proc[q], db')
    <3>1. proc[q].at \in Nat /\ Len(db.applied) \in Nat
      BY Facts, Scripts
    <3>2. db.tables \subseteq db'.tables /\ Len(db.applied) <= Len(db'.applied)
      BY <1>2, <3>1
    <3> QED BY <1>2, <2>2, <2>6, <3>1, <3>2, GoesOn
  <2> QED BY <2>1, <2>2, <2>6, <2>7, <2>8, <2>9
<1>5. ASSUME Untouched'
      PROVE  /\ Untouched /\ ~failed' /\ \A q \in Processes \ {p} : ~AtWork(proc[q])
             /\ w.at = Len(db'.applied) + 1
             /\ \A n \in Ids : Bare(db', n) \/ (Migrating(w) /\ w.at = n)
  <2>1. Untouched
    BY <1>5 DEF Untouched
  <2>2. Pristine /\ \A q \in Processes \ {p} : ~AtWork(proc[q])
    BY <2>1, OrderlyIf, Working DEF Schema, AtWork
  <2>3. \A n \in Ids : Bare(db, n) \/ m = n
    BY <2>2 DEF Pristine, AtWork, Migrating
  <2>4. m = Len(db'.applied) + 1
    BY <1>2, <2>2 DEF Pristine, Migrating
  <2> QED BY <1>1, <1>2, <1>3, <2>1, <2>2, <2>3, <2>4 DEF Pristine, Bare, Migrating
<1> QED BY <1>1, <1>3, <1>4, <1>5, Works

LEMMA AddColumnSchema ==
  ASSUME TypeOK, Schema, NEW p \in Processes, proc[p].pc = "up", Columns[proc[p].at] # 0,
         AddColumn(p, proc[p].at), UNCHANGED <<causes, snapshots>>
  PROVE  Schema'
<1> DEFINE m == proc[p].at
           k == proc[p].next
           w == [proc[p] EXCEPT !.next = k + 1, !.pc = IF k = Columns[m] THEN "record" ELSE "up"]
<1>1. CASE Raise(p)
  <2>1. CASE Untouched
    <3>1. "tickets" \in db.tables /\ db.columns[m] < k
      BY <2>1, NothingInTheWay
    <3>2. ~(db.columns[m] >= k)
      <4>1. m \in Ids /\ k \in Nat /\ db.columns[m] \in Nat
        <5>1. m \in Ids
          BY <2>1, OrderlyIf, Working DEF AtWork, Doing, Migrating
        <5> QED BY <5>1, Facts
      <4> QED BY <3>1, <4>1
    <3>3. db' # db \/ proc'[p].pc # "failed"
      <4>1. proc' = [proc EXCEPT ![p].next = k + 1,
                                 ![p].pc = IF k = Columns[m] THEN "record" ELSE "up"]
        BY <3>1, <3>2 DEF AddColumn
      <4>2. proc'[p].pc \in {"record", "up"}
        BY <4>1, Facts DEF ProcType, TypeOK, MigrationsTypeOK
      <4> QED BY <4>2
    <3>4. proc'[p].pc = "failed" /\ db' = db
      BY <1>1, Facts DEF Raise, Goto, ProcType, TypeOK, MigrationsTypeOK
    <3> QED BY <3>3, <3>4
  <2>2. CASE ~Untouched
    BY <1>1, <2>2, RaiseSchema DEF Migrating
  <2> QED BY <2>1, <2>2
<1>2. CASE ~Raise(p)
  <2>1. /\ proc' = [proc EXCEPT ![p] = w] /\ failed' = failed
        /\ db' = [db EXCEPT !.columns[m] = k]
    BY <1>2 DEF AddColumn
  <2>2. /\ db'.tables = db.tables /\ db'.columns = [db.columns EXCEPT ![m] = k]
        /\ db'.applied = db.applied
    BY <2>1, Facts DEF DbType
  <2>3. /\ w.pc = (IF k = Columns[m] THEN "record" ELSE "up") /\ w.at = m
        /\ w.known = proc[p].known /\ w.next = k + 1
    BY Facts DEF ProcType
  <2>4. k \in Nat /\ k # 0 /\ Len(db.applied) \in Nat /\ db.columns \in [Ids -> Nat]
    BY Facts
  <2> HIDE DEF w
  <2>5. ASSUME Orderly'
        PROVE  /\ Orderly /\ \A q \in Processes \ {p} : proc[q].pc # "unrecord"
               /\ \A q \in Processes \ {p} : Doing(proc[q], db')
               /\ \A q \in Processes \ {p} : ~(Adding(proc[q]) /\ proc[q].at = m)
               /\ Doing(w, db') /\ Sound(db', 0) /\ m \in Ids
    <3>1. Orderly
      BY <2>5 DEF Orderly
    <3>2. /\ \A q \in Processes \ {p} : proc[q].pc # "unrecord"
          /\ \A q \in Processes : Doing(proc[q], db)
          /\ Adding(proc[p]) =>
               \A q \in Processes \ {p} : ~(Adding(proc[q]) /\ proc[q].at = m)
      BY <3>1, Working DEF AtWork
    <3>3. /\ Sound(db, 0) /\ m \in Ids /\ k <= Columns[m] /\ Columns[m] \in Nat
          /\ proc[p].known = 1 .. m - 1 /\ m <= Len(db.applied) + 1
      BY <3>2, Scripts DEF Doing, Migrating
    <3>4. db.columns[m] < k
      BY <1>2, <2>4, <3>3 DEF AddColumn
    <3>5. \A q \in Processes \ {p} : ~(Adding(proc[q]) /\ proc[q].at = m)
      <4>1. CASE k = 1
        <5>1. ASSUME NEW q \in Processes, Adding(proc[q]), proc[q].at = m PROVE FALSE
          <6>1. db.columns[m] = proc[q].next - 1 /\ proc[q].next > 1 /\ proc[q].next \in Nat
            BY <3>2, <5>1, Facts DEF Doing, Adding
          <6> QED BY <2>4, <3>3, <3>4, <4>1, <6>1
        <5> QED BY <5>1
      <4>2. CASE k # 1
        BY <2>4, <3>2, <4>2 DEF Adding
      <4> QED BY <4>1, <4>2
    <3>6. ~Whole(db, m)
      BY <2>4, <3>3, <3>4 DEF Whole
    <3>7. \A i \in Ids \ {m} : Whole(db, i) => Whole(db', i)
      BY <2>2, <2>4 DEF Whole
    <3>8. Sound(db', 0)
      <4>1. \A i \in 1 .. Len(db.applied) : i \in Ids /\ i # m
        BY <2>4, <3>3, <3>6, Facts, OnRecord DEF Sound
      <4>2. db'.applied = db.applied /\ \A i \in 1 .. Len(db.applied) : db.applied[i] = i
        BY <2>2, <3>3 DEF Sound
      <4>3. \A i \in 1 .. Len(db.applied) : i = 0 \/ Whole(db', i)
        BY <3>3, <3>7, <4>1 DEF Sound
      <4> QED BY <4>2, <4>3 DEF Sound
    <3>9. ASSUME NEW q \in Processes \ {p} PROVE Doing(proc[q], db')
      <4>1. Doing(proc[q], db) /\ proc[q].pc # "unrecord" /\ ~(Adding(proc[q]) /\ proc[q].at = m)
        BY <3>2, <3>5
      <4>2. Migrating(proc[q]) => proc[q].at \in Ids /\ (proc[q].at # m => db'.columns[proc[q].at] = db.columns[proc[q].at])
        BY <2>2, <2>4, <4>1 DEF Doing
      <4>3. proc[q].pc = "record" => Whole(db', proc[q].at)
        BY <3>6, <3>7, <4>1, <4>2 DEF Doing, Migrating
      <4>4. Adding(proc[q]) => db'.columns[proc[q].at] = proc[q].next - 1
        BY <4>1, <4>2 DEF Doing, Migrating, Adding
      <4> QED BY <2>2, <3>8, <4>1, <4>3, <4>4 DEF Doing
    <3>10. k = Columns[m] => Whole(db', m)
      BY <2>2, <2>4, <3>3 DEF Whole
    <3>11. /\ k # Columns[m] => k + 1 <= Columns[m]
           /\ k + 1 - 1 = k /\ db'.columns[m] = k
      BY <2>2, <2>4, <3>3
    <3>12. Doing(w, db')
      <4>1. w.pc \in {"up", "record"} /\ w.at \in Ids /\ w.known = 1 .. w.at - 1
        BY <2>3, <3>3
      <4>2. w.at <= Len(db'.applied) + 1
        BY <2>2, <2>3, <3>3
      <4>3. w.pc = "up" => w.next <= Columns[w.at]
        BY <2>3, <3>11
      <4>4. db'.columns[w.at] = w.next - 1
        BY <2>3, <2>4, <3>11
      <4>5. w.pc = "record" => Whole(db', w.at)
        BY <2>3, <3>10
      <4> QED BY <3>8, <4>1, <4>2, <4>3, <4>4, <4>5 DEF Doing
    <3> QED BY <3>1, <3>2, <3>3, <3>5, <3>8, <3>9, <3>12
  <2>6. ASSUME Untouched'
        PROVE  /\ Untouched /\ ~failed' /\ \A q \in Processes \ {p} : ~AtWork(proc[q])
               /\ db'.columns[w.at] = w.next - 1 /\ w.at = Len(db'.applied) + 1
               /\ \A n \in Ids : Bare(db', n) \/ (Migrating(w) /\ w.at = n)
    <3>1. Untouched /\ Orderly'
      BY <2>6 DEF Untouched, Orderly
    <3>2. Pristine /\ \A q \in Processes \ {p} : ~AtWork(proc[q])
      BY <3>1, OrderlyIf, Working DEF Schema, AtWork
    <3>3. \A n \in Ids : Bare(db, n) \/ m = n
      BY <3>2 DEF Pristine, AtWork, Migrating
    <3>4. \A n \in Ids \ {m} : Bare(db', n)
      BY <2>2, <2>4, <3>3 DEF Bare
    <3>5. db'.columns[m] = k /\ k + 1 - 1 = k
      BY <2>2, <2>4, <2>5, <3>1
    <3>6. Migrating(w) /\ w.at = Len(db'.applied) + 1
      BY <2>2, <2>3, <3>2 DEF Migrating, Pristine
    <3>7. db'.columns[w.at] = w.next - 1
      <4>1. db'.columns[w.at] = k
        BY <2>3, <3>5
      <4>2. w.next - 1 = k
        BY <2>3, <2>4
      <4> QED BY <4>1, <4>2
    <3>8. ~failed'
      BY <2>1, <3>2 DEF Pristine
    <3>9. \A n \in Ids : Bare(db', n) \/ (Migrating(w) /\ w.at = n)
      BY <2>3, <3>4, <3>6
    <3> QED BY <3>1, <3>2, <3>6, <3>7, <3>8, <3>9
  <2>7. w.pc # "unrecord"
    BY <2>3
  <2>8. w.at = m
    BY <2>3
  <2> HIDE DEF k, m
  <2> QED BY <2>1, <2>5, <2>6, <2>7, <2>8, Works
<1> QED BY <1>1, <1>2

LEMMA StatementSchema ==
  ASSUME TypeOK, Schema, NEW p \in Processes, Statement(p), snapshots' = snapshots
  PROVE  Schema'
BY CreateTableSchema, AddColumnSchema DEF Statement, At

LEMMA RecordSchema ==
  ASSUME TypeOK, Schema, NEW p \in Processes, Record(p), snapshots' = snapshots
  PROVE  Schema'
<1> DEFINE m == proc[p].at
           known == proc[p].known \cup {m}
           next == Pending(known)
           w == [Off EXCEPT !.pc = IF next = 0 THEN "ready" ELSE "up", !.known = known, !.at = next]
           n == Len(db.applied)
<1>1. proc[p].pc = "record" /\ causes' = causes
  BY DEF Record, At
<1>2. ASSUME Orderly
      PROVE  /\ \A q \in Processes \ {p} : proc[q].pc # "unrecord"
             /\ \A q \in Processes : Doing(proc[q], db)
             /\ Sound(db, 0) /\ Whole(db, m) /\ m <= n + 1 /\ m \in Ids
             /\ proc[p].known = 1 .. m - 1 /\ Recorded(db) = 1 .. n
             /\ m \notin Recorded(db) => m = n + 1
             /\ n \in Nat /\ 1 .. n \subseteq Ids /\ m \in Nat /\ m # 0
  <2>1. /\ \A q \in Processes \ {p} : proc[q].pc # "unrecord"
        /\ \A q \in Processes : Doing(proc[q], db)
    BY <1>1, <1>2, Working DEF AtWork
  <2>2. /\ Sound(db, 0) /\ Whole(db, m) /\ m <= n + 1 /\ m \in Ids
        /\ proc[p].known = 1 .. m - 1
    BY <1>1, <2>1 DEF Doing, Migrating
  <2>3. n \in Nat /\ Recorded(db) = 1 .. n /\ 1 .. n \subseteq Ids /\ m \in Nat /\ m # 0
    BY <2>2, Facts, OnRecord, Scripts
  <2>4. m \notin Recorded(db) => m = n + 1
    BY <2>2, <2>3
  <2> HIDE DEF m, n
  <2> QED BY <2>1, <2>2, <2>3, <2>4
<1>3. CASE m \in Recorded(db)
  <2>1. Raise(p)
    BY <1>3 DEF Record
  <2>2. ~Untouched
    <3>1. SUFFICES ASSUME Untouched PROVE FALSE
      OBVIOUS
    <3>2. m = n + 1 /\ Recorded(db) = 1 .. n /\ n \in Nat
      BY <1>1, <1>2, <3>1, OrderlyIf DEF Schema, Pristine, Migrating
    <3> QED BY <1>3, <3>2
  <2> QED BY <1>1, <2>1, <2>2, RaiseSchema DEF Migrating
<1>4. CASE m \notin Recorded(db)
  <2>1. /\ proc' = [proc EXCEPT ![p] = w] /\ failed' = failed
        /\ db' = [db EXCEPT !.applied = Append(@, m)]
    BY <1>4 DEF Record
  <2>2. /\ db'.tables = db.tables /\ db'.columns = db.columns
        /\ db'.applied = Append(db.applied, m)
    BY <2>1, Facts DEF DbType
  <2>3. /\ w.pc = (IF next = 0 THEN "ready" ELSE "up") /\ w.at = next /\ w.known = known
        /\ w.next = 1
    BY DEF Off
  <2> HIDE DEF w, known
  <2>4. ASSUME Orderly
        PROVE  /\ Len(db'.applied) = n + 1 /\ Sound(db', 0)
               /\ known = 1 .. n + 1 /\ (next # 0 => next = n + 2 /\ next \in Ids)
    <3>1. Len(db'.applied) = n + 1 /\ \A i \in 1 .. n + 1 : db'.applied[i] = i
      <4>0. m = n + 1
        BY <1>2, <1>4, <2>4
      <4>1. /\ Len(db'.applied) = n + 1 /\ db'.applied[n + 1] = m
            /\ \A i \in 1 .. n : db'.applied[i] = db.applied[i]
        BY <1>2, <2>2, <2>4, Facts, AppendProperties
      <4>2. \A i \in 1 .. n + 1 : i \in 1 .. n \/ i = n + 1
        BY <1>2, <2>4
      <4> QED BY <1>2, <2>4, <4>0, <4>1, <4>2 DEF Sound
    <3>2. \A i \in 1 .. n + 1 : Whole(db', i)
      <4>0. m = n + 1
        BY <1>2, <1>4, <2>4
      <4>1. \A i \in 1 .. n + 1 : i \in Nat /\ (i \in 1 .. n \/ i = m)
        BY <1>2, <2>4, <4>0
      <4>2. \A i \in 1 .. n : Whole(db, i)
        BY <1>2, <2>4 DEF Sound
      <4>3. \A i : Whole(db, i) => Whole(db', i)
        BY <2>2 DEF Whole
      <4> QED BY <1>2, <2>4, <4>1, <4>2, <4>3
    <3>3. Sound(db', 0)
      BY <3>1, <3>2 DEF Sound
    <3>4. known = 1 .. n + 1
      <4>1. proc[p].known = 1 .. n /\ m = n + 1
        <5>1. \A i \in Nat : i + 1 - 1 = i
          OBVIOUS
        <5> QED BY <1>2, <1>4, <2>4, <5>1
      <4> QED BY <1>2, <2>4, <4>1 DEF known
    <3>5. 1 .. n + 1 \subseteq Ids
      BY <1>2, <1>4, <2>4
    <3>6. next # 0 => next = n + 2 /\ next \in Ids
      <4>1. n + 1 \in Nat
        BY <1>2, <2>4
      <4>2. Pending(1 .. n + 1) = 0 \/ (Pending(1 .. n + 1) = n + 1 + 1 /\ n + 1 + 1 \in Ids)
        BY <3>5, <4>1, PendingIsNext
      <4> QED BY <1>2, <2>4, <3>4, <4>2
    <3> QED BY <1>2, <2>4, <3>1, <3>3, <3>4, <3>6
  <2> HIDE DEF next
  <2>5. ASSUME Orderly'
        PROVE  /\ Orderly /\ \A q \in Processes \ {p} : proc[q].pc # "unrecord"
               /\ \A q \in Processes \ {p} : Doing(proc[q], db')
               /\ Doing(w, db') /\ Sound(db', 0) /\ ~Adding(w)
    <3>1. Orderly
      BY <1>1, <2>5 DEF Orderly
    <3>2. next # 0 => 1 <= Columns[next] \/ Columns[next] = 0
      <4>1. \A i \in Ids : 1 <= Columns[i] \/ Columns[i] = 0
        BY Scripts
      <4> QED BY <2>4, <3>1, <4>1
    <3>3. n + 2 = n + 1 + 1 /\ n + 2 - 1 = n + 1 /\ n + 2 <= n + 1 + 1
      BY <1>2, <3>1
    <3>4. ~Adding(w)
      BY <2>3 DEF Adding
    <3>5. Doing(w, db')
      BY <2>3, <2>4, <3>1, <3>2, <3>3, <3>4 DEF Doing, Migrating
    <3>6. ASSUME NEW q \in Processes \ {p} PROVE Doing(proc[q], db')
      <4>1. proc[q].at \in Nat /\ Len(db.applied) \in Nat
        BY Facts, Scripts
      <4>2. Len(db'.applied) \in Nat /\ Len(db.applied) <= Len(db'.applied)
        BY <2>4, <3>1, <4>1
      <4>3. Doing(proc[q], db) /\ proc[q].pc # "unrecord"
        BY <1>2, <3>1
      <4> QED BY <2>2, <2>4, <3>1, <4>1, <4>2, <4>3, GoesOn
    <3> QED BY <1>2, <2>4, <3>1, <3>4, <3>5, <3>6
  <2>6. ASSUME Untouched'
        PROVE  /\ Untouched /\ ~failed' /\ \A q \in Processes \ {p} : ~AtWork(proc[q])
               /\ Migrating(w) => w.at = Len(db'.applied) + 1
               /\ w.pc = "up" => db'.columns[w.at] = w.next - 1
               /\ \A i \in Ids : Bare(db', i)
    <3>1. Untouched
      BY <1>1, <2>6 DEF Untouched
    <3>2. Orderly /\ Pristine /\ \A q \in Processes \ {p} : ~AtWork(proc[q])
      BY <1>1, <3>1, OrderlyIf, Working DEF Schema, AtWork
    <3>3. \A i \in Ids : Bare(db, i) \/ i = m
      BY <1>2, <3>2 DEF Pristine, AtWork, Migrating
    <3>4. \A i \in Ids : Bare(db', i)
      <4>1. \A i \in Ids : i \in Nat
        BY Scripts
      <4> QED BY <1>2, <1>4, <2>2, <2>4, <3>2, <3>3, <4>1 DEF Bare
    <3>5. ASSUME w.pc = "up" PROVE db'.columns[w.at] = 0
      <4>1. w.at \in Ids /\ w.at = n + 2 /\ Len(db'.applied) = n + 1
        BY <2>3, <2>4, <3>2, <3>5
      <4>2. w.at > Len(db'.applied)
        BY <1>2, <3>2, <4>1
      <4> QED BY <3>4, <4>1, <4>2 DEF Bare
    <3>6. Migrating(w) => w.at = Len(db'.applied) + 1
      BY <1>2, <2>3, <2>4, <3>2 DEF Migrating
    <3>7. w.pc = "up" => db'.columns[w.at] = w.next - 1
      BY <2>3, <3>5
    <3>8. ~failed'
      BY <2>1, <3>2 DEF Pristine
    <3> QED BY <3>1, <3>2, <3>4, <3>6, <3>7, <3>8
  <2>7. w.pc # "unrecord"
    BY <2>3
  <2> QED BY <2>1, <2>5, <2>6, <2>7, Works
<1> QED BY <1>3, <1>4

LEMMA DownSchema ==
  ASSUME TypeOK, Schema, NEW p \in Processes, p # Operator, Down(p), snapshots' = snapshots
  PROVE  Schema'
<1> DEFINE n == Len(db.applied)
           m == Last(db.applied)
           w == [Off EXCEPT !.pc = "unrecord", !.at = m]
<1>1. /\ proc' = [proc EXCEPT ![p] = w] /\ causes' = causes \cup {"rollback"} \cup Crosses(p)
      /\ failed' = failed /\ proc[p].pc = "off" /\ db.applied # <<>>
  BY DEF Down, At
<1>2. /\ db'.tables = db.tables \ {Table[m]} /\ db'.applied = db.applied
      /\ db'.columns = IF Table[m] = "tickets" THEN [i \in Ids |-> 0] ELSE db.columns
  BY Facts DEF Down, DbType
<1>3. w.pc = "unrecord" /\ w.at = m
  BY DEF Off
<1>4. n \in Nat /\ n # 0 /\ m = db.applied[n]
  BY <1>1, Facts, EmptySeq DEF Last
<1> HIDE DEF w
<1>5. ASSUME Orderly'
      PROVE  Orderly /\ (\A q \in Processes \ {p} : ~AtWork(proc[q])) /\ Doing(w, db') /\ ~Adding(w)
  <2>1. Orderly /\ "crossed" \notin Crosses(p)
    BY <1>1, <1>5 DEF Orderly
  <2>2. \A q \in Processes \ {p} : ~AtWork(proc[q])
    BY <2>1, CrossesNone
  <2>3. Sound(db, 0)
    BY <1>1, <2>1, <2>2 DEF Schema, Sane, AtWork
  <2>4. m = n /\ 1 .. n \subseteq Ids
    BY <1>4, <2>3, Facts, OnRecord DEF Sound
  <2>5. ASSUME NEW i \in 1 .. n, i # n PROVE Whole(db', i)
    <3>1. Whole(db, i) /\ i \in Ids /\ m \in Ids
      BY <1>4, <2>3, <2>4, <2>5 DEF Sound
    <3>2. Table[i] \in db.tables => Table[i] \in db'.tables \/ Columns[i] > 0
      BY <1>2, <2>4, <2>5, <3>1, Scripts
    <3>3. Columns[i] = 0 \/ Table[m] # "tickets"
      <4>1. SUFFICES ASSUME Columns[i] > 0, Table[m] = "tickets" PROVE FALSE
        BY <3>1, Scripts
      <4>2. PICK t \in 1 .. i - 1 : Table[t] = "tickets"
        BY <3>1, <4>1, Scripts
      <4>3. t \in Ids /\ t # m
        BY <1>4, <2>4, <2>5, <4>2
      <4> QED BY <3>1, <4>1, <4>2, <4>3, Scripts
    <3> QED BY <1>2, <3>1, <3>2, <3>3 DEF Whole
  <2>6. Sound(db', n)
    BY <1>2, <2>3, <2>5 DEF Sound
  <2>7. Doing(w, db') /\ ~Adding(w)
    BY <1>2, <1>3, <1>4, <2>4, <2>6 DEF Doing, Migrating, Adding
  <2> QED BY <2>1, <2>2, <2>7
<1>6. ~Untouched'
  BY <1>1 DEF Untouched
<1>7. ASSUME Orderly', NEW q \in Processes \ {p}
      PROVE  proc[q].pc # "unrecord" /\ Doing(proc[q], db')
  BY <1>5, <1>7 DEF AtWork, Doing, Migrating, Adding
<1> QED BY <1>1, <1>3, <1>5, <1>6, <1>7, Works

\* The DELETE of the last of the first n.
LEMMA LastRemoved ==
  ASSUME NEW s \in Seq(Ids), Len(s) # 0, \A i \in 1 .. Len(s) : s[i] = i
  PROVE  /\ Len(RemoveFirst(s, Len(s))) = Len(s) - 1
         /\ \A i \in 1 .. Len(s) - 1 : RemoveFirst(s, Len(s))[i] = i
<1> DEFINE n == Len(s)
           I == {i \in 1 .. n : s[i] = n}
<1>1. n \in Nat /\ n \in 1 .. n /\ \A i \in 1 .. n : s[i] \in Ids
  <2>1. n \in Nat
    BY LenProperties
  <2>2. n \in 1 .. n
    BY <2>1
  <2> QED BY <2>1, <2>2, ElementOfSeq
<1>2. I = {n}
  BY <1>1
<1>3. Min(I) = n
  BY <1>1, <1>2 DEF Min
<1>4. RemoveFirst(s, n) = RemoveAt(s, n)
  BY <1>1, <1>2, <1>3 DEF RemoveFirst, SelectInSeq
<1>5. /\ SubSeq(s, 1, n - 1) \in Seq(Ids) /\ Len(SubSeq(s, 1, n - 1)) = n - 1
      /\ \A i \in 1 .. n - 1 : SubSeq(s, 1, n - 1)[i] = s[i]
  <2>1. \A i \in 1 .. n - 1 : s[i] \in Ids
    BY <1>1
  <2>2. /\ 1 \in Int /\ n - 1 \in Int /\ n - 1 - 1 + 1 = n - 1
        /\ (1 <= n - 1 \/ n - 1 = 0)
        /\ \A i \in 1 .. n - 1 : 1 + i - 1 = i
    <3>1. \A k \in Nat : k \in 1 .. k => /\ k - 1 \in Int /\ k - 1 - 1 + 1 = k - 1
                                        /\ (1 <= k - 1 \/ k - 1 = 0)
                                        /\ \A i \in 1 .. k - 1 : 1 + i - 1 = i
      OBVIOUS
    <3> HIDE DEF n
    <3> QED BY <1>1, <3>1
  <2>3. /\ SubSeq(s, 1, n - 1) \in Seq(Ids)
        /\ Len(SubSeq(s, 1, n - 1)) = IF 1 <= n - 1 THEN n - 1 - 1 + 1 ELSE 0
        /\ \A i \in 1 .. n - 1 - 1 + 1 : SubSeq(s, 1, n - 1)[i] = s[1 + i - 1]
    BY <2>1, <2>2, SubSeqProperties
  <2> QED BY <2>2, <2>3
<1>6. SubSeq(s, n + 1, n) = <<>>
  <2>1. n + 1 \in Int /\ n \in Int /\ n < n + 1
    BY <1>1
  <2> QED BY <2>1, SubSeqEmpty
<1>7. RemoveAt(s, n) = SubSeq(s, 1, n - 1)
  BY <1>5, <1>6, ConcatEmptySeq DEF RemoveAt
<1> QED BY <1>1, <1>4, <1>5, <1>7

LEMMA UnrecordSchema ==
  ASSUME TypeOK, Schema, NEW p \in Processes, Unrecord(p), snapshots' = snapshots
  PROVE  Schema'
<1> DEFINE n == Len(db.applied)
<1>1. /\ proc' = [proc EXCEPT ![p] = Off] /\ causes' = causes /\ proc[p].pc = "unrecord"
  BY DEF Unrecord, At
<1>2. /\ db'.tables = db.tables /\ db'.columns = db.columns
      /\ db'.applied = RemoveFirst(db.applied, proc[p].at)
  BY Facts DEF Unrecord, DbType
<1>3. Off.pc = "off" /\ n \in Nat
  BY Facts DEF Off
<1>4. ASSUME Orderly'
      PROVE  /\ Orderly /\ \A q \in Processes \ {p} : ~AtWork(proc[q])
             /\ Doing(Off, db') /\ Sound(db', 0) /\ ~Adding(Off)
  <2>1. Orderly
    BY <1>1, <1>4 DEF Orderly
  <2>2. (\A q \in Processes \ {p} : ~AtWork(proc[q])) /\ Doing(proc[p], db)
    BY <1>1, <2>1, Working DEF AtWork
  <2>3. proc[p].at = n /\ n # 0 /\ Sound(db, n)
    BY <1>1, <2>2 DEF Doing
  <2>4. Len(db'.applied) = n - 1 /\ \A i \in 1 .. n - 1 : db'.applied[i] = i
    BY <1>2, <2>3, Facts, LastRemoved DEF Sound
  <2>5. \A i \in 1 .. n - 1 : Whole(db, i) /\ (Whole(db, i) => Whole(db', i))
    <3>1. \A i \in 1 .. n - 1 : i \in 1 .. n /\ i # n
      BY <1>3
    <3> QED BY <1>2, <2>3, <3>1 DEF Sound, Whole
  <2>6. Sound(db', 0)
    BY <2>4, <2>5 DEF Sound
  <2> QED BY <1>3, <2>1, <2>2, <2>6 DEF Doing, Migrating, Adding
<1>5. ~Untouched'
  <2>1. ~Untouched
    BY <1>1 DEF Schema, Pristine
  <2> QED BY <1>1, <2>1 DEF Untouched
<1>6. ASSUME Orderly', NEW q \in Processes \ {p}
      PROVE  proc[q].pc # "unrecord" /\ Doing(proc[q], db')
  BY <1>4, <1>6 DEF AtWork, Doing, Migrating, Adding
<1> QED BY <1>1, <1>3, <1>4, <1>5, <1>6, Works

LEMMA WorkSchema ==
  ASSUME TypeOK, Schema, NEW p \in Processes, Work(p), snapshots' = snapshots
  PROVE  Schema'
BY StatementSchema, RecordSchema, UnrecordSchema DEF Work

LEMMA StopSchema ==
  ASSUME TypeOK, Schema, NEW p \in Processes, proc[p].pc \notin {"up", "record", "unrecord"},
         proc' = [proc EXCEPT ![p] = Off], UNCHANGED <<db, failed, causes, snapshots>>
  PROVE  Schema'
<1>1. ~AtWork(Off) /\ ~AtWork(proc[p])
  BY DEF Off, AtWork
<1> QED BY <1>1, Ends DEF AtWork

LEMMA KillSchema ==
  ASSUME TypeOK, Schema, NEW p \in Processes, Kill(p), snapshots' = snapshots
  PROVE  Schema'
<1>1. /\ proc' = [proc EXCEPT ![p] = Off] /\ UNCHANGED <<db, failed>>
      /\ causes' = causes \cup {IF At(p, "unrecord") THEN "cut rollback" ELSE "cut"}
  BY DEF Kill
<1>2. ~AtWork(Off)
  BY DEF Off, AtWork
<1>3. proc[p].pc = "unrecord" => ~Orderly'
  BY <1>1 DEF Orderly, At
<1>4. ~Untouched'
  BY <1>1 DEF Untouched
<1> QED BY <1>1, <1>2, <1>3, <1>4, Ends

LEMMA CopyDbSchema ==
  ASSUME TypeOK, Schema, CopyDb
  PROVE  Schema'
<1>1. /\ causes' = causes \cup Meets(Operator) /\ UNCHANGED <<db, proc, failed>>
      /\ snapshots' = [snapshots EXCEPT ![second].db = db]
      /\ op.pc = "copy db" /\ proc[Operator].pc = "off" /\ Operator \in Processes
  BY OperatorAssumption DEF CopyDb, On, TypeOK
<1>2. \A i \in Seconds : snapshots'[i].db = IF i = second THEN db ELSE snapshots[i].db
  <2>1. snapshots \in [Seconds -> CopyType]
    BY DEF TypeOK
  <2> QED BY <1>1, <2>1 DEF CopyType
<1>3. ASSUME Orderly'
      PROVE  Orderly /\ \A q \in Processes : proc[q].pc # "unrecord"
  <2>1. Orderly /\ "crossed" \notin Meets(Operator)
    BY <1>1, <1>3 DEF Orderly
  <2> QED BY <1>1, <2>1, MeetsNone
<1>4. ASSUME Orderly' PROVE Sane'
  <2>1. Sane /\ Sound(db, 0)
    BY <1>3, <1>4 DEF Schema, Sane
  <2> QED BY <1>1, <1>2, <2>1 DEF Sane
<1>5. ASSUME Untouched' PROVE Pristine'
  <2>1. Untouched /\ Meets(Operator) = {}
    BY <1>1, <1>5, MeetsNone DEF Untouched
  <2>2. \A q \in Processes : ~AtWork(proc[q])
    BY <1>1, <2>1, MeetsNone DEF AtWork
  <2>4. Pristine /\ \A n \in Ids : Bare(db, n)
    BY <2>1, <2>2 DEF Schema, Pristine, AtWork, Migrating
  <2>3. \A i \in Seconds : snapshots'[i].db # None => \A n \in Ids : Bare(snapshots'[i].db, n)
    <3>1. ASSUME NEW i \in Seconds, NEW n \in Ids, snapshots'[i].db # None
          PROVE  Bare(snapshots'[i].db, n)
      BY <1>2, <2>4, <3>1 DEF Pristine
    <3> QED BY <3>1
  <2>5. \A q \in Processes : proc[q].pc \notin {"up", "record", "unrecord"}
    BY <2>2 DEF AtWork
  <2> QED BY <1>1, <2>3, <2>4, <2>5 DEF Pristine, Migrating
<1> QED BY <1>1, <1>4, <1>5 DEF Schema

LEMMA RestoreDbSchema ==
  ASSUME TypeOK, Schema, RestoreDb, op.read.active.id \in Seconds
  PROVE  Schema'
<1> DEFINE copy == snapshots[op.read.active.id].db
<1>1. /\ causes' = causes \cup {"restore"} \cup Crosses(Operator) /\ UNCHANGED <<proc, failed, snapshots>>
      /\ db' = IF copy = None THEN db ELSE copy
      /\ op.pc = "restore db" /\ proc[Operator].pc = "off" /\ Operator \in Processes
  BY OperatorAssumption DEF RestoreDb, Source, On, TypeOK
<1>2. ASSUME Orderly'
      PROVE  Orderly /\ \A q \in Processes : ~AtWork(proc[q])
  <2>1. Orderly /\ "crossed" \notin Crosses(Operator)
    BY <1>1, <1>2 DEF Orderly
  <2> QED BY <1>1, <2>1, CrossesNone DEF AtWork
<1>3. ASSUME Orderly' PROVE Sane'
  <2>1. Sane /\ Sound(db, 0) /\ (copy # None => Sound(copy, 0))
    BY <1>2, <1>3 DEF Schema, Sane, AtWork
  <2>2. Sound(db', 0)
    BY <1>1, <2>1
  <2>3. \A q \in Processes : Doing(proc[q], db')
    BY <1>2, <1>3 DEF Doing, AtWork, Migrating, Adding
  <2> QED BY <1>1, <2>1, <2>2, <2>3 DEF Sane
<1>4. ASSUME Untouched' PROVE Pristine'
  <2>1. Untouched /\ Orderly'
    BY <1>1, <1>4 DEF Untouched, Orderly
  <2>2. /\ Pristine /\ \A n \in Ids : Bare(db, n)
        /\ copy # None => \A n \in Ids : Bare(copy, n)
    BY <1>2, <2>1 DEF Schema, Pristine, AtWork, Migrating
  <2>3. \A n \in Ids : Bare(db', n)
    BY <1>1, <2>2
  <2>4. \A q \in Processes : ~Migrating(proc[q]) /\ proc[q].pc # "up"
    BY <1>2, <2>1 DEF AtWork, Migrating
  <2> QED BY <1>1, <2>2, <2>3, <2>4 DEF Pristine
<1> QED BY <1>1, <1>3, <1>4 DEF Schema

-----------------------------------------------------------------------------
(* Types.                                                                  *)

LEMMA MeetingType ==
  \A p : Meets(p) \subseteq {"crossed", "overlap"} /\ Crosses(p) \subseteq {"crossed"}
BY MeetsNone, CrossesNone

\* What a process becomes.
LEMMA ProcStep ==
  ASSUME MigrationsTypeOK, NEW p \in Processes, NEW w \in ProcType,
         w.pc \in {"up", "record", "unrecord"} => w.at # 0,
         proc' = [proc EXCEPT ![p] = w]
  PROVE  /\ proc' \in [Processes -> ProcType]
         /\ \A q \in Processes : proc'[q].pc \in {"up", "record", "unrecord"} => proc'[q].at # 0
BY DEF MigrationsTypeOK

LEMMA OffType == Off \in ProcType /\ Off.pc = "off"
BY DEF Off, ProcType

\* A process that enters a migration, or has none to enter.
LEMMA EnteredType ==
  ASSUME NEW x \in {"ready", "up", "unrecord"}, NEW y \in SUBSET Ids, NEW z \in Ids \cup {0}
  PROVE  /\ [Off EXCEPT !.pc = x, !.known = y, !.at = z] \in ProcType
         /\ [Off EXCEPT !.pc = x, !.at = z] \in ProcType
<1>1. \A r \in ProcType : [r EXCEPT !.pc = x, !.known = y, !.at = z] \in ProcType
  BY DEF ProcType
<1>2. \A r \in ProcType : [r EXCEPT !.pc = x, !.at = z] \in ProcType
  BY DEF ProcType
<1> QED BY <1>1, <1>2, OffType

LEMMA StartTypes ==
  ASSUME MigrationsTypeOK, NEW p \in Processes, Start(p) PROVE MigrationsTypeOK'
<1> DEFINE known == Known(db)
           m == Pending(known)
           w == [Off EXCEPT !.pc = IF m = 0 THEN "ready" ELSE "up", !.known = known, !.at = m]
<1>1. known \in SUBSET Ids
  BY RecordedType DEF MigrationsTypeOK, Known
<1>2. m \in Ids \cup {0}
  BY <1>1, PendingType
<1>3. proc' = [proc EXCEPT ![p] = w]
  BY DEF Start
<1> HIDE DEF known
<1>4. w \in ProcType /\ (w.pc = "up" => w.at # 0) /\ w.pc \in {"ready", "up"}
  <2>1. w.pc = (IF m = 0 THEN "ready" ELSE "up") /\ w.at = m
    BY DEF Off
  <2>2. w \in ProcType
    <3>1. (IF m = 0 THEN "ready" ELSE "up") \in {"ready", "up", "unrecord"}
      OBVIOUS
    <3> HIDE DEF m
    <3> QED BY <1>1, <1>2, <3>1, EnteredType
  <2> HIDE DEF w
  <2> QED BY <2>1, <2>2
<1> HIDE DEF w
<1>5. /\ proc' \in [Processes -> ProcType]
      /\ \A q \in Processes : proc'[q].pc \in {"up", "record", "unrecord"} => proc'[q].at # 0
  BY <1>3, <1>4, ProcStep
<1>6. starts' \in 0 .. MaxStarts
  BY StartsAssumption DEF Start, MigrationsTypeOK
<1> QED BY <1>5, <1>6, MeetingType DEF MigrationsTypeOK, Start, Causes

LEMMA RaiseTypes ==
  ASSUME MigrationsTypeOK, NEW p \in Processes, Raise(p), UNCHANGED <<starts, causes>>
  PROVE  MigrationsTypeOK'
<1> DEFINE w == [proc[p] EXCEPT !.pc = "failed"]
<1>1. w \in ProcType /\ w.pc = "failed"
  BY DEF MigrationsTypeOK, ProcType
<1>2. proc' = [proc EXCEPT ![p] = w]
  BY DEF Raise, Goto
<1> HIDE DEF w
<1>3. /\ proc' \in [Processes -> ProcType]
      /\ \A q \in Processes : proc'[q].pc \in {"up", "record", "unrecord"} => proc'[q].at # 0
  BY <1>1, <1>2, ProcStep
<1> QED BY <1>3 DEF MigrationsTypeOK, Raise

LEMMA StatementTypes ==
  ASSUME MigrationsTypeOK, NEW p \in Processes, Statement(p) PROVE MigrationsTypeOK'
<1> DEFINE m == proc[p].at
           k == proc[p].next
<1>1. /\ m \in Ids /\ k \in Nat /\ k # 0 /\ proc[p] \in ProcType /\ db \in DbType
      /\ UNCHANGED <<starts, causes>>
  BY DEF MigrationsTypeOK, ProcType, Statement, At
<1>2. CASE Raise(p)
  BY <1>1, <1>2, RaiseTypes
<1>3. CASE CreateTable(p, m)
  <2> DEFINE w == [proc[p] EXCEPT !.pc = "record"]
  <2>1. w \in ProcType /\ w.at # 0
    <3>1. w \in ProcType /\ w.at = m
      BY <1>1 DEF ProcType
    <3> QED BY <1>1, <3>1, Scripts
  <2>2. proc' = [proc EXCEPT ![p] = w]
    BY <1>3 DEF CreateTable, Goto
  <2> HIDE DEF w
  <2>3. /\ proc' \in [Processes -> ProcType]
        /\ \A q \in Processes : proc'[q].pc \in {"up", "record", "unrecord"} => proc'[q].at # 0
    BY <2>1, <2>2, ProcStep
  <2>4. db' \in DbType
    BY <1>1, <1>3 DEF CreateTable, DbType
  <2> QED BY <1>1, <1>3, <2>3, <2>4 DEF MigrationsTypeOK, CreateTable
<1>4. CASE AddColumn(p, m) /\ ~Raise(p)
  <2> DEFINE w == [proc[p] EXCEPT !.next = k + 1, !.pc = IF k = Columns[m] THEN "record" ELSE "up"]
  <2>1. w \in ProcType /\ w.at # 0
    <3>1. k + 1 \in Nat \ {0}
      BY <1>1
    <3>2. w \in ProcType /\ w.at = m
      BY <1>1, <3>1 DEF ProcType
    <3> QED BY <1>1, <3>2, Scripts
  <2>2. proc' = [proc EXCEPT ![p] = w] /\ db' = [db EXCEPT !.columns[m] = k] /\ failed' = failed
    BY <1>4 DEF AddColumn
  <2> HIDE DEF w
  <2>3. /\ proc' \in [Processes -> ProcType]
        /\ \A q \in Processes : proc'[q].pc \in {"up", "record", "unrecord"} => proc'[q].at # 0
    BY <2>1, <2>2, ProcStep
  <2>4. db' \in DbType
    BY <1>1, <2>2 DEF DbType
  <2> QED BY <1>1, <2>2, <2>3, <2>4 DEF MigrationsTypeOK
<1> QED BY <1>2, <1>3, <1>4 DEF Statement

LEMMA RecordTypes ==
  ASSUME MigrationsTypeOK, NEW p \in Processes, Record(p) PROVE MigrationsTypeOK'
<1> DEFINE m == proc[p].at
           known == proc[p].known \cup {m}
           next == Pending(known)
           w == [Off EXCEPT !.pc = IF next = 0 THEN "ready" ELSE "up", !.known = known, !.at = next]
<1>1. /\ m \in Ids /\ proc[p] \in ProcType /\ db \in DbType /\ UNCHANGED <<starts, causes>>
      /\ known \in SUBSET Ids
  BY DEF MigrationsTypeOK, ProcType, Record, At
<1>2. CASE Raise(p)
  BY <1>1, <1>2, RaiseTypes
<1>3. CASE ~Raise(p)
  <2>1. next \in Ids \cup {0}
    BY <1>1, PendingType
  <2>2. proc' = [proc EXCEPT ![p] = w] /\ db' = [db EXCEPT !.applied = Append(@, m)]
        /\ failed' = failed
    BY <1>3 DEF Record
  <2> HIDE DEF known
  <2>3. w \in ProcType /\ (w.pc = "up" => w.at # 0) /\ w.pc \in {"ready", "up"}
    <3>1. w.pc = (IF next = 0 THEN "ready" ELSE "up") /\ w.at = next
      BY DEF Off
    <3>2. w \in ProcType
      <4>1. (IF next = 0 THEN "ready" ELSE "up") \in {"ready", "up", "unrecord"}
        OBVIOUS
      <4> HIDE DEF next
      <4> QED BY <1>1, <2>1, <4>1, EnteredType
    <3> HIDE DEF w
    <3> QED BY <3>1, <3>2
  <2> HIDE DEF w
  <2>4. /\ proc' \in [Processes -> ProcType]
        /\ \A q \in Processes : proc'[q].pc \in {"up", "record", "unrecord"} => proc'[q].at # 0
    BY <2>2, <2>3, ProcStep
  <2>5. db' \in DbType
    <3>1. Append(db.applied, m) \in Seq(Ids)
      BY <1>1, AppendProperties DEF DbType
    <3> QED BY <1>1, <2>2, <3>1 DEF DbType
  <2> QED BY <1>1, <2>2, <2>4, <2>5 DEF MigrationsTypeOK
<1> QED BY <1>2, <1>3

LEMMA RemovedType ==
  ASSUME NEW S, NEW s \in Seq(S), NEW e PROVE RemoveFirst(s, e) \in Seq(S)
<1> DEFINE n == Len(s)
           I == {i \in 1 .. n : s[i] = e}
<1>1. n \in Nat /\ \A i \in 1 .. n : s[i] \in S
  BY LenProperties, ElementOfSeq
<1>2. CASE I = {}
  BY <1>2 DEF RemoveFirst
<1>3. CASE I # {}
  <2>1. I \in SUBSET Nat
    BY <1>1
  <2>2. \E i \in I : \A j \in I : i <= j
    <3> HIDE DEF I
    <3> QED BY <1>3, <2>1, Least
  <2>3. Min(I) \in 1 .. n
    BY <2>2 DEF Min
  <2>4. RemoveFirst(s, e) = RemoveAt(s, Min(I))
    BY <1>3 DEF RemoveFirst, SelectInSeq
  <2>5. PICK i \in 1 .. n : i = Min(I)
    BY <2>3
  <2>6. SubSeq(s, 1, i - 1) \in Seq(S)
    <3>1. 1 \in Int /\ i - 1 \in Int /\ \A k \in 1 .. i - 1 : k \in 1 .. n
      BY <1>1
    <3> QED BY <1>1, <3>1, SubSeqProperties
  <2>7. SubSeq(s, i + 1, n) \in Seq(S)
    <3>1. i + 1 \in Int /\ n \in Int /\ \A k \in i + 1 .. n : k \in 1 .. n
      BY <1>1
    <3> QED BY <1>1, <3>1, SubSeqProperties
  <2> QED BY <2>4, <2>5, <2>6, <2>7, ConcatProperties DEF RemoveAt
<1> QED BY <1>2, <1>3

LEMMA UnrecordTypes ==
  ASSUME MigrationsTypeOK, NEW p \in Processes, Unrecord(p) PROVE MigrationsTypeOK'
<1>1. db' \in DbType
  <2>1. db \in DbType /\ db.applied \in Seq(Ids)
    BY DEF MigrationsTypeOK, DbType
  <2>2. RemoveFirst(db.applied, proc[p].at) \in Seq(Ids)
    BY <2>1, RemovedType
  <2> QED BY <2>1, <2>2 DEF Unrecord, DbType
<1> QED BY <1>1, OffType, ProcStep DEF MigrationsTypeOK, Unrecord

LEMMA DownTypes ==
  ASSUME MigrationsTypeOK, NEW p \in Processes, Down(p) PROVE MigrationsTypeOK'
<1> DEFINE m == Last(db.applied)
           w == [Off EXCEPT !.pc = "unrecord", !.at = m]
<1>1. m \in Ids /\ db \in DbType
  <2>1. db \in DbType /\ db.applied \in Seq(Ids) /\ db.applied # <<>>
    BY DEF MigrationsTypeOK, DbType, Down
  <2>2. Len(db.applied) \in 1 .. Len(db.applied)
    <3>1. Len(db.applied) \in Nat /\ Len(db.applied) # 0
      BY <2>1, EmptySeq
    <3> QED BY <3>1
  <2> QED BY <2>1, <2>2, ElementOfSeq DEF Last
<1>2. w \in ProcType /\ w.at # 0
  <2>1. w.at = m
    BY DEF Off
  <2>2. w \in ProcType
    <3> HIDE DEF m
    <3> QED BY <1>1, EnteredType
  <2> HIDE DEF w
  <2> QED BY <1>1, <2>1, <2>2, Scripts
<1>3. proc' = [proc EXCEPT ![p] = w]
  BY DEF Down
<1> HIDE DEF w
<1>4. /\ proc' \in [Processes -> ProcType]
      /\ \A q \in Processes : proc'[q].pc \in {"up", "record", "unrecord"} => proc'[q].at # 0
  BY <1>2, <1>3, ProcStep
<1>5. db' \in DbType
  BY <1>1 DEF Down, DbType
<1>6. starts' \in 0 .. MaxStarts
  BY StartsAssumption DEF Down, MigrationsTypeOK
<1> QED BY <1>4, <1>5, <1>6, MeetingType DEF MigrationsTypeOK, Down, Causes

LEMMA EndTypes ==
  ASSUME MigrationsTypeOK, NEW p \in Processes, proc' = [proc EXCEPT ![p] = Off],
         UNCHANGED <<db, starts, failed>>, causes' \subseteq causes \cup {"cut", "cut rollback"}
  PROVE  MigrationsTypeOK'
BY OffType, ProcStep DEF MigrationsTypeOK, Causes

LEMMA WorkTypes ==
  ASSUME MigrationsTypeOK, NEW p \in Processes, Work(p) PROVE MigrationsTypeOK'
BY StatementTypes, RecordTypes, UnrecordTypes DEF Work

LEMMA Bounds ==
  /\ Operator \in Processes /\ HistoryLimit \in Nat \ {0}
  /\ MaxOps \in Nat /\ MaxWrites \in Nat /\ MaxSeconds \in Nat /\ MaxStarts \in Nat
  /\ 0 \in Seconds /\ 0 \in 0 .. MaxWrites
BY OperatorAssumption, ReleaseBoundsAssumption, StartsAssumption DEF Seconds

LEMMA RestingType == Resting \in OpType /\ Resting.pc = "rest"
<1>1. <<>> \in Seq({"deploy", "rollback"} \X Seconds)
  OBVIOUS
<1>2. NoFile \in FileType /\ NoFiles \in CopyType
  BY <1>1, Bounds DEF NoFile, NoFiles, FileType, CopyType, ReleaseType
<1> QED BY <1>2, Bounds DEF Resting, OpType

LEMMA TurnType ==
  ASSUME op \in OpType, NEW label, Turn(label),
         label \in {"rest", "check", "verify", "copy db", "copy log", "load", "save deploy",
                    "restore db", "restore log", "save rollback"}
  PROVE  op' \in OpType /\ op'.pc = label
BY DEF Turn, OpType

\* The history keeps its limit.
LEMMA KeptType ==
  ASSUME NEW S, NEW h \in Seq(S)
  PROVE  Kept(h) \in Seq(S) /\ Len(Kept(h)) <= HistoryLimit
<1> DEFINE n == Len(h)
           l == HistoryLimit
<1>1. n \in Nat /\ l \in Nat /\ l # 0
  BY LenProperties, Bounds
<1>2. CASE n <= l
  BY <1>2 DEF Kept
<1>3. CASE ~(n <= l)
  <2>1. n - l + 1 \in 1 .. n /\ n - (n - l + 1) + 1 = l /\ n - l + 1 <= n
    BY <1>1, <1>3
  <2>2. \A i \in n - l + 1 .. n : i \in 1 .. n
    BY <1>1, <2>1
  <2>3. Kept(h) = SubSeq(h, n - l + 1, n)
    BY <1>3 DEF Kept
  <2> HIDE DEF n, l
  <2>4. n - l + 1 \in Int /\ n \in Int /\ n = Len(h)
    BY <1>1 DEF n
  <2>5. \A i \in n - l + 1 .. n : i \in 1 .. Len(h)
    BY <2>2, <2>4
  <2>6. /\ SubSeq(h, n - l + 1, n) \in Seq(S)
        /\ Len(SubSeq(h, n - l + 1, n))
             = IF n - l + 1 <= n THEN n - (n - l + 1) + 1 ELSE 0
    BY <2>4, <2>5, SubSeqProperties
  <2>7. Len(Kept(h)) = l
    BY <2>1, <2>3, <2>6
  <2> QED BY <1>1, <2>3, <2>6, <2>7 DEF l
<1> QED BY <1>2, <1>3

\* What the two scripts make of the state file.
LEMMA SavedType ==
  ASSUME TypeOK, NEW state \in FileType
  PROVE  /\ Deployed(state) \in FileType /\ Len(Deployed(state).history) <= HistoryLimit
         /\ state.active # None =>
              RolledBack(state) \in FileType /\ Len(RolledBack(state).history) <= HistoryLimit
<1> DEFINE S == {"deploy", "rollback"} \X Seconds
<1>1. /\ state.active \in ReleaseType /\ state.previous \in ReleaseType
      /\ state.history \in Seq(S) /\ op.id \in Seconds
      /\ None \in ReleaseType
  BY DEF TypeOK, OpType, FileType, ReleaseType
<1>2. <<"deploy", op.id>> \in S
  BY <1>1
<1>3. state.active # None => <<"rollback", state.active.id>> \in S
  BY <1>1 DEF ReleaseType
<1>4. \A e \in S : /\ Kept(Append(state.history, e)) \in Seq(S)
                   /\ Len(Kept(Append(state.history, e))) <= HistoryLimit
  <2> HIDE DEF S
  <2>1. \A e \in S : Append(state.history, e) \in Seq(S)
    BY <1>1, AppendProperties
  <2> QED BY <2>1, KeptType
<1>5. [id |-> op.id, log |-> Copied(op.id)] \in ReleaseType
  BY <1>1 DEF ReleaseType, Copied
<1>6. Deployed(state) \in FileType /\ Len(Deployed(state).history) <= HistoryLimit
  BY <1>1, <1>2, <1>4, <1>5 DEF Deployed, FileType
<1>7. ASSUME state.active # None
      PROVE  RolledBack(state) \in FileType /\ Len(RolledBack(state).history) <= HistoryLimit
  BY <1>1, <1>3, <1>4, <1>7 DEF RolledBack, FileType
<1> QED BY <1>6, <1>7

LEMMA CheckTypes ==
  ASSUME TypeOK, NEW label \in {"check", "verify"}, Check(label) PROVE TypeOK'
<1>1. MigrationsTypeOK'
  BY StartTypes, Bounds DEF TypeOK, Check
<1>2. op' \in OpType /\ op'.pc = label
  BY TurnType DEF TypeOK, Check
<1>3. ops' \in 0 .. MaxOps
  BY Bounds DEF TypeOK, Check
<1> QED BY <1>1, <1>2, <1>3 DEF TypeOK, Check, On

LEMMA CheckedTypes ==
  ASSUME TypeOK, Verified \/ Checked PROVE TypeOK'
<1>1. /\ proc' = [proc EXCEPT ![Operator] = Off]
      /\ UNCHANGED <<db, starts, failed, causes, log, file, snapshots, ops, second, before,
                     undone, shared, cleaned>>
      /\ op' = Resting \/ Turn("copy db")
  BY DEF Verified, Checked
<1>2. MigrationsTypeOK'
  BY <1>1, EndTypes, Bounds DEF TypeOK
<1>3. op' \in OpType
  BY <1>1, RestingType, TurnType DEF TypeOK
<1>4. proc'[Operator].pc = "off"
  BY <1>1, Bounds DEF TypeOK, MigrationsTypeOK, Off
<1> QED BY <1>1, <1>2, <1>3, <1>4 DEF TypeOK

\* One of a release's files is copied.
LEMMA PutType ==
  ASSUME NEW f \in [Seconds -> CopyType], NEW i \in Seconds
  PROVE  /\ \A d \in DbType : [f EXCEPT ![i].db = d] \in [Seconds -> CopyType]
         /\ \A l \in 0 .. MaxWrites : [f EXCEPT ![i].log = l] \in [Seconds -> CopyType]
<1>1. \A c \in CopyType : /\ \A d \in DbType : [c EXCEPT !.db = d] \in CopyType
                          /\ \A l \in 0 .. MaxWrites : [c EXCEPT !.log = l] \in CopyType
  BY DEF CopyType
<1>2. \A c \in CopyType : [f EXCEPT ![i] = c] \in [Seconds -> CopyType]
  OBVIOUS
<1> QED BY <1>1, <1>2

LEMMA CopyDbTypes ==
  ASSUME TypeOK, CopyDb PROVE TypeOK'
<1>1. MigrationsTypeOK'
  BY MeetingType DEF TypeOK, MigrationsTypeOK, Causes, CopyDb
<1>2. op' \in OpType
  BY DEF TypeOK, OpType, CopyDb
<1>3. db \in DbType /\ second \in Seconds /\ proc[Operator].pc = "off"
  BY DEF TypeOK, MigrationsTypeOK, CopyDb, On
<1>4. {snapshots', before'} \subseteq [Seconds -> CopyType]
  <2>1. /\ snapshots' = [snapshots EXCEPT ![second].db = db]
        /\ before' = [before EXCEPT ![second].db = db]
    BY DEF CopyDb
  <2>2. /\ snapshots \in [Seconds -> CopyType] /\ before \in [Seconds -> CopyType]
        /\ log \in 0 .. MaxWrites
    BY DEF TypeOK
  <2>3. snapshots' \in [Seconds -> CopyType]
    BY <1>3, <2>1, <2>2, PutType
  <2>4. before' \in [Seconds -> CopyType]
    BY <1>3, <2>1, <2>2, PutType
  <2> QED BY <2>3, <2>4
<1>5. shared' \subseteq Seconds
  BY DEF TypeOK, CopyDb
<1> QED BY <1>1, <1>2, <1>3, <1>4, <1>5 DEF TypeOK, CopyDb

LEMMA CopyLogTypes ==
  ASSUME TypeOK, CopyLog PROVE TypeOK'
<1>1. MigrationsTypeOK'
  BY DEF TypeOK, MigrationsTypeOK, CopyLog, migrationVars
<1>2. op' \in OpType
  BY TurnType DEF TypeOK, CopyLog
<1>3. op.id \in Seconds /\ proc[Operator].pc = "off"
  BY DEF TypeOK, OpType, CopyLog, On
<1>4. {snapshots', before'} \subseteq [Seconds -> CopyType]
  <2>1. /\ snapshots' = [snapshots EXCEPT ![op.id].log = log]
        /\ before' = [before EXCEPT ![op.id].log = log]
    BY DEF CopyLog
  <2>2. /\ snapshots \in [Seconds -> CopyType] /\ before \in [Seconds -> CopyType]
        /\ log \in 0 .. MaxWrites
    BY DEF TypeOK
  <2>3. snapshots' \in [Seconds -> CopyType]
    BY <1>3, <2>1, <2>2, PutType
  <2>4. before' \in [Seconds -> CopyType]
    BY <1>3, <2>1, <2>2, PutType
  <2> QED BY <2>3, <2>4
<1> QED BY <1>1, <1>2, <1>3, <1>4 DEF TypeOK, CopyLog, migrationVars

LEMMA LoadTypes ==
  ASSUME TypeOK, Load PROVE TypeOK'
<1>1. MigrationsTypeOK'
  BY DEF TypeOK, MigrationsTypeOK, Load, migrationVars
<1>2. op' \in OpType
  BY RestingType DEF TypeOK, Load, OpType
<1>3. proc[Operator].pc = "off"
  BY DEF TypeOK, Load, On
<1> QED BY <1>1, <1>2, <1>3 DEF TypeOK, Load, migrationVars

LEMMA RollbackTypes ==
  ASSUME TypeOK, Rollback PROVE TypeOK'
<1>1. MigrationsTypeOK'
  BY DEF TypeOK, MigrationsTypeOK, Rollback, migrationVars
<1>2. op' \in OpType
  <2>1. file \in FileType /\ file.active.id \in Seconds
    BY DEF TypeOK, FileType, ReleaseType, Rollback
  <2> QED BY <2>1, RestingType DEF Rollback, OpType
<1>3. proc[Operator].pc = "off"
  BY DEF TypeOK, Rollback, On
<1>4. ops' \in 0 .. MaxOps
  BY Bounds DEF TypeOK, Rollback
<1> QED BY <1>1, <1>2, <1>3, <1>4 DEF TypeOK, Rollback, migrationVars

LEMMA RestoreDbTypes ==
  ASSUME TypeOK, Shelf, RestoreDb PROVE TypeOK'
<1>1. op.read.active.id \in Seconds
  <2>1. op.read.active # None /\ op.read.active \in ReleaseType
    BY DEF TypeOK, OpType, FileType, Shelf, Holds, RestoreDb, On
  <2> QED BY <2>1 DEF ReleaseType
<1>2. Source(op.read) \in CopyType
  BY <1>1 DEF TypeOK, Source
<1>3. db' \in DbType
  BY <1>2 DEF RestoreDb, TypeOK, MigrationsTypeOK, CopyType
<1>4. MigrationsTypeOK'
  BY <1>3, MeetingType DEF TypeOK, MigrationsTypeOK, Causes, RestoreDb
<1>5. op' \in OpType
  <2> DEFINE b == [op.back EXCEPT !.db = db']
             missing == Source(op.read).db = None
  <2>1. b \in CopyType /\ missing \in BOOLEAN
    BY <1>3 DEF TypeOK, OpType, CopyType
  <2>2. op' = [op EXCEPT !.pc = "restore log", !.missing = missing, !.back = b]
    BY DEF RestoreDb
  <2> HIDE DEF b, missing
  <2> QED BY <2>1, <2>2 DEF TypeOK, OpType
<1>6. proc[Operator].pc = "off"
  BY DEF TypeOK, RestoreDb, On
<1> QED BY <1>4, <1>5, <1>6 DEF TypeOK, RestoreDb

LEMMA RestoreLogTypes ==
  ASSUME TypeOK, Shelf, RestoreLog PROVE TypeOK'
<1>1. op.read.active.id \in Seconds
  <2>1. op.read.active # None /\ op.read.active \in ReleaseType
    BY DEF TypeOK, OpType, FileType, Shelf, Holds, RestoreLog, On
  <2> QED BY <2>1 DEF ReleaseType
<1>2. Source(op.read).log \in 0 .. MaxWrites
  BY <1>1 DEF TypeOK, Source, CopyType
<1>3. log' \in 0 .. MaxWrites
  BY <1>2 DEF RestoreLog, TypeOK
<1>4. MigrationsTypeOK'
  BY DEF TypeOK, MigrationsTypeOK, RestoreLog, migrationVars
<1>5. op' \in OpType
  <2> DEFINE b == [op.back EXCEPT !.log = log']
  <2>1. b \in CopyType
    BY <1>3 DEF TypeOK, OpType, CopyType
  <2>2. op' = Resting \/ op' = [op EXCEPT !.pc = "save rollback", !.back = b]
    BY DEF RestoreLog
  <2> HIDE DEF b
  <2> QED BY <2>1, <2>2, RestingType DEF TypeOK, OpType
<1>6. proc[Operator].pc = "off"
  BY DEF TypeOK, RestoreLog, On
<1> QED BY <1>3, <1>4, <1>5, <1>6 DEF TypeOK, RestoreLog, migrationVars

LEMMA EmptyTypes ==
  ASSUME TypeOK, Empty PROVE TypeOK'
<1>1. file' \in FileType /\ file'.history = file.history
  BY DEF TypeOK, Empty, FileType
<1> QED BY <1>1 DEF TypeOK, MigrationsTypeOK, Empty, migrationVars, On

LEMMA FillTypes ==
  ASSUME TypeOK, Shelf, Fill PROVE TypeOK'
<1>1. op.read \in FileType /\ op.back \in CopyType /\ op.id \in Seconds
  BY DEF TypeOK, OpType
<1>2. op.pc = "save rollback" => op.read.active # None /\ op.read.active.log \in BOOLEAN
  <2>1. op.pc = "save rollback" => op.read.active # None
    BY DEF Shelf, Holds
  <2> QED BY <1>1, <2>1 DEF FileType, ReleaseType
<1>3. file' \in FileType /\ Len(file'.history) <= HistoryLimit
  BY <1>1, <1>2, SavedType DEF Fill, On
<1>4. undone' \subseteq [id : Seconds, log : BOOLEAN, back : CopyType]
  <2> DEFINE u == [id |-> op.id, log |-> op.read.active.log, back |-> op.back]
  <2>1. op.pc = "save rollback" => u \in [id : Seconds, log : BOOLEAN, back : CopyType]
    BY <1>1, <1>2
  <2>2. undone' = undone \/ (op.pc = "save rollback" /\ undone' = undone \cup {u})
    BY DEF Fill, On
  <2> HIDE DEF u
  <2> QED BY <2>1, <2>2 DEF TypeOK
<1>5. op' \in OpType /\ proc[Operator].pc = "off"
  BY RestingType DEF TypeOK, Fill, On
<1> QED BY <1>3, <1>4, <1>5 DEF TypeOK, MigrationsTypeOK, Fill, migrationVars

LEMMA KillScriptTypes ==
  ASSUME TypeOK, KillScript PROVE TypeOK'
<1>1. MigrationsTypeOK'
  BY EndTypes, Bounds DEF TypeOK, KillScript
<1>2. proc'[Operator].pc = "off"
  BY Bounds DEF TypeOK, MigrationsTypeOK, Off, KillScript
<1> QED BY <1>1, <1>2, RestingType DEF TypeOK, KillScript

\* A process that is not the operator's does not become it.
LEMMA ServiceTypes ==
  ASSUME TypeOK, NEW p \in Processes, Service(p) PROVE TypeOK'
<1>1. MigrationsTypeOK /\ p # Operator
  BY DEF TypeOK, Service
<1>2. MigrationsTypeOK'
  <2>1. CASE Start(p)
    BY <1>1, <2>1, StartTypes
  <2>2. CASE Down(p)
    BY <1>1, <2>2, DownTypes
  <2>3. CASE Stop(p)
    BY <1>1, <2>3, EndTypes DEF Stop
  <2>4. CASE Kill(p)
    BY <1>1, <2>4, EndTypes DEF Kill
  <2> QED BY <2>1, <2>2, <2>3, <2>4 DEF Service
<1>3. proc'[Operator] = proc[Operator]
  <2>1. \E w : proc' = [proc EXCEPT ![p] = w]
    BY DEF Service, Start, Down, Stop, Kill
  <2> QED BY <1>1, <2>1, Bounds DEF MigrationsTypeOK
<1> QED BY <1>2, <1>3 DEF TypeOK, Service, releaseVars, On

LEMMA MigrateTypes ==
  ASSUME TypeOK, NEW p \in Processes, Migrate(p) PROVE TypeOK'
<1>1. MigrationsTypeOK'
  BY WorkTypes DEF TypeOK, Migrate
<1>2. proc[p].pc # "off" /\ \A q \in Processes \ {p} : proc'[q] = proc[q]
  BY DEF Migrate, Work, Statement, Record, Unrecord, At, Raise, Goto, CreateTable, AddColumn,
         TypeOK, MigrationsTypeOK
<1>3. proc'[Operator].pc # "off" => On("check") \/ On("verify")
  BY <1>2, Bounds DEF TypeOK
<1> QED BY <1>1, <1>3 DEF TypeOK, Migrate, releaseVars, On

LEMMA WriteTypes ==
  ASSUME TypeOK, NEW p \in Processes, Write(p) PROVE TypeOK'
<1>1. log' \in 0 .. MaxWrites
  BY Bounds DEF TypeOK, Write
<1>2. db' \in DbType
  <2>1. db \in DbType /\ db.age \in Nat /\ db.age + 1 \in Nat
    BY DEF TypeOK, MigrationsTypeOK, DbType
  <2> QED BY <2>1 DEF Write, DbType
<1> QED BY <1>1, <1>2 DEF TypeOK, MigrationsTypeOK, Write, On

LEMMA TickTypes ==
  ASSUME TypeOK, Tick PROVE TypeOK'
<1>1. second' \in Seconds
  BY Bounds DEF TypeOK, Tick, Seconds
<1> QED BY <1>1 DEF TypeOK, MigrationsTypeOK, Tick, migrationVars, On

LEMMA CleanTypes ==
  ASSUME TypeOK, NEW i \in Seconds, Clean(i) PROVE TypeOK'
<1>1. {snapshots', before'} \subseteq [Seconds -> CopyType]
  BY Bounds DEF TypeOK, Clean, NoFiles, CopyType
<1> QED BY <1>1 DEF TypeOK, MigrationsTypeOK, Clean, migrationVars, On

-----------------------------------------------------------------------------
(* The schema, in the steps of the scripts and of the services.            *)

LEMMA RestingSteps ==
  ASSUME TypeOK, Schema,
         \/ CopyLog \/ Load \/ Rollback \/ RestoreLog \/ Empty \/ Fill \/ Tick
         \/ \E p \in Processes : Write(p)
         \/ \E i \in Seconds : Clean(i)
  PROVE  Schema'
<1>1. snapshots \in [Seconds -> CopyType] /\ db \in DbType
  BY DEF TypeOK, MigrationsTypeOK
<1>2. UNCHANGED <<proc, failed, causes>>
  BY DEF CopyLog, Load, Rollback, RestoreLog, Empty, Fill, Tick, Write, Clean, migrationVars
<1>3. db'.tables = db.tables /\ db'.columns = db.columns /\ db'.applied = db.applied
  <2>1. db' = db \/ db' = [db EXCEPT !.age = db.age + 1]
    BY DEF CopyLog, Load, Rollback, RestoreLog, Empty, Fill, Tick, Write, Clean, migrationVars
  <2> QED BY <1>1, <2>1 DEF DbType
<1>4. \A i \in Seconds : snapshots'[i].db \in {None, snapshots[i].db}
  <2>1. CASE CopyLog
    <3>1. snapshots' = [snapshots EXCEPT ![op.id].log = log]
      BY <2>1 DEF CopyLog
    <3> QED BY <1>1, <3>1 DEF CopyType
  <2>2. CASE \E i \in Seconds : Clean(i)
    BY <1>1, <2>2 DEF Clean, NoFiles
  <2>3. CASE snapshots' = snapshots
    BY <2>3
  <2> QED BY <2>1, <2>2, <2>3 DEF Load, Rollback, RestoreLog, Empty, Fill, Tick, Write
<1> QED BY <1>2, <1>3, <1>4, Rests

LEMMA ScriptSteps ==
  ASSUME TypeOK, Schema, Verify \/ Deploy \/ Verified \/ Checked \/ KillScript
  PROVE  Schema'
<1>1. CASE Verify \/ Deploy
  BY <1>1, StartSchema, Bounds DEF Verify, Deploy, Check
<1>2. CASE Verified \/ Checked
  BY <1>2, StopSchema, Bounds DEF Verified, Checked
<1>3. CASE KillScript
  <2>1. /\ proc' = [proc EXCEPT ![Operator] = Off] /\ UNCHANGED <<db, failed, snapshots>>
        /\ causes \subseteq causes' /\ proc[Operator].pc # "unrecord"
        /\ proc[Operator].pc \in {"up", "record"} => "cut" \in causes'
    BY <1>3 DEF KillScript, Schema
  <2>2. ~AtWork(Off) /\ (AtWork(proc[Operator]) => ~Untouched')
    BY <2>1 DEF AtWork, Off, Untouched
  <2> QED BY <2>1, <2>2, Bounds, Ends
<1> QED BY <1>1, <1>2, <1>3

LEMMA ProcessSteps ==
  ASSUME TypeOK, Schema, NEW p \in Processes, Service(p) \/ Migrate(p)
  PROVE  Schema'
<1>1. snapshots' = snapshots
  BY DEF Service, Migrate, releaseVars
<1>2. CASE Migrate(p)
  BY <1>1, <1>2, WorkSchema DEF Migrate
<1>3. CASE Service(p)
  <2>1. p # Operator /\ (Start(p) \/ Down(p) \/ Stop(p) \/ Kill(p))
    BY <1>3 DEF Service
  <2>2. CASE Start(p)
    BY <1>1, <2>2, StartSchema
  <2>3. CASE Down(p)
    BY <1>1, <2>1, <2>3, DownSchema
  <2>4. CASE Stop(p)
    BY <1>1, <2>4, StopSchema DEF Stop
  <2>5. CASE Kill(p)
    BY <1>1, <2>5, KillSchema
  <2> QED BY <2>1, <2>2, <2>3, <2>4, <2>5
<1> QED BY <1>2, <1>3

\* Who restores has an active release to restore.
LEMMA Restoring ==
  ASSUME TypeOK, Shelf, op.pc \in {"restore db", "restore log", "save rollback"}
  PROVE  /\ op.read.active # None /\ op.read.active.id = op.id /\ op.id \in Seconds
         /\ op.read.active.log \in BOOLEAN
<1>1. op.read.active # None /\ op.read.active.id = op.id
  BY DEF Shelf, Holds
<1>2. op.read.active \in ReleaseType /\ op.id \in Seconds
  BY DEF TypeOK, OpType, FileType
<1> QED BY <1>1, <1>2 DEF ReleaseType

LEMMA NextSchema ==
  ASSUME TypeOK, Schema, Shelf, Next PROVE Schema'
<1>1. CASE RestoreDb
  BY <1>1, Restoring, RestoreDbSchema DEF RestoreDb, On
<1>2. CASE CopyDb
  BY <1>2, CopyDbSchema
<1>3. CASE Verify \/ Deploy \/ Verified \/ Checked \/ KillScript
  BY <1>3, ScriptSteps
<1>4. CASE \E p \in Processes : Service(p) \/ Migrate(p)
  BY <1>4, ProcessSteps
<1>5. CASE \/ CopyLog \/ Load \/ Rollback \/ RestoreLog \/ Empty \/ Fill \/ Tick
           \/ \E p \in Processes : Write(p)
           \/ \E i \in Seconds : Clean(i)
  BY <1>5, RestingSteps
<1> QED BY <1>1, <1>2, <1>3, <1>4, <1>5 DEF Next

LEMMA NextTypes ==
  ASSUME TypeOK, Shelf, Next PROVE TypeOK'
<1>1. CASE Verify \/ Deploy
  BY <1>1, CheckTypes DEF Verify, Deploy
<1>2. CASE Verified \/ Checked \/ CopyDb \/ CopyLog \/ Load \/ Rollback
  BY <1>2, CheckedTypes, CopyDbTypes, CopyLogTypes, LoadTypes, RollbackTypes
<1>3. CASE RestoreDb \/ RestoreLog \/ Empty \/ Fill \/ KillScript \/ Tick
  BY <1>3, RestoreDbTypes, RestoreLogTypes, EmptyTypes, FillTypes, KillScriptTypes, TickTypes
<1>4. CASE \E p \in Processes : Service(p) \/ Migrate(p) \/ Write(p)
  BY <1>4, ServiceTypes, MigrateTypes, WriteTypes
<1>5. CASE \E i \in Seconds : Clean(i)
  BY <1>5, CleanTypes
<1> QED BY <1>1, <1>2, <1>3, <1>4, <1>5 DEF Next

-----------------------------------------------------------------------------
(* The shelf.                                                              *)

\* A step of a script that touches none of the files.
LEMMA Scripted ==
  ASSUME Shelf, UNCHANGED <<snapshots, before, file, undone, shared, cleaned>>,
         Holds(op) => Holds(op')
  PROVE  Shelf'
<1>1. Holds(op') /\ (Holds(op') => Holds(op)')
  BY DEF Shelf, Holds, Filed, Other
<1> QED BY <1>1 DEF Shelf, Copies, Filed, Undid

LEMMA RestingHolds == Holds(Resting) /\ Holds(Resting)'
BY DEF Holds, Resting, NoFile, Filed

LEMMA StepsAside ==
  ASSUME TypeOK, Shelf,
         \/ Verify \/ Deploy \/ Verified \/ Checked \/ Load \/ Rollback \/ KillScript \/ Tick
         \/ \E p \in Processes : Service(p) \/ Migrate(p) \/ Write(p)
  PROVE  Shelf'
<1>1. UNCHANGED <<snapshots, before, file, undone, shared, cleaned>>
  BY DEF Verify, Deploy, Check, Verified, Checked, Load, Rollback, KillScript, Tick, Service,
         Migrate, Write, releaseVars, migrationVars
<1>2. op \in OpType /\ file \in FileType
  BY DEF TypeOK
<1>3. ASSUME Holds(op) PROVE Holds(op')
  <2>1. CASE Verify \/ Deploy \/ Checked
    <3>1. PICK label \in {"check", "verify", "copy db"} : op' = [op EXCEPT !.pc = label]
      BY <2>1 DEF Verify, Deploy, Check, Checked, Turn
    <3>2. op'.pc = label /\ op'.read = op.read
      BY <1>2, <3>1 DEF OpType
    <3> QED BY <1>3, <3>2 DEF Holds
  <2>2. CASE op' = Resting
    BY <2>2, RestingHolds
  <2>3. CASE Load /\ op' # Resting
    <3>1. op' = [op EXCEPT !.pc = "save deploy", !.read = file] /\ op.pc = "load"
      BY <2>3 DEF Load, On
    <3>2. op'.pc = "save deploy" /\ op'.read = file /\ op'.id = op.id
      BY <1>2, <3>1 DEF OpType
    <3> QED BY <1>3, <3>1, <3>2 DEF Holds, Shelf
  <2>4. CASE Rollback
    <3>1. op' = [Resting EXCEPT !.pc = "restore db", !.read = file, !.id = file.active.id]
      BY <2>4 DEF Rollback
    <3>2. /\ op'.pc = "restore db" /\ op'.read = file /\ op'.id = file.active.id
          /\ file.active # None
      BY <2>4, <3>1 DEF Resting, Rollback
    <3> QED BY <3>2 DEF Holds, Shelf
  <2>5. CASE op' = op
    BY <1>3, <2>5
  <2> QED BY <2>1, <2>2, <2>3, <2>4, <2>5 DEF Verified, KillScript, Tick, Service, Migrate, Write,
             releaseVars
<1> QED BY <1>1, <1>3, Scripted

LEMMA CopyDbShelf ==
  ASSUME TypeOK, Shelf, CopyDb PROVE Shelf'
<1>1. /\ snapshots' = [snapshots EXCEPT ![second].db = db]
      /\ before' = [before EXCEPT ![second].db = db]
      /\ shared' = IF before[second].db = None THEN shared ELSE shared \cup {second}
      /\ UNCHANGED <<file, undone, cleaned>>
      /\ op' = [op EXCEPT !.pc = "copy log", !.id = second]
  BY DEF CopyDb
<1>2. /\ snapshots \in [Seconds -> CopyType] /\ before \in [Seconds -> CopyType]
      /\ second \in Seconds /\ db # None /\ op \in OpType
  BY Scripts DEF TypeOK, MigrationsTypeOK
<1>3. \A i \in Seconds : /\ before'[i].log = before[i].log
                         /\ before'[i].db = IF i = second THEN db ELSE before[i].db
                         /\ snapshots'[i].log = snapshots[i].log
                         /\ snapshots'[i].db = IF i = second THEN db ELSE snapshots[i].db
                         /\ snapshots[i] = before[i] => snapshots'[i] = before'[i]
  BY <1>1, <1>2 DEF CopyType
<1>4. Copies'
  <2>1. Copies
    BY DEF Shelf
  <2>2. ASSUME NEW i \in Seconds
        PROVE  /\ snapshots'[i].db \in {None, before'[i].db}
               /\ snapshots'[i].log \in {0, before'[i].log}
               /\ i \notin cleaned' => snapshots'[i] = before'[i]
    <3>1. /\ snapshots[i].db \in {None, before[i].db}
          /\ snapshots[i].log \in {0, before[i].log}
          /\ i \notin cleaned => snapshots[i] = before[i]
      BY <2>1 DEF Copies
    <3> QED BY <1>1, <1>3, <3>1
  <2> QED BY <2>2 DEF Copies
<1>5. \A r \in ReleaseType : Filed(r) => Filed(r)'
  BY <1>1, <1>2, <1>3 DEF Filed, ReleaseType
<1>6. \A r \in ReleaseType : Filed(r) /\ second \notin shared' => Other(r, second)
  BY <1>1 DEF Filed, Other
<1>7. /\ file.active \in ReleaseType /\ file.previous \in ReleaseType
      /\ op.read.active \in ReleaseType /\ op.read.previous \in ReleaseType
  BY DEF TypeOK, OpType, FileType
<1>8. \A u \in undone : Undid(u)' /\ (second \notin shared' => u.id # second)
  <2>1. \A u \in undone : Undid(u) /\ u.id \in Seconds
    BY DEF Shelf, TypeOK
  <2> QED BY <1>1, <1>2, <1>3, <2>1 DEF Undid
<1>9. Holds(op)'
  <2>1. op'.pc = "copy log" /\ op'.id = second /\ op'.read = op.read
    BY <1>1, <1>2 DEF OpType
  <2>2. /\ Filed(op.read.active) /\ Filed(op.read.previous)
        /\ Filed(file.active) /\ Filed(file.previous)
    BY DEF Shelf, Holds
  <2>3. before'[second].db # None
    BY <1>2, <1>3
  <2> QED BY <1>1, <1>5, <1>6, <1>7, <1>8, <2>1, <2>2, <2>3 DEF Holds, Other
<1> QED BY <1>1, <1>4, <1>5, <1>7, <1>8, <1>9 DEF Shelf

LEMMA CopyLogShelf ==
  ASSUME TypeOK, Shelf, CopyLog PROVE Shelf'
<1> DEFINE id == op.id
<1>1. /\ snapshots' = [snapshots EXCEPT ![id].log = log]
      /\ before' = [before EXCEPT ![id].log = log]
      /\ UNCHANGED <<file, undone, shared, cleaned>>
      /\ op' = [op EXCEPT !.pc = "load"] /\ op.pc = "copy log"
  BY DEF CopyLog, Turn, On
<1>2. /\ snapshots \in [Seconds -> CopyType] /\ before \in [Seconds -> CopyType]
      /\ id \in Seconds /\ op \in OpType
  BY DEF TypeOK, OpType
<1>3. \A i \in Seconds : /\ before'[i].db = before[i].db
                         /\ before'[i].log = IF i = id THEN log ELSE before[i].log
                         /\ snapshots'[i].db = snapshots[i].db
                         /\ snapshots'[i].log = IF i = id THEN log ELSE snapshots[i].log
                         /\ snapshots[i] = before[i] => snapshots'[i] = before'[i]
  BY <1>1, <1>2 DEF CopyType
<1>4. Copies'
  <2>1. Copies
    BY DEF Shelf
  <2>2. ASSUME NEW i \in Seconds
        PROVE  /\ snapshots'[i].db \in {None, before'[i].db}
               /\ snapshots'[i].log \in {0, before'[i].log}
               /\ i \notin cleaned' => snapshots'[i] = before'[i]
    <3>1. /\ snapshots[i].db \in {None, before[i].db}
          /\ snapshots[i].log \in {0, before[i].log}
          /\ i \notin cleaned => snapshots[i] = before[i]
      BY <2>1 DEF Copies
    <3>2. /\ before'[i].db = before[i].db /\ snapshots'[i].db = snapshots[i].db
          /\ i = id => before'[i].log = log /\ snapshots'[i].log = log
          /\ i # id => before'[i].log = before[i].log /\ snapshots'[i].log = snapshots[i].log
          /\ snapshots[i] = before[i] => snapshots'[i] = before'[i]
      BY <1>3
    <3>3. cleaned' = cleaned
      BY <1>1
    <3> HIDE DEF id
    <3>4. snapshots'[i].log \in {0, before'[i].log}
      BY <3>1, <3>2
    <3> QED BY <3>1, <3>2, <3>3, <3>4
  <2> QED BY <2>2 DEF Copies
<1>5. /\ before[id].db # None /\ Filed(op.read.active) /\ Filed(op.read.previous)
      /\ id \notin shared =>
           /\ Other(file.active, id) /\ Other(file.previous, id)
           /\ Other(op.read.active, id) /\ Other(op.read.previous, id)
           /\ \A u \in undone : u.id # id
  BY <1>1 DEF Shelf, Holds
<1>6. \A r \in ReleaseType : Filed(r) /\ (id \notin shared => Other(r, id)) => Filed(r)'
  BY <1>1, <1>2, <1>3 DEF Filed, Other, ReleaseType
<1>7. /\ file.active \in ReleaseType /\ file.previous \in ReleaseType
      /\ op.read.active \in ReleaseType /\ op.read.previous \in ReleaseType
  BY DEF TypeOK, OpType, FileType
<1>8. \A u \in undone : Undid(u)'
  <2>1. \A u \in undone : Undid(u) /\ u.id \in Seconds
    BY DEF Shelf, TypeOK
  <2> QED BY <1>1, <1>2, <1>3, <1>5, <2>1 DEF Undid
<1>9. Holds(op)'
  <2>1. op'.pc = "load" /\ op'.id = id /\ op'.read = op.read
    BY <1>1, <1>2 DEF OpType
  <2>2. before'[id].db # None
    BY <1>2, <1>3, <1>5
  <2> QED BY <1>1, <1>5, <1>6, <1>7, <2>1, <2>2 DEF Holds
<1> QED BY <1>1, <1>4, <1>5, <1>6, <1>7, <1>8, <1>9 DEF Shelf

LEMMA RestoreDbShelf ==
  ASSUME TypeOK, Shelf, RestoreDb PROVE Shelf'
<1> DEFINE copy == snapshots[op.id].db
<1>1. op.pc = "restore db" /\ op.read.active.id = op.id /\ op.id \in Seconds
  BY Restoring DEF RestoreDb, On
<1>2. /\ UNCHANGED <<snapshots, before, file, undone, shared, cleaned>>
      /\ db' = IF copy = None THEN db ELSE copy
      /\ op' = [op EXCEPT !.pc = "restore log", !.missing = copy = None, !.back.db = db']
  BY <1>1 DEF RestoreDb, Source
<1>3. copy \in {None, before[op.id].db}
  <2>1. Copies
    BY DEF Shelf
  <2> QED BY <1>1, <2>1 DEF Copies
<1>4. /\ op'.pc = "restore log" /\ op'.missing = (copy = None) /\ op'.back.db = db'
      /\ op'.read = op.read /\ op'.id = op.id
  BY <1>2 DEF TypeOK, OpType, CopyType
<1>5. Holds(op) => Holds(op')
  <2> HIDE DEF copy
  <2>1. ~op'.missing => op'.back.db = before[op.id].db
    BY <1>2, <1>3, <1>4
  <2> QED BY <1>1, <1>4, <2>1 DEF Holds
<1> QED BY <1>2, <1>5, Scripted

LEMMA RestoreLogShelf ==
  ASSUME TypeOK, Shelf, RestoreLog PROVE Shelf'
<1> DEFINE copy == snapshots[op.id].log
           wanted == op.read.active.log
           lost == wanted /\ copy = 0
           back == IF wanted /\ ~lost THEN copy ELSE log
<1>1. op.pc = "restore log" /\ op.read.active.id = op.id /\ op.id \in Seconds
  BY Restoring DEF RestoreLog, On
<1>2. /\ UNCHANGED <<snapshots, before, file, undone, shared, cleaned>>
      /\ op' = IF op.missing \/ lost THEN Resting
               ELSE [op EXCEPT !.pc = "save rollback", !.back.log = back]
  BY <1>1 DEF RestoreLog, Source
<1>3. copy \in {0, before[op.id].log}
  <2>1. Copies
    BY DEF Shelf
  <2> QED BY <1>1, <2>1 DEF Copies
<1>4. CASE op.missing \/ lost
  <2>1. op' = Resting
    BY <1>2, <1>4
  <2> QED BY <1>2, <2>1, Scripted, RestingHolds
<1>5. CASE ~(op.missing \/ lost)
  <2>1. op' = [op EXCEPT !.pc = "save rollback", !.back.log = back]
    BY <1>2, <1>5
  <2>2. wanted => back = before[op.id].log
    BY <1>3, <1>5
  <2> HIDE DEF back
  <2>3. /\ op'.pc = "save rollback" /\ op'.back.db = op.back.db /\ op'.back.log = back
        /\ op'.read = op.read /\ op'.id = op.id
    BY <2>1 DEF TypeOK, OpType, CopyType
  <2>4. Holds(op) => Holds(op')
    BY <1>1, <1>5, <2>2, <2>3 DEF Holds
  <2> QED BY <1>2, <2>4, Scripted
<1> QED BY <1>4, <1>5

LEMMA EmptyShelf ==
  ASSUME TypeOK, Shelf, Empty PROVE Shelf'
<1>1. /\ UNCHANGED <<snapshots, op, before, undone, shared, cleaned>>
      /\ file' = [file EXCEPT !.torn = TRUE]
  BY DEF Empty
<1>2. file'.active = file.active /\ file'.previous = file.previous
  BY <1>1 DEF TypeOK, FileType
<1>3. Copies' /\ (\A u \in undone : Undid(u))'
  BY <1>1 DEF Shelf, Copies, Undid
<1>4. \A r : Filed(r) => Filed(r)'
  BY <1>1 DEF Filed
<1>5. Holds(op)'
  <2>1. Holds(op)
    BY DEF Shelf
  <2> QED BY <1>1, <1>2, <1>4, <2>1 DEF Holds, Other
<1> QED BY <1>1, <1>2, <1>3, <1>4, <1>5 DEF Shelf

LEMMA FillShelf ==
  ASSUME TypeOK, Shelf, Fill PROVE Shelf'
<1>1. /\ UNCHANGED <<snapshots, before, shared, cleaned>> /\ op' = Resting
      /\ op.pc \in {"save deploy", "save rollback"}
  BY DEF Fill, On
<1>2. Holds(op)' /\ Copies'
  <2>1. Copies'
    BY <1>1 DEF Shelf, Copies
  <2> QED BY <1>1, <2>1 DEF Holds, Resting, NoFile, Filed
<1>3. \A r : Filed(r) => Filed(r)'
  BY <1>1 DEF Filed
<1>4. \A u : Undid(u) => Undid(u)'
  BY <1>1 DEF Undid
<1>5. Holds(op) /\ (\A u \in undone : Undid(u)) /\ Filed(None)
  BY DEF Shelf, Filed
<1>6. CASE op.pc = "save deploy"
  <2>1. /\ file'.active = [id |-> op.id, log |-> Copied(op.id)]
        /\ file'.previous = op.read.active /\ undone' = undone
    BY <1>6 DEF Fill, On, Deployed
  <2>2. Filed([id |-> op.id, log |-> Copied(op.id)])
    BY <1>5, <1>6 DEF Filed, Copied, Holds
  <2>3. Filed(op.read.active)
    BY <1>5 DEF Holds
  <2> QED BY <1>2, <1>3, <1>4, <1>5, <2>1, <2>2, <2>3 DEF Shelf
<1>7. CASE op.pc = "save rollback"
  <2> DEFINE u == [id |-> op.id, log |-> op.read.active.log, back |-> op.back]
  <2>1. /\ file'.active = op.read.previous /\ file'.previous = None
        /\ undone' = undone \cup {u}
    BY <1>7 DEF Fill, On, RolledBack
  <2>2. Undid(u)
    BY <1>5, <1>7 DEF Undid, Holds, Filed
  <2>3. Filed(op.read.previous)
    BY <1>5 DEF Holds
  <2> HIDE DEF u
  <2> QED BY <1>2, <1>3, <1>4, <1>5, <2>1, <2>2, <2>3 DEF Shelf
<1> QED BY <1>1, <1>6, <1>7

LEMMA CleanShelf ==
  ASSUME TypeOK, Shelf, NEW i \in Seconds, Clean(i) PROVE Shelf'
<1>1. /\ UNCHANGED <<file, op, before, undone, shared>>
      /\ snapshots' = [snapshots EXCEPT ![i] = NoFiles] /\ cleaned' = cleaned \cup {i}
  BY DEF Clean
<1>2. Copies'
  <2>1. snapshots \in [Seconds -> CopyType]
    BY DEF TypeOK
  <2>2. \A j \in Seconds : snapshots'[j] = IF j = i THEN NoFiles ELSE snapshots[j]
    BY <1>1, <2>1
  <2>3. NoFiles.db = None /\ NoFiles.log = 0
    BY DEF NoFiles
  <2> QED BY <1>1, <2>2, <2>3 DEF Shelf, Copies
<1>3. (\A u \in undone : Undid(u))' /\ \A r : Filed(r) => Filed(r)'
  BY <1>1 DEF Shelf, Filed, Undid
<1>4. Holds(op)'
  <2>1. Holds(op)
    BY DEF Shelf
  <2> QED BY <1>1, <1>3, <2>1 DEF Holds, Other
<1> QED BY <1>1, <1>2, <1>3, <1>4 DEF Shelf

LEMMA NextShelf ==
  ASSUME TypeOK, Shelf, Next PROVE Shelf'
<1>1. CASE \/ Verify \/ Deploy \/ Verified \/ Checked \/ Load \/ Rollback \/ KillScript \/ Tick
           \/ \E p \in Processes : Service(p) \/ Migrate(p) \/ Write(p)
  BY <1>1, StepsAside
<1>2. CASE CopyDb \/ CopyLog \/ RestoreDb \/ RestoreLog \/ Empty \/ Fill
  BY <1>2, CopyDbShelf, CopyLogShelf, RestoreDbShelf, RestoreLogShelf, EmptyShelf, FillShelf
<1>3. CASE \E i \in Seconds : Clean(i)
  BY <1>3, CleanShelf
<1> QED BY <1>1, <1>2, <1>3 DEF Next

-----------------------------------------------------------------------------
(* The ledger.                                                             *)

\* The function on sets of indices that FoldLeft takes of the first n entries of
\* a history.
Folding(f, h, n) ==
  f = [S \in SUBSET (1 .. n) |->
         IF S = {} THEN Unreplayed ELSE Replay(f[S \ {Max(S)}], h[Max(S)])]

\* A set of indices that is not empty has a greatest: the least of its bounds.
LEMMA MaxIs ==
  ASSUME NEW n \in Nat, NEW S \in SUBSET (1 .. n), S # {}
  PROVE  Max(S) \in S /\ \A x \in S : x <= Max(S)
<1> DEFINE T == {u \in Nat : \A x \in S : x <= u}
<1>1. n \in T
  OBVIOUS
<1>2. PICK u \in T : \A v \in T : u <= v
  BY <1>1, Least
<1>3. u \in S
  <2>1. SUFFICES ASSUME u \notin S PROVE FALSE
    OBVIOUS
  <2>2. PICK y \in S : TRUE
    OBVIOUS
  <2>3. u - 1 \in Nat /\ \A x \in S : x <= u - 1
    BY <2>1, <2>2
  <2>4. u - 1 \in T
    BY <2>3
  <2> QED BY <1>2, <2>4
<1>4. \E m \in S : \A x \in S : m >= x
  BY <1>3
<1>5. Max(S) = CHOOSE m \in S : \A x \in S : m >= x
  BY DEF Max
<1>6. Max(S) \in S /\ \A x \in S : Max(S) >= x
  BY <1>4, <1>5
<1> QED BY <1>6

\* What FoldLeft says it returns.
LEMMA FoldLeftIs ==
  ASSUME NEW h, NEW n \in Nat, DOMAIN h = 1 .. n
  PROVE  Replayed(h) = (CHOOSE f : Folding(f, h, n))[1 .. n]
BY DEF Replayed, FoldLeft, MapThenFoldSet, Folding

\* There is such a function for every number of entries: the least number without
\* one would have one, made of its predecessor's.
LEMMA FoldingExists ==
  ASSUME NEW h, NEW n \in Nat PROVE \E f : Folding(f, h, n)
<1> DEFINE T == {k \in Nat : ~\E f : Folding(f, h, k)}
<1>1. SUFFICES ASSUME T # {} PROVE FALSE
  OBVIOUS
<1>2. PICK k \in T : \A j \in T : k <= j
  BY <1>1, Least
<1>3. k # 0
  <2>1. SUBSET (1 .. 0) = {{}}
    OBVIOUS
  <2>2. Folding([S \in {{}} |-> Unreplayed], h, 0)
    BY <2>1 DEF Folding
  <2> QED BY <1>2, <2>2
<1>4. k \in Nat /\ k - 1 \in Nat /\ k - 1 \notin T
  <2>1. k \in Nat /\ k - 1 \in Nat /\ ~(k <= k - 1)
    BY <1>2, <1>3
  <2> QED BY <1>2, <2>1
<1>5. PICK f : Folding(f, h, k - 1)
  BY <1>4
<1> DEFINE g == [S \in SUBSET (1 .. k) |->
                   IF k \in S THEN Replay(f[S \ {k}], h[k]) ELSE f[S]]
<1>6. ASSUME NEW S \in SUBSET (1 .. k)
      PROVE  g[S] = IF S = {} THEN Unreplayed ELSE Replay(g[S \ {Max(S)}], h[Max(S)])
  <2>1. S = {} => g[S] = Unreplayed
    BY <1>4, <1>5 DEF Folding
  <2>2. ASSUME k \in S PROVE Max(S) = k /\ g[S \ {k}] = f[S \ {k}]
    <3>1. Max(S) \in S /\ k <= Max(S)
      BY <1>4, <2>2, MaxIs
    <3>2. Max(S) \in 1 .. k
      BY <3>1
    <3>3. Max(S) = k
      BY <1>4, <3>1, <3>2
    <3> QED BY <3>3
  <2>3. ASSUME k \notin S, S # {}
        PROVE  /\ S \in SUBSET (1 .. k - 1)
               /\ Max(S) \in S
               /\ g[S \ {Max(S)}] = f[S \ {Max(S)}]
    <3>1. S \in SUBSET (1 .. k - 1)
      BY <1>4, <2>3
    <3>2. Max(S) \in S
      BY <1>4, <2>3, <3>1, MaxIs
    <3> QED BY <2>3, <3>1, <3>2
  <2>4. k \in S => g[S] = Replay(g[S \ {Max(S)}], h[Max(S)])
    BY <2>2
  <2>5. k \notin S /\ S # {} => g[S] = Replay(g[S \ {Max(S)}], h[Max(S)])
    <3> SUFFICES ASSUME k \notin S, S # {} PROVE g[S] = Replay(g[S \ {Max(S)}], h[Max(S)])
      OBVIOUS
    <3>1. f[S] = Replay(f[S \ {Max(S)}], h[Max(S)])
      BY <1>5, <2>3 DEF Folding
    <3> QED BY <2>3, <3>1
  <2> QED BY <2>1, <2>4, <2>5
<1>7. Folding(g, h, k)
  BY <1>6 DEF Folding
<1> QED BY <1>2, <1>7

\* What it makes of the first entries does not depend on those that follow.
LEMMA FoldingAgrees ==
  ASSUME NEW m \in Nat, NEW n \in Nat, m <= n, NEW f, NEW g, NEW h, NEW e,
         Folding(f, h, m), Folding(g, e, n), \A i \in 1 .. m : h[i] = e[i]
  PROVE  \A S \in SUBSET (1 .. m) : f[S] = g[S]
<1> DEFINE T == {k \in 0 .. m : \E S \in SUBSET (1 .. k) : f[S] # g[S]}
<1>1. SUFFICES ASSUME T # {} PROVE FALSE
  <2>1. m \in T \/ \A S \in SUBSET (1 .. m) : f[S] = g[S]
    OBVIOUS
  <2> QED BY <1>1, <2>1
<1>2. PICK k \in T : \A j \in T : k <= j
  <2>1. T \in SUBSET Nat
    OBVIOUS
  <2> HIDE DEF T
  <2> QED BY <1>1, <2>1, Least
<1>3. PICK S \in SUBSET (1 .. k) : f[S] # g[S]
  BY <1>2
<1>4. S \in SUBSET (1 .. m) /\ S \in SUBSET (1 .. n)
  BY <1>2
<1>5. S # {}
  BY <1>3, <1>4 DEF Folding
<1>6. /\ f[S] = Replay(f[S \ {Max(S)}], h[Max(S)])
      /\ g[S] = Replay(g[S \ {Max(S)}], e[Max(S)])
  BY <1>4, <1>5 DEF Folding
<1>7. Max(S) \in S /\ \A x \in S : x <= Max(S)
  BY <1>4, <1>5, MaxIs
<1>8. S \ {Max(S)} \in SUBSET (1 .. k - 1) /\ k - 1 \in 0 .. m /\ k \in Nat
  <2>1. k \in 0 .. m /\ Max(S) \in 1 .. k
    <3>1. k \in 0 .. m
      BY <1>2
    <3> QED BY <1>3, <1>7, <3>1
  <2>2. \A x \in S \ {Max(S)} : x \in 1 .. k /\ x <= Max(S) /\ x # Max(S)
    BY <1>3, <1>7
  <2>3. \A x \in S \ {Max(S)} : x \in 1 .. k - 1
    BY <2>1, <2>2
  <2>4. k - 1 \in 0 .. m /\ k \in Nat
    BY <2>1
  <2> QED BY <2>3, <2>4
<1>9. k - 1 \notin T
  <2>1. ~(k <= k - 1)
    BY <1>8
  <2> QED BY <1>2, <2>1
<1>10. f[S \ {Max(S)}] = g[S \ {Max(S)}]
  BY <1>8, <1>9
<1> QED BY <1>3, <1>4, <1>6, <1>7, <1>10

\* The two equations of the fold.
LEMMA ReplayNothing == Replayed(<<>>) = Unreplayed
<1>1. DOMAIN <<>> = 1 .. 0
  OBVIOUS
<1>2. Folding((CHOOSE f : Folding(f, <<>>, 0)), <<>>, 0)
  BY FoldingExists
<1>3. Replayed(<<>>) = (CHOOSE f : Folding(f, <<>>, 0))[1 .. 0]
  BY <1>1, FoldLeftIs
<1> DEFINE f == CHOOSE f : Folding(f, <<>>, 0)
<1> HIDE DEF f
<1>4. f[{}] = Unreplayed
  BY <1>2 DEF Folding, f
<1>5. 1 .. 0 = {}
  OBVIOUS
<1> QED BY <1>3, <1>4, <1>5 DEF f

LEMMA ReplayOneMore ==
  ASSUME NEW E, NEW h \in Seq(E), NEW e \in E
  PROVE  Replayed(Append(h, e)) = Replay(Replayed(h), e)
<1> DEFINE n == Len(h)
           l == Append(h, e)
<1>1. /\ n \in Nat /\ DOMAIN h = 1 .. n /\ DOMAIN l = 1 .. n + 1 /\ l[n + 1] = e
      /\ \A i \in 1 .. n : l[i] = h[i]
  BY LenProperties, AppendProperties
<1> HIDE DEF l, n
<1> DEFINE f == CHOOSE x : Folding(x, h, n)
           g == CHOOSE x : Folding(x, l, n + 1)
<1>2. Folding(f, h, n) /\ Replayed(h) = f[1 .. n]
  BY <1>1, FoldingExists, FoldLeftIs
<1>3. Folding(g, l, n + 1) /\ Replayed(l) = g[1 .. n + 1]
  <2>1. n + 1 \in Nat
    BY <1>1
  <2>2. \E x : Folding(x, l, n + 1)
    BY <2>1, FoldingExists
  <2> QED BY <1>1, <2>1, <2>2, FoldLeftIs
<1> HIDE DEF f, g
<1>4. Max(1 .. n + 1) = n + 1
  <2>1. 1 .. n + 1 # {} /\ n + 1 \in 1 .. n + 1 /\ n + 1 \in Nat
    <3>1. n \in Nat
      BY <1>1
    <3>2. n + 1 \in 1 .. n + 1
      BY <3>1
    <3>3. n + 1 \in Nat
      BY <3>1
    <3>4. 1 .. n + 1 # {}
      BY <3>2
    <3> QED BY <3>2, <3>3, <3>4
  <2>2. 1 .. n + 1 \in SUBSET (1 .. n + 1)
    OBVIOUS
  <2>3. Max(1 .. n + 1) \in 1 .. n + 1 /\ n + 1 <= Max(1 .. n + 1)
    BY <2>1, <2>2, MaxIs
  <2> QED BY <1>1, <2>3
<1>5. g[1 .. n + 1] = Replay(g[1 .. n], e)
  <2>1. (1 .. n + 1) \ {n + 1} = 1 .. n /\ 1 .. n + 1 # {}
    BY <1>1
  <2>2. 1 .. n + 1 \in SUBSET (1 .. n + 1)
    OBVIOUS
  <2>3. g[1 .. n + 1]
          = IF 1 .. n + 1 = {} THEN Unreplayed
            ELSE Replay(g[(1 .. n + 1) \ {Max(1 .. n + 1)}], l[Max(1 .. n + 1)])
    BY <1>3, <2>2 DEF Folding
  <2>4. g[1 .. n + 1] = Replay(g[1 .. n], l[n + 1])
    BY <1>4, <2>1, <2>3
  <2> QED BY <1>1, <2>4
<1>6. g[1 .. n] = f[1 .. n]
  BY <1>1, <1>2, <1>3, FoldingAgrees
<1> QED BY <1>2, <1>3, <1>5, <1>6 DEF l

LEMMA ShortIsKept ==
  ASSUME NEW h, Len(h) <= HistoryLimit PROVE Kept(h) = h
BY DEF Kept

\* What is cut off a history is its oldest entries.
LEMMA LastIsKept ==
  ASSUME NEW S, NEW h \in Seq(S), NEW e \in S
  PROVE  LastEntries(Kept(Append(h, e))) = {e}
<1> DEFINE a == Append(h, e)
           n == Len(a)
           k == Kept(a)
<1>1. a \in Seq(S) /\ n \in Nat /\ 1 <= n /\ a[n] = e
  BY AppendProperties, LenProperties
<1>2. HistoryLimit \in Nat /\ 1 <= HistoryLimit
  BY Bounds
<1>3. k \in Seq(S) /\ Len(k) \in Nat
  BY <1>1, KeptType, LenProperties
<1>4. 1 <= Len(k) /\ k[Len(k)] = e
  <2>1. CASE n <= HistoryLimit
    BY <1>1, <2>1, ShortIsKept
  <2>2. CASE ~(n <= HistoryLimit)
    <3> DEFINE m == n - HistoryLimit + 1
    <3>1. k = SubSeq(a, m, n) /\ m \in 1 .. n /\ n - m + 1 = HistoryLimit
      BY <1>1, <1>2, <2>2 DEF Kept
    <3>2. m \in Int /\ n \in Int /\ \A i \in m .. n : i \in 1 .. n
      BY <1>1, <3>1
    <3>3. \A i \in m .. n : a[i] \in S
      BY <1>1, <3>2, ElementOfSeq
    <3> HIDE DEF m, n, a, k
    <3>4. /\ Len(SubSeq(a, m, n)) = IF m <= n THEN n - m + 1 ELSE 0
          /\ \A i \in 1 .. n - m + 1 : SubSeq(a, m, n)[i] = a[m + i - 1]
      BY <3>2, <3>3, SubSeqProperties
    <3>5. Len(k) = HistoryLimit
      BY <1>1, <3>1, <3>4
    <3>6. HistoryLimit \in 1 .. n - m + 1 /\ m + HistoryLimit - 1 = n
      BY <1>1, <1>2, <3>1
    <3> QED BY <1>1, <1>2, <3>1, <3>4, <3>5, <3>6
  <2> QED BY <2>1, <2>2
<1>5. DOMAIN k = 1 .. Len(k)
  BY <1>3, LenProperties
<1> HIDE DEF k
<1> QED BY <1>3, <1>4, <1>5 DEF LastEntries, k

\* What keeps the ledger besides the state file: no script begins a change
\* without reading the file, and none is begun that is not counted.
LEMMA Aside ==
  ASSUME TypeOK, Ledger, file' = file, ops' \in Nat,
         ops' = ops + 1 \/ (ops' = ops /\ (On("rest") => op'.pc = "rest")),
         Changing(op') => op'.read = [file EXCEPT !.torn = FALSE]
  PROVE  Ledger'
<1>1. Len(file.history) \in Nat /\ ops \in Nat
  BY Bounds, LenProperties DEF TypeOK, FileType
<1>2. /\ Len(file'.history) <= ops'
      /\ op'.pc # "rest" => Len(file'.history) + 1 <= ops'
  <2>1. Len(file.history) <= ops /\ (op.pc # "rest" => Len(file.history) + 1 <= ops)
    BY DEF Ledger, On
  <2>2. CASE ops' = ops + 1
    BY <1>1, <2>1, <2>2
  <2>3. CASE ops' = ops /\ (op.pc = "rest" => op'.pc = "rest")
    BY <1>1, <2>1, <2>3
  <2> QED BY <2>2, <2>3 DEF On
<1>3. HistoryReplays'
  <2>1. ops' <= HistoryLimit => ops <= HistoryLimit
    BY <1>1, Bounds
  <2> QED BY <2>1 DEF Ledger, HistoryReplays
<1> QED BY <1>2, <1>3 DEF Ledger, On

LEMMA FillLedger ==
  ASSUME TypeOK, Shelf, Ledger, Fill PROVE Ledger'
<1> DEFINE E == {"deploy", "rollback"} \X Seconds
           entry == IF On("save deploy") THEN <<"deploy", op.id>>
                                         ELSE <<"rollback", op.read.active.id>>
           h == file.history
<1>1. /\ op.pc \in {"save deploy", "save rollback"} /\ op' = Resting /\ ops' = ops
      /\ file' = IF op.pc = "save deploy" THEN Deployed(op.read) ELSE RolledBack(op.read)
  BY DEF Fill, On
<1>2. /\ op.read.active = file.active /\ op.read.previous = file.previous
      /\ op.read.history = file.history
  <2>1. op.read = [file EXCEPT !.torn = FALSE] /\ file \in FileType
    BY <1>1 DEF Ledger, Changing, TypeOK
  <2> QED BY <2>1 DEF FileType
<1>3. /\ op.pc = "save rollback" => file.active # None
      /\ op.id \in Seconds /\ op.read \in FileType /\ h \in Seq(E) /\ file.active \in ReleaseType
  BY <1>2 DEF Shelf, Holds, TypeOK, OpType, FileType
<1>4. entry \in E
  <2>1. CASE op.pc = "save deploy"
    BY <1>3, <2>1 DEF On
  <2>2. CASE op.pc = "save rollback"
    <3>1. op.read.active.id \in Seconds
      BY <1>2, <1>3, <2>2 DEF ReleaseType
    <3> QED BY <2>2, <3>1 DEF On
  <2> QED BY <1>1, <2>1, <2>2
<1>5. Len(h) \in Nat /\ ops \in Nat /\ Len(h) + 1 <= ops /\ HistoryLimit \in Nat
  <2>1. ops \in Nat /\ HistoryLimit \in Nat
    BY Bounds DEF TypeOK
  <2>2. Len(file.history) + 1 <= ops
    <3>1. op.pc # "rest"
      BY <1>1
    <3> QED BY <3>1 DEF Ledger, On
  <2> QED BY <1>3, <2>1, <2>2, LenProperties
<1>6. file'.history = Kept(Append(h, entry))
  BY <1>1, <1>2 DEF Deployed, RolledBack, On
<1> HIDE DEF entry, E
<1>7. Append(h, entry) \in Seq(E) /\ Len(Append(h, entry)) = Len(h) + 1
  BY <1>3, <1>4, AppendProperties
<1>8. Len(file'.history) <= ops
  <2>1. CASE Len(h) + 1 <= HistoryLimit
    BY <1>5, <1>6, <1>7, <2>1, ShortIsKept
  <2>2. CASE ~(Len(h) + 1 <= HistoryLimit)
    <3>1. file'.history \in Seq(E) /\ Len(file'.history) <= HistoryLimit
      BY <1>6, <1>7, KeptType
    <3>2. Len(file'.history) \in Nat
      BY <3>1, LenProperties
    <3> QED BY <1>5, <2>2, <3>1, <3>2
  <2> QED BY <2>1, <2>2
<1>9. ASSUME ops <= HistoryLimit
      PROVE  Replayed(file'.history) = [active   |-> IdOf(file'.active),
                                        previous |-> IdOf(file'.previous)]
  <2>1. Replayed(h) = [active |-> IdOf(file.active), previous |-> IdOf(file.previous)]
    BY <1>9 DEF Ledger, HistoryReplays
  <2>2. Len(h) + 1 <= HistoryLimit
    BY <1>5, <1>9
  <2>3. file'.history = Append(h, entry)
    BY <1>6, <1>7, <2>2, ShortIsKept
  <2>4. Replayed(file'.history) = Replay(Replayed(h), entry)
    BY <1>3, <1>4, <2>3, ReplayOneMore
  <2>5. CASE op.pc = "save deploy"
    <3>1. /\ file'.active = [id |-> op.id, log |-> Copied(op.id)]
          /\ file'.previous = file.active /\ entry = <<"deploy", op.id>>
      BY <1>1, <1>2, <2>5 DEF Deployed, On, entry
    <3>2. [id |-> op.id, log |-> Copied(op.id)] # None
      <4>1. Copied(op.id) \in BOOLEAN
        BY DEF Copied
      <4>2. [id |-> op.id, log |-> Copied(op.id)] \in [id : Seconds, log : BOOLEAN]
        BY <1>3, <4>1
      <4> QED BY <4>2, NoneAssumption
    <3>3. IdOf(file'.active) = op.id /\ IdOf(file'.previous) = IdOf(file.active)
      BY <3>1, <3>2 DEF IdOf
    <3>4. Replay(Replayed(h), entry) = [active |-> op.id, previous |-> IdOf(file.active)]
      BY <2>1, <3>1 DEF Replay
    <3> QED BY <2>4, <3>3, <3>4
  <2>6. CASE op.pc = "save rollback"
    <3>1. /\ file'.active = file.previous /\ file'.previous = None
          /\ entry[1] = "rollback"
      BY <1>1, <1>2, <2>6 DEF RolledBack, On, entry
    <3>2. Replay(Replayed(h), entry) = [active |-> IdOf(file.previous), previous |-> None]
      BY <2>1, <3>1 DEF Replay
    <3>3. IdOf(None) = None
      BY DEF IdOf
    <3> QED BY <2>4, <3>1, <3>2, <3>3
  <2> QED BY <1>1, <2>5, <2>6
<1>10. Resting.pc = "rest" /\ ~Changing(Resting)
  BY DEF Resting, Changing
<1>11. ASSUME NEW e \in LastEntries(file'.history)
       PROVE  IF e[1] = "deploy" THEN IdOf(file'.active) = e[2] ELSE file'.previous = None
  <2>1. e = entry
    <3>1. LastEntries(Kept(Append(h, entry))) = {entry}
      BY <1>3, <1>4, LastIsKept
    <3> QED BY <1>6, <1>11, <3>1
  <2>2. CASE op.pc = "save deploy"
    <3>1. /\ file'.active = [id |-> op.id, log |-> Copied(op.id)]
          /\ e[1] = "deploy" /\ e[2] = op.id
      BY <1>1, <2>1, <2>2 DEF Deployed, On, entry
    <3>2. Copied(op.id) \in BOOLEAN
      BY DEF Copied
    <3>3. [id |-> op.id, log |-> Copied(op.id)] \in [id : Seconds, log : BOOLEAN]
      BY <1>3, <3>2
    <3> QED BY <3>1, <3>3, NoneAssumption DEF IdOf
  <2>3. CASE op.pc = "save rollback"
    BY <1>1, <2>1, <2>3 DEF RolledBack, On, entry
  <2> QED BY <1>1, <2>2, <2>3
<1>12. HistoryReplays'
  BY <1>1, <1>9, <1>11 DEF HistoryReplays
<1> QED BY <1>1, <1>8, <1>10, <1>12 DEF Ledger, On

LEMMA NextLedger ==
  ASSUME TypeOK, Shelf, Ledger, Next PROVE Ledger'
<1>1. ops \in Nat /\ file \in FileType /\ op \in OpType
  BY Bounds DEF TypeOK
<1>2. file.torn \/ file = [file EXCEPT !.torn = FALSE]
  BY <1>1 DEF FileType
<1>3. CASE Verify \/ Deploy
  <2>1. file' = file /\ ops' = ops + 1 /\ op'.pc \in {"verify", "check"}
    BY <1>1, <1>3 DEF Verify, Deploy, Check, Turn, OpType
  <2>2. ops' \in Nat
    BY <1>1, <2>1
  <2>3. ~Changing(op')
    BY <2>1 DEF Changing
  <2> QED BY <2>1, <2>2, <2>3, Aside
<1>4. CASE Rollback
  <2>1. file' = file /\ ops' = ops + 1 /\ op'.read = file /\ ~file.torn
    BY <1>4 DEF Rollback, Resting
  <2> QED BY <1>1, <1>2, <2>1, Aside
<1>5. CASE Load
  <2>1. file' = file /\ ops' = ops /\ ~On("rest")
    BY <1>5 DEF Load, On
  <2>2. \/ op'.pc = "rest"
        \/ op'.read = file /\ ~file.torn
    BY <1>1, <1>5 DEF Load, Resting, OpType
  <2> QED BY <1>1, <1>2, <2>1, <2>2, Aside DEF Changing
<1>6. CASE Verified \/ Checked \/ CopyDb \/ CopyLog \/ KillScript
  <2>1. file' = file /\ ops' = ops /\ ~On("rest") /\ op'.pc \in {"rest", "copy db", "copy log", "load"}
    <3>1. CASE Verified \/ KillScript
      <4>1. op' = Resting /\ file' = file /\ ops' = ops /\ op.pc # "rest"
        BY <3>1 DEF Verified, KillScript, On
      <4> QED BY <4>1 DEF On, Resting
    <3>2. CASE Checked \/ CopyLog
      BY <1>1, <3>2 DEF Checked, CopyLog, Turn, On, OpType
    <3>3. CASE CopyDb
      BY <1>1, <3>3 DEF CopyDb, On, OpType
    <3> QED BY <1>6, <3>1, <3>2, <3>3
  <2> QED BY <1>1, <2>1, Aside DEF Changing
<1>7. CASE RestoreDb \/ RestoreLog
  <2>1. file' = file /\ ops' = ops /\ ~On("rest") /\ Changing(op)
    BY <1>7 DEF RestoreDb, RestoreLog, On, Changing
  <2>2. op'.pc = "rest" \/ op'.read = op.read
    <3>1. CASE RestoreDb
      <4>1. PICK gone, back : op' = [op EXCEPT !.pc = "restore log", !.missing = gone, !.back.db = back]
        BY <3>1 DEF RestoreDb
      <4> QED BY <1>1, <4>1 DEF OpType
    <3>2. CASE RestoreLog
      <4>1. \/ op' = Resting
            \/ \E back : op' = [op EXCEPT !.pc = "save rollback", !.back.log = back]
        BY <3>2 DEF RestoreLog
      <4>2. Resting.pc = "rest"
        BY DEF Resting
      <4>3. \A back : [op EXCEPT !.pc = "save rollback", !.back.log = back].read = op.read
        BY <1>1 DEF OpType
      <4> QED BY <4>1, <4>2, <4>3
    <3> QED BY <1>7, <3>1, <3>2
  <2> QED BY <1>1, <2>1, <2>2, Aside DEF Changing, Ledger
<1>8. CASE Empty
  <2>1. /\ file' = [file EXCEPT !.torn = TRUE] /\ op' = op /\ ops' = ops
    BY <1>8 DEF Empty
  <2>2. /\ file'.history = file.history /\ file'.active = file.active
        /\ file'.previous = file.previous
        /\ [file' EXCEPT !.torn = FALSE] = [file EXCEPT !.torn = FALSE]
    BY <1>1, <2>1 DEF FileType
  <2> QED BY <2>1, <2>2 DEF Ledger, HistoryReplays, On
<1>9. CASE Fill
  BY <1>9, FillLedger
<1>10. CASE \/ Tick
            \/ \E p \in Processes : Service(p) \/ Migrate(p) \/ Write(p)
            \/ \E i \in Seconds : Clean(i)
  <2>1. UNCHANGED <<file, op, ops>>
    BY <1>10 DEF Tick, Service, Migrate, Write, Clean, releaseVars
  <2> QED BY <1>1, <2>1, Aside DEF Ledger, On
<1> QED BY <1>3, <1>4, <1>5, <1>6, <1>7, <1>8, <1>9, <1>10 DEF Next

-----------------------------------------------------------------------------
(* The theorems.                                                           *)

LEMMA Starts == Init => RInv
<1> SUFFICES ASSUME Init PROVE RInv
  OBVIOUS
<1>1. NoDb \in DbType
  <2>1. <<>> \in Seq(Ids)
    OBVIOUS
  <2> QED BY <2>1 DEF NoDb, DbType
<1>2. MigrationsTypeOK
  <2>1. /\ db = NoDb /\ proc = [p \in Processes |-> Off] /\ starts = 0 /\ failed = FALSE
        /\ causes = {}
    BY DEF Init, MigrationsInit
  <2>2. 0 \in 0 .. MaxStarts
    BY Bounds
  <2> QED BY <1>1, <2>1, <2>2, OffType DEF MigrationsTypeOK
<1>3. NoFile \in FileType /\ NoFiles \in CopyType /\ Len(NoFile.history) <= HistoryLimit
  <2>1. <<>> \in Seq({"deploy", "rollback"} \X Seconds) /\ Len(<<>>) = 0
    OBVIOUS
  <2> QED BY <2>1, Bounds DEF NoFile, NoFiles, FileType, CopyType, ReleaseType
<1>4. TypeOK
  BY <1>2, <1>3, RestingType, OffType, Bounds DEF Init, MigrationsInit, TypeOK
<1>5. /\ \A p \in Processes : proc[p].pc = "off"
      /\ db.columns = [m \in Ids |-> 0] /\ Len(db.applied) = 0
      /\ \A i \in Seconds : snapshots[i].db = None
      /\ ~failed
  BY DEF Init, MigrationsInit, Off, NoDb, NoFiles
<1>6. Schema
  <2>1. Sane
    BY <1>5 DEF Sane, AtWork, Adding, Doing, Migrating, Sound
  <2>2. Pristine
    BY <1>5 DEF Pristine, AtWork, Migrating, Bare
  <2> QED BY <1>5, <2>1, <2>2, Bounds DEF Schema
<1>7. Shelf
  <2>1. Holds(op) /\ Filed(file.active) /\ Filed(file.previous)
    BY RestingHolds DEF Init, NoFile, Filed
  <2> QED BY <2>1 DEF Init, Shelf, Copies, NoFiles
<1>8. Ledger
  <2>1. op.pc = "rest" /\ file = NoFile /\ ops = 0 /\ Len(<<>>) = 0
    BY DEF Init, Resting
  <2>2. NoFile.history = <<>> /\ IdOf(NoFile.active) = None /\ IdOf(NoFile.previous) = None
    BY DEF NoFile, IdOf
  <2>3. HistoryReplays
    <3>1. LastEntries(<<>>) = {}
      BY DEF LastEntries
    <3> QED BY <2>1, <2>2, <3>1, ReplayNothing DEF HistoryReplays, Unreplayed
  <2> QED BY <2>1, <2>2, <2>3 DEF Ledger, On, Changing
<1> QED BY <1>4, <1>6, <1>7, <1>8 DEF RInv

LEMMA Steps == RInv /\ [Next]_vars => RInv'
<1> SUFFICES ASSUME RInv, [Next]_vars PROVE RInv'
  OBVIOUS
<1>1. TypeOK /\ Schema /\ Shelf /\ Ledger
  BY DEF RInv
<1>2. CASE Next
  BY <1>1, <1>2, NextTypes, NextSchema, NextShelf, NextLedger DEF RInv
<1>3. CASE UNCHANGED vars
  <2>1. TypeOK'
    BY <1>1, <1>3 DEF TypeOK, MigrationsTypeOK, vars, migrationVars, releaseVars, On
  <2>2. Schema'
    BY <1>1, <1>3 DEF Schema, Orderly, Untouched, Sane, Pristine, vars, migrationVars, releaseVars
  <2>3. Shelf'
    <3>1. UNCHANGED <<snapshots, op, before, file, undone, shared, cleaned>>
      BY <1>3 DEF vars, releaseVars
    <3> QED BY <1>1, <3>1, Scripted
  <2>4. Ledger'
    <3>1. UNCHANGED <<file, op, ops>>
      BY <1>3 DEF vars, releaseVars
    <3> QED BY <1>1, <3>1 DEF Ledger, HistoryReplays, On
  <2> QED BY <2>1, <2>2, <2>3, <2>4 DEF RInv
<1> QED BY <1>2, <1>3

\* The types, the schema, the shelf and the ledger hold in every state of every instance.
THEOREM Invariance == Spec => []RInv
BY Starts, Steps, PTL DEF Spec

\* Every variable keeps its type, the state file's history its limit, and the
\* operator's process migrates only for a script's health check.
THEOREM TypeCorrect == Spec => []TypeOK
<1>1. RInv => TypeOK
  BY DEF RInv
<1> QED BY <1>1, Invariance, PTL

\* A migration on record has run to its end (apply_all, rollback_last), whoever
\* is killed and however many migrate at once, unless a migration is rolled back
\* or a database copied or restored while another process is at work on it, or a
\* rollback was cut.
THEOREM MigrationsAreWhole == Spec => []RecordedIsWhole
<1>1. ASSUME RInv, Orderly, NEW m \in Recorded(db),
             ~\E p \in Processes : At(p, "unrecord") /\ proc[p].at = m
      PROVE  Whole(db, m)
  <2>1. Sane /\ db \in DbType
    BY <1>1 DEF RInv, Schema, TypeOK, MigrationsTypeOK
  <2>2. CASE \A p \in Processes : proc[p].pc # "unrecord"
    <3>1. Sound(db, 0)
      BY <2>1, <2>2 DEF Sane
    <3>2. m \in 1 .. Len(db.applied) /\ Len(db.applied) \in Nat
      BY <1>1, <2>1, <3>1, OnRecord
    <3> QED BY <3>1, <3>2 DEF Sound
  <2>3. CASE \E p \in Processes : proc[p].pc = "unrecord"
    <3>1. PICK p \in Processes : proc[p].pc = "unrecord"
      BY <2>3
    <3>2. Sound(db, proc[p].at) /\ proc[p].at # m
      BY <1>1, <2>1, <3>1 DEF Sane, Doing, At
    <3>3. m \in 1 .. Len(db.applied)
      BY <1>1, <2>1, <3>2, OnRecord
    <3> QED BY <3>2, <3>3 DEF Sound
  <2> QED BY <2>2, <2>3
<1>2. RInv => RecordedIsWhole
  BY <1>1 DEF RecordedIsWhole, Orderly
<1> QED BY <1>2, Invariance, PTL

\* A process that cannot start (apply_all raises on a column or a key that is
\* there) has a kill in the middle of a migration, two migrations at once or a
\* migration rolled back to blame: a restored snapshot alone does not do it.
THEOREM StartsFailForACause == Spec => []FailsForACause
<1>1. RInv => FailsForACause
  BY DEF RInv, Schema, Untouched, Pristine, FailsForACause
<1> QED BY <1>1, Invariance, PTL

\* The active release can be rolled back: the copies its entry in the state file
\* speaks of are there, unless they were deleted.
THEOREM ActiveCanBeRestored == Spec => []ActiveRestorable
<1>1. ASSUME RInv PROVE ActiveRestorable
  <2> SUFFICES ASSUME file.active # None, file.active.id \notin cleaned
               PROVE  /\ snapshots[file.active.id].db # None
                      /\ file.active.log /\ file.active.id \notin shared =>
                           snapshots[file.active.id].log > 0
    BY DEF ActiveRestorable
  <2>1. file.active \in ReleaseType
    BY <1>1 DEF RInv, TypeOK, FileType
  <2>2. file.active.id \in Seconds
    BY <2>1 DEF ReleaseType
  <2>3. Copies /\ Filed(file.active)
    BY <1>1 DEF RInv, Shelf
  <2>4. snapshots[file.active.id] = before[file.active.id]
    BY <2>2, <2>3 DEF Copies
  <2> QED BY <2>3, <2>4 DEF Filed
<1> QED BY <1>1, Invariance, PTL

\* A rollback puts back the database and the log that were copied when the
\* release it undoes was deployed, unless two were deployed in a second.
THEOREM RollbacksUndo == Spec => []RollbackUndoes
<1>1. RInv => RollbackUndoes
  BY DEF RInv, Shelf, Undid, RollbackUndoes
<1> QED BY <1>1, Invariance, PTL

\* The history of state.json, replayed from nothing, ends in what the file says is
\* active and previous (save_state), as long as no entry was dropped, and its last
\* entry agrees with the file ever after, wherever a script was killed and
\* whatever raced it.
THEOREM HistoryIsReplayed == Spec => []HistoryReplays
<1>1. RInv => HistoryReplays
  BY DEF RInv, Ledger
<1> QED BY <1>1, Invariance, PTL
=============================================================================
