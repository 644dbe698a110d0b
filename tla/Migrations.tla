----------------------------- MODULE Migrations -----------------------------
(***************************************************************************)
(* The schema of the SQLite database: storage/migration_manager.py and the *)
(* scripts in storage/migrations.  Every process that opens the repository *)
(* (the Ops API, the bridge, the health check) calls apply_all when it     *)
(* starts.  executescript commits what is open and then runs each          *)
(* statement in a transaction of its own, and the record in                *)
(* schema_migrations is one more: a process may be killed, or meet         *)
(* another one, between any two of them.                                   *)
(*                                                                         *)
(* The scripts that create a table or an index say IF NOT EXISTS; the ones *)
(* that add columns cannot, and a column that exists makes them raise.     *)
(* Indexes are left out: every statement about one may be repeated.        *)
(***************************************************************************)
EXTENDS Naturals, Sequences, FiniteSets, SequencesExt

CONSTANTS Processes,
          Table,      \* per migration, the table its script creates, or None
          Columns,    \* per migration, the columns its script adds to "tickets"
          MaxStarts,  \* bound on the starts and the migrations rolled back
          None

\* The migrations in the order of their files' names.
Ids == 1 .. Len(Table)

ASSUME ScriptsAssumption == /\ Len(Table) \in Nat \ {0}
                            /\ Columns \in [Ids -> Nat]
                            /\ \A m \in Ids : (Table[m] = None) <=> (Columns[m] > 0)
\* No two scripts create the same table, and "tickets" is there before a script
\* adds columns to it.
ASSUME TablesAssumption ==
  /\ \A m, n \in Ids : Table[m] = Table[n] /\ Table[m] # None => m = n
  /\ \A n \in Ids : Columns[n] > 0 => \E m \in 1 .. n - 1 : Table[m] = "tickets"
ASSUME StartsAssumption == MaxStarts \in Nat

VARIABLES db,       \* the database: tables, columns, the migrations recorded, the rows' age
          proc,     \* per process, what it does
          starts,   \* starts and migrations rolled back so far
          failed,   \* history: a process failed to start
          causes    \* history: what happened that may make one fail

migrationVars == <<db, proc, starts, failed, causes>>

NoDb == [tables |-> {}, columns |-> [m \in Ids |-> 0], applied |-> <<>>, age |-> 0]
Off == [pc |-> "off", known |-> {}, at |-> 0, next |-> 1]

Recorded(d) == {d.applied[i] : i \in 1 .. Len(d.applied)}
At(p, label) == proc[p].pc = label
Goto(p, label) == proc' = [proc EXCEPT ![p].pc = label]

MigrationsInit == /\ db = NoDb
                  /\ proc = [p \in Processes |-> Off]
                  /\ starts = 0
                  /\ failed = FALSE
                  /\ causes = {}

\* The other processes that are in the middle of a migration of the same database.
Busy(p) == {q \in Processes \ {p} : proc[q].pc \in {"up", "record", "unrecord"}}

\* What p meets when it starts: others that migrate, or one that rolls back; and
\* what it does to all of them when it rolls back, or restores, itself.
Meets(p) == {IF At(q, "unrecord") THEN "crossed" ELSE "overlap" : q \in Busy(p)}
Crosses(p) == {"crossed" : q \in Busy(p)}

\* Mutant of Known: nothing is remembered of earlier starts.
KnownNothing(d) == {}
Known(d) == Recorded(d)

\* Mutant of Pending: the files in the order the directory lists them.
PendingUnsorted(known) == LET left == Ids \ known IN
                          IF left = {} THEN 0 ELSE CHOOSE m \in left : \A n \in left : n <= m

\* The first of _ordered_migration_ids that was not recorded when apply_all began.
Pending(known) == LET left == Ids \ known IN
                  IF left = {} THEN 0 ELSE CHOOSE m \in left : \A n \in left : m <= n

\* apply_all: reads schema_migrations once.
Start(p) == /\ At(p, "off")
            /\ starts < MaxStarts
            /\ starts' = starts + 1
            /\ LET known == Known(db)
                   m     == Pending(known) IN
               proc' = [proc EXCEPT ![p] = [Off EXCEPT !.pc = IF m = 0 THEN "ready" ELSE "up",
                                                       !.known = known, !.at = m]]
            /\ causes' = causes \cup Meets(p)
            /\ UNCHANGED <<db, failed>>

\* The exception leaves apply_all, and the caller.
Raise(p) == /\ Goto(p, "failed")
            /\ failed' = TRUE
            /\ UNCHANGED db

\* A script that creates a table does it unless it is there.
CreateTable(p, m) == /\ db' = [db EXCEPT !.tables = @ \cup {Table[m]}]
                     /\ Goto(p, "record")
                     /\ UNCHANGED failed

\* The next ALTER TABLE tickets ADD COLUMN of a script.
AddColumn(p, m) ==
  LET k == proc[p].next IN
  IF "tickets" \notin db.tables \/ db.columns[m] >= k THEN Raise(p)
  ELSE /\ db' = [db EXCEPT !.columns[m] = k]
       /\ proc' = [proc EXCEPT ![p].next = k + 1,
                               ![p].pc = IF k = Columns[m] THEN "record" ELSE "up"]
       /\ UNCHANGED failed

\* Mutant of Statement: the migration is recorded before its script has run.
StatementLate(p) ==
  /\ At(p, "up")
  /\ LET m == proc[p].at IN
     IF m \notin Recorded(db)
     THEN /\ db' = [db EXCEPT !.applied = Append(@, m)]
          /\ UNCHANGED <<proc, failed>>
     ELSE IF Columns[m] = 0 THEN CreateTable(p, m) ELSE AddColumn(p, m)
  /\ UNCHANGED <<starts, causes>>

Statement(p) == /\ At(p, "up")
                /\ LET m == proc[p].at IN
                   IF Columns[m] = 0 THEN CreateTable(p, m) ELSE AddColumn(p, m)
                /\ UNCHANGED <<starts, causes>>

\* The INSERT, whose key is the migration, and then the next migration.
Record(p) ==
  /\ At(p, "record")
  /\ LET m     == proc[p].at
         known == proc[p].known \cup {m}
         next  == Pending(known)
     IN IF m \in Recorded(db) THEN Raise(p)
        ELSE /\ db' = [db EXCEPT !.applied = Append(@, m)]
             /\ proc' = [proc EXCEPT ![p] = [Off EXCEPT !.pc = IF next = 0 THEN "ready" ELSE "up",
                                                        !.known = known, !.at = next]]
             /\ UNCHANGED failed
  /\ UNCHANGED <<starts, causes>>

\* rollback_last takes the latest applied_at and runs its down script, which
\* drops the table, and its columns with it, but leaves added columns alone.
Down(p) ==
  /\ At(p, "off")
  /\ starts < MaxStarts
  /\ db.applied # <<>>
  /\ starts' = starts + 1
  /\ LET m == Last(db.applied) IN
     /\ db' = [db EXCEPT !.tables = @ \ {Table[m]},
                         !.columns = IF Table[m] = "tickets" THEN [n \in Ids |-> 0] ELSE @]
     /\ proc' = [proc EXCEPT ![p] = [Off EXCEPT !.pc = "unrecord", !.at = m]]
  /\ causes' = causes \cup {"rollback"} \cup Crosses(p)
  /\ UNCHANGED failed

\* The DELETE, by the key.
Unrecord(p) == /\ At(p, "unrecord")
               /\ db' = [db EXCEPT !.applied = RemoveFirst(@, proc[p].at)]
               /\ proc' = [proc EXCEPT ![p] = Off]
               /\ UNCHANGED <<starts, failed, causes>>

\* A process that has started, or failed to, ends; or it is killed earlier.
Stop(p) == /\ proc[p].pc \in {"ready", "failed"}
           /\ proc' = [proc EXCEPT ![p] = Off]
           /\ UNCHANGED <<db, starts, failed, causes>>

Kill(p) == /\ proc[p].pc \in {"up", "record", "unrecord"}
           /\ proc' = [proc EXCEPT ![p] = Off]
           /\ causes' = causes \cup {IF At(p, "unrecord") THEN "cut rollback" ELSE "cut"}
           /\ UNCHANGED <<db, starts, failed>>

Work(p) == Statement(p) \/ Record(p) \/ Unrecord(p)

MigrationsNext == \E p \in Processes : Start(p) \/ Work(p) \/ Down(p) \/ Stop(p) \/ Kill(p)
-----------------------------------------------------------------------------
\* All that the script of a migration does has been done.
Whole(d, m) == /\ Table[m] \in d.tables \/ Columns[m] > 0
               /\ d.columns[m] = Columns[m] \/ Columns[m] = 0

DbType == [tables : SUBSET {Table[m] : m \in Ids}, columns : [Ids -> Nat], applied : Seq(Ids),
           age : Nat]
ProcType == [pc : {"off", "up", "record", "unrecord", "ready", "failed"}, known : SUBSET Ids,
             at : Ids \cup {0}, next : Nat \ {0}]
Causes == {"overlap", "crossed", "rollback", "cut", "cut rollback", "restore"}

MigrationsTypeOK == /\ db \in DbType
                    /\ proc \in [Processes -> ProcType]
                    /\ \A p \in Processes :
                         proc[p].pc \in {"up", "record", "unrecord"} => proc[p].at # 0
                    /\ starts \in 0 .. MaxStarts
                    /\ failed \in BOOLEAN
                    /\ causes \subseteq Causes
=============================================================================
