------------------------------ MODULE Releases ------------------------------
(***************************************************************************)
(* Deploying and rolling back: scripts/deploy_release.py,                  *)
(* rollback_release.py and release_state.py, over the database of          *)
(* Migrations.  A deployment runs the health check, whose apply_all may    *)
(* fail without stopping it, copies the database and the gateway's log to  *)
(* a directory named after the second, and writes the state file, which    *)
(* keeps the active release and one previous one.  A rollback copies the   *)
(* active release's files back.  Services go on starting and writing       *)
(* meanwhile, and the operator's script may be killed between two steps.   *)
(* A copy of one file is one step: a copy torn by a write is not modelled. *)
(***************************************************************************)
EXTENDS Migrations

CONSTANTS Operator,      \* the process that runs the scripts
          HistoryLimit,  \* entries the state file keeps (30)
          MaxOps,        \* bound on the scripts run
          MaxWrites,     \* bound on the services' writes
          MaxSeconds     \* bound on the clock

ASSUME OperatorAssumption == Operator \in Processes
ASSUME ReleaseBoundsAssumption == /\ HistoryLimit \in Nat \ {0}
                                  /\ {MaxOps, MaxWrites, MaxSeconds} \subseteq Nat

VARIABLES log,       \* lines of the gateway's log, 0 while there is no file
          file,      \* state.json
          snapshots, \* per release id, the copied database and log
          op,        \* the script the operator runs
          ops,       \* scripts run so far
          second,    \* the clock
          before,    \* history: per release id, what was copied at its deployment
          undone,    \* history: what each rollback put back
          shared,    \* history: release ids given twice
          cleaned    \* history: release ids whose snapshot was deleted

releaseVars == <<log, file, snapshots, op, ops, second, before, undone, shared, cleaned>>
vars == <<migrationVars, releaseVars>>

Seconds == 0 .. MaxSeconds
NoFile == [torn |-> FALSE, active |-> None, previous |-> None, history |-> <<>>]
NoFiles == [db |-> None, log |-> 0]
Resting == [pc |-> "rest", id |-> 0, read |-> NoFile, missing |-> FALSE, back |-> NoFiles]

Init == /\ MigrationsInit
        /\ log = 0
        /\ file = NoFile
        /\ snapshots = [i \in Seconds |-> NoFiles]
        /\ op = Resting
        /\ ops = 0
        /\ second = 0
        /\ before = [i \in Seconds |-> NoFiles]
        /\ undone = {}
        /\ shared = {}
        /\ cleaned = {}

On(label) == op.pc = label
Turn(label) == op' = [op EXCEPT !.pc = label]

\* history[-30:]
Kept(h) == IF Len(h) <= HistoryLimit THEN h ELSE SubSeq(h, Len(h) - HistoryLimit + 1, Len(h))
-----------------------------------------------------------------------------
(* deploy_release                                                          *)

\* run_healthcheck, which opens the repository and so migrates the database.
Check(label) == /\ On("rest")
                /\ ops < MaxOps
                /\ ops' = ops + 1
                /\ Turn(label)
                /\ Start(Operator)
                /\ UNCHANGED <<log, file, snapshots, second, before, undone, shared, cleaned>>
Deploy == Check("check")

\* verify_release reports on the health and on the state file, and changes no
\* more than its health check does.
Verify == Check("verify")
Verified == /\ On("verify")
            /\ proc[Operator].pc \in {"ready", "failed"}
            /\ op' = Resting
            /\ proc' = [proc EXCEPT ![Operator] = Off]
            /\ UNCHANGED <<db, starts, failed, causes, log, file, snapshots, ops, second,
                           before, undone, shared, cleaned>>

\* "error" is only said of the configuration; a database that cannot be
\* migrated is "degraded", and the deployment goes on.
Checked == /\ On("check")
           /\ proc[Operator].pc \in {"ready", "failed"}
           /\ Turn("copy db")
           /\ proc' = [proc EXCEPT ![Operator] = Off]
           /\ UNCHANGED <<db, starts, failed, causes, log, file, snapshots, ops, second,
                          before, undone, shared, cleaned>>

\* The release is named after the second.
CopyDb == /\ On("copy db")
          /\ op' = [op EXCEPT !.pc = "copy log", !.id = second]
          /\ snapshots' = [snapshots EXCEPT ![second].db = db]
          /\ before' = [before EXCEPT ![second].db = db]
          /\ shared' = IF before[second].db = None THEN shared ELSE shared \cup {second}
          /\ causes' = causes \cup Meets(Operator)
          /\ UNCHANGED <<db, proc, starts, failed, log, file, ops, second, undone, cleaned>>

CopyLog == /\ On("copy log")
           /\ Turn("load")
           /\ snapshots' = [snapshots EXCEPT ![op.id].log = log]
           /\ before' = [before EXCEPT ![op.id].log = log]
           /\ UNCHANGED <<migrationVars, log, file, ops, second, undone, shared, cleaned>>

\* Mutant of Copied: the log is taken for copied though there was none.
CopiedAlways(id) == TRUE
Copied(id) == before[id].log > 0

\* The state a deployment makes of the one it read.
Deployed(state) == [torn     |-> FALSE,
                    active   |-> [id |-> op.id, log |-> Copied(op.id)],
                    previous |-> state.active,
                    history  |-> Kept(Append(state.history, <<"deploy", op.id>>))]
-----------------------------------------------------------------------------
(* rollback_release                                                        *)

\* Without an active release nothing happens.
Rollback == /\ On("rest")
            /\ ops < MaxOps
            /\ ~file.torn /\ file.active # None
            /\ ops' = ops + 1
            /\ op' = [Resting EXCEPT !.pc = "restore db", !.read = file, !.id = file.active.id]
            /\ UNCHANGED <<migrationVars, log, file, snapshots, second, before, undone,
                           shared, cleaned>>

\* Mutant of Source: the files of the previous release, which becomes active.
SourceOfPrevious(state) == IF state.previous = None THEN snapshots[state.active.id]
                                                    ELSE snapshots[state.previous.id]
Source(state) == snapshots[state.active.id]

\* A file whose copy is gone is skipped, and the other one restored all the same.
RestoreDb ==
  /\ On("restore db")
  /\ LET copy == Source(op.read).db IN
     /\ db' = IF copy = None THEN db ELSE copy
     /\ op' = [op EXCEPT !.pc = "restore log", !.missing = copy = None, !.back.db = db']
  /\ causes' = causes \cup {"restore"} \cup Crosses(Operator)
  /\ UNCHANGED <<proc, starts, failed, log, file, snapshots, ops, second, before, undone,
                 shared, cleaned>>

RestoreLog ==
  /\ On("restore log")
  /\ LET copy == Source(op.read).log
         lost == op.read.active.log /\ copy = 0
         back == IF op.read.active.log /\ ~lost THEN copy ELSE log
     IN /\ log' = back
        /\ op' = IF op.missing \/ lost THEN Resting
                 ELSE [op EXCEPT !.pc = "save rollback", !.back.log = back]
  /\ UNCHANGED <<migrationVars, file, snapshots, ops, second, before, undone, shared, cleaned>>

\* Mutant of RolledBack: the previous release is kept as such.
RolledBackKept(state) == [torn     |-> FALSE,
                          active   |-> state.previous,
                          previous |-> state.previous,
                          history  |-> Kept(Append(state.history,
                                                   <<"rollback", state.active.id>>))]

\* The state a rollback makes of the one it read.
RolledBack(state) == [torn     |-> FALSE,
                      active   |-> state.previous,
                      previous |-> None,
                      history  |-> Kept(Append(state.history, <<"rollback", state.active.id>>))]
-----------------------------------------------------------------------------
\* load_state, of a deployment: a torn file raises.
Load == /\ On("load")
        /\ op' = IF file.torn THEN Resting ELSE [op EXCEPT !.pc = "save deploy", !.read = file]
        /\ UNCHANGED <<migrationVars, log, file, snapshots, ops, second, before, undone, shared,
                       cleaned>>

\* save_state: write_text empties the file and then fills it.
Empty == /\ On("save deploy") \/ On("save rollback")
         /\ ~file.torn
         /\ file' = [file EXCEPT !.torn = TRUE]
         /\ UNCHANGED <<migrationVars, log, snapshots, op, ops, second, before, undone, shared,
                        cleaned>>

Fill == /\ On("save deploy") \/ On("save rollback")
        /\ file.torn
        /\ file' = IF On("save deploy") THEN Deployed(op.read) ELSE RolledBack(op.read)
        /\ undone' = IF On("save deploy") THEN undone
                     ELSE undone \cup {[id |-> op.id, log |-> op.read.active.log, back |-> op.back]}
        /\ op' = Resting
        /\ UNCHANGED <<migrationVars, log, snapshots, ops, second, before, shared, cleaned>>

\* The script is killed; in the middle of the health check, with its start.
KillScript == /\ ~On("rest")
              /\ op' = Resting
              /\ proc' = [proc EXCEPT ![Operator] = Off]
              /\ causes' = IF proc[Operator].pc \in {"up", "record"} THEN causes \cup {"cut"}
                                                                     ELSE causes
              /\ UNCHANGED <<db, starts, failed, log, file, snapshots, ops, second, before, undone,
                             shared, cleaned>>
-----------------------------------------------------------------------------
\* The other processes start, work, stop and are killed, and a started one
\* writes rows and log lines.
Service(p) == /\ p # Operator
              /\ Start(p) \/ Down(p) \/ Stop(p) \/ Kill(p)
              /\ UNCHANGED releaseVars

Migrate(p) == Work(p) /\ UNCHANGED releaseVars

Write(p) == /\ At(p, "ready")
            /\ p # Operator
            /\ db.age < MaxWrites /\ log < MaxWrites
            /\ db' = [db EXCEPT !.age = @ + 1]
            /\ log' = log + 1
            /\ UNCHANGED <<proc, starts, failed, causes, file, snapshots, op, ops, second, before,
                           undone, shared, cleaned>>

Tick == /\ second < MaxSeconds
        /\ second' = second + 1
        /\ UNCHANGED <<migrationVars, log, file, snapshots, op, ops, before, undone, shared,
                       cleaned>>

\* Someone deletes an old snapshot to make room.
Clean(i) == /\ snapshots[i] # NoFiles
            /\ snapshots' = [snapshots EXCEPT ![i] = NoFiles]
            /\ cleaned' = cleaned \cup {i}
            /\ UNCHANGED <<migrationVars, log, file, op, ops, second, before, undone, shared>>

Next == \/ Verify \/ Verified \/ Deploy \/ Checked \/ CopyDb \/ CopyLog \/ Load
        \/ Rollback \/ RestoreDb \/ RestoreLog
        \/ Empty \/ Fill \/ KillScript \/ Tick
        \/ \E p \in Processes : Service(p) \/ Migrate(p) \/ Write(p)
        \/ \E i \in Seconds : Clean(i)

\* A process that migrates goes on; nothing says when a script is run.
Spec == Init /\ [][Next]_vars /\ \A p \in Processes : WF_vars(Migrate(p))
-----------------------------------------------------------------------------
ReleaseType == [id : Seconds, log : BOOLEAN] \cup {None}
FileType == [torn : BOOLEAN, active : ReleaseType, previous : ReleaseType,
             history : Seq({"deploy", "rollback"} \X Seconds)]
CopyType == [db : DbType \cup {None}, log : 0 .. MaxWrites]
OpType == [pc : {"rest", "check", "verify", "copy db", "copy log", "load", "save deploy",
                 "restore db", "restore log", "save rollback"},
           id : Seconds, read : FileType, missing : BOOLEAN, back : CopyType]

ASSUME NoneAssumption ==
  None # "tickets" /\ None \notin DbType /\ None \notin [id : Seconds, log : BOOLEAN]

\* Types; the history keeps its limit, and only the scripts' checks migrate.
TypeOK == /\ MigrationsTypeOK
          /\ log \in 0 .. MaxWrites
          /\ file \in FileType
          /\ Len(file.history) <= HistoryLimit
          /\ {snapshots, before} \subseteq [Seconds -> CopyType]
          /\ op \in OpType
          /\ ops \in 0 .. MaxOps
          /\ second \in Seconds
          /\ undone \subseteq [id : Seconds, log : BOOLEAN, back : CopyType]
          /\ shared \subseteq Seconds /\ cleaned \subseteq Seconds
          /\ proc[Operator].pc # "off" => On("check") \/ On("verify")

\* A migration on record has run to its end, whatever was killed and restored and
\* however many processes migrated at once, unless a migration was rolled back or
\* the database restored while another process was at work, or the rollback
\* itself was cut.
RecordedIsWhole ==
  \A m \in Recorded(db) :
    \/ Whole(db, m)
    \/ \E p \in Processes : At(p, "unrecord") /\ proc[p].at = m
    \/ causes \cap {"crossed", "cut rollback"} # {}

\* A process that cannot start has a history to blame: one killed in the middle
\* of a migration, two at once, or a migration rolled back.
FailsForACause == failed => causes \ {"restore"} # {}

\* However many start at once, one of them takes the schema to its end, if no
\* one is killed and nothing is rolled back or restored.
SomeoneMigrates ==
  (\E p \in Processes : At(p, "up")) ~> (Recorded(db) = Ids \/ causes \ {"overlap"} # {})

\* The active release can be rolled back: what its entry says was copied is
\* there, unless someone deleted it.
ActiveRestorable ==
  file.active # None /\ file.active.id \notin cleaned =>
    /\ snapshots[file.active.id].db # None
    /\ file.active.log /\ file.active.id \notin shared => snapshots[file.active.id].log > 0

\* A rollback brings back what there was when the release it undoes was
\* deployed, not an older or a later state, unless two were deployed in a second.
RollbackUndoes ==
  \A u \in undone : u.id \notin shared =>
    /\ u.back.db = before[u.id].db
    /\ u.log => u.back.log = before[u.id].log

Replay(state, entry) ==
  IF entry[1] = "deploy" THEN [active |-> entry[2], previous |-> state.active]
                         ELSE [active |-> state.previous, previous |-> None]
IdOf(release) == IF release = None THEN None ELSE release.id

\* What a history of scripts has to end in.
Unreplayed == [active |-> None, previous |-> None]
Replayed(h) == FoldLeft(Replay, Unreplayed, h)
LastEntries(h) == {h[i] : i \in {Len(h)} \cap DOMAIN h}

\* The history of the state file says what the file says is active and previous:
\* all of it while nothing was cut off its end, its last entry ever after.  A
\* script that was killed or that raced a service left neither half of a change.
HistoryReplays ==
  /\ ops <= HistoryLimit =>
       Replayed(file.history)
         = [active |-> IdOf(file.active), previous |-> IdOf(file.previous)]
  /\ \A entry \in LastEntries(file.history) :
       IF entry[1] = "deploy" THEN IdOf(file.active) = entry[2] ELSE file.previous = None

=============================================================================
