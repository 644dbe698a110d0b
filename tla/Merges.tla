------------------------------- MODULE Merges -------------------------------
(***************************************************************************)
(* Merging duplicate tickets: accept_merge_suggestion and                  *)
(* reject_merge_suggestion of core/ticket_api.py, asked for by the merge   *)
(* routes of the Ops API, beside the other requests that write the same    *)
(* columns: a plain close and an update of a ticket's metadata.            *)
(*                                                                         *)
(* A merge closes one ticket and links it from another.  It is a handler   *)
(* of two reads and up to three UPDATEs, each a transaction of its own,    *)
(* and the metadata it writes was read at its start.  Two operators may    *)
(* merge at once, crosswise too, and a handler may be cut off anywhere.    *)
(***************************************************************************)
EXTENDS TicketStates, Naturals, Sequences, FiniteSets

CONSTANTS Tickets, Workers,
          Commands,      \* the requests that may arrive
          HistoryLimit,  \* records _append_merge_history keeps (20)
          MaxRequests,   \* bound on the requests started
          None           \* no ticket

AllCommands == {"accept", "reject", "close", "update"}

ASSUME CommandsAssumption == Commands \subseteq AllCommands
ASSUME LimitsAssumption == HistoryLimit \in Nat \ {0} /\ MaxRequests \in Nat
ASSUME NoneAssumption == None \notin Tickets

VARIABLES row,         \* per ticket: status and what merges keep in its metadata
          job,         \* per worker, the request it is on
          timeline,    \* ticket_events: <<kind, source, target>>
          merged,      \* history: <<source, target>> whose source was closed for it
          started,     \* requests so far
          overlapped,  \* history: tickets two requests were on at once
          cut          \* history: tickets a request was cut off on

vars == <<row, job, timeline, merged, started, overlapped, cut>>

-----------------------------------------------------------------------------
\* The metadata: merged_into_ticket_id, merged_ticket_ids, merge_state and
\* merge_history, each absent (None or empty) until it is first set.
NoMeta == [into |-> None, links |-> {}, verdict |-> None, history |-> <<>>]

Idle == [pc |-> "idle", cmd |-> None, source |-> None, target |-> None,
         smeta |-> NoMeta, tmeta |-> NoMeta, ready |-> NoMeta]

\* metadata.update(patch): the keys of the patch win, the others stay.
Overlay(meta, patch) ==
  [into    |-> IF patch.into = None THEN meta.into ELSE patch.into,
   links   |-> IF patch.links = {} THEN meta.links ELSE patch.links,
   verdict |-> IF patch.verdict = None THEN meta.verdict ELSE patch.verdict,
   history |-> IF patch.history = <<>> THEN meta.history ELSE patch.history]

\* _append_merge_history: the last records, this one included.
Recorded(meta, r) ==
  [meta EXCEPT !.history = IF Len(@) < HistoryLimit THEN Append(@, r)
                                                    ELSE Append(Tail(@), r)]

\* The metadata an accepted merge prepares for its source and its target, and
\* a rejected one for its source, from the copies read.
Accepted(s, t, meta) ==
  Recorded([meta EXCEPT !.into = t, !.verdict = "accepted"], <<"accepted", s, t>>)
\* Mutant of Linked: the list starts afresh.
LinkedAlone(s, t, meta) ==
  Recorded([meta EXCEPT !.links = {s}], <<"accepted", s, t>>)
Linked(s, t, meta) ==
  Recorded([meta EXCEPT !.links = @ \cup {s}], <<"accepted", s, t>>)
Rejected(s, t, meta) ==
  Recorded([meta EXCEPT !.verdict = "rejected"], <<"rejected", s, t>>)

At(w, label) == job[w].pc = label
\* Mutant of Open: _ensure_not_closed lets everything through.
OpenAlways(t) == t \in Tickets
\* _ensure_not_closed
Open(t) == row[t].status # "closed"

\* The tickets a request reads or writes.
On(w) == {job[w].source, job[w].target} \ {None}

Goto(w, label) == job' = [job EXCEPT ![w].pc = label]
Finish(w) == job' = [job EXCEPT ![w] = Idle]

\* The ticket the update_ticket of a request is about.
Updated(w) == IF job[w].cmd = "accept" THEN job[w].target ELSE job[w].source

-----------------------------------------------------------------------------
\* The tickets exist and are open or already handled when a run starts.
Init == /\ row \in [Tickets -> [status : {"open", "resolved"}, meta : {NoMeta}]]
        /\ job = [w \in Workers |-> Idle]
        /\ timeline = {}
        /\ merged = {}
        /\ started = 0
        /\ overlapped = {}
        /\ cut = {}

\* A request arrives.  A merge names two different tickets.
Start(w, c, s, t) ==
  /\ At(w, "idle")
  /\ started < MaxRequests
  /\ IF c \in {"accept", "reject"} THEN t \in Tickets \ {s} ELSE t = None
  /\ job' = [job EXCEPT ![w] = [Idle EXCEPT !.pc = IF c = "close" THEN "close"
                                                   ELSE IF c = "update" THEN "update"
                                                   ELSE "source",
                                            !.cmd = c, !.source = s, !.target = t]]
  /\ started' = started + 1
  /\ overlapped' = overlapped \cup UNION {On(v) \cap {s, t} : v \in Workers \ {w}}
  /\ UNCHANGED <<row, timeline, merged, cut>>

\* require_ticket and _ensure_not_closed of the source.  A rejection goes on
\* to update_ticket with its record, an acceptance reads the target first.
ReadSource(w) ==
  /\ At(w, "source")
  /\ Open(job[w].source)
  /\ LET s == job[w].source
         t == job[w].target IN
     job' = IF job[w].cmd = "accept"
            THEN [job EXCEPT ![w].pc = "target", ![w].smeta = row[s].meta]
            ELSE [job EXCEPT ![w].pc = "update",
                             ![w].tmeta = Rejected(s, t, row[s].meta)]
  /\ UNCHANGED <<row, timeline, merged, started, overlapped, cut>>

\* Mutants of ReadTarget: the target is linked before the source is closed, or
\* nobody looks whether it is closed.
ReadTargetFirst(w) ==
  /\ At(w, "target")
  /\ Open(job[w].target)
  /\ LET s == job[w].source
         t == job[w].target IN
     /\ row' = [row EXCEPT ![t].meta = Linked(s, t, @)]
     /\ job' = [job EXCEPT ![w].pc = "close", ![w].tmeta = row[t].meta]
  /\ UNCHANGED <<timeline, merged, started, overlapped, cut>>

ReadTargetAnyway(w) ==
  /\ At(w, "target")
  /\ job' = [job EXCEPT ![w].pc = "close", ![w].tmeta = row[job[w].target].meta]
  /\ UNCHANGED <<row, timeline, merged, started, overlapped, cut>>

ReadTarget(w) ==
  /\ At(w, "target")
  /\ Open(job[w].target)
  /\ job' = [job EXCEPT ![w].pc = "close", ![w].tmeta = row[job[w].target].meta]
  /\ UNCHANGED <<row, timeline, merged, started, overlapped, cut>>

\* close_ticket: what it reads decides whether resolve_ticket comes first.
ReadClose(w) ==
  /\ At(w, "close")
  /\ Open(job[w].source)
  /\ Goto(w, IF row[job[w].source].status = "resolved" THEN "closing" ELSE "resolve")
  /\ UNCHANGED <<row, timeline, merged, started, overlapped, cut>>

\* The read of _transition_status, for each of the two halves.
Check(w) ==
  /\ \/ At(w, "resolve") /\ MayMove(row[job[w].source].status, "resolved")
        /\ Goto(w, "resolving")
     \/ At(w, "closing") /\ Goto(w, "closed")
  /\ UNCHANGED <<row, timeline, merged, started, overlapped, cut>>

Resolve(w) ==
  /\ At(w, "resolving")
  /\ row' = [row EXCEPT ![job[w].source].status = "resolved"]
  /\ Goto(w, "closing")
  /\ UNCHANGED <<timeline, merged, started, overlapped, cut>>

\* The UPDATE that closes.  A merge writes the metadata it prepared from the
\* copy of its first read, whatever the ticket's has become.
Close(w) ==
  /\ At(w, "closed")
  /\ LET s == job[w].source
         t == job[w].target IN
     IF job[w].cmd = "close"
     THEN /\ row' = [row EXCEPT ![s].status = "closed"]
          /\ Finish(w)
          /\ UNCHANGED merged
     ELSE /\ row' = [row EXCEPT ![s] = [status |-> "closed",
                                        meta |-> Accepted(s, t, job[w].smeta)]]
          /\ merged' = merged \cup {<<s, t>>}
          /\ Goto(w, "announce")
  /\ UNCHANGED <<timeline, started, overlapped, cut>>

\* Mutant of Announce: both events at the end, by the second one.
AnnounceLater(w) ==
  /\ At(w, "announce")
  /\ LET s == job[w].source
         t == job[w].target IN
     job' = [job EXCEPT ![w].pc = "update", ![w].tmeta = Linked(s, t, @)]
  /\ UNCHANGED <<row, timeline, merged, started, overlapped, cut>>

\* The source's event, and the target's metadata from the copy of the target.
Announce(w) ==
  /\ At(w, "announce")
  /\ LET s == job[w].source
         t == job[w].target IN
     /\ timeline' = timeline \cup {<<"accepted", s, t>>}
     /\ job' = [job EXCEPT ![w].pc = "update", ![w].tmeta = Linked(s, t, @)]
  /\ UNCHANGED <<row, merged, started, overlapped, cut>>

\* update_ticket: the row it reads must not be closed, and the patch is laid
\* over the metadata it reads.  Another request's patch has none of the keys.
ReadUpdate(w) ==
  /\ At(w, "update")
  /\ Open(Updated(w))
  /\ job' = [job EXCEPT ![w].pc = "write",
                        ![w].ready = Overlay(row[Updated(w)].meta, job[w].tmeta)]
  /\ UNCHANGED <<row, timeline, merged, started, overlapped, cut>>

WriteUpdate(w) ==
  /\ At(w, "write")
  /\ row' = [row EXCEPT ![Updated(w)].meta = job[w].ready]
  /\ IF job[w].cmd = "update" THEN Finish(w) ELSE Goto(w, "tell")
  /\ UNCHANGED <<timeline, merged, started, overlapped, cut>>

Tell(w) ==
  /\ At(w, "tell")
  /\ timeline' = timeline \cup {<<IF job[w].cmd = "accept" THEN "merged_in" ELSE "rejected",
                                  job[w].source, job[w].target>>}
  /\ Finish(w)
  /\ UNCHANGED <<row, merged, started, overlapped, cut>>

\* RuntimeError: a ticket that must be open is closed, or may not be resolved.
Refuse(w) ==
  /\ \/ At(w, "source") /\ ~Open(job[w].source)
     \/ At(w, "target") /\ ~Open(job[w].target)
     \/ At(w, "close") /\ ~Open(job[w].source)
     \/ At(w, "resolve") /\ ~MayMove(row[job[w].source].status, "resolved")
     \/ At(w, "update") /\ ~Open(Updated(w))
  /\ Finish(w)
  /\ UNCHANGED <<row, timeline, merged, started, overlapped, cut>>

\* The process is stopped, or a statement of SQLite raises.
Crash(w) ==
  /\ ~At(w, "idle")
  /\ cut' = cut \cup On(w)
  /\ Finish(w)
  /\ UNCHANGED <<row, timeline, merged, started, overlapped>>

Step(w) == \/ ReadSource(w) \/ ReadTarget(w) \/ ReadClose(w) \/ Check(w) \/ Resolve(w)
           \/ Close(w) \/ Announce(w) \/ ReadUpdate(w) \/ WriteUpdate(w) \/ Tell(w)
           \/ Refuse(w)

Next == \E w \in Workers :
          \/ \E c \in Commands, s \in Tickets, t \in Tickets \cup {None} : Start(w, c, s, t)
          \/ Step(w)
          \/ Crash(w)

Spec == Init /\ [][Next]_vars

-----------------------------------------------------------------------------
(* Properties.                                                             *)

Verdict == {"accepted", "rejected"}
Meta == [into : Tickets \cup {None}, links : SUBSET Tickets,
         verdict : Verdict \cup {None}, history : Seq(Verdict \X Tickets \X Tickets)]
Pc == {"idle", "source", "target", "close", "resolve", "resolving", "closing", "closed",
       "announce", "update", "write", "tell"}

\* The columns keep their types, and a history its limit.
TypeOK ==
  /\ row \in [Tickets -> [status : Status, meta : Meta]]
  /\ \A t \in Tickets : Len(row[t].meta.history) <= HistoryLimit
  /\ job \in [Workers -> [pc : Pc, cmd : AllCommands \cup {None},
                          source : Tickets \cup {None}, target : Tickets \cup {None},
                          smeta : Meta, tmeta : Meta, ready : Meta]]
  /\ timeline \subseteq {"accepted", "merged_in", "rejected"} \X Tickets \X Tickets
  /\ merged \subseteq Tickets \X Tickets
  /\ started \in 0 .. MaxRequests
  /\ overlapped \subseteq Tickets /\ cut \subseteq Tickets

Idling(t) == \A w \in Workers : t \notin On(w)

\* The two halves of a merge agree: a ticket names the one it was merged into
\* exactly if that one lists it, unless a merge was cut off between the two
\* UPDATEs or met another request on one of the tickets.
LinksMirrored ==
  \A s, t \in Tickets \ (overlapped \cup cut) :
    Idling(s) /\ Idling(t) => (row[s].meta.into = t <=> s \in row[t].meta.links)

\* Merges that do not meet make no circle: following merged_into_ticket_id
\* from any ticket ends at one that was not merged away.
NoCircle ==
  \A S \in (SUBSET (Tickets \ overlapped)) \ {{}} :
    \E t \in S : row[t].meta.into \notin S

\* A merge is final: where requests do not meet, a ticket that was merged away
\* stays merged into the same ticket and no later rejection marks it.
MergeFinal ==
  [][\A t \in Tickets \ overlapped :
       row[t].meta.into # None => row'[t].meta.into = row[t].meta.into
                                  /\ row'[t].meta.verdict = "accepted"]_vars

\* Whatever meets or is cut off, a target lists only tickets that have been
\* closed for it: the source is closed first, and a stale copy of a list can
\* lose entries but not invent one.
ListedWasMerged ==
  \A t \in Tickets : \A s \in row[t].meta.links : <<s, t>> \in merged

\* Whatever meets, a ticket merged away has its event once the request is
\* over, though the target may have been closed meanwhile and the second half
\* of the merge refused.
MergeAudited ==
  \A m \in merged :
    m[1] \notin cut /\ (\A w \in Workers : <<job[w].source, job[w].target>> # m)
      => <<"accepted", m[1], m[2]>> \in timeline

=============================================================================
