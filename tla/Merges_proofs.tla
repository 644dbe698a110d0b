--------------------------- MODULE Merges_proofs ---------------------------
(***************************************************************************)
(* Proofs about Merges, for any set of tickets, finite or not, any number  *)
(* of workers, any subset of the commands and any bounds.                  *)
(*                                                                         *)
(* What a merge writes, it has read several transactions before.  The      *)
(* invariant says what the copies have to do with the rows: nothing but    *)
(* that they name no source that was not closed for it where requests may  *)
(* meet (CopiesListed), and everything where they do not (CopiesHold).     *)
(***************************************************************************)
EXTENDS Merges, TLAPS

-----------------------------------------------------------------------------
(* The inductive invariant.                                                *)

\* Where a request can be, by its command (the handlers of ticket_api.py).
Path(cmd) ==
  CASE cmd = "accept" -> {"source", "target", "close", "resolve", "resolving", "closing",
                          "closed", "announce", "update", "write", "tell"}
    [] cmd = "reject" -> {"source", "update", "write", "tell"}
    [] cmd = "close"  -> {"close", "resolve", "resolving", "closing", "closed"}
    [] cmd = "update" -> {"update", "write"}

Metas == {m \in Meta : Len(m.history) <= HistoryLimit}

\* A request names its tickets, is on its path and has copies of the right kind.
WellFormed(j) ==
  /\ {j.smeta, j.tmeta, j.ready} \subseteq Metas
  /\ \/ j = Idle
     \/ /\ j.cmd \in AllCommands
        /\ j.pc \in Path(j.cmd)
        /\ j.source \in Tickets
        /\ j.target \in IF j.cmd \in {"accept", "reject"} THEN Tickets \ {j.source} ELSE {None}

Shaped == \A w \in Workers : WellFormed(job[w])

\* Two requests on one ticket have been noticed.
MeetingsNoticed ==
  \A v, w \in Workers : v # w => On(v) \cap On(w) \subseteq overlapped

\* No copy of a list names a ticket that was not closed for the one it is of,
\* and the source of a merge that has come to its target was closed for it.
Listed(w) ==
  /\ \A s \in job[w].smeta.links : <<s, job[w].source>> \in merged
  /\ \A s \in job[w].tmeta.links \cup job[w].ready.links : <<s, Updated(w)>> \in merged
  /\ job[w].cmd = "accept" /\ job[w].pc \in {"announce", "update", "write", "tell"}
       => <<job[w].source, job[w].target>> \in merged

CopiesListed == \A w \in Workers : Listed(w)

\* The source of a request that is alone on it: open and as it was read until
\* the request closes it, merged into the target afterwards.
SourceHolds(w) ==
  LET j == job[w] IN
  j.source \in Tickets \ overlapped =>
    /\ j.cmd = "accept" /\ j.pc \in {"target", "close", "resolve", "resolving", "closing", "closed"}
         => row[j.source].status # "closed"
    /\ j.cmd = "close" /\ j.pc \in {"resolve", "resolving", "closing", "closed"}
         => row[j.source].status # "closed"
    /\ j.cmd = "accept" /\ j.pc \in {"target", "close", "resolve", "resolving", "closing", "closed"}
         => j.smeta.links = row[j.source].meta.links
    /\ j.cmd = "accept" /\ j.pc \in {"announce", "update", "write", "tell"}
         => row[j.source].meta.into = j.target

\* The ticket a request is going to link, reject or update, if it is alone on it:
\* what update_ticket will write keeps where it was merged into and its list,
\* but for the source that is added.
UpdatedHolds(w) ==
  LET j == job[w]
      u == Updated(w) IN
  u \in Tickets \ overlapped =>
    /\ j.cmd = "accept" /\ j.pc \in {"close", "resolve", "resolving", "closing", "closed", "announce"}
         => /\ row[u].status # "closed"
            /\ j.tmeta.into = row[u].meta.into
            /\ j.tmeta.links = row[u].meta.links
    /\ j.pc = "update" =>
         /\ j.cmd = "accept" => row[u].status # "closed"
         /\ j.tmeta.into \in {None, row[u].meta.into}
         /\ j.tmeta.links \in IF j.cmd = "accept" THEN {row[u].meta.links \cup {j.source}}
                                                 ELSE {{}, row[u].meta.links}
    /\ j.pc = "write" =>
         /\ row[u].status # "closed"
         /\ j.ready.into = row[u].meta.into
         /\ j.ready.links = row[u].meta.links \cup IF j.cmd = "accept" THEN {j.source} ELSE {}

CopiesHold == \A w \in Workers : SourceHolds(w) /\ UpdatedHolds(w)

\* A ticket merged away is closed, and says that the merge was accepted.
MergedIsClosed ==
  \A t \in Tickets \ overlapped :
    row[t].meta.into # None => row[t].status = "closed" /\ row[t].meta.verdict = "accepted"

\* A merge between its two UPDATEs.
Halfway(s, t) ==
  \E w \in Workers : /\ job[w].cmd = "accept" /\ job[w].source = s /\ job[w].target = t
                     /\ job[w].pc \in {"announce", "update", "write"}

\* LinksMirrored, with the merges that are under way.
Mirrored ==
  \A s, t \in Tickets \ (overlapped \cup cut) :
    /\ s \in row[t].meta.links => row[s].meta.into = t
    /\ row[s].meta.into = t => s \in row[t].meta.links \/ Halfway(s, t)

\* MergeAudited, with the merges whose event is next.
Audited ==
  \A m \in merged :
    \/ m[1] \in cut
    \/ <<"accepted", m[1], m[2]>> \in timeline
    \/ \E w \in Workers : /\ job[w].pc = "announce"
                          /\ job[w].source = m[1] /\ job[w].target = m[2]

MInv == /\ TypeOK /\ Shaped /\ MeetingsNoticed /\ CopiesListed /\ CopiesHold
        /\ MergedIsClosed /\ Mirrored /\ Audited /\ ListedWasMerged /\ NoCircle
-----------------------------------------------------------------------------
(* The metadata a merge writes.                                            *)

USE LimitsAssumption, NoneAssumption

LEMMA NoMetaType == NoMeta \in Metas
  BY DEF NoMeta, Metas, Meta

\* _append_merge_history keeps the limit and leaves the other keys alone.
LEMMA RecordedType ==
  ASSUME NEW m \in Metas, NEW r \in Verdict \X Tickets \X Tickets
  PROVE  /\ Recorded(m, r) \in Metas
         /\ Recorded(m, r).into = m.into
         /\ Recorded(m, r).links = m.links
         /\ Recorded(m, r).verdict = m.verdict
<1> DEFINE h == IF Len(m.history) < HistoryLimit THEN Append(m.history, r)
                                                 ELSE Append(Tail(m.history), r)
<1>1. m.history \in Seq(Verdict \X Tickets \X Tickets) /\ Len(m.history) <= HistoryLimit
  BY DEF Metas, Meta
<1>2. h \in Seq(Verdict \X Tickets \X Tickets) /\ Len(h) <= HistoryLimit
  <2>1. CASE Len(m.history) < HistoryLimit
    BY <1>1, <2>1
  <2>2. CASE ~(Len(m.history) < HistoryLimit)
    <3>1. m.history # <<>>
      BY <1>1, <2>2
    <3>2. /\ Tail(m.history) \in Seq(Verdict \X Tickets \X Tickets)
          /\ Len(Tail(m.history)) = Len(m.history) - 1
      BY <1>1, <3>1
    <3> HIDE DEF h
    <3>3. h = Append(Tail(m.history), r)
      BY <2>2 DEF h
    <3> QED BY <1>1, <3>2, <3>3
  <2> QED BY <2>1, <2>2
<1>3. Recorded(m, r) = [m EXCEPT !.history = h]
  BY DEF Recorded
<1> HIDE DEF h
<1> QED BY <1>2, <1>3 DEF Metas, Meta

\* What an accepted merge prepares for its source and its target, and a
\* rejected one for its source.
LEMMA AcceptedMeta ==
  ASSUME NEW m \in Metas, NEW s \in Tickets, NEW t \in Tickets
  PROVE  /\ Accepted(s, t, m) \in Metas
         /\ Accepted(s, t, m).into = t
         /\ Accepted(s, t, m).links = m.links
         /\ Accepted(s, t, m).verdict = "accepted"
<1> DEFINE n == [m EXCEPT !.into = t, !.verdict = "accepted"]
<1>1. n \in Metas /\ n.into = t /\ n.links = m.links /\ n.verdict = "accepted"
  BY DEF Metas, Meta, Verdict
<1>2. Accepted(s, t, m) = Recorded(n, <<"accepted", s, t>>)
  BY DEF Accepted
<1>3. <<"accepted", s, t>> \in Verdict \X Tickets \X Tickets
  BY DEF Verdict
<1> HIDE DEF n
<1> QED BY <1>1, <1>2, <1>3, RecordedType

LEMMA LinkedMeta ==
  ASSUME NEW m \in Metas, NEW s \in Tickets, NEW t \in Tickets
  PROVE  /\ Linked(s, t, m) \in Metas
         /\ Linked(s, t, m).into = m.into
         /\ Linked(s, t, m).links = m.links \cup {s}
<1> DEFINE n == [m EXCEPT !.links = m.links \cup {s}]
<1>1. n \in Metas /\ n.into = m.into /\ n.links = m.links \cup {s}
  BY DEF Metas, Meta
<1>2. Linked(s, t, m) = Recorded(n, <<"accepted", s, t>>)
  BY DEF Linked
<1>3. <<"accepted", s, t>> \in Verdict \X Tickets \X Tickets
  BY DEF Verdict
<1> HIDE DEF n
<1> QED BY <1>1, <1>2, <1>3, RecordedType

LEMMA RejectedMeta ==
  ASSUME NEW m \in Metas, NEW s \in Tickets, NEW t \in Tickets
  PROVE  /\ Rejected(s, t, m) \in Metas
         /\ Rejected(s, t, m).into = m.into
         /\ Rejected(s, t, m).links = m.links
<1> DEFINE n == [m EXCEPT !.verdict = "rejected"]
<1>1. n \in Metas /\ n.into = m.into /\ n.links = m.links
  BY DEF Metas, Meta, Verdict
<1>2. Rejected(s, t, m) = Recorded(n, <<"rejected", s, t>>)
  BY DEF Rejected
<1>3. <<"rejected", s, t>> \in Verdict \X Tickets \X Tickets
  BY DEF Verdict
<1> HIDE DEF n
<1> QED BY <1>1, <1>2, <1>3, RecordedType

\* metadata.update(patch)
LEMMA OverlayMeta ==
  ASSUME NEW m \in Metas, NEW p \in Metas
  PROVE  /\ Overlay(m, p) \in Metas
         /\ Overlay(m, p).into = IF p.into = None THEN m.into ELSE p.into
         /\ Overlay(m, p).links = IF p.links = {} THEN m.links ELSE p.links
  BY DEF Overlay, Metas, Meta

-----------------------------------------------------------------------------
(* What every step has in common.                                          *)

\* The rows and the requests in the terms the steps are proved in.
LEMMA Typed ==
  ASSUME TypeOK, Shaped
  PROVE  /\ \A t \in Tickets : row[t].meta \in Metas /\ row[t].status \in Status
         /\ \A w \in Workers : job[w].smeta \in Metas /\ job[w].tmeta \in Metas
                               /\ job[w].ready \in Metas
         /\ \A w \in Workers : ~At(w, "idle") =>
              /\ job[w].cmd \in AllCommands
              /\ job[w].pc \in Path(job[w].cmd)
              /\ job[w].source \in Tickets
              /\ job[w].target \in IF job[w].cmd \in {"accept", "reject"}
                                   THEN Tickets \ {job[w].source} ELSE {None}
              /\ Updated(w) \in Tickets /\ Updated(w) \in On(w) /\ job[w].source \in On(w)
<1>1. \A t \in Tickets : row[t].meta \in Metas /\ row[t].status \in Status
  BY DEF TypeOK, Metas
<1>2. \A w \in Workers : job[w].smeta \in Metas /\ job[w].tmeta \in Metas /\ job[w].ready \in Metas
  BY DEF Shaped, WellFormed
<1>3. ASSUME NEW w \in Workers, ~At(w, "idle")
      PROVE  /\ job[w].cmd \in AllCommands
             /\ job[w].pc \in Path(job[w].cmd)
             /\ job[w].source \in Tickets
             /\ job[w].target \in IF job[w].cmd \in {"accept", "reject"}
                                  THEN Tickets \ {job[w].source} ELSE {None}
  <2>1. job[w] # Idle
    BY <1>3 DEF At, Idle
  <2> QED BY <2>1 DEF Shaped, WellFormed
<1>4. ASSUME NEW w \in Workers, ~At(w, "idle")
      PROVE  Updated(w) \in Tickets /\ Updated(w) \in On(w) /\ job[w].source \in On(w)
  BY <1>3, <1>4 DEF Updated, On
<1> QED BY <1>1, <1>2, <1>3, <1>4

\* A step of one request leaves what the others hold true, since whom it meets
\* has been noticed.
LEMMA OneRequest ==
  ASSUME MInv, NEW w \in Workers, NEW j,
         job' = [job EXCEPT ![w] = j], WellFormed(j), On(w)' \subseteq On(w),
         overlapped' = overlapped, merged \subseteq merged',
         \A t \in Tickets \ On(w) : row'[t] = row[t],
         Listed(w)', SourceHolds(w)', UpdatedHolds(w)'
  PROVE  Shaped' /\ MeetingsNoticed' /\ CopiesListed' /\ CopiesHold'
<1> USE DEF MInv
<1>1. \A v \in Workers \ {w} : job'[v] = job[v] /\ On(v)' = On(v) /\ Updated(v)' = Updated(v)
  BY DEF TypeOK, On, Updated
<1>2. job'[w] = j
  BY DEF TypeOK
<1>3. Shaped'
  BY <1>1, <1>2 DEF Shaped
<1>4. MeetingsNoticed'
  BY <1>1 DEF MeetingsNoticed
<1>5. CopiesListed'
  BY <1>1 DEF CopiesListed, Listed
<1>6. ASSUME NEW v \in Workers \ {w}
      PROVE  SourceHolds(v)' /\ UpdatedHolds(v)'
  <2>1. \A t \in On(v) \cap Tickets : t \notin overlapped => row'[t] = row[t]
    BY DEF MeetingsNoticed
  <2>2. SourceHolds(v)'
    <3>1. job[v].source \in Tickets => job[v].source \in On(v)
      BY DEF On
    <3> QED BY <1>1, <2>1, <3>1 DEF CopiesHold, SourceHolds
  <2>3. UpdatedHolds(v)'
    <3>1. Updated(v) \in Tickets => Updated(v) \in On(v)
      BY DEF On, Updated
    <3>2. UpdatedHolds(v)
      BY DEF CopiesHold
    <3>3. job'[v] = job[v] /\ Updated(v)' = Updated(v)
      BY <1>1
    <3>4. Updated(v) \in Tickets \ overlapped => row'[Updated(v)] = row[Updated(v)]
      BY <2>1, <3>1
    <3> QED BY <3>2, <3>3, <3>4 DEF UpdatedHolds
  <2> QED BY <2>2, <2>3
<1>7. CopiesHold'
  BY <1>6 DEF CopiesHold
<1> QED BY <1>3, <1>4, <1>5, <1>7

\* A step that writes neither rows nor events, of a request that is not about
\* to announce a merge and goes on if it is in the middle of one.
LEMMA SameRows ==
  ASSUME MInv, NEW w \in Workers, NEW j, job' = [job EXCEPT ![w] = j],
         UNCHANGED <<row, timeline, merged>>, overlapped \subseteq overlapped', cut \subseteq cut',
         \/ /\ ~At(w, "announce")
            /\ job[w].cmd = "accept" /\ At(w, "update")
                 /\ {job[w].source, job[w].target} \cap (overlapped \cup cut) = {}
               => /\ j.source = job[w].source /\ j.target = job[w].target
                  /\ j.cmd = "accept" /\ j.pc \in {"update", "write"}
            /\ ~At(w, "write")
         \/ On(w) \subseteq cut'
  PROVE  MergedIsClosed' /\ Mirrored' /\ Audited' /\ ListedWasMerged' /\ NoCircle'
<1> USE DEF MInv
<1>1. \A v \in Workers \ {w} : job'[v] = job[v]
  BY DEF TypeOK
<1>2. job'[w] = j
  BY DEF TypeOK
<1>3. MergedIsClosed' /\ ListedWasMerged'
  BY DEF MergedIsClosed, ListedWasMerged
<1>4. NoCircle'
  BY DEF NoCircle
<1>5. ASSUME NEW s \in (Tickets \ (overlapped \cup cut))', NEW t \in (Tickets \ (overlapped \cup cut))',
             Halfway(s, t)
      PROVE  Halfway(s, t)'
  <2>1. PICK v \in Workers : /\ job[v].cmd = "accept" /\ job[v].source = s /\ job[v].target = t
                             /\ job[v].pc \in {"announce", "update", "write"}
    BY <1>5 DEF Halfway
  <2>2. CASE v # w
    BY <1>1, <2>1, <2>2 DEF Halfway
  <2>3. CASE v = w
    <3>1. ~(On(w) \subseteq cut')
      BY <2>1, <2>3 DEF On
    <3>2. At(w, "update")
      BY <2>1, <2>3, <3>1 DEF At
    <3> QED BY <1>2, <2>1, <2>3, <3>1, <3>2 DEF Halfway
  <2> QED BY <2>2, <2>3
<1>6. Mirrored'
  BY <1>5 DEF Mirrored
<1>7. ASSUME NEW m \in merged, m[1] \notin cut', <<"accepted", m[1], m[2]>> \notin timeline
      PROVE  \E v \in Workers : /\ job'[v].pc = "announce"
                                /\ job'[v].source = m[1] /\ job'[v].target = m[2]
  <2>1. PICK v \in Workers : /\ job[v].pc = "announce"
                             /\ job[v].source = m[1] /\ job[v].target = m[2]
    BY <1>7 DEF Audited
  <2>2. v # w
    <3>1. CASE v = w
      <4>1. On(w) \subseteq cut'
        BY <2>1, <3>1 DEF At
      <4>2. job[w].source \in On(w)
        BY <2>1, <3>1, Typed DEF At
      <4> QED BY <1>7, <2>1, <3>1, <4>1, <4>2
    <3> QED BY <3>1
  <2> QED BY <1>1, <2>1, <2>2
<1>8. Audited'
  BY <1>7 DEF Audited
<1> QED BY <1>3, <1>4, <1>6, <1>8

\* A step that keeps the merges, the events and whoever is about to announce one.
LEMMA AuditedKept ==
  ASSUME Audited, merged' = merged, timeline \subseteq timeline', cut \subseteq cut',
         \A v \in Workers : job[v].pc = "announce" => job'[v] = job[v]
  PROVE  Audited'
<1>1. ASSUME NEW m \in merged, m[1] \notin cut', <<"accepted", m[1], m[2]>> \notin timeline'
      PROVE  \E v \in Workers : /\ job'[v].pc = "announce"
                                /\ job'[v].source = m[1] /\ job'[v].target = m[2]
  <2>1. PICK v \in Workers : /\ job[v].pc = "announce"
                             /\ job[v].source = m[1] /\ job[v].target = m[2]
    BY <1>1 DEF Audited
  <2> QED BY <2>1
<1> QED BY <1>1 DEF Audited

Jobs == [pc : Pc, cmd : AllCommands \cup {None}, source : Tickets \cup {None},
         target : Tickets \cup {None}, smeta : Meta, tmeta : Meta, ready : Meta]

\* The same for the request of a worker, with what the station it is at says of
\* its command.
LEMMA InProgress ==
  ASSUME TypeOK, Shaped, NEW w \in Workers, ~At(w, "idle")
  PROVE  /\ job[w] \in Jobs /\ {job[w].smeta, job[w].tmeta, job[w].ready} \subseteq Metas
         /\ \A t \in Tickets : row[t].meta \in Metas
         /\ job[w].cmd \in AllCommands /\ job[w].source \in Tickets
         /\ job[w].cmd \in {"accept", "reject"} => job[w].target \in Tickets \ {job[w].source}
         /\ job[w].cmd \in {"close", "update"} => job[w].target = None
         /\ Updated(w) \in Tickets /\ Updated(w) \in On(w) /\ job[w].source \in On(w)
         /\ job[w].pc = "source" => job[w].cmd \in {"accept", "reject"}
         /\ job[w].pc \in {"target", "announce"} => job[w].cmd = "accept"
         /\ job[w].pc \in {"close", "resolve", "resolving", "closing", "closed"} =>
              job[w].cmd \in {"accept", "close"}
         /\ job[w].pc \in {"update", "write"} => job[w].cmd \in {"accept", "reject", "update"}
         /\ job[w].pc = "tell" => job[w].cmd \in {"accept", "reject"}
<1>1. job[w] \in Jobs
  BY DEF TypeOK, Jobs
<1>2. /\ {job[w].smeta, job[w].tmeta, job[w].ready} \subseteq Metas
      /\ \A t \in Tickets : row[t].meta \in Metas
      /\ job[w].cmd \in AllCommands /\ job[w].source \in Tickets
      /\ job[w].pc \in Path(job[w].cmd)
      /\ job[w].target \in IF job[w].cmd \in {"accept", "reject"}
                           THEN Tickets \ {job[w].source} ELSE {None}
      /\ Updated(w) \in Tickets /\ Updated(w) \in On(w) /\ job[w].source \in On(w)
  BY Typed
<1>3. /\ job[w].cmd = "reject" => job[w].pc \in {"source", "update", "write", "tell"}
      /\ job[w].cmd = "close" =>
           job[w].pc \in {"close", "resolve", "resolving", "closing", "closed"}
      /\ job[w].cmd = "update" => job[w].pc \in {"update", "write"}
  BY <1>2 DEF Path
<1>4. job[w].cmd \in {"accept", "reject", "close", "update"}
  BY <1>2 DEF AllCommands
<1> QED BY <1>1, <1>2, <1>3, <1>4

\* The same, with the types: what a step that only reads has to show.
LEMMA ReadingStep ==
  ASSUME MInv, NEW w \in Workers, NEW j \in Jobs, job' = [job EXCEPT ![w] = j], WellFormed(j),
         UNCHANGED <<row, timeline, merged, started, overlapped, cut>>,
         j.source = job[w].source, j.target = job[w].target, j.cmd = job[w].cmd,
         ~At(w, "announce"), ~At(w, "write"),
         At(w, "update") => j.pc \in {"update", "write"},
         Listed(w)', SourceHolds(w)', UpdatedHolds(w)'
  PROVE  MInv'
<1> USE DEF MInv
<1>1. On(w)' = On(w)
  BY DEF On, TypeOK
<1>2. Shaped' /\ MeetingsNoticed' /\ CopiesListed' /\ CopiesHold'
  BY <1>1, OneRequest
<1>3. MergedIsClosed' /\ Mirrored' /\ Audited' /\ ListedWasMerged' /\ NoCircle'
  BY SameRows
<1>4. TypeOK'
  BY DEF TypeOK, Jobs
<1> QED BY <1>2, <1>3, <1>4
-----------------------------------------------------------------------------
(* The steps.                                                              *)

LEMMA InitMInv == Init => MInv
<1> SUFFICES ASSUME Init PROVE MInv
  OBVIOUS
<1>1. NoMeta \in Metas /\ NoMeta \in Meta /\ Len(NoMeta.history) <= HistoryLimit
  BY NoMetaType DEF Metas
<1>2. Idle \in Jobs
  BY <1>1 DEF Idle, Jobs, Pc
<1>3. \A t \in Tickets : row[t].meta = NoMeta /\ row[t] \in [status : Status, meta : Meta]
  BY <1>1 DEF Init, Status
<1>4. TypeOK
  <2>1. row \in [Tickets -> [status : Status, meta : Meta]]
    BY <1>1 DEF Init, Status
  <2>2. job \in [Workers -> Jobs]
    BY <1>2 DEF Init
  <2> QED BY <1>1, <1>3, <2>1, <2>2 DEF Init, TypeOK, Jobs
<1>5. \A w \in Workers : job[w] = Idle
  BY DEF Init
<1>6. ASSUME NEW w \in Workers
      PROVE  WellFormed(job[w]) /\ On(w) = {} /\ Listed(w) /\ SourceHolds(w) /\ UpdatedHolds(w)
  <2>1. /\ job[w] = Idle /\ job[w].source = None /\ job[w].target = None /\ job[w].pc = "idle"
        /\ job[w].smeta = NoMeta /\ job[w].tmeta = NoMeta /\ job[w].ready = NoMeta
        /\ Updated(w) = None
    BY <1>5 DEF Idle, Updated
  <2>2. WellFormed(job[w]) /\ On(w) = {}
    BY <1>1, <2>1 DEF WellFormed, On
  <2>3. Listed(w)
    BY <2>1 DEF Listed, NoMeta
  <2>4. SourceHolds(w) /\ UpdatedHolds(w)
    BY <2>1 DEF SourceHolds, UpdatedHolds
  <2> QED BY <2>2, <2>3, <2>4
<1>7. Shaped /\ MeetingsNoticed /\ CopiesListed /\ CopiesHold
  BY <1>6 DEF Shaped, MeetingsNoticed, CopiesListed, CopiesHold
<1>8. \A t \in Tickets : row[t].meta.into = None /\ row[t].meta.links = {}
  BY <1>3 DEF NoMeta
<1>9. MergedIsClosed /\ ListedWasMerged /\ Audited
  BY <1>8 DEF Init, MergedIsClosed, ListedWasMerged, Audited
<1>10. Mirrored
  BY <1>8 DEF Mirrored
<1>11. ASSUME NEW S \in (SUBSET (Tickets \ overlapped)) \ {{}}
       PROVE  \E t \in S : row[t].meta.into \notin S
  <2>1. S \subseteq Tickets /\ S # {}
    OBVIOUS
  <2>2. PICK t \in S : TRUE
    BY <2>1
  <2> QED BY <1>8, <2>1, <2>2
<1> QED BY <1>4, <1>7, <1>9, <1>10, <1>11 DEF MInv, NoCircle

\* A request arrives: whoever it meets is noticed.
LEMMA StartMInv ==
  ASSUME MInv, NEW w \in Workers, NEW c \in Commands, NEW s \in Tickets,
         NEW t \in Tickets \cup {None}, Start(w, c, s, t)
  PROVE  MInv'
<1> USE DEF MInv
<1> DEFINE j == [Idle EXCEPT !.pc = IF c = "close" THEN "close"
                                    ELSE IF c = "update" THEN "update" ELSE "source",
                             !.cmd = c, !.source = s, !.target = t]
<1>1. /\ job' = [job EXCEPT ![w] = j] /\ started' = started + 1 /\ started < MaxRequests
      /\ UNCHANGED <<row, timeline, merged, cut>> /\ At(w, "idle")
      /\ overlapped' = overlapped \cup UNION {On(v) \cap {s, t} : v \in Workers \ {w}}
      /\ c \in AllCommands
      /\ t \in IF c \in {"accept", "reject"} THEN Tickets \ {s} ELSE {None}
  BY CommandsAssumption DEF Start
<1>2. /\ j.pc = (IF c = "close" THEN "close" ELSE IF c = "update" THEN "update" ELSE "source")
      /\ j.cmd = c /\ j.source = s /\ j.target = t
      /\ j.smeta = NoMeta /\ j.tmeta = NoMeta /\ j.ready = NoMeta
      /\ j \in Jobs
  BY <1>1, NoMetaType DEF Idle, Jobs, Pc, Metas, AllCommands
<1> HIDE DEF j
<1>3. job'[w] = j /\ \A v \in Workers \ {w} : job'[v] = job[v] /\ On(v)' = On(v)
                                              /\ Updated(v)' = Updated(v)
  BY <1>1 DEF TypeOK, On, Updated
<1>4. WellFormed(j)
  BY <1>1, <1>2, NoMetaType DEF WellFormed, Path, AllCommands
<1>5. On(w)' = {s, t} \ {None}
  BY <1>2, <1>3 DEF On
<1>6. Shaped'
  BY <1>3, <1>4 DEF Shaped
<1>7. overlapped \subseteq overlapped' /\ MeetingsNoticed'
  <2>1. \A v \in Workers \ {w} : On(v) \cap {s, t} \subseteq overlapped'
    BY <1>1
  <2>2. overlapped \subseteq overlapped'
    BY <1>1
  <2> QED BY <1>3, <1>5, <2>1, <2>2 DEF MeetingsNoticed
<1>8. CopiesListed'
  <2>1. Listed(w)'
    BY <1>2, <1>3 DEF Listed, NoMeta
  <2> QED BY <1>1, <1>3, <2>1 DEF CopiesListed, Listed
<1>9. CopiesHold'
  <2>1. SourceHolds(w)'
    BY <1>1, <1>2, <1>3 DEF SourceHolds
  <2>2. UpdatedHolds(w)'
    BY <1>1, <1>2, <1>3 DEF UpdatedHolds, NoMeta
  <2>3. ASSUME NEW v \in Workers \ {w} PROVE SourceHolds(v)' /\ UpdatedHolds(v)'
    <3>1. SourceHolds(v) /\ UpdatedHolds(v) /\ job'[v] = job[v] /\ Updated(v)' = Updated(v)
      BY <1>3 DEF CopiesHold
    <3> QED BY <1>1, <1>7, <3>1 DEF SourceHolds, UpdatedHolds
  <2> QED BY <2>1, <2>2, <2>3 DEF CopiesHold
<1>10. MergedIsClosed' /\ Mirrored' /\ Audited' /\ ListedWasMerged' /\ NoCircle'
  <2>1. ~At(w, "announce") /\ ~At(w, "update") /\ ~At(w, "write")
    BY <1>1 DEF At
  <2> QED BY <1>1, <1>7, <2>1, SameRows
<1>11. TypeOK'
  <2>1. overlapped' \subseteq Tickets
    <3>1. \A v \in Workers : On(v) \subseteq Tickets
      BY DEF TypeOK, On
    <3> QED BY <1>1, <3>1 DEF TypeOK
  <2> QED BY <1>1, <1>2, <2>1 DEF TypeOK, Jobs
<1> QED BY <1>6, <1>7, <1>8, <1>9, <1>10, <1>11

\* The reads at the head of accept_merge_suggestion and reject_merge_suggestion.
LEMMA ReadSourceMInv == ASSUME MInv, NEW w \in Workers, ReadSource(w) PROVE MInv'
<1> USE DEF MInv
<1> DEFINE s == job[w].source
           t == job[w].target
<1>1. /\ s \in Tickets /\ t \in Tickets \ {s} /\ row[s].meta \in Metas
      /\ job[w].cmd \in {"accept", "reject"} /\ ~At(w, "announce")
      /\ {job[w].smeta, job[w].tmeta, job[w].ready} \subseteq Metas /\ job[w] \in Jobs
  <2>1. job[w].pc = "source"
    BY DEF ReadSource, At
  <2> QED BY <2>1, InProgress DEF At, AllCommands
<1>2. /\ row[s].status # "closed" /\ UNCHANGED <<row, timeline, merged, started, overlapped, cut>>
      /\ ~At(w, "update") /\ ~At(w, "write")
  BY DEF ReadSource, Open, At
<1>3. CASE job[w].cmd = "accept"
  <2> DEFINE j == [job[w] EXCEPT !.pc = "target", !.smeta = row[s].meta]
  <2>1. job' = [job EXCEPT ![w] = j]
    BY <1>3 DEF ReadSource, TypeOK
  <2>2. /\ j.pc = "target" /\ j.smeta = row[s].meta /\ j.cmd = "accept" /\ j.source = s
        /\ j.target = t /\ j.tmeta = job[w].tmeta /\ j.ready = job[w].ready /\ j \in Jobs
    BY <1>1, <1>3 DEF Jobs, Pc, Metas
  <2> HIDE DEF j
  <2>3. job'[w] = j /\ Updated(w)' = Updated(w)
    BY <1>3, <2>1, <2>2 DEF TypeOK, Updated
  <2>4. WellFormed(j)
    BY <1>1, <2>2 DEF WellFormed, Path, AllCommands
  <2>5. Listed(w)'
    BY <1>1, <1>2, <2>2, <2>3 DEF Listed, CopiesListed, ListedWasMerged
  <2>6. SourceHolds(w)' /\ UpdatedHolds(w)'
    BY <1>1, <1>2, <2>2, <2>3 DEF SourceHolds, UpdatedHolds
  <2> QED BY <1>1, <1>2, <1>3, <2>1, <2>2, <2>4, <2>5, <2>6, ReadingStep
<1>4. CASE job[w].cmd = "reject"
  <2> DEFINE m == Rejected(s, t, row[s].meta)
             j == [job[w] EXCEPT !.pc = "update", !.tmeta = m]
  <2>0. m \in Metas /\ m.into = row[s].meta.into /\ m.links = row[s].meta.links
    BY <1>1, RejectedMeta
  <2>1. job' = [job EXCEPT ![w] = j]
    BY <1>4 DEF ReadSource, TypeOK
  <2>2. /\ j.pc = "update" /\ j.smeta = job[w].smeta /\ j.cmd = "reject" /\ j.source = s
        /\ j.target = t /\ j.tmeta = m /\ j.ready = job[w].ready
        /\ j \in Jobs
    BY <1>1, <1>4, <2>0 DEF Jobs, Pc, Metas
  <2> HIDE DEF j, m
  <2>3. job'[w] = j /\ Updated(w)' = s /\ Updated(w) = s
    BY <1>4, <2>1, <2>2 DEF TypeOK, Updated
  <2>4. WellFormed(j)
    BY <1>1, <2>2, <2>0 DEF WellFormed, Path, AllCommands
  <2>5. Listed(w)'
    BY <1>1, <1>2, <2>2, <2>3, <2>0 DEF Listed, CopiesListed, ListedWasMerged
  <2>6. SourceHolds(w)' /\ UpdatedHolds(w)'
    BY <1>1, <1>2, <2>2, <2>3, <2>0 DEF SourceHolds, UpdatedHolds
  <2> QED BY <1>1, <1>2, <1>4, <2>1, <2>2, <2>4, <2>5, <2>6, ReadingStep
<1> QED BY <1>1, <1>3, <1>4

LEMMA ReadTargetMInv == ASSUME MInv, NEW w \in Workers, ReadTarget(w) PROVE MInv'
<1> USE DEF MInv
<1> DEFINE s == job[w].source
           t == job[w].target
           j == [job[w] EXCEPT !.pc = "close", !.tmeta = row[t].meta]
<1>1. /\ s \in Tickets /\ t \in Tickets \ {s} /\ row[t].meta \in Metas /\ job[w].cmd = "accept"
      /\ {job[w].smeta, job[w].tmeta, job[w].ready} \subseteq Metas /\ job[w] \in Jobs
  <2>1. job[w].pc = "target"
    BY DEF ReadTarget, At
  <2> QED BY <2>1, InProgress DEF At, AllCommands
<1>2. /\ row[t].status # "closed" /\ UNCHANGED <<row, timeline, merged, started, overlapped, cut>>
      /\ job' = [job EXCEPT ![w] = j] /\ At(w, "target")
  BY DEF ReadTarget, Open, TypeOK
<1>3. /\ j.pc = "close" /\ j.smeta = job[w].smeta /\ j.cmd = "accept" /\ j.source = s
      /\ j.target = t /\ j.tmeta = row[t].meta /\ j.ready = job[w].ready /\ j \in Jobs
  BY <1>1 DEF Jobs, Pc, Metas
<1> HIDE DEF j
<1>4. job'[w] = j /\ Updated(w)' = t /\ Updated(w) = t
  BY <1>1, <1>2, <1>3 DEF TypeOK, Updated
<1>5. WellFormed(j)
  BY <1>1, <1>3 DEF WellFormed, Path, AllCommands
<1>6. Listed(w)'
  BY <1>1, <1>2, <1>3, <1>4 DEF Listed, CopiesListed, ListedWasMerged
<1>7. SourceHolds(w)' /\ UpdatedHolds(w)'
  <2>1. SourceHolds(w)
    BY DEF CopiesHold
  <2> QED BY <1>1, <1>2, <1>3, <1>4, <2>1 DEF SourceHolds, UpdatedHolds, At
<1> QED BY <1>1, <1>2, <1>3, <1>5, <1>6, <1>7, ReadingStep DEF At

\* close_ticket: the read that decides how it goes on, and the reads of the two
\* halves.
LEMMA ReadCloseMInv == ASSUME MInv, NEW w \in Workers, ReadClose(w) \/ Check(w) PROVE MInv'
<1> USE DEF MInv
<1> DEFINE s == job[w].source
           p == job'[w].pc
           j == [job[w] EXCEPT !.pc = p]
<1>1. /\ s \in Tickets /\ job[w].cmd \in {"accept", "close"}
      /\ job[w].target \in Tickets \cup {None}
      /\ job[w].cmd = "accept" => job[w].target \in Tickets \ {s}
      /\ job[w].cmd = "close" => job[w].target = None
      /\ {job[w].smeta, job[w].tmeta, job[w].ready} \subseteq Metas /\ job[w] \in Jobs
  <2>1. job[w].pc \in {"close", "resolve", "closing"}
    BY DEF ReadClose, Check, At
  <2> QED BY <2>1, InProgress DEF At, AllCommands
<1>2. /\ UNCHANGED <<row, timeline, merged, started, overlapped, cut>>
      /\ job[w].pc \in {"close", "resolve", "closing"}
      /\ p \in {"closing", "resolve", "resolving", "closed"}
      /\ job' = [job EXCEPT ![w] = j]
  BY DEF ReadClose, Check, Goto, TypeOK, At
<1>3. job[w].pc \in {"close", "resolve"} => row[s].status # "closed"
  BY DEF ReadClose, Check, Open, At, MayMove, AllowedNext
<1>4. /\ j.pc = p /\ j.smeta = job[w].smeta /\ j.cmd = job[w].cmd /\ j.source = s
      /\ j.target = job[w].target /\ j.tmeta = job[w].tmeta /\ j.ready = job[w].ready /\ j \in Jobs
  BY <1>1, <1>2 DEF Jobs, Pc
<1> HIDE DEF j, p
<1>5. job'[w] = j /\ Updated(w)' = Updated(w)
  BY <1>2, <1>4 DEF TypeOK, Updated
<1>6. WellFormed(j)
  BY <1>1, <1>2, <1>4 DEF WellFormed, Path, AllCommands
<1>7. Listed(w)'
  <2>1. Listed(w)
    BY DEF CopiesListed
  <2> QED BY <1>2, <1>4, <1>5, <2>1 DEF Listed
<1>8. SourceHolds(w)' /\ UpdatedHolds(w)'
  <2>1. SourceHolds(w) /\ UpdatedHolds(w)
    BY DEF CopiesHold
  <2>2. SourceHolds(w)'
    BY <1>1, <1>2, <1>3, <1>4, <1>5, <2>1 DEF SourceHolds
  <2>3. UpdatedHolds(w)'
    BY <1>1, <1>2, <1>4, <1>5, <2>1 DEF UpdatedHolds
  <2> QED BY <2>2, <2>3
<1> QED BY <1>2, <1>4, <1>6, <1>7, <1>8, ReadingStep DEF At

\* update_ticket: the patch is laid over the metadata it reads.
LEMMA ReadUpdateMInv == ASSUME MInv, NEW w \in Workers, ReadUpdate(w) PROVE MInv'
<1> USE DEF MInv
<1> DEFINE u == Updated(w)
           m == Overlay(row[u].meta, job[w].tmeta)
           j == [job[w] EXCEPT !.pc = "write", !.ready = m]
<1>1. /\ job[w].source \in Tickets /\ job[w].cmd \in {"accept", "reject", "update"}
      /\ job[w].target \in IF job[w].cmd = "update" THEN {None} ELSE Tickets \ {job[w].source}
      /\ u \in Tickets /\ row[u].meta \in Metas /\ job[w].tmeta \in Metas
      /\ {job[w].smeta, job[w].tmeta, job[w].ready} \subseteq Metas /\ job[w] \in Jobs
  <2>1. job[w].pc = "update"
    BY DEF ReadUpdate, At
  <2> QED BY <2>1, InProgress DEF At, AllCommands
<1>2. /\ row[u].status # "closed" /\ UNCHANGED <<row, timeline, merged, started, overlapped, cut>>
      /\ job' = [job EXCEPT ![w] = j] /\ At(w, "update")
  BY DEF ReadUpdate, Open, TypeOK
<1>3. /\ m \in Metas
      /\ m.into = IF job[w].tmeta.into = None THEN row[u].meta.into ELSE job[w].tmeta.into
      /\ m.links = IF job[w].tmeta.links = {} THEN row[u].meta.links ELSE job[w].tmeta.links
  BY <1>1, OverlayMeta
<1>4. /\ j.pc = "write" /\ j.smeta = job[w].smeta /\ j.cmd = job[w].cmd /\ j.ready = m
      /\ j.source = job[w].source /\ j.target = job[w].target /\ j.tmeta = job[w].tmeta
      /\ j \in Jobs
  BY <1>1, <1>3 DEF Jobs, Pc, Metas
<1> HIDE DEF j, m
<1>5. job'[w] = j /\ Updated(w)' = u
  BY <1>2, <1>4 DEF TypeOK, Updated
<1>6. WellFormed(j)
  BY <1>1, <1>3, <1>4 DEF WellFormed, Path, AllCommands
<1>7. Listed(w) /\ SourceHolds(w) /\ UpdatedHolds(w)
  BY DEF CopiesListed, CopiesHold
<1>8. Listed(w)'
  BY <1>1, <1>2, <1>3, <1>4, <1>5, <1>7 DEF Listed, ListedWasMerged, At
<1>9. SourceHolds(w)'
  BY <1>2, <1>4, <1>5, <1>7 DEF SourceHolds, At
<1>10. UpdatedHolds(w)'
  <2> HIDE DEF u
  <2>1. CASE u \in Tickets \ overlapped
    <3>1. /\ job[w].tmeta.into \in {None, row[u].meta.into}
          /\ job[w].tmeta.links \in IF job[w].cmd = "accept"
                                    THEN {row[u].meta.links \cup {job[w].source}}
                                    ELSE {{}, row[u].meta.links}
      BY <1>2, <1>7, <2>1 DEF UpdatedHolds, At, u
    <3>2. m.into = row[u].meta.into
      BY <1>3, <3>1
    <3>3. m.links = row[u].meta.links \cup IF job[w].cmd = "accept" THEN {job[w].source} ELSE {}
      BY <1>3, <3>1
    <3> QED BY <1>2, <1>4, <1>5, <3>2, <3>3 DEF UpdatedHolds
  <2>2. CASE u \notin Tickets \ overlapped
    BY <1>2, <1>5, <2>2 DEF UpdatedHolds
  <2> QED BY <2>1, <2>2
<1> QED BY <1>2, <1>4, <1>6, <1>8, <1>9, <1>10, ReadingStep DEF At

\* A request that ends, by itself, with an error or cut off.
LEMMA Ending ==
  ASSUME MInv, NEW w \in Workers, Finish(w), overlapped' = overlapped, merged \subseteq merged',
         \A t \in Tickets \ On(w) : row'[t] = row[t]
  PROVE  /\ Shaped' /\ MeetingsNoticed' /\ CopiesListed' /\ CopiesHold'
         /\ job' \in [Workers -> Jobs]
<1>1. /\ Idle.pc = "idle" /\ Idle.cmd = None /\ Idle.source = None /\ Idle.target = None
      /\ Idle.smeta = NoMeta /\ Idle.tmeta = NoMeta /\ Idle.ready = NoMeta /\ Idle \in Jobs
  BY NoMetaType DEF Idle, Jobs, Pc, Metas
<1>2. job' = [job EXCEPT ![w] = Idle] /\ job'[w] = Idle /\ On(w)' = {}
  BY <1>1 DEF Finish, MInv, TypeOK, On
<1>3. WellFormed(Idle)
  BY <1>1, NoMetaType DEF WellFormed
<1>4. Listed(w)'
  BY <1>1, <1>2 DEF Listed, NoMeta
<1>5. SourceHolds(w)' /\ UpdatedHolds(w)'
  BY <1>1, <1>2 DEF SourceHolds, UpdatedHolds, Updated
<1>6. job' \in [Workers -> Jobs]
  BY <1>1, <1>2 DEF MInv, TypeOK, Jobs
<1> QED BY <1>2, <1>3, <1>4, <1>5, <1>6, OneRequest

\* RuntimeError.  Alone on its target, an accepted merge is not refused there.
LEMMA RefuseMInv == ASSUME MInv, NEW w \in Workers, Refuse(w) PROVE MInv'
<1> USE DEF MInv
<1>1. Finish(w) /\ UNCHANGED <<row, timeline, merged, started, overlapped, cut>>
      /\ job' = [job EXCEPT ![w] = Idle]
  BY DEF Refuse, Finish
<1>2. Shaped' /\ MeetingsNoticed' /\ CopiesListed' /\ CopiesHold' /\ job' \in [Workers -> Jobs]
  BY <1>1, Ending
<1>3. ~At(w, "announce") /\ ~At(w, "write")
  BY DEF Refuse, At
<1>4. ASSUME job[w].cmd = "accept", At(w, "update"),
             {job[w].source, job[w].target} \cap (overlapped \cup cut) = {}
      PROVE  FALSE
  <2>1. Updated(w) = job[w].target /\ Updated(w) \in Tickets \ overlapped
    BY <1>4, Typed DEF Updated, At
  <2>2. row[Updated(w)].status = "closed"
    BY <1>4 DEF Refuse, At, Open
  <2> QED BY <1>4, <2>1, <2>2 DEF CopiesHold, UpdatedHolds, At
<1>5. MergedIsClosed' /\ Mirrored' /\ Audited' /\ ListedWasMerged' /\ NoCircle'
  BY <1>1, <1>3, <1>4, SameRows
<1>6. TypeOK'
  BY <1>1, <1>2 DEF TypeOK, Jobs
<1> QED BY <1>2, <1>5, <1>6

LEMMA CrashMInv == ASSUME MInv, NEW w \in Workers, Crash(w) PROVE MInv'
<1> USE DEF MInv
<1>1. Finish(w) /\ UNCHANGED <<row, timeline, merged, started, overlapped>>
      /\ job' = [job EXCEPT ![w] = Idle] /\ cut' = cut \cup On(w)
  BY DEF Crash, Finish
<1>2. Shaped' /\ MeetingsNoticed' /\ CopiesListed' /\ CopiesHold' /\ job' \in [Workers -> Jobs]
  BY <1>1, Ending
<1>3. MergedIsClosed' /\ Mirrored' /\ Audited' /\ ListedWasMerged' /\ NoCircle'
  BY <1>1, SameRows
<1>4. TypeOK'
  <2>1. On(w) \subseteq Tickets
    BY DEF TypeOK, On
  <2> QED BY <1>1, <1>2, <2>1 DEF TypeOK, Jobs
<1> QED BY <1>2, <1>3, <1>4

\* The first half of close_ticket: only the status of the source changes, and
\* where it is alone the source was not closed.
LEMMA ResolveMInv == ASSUME MInv, NEW w \in Workers, Resolve(w) PROVE MInv'
<1> USE DEF MInv
<1> DEFINE s == job[w].source
           j == [job[w] EXCEPT !.pc = "closing"]
<1>1. /\ s \in Tickets /\ s \in On(w) /\ job[w].cmd \in {"accept", "close"} /\ job[w] \in Jobs
      /\ job[w].target \in Tickets \cup {None}
      /\ job[w].cmd = "accept" => job[w].target \in Tickets \ {s}
      /\ job[w].cmd = "close" => job[w].target = None
      /\ {job[w].smeta, job[w].tmeta, job[w].ready} \subseteq Metas
  <2>1. job[w].pc = "resolving"
    BY DEF Resolve, At
  <2> QED BY <2>1, InProgress DEF At, AllCommands
<1>2. /\ UNCHANGED <<timeline, merged, started, overlapped, cut>> /\ At(w, "resolving")
      /\ job' = [job EXCEPT ![w] = j] /\ row' = [row EXCEPT ![s].status = "resolved"]
  BY DEF Resolve, Goto, TypeOK
<1>3. /\ j.pc = "closing" /\ j.smeta = job[w].smeta /\ j.cmd = job[w].cmd /\ j.source = s
      /\ j.target = job[w].target /\ j.tmeta = job[w].tmeta /\ j.ready = job[w].ready /\ j \in Jobs
  BY <1>1 DEF Jobs, Pc
<1> HIDE DEF j
<1>4. job'[w] = j /\ Updated(w)' = Updated(w) /\ On(w)' = On(w)
      /\ \A v \in Workers \ {w} : job'[v] = job[v]
  BY <1>2, <1>3 DEF TypeOK, Updated, On
<1>5. /\ row' \in [Tickets -> [status : Status, meta : Meta]]
      /\ \A t \in Tickets : row'[t].meta = row[t].meta
      /\ \A t \in Tickets \ {s} : row'[t] = row[t]
      /\ row'[s].status = "resolved"
  BY <1>1, <1>2 DEF TypeOK, Status
<1>6. SourceHolds(w) /\ UpdatedHolds(w) /\ Listed(w)
  BY DEF CopiesHold, CopiesListed
<1>7. s \notin overlapped => row[s].status # "closed"
  <2> HIDE DEF s
  <2>1. job[w].source = s /\ job[w].pc = "resolving"
    BY <1>2 DEF s, At
  <2> QED BY <1>1, <1>6, <2>1 DEF SourceHolds
<1>8. Shaped' /\ MeetingsNoticed' /\ CopiesListed' /\ CopiesHold'
  <2>1. WellFormed(j)
    BY <1>1, <1>3 DEF WellFormed, Path, AllCommands
  <2>2. Listed(w)'
    BY <1>2, <1>3, <1>4, <1>6 DEF Listed
  <2>3. SourceHolds(w)'
    BY <1>1, <1>2, <1>3, <1>4, <1>5, <1>6 DEF SourceHolds, At
  <2>4. UpdatedHolds(w)'
    <3>1. job[w].cmd = "accept" => Updated(w) \in Tickets \ {s}
      BY <1>1 DEF Updated
    <3>2. /\ job[w].pc = "resolving" /\ job'[w].pc = "closing"
          /\ job'[w].cmd = job[w].cmd /\ job'[w].tmeta = job[w].tmeta
          /\ Updated(w) = Updated(w)' /\ overlapped' = overlapped
      BY <1>2, <1>3, <1>4 DEF At
    <3>3. /\ job[w].cmd = "accept" => row'[Updated(w)] = row[Updated(w)]
          /\ job[w].cmd \in {"accept", "close"}
      BY <1>1, <1>5, <3>1
    <3> HIDE DEF s, j
    <3> QED BY <1>6, <3>2, <3>3 DEF UpdatedHolds
  <2> QED BY <1>1, <1>2, <1>4, <1>5, <2>1, <2>2, <2>3, <2>4, OneRequest
<1>9. MergedIsClosed'
  BY <1>2, <1>5, <1>7 DEF MergedIsClosed
<1>10. Mirrored'
  <2>1. \A x, y \in Tickets : Halfway(x, y) => Halfway(x, y)'
    BY <1>2, <1>4 DEF Halfway, At
  <2> QED BY <1>2, <1>5, <2>1 DEF Mirrored
<1>11. ListedWasMerged' /\ NoCircle'
  BY <1>2, <1>5 DEF ListedWasMerged, NoCircle
<1>12. Audited'
  <2>1. \A v \in Workers : job[v].pc = "announce" => job'[v] = job[v]
    BY <1>2, <1>4 DEF At
  <2> QED BY <1>2, <2>1, AuditedKept
<1>13. TypeOK'
  BY <1>2, <1>3, <1>5 DEF TypeOK, Jobs
<1> QED BY <1>8, <1>9, <1>10, <1>11, <1>12, <1>13

\* The UPDATE of a plain close.
LEMMA ClosePlainMInv ==
  ASSUME MInv, NEW w \in Workers, Close(w), job[w].cmd = "close"
  PROVE  MInv'
<1> USE DEF MInv
<1> DEFINE s == job[w].source
<1>1. s \in Tickets /\ s \in On(w)
  BY Typed DEF Close, At
<1>2. /\ UNCHANGED <<timeline, merged, started, overlapped, cut>> /\ At(w, "closed")
      /\ Finish(w) /\ job' = [job EXCEPT ![w] = Idle]
      /\ row' = [row EXCEPT ![s].status = "closed"]
  BY DEF Close, Finish
<1>3. /\ row' \in [Tickets -> [status : Status, meta : Meta]]
      /\ \A t \in Tickets : row'[t].meta = row[t].meta
      /\ \A t \in Tickets \ {s} : row'[t] = row[t]
      /\ row'[s].status = "closed"
  BY <1>1, <1>2 DEF TypeOK, Status
<1>4. Shaped' /\ MeetingsNoticed' /\ CopiesListed' /\ CopiesHold' /\ job' \in [Workers -> Jobs]
  BY <1>1, <1>2, <1>3, Ending
<1>5. MergedIsClosed' /\ ListedWasMerged' /\ NoCircle'
  BY <1>2, <1>3 DEF MergedIsClosed, ListedWasMerged, NoCircle
<1>6. \A v \in Workers : job[v].pc \in {"announce", "update", "write"} => job'[v] = job[v]
  BY <1>2 DEF At, TypeOK
<1>7. Mirrored'
  <2>1. \A x, y \in Tickets : Halfway(x, y) => Halfway(x, y)'
    BY <1>6 DEF Halfway
  <2> QED BY <1>2, <1>3, <2>1 DEF Mirrored
<1>8. Audited'
  BY <1>2, <1>6, AuditedKept
<1>9. TypeOK'
  BY <1>2, <1>3, <1>4 DEF TypeOK, Jobs
<1> QED BY <1>4, <1>5, <1>7, <1>8, <1>9

\* The UPDATE that closes the source of a merge: no circle, because the target
\* of a merge that is alone is open, and so was merged into nothing.
LEMMA CloseMergeMInv ==
  ASSUME MInv, NEW w \in Workers, Close(w), job[w].cmd # "close"
  PROVE  MInv'
<1> USE DEF MInv
<1> DEFINE s == job[w].source
           t == job[w].target
           m == Accepted(s, t, job[w].smeta)
           j == [job[w] EXCEPT !.pc = "announce"]
<1>1. /\ s \in Tickets /\ t \in Tickets \ {s} /\ s \in On(w) /\ job[w].cmd = "accept"
      /\ {job[w].smeta, job[w].tmeta, job[w].ready} \subseteq Metas /\ job[w] \in Jobs
  <2>1. job[w].pc = "closed"
    BY DEF Close, At
  <2> QED BY <2>1, InProgress DEF At, AllCommands
<1>2. /\ UNCHANGED <<timeline, started, overlapped, cut>> /\ At(w, "closed")
      /\ job' = [job EXCEPT ![w] = j] /\ merged' = merged \cup {<<s, t>>}
      /\ row' = [row EXCEPT ![s] = [status |-> "closed", meta |-> m]]
  <2>1. job[w].cmd # "close"
    BY <1>1
  <2>2. Goto(w, "announce") /\ At(w, "closed")
    BY <2>1 DEF Close
  <2>3. job' = [job EXCEPT ![w] = j]
    BY <2>2 DEF Goto
  <2>4. /\ UNCHANGED <<timeline, started, overlapped, cut>> /\ merged' = merged \cup {<<s, t>>}
        /\ row' = [row EXCEPT ![s] = [status |-> "closed", meta |-> m]]
    BY <2>1 DEF Close
  <2> QED BY <2>2, <2>3, <2>4
<1>3. m \in Metas /\ m.into = t /\ m.links = job[w].smeta.links /\ m.verdict = "accepted"
  <2>1. job[w].smeta \in Metas /\ s \in Tickets /\ t \in Tickets
    BY <1>1
  <2> HIDE DEF s, t, MInv
  <2> QED BY <2>1, AcceptedMeta
<1>4. /\ j.pc = "announce" /\ j.smeta = job[w].smeta /\ j.cmd = "accept" /\ j.source = s
      /\ j.target = t /\ j.tmeta = job[w].tmeta /\ j.ready = job[w].ready /\ j \in Jobs
  BY <1>1 DEF Jobs, Pc
<1> HIDE DEF j, m
<1>5. job'[w] = j /\ Updated(w) = t /\ Updated(w)' = t /\ On(w)' = On(w)
      /\ \A v \in Workers \ {w} : job'[v] = job[v]
  BY <1>1, <1>2, <1>4 DEF TypeOK, Updated, On
<1>6. /\ row' \in [Tickets -> [status : Status, meta : Meta]]
      /\ \A x \in Tickets \ {s} : row'[x] = row[x]
      /\ row'[s].status = "closed" /\ row'[s].meta = m
      /\ Len(m.history) <= HistoryLimit
  BY <1>1, <1>2, <1>3 DEF TypeOK, Status, Metas
<1>7. SourceHolds(w) /\ UpdatedHolds(w) /\ Listed(w)
  BY DEF CopiesHold, CopiesListed
<1>8. /\ s \notin overlapped => row[s].status # "closed" /\ m.links = row[s].meta.links
      /\ t \notin overlapped => row[t].status # "closed"
  <2> HIDE DEF s, t
  <2>1. job[w].source = s /\ job[w].target = t /\ job[w].pc = "closed"
    BY <1>2 DEF s, t, At
  <2>2. s \notin overlapped => row[s].status # "closed" /\ m.links = row[s].meta.links
    BY <1>1, <1>3, <1>7, <2>1 DEF SourceHolds
  <2>3. t \notin overlapped => row[t].status # "closed"
    BY <1>1, <1>5, <1>7, <2>1 DEF UpdatedHolds
  <2> QED BY <2>2, <2>3
<1>9. Shaped' /\ MeetingsNoticed' /\ CopiesListed' /\ CopiesHold'
  <2>1. WellFormed(j)
    BY <1>1, <1>4 DEF WellFormed, Path, AllCommands
  <2>2. Listed(w)'
    BY <1>2, <1>4, <1>5, <1>7 DEF Listed
  <2>3. SourceHolds(w)'
    BY <1>3, <1>4, <1>5, <1>6 DEF SourceHolds
  <2>4. UpdatedHolds(w)'
    BY <1>1, <1>2, <1>4, <1>5, <1>6, <1>7 DEF UpdatedHolds, At
  <2> QED BY <1>1, <1>2, <1>5, <1>6, <2>1, <2>2, <2>3, <2>4, OneRequest
<1>10. MergedIsClosed'
  BY <1>2, <1>3, <1>6 DEF MergedIsClosed
<1>11. s \notin overlapped => row[s].meta.into = None
  BY <1>1, <1>8 DEF MergedIsClosed
<1>12. Mirrored'
  <2>1. \A x, y \in Tickets : Halfway(x, y) => Halfway(x, y)'
    BY <1>2, <1>5 DEF Halfway, At
  <2>2. \A x, y \in Tickets : x = s /\ y = t => Halfway(x, y)'
    BY <1>4, <1>5 DEF Halfway
  <2>3. SUFFICES ASSUME NEW x \in Tickets \ (overlapped \cup cut),
                        NEW y \in Tickets \ (overlapped \cup cut)
                 PROVE  /\ x \in row'[y].meta.links => row'[x].meta.into = y
                        /\ row'[x].meta.into = y => x \in row'[y].meta.links \/ Halfway(x, y)'
    BY <1>2 DEF Mirrored
  <2>4. row'[y].meta.links = row[y].meta.links
    BY <1>6, <1>8
  <2>5. /\ x \in row[y].meta.links => row[x].meta.into = y
        /\ row[x].meta.into = y => x \in row[y].meta.links \/ Halfway(x, y)
    BY DEF Mirrored
  <2>6. CASE x = s
    BY <1>3, <1>6, <1>11, <2>2, <2>4, <2>5, <2>6
  <2>7. CASE x # s
    BY <1>6, <2>1, <2>4, <2>5, <2>7
  <2> QED BY <2>6, <2>7
<1>13. ListedWasMerged'
  BY <1>1, <1>2, <1>3, <1>6, <1>7 DEF ListedWasMerged, Listed
<1>14. NoCircle'
  <2>1. SUFFICES ASSUME NEW S \in (SUBSET (Tickets \ overlapped)) \ {{}},
                        \A x \in S : row'[x].meta.into \in S
                 PROVE  FALSE
    BY <1>2 DEF NoCircle
  <2>2. CASE s \in S
    <3>1. t \in S
      BY <1>3, <1>6, <2>1, <2>2
    <3>2. row'[t].meta.into = None
      BY <1>1, <1>6, <1>8, <2>1, <3>1 DEF MergedIsClosed
    <3> QED BY <2>1, <3>1, <3>2
  <2>3. CASE s \notin S
    BY <1>6, <2>1, <2>3 DEF NoCircle
  <2> QED BY <2>2, <2>3
<1>15. Audited'
  <2>1. /\ job'[w].pc = "announce" /\ job'[w].source = s /\ job'[w].target = t
        /\ <<s, t>>[1] = s /\ <<s, t>>[2] = t
    BY <1>4, <1>5
  <2>2. \A v \in Workers : job[v].pc = "announce" => job'[v] = job[v]
    BY <1>2, <1>5 DEF At
  <2>3. ASSUME NEW n \in merged', n[1] \notin cut, <<"accepted", n[1], n[2]>> \notin timeline
        PROVE  \E v \in Workers : /\ job'[v].pc = "announce"
                                  /\ job'[v].source = n[1] /\ job'[v].target = n[2]
    <3>1. CASE n = <<s, t>>
      BY <2>1, <3>1
    <3>2. CASE n \in merged
      <4>1. PICK v \in Workers : /\ job[v].pc = "announce"
                                 /\ job[v].source = n[1] /\ job[v].target = n[2]
        BY <2>3, <3>2 DEF Audited
      <4> QED BY <2>2, <4>1
    <3> QED BY <1>2, <3>1, <3>2
  <2> QED BY <1>2, <2>3 DEF Audited
<1>16. TypeOK'
  BY <1>1, <1>2, <1>4, <1>6 DEF TypeOK, Jobs
<1> QED BY <1>9, <1>10, <1>12, <1>13, <1>14, <1>15, <1>16

LEMMA AnnounceMInv == ASSUME MInv, NEW w \in Workers, Announce(w) PROVE MInv'
<1> USE DEF MInv
<1> DEFINE s == job[w].source
           t == job[w].target
           m == Linked(s, t, job[w].tmeta)
           j == [job[w] EXCEPT !.pc = "update", !.tmeta = m]
<1>1. /\ s \in Tickets /\ t \in Tickets \ {s} /\ s \in On(w) /\ job[w].cmd = "accept"
      /\ {job[w].smeta, job[w].tmeta, job[w].ready} \subseteq Metas /\ job[w] \in Jobs
  <2>1. job[w].pc = "announce"
    BY DEF Announce, At
  <2> QED BY <2>1, InProgress DEF At, AllCommands
<1>2. /\ UNCHANGED <<row, merged, started, overlapped, cut>> /\ At(w, "announce")
      /\ job' = [job EXCEPT ![w] = j] /\ timeline' = timeline \cup {<<"accepted", s, t>>}
  BY DEF Announce, TypeOK
<1>3. m \in Metas /\ m.into = job[w].tmeta.into /\ m.links = job[w].tmeta.links \cup {s}
  <2>1. job[w].tmeta \in Metas
    BY <1>1
  <2> QED BY <1>1, <2>1, LinkedMeta
<1>4. /\ j.pc = "update" /\ j.smeta = job[w].smeta /\ j.cmd = "accept" /\ j.source = s
      /\ j.target = t /\ j.tmeta = m /\ j.ready = job[w].ready /\ j \in Jobs
  BY <1>1, <1>3 DEF Jobs, Pc, Metas
<1> HIDE DEF j, m
<1>5. job'[w] = j /\ Updated(w) = t /\ Updated(w)' = t /\ On(w)' = On(w)
      /\ \A v \in Workers \ {w} : job'[v] = job[v]
  BY <1>1, <1>2, <1>4 DEF TypeOK, Updated, On
<1>6. SourceHolds(w) /\ UpdatedHolds(w) /\ Listed(w)
  BY DEF CopiesHold, CopiesListed
<1>7. Shaped' /\ MeetingsNoticed' /\ CopiesListed' /\ CopiesHold'
  <2>1. WellFormed(j)
    BY <1>1, <1>3, <1>4 DEF WellFormed, Path, AllCommands
  <2>2. Listed(w)'
    BY <1>1, <1>2, <1>3, <1>4, <1>5, <1>6 DEF Listed, At
  <2>3. SourceHolds(w)'
    BY <1>1, <1>2, <1>4, <1>5, <1>6 DEF SourceHolds, At
  <2>4. UpdatedHolds(w)'
    BY <1>1, <1>2, <1>3, <1>4, <1>5, <1>6 DEF UpdatedHolds, At
  <2> QED BY <1>1, <1>2, <1>5, <2>1, <2>2, <2>3, <2>4, OneRequest
<1>8. MergedIsClosed' /\ ListedWasMerged' /\ NoCircle'
  BY <1>2 DEF MergedIsClosed, ListedWasMerged, NoCircle
<1>9. Mirrored'
  <2>1. \A x, y \in Tickets : Halfway(x, y) => Halfway(x, y)'
    BY <1>1, <1>2, <1>4, <1>5 DEF Halfway, At
  <2> QED BY <1>2, <2>1 DEF Mirrored
<1>10. Audited'
  <2>1. ASSUME NEW n \in merged, n[1] \notin cut, <<"accepted", n[1], n[2]>> \notin timeline'
        PROVE  \E v \in Workers : /\ job'[v].pc = "announce"
                                  /\ job'[v].source = n[1] /\ job'[v].target = n[2]
    <3>1. PICK v \in Workers : /\ job[v].pc = "announce"
                               /\ job[v].source = n[1] /\ job[v].target = n[2]
      BY <1>2, <2>1 DEF Audited
    <3>2. v # w
      BY <1>2, <2>1, <3>1
    <3> QED BY <1>5, <3>1, <3>2
  <2> QED BY <1>2, <2>1 DEF Audited
<1>11. TypeOK'
  BY <1>1, <1>2, <1>4 DEF TypeOK, Jobs
<1> QED BY <1>7, <1>8, <1>9, <1>10, <1>11

\* The UPDATE of update_ticket.  It keeps where the ticket was merged into and
\* its list, but for the source a merge adds.
LEMMA WriteUpdateMInv == ASSUME MInv, NEW w \in Workers, WriteUpdate(w) PROVE MInv'
<1> USE DEF MInv
<1> DEFINE u == Updated(w)
           m == job[w].ready
           j == IF job[w].cmd = "update" THEN Idle ELSE [job[w] EXCEPT !.pc = "tell"]
<1>1. /\ u \in Tickets /\ u \in On(w) /\ job[w].cmd \in {"accept", "reject", "update"}
      /\ job[w].source \in Tickets /\ m \in Metas /\ job[w] \in Jobs
      /\ job[w].target \in IF job[w].cmd = "update" THEN {None} ELSE Tickets \ {job[w].source}
      /\ {job[w].smeta, job[w].tmeta, job[w].ready} \subseteq Metas
  <2>1. job[w].pc = "write"
    BY DEF WriteUpdate, At
  <2> QED BY <2>1, InProgress DEF At, AllCommands
<1>2. /\ UNCHANGED <<timeline, merged, started, overlapped, cut>> /\ At(w, "write")
      /\ row' = [row EXCEPT ![u].meta = m]
      /\ job' = [job EXCEPT ![w] = j]
  BY DEF WriteUpdate, Finish, Goto, TypeOK
<1>3. /\ row' \in [Tickets -> [status : Status, meta : Meta]]
      /\ \A x \in Tickets \ {u} : row'[x] = row[x]
      /\ row'[u].status = row[u].status /\ row'[u].meta = m
      /\ Len(m.history) <= HistoryLimit
  BY <1>1, <1>2 DEF TypeOK, Metas
<1>4. SourceHolds(w) /\ UpdatedHolds(w) /\ Listed(w)
  BY DEF CopiesHold, CopiesListed
<1>5. u \notin overlapped =>
        /\ row[u].status # "closed" /\ row[u].meta.into = None
        /\ m.into = row[u].meta.into
        /\ m.links = row[u].meta.links \cup IF job[w].cmd = "accept" THEN {job[w].source} ELSE {}
  BY <1>1, <1>2, <1>4 DEF UpdatedHolds, At, MergedIsClosed
<1>6. /\ job[w].cmd = "update" => Finish(w)
      /\ job[w].cmd # "update" =>
           /\ j.pc = "tell" /\ j.smeta = job[w].smeta /\ j.cmd = job[w].cmd
           /\ j.source = job[w].source /\ j.target = job[w].target
           /\ j.tmeta = job[w].tmeta /\ j.ready = job[w].ready /\ j \in Jobs
  BY <1>1, <1>2 DEF Jobs, Pc, Finish
<1> HIDE DEF j
<1>7. job'[w] = j /\ \A v \in Workers \ {w} : job'[v] = job[v]
  BY <1>2 DEF TypeOK
<1>8. Shaped' /\ MeetingsNoticed' /\ CopiesListed' /\ CopiesHold' /\ job' \in [Workers -> Jobs]
  <2>1. CASE job[w].cmd = "update"
    BY <1>1, <1>2, <1>3, <1>6, <2>1, Ending
  <2>2. CASE job[w].cmd # "update"
    <3> HIDE DEF u
    <3>1. Updated(w)' = u /\ On(w)' = On(w)
      BY <1>6, <1>7, <2>2 DEF Updated, On, u
    <3>2. WellFormed(j)
      BY <1>1, <1>6, <2>2 DEF WellFormed, Path, AllCommands
    <3>3. Listed(w)'
      BY <1>2, <1>4, <1>6, <1>7, <2>2, <3>1 DEF Listed, At, u
    <3>4. SourceHolds(w)'
      <4>1. job[w].cmd = "accept" => job[w].source # u
        BY <1>1 DEF Updated, u
      <4> QED BY <1>1, <1>2, <1>3, <1>4, <1>6, <1>7, <2>2, <4>1 DEF SourceHolds, At
    <3>5. UpdatedHolds(w)'
      BY <1>6, <1>7, <2>2, <3>1 DEF UpdatedHolds
    <3>6. job' \in [Workers -> Jobs]
      BY <1>2, <1>6, <2>2 DEF TypeOK, Jobs
    <3> QED BY <1>1, <1>2, <1>3, <3>1, <3>2, <3>3, <3>4, <3>5, <3>6, OneRequest
  <2> QED BY <2>1, <2>2
<1>9. MergedIsClosed'
  BY <1>2, <1>3, <1>5 DEF MergedIsClosed
<1>10. ListedWasMerged'
  BY <1>2, <1>3, <1>4 DEF ListedWasMerged, Listed
<1>11. \A x \in Tickets \ overlapped : row'[x].meta.into = row[x].meta.into
  BY <1>3, <1>5
<1>12. NoCircle'
  BY <1>2, <1>11 DEF NoCircle
<1>13. Mirrored'
  <2> HIDE DEF u
  <2>1. SUFFICES ASSUME NEW x \in Tickets \ (overlapped \cup cut),
                        NEW y \in Tickets \ (overlapped \cup cut)
                 PROVE  /\ x \in row'[y].meta.links => row'[x].meta.into = y
                        /\ row'[x].meta.into = y => x \in row'[y].meta.links \/ Halfway(x, y)'
    BY <1>2 DEF Mirrored
  <2>2. /\ x \in row[y].meta.links => row[x].meta.into = y
        /\ row[x].meta.into = y => x \in row[y].meta.links \/ Halfway(x, y)
    BY DEF Mirrored
  <2>3. row[y].meta.links \subseteq row'[y].meta.links
    BY <1>3, <1>5
  <2>4. ASSUME x \in row'[y].meta.links \ row[y].meta.links
        PROVE  row[x].meta.into = y
    <3>1. y = u /\ job[w].cmd = "accept" /\ x = job[w].source
      BY <1>3, <1>5, <2>4
    <3>2. u = job[w].target
      BY <3>1 DEF Updated, u
    <3> QED BY <1>2, <1>4, <3>1, <3>2 DEF SourceHolds, At
  <2>5. ASSUME Halfway(x, y), ~Halfway(x, y)' PROVE x \in row'[y].meta.links
    <3>1. job[w].cmd = "accept" /\ job[w].source = x /\ job[w].target = y
      BY <1>7, <2>5 DEF Halfway
    <3>2. y = u
      BY <3>1 DEF Updated, u
    <3> QED BY <1>3, <1>5, <3>1, <3>2
  <2> QED BY <1>11, <2>2, <2>3, <2>4, <2>5
<1>14. Audited'
  <2>1. \A v \in Workers : job[v].pc = "announce" => job'[v] = job[v]
    BY <1>2, <1>7 DEF At
  <2> QED BY <1>2, <2>1, AuditedKept
<1>15. TypeOK'
  BY <1>2, <1>3, <1>8 DEF TypeOK, Jobs
<1> QED BY <1>8, <1>9, <1>10, <1>12, <1>13, <1>14, <1>15

LEMMA TellMInv == ASSUME MInv, NEW w \in Workers, Tell(w) PROVE MInv'
<1> USE DEF MInv
<1>1. /\ Finish(w) /\ UNCHANGED <<row, merged, started, overlapped, cut>>
      /\ timeline' = timeline \cup {<<IF job[w].cmd = "accept" THEN "merged_in" ELSE "rejected",
                                      job[w].source, job[w].target>>}
      /\ At(w, "tell")
  BY DEF Tell
<1>2. job[w].source \in Tickets /\ job[w].target \in Tickets
  BY <1>1, InProgress DEF At
<1>3. Shaped' /\ MeetingsNoticed' /\ CopiesListed' /\ CopiesHold' /\ job' \in [Workers -> Jobs]
  BY <1>1, Ending
<1>4. \A v \in Workers : job[v].pc # "tell" => job'[v] = job[v]
  BY <1>1 DEF Finish, At, TypeOK
<1>5. MergedIsClosed' /\ ListedWasMerged' /\ NoCircle'
  BY <1>1 DEF MergedIsClosed, ListedWasMerged, NoCircle
<1>6. Mirrored'
  <2>1. \A x, y \in Tickets : Halfway(x, y) => Halfway(x, y)'
    BY <1>4 DEF Halfway
  <2> QED BY <1>1, <2>1 DEF Mirrored
<1>7. Audited'
  <2>1. timeline \subseteq timeline' /\ \A v \in Workers : job[v].pc = "announce" => job'[v] = job[v]
    BY <1>1, <1>4
  <2> QED BY <1>1, <2>1, AuditedKept
<1>8. TypeOK'
  BY <1>1, <1>2, <1>3 DEF TypeOK, Jobs
<1> QED BY <1>3, <1>5, <1>6, <1>7, <1>8

LEMMA NextMInv == MInv /\ [Next]_vars => MInv'
<1> SUFFICES ASSUME MInv, [Next]_vars PROVE MInv'
  OBVIOUS
<1>1. CASE Next
  <2>1. PICK w \in Workers :
          \/ \E c \in Commands, s \in Tickets, t \in Tickets \cup {None} : Start(w, c, s, t)
          \/ Step(w)
          \/ Crash(w)
    BY <1>1 DEF Next
  <2>2. CASE Close(w)
    BY <2>2, ClosePlainMInv, CloseMergeMInv
  <2> QED BY <2>1, <2>2, StartMInv, ReadSourceMInv, ReadTargetMInv, ReadCloseMInv, ResolveMInv,
             AnnounceMInv, ReadUpdateMInv, WriteUpdateMInv, TellMInv, RefuseMInv, CrashMInv
          DEF Step
<1>2. CASE UNCHANGED vars
  <2> USE <1>2 DEF vars, MInv
  <2>1. TypeOK' /\ Shaped' /\ MeetingsNoticed'
    BY DEF TypeOK, Shaped, MeetingsNoticed, On
  <2>2. CopiesListed'
    <3>1. CopiesListed /\ job' = job /\ merged' = merged
      OBVIOUS
    <3>2. \A w \in Workers : Listed(w) => Listed(w)'
      BY <3>1 DEF Listed, Updated
    <3> QED BY <3>1, <3>2 DEF CopiesListed
  <2>3. CopiesHold'
    <3>1. \A w \in Workers : SourceHolds(w)'
      BY DEF CopiesHold, SourceHolds
    <3>2. \A w \in Workers : UpdatedHolds(w)'
      BY DEF CopiesHold, UpdatedHolds, Updated
    <3> QED BY <3>1, <3>2 DEF CopiesHold
  <2>4. MergedIsClosed' /\ ListedWasMerged' /\ NoCircle'
    BY DEF MergedIsClosed, ListedWasMerged, NoCircle
  <2>5. Mirrored' /\ Audited'
    BY AuditedKept DEF Mirrored, Halfway
  <2> QED BY <2>1, <2>2, <2>3, <2>4, <2>5
<1> QED BY <1>1, <1>2

-----------------------------------------------------------------------------
(* The theorems.                                                           *)

\* The inductive invariant: what every merge in flight has read, and what that
\* has to do with the rows (ticket_api.py, accept_merge_suggestion).
THEOREM Invariance == Spec => []MInv
  BY InitMInv, NextMInv, PTL DEF Spec

\* The columns keep their types, and merge_history its limit.
THEOREM TypeCorrect == Spec => []TypeOK
<1>1. MInv => TypeOK
  BY DEF MInv
<1> QED BY <1>1, Invariance, PTL

\* The two halves of a merge agree where no request met another or was cut off.
THEOREM LinksAgree == Spec => []LinksMirrored
<1>1. MInv => LinksMirrored
  <2>1. SUFFICES ASSUME MInv, NEW s \in Tickets \ (overlapped \cup cut),
                        NEW t \in Tickets \ (overlapped \cup cut), Idling(s)
                 PROVE  row[s].meta.into = t <=> s \in row[t].meta.links
    BY DEF LinksMirrored
  <2>2. ~Halfway(s, t)
    BY <2>1 DEF Halfway, Idling, On
  <2> QED BY <2>1, <2>2 DEF MInv, Mirrored
<1> QED BY <1>1, Invariance, PTL

\* Following merged_into_ticket_id ends, where merges do not meet.
THEOREM MergesMakeNoCircle == Spec => []NoCircle
<1>1. MInv => NoCircle
  BY DEF MInv
<1> QED BY <1>1, Invariance, PTL

\* A target lists only tickets that were closed for it, under any interleaving
\* and any crash.
THEOREM ListsOnlyMerged == Spec => []ListedWasMerged
<1>1. MInv => ListedWasMerged
  BY DEF MInv
<1> QED BY <1>1, Invariance, PTL

\* A merge that was not cut off has its event, whatever it met.
THEOREM MergesAreAudited == Spec => []MergeAudited
<1>1. MInv => MergeAudited
  <2>1. SUFFICES ASSUME MInv, NEW m \in merged, m[1] \notin cut,
                        \A w \in Workers : <<job[w].source, job[w].target>> # m
                 PROVE  <<"accepted", m[1], m[2]>> \in timeline
    BY DEF MergeAudited
  <2>2. m = <<m[1], m[2]>>
    BY <2>1 DEF MInv, TypeOK
  <2> QED BY <2>1, <2>2 DEF MInv, Audited
<1> QED BY <1>1, Invariance, PTL

\* A merge is final where requests do not meet: no later merge, rejection or
\* update takes it back.
THEOREM MergesAreFinal == Spec => MergeFinal
<1> DEFINE Kept == \A t \in Tickets \ overlapped :
                     row[t].meta.into # None => row'[t].meta.into = row[t].meta.into
                                                /\ row'[t].meta.verdict = "accepted"
<1>1. MInv /\ [Next]_vars => [Kept]_vars
  <2>1. SUFFICES ASSUME MInv, Next, NEW t \in Tickets \ overlapped, row[t].meta.into # None
                 PROVE  row'[t].meta = row[t].meta /\ row[t].meta.verdict = "accepted"
    OBVIOUS
  <2>2. row[t].status = "closed" /\ row[t].meta.verdict = "accepted"
    BY <2>1 DEF MInv, MergedIsClosed
  <2>3. PICK w \in Workers :
          \/ \E c \in Commands, s \in Tickets, u \in Tickets \cup {None} : Start(w, c, s, u)
          \/ Step(w)
          \/ Crash(w)
    BY <2>1 DEF Next
  <2>4. CASE Close(w)
    <3>1. job[w].cmd \in {"accept", "close"} /\ job[w].pc = "closed"
      BY <2>1, <2>4, Typed DEF MInv, Close, At, Path, AllCommands
    <3>2. SourceHolds(w)
      BY <2>1 DEF MInv, CopiesHold
    <3>3. job[w].source # t
      BY <2>1, <2>2, <3>1, <3>2 DEF SourceHolds
    <3> QED BY <2>1, <2>2, <2>4, <3>3 DEF Close, MInv, TypeOK
  <2>5. CASE WriteUpdate(w)
    <3>1. Updated(w) # t
      BY <2>1, <2>2, <2>5 DEF MInv, CopiesHold, UpdatedHolds, WriteUpdate, At
    <3> QED BY <2>1, <2>2, <2>5, <3>1 DEF WriteUpdate, MInv, TypeOK
  <2>6. CASE Resolve(w)
    BY <2>1, <2>2, <2>6 DEF Resolve, MInv, TypeOK
  <2>7. CASE UNCHANGED row
    BY <2>2, <2>7
  <2> QED BY <2>3, <2>4, <2>5, <2>6, <2>7
          DEF Start, Step, ReadSource, ReadTarget, ReadClose, Check, Announce, ReadUpdate,
              Tell, Refuse, Crash
<1> QED BY <1>1, Invariance, PTL DEF Spec, MergeFinal
=============================================================================
