-------------------------- MODULE Knowledge_proofs --------------------------
(***************************************************************************)
(* Proofs about Knowledge, for any documents, texts, seed data, number of  *)
(* workers and bounds, and for any way to write a store as JSON that takes *)
(* at least one character.                                                 *)
(*                                                                         *)
(* Neither ReadableOrCause nor ToldIsKept is inductive.  What a request    *)
(* will write was read a while ago: Consistent says what its copy has to   *)
(* do with what was told since, and that whoever is between truncation and *)
(* text is there alone as long as no two writes crossed.                   *)
(***************************************************************************)
EXTENDS Knowledge, TLAPS

\* A request that has read the store and not yet written it.
Pending(w) == job[w].pc \in {"write", "fill"}

\* Two stores hold the same of a document.
Agree(a, b, d) == Held(a, d) = Held(b, d) /\ (Held(b, d) => a[d] = b[d])

\* A request names a document, and a text unless it deletes.
Shaped == \A w \in Workers : job[w].pc # "idle" =>
            /\ job[w].doc \in Docs
            /\ job[w].method \in {"POST", "PATCH", "DELETE"}
            /\ job[w].method # "DELETE" => job[w].text \in Texts

\* A server that is not up has no request, and seeds what was told at first.
Starting == /\ server # "up" => \A w \in Workers : job[w].pc = "idle"
            /\ server = "seeding" => file = Broken(0) /\ told = Seeds
            /\ file.state = "missing" => server = "down" /\ told = Seeds

\* While no two writes crossed, the one that has truncated the file is alone.
Alone == ~crossed => \A w \in Workers : job[w].pc = "fill" =>
           /\ file = Broken(0)
           /\ \A v \in Workers : job[v].pc = "fill" => v = w

\* Two requests that are both between reading and writing are noticed.
OverlapsNoticed == \A w, v \in Workers : w # v /\ Pending(w) /\ Pending(v) =>
                     job[w].doc \in met /\ job[v].doc \in met

\* What a request will write is what will then have been told.
ViewsHold == ~crossed => \A w \in Workers : Pending(w) =>
               \A d \in Docs \ met : Agree(job[w].view, Changed(job[w], told), d)

Consistent == TypeOK /\ Shaped /\ Starting /\ Alone /\ OverlapsNoticed /\ ViewsHold
              /\ ReadableOrCause /\ ToldIsKept

-----------------------------------------------------------------------------
\* The functions that make up a store.
LEMMA StoreIs == \A f : f \in Stores <=> \E D \in SUBSET Docs : f \in [D -> Texts]
  BY DEF Stores

LEMMA NoDocsStore == NoDocs \in Stores
<1>1. {} \in SUBSET Docs
  OBVIOUS
<1>2. NoDocs \in [{} -> Texts]
  BY DEF NoDocs
<1> QED BY <1>1, <1>2 DEF Stores

\* A request that is well formed makes a store of a store.
LEMMA ChangedStore ==
  ASSUME NEW r, NEW docs \in Stores, r.doc \in Docs,
         r.method # "DELETE" => r.text \in Texts
  PROVE  Changed(r, docs) \in Stores
<1> DEFINE kept == IF r.method = "DELETE" THEN DOMAIN docs \ {r.doc}
                                          ELSE (DOMAIN docs \ {r.doc}) \cup {r.doc}
<1>1. PICK D \in SUBSET Docs : docs \in [D -> Texts]
  BY DEF Stores
<1>2. kept \in SUBSET Docs
  BY <1>1
<1>3. Changed(r, docs) = [d \in kept |-> IF d = r.doc THEN r.text ELSE docs[d]]
  BY DEF Changed
<1>4. ASSUME NEW d \in kept
      PROVE  (IF d = r.doc THEN r.text ELSE docs[d]) \in Texts
  <2>1. CASE d = r.doc
    BY <1>4, <2>1
  <2>2. CASE d # r.doc
    BY <1>1, <1>4, <2>2
  <2> QED BY <2>1, <2>2
<1>5. Changed(r, docs) \in [kept -> Texts]
  BY <1>3, <1>4
<1> QED BY <1>2, <1>5 DEF Stores

\* What Changed holds of a document: of another one what there was, of the
\* request's own what the request says.
LEMMA ChangedElsewhere ==
  ASSUME NEW r, NEW docs, NEW d, d # r.doc
  PROVE  Agree(Changed(r, docs), docs, d)
  BY DEF Agree, Changed, Held

LEMMA ChangedHere ==
  ASSUME NEW r, NEW docs, NEW other
  PROVE  Agree(Changed(r, docs), Changed(r, other), r.doc)
  BY DEF Agree, Changed, Held

LEMMA AgreeTransitive ==
  ASSUME NEW a, NEW b, NEW c, NEW d, Agree(a, b, d), Agree(b, c, d)
  PROVE  Agree(a, c, d)
  BY DEF Agree

LEMMA AgreeSymmetric ==
  ASSUME NEW a, NEW b, NEW d, Agree(a, b, d)
  PROVE  Agree(b, a, d)
  BY DEF Agree

\* The same change of stores that agree makes stores that agree.
LEMMA ChangedAgree ==
  ASSUME NEW r, NEW a, NEW b, NEW d, Agree(a, b, d)
  PROVE  Agree(Changed(r, a), Changed(r, b), d)
<1>1. CASE d = r.doc
  BY <1>1, ChangedHere
<1>2. CASE d # r.doc
  BY <1>2, ChangedElsewhere, AgreeTransitive, AgreeSymmetric
<1> QED BY <1>1, <1>2

\* A text over nothing is the text.
LEMMA FilledEmpty ==
  ASSUME NEW docs \in Stores
  PROVE  Filled(Broken(0), docs) = Whole(docs)
<1>1. Length(docs) \in Nat /\ ~(0 > Length(docs))
  BY LengthAssumption
<1> QED BY <1>1 DEF Filled, Broken

LEMMA FilledType ==
  ASSUME NEW docs \in Stores, NEW f, f.length \in Nat
  PROVE  /\ Filled(f, docs) \in [state : {"missing", "broken", "text"}, docs : Stores, length : Nat]
         /\ Filled(f, docs).state # "missing"
  BY LengthAssumption, NoDocsStore DEF Filled, Broken, Whole
-----------------------------------------------------------------------------
LEMMA InitConsistent == Init => Consistent
<1> SUFFICES ASSUME Init PROVE Consistent
  OBVIOUS
<1>1. TypeOK
  <2>1. Missing \in [state : {"missing", "broken", "text"}, docs : Stores, length : Nat]
    BY NoDocsStore DEF Missing
  <2>2. Idle \in [pc : {"idle", "load", "write", "fill"},
                 method : {"POST", "PATCH", "DELETE", None},
                 doc : Docs \cup {None}, text : Texts \cup {None}, view : Stores]
    BY NoDocsStore DEF Idle
  <2>3. 0 \in 0 .. MaxRequests /\ 0 \in 0 .. MaxKills
    BY BoundsAssumption
  <2> QED BY <2>1, <2>2, <2>3, SeedsAssumption DEF Init, TypeOK
<1>2. Shaped /\ Starting /\ Alone /\ OverlapsNoticed /\ ViewsHold
  BY DEF Init, Shaped, Starting, Alone, OverlapsNoticed, ViewsHold, Pending, Idle, Missing
<1>3. ReadableOrCause /\ ToldIsKept
  BY DEF Init, ReadableOrCause, ToldIsKept, Missing
<1> QED BY <1>1, <1>2, <1>3 DEF Consistent

\* The steps of the server, which has no request before it is up.
LEMMA BootConsistent == Consistent /\ Boot => Consistent'
<1> SUFFICES ASSUME Consistent, Boot PROVE Consistent'
  OBVIOUS
<1> USE DEF Boot, NeedsSeeds, Truncated
<1>1. TypeOK'
  BY NoDocsStore DEF Consistent, TypeOK, Broken
<1>2. Shaped' /\ OverlapsNoticed' /\ ViewsHold'
  BY DEF Consistent, Shaped, OverlapsNoticed, ViewsHold, Pending
<1>3. Starting' /\ Alone'
  BY DEF Consistent, Starting, Alone, Broken
<1>4. ReadableOrCause' /\ ToldIsKept'
  BY DEF Consistent, ReadableOrCause, ToldIsKept, On, Broken
<1> QED BY <1>1, <1>2, <1>3, <1>4 DEF Consistent

LEMMA SeedConsistent == Consistent /\ Seed => Consistent'
<1> SUFFICES ASSUME Consistent, Seed PROVE Consistent'
  OBVIOUS
<1> USE DEF Seed
<1>1. file' = Whole(Seeds) /\ told = Seeds
  BY FilledEmpty, SeedsAssumption DEF Consistent, Starting
<1>2. TypeOK'
  BY <1>1, SeedsAssumption, LengthAssumption DEF Consistent, TypeOK, Whole
<1>3. Shaped' /\ OverlapsNoticed' /\ ViewsHold'
  BY DEF Consistent, Shaped, OverlapsNoticed, ViewsHold, Pending
<1>4. Starting' /\ Alone'
  BY <1>1 DEF Consistent, Starting, Alone, Whole
<1>5. ReadableOrCause' /\ ToldIsKept'
  BY <1>1 DEF ReadableOrCause, ToldIsKept, Whole
<1> QED BY <1>2, <1>3, <1>4, <1>5 DEF Consistent

LEMMA KillConsistent == Consistent /\ Kill => Consistent'
<1> SUFFICES ASSUME Consistent, Kill PROVE Consistent'
  OBVIOUS
<1> USE DEF Kill
<1>1. TypeOK'
  BY NoDocsStore, BoundsAssumption DEF Consistent, TypeOK, Idle
<1>2. \A w \in Workers : job'[w].pc = "idle"
  BY DEF Idle
<1>3. Shaped' /\ OverlapsNoticed' /\ ViewsHold' /\ Alone'
  BY <1>2 DEF Shaped, OverlapsNoticed, ViewsHold, Alone, Pending
<1>4. Starting'
  BY <1>2 DEF Consistent, Starting
<1>5. ReadableOrCause' /\ ToldIsKept'
  BY DEF Consistent, ReadableOrCause, ToldIsKept
<1> QED BY <1>1, <1>3, <1>4, <1>5 DEF Consistent

-----------------------------------------------------------------------------
(* The steps of a request.                                                 *)

LEMMA StartConsistent == ASSUME Consistent, NEW w \in Workers, Start(w) PROVE Consistent'
<1>1. PICK m \in {"POST", "PATCH", "DELETE"}, d \in Docs, t \in Texts :
        job' = [job EXCEPT ![w] = [pc |-> "load", method |-> m, doc |-> d,
                                   text |-> IF m = "DELETE" THEN None ELSE t,
                                   view |-> NoDocs]]
  BY DEF Start
<1>2. UNCHANGED <<file, server, told, met, crossed, cut, kills>> /\ server = "up"
  BY DEF Start, On
<1>3. requests' \in 0 .. MaxRequests
  BY BoundsAssumption DEF Start, Consistent, TypeOK
<1>4. \A v \in Workers : Pending(v)' => v # w /\ Pending(v) /\ job'[v] = job[v]
  BY <1>1 DEF Pending, Consistent, TypeOK
<1>5. TypeOK'
  <2>1. [pc |-> "load", method |-> m, doc |-> d, text |-> IF m = "DELETE" THEN None ELSE t,
         view |-> NoDocs]
          \in [pc : {"idle", "load", "write", "fill"},
               method : {"POST", "PATCH", "DELETE", None},
               doc : Docs \cup {None}, text : Texts \cup {None}, view : Stores]
    BY NoDocsStore
  <2> QED BY <1>1, <1>2, <1>3, <2>1 DEF Consistent, TypeOK
<1>6. Shaped'
  BY <1>1 DEF Consistent, TypeOK, Shaped
<1>7. Starting' /\ Alone'
  BY <1>1, <1>2 DEF Consistent, TypeOK, Starting, Alone
<1>8. OverlapsNoticed' /\ ViewsHold'
  BY <1>2, <1>4 DEF Consistent, OverlapsNoticed, ViewsHold
<1>9. ReadableOrCause' /\ ToldIsKept'
  <2>1. \A v \in Workers : On(v, "fill") => On(v, "fill")'
    BY <1>1, <1>2 DEF On, Consistent, TypeOK, Start
  <2> QED BY <1>2, <2>1 DEF Consistent, ReadableOrCause, ToldIsKept
<1> QED BY <1>5, <1>6, <1>7, <1>8, <1>9 DEF Consistent

LEMMA LoadConsistent == ASSUME Consistent, NEW w \in Workers, Load(w) PROVE Consistent'
<1>0. UNCHANGED <<file, server, told, crossed, cut, requests, kills>>
      /\ server = "up" /\ job[w].pc = "load"
  BY DEF Load, On
<1>4. \A v \in Workers : job'[v].pc = "fill" <=> job[v].pc = "fill"
  <2>1. CASE file.state = "text" /\ Fits(job[w], file.docs)
    <3>1. job' = [job EXCEPT ![w] = [job[w] EXCEPT !.pc = "write",
                                                 !.view = Changed(job[w], file.docs)]]
      BY <2>1 DEF Load
    <3> QED BY <1>0, <3>1 DEF Consistent, TypeOK
  <2>2. CASE ~(file.state = "text" /\ Fits(job[w], file.docs))
    <3>1. job' = [job EXCEPT ![w] = Idle]
      BY <2>2 DEF Load
    <3> QED BY <1>0, <3>1 DEF Consistent, TypeOK, Idle
  <2> QED BY <2>1, <2>2
<1>1. Starting' /\ Alone' /\ ReadableOrCause'
  BY <1>0, <1>4 DEF Consistent, Starting, Alone, ReadableOrCause, On
<1>2. CASE job' = [job EXCEPT ![w] = Idle] /\ UNCHANGED met
  <2>1. \A v \in Workers : Pending(v)' => v # w /\ Pending(v) /\ job'[v] = job[v]
    BY <1>2 DEF Pending, Idle, Consistent, TypeOK
  <2>2. TypeOK'
    BY <1>0, <1>2, NoDocsStore DEF Idle, Consistent, TypeOK
  <2>3. Shaped'
    BY <1>2 DEF Idle, Consistent, TypeOK, Shaped
  <2>4. OverlapsNoticed' /\ ViewsHold' /\ ToldIsKept'
    BY <1>0, <1>2, <2>1 DEF Consistent, OverlapsNoticed, ViewsHold, ToldIsKept
  <2> QED BY <1>1, <2>2, <2>3, <2>4 DEF Consistent
<1>3. CASE /\ file.state = "text"
           /\ job' = [job EXCEPT ![w] = [job[w] EXCEPT !.pc = "write",
                                                     !.view = Changed(job[w], file.docs)]]
           /\ met' = IF Underway(w) = {} THEN met
                     ELSE met \cup {job[w].doc} \cup {job[v].doc : v \in Underway(w)}
  <2>1. /\ job[w].doc \in Docs
        /\ job[w].method # "DELETE" => job[w].text \in Texts
    BY <1>0 DEF Consistent, Shaped
  <2>2. Changed(job[w], file.docs) \in Stores
    BY <2>1, ChangedStore DEF Consistent, TypeOK
  <2>3. \A v \in Underway(w) : v \in Workers /\ v # w /\ Pending(v) /\ job[v].doc \in Docs
    BY DEF Underway, Pending, Consistent, Shaped
  <2>4. met \subseteq met' /\ met' \subseteq Docs
    BY <1>3, <2>1, <2>3 DEF Consistent, TypeOK
  <2>5. TypeOK'
    <3>1. [job[w] EXCEPT !.pc = "write", !.view = Changed(job[w], file.docs)]
            \in [pc : {"idle", "load", "write", "fill"},
                 method : {"POST", "PATCH", "DELETE", None},
                 doc : Docs \cup {None}, text : Texts \cup {None}, view : Stores]
      BY <2>2 DEF Consistent, TypeOK
    <3> QED BY <1>0, <1>3, <2>4, <3>1 DEF Consistent, TypeOK
  <2>6. Shaped'
    BY <1>3, <2>1, <1>0 DEF Consistent, TypeOK, Shaped
  <2>7. \A v \in Workers : /\ job'[v].doc = job[v].doc /\ job'[v].method = job[v].method
                           /\ job'[v].text = job[v].text
                           /\ v # w => job'[v] = job[v] /\ (Pending(v)' <=> Pending(v))
    BY <1>3 DEF Pending, Consistent, TypeOK
  <2>8. OverlapsNoticed'
    <3> SUFFICES ASSUME NEW u \in Workers, NEW v \in Workers, u # v, Pending(u)', Pending(v)'
                 PROVE  job'[u].doc \in met' /\ job'[v].doc \in met'
      BY DEF OverlapsNoticed
    <3>1. CASE u # w /\ v # w
      BY <2>4, <2>7, <3>1 DEF Consistent, OverlapsNoticed
    <3>2. CASE u = w
      <4>1. v \in Underway(w)
        BY <2>7, <3>2 DEF Underway, Pending
      <4>2. job[v].doc \in met' /\ job[w].doc \in met'
        BY <1>3, <4>1
      <4> QED BY <2>7, <3>2, <4>2
    <3>3. CASE v = w
      <4>1. u \in Underway(w)
        BY <2>7, <3>3 DEF Underway, Pending
      <4>2. job[u].doc \in met' /\ job[w].doc \in met'
        BY <1>3, <4>1
      <4> QED BY <2>7, <3>3, <4>2
    <3> QED BY <3>1, <3>2, <3>3
  <2>9. ViewsHold'
    <3> SUFFICES ASSUME ~crossed, NEW v \in Workers, Pending(v)', NEW d \in Docs \ met'
                 PROVE  Agree(job'[v].view, Changed(job'[v], told), d)
      BY <1>0 DEF ViewsHold
    <3>1. d \notin met
      BY <2>4
    <3>2. CASE v = w
      <4>1. Agree(file.docs, told, d)
        BY <1>3, <3>1 DEF Consistent, ToldIsKept, Agree
      <4>2. Changed(job'[w], told) = Changed(job[w], told)
        BY <2>7 DEF Changed
      <4>3. job'[w].view = Changed(job[w], file.docs)
        BY <1>3 DEF Consistent, TypeOK
      <4> QED BY <3>2, <4>1, <4>2, <4>3, ChangedAgree
    <3>3. CASE v # w
      BY <2>7, <3>1, <3>3 DEF Consistent, ViewsHold
    <3> QED BY <3>2, <3>3
  <2>10. ToldIsKept'
    BY <1>0, <2>4 DEF Consistent, ToldIsKept
  <2> QED BY <1>1, <2>5, <2>6, <2>8, <2>9, <2>10 DEF Consistent
<1> QED BY <1>2, <1>3 DEF Load

LEMMA TruncateConsistent == ASSUME Consistent, NEW w \in Workers, Truncate(w) PROVE Consistent'
<1>1. /\ server = "up" /\ job[w].pc = "write"
      /\ job' = [job EXCEPT ![w].pc = "fill"] /\ file' = Broken(0)
      /\ crossed' = (crossed \/ \E v \in Workers : On(v, "fill"))
      /\ UNCHANGED <<server, told, met, cut, requests, kills>>
  BY DEF Truncate, On, Goto, Truncated
<1>2. \A v \in Workers : /\ job'[v] = [job[v] EXCEPT !.pc = job'[v].pc]
                         /\ job'[v].pc = IF v = w THEN "fill" ELSE job[v].pc
  BY <1>1 DEF Consistent, TypeOK
<1>3. TypeOK'
  <2>1. crossed' \in BOOLEAN
    BY <1>1 DEF Consistent, TypeOK
  <2>2. file' \in [state : {"missing", "broken", "text"}, docs : Stores, length : Nat]
    BY <1>1, NoDocsStore DEF Broken
  <2> QED BY <1>1, <2>1, <2>2 DEF Consistent, TypeOK
<1>4. \A v \in Workers : /\ job'[v].doc = job[v].doc /\ job'[v].method = job[v].method
                         /\ job'[v].text = job[v].text /\ job'[v].view = job[v].view
                         /\ Pending(v)' <=> Pending(v)
  BY <1>1 DEF Pending, Consistent, TypeOK
<1>5. Shaped'
  BY <1>1, <1>2, <1>4 DEF Consistent, Shaped
<1>6. Starting'
  BY <1>1 DEF Consistent, Starting, Broken
<1>7. Alone'
  <2> SUFFICES ASSUME ~crossed', NEW u \in Workers, NEW v \in Workers,
                      job'[u].pc = "fill", job'[v].pc = "fill"
               PROVE  v = u
    BY <1>1 DEF Alone
  <2>1. ~On(u, "fill") /\ ~On(v, "fill")
    BY <1>1
  <2> QED BY <1>1, <1>2, <2>1 DEF On
<1>8. OverlapsNoticed'
  BY <1>1, <1>4 DEF Consistent, OverlapsNoticed
<1>9. ViewsHold'
  <2>1. \A v \in Workers : Changed(job'[v], told) = Changed(job[v], told)
    BY <1>4 DEF Changed
  <2> QED BY <1>1, <1>4, <2>1 DEF Consistent, ViewsHold
<1>10. ReadableOrCause' /\ ToldIsKept'
  BY <1>1, <1>2 DEF ReadableOrCause, ToldIsKept, On, Broken
<1> QED BY <1>3, <1>5, <1>6, <1>7, <1>8, <1>9, <1>10 DEF Consistent

LEMMA FillConsistent == ASSUME Consistent, NEW w \in Workers, Fill(w) PROVE Consistent'
<1>1. /\ server = "up" /\ job[w].pc = "fill"
      /\ job' = [job EXCEPT ![w] = Idle] /\ file' = Filled(file, job[w].view)
      /\ told' = Changed(job[w], told)
      /\ UNCHANGED <<server, met, crossed, cut, requests, kills>>
  BY DEF Fill, On
<1>2. /\ job[w].doc \in Docs /\ job[w].view \in Stores
      /\ job[w].method # "DELETE" => job[w].text \in Texts
  BY <1>1 DEF Consistent, Shaped, TypeOK
<1>3. \A v \in Workers : IF v = w THEN job'[v] = Idle ELSE job'[v] = job[v]
  BY <1>1 DEF Consistent, TypeOK
<1>4. \A v \in Workers : Pending(v)' => v # w /\ Pending(v) /\ job'[v] = job[v]
  BY <1>3 DEF Pending, Idle
<1>5. TypeOK'
  <2>1. file' \in [state : {"missing", "broken", "text"}, docs : Stores, length : Nat]
    BY <1>1, <1>2, FilledType DEF Consistent, TypeOK
  <2>2. told' \in Stores
    BY <1>1, <1>2, ChangedStore DEF Consistent, TypeOK
  <2> QED BY <1>1, <2>1, <2>2, NoDocsStore DEF Consistent, TypeOK, Idle
<1>6. Shaped'
  BY <1>3 DEF Consistent, Shaped, Idle
<1>7. Starting'
  <2>1. file'.state # "missing"
    BY <1>1, <1>2, FilledType DEF Consistent, TypeOK
  <2> QED BY <1>1, <2>1 DEF Starting
<1>8. OverlapsNoticed'
  BY <1>1, <1>4 DEF Consistent, OverlapsNoticed
<1>9. ~crossed => file' = Whole(job[w].view) /\ \A v \in Workers : job'[v].pc # "fill"
  <2> SUFFICES ASSUME ~crossed
               PROVE  file' = Whole(job[w].view) /\ \A v \in Workers : job'[v].pc # "fill"
    OBVIOUS
  <2>1. file = Broken(0) /\ \A v \in Workers : job[v].pc = "fill" => v = w
    BY <1>1 DEF Consistent, Alone
  <2> QED BY <1>1, <1>2, <1>3, <2>1, FilledEmpty DEF Idle
<1>10. Alone'
  BY <1>1, <1>9 DEF Alone
<1>11. ViewsHold'
  <2> SUFFICES ASSUME ~crossed, NEW v \in Workers, Pending(v)', NEW d \in Docs \ met
               PROVE  Agree(job[v].view, Changed(job[v], told'), d)
    BY <1>1, <1>4 DEF ViewsHold
  <2>1. Agree(job[v].view, Changed(job[v], told), d)
    BY <1>4 DEF Consistent, ViewsHold
  <2>2. d # job[w].doc
    BY <1>1, <1>4 DEF Consistent, OverlapsNoticed, Pending
  <2>3. Agree(told, told', d)
    BY <1>1, <2>2, ChangedElsewhere, AgreeSymmetric
  <2>4. Agree(Changed(job[v], told), Changed(job[v], told'), d)
    BY <2>3, ChangedAgree
  <2> QED BY <2>1, <2>4, AgreeTransitive
<1>12. ReadableOrCause'
  BY <1>1, <1>9 DEF ReadableOrCause, Whole
<1>13. ToldIsKept'
  <2> SUFFICES ASSUME ~crossed, NEW d \in Docs \ met
               PROVE  Agree(file'.docs, told', d)
    BY <1>1 DEF ToldIsKept, Agree
  <2>1. Agree(job[w].view, Changed(job[w], told), d)
    BY <1>1 DEF Consistent, ViewsHold, Pending
  <2> QED BY <1>1, <1>9, <2>1 DEF Whole
<1> QED BY <1>5, <1>6, <1>7, <1>8, <1>10, <1>11, <1>12, <1>13 DEF Consistent

-----------------------------------------------------------------------------
LEMMA NextConsistent == Consistent /\ [Next]_vars => Consistent'
<1> SUFFICES ASSUME Consistent, [Next]_vars PROVE Consistent'
  OBVIOUS
<1>1. CASE Boot
  BY <1>1, BootConsistent
<1>2. CASE Seed
  BY <1>2, SeedConsistent
<1>3. CASE Kill
  BY <1>3, KillConsistent
<1>4. ASSUME NEW w \in Workers, Start(w) \/ Load(w) \/ Truncate(w) \/ Fill(w)
      PROVE  Consistent'
  BY <1>4, StartConsistent, LoadConsistent, TruncateConsistent, FillConsistent
<1>5. CASE UNCHANGED vars
  BY <1>5 DEF vars, Consistent, TypeOK, Shaped, Starting, Alone, OverlapsNoticed, ViewsHold,
              ReadableOrCause, ToldIsKept, Pending, On
<1> QED BY <1>1, <1>2, <1>3, <1>4, <1>5 DEF Next

\* The inductive invariant of the knowledge base file: a request's copy is what
\* was told, but for the documents of requests that overlapped.
THEOREM Invariance == Spec => []Consistent
<1>1. Init => Consistent
  BY InitConsistent
<1>2. Consistent /\ [Next]_vars => Consistent'
  BY NextConsistent
<1> QED BY <1>1, <1>2, PTL DEF Spec

\* The variables of the store keep their types (_load_kb_docs, the requests).
THEOREM TypeCorrect == Spec => []TypeOK
<1>1. Consistent => TypeOK
  BY DEF Consistent
<1> QED BY <1>1, Invariance, PTL

\* ops_api_kb.json can be read unless it is being written, two writes crossed,
\* or the server was killed writing it.
THEOREM FileReadable == Spec => []ReadableOrCause
<1>1. Consistent => ReadableOrCause
  BY DEF Consistent
<1> QED BY <1>1, Invariance, PTL

\* A document is what the last answer about it said, as long as no two writes
\* crossed and its requests did not overlap others, over kills and restarts.
THEOREM AnswersKept == Spec => []ToldIsKept
<1>1. Consistent => ToldIsKept
  BY DEF Consistent
<1> QED BY <1>1, Invariance, PTL
=============================================================================
