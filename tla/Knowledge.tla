----------------------------- MODULE Knowledge -----------------------------
(***************************************************************************)
(* The knowledge base store of the Ops API (scripts/ops_api_server.py): a  *)
(* JSON file that every request reads whole, changes and writes whole.     *)
(* The server runs a thread per request and takes no lock.  write_text     *)
(* truncates the file when it opens it and writes the text afterwards,     *)
(* from offset 0 of its own descriptor: a request in between reads an      *)
(* empty file, and of two texts written at once the longer one leaves its  *)
(* tail behind.  Reading the file is one step.                             *)
(***************************************************************************)
EXTENDS Naturals

CONSTANTS Docs,         \* document ids
          Texts, Blank, \* what a field may hold, and the blank one
          Length(_),    \* the characters of a store written as JSON
          Seeds,        \* the documents of the seed data, with their texts
          Workers, None,
          MaxRequests, MaxKills   \* bounds

Stores == UNION {[D -> Texts] : D \in SUBSET Docs}

ASSUME NoneAssumption == None \notin Docs \cup Texts
ASSUME LengthAssumption == \A docs \in Stores : Length(docs) \in Nat \ {0}
ASSUME SeedsAssumption == Seeds \in Stores
ASSUME BoundsAssumption == {MaxRequests, MaxKills} \subseteq Nat

VARIABLES file,     \* ops_api_kb.json
          server,   \* "down", "seeding" or "up"
          job,      \* per worker, its request
          told,     \* history: the store as the answers given tell it
          met,      \* history: documents of requests that overlapped
          crossed,  \* history: two writes were between truncation and text
          cut,      \* history: the process was killed during a write
          requests, kills

vars == <<file, server, job, told, met, crossed, cut, requests, kills>>

NoDocs == [d \in {} |-> Blank]
Missing == [state |-> "missing", docs |-> NoDocs, length |-> 0]
Broken(n) == [state |-> "broken", docs |-> NoDocs, length |-> n]
Whole(docs) == [state |-> "text", docs |-> docs, length |-> Length(docs)]

Idle == [pc |-> "idle", method |-> None, doc |-> None, text |-> None, view |-> NoDocs]

On(w, label) == server = "up" /\ job[w].pc = label
Goto(w, label) == job' = [job EXCEPT ![w].pc = label]

Init == /\ file = Missing
        /\ server = "down"
        /\ job = [w \in Workers |-> Idle]
        /\ told = Seeds
        /\ met = {}
        /\ crossed = FALSE
        /\ cut = FALSE
        /\ requests = 0
        /\ kills = 0

-----------------------------------------------------------------------------
\* open(path, "w")

\* Mutant of Truncated: the file is opened for writing without truncation.
TruncatedNever(f) == f

Truncated(f) == Broken(0)

\* The text arrives at offset 0; what stood beyond its end stays.
Filled(f, docs) == IF f.length > Length(docs) THEN Broken(f.length) ELSE Whole(docs)

\* build_runtime: a store that does not exist is seeded, any other is kept.

\* Mutant of NeedsSeeds: the store is seeded again at every start.
NeedsSeedsAlways(f) == TRUE

NeedsSeeds(f) == f.state = "missing"

Boot == /\ server = "down"
        /\ IF NeedsSeeds(file) THEN /\ server' = "seeding"
                                    /\ file' = Truncated(file)
                               ELSE server' = "up" /\ UNCHANGED file
        /\ UNCHANGED <<job, told, met, crossed, cut, requests, kills>>

Seed == /\ server = "seeding"
        /\ server' = "up"
        /\ file' = Filled(file, Seeds)
        /\ UNCHANGED <<job, told, met, crossed, cut, requests, kills>>

-----------------------------------------------------------------------------
\* The routes.

\* A request arrives.  Without a doc_id a POST gets one nobody has; it needs
\* a title and a content, a PATCH may blank them.
Start(w) == /\ On(w, "idle") /\ requests < MaxRequests
            /\ requests' = requests + 1
            /\ \E m \in {"POST", "PATCH", "DELETE"}, d \in Docs, t \in Texts :
                 /\ m = "POST" => t # Blank
                 /\ job' = [job EXCEPT ![w] = [pc |-> "load", method |-> m, doc |-> d,
                                               text |-> IF m = "DELETE" THEN None ELSE t,
                                               view |-> NoDocs]]
            /\ UNCHANGED <<file, server, told, met, crossed, cut, kills>>

Held(docs, d) == d \in DOMAIN docs

\* What the request makes of the documents it read: append, change, filter.
Changed(r, docs) ==
  LET rest == DOMAIN docs \ {r.doc}
      kept == IF r.method = "DELETE" THEN rest ELSE rest \cup {r.doc}
  IN [d \in kept |-> IF d = r.doc THEN r.text ELSE docs[d]]

\* doc_exists for a POST, doc_not_found for the others.
Fits(r, docs) == (r.method = "POST") # Held(docs, r.doc)

Underway(w) == {v \in Workers \ {w} : job[v].pc \in {"write", "fill"}}

\* The file is read; an unreadable one or a request that does not fit it is
\* answered with an error.  A GET ends here, whatever it reads.
Load(w) ==
  /\ On(w, "load")
  /\ LET r == job[w] IN
       IF file.state = "text" /\ Fits(r, file.docs)
       THEN /\ job' = [job EXCEPT ![w] = [r EXCEPT !.pc = "write", !.view = Changed(r, file.docs)]]
            /\ met' = IF Underway(w) = {} THEN met
                      ELSE met \cup {r.doc} \cup {job[v].doc : v \in Underway(w)}
       ELSE /\ job' = [job EXCEPT ![w] = Idle]
            /\ UNCHANGED met
  /\ UNCHANGED <<file, server, told, crossed, cut, requests, kills>>

Truncate(w) == /\ On(w, "write")
               /\ Goto(w, "fill")
               /\ file' = Truncated(file)
               /\ crossed' = (crossed \/ \E v \in Workers : On(v, "fill"))
               /\ UNCHANGED <<server, told, met, cut, requests, kills>>

Fill(w) == /\ On(w, "fill")
           /\ file' = Filled(file, job[w].view)
           /\ told' = Changed(job[w], told)
           /\ job' = [job EXCEPT ![w] = Idle]
           /\ UNCHANGED <<server, met, crossed, cut, requests, kills>>

\* The process is killed, with every request it was on.
Kill == /\ server # "down" /\ kills < MaxKills
        /\ kills' = kills + 1
        /\ server' = "down"
        /\ cut' = (cut \/ server = "seeding" \/ \E w \in Workers : On(w, "fill"))
        /\ job' = [w \in Workers |-> Idle]
        /\ UNCHANGED <<file, told, met, crossed, requests>>

Next == \/ Boot \/ Seed \/ Kill
        \/ \E w \in Workers : Start(w) \/ Load(w) \/ Truncate(w) \/ Fill(w)

Spec == Init /\ [][Next]_vars

-----------------------------------------------------------------------------
\* Every variable keeps its type (the JSON list, the request in hand).
TypeOK ==
  /\ file \in [state : {"missing", "broken", "text"}, docs : Stores, length : Nat]
  /\ server \in {"down", "seeding", "up"}
  /\ job \in [Workers -> [pc : {"idle", "load", "write", "fill"},
                          method : {"POST", "PATCH", "DELETE", None},
                          doc : Docs \cup {None}, text : Texts \cup {None}, view : Stores]]
  /\ told \in Stores /\ met \subseteq Docs /\ crossed \in BOOLEAN /\ cut \in BOOLEAN
  /\ requests \in 0 .. MaxRequests /\ kills \in 0 .. MaxKills

\* The store can be read (_load_kb_docs does not raise) unless a request is
\* writing it, two wrote at once, or the process was killed writing it.
ReadableOrCause ==
  file.state = "broken" =>
    server = "seeding" \/ crossed \/ cut \/ \E w \in Workers : On(w, "fill")

\* What the answers 201 and 200 told of a document is what the store holds,
\* over restarts too, unless two requests on it or beside it overlapped
\* (the routes load and write without a lock).
ToldIsKept ==
  file.state = "text" /\ ~ crossed =>
    \A d \in Docs \ met : /\ Held(file.docs, d) = Held(told, d)
                          /\ Held(told, d) => file.docs[d] = told[d]
=============================================================================
