------------------------------ MODULE MCTurns ------------------------------
(* Finite instances of Turns for TLC, under the policy file the repository *)
(* ships, seed_data/sla_rules/default_sla_rules.json.                      *)
EXTENDS Turns, TLC

Limits(first, resolution, target, escalateOn) ==
  [first |-> first, resolution |-> resolution, target |-> target, escalateOn |-> escalateOn]

ShippedSla ==
  [form |-> "overrides",
   fallback |-> Limits(60, 480, "queue", DefaultBreaches),
   rules |->
     <<[when |-> [Anything EXCEPT !.priority = {"P1"}],
        raw |-> Limits(15, 120, "immediate", DefaultBreaches)],
       [when |-> [Anything EXCEPT !.priority = {"P2"}],
        raw |-> Limits(30, 240, "supervisor", {"resolution_overdue"})],
       [when |-> [Anything EXCEPT !.intent = {"complaint"}],
        raw |-> Limits(20, 180, "customer_relations", DefaultBreaches)],
       [when |-> [Anything EXCEPT !.intent = {"billing"}, !.channel = {"wecom"}],
        raw |-> Limits(25, 180, "finance_lead", {"resolution_overdue"})],
       [when |-> [Anything EXCEPT !.queue = {"vip-support"}],
        raw |-> Limits(10, 90, "vip_manager", DefaultBreaches)],
       [when |-> [Anything EXCEPT !.intent = {"faq"}, !.channel = {"telegram"}],
        raw |-> Limits(120, 1440, "queue", {})]>>]

HandsOver(reason, trigger, breaches, when) ==
  [reason |-> reason, trigger |-> trigger, breaches |-> breaches, when |-> when]

ShippedHandoff ==
  [overrides |->
     <<HandsOver("priority-P1", "always", {}, [Anything EXCEPT !.priority = {"P1"}]),
       HandsOver("complaint-intent", "always", {}, [Anything EXCEPT !.intent = {"complaint"}]),
       HandsOver("complaint-wecom-low-confidence", "low_confidence", {},
                 [Anything EXCEPT !.intent = {"complaint"}, !.channel = {"wecom"}]),
       HandsOver("sla-critical-breach", "sla_breach", DefaultBreaches,
                 [Anything EXCEPT !.priority = {"P1", "P2"}])>>,
   fallback |->
     <<HandsOver("customer-asks-human", "customer_request_human", {}, Anything),
       HandsOver("low-confidence", "low_confidence", {}, Anything)>>]

\* The older form of the file: minutes per priority, and no handoff rules, in
\* whose place the built-in ones stand.
OldSla ==
  [form |-> "legacy",
   rules |-> <<[when |-> "P1", raw |-> Limits(15, 120, None, None)],
               [when |-> "P3", raw |-> Limits(60, 480, None, None)]>>]

NoHandoff == [overrides |-> <<>>, fallback |-> <<>>]

\* A message without keywords, or with some of these intents.
Plain == [hits |-> [i \in Range(Intents) |-> 0], human |-> FALSE]
Says(words) == [Plain EXCEPT !.hits = words @@ @]

\* A question, a repair that also asks how, and a complaint that says hello.
Question == Says("faq" :> 1)
Repair == Says("repair" :> 2 @@ "faq" :> 1)
Complaint == Says("complaint" :> 2 @@ "greeting" :> 1)
SomeKinds == {Question, Repair, Complaint}
OneKind == {Complaint}

\* The router on every message with up to three keywords of each intent: it is
\* at a loss only without any keyword, and never takes an intent that another
\* one beats, where one keyword more counts up to three.
ASSUME RouterAssumption ==
  \A hits \in [Range(Intents) -> 0 .. 3] :
    LET r == Route([Plain EXCEPT !.hits = hits]) IN
    /\ r.low <=> \A i \in Range(Intents) : hits[i] = 0
    /\ ~r.low => \A i \in Range(Intents) : hits[i] <= hits[r.intent]

TwoProviders == <<1, 0>>
Wecom == [s \in Sessions |-> "wecom"]
=============================================================================
