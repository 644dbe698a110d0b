------------------------------- MODULE Policy -------------------------------
(***************************************************************************)
(* The decisions of a turn that need no state: what a message is about     *)
(* (core/intent_router.py), and the SLA and handoff rules: how             *)
(* core/sla_engine.py and core/handoff_manager.py load the policy file,    *)
(* which rule applies to a ticket, what is overdue and who gets handed     *)
(* over to a human.  Turns evaluates these operators in the course of a    *)
(* turn.  Minutes are numbers, and a message is how many keywords of each  *)
(* intent it holds and whether it asks for a human.                        *)
(***************************************************************************)
EXTENDS Naturals, Sequences, FiniteSets, SequencesExt

CONSTANTS SlaPayload,      \* the SLA part of the policy file, see Raw
          HandoffPayload,  \* its handoff rules, overrides and fallback_rules
          None             \* an absent key

-----------------------------------------------------------------------------
(* The intent of a message.                                                *)

\* _intent_keywords, in the order in which the router tries them.
Intents == <<"greeting", "faq", "progress_query", "repair", "complaint", "billing">>

\* _score_intent, in hundredths.
Score(hits) == IF hits = 0 THEN 0 ELSE Min({100, 65 + 20 * (hits - 1)})
Threshold == 58

\* route: the first of the intents with the highest score.
Route(message) ==
  LET score(i) == Score(message.hits[Intents[i]])
      top      == Max({score(i) : i \in DOMAIN Intents})
      best     == Min({i \in DOMAIN Intents : score(i) = top})
  IN [intent |-> IF top < Threshold THEN "other" ELSE Intents[best],
      low |-> top < Threshold, human |-> message.human]

-----------------------------------------------------------------------------
\* A selector that is absent, empty or holds "*" matches everything.
Selects(selector, value) == selector \in {None, {}} \/ "*" \in selector \/ value \in selector

\* MatchScope.matches and RuleScope.matches.
InScope(scope, ticket) == /\ Selects(scope.intent, ticket.intent)
                          /\ Selects(scope.priority, ticket.priority)
                          /\ Selects(scope.queue, ticket.queue)
                          /\ Selects(scope.channel, ticket.channel)

Anything == [intent |-> None, priority |-> None, queue |-> None, channel |-> None]

-----------------------------------------------------------------------------
(* The SLA rules.                                                          *)

DefaultBreaches == {"first_response_overdue", "resolution_overdue"}

Minutes(raw, default) == IF raw = None THEN default ELSE IF raw < 1 THEN 1 ELSE raw

\* _parse_rule, with the defaults of the keys the file leaves out.
Rule(raw, scope) ==
  [scope      |-> scope,
   first      |-> Minutes(raw.first, 60),
   resolution |-> Minutes(raw.resolution, 480),
   target     |-> IF raw.target = None THEN "queue" ELSE raw.target,
   escalateOn |-> IF raw.escalateOn = None THEN DefaultBreaches ELSE raw.escalateOn]

Raw == [first |-> None, resolution |-> None, target |-> None, escalateOn |-> None]

\* from_file: the current form has overrides and a fallback; the old one has a
\* rule per priority, and its rule for P3 is the fallback of the others.
Overrides ==
  [i \in 1 .. Len(SlaPayload.rules) |->
     LET r == SlaPayload.rules[i] IN
     Rule(r.raw, IF SlaPayload.form = "legacy" THEN [Anything EXCEPT !.priority = {r.when}]
                                               ELSE r.when)]
FallbackRule ==
  IF SlaPayload.form = "overrides" THEN Rule(SlaPayload.fallback, Anything)
  ELSE LET p3 == SelectSeq(Overrides, LAMBDA r : r.scope.priority = {"P3"}) IN
       IF p3 = <<>> THEN Rule(Raw, Anything) ELSE p3[1]

\* _select_rule: the first override whose scope holds, else the fallback.
SlaRule(ticket) == LET fit == SelectSeq(Overrides, LAMBDA r : InScope(r.scope, ticket)) IN
                   IF fit = <<>> THEN FallbackRule ELSE fit[1]

\* evaluate: what is overdue, given whether an event of a first response is in
\* the timeline that was read.
Breaches(ticket, responded, now) ==
  {b \in {"first_response_overdue"} : ~responded /\ now > ticket.created + SlaRule(ticket).first}
  \cup {b \in {"resolution_overdue"} :
          ticket.status \notin {"resolved", "closed"}
            /\ now > ticket.created + SlaRule(ticket).resolution}

-----------------------------------------------------------------------------
(* The handoff rules.                                                      *)

\* _legacy_rules stand in where the file has none.
LegacyOverrides ==
  <<[reason |-> "priority-P1", trigger |-> "always", breaches |-> {},
     when |-> [Anything EXCEPT !.priority = {"P1"}]],
    [reason |-> "complaint-intent", trigger |-> "always", breaches |-> {},
     when |-> [Anything EXCEPT !.intent = {"complaint"}]]>>
LegacyFallback ==
  <<[reason |-> "low-confidence", trigger |-> "low_confidence", breaches |-> {},
     when |-> Anything],
    [reason |-> "customer-asks-human", trigger |-> "customer_request_human", breaches |-> {},
     when |-> Anything]>>

\* All rules count, the overrides first: an override does not hide a fallback.
HandoffRules ==
  IF HandoffPayload.overrides = <<>> /\ HandoffPayload.fallback = <<>>
  THEN LegacyOverrides \o LegacyFallback
  ELSE HandoffPayload.overrides \o HandoffPayload.fallback

\* _rule_triggered.  The rules' own thresholds (45 and 60) are below the score
\* of a single keyword, so they find low what the router found low.
Triggered(rule, message, breaches) ==
  CASE rule.trigger = "always"                 -> TRUE
    [] rule.trigger = "low_confidence"         -> message.low
    [] rule.trigger = "customer_request_human" -> message.human
    [] rule.trigger = "sla_breach" -> /\ breaches # {}
                                      /\ rule.breaches = {} \/ rule.breaches \cap breaches # {}
    [] OTHER                                   -> FALSE

\* evaluate: the reasons of every rule that applies; any reason hands over.
Reasons(ticket, message, breaches) ==
  {HandoffRules[i].reason :
     i \in {j \in 1 .. Len(HandoffRules) : /\ InScope(HandoffRules[j].when, ticket)
                                           /\ Triggered(HandoffRules[j], message, breaches)}}
=============================================================================
