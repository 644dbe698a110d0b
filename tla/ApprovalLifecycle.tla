------------------------- MODULE ApprovalLifecycle -------------------------
(***************************************************************************)
(* What the approval runtime promises of one approval, with nothing said   *)
(* of the tickets it is stored in: asked for once, decided at most once,   *)
(* the decision never taken back, and approved only after its action has   *)
(* been executed.  An execution may also precede a failure, so it alone    *)
(* promises no decision.                                                   *)
(***************************************************************************)
CONSTANT Approvals

Decision == {"approved", "rejected", "timeout"}
Verdict == {"none", "pending_approval"} \cup Decision

VARIABLES verdict,    \* [Approvals -> Verdict]
          executed    \* approvals whose action has been carried out

vars == <<verdict, executed>>

TypeOK == /\ verdict \in [Approvals -> Verdict]
          /\ executed \in SUBSET Approvals

Init == /\ verdict = [a \in Approvals |-> "none"]
        /\ executed = {}

Ask(a) == /\ verdict[a] = "none"
          /\ verdict' = [verdict EXCEPT ![a] = "pending_approval"]
          /\ UNCHANGED executed

Execute(a) == /\ verdict[a] # "none"
              /\ executed' = executed \cup {a}
              /\ UNCHANGED verdict

Approve(a) == /\ verdict[a] = "pending_approval"
              /\ a \in executed
              /\ verdict' = [verdict EXCEPT ![a] = "approved"]
              /\ UNCHANGED executed

Reject(a) == /\ verdict[a] = "pending_approval"
             /\ verdict' = [verdict EXCEPT ![a] = "rejected"]
             /\ UNCHANGED executed

\* One scan of a ticket times out all that is due on it.
TimeOut(as) == /\ as # {}
               /\ \A a \in as : verdict[a] = "pending_approval"
               /\ verdict' = [a \in Approvals |-> IF a \in as THEN "timeout" ELSE verdict[a]]
               /\ UNCHANGED executed

Next == \/ \E a \in Approvals : Ask(a) \/ Execute(a) \/ Approve(a) \/ Reject(a)
        \/ \E as \in SUBSET Approvals : TimeOut(as)

Spec == Init /\ [][Next]_vars

=============================================================================
