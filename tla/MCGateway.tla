----------------------------- MODULE MCGateway ------------------------------
(* Finite instances of Gateway for TLC. *)
EXTENDS Gateway, TLC

\* A text message as the bridge passes it on.
Message == [via |-> "bridge", channel |-> "wecom", id |-> 1, alt |-> 7, session |-> 1,
            text |-> TRUE, source |-> "trusted", signature |-> None,
            needsSource |-> FALSE, needsSignature |-> FALSE, trace |-> 1]
Signed == [Message EXCEPT !.via = "replay", !.signature = "good", !.needsSource = TRUE]

\* Messages with and without an id, a signed replay of the first, replays the
\* gate or the adapter refuses, and one on a channel without a key.
SomePayloads ==
  {Message, [Message EXCEPT !.id = None, !.trace = 2], [Message EXCEPT !.text = FALSE],
   Signed,
   [Signed EXCEPT !.source = "other", !.session = 2],
   [Signed EXCEPT !.signature = "stale", !.session = 3],
   [Signed EXCEPT !.signature = "untimed", !.session = 3],
   [Signed EXCEPT !.text = FALSE, !.trace = 3],
   [Signed EXCEPT !.channel = "telegram", !.signature = None, !.needsSource = FALSE,
                  !.id = None, !.alt = None, !.trace = 4]}

EveryOutcome == AllOutcomes
=============================================================================
