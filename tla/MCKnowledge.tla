---------------------------- MODULE MCKnowledge ----------------------------
\* The instance of Knowledge that TLC checks: one of two documents is seeded,
\* and a text stands for itself by its length.
EXTENDS Knowledge, FiniteSetsExt, TLC

CONSTANTS d1, d2

OneSeed == d1 :> 1

\* The characters of a store: the brackets and its documents.
Characters(docs) == 1 + MapThenSumSet(LAMBDA d : 1 + docs[d], DOMAIN docs)
=============================================================================
