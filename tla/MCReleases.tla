----------------------------- MODULE MCReleases -----------------------------
(* Finite instances of Releases for TLC. *)
EXTENDS Releases

\* The migrations of the repository, with fewer columns in the last two.
RepositoryTables == <<"tickets", "ticket_events", None, None>>
RepositoryColumns == <<0, 0, 2, 1>>
=============================================================================
