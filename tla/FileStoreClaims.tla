-------------------------- MODULE FileStoreClaims --------------------------
(* What the README says of the file handlers and the code does not do: the  *)
(* property of a run TLC finds violated.                                    *)
EXTENDS MCFileStore

\* README.md:177, cdn_repo.go:31: a Delete answers 200 when the resource was
\* deleted, that is marked.
DeleteOkIsDeleted == \A u \in deleted : doc[u] = "true"
=============================================================================
