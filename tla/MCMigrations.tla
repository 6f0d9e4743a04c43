----------------------------- MODULE MCMigrations -----------------------------
(***************************************************************************)
(* A runner of a release, one of the release before it, one of a branch    *)
(* that skips a version, one whose directory has two names for a version,  *)
(* one with an edited file, and one that takes everything back.            *)
(***************************************************************************)
EXTENDS Migrations

Pair(v, name, content) ==
    {[version |-> v, name |-> name, direction |-> d, content |-> content] : d \in {"up", "down"}}

MCProcesses == {"older", "newer", "branch", "merged", "edited", "reset"}

MCFiles == [p \in MCProcesses |->
    Pair(1, "meta", "a")
      \union (IF p = "branch" THEN {} ELSE Pair(2, "admin", IF p = "edited" THEN "e" ELSE "b"))
      \union (IF p = "older" THEN {} ELSE Pair(3, "audit", "c"))
      \union (IF p = "merged" THEN Pair(3, "product", "d") ELSE {})]

MCDirection == [p \in MCProcesses |-> IF p = "reset" THEN "down" ELSE "up"]
=============================================================================
