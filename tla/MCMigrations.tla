---------------------------- MODULE MCMigrations ----------------------------
(***************************************************************************)
(* Migrations for TLC.  A liveness property is checked, so there is no     *)
(* symmetry; the releases are the ones that make a difference.             *)
(***************************************************************************)
EXTENDS Migrations

CONSTANTS a, b      \* contents of migration files

(* Releases that grow, one that adds an earlier file late, one that drops  *)
(* its first file, and two that edit a file.                               *)
FewReleases ==
    {<<a>>, <<a, a>>, <<a, a, a>>,
     [v \in {1, 3} |-> a], [v \in {2, 3} |-> a],
     <<b, a, a>>, <<a, b, a>>}
=============================================================================
