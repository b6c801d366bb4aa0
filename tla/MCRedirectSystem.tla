-------------------------- MODULE MCRedirectSystem --------------------------
(***************************************************************************)
(* RedirectSystem for TLC: management requests, redirect handlers and      *)
(* destinations are interchangeable.                                       *)
(***************************************************************************)
EXTENDS RedirectSystem, TLC

Interchangeable ==
    Permutations(Requests) \cup Permutations(Redirects)
      \cup Permutations(Destinations)
=============================================================================
