-------------------------- MODULE MCLinkManagement --------------------------
(***************************************************************************)
(* LinkManagement for TLC: requests are interchangeable, and so are owners *)
(* and destinations, where no liveness is checked.                         *)
(***************************************************************************)
EXTENDS LinkManagement, TLC

Interchangeable ==
    Permutations(Requests) \cup Permutations(Destinations)
      \cup Permutations(Owners)
=============================================================================
