------------------------ MODULE MCCreateGeneratedLink ------------------------
(***************************************************************************)
(* CreateGeneratedLink for TLC: requests, codes, owners and keys are       *)
(* interchangeable.                                                        *)
(***************************************************************************)
EXTENDS CreateGeneratedLink, TLC

Interchangeable ==
    Permutations(Creations) \cup Permutations(Codes)
      \cup Permutations(Owners) \cup Permutations(Keys)
=============================================================================
