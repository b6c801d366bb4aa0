--------------------------- MODULE VersionedLinks ---------------------------
(***************************************************************************)
(* What the management side of the service promises about stored links:    *)
(* a code is taken once, and every later change of its link is one legal   *)
(* mutation of the link as it stood at that moment, kept as the repository *)
(* keeps times.  There are no requests and no interleaving here: each step *)
(* is one atomic read-modify-write.                                        *)
(***************************************************************************)
EXTENDS LinkRow

CONSTANT NoLink

VARIABLE links

Init == links = [c \in Codes |-> NoLink]

Create(c) ==
    /\ links[c] = NoLink
    /\ \E d \in Destinations, o \in Owners, at \in Times,
          e \in Expirations \cup {NoExpiry} :
         \E l \in NewLink(d, o, at, e) :
            Storable(l) /\ links' = [links EXCEPT ![c] = Row(l)]

Change(c) ==
    /\ links[c] # NoLink
    /\ \E m \in Mutations, at \in Times :
         \E l \in Mutate(links[c], m, at) :
            Storable(l) /\ links' = [links EXCEPT ![c] = Row(l)]

Next == \E c \in Codes : Create(c) \/ Change(c)

Spec == Init /\ [][Next]_links
=============================================================================
