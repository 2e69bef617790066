--------------------------- MODULE SurfaceRegistry ---------------------------
(***************************************************************************)
(* What the compositor promises its clients about surfaces: a surface      *)
(* belongs to the client that created it, from creation until that client  *)
(* gives it up or leaves, no one else's action ends it, and the names of   *)
(* clients and of surfaces are never given out twice by one compositor.    *)
(***************************************************************************)
EXTENDS Integers, FiniteSets

VARIABLES
  live,      \* the clients
  known,     \* the names of all clients so far
  owner,     \* the owner of each surface there is
  issued     \* the names of all surfaces so far

reg == <<live, known, owner, issued>>

NoOwners == [s \in {} |-> 0]

RegInit == live = {} /\ known = {} /\ owner = NoOwners /\ issued = {}

\* Names may be passed over.
Later(old, new) == old \subseteq new

Arrive ==
  /\ Later(known, known')
  /\ live \subseteq live' /\ (live' \ live) \cap known = {} /\ live' \subseteq known'
  /\ UNCHANGED <<owner, issued>>

\* With the client go all its surfaces, and no others.
Leave(c) ==
  /\ live' = live \ {c}
  /\ owner' = [s \in {t \in DOMAIN owner : owner[t] # c} |-> owner[s]]
  /\ Later(issued, issued')
  /\ UNCHANGED known

Make(c, s) ==
  /\ s \notin issued
  /\ owner' = [t \in DOMAIN owner \cup {s} |-> IF t = s THEN c ELSE owner[t]]
  /\ issued \cup {s} \subseteq issued'
  /\ UNCHANGED <<live, known>>

Drop(s) ==
  /\ owner' = [t \in DOMAIN owner \ {s} |-> owner[t]]
  /\ UNCHANGED <<live, known, issued>>

\* The compositor ends, and all names with it.
End == live' = {} /\ known' = {} /\ owner' = NoOwners /\ issued' = {}

RegNext ==
  \/ Arrive \/ End
  \/ \E c \in live : Leave(c) \/ (\E s \in issued' : Make(c, s))
  \/ \E s \in DOMAIN owner : Drop(s)

RegSpec == RegInit /\ [][RegNext]_reg
=============================================================================
