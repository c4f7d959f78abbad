------------------------------- MODULE Loader ------------------------------
(***************************************************************************)
(* What the callers of a tape loader are promised: it stores words one at  *)
(* a time, each inside the core it was given, touches nothing else, and    *)
(* comes back - also from a tape it refuses, which leaves what was stored. *)
(***************************************************************************)
EXTENDS Tape

VARIABLES
  core,    \* what has been stored so far
  status   \* "loading", then "loaded" or "refused"

Init == core = Nothing /\ status = "loading"

Store ==
  /\ status = "loading" /\ UNCHANGED status
  /\ DOMAIN core' \subseteq 0 .. CoreSize - 1
  /\ \E a \in DOMAIN core' :
       core'[a] \in CoreWord /\ core' = Stored(core, a, core'[a])

Return == status = "loading" /\ status' \in {"loaded", "refused"} /\ UNCHANGED core

Next == Store \/ Return
Spec == Init /\ [][Next]_<<core, status>>
FairSpec == Spec /\ WF_<<core, status>>(Return)
=============================================================================
