---------------------------- MODULE MCPromoter -----------------------------
(***************************************************************************)
(* The promoter on small instances: two versions, and who asks for what.   *)
(***************************************************************************)
EXTENDS Promoter

CONSTANTS d1, d2

Nobody == {}

Promotes == {<<"promote", "human">>}

People == {<<"promote", "human">>, <<"rollback", "human">>}

LevelChanges ==
  {<<"autonomy", "human">>, <<"override", "breakglass">>, <<"unfreeze", "human">>}

\* Nothing waits for an approval or ends without running, and the Stage's own
\* reconciles stand still between Operations.
Straight ==
  /\ sr.at = "idle"
  /\ \A o \in DOMAIN ops :
       /\ ops[o].phase # "Held"
       /\ ops[o].outcome \notin {"Rejected", "Expired", "Errored"}

=============================================================================
