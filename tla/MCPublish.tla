----------------------------- MODULE MCPublish -----------------------------
(* One version of a service with an image that has an SBOM and the chart     *)
(* that deploys it, published three times from up to three commits, two of   *)
(* which share a contract directory.                                         *)
EXTENDS Publish, TLC

\* Commits 1 and 2 have the same contract directory, 3 another.
Directories == 1 :> 1 @@ 2 :> 1 @@ 3 :> 2
=============================================================================
