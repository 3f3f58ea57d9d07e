------------------------------ MODULE Publish ------------------------------
(* `pacto publish`: one version of a service put into an OCI registry.       *)
(*                                                                           *)
(* A run reads the tags of the version (the plan), builds and pushes by      *)
(* digest what is absent, attaches SBOMs, signs every digest and then writes *)
(* the tags, the deploy artifact's last.  A run may stop anywhere, and any   *)
(* number of runs, of one commit or of several, may be under way at once: a  *)
(* registry offers no compare and swap on a tag, so a run reads a tag and    *)
(* then writes it.                                                           *)
(*                                                                           *)
(* Items are numbered: 1..Artifacts in the order they are declared, then     *)
(* the contract bundle.  A digest is what determines it: the item, the       *)
(* revision annotated, the run that built it (0 when every build of it is    *)
(* the same) and the digests written into it.  The bundle's depends only on  *)
(* the contract directory.                                                   *)
EXTENDS Naturals, FiniteSets

CONSTANTS
  Artifacts,    \* how many artifacts the contract publishes
  Deploy,       \* the one that is the deploy artifact (0: none is)
  WithSBOM,     \* the ones with an SBOM
  Repeatable,   \* the ones whose build gives the same digest every time (0: the SBOMs)
  Revisions,    \* the commits publish is run from
  ContractOf,   \* the contract directory of each commit
  MaxRuns,      \* bound: how many times publish is run for this version
  MaxAtOnce     \* bound: how many of those runs are under way at once

ASSUME ItemsAssumption ==
  /\ Artifacts \in Nat
  /\ Deploy \in 0 .. Artifacts
  /\ WithSBOM \subseteq 1 .. Artifacts
  /\ Repeatable \subseteq 0 .. Artifacts
ASSUME RunsAssumption == MaxRuns \in Nat
ASSUME RevisionsAssumption == 0 \notin Revisions

VARIABLES
  tags,         \* the digest the version's tag holds in each item's repository
  pushed,       \* the digests the registry holds
  signed,       \* the digests that carry a signature by the configured identity
  runs,         \* the runs of publish, in the order they were started
  overwritten   \* history: some tag was written while it held another digest

vars == <<tags, pushed, signed, runs, overwritten>>

Bundle == Artifacts + 1
Items == 1 .. Bundle
Runs == 1 .. MaxRuns

\* What a tag nobody wrote holds, and the digest of what was not built yet.
NoDigest == [item |-> 0, rev |-> 0, by |-> 0, uses |-> {}]

Digest(i, r, n, uses) == [item |-> i, rev |-> r, by |-> n, uses |-> uses]
BundleDigest(r) == Digest(Bundle, ContractOf[r], 0, {})

\* runs[a].alone is history: no other run was under way while this one was.
Idle == [pc |-> "idle", at |-> 1, rev |-> 0, alone |-> FALSE,
         state |-> [i \in Items |-> ""],
         digest |-> [i \in Items |-> NoDigest],
         sbom |-> [i \in 1 .. Artifacts |-> {}]]

Over == {"idle", "done", "refused", "stopped"}

\* A run that is over leaves nothing but how it ended.
Ended(r, pc) == [Idle EXCEPT !.pc = pc, !.rev = r.rev, !.alone = r.alone]

Running(a) == runs[a].pc \notin Over

Init ==
  /\ tags = [i \in Items |-> NoDigest]
  /\ pushed = {}
  /\ signed = {}
  /\ runs = [a \in Runs |-> Idle]
  /\ overwritten = FALSE

-----------------------------------------------------------------------------
(* The plan. *)

\* Decide without the annotations of an earlier run: only what was computed is known.
DecideDigestOnly(remote, digest, rev) ==
  IF remote = NoDigest THEN "absent"
  ELSE IF remote = digest THEN "identical"
  ELSE "conflict"

\* The decision for one tag.  The digest of an artifact is not known before it
\* is built, and a bundle carries no revision (0).
Decide(remote, digest, rev) ==
  IF remote = NoDigest THEN "absent"
  ELSE IF remote = digest THEN "identical"
  ELSE IF rev # 0 /\ remote.rev = rev THEN "adopt"
  ELSE "conflict"

\* Someone runs publish from commit r.  The runs under way are no longer alone.
Start(a, r) ==
  /\ runs[a].pc = "idle"
  /\ \A b \in 1 .. a - 1 : runs[b].pc # "idle"
  /\ Cardinality({b \in Runs : Running(b)}) < MaxAtOnce
  /\ runs' = [b \in Runs |->
       IF b = a THEN [Idle EXCEPT !.pc = "plan", !.rev = r,
                                  !.alone = \A c \in Runs : ~Running(c)]
                ELSE [runs[b] EXCEPT !.alone = @ /\ ~Running(b)]]
  /\ UNCHANGED <<tags, pushed, signed, overwritten>>

\* MakePlan reads the tags one after the other, the bundle's last, and is
\* ready when none is a conflict.
MakePlan(a) ==
  LET r == runs[a]
      i == r.at
      state == [r.state EXCEPT ![i] =
                  IF i = Bundle THEN Decide(tags[i], BundleDigest(r.rev), 0)
                                ELSE Decide(tags[i], NoDigest, r.rev)]
  IN /\ r.pc = "plan"
     /\ runs' = [runs EXCEPT ![a] =
          IF i = Bundle /\ \E j \in Items : state[j] = "conflict" THEN Ended(r, "refused")
          ELSE [r EXCEPT
             !.state = state,
             !.digest[i] = IF i = Bundle /\ state[i] = "absent"
                           THEN BundleDigest(r.rev) ELSE tags[i],
             !.at = IF i = Bundle THEN 1 ELSE i + 1,
             !.pc = IF i = Bundle THEN "adopt" ELSE "plan"]]
     /\ UNCHANGED <<tags, pushed, signed, overwritten>>

\* adoptOnlySigned: what is adopted carries the signature, or the run is refused.
AdoptOnlySigned(a) ==
  LET r == runs[a] IN
  /\ r.pc = "adopt"
  /\ runs' = [runs EXCEPT ![a] =
       IF \A i \in Items : r.state[i] = "adopt" => r.digest[i] \in signed
       THEN [r EXCEPT !.pc = IF Artifacts = 0 THEN "bundle" ELSE "build"]
       ELSE Ended(r, "refused")]
  /\ UNCHANGED <<tags, pushed, signed, overwritten>>

-----------------------------------------------------------------------------
(* Build, push, attach. *)

\* After artifact i of a run: the next one, or the bundle.
Next1(r, i) == [r EXCEPT !.at = IF i = Artifacts THEN 1 ELSE i + 1,
                         !.pc = IF i = Artifacts THEN "bundle" ELSE "build"]

\* What a build of artifact i is given: the digests of the artifacts before it
\* and, for the deploy artifact, the contract reference annotated on it.
Given(r, i) == {r.digest[j] : j \in 1 .. i - 1} \cup
               (IF i = Deploy THEN {r.digest[Bundle]} ELSE {})

\* The build of artifact i that run a makes.
BuiltBy(a, i) == IF i \in Repeatable THEN 0 ELSE a

\* An absent artifact is built and pushed by digest; a present one is reused.
BuildAndPush(a) ==
  LET r == runs[a]
      i == r.at
      after(d) == IF i \in WithSBOM THEN [r EXCEPT !.digest[i] = d, !.pc = "sbom"]
                                    ELSE Next1([r EXCEPT !.digest[i] = d], i)
  IN /\ r.pc = "build"
     /\ \/ /\ r.state[i] = "absent"
           /\ LET d == Digest(i, r.rev, BuiltBy(a, i), Given(r, i)) IN
                /\ pushed' = pushed \cup {d}
                /\ runs' = [runs EXCEPT ![a] = after(d)]
        \/ /\ r.state[i] # "absent"
           /\ runs' = [runs EXCEPT ![a] = after(r.digest[i])]
           /\ UNCHANGED pushed
     /\ UNCHANGED <<tags, signed, overwritten>>

\* The SBOM is attached unless a signed one is there already.
AttachSBOM(a) ==
  LET r == runs[a]
      d == r.digest[r.at]
      have == {s \in pushed \cap signed : s.item = 0 /\ s.uses = {d}}
      after(s) == Next1([r EXCEPT !.sbom[r.at] = {s}], r.at)
  IN /\ r.pc = "sbom"
     /\ \/ /\ \E s \in have : runs' = [runs EXCEPT ![a] = after(s)]
           /\ UNCHANGED pushed
        \/ /\ have = {}
           /\ LET s == Digest(0, r.rev, BuiltBy(a, 0), {d}) IN
                /\ pushed' = pushed \cup {s}
                /\ runs' = [runs EXCEPT ![a] = after(s)]
     /\ UNCHANGED <<tags, signed, overwritten>>

\* The bundle is pushed by the digest the plan computed.
PushBundle(a) ==
  LET r == runs[a] IN
  /\ r.pc = "bundle"
  /\ pushed' = IF r.state[Bundle] = "absent" THEN pushed \cup {r.digest[Bundle]} ELSE pushed
  /\ runs' = [runs EXCEPT ![a].pc = "sign"]
  /\ UNCHANGED <<tags, signed, overwritten>>

-----------------------------------------------------------------------------
(* Sign, then tag. *)

\* After item i of a run is signed, with its SBOM: the next one, or the tags.
Signed(r, i) == [r EXCEPT !.at = IF i = Bundle THEN 1 ELSE i + 1,
                          !.pc = IF i = Bundle THEN "tag" ELSE "sign"]

\* Only the items are signed, the bundle last.
SignItemAlone(a) ==
  LET r == runs[a] IN
  /\ r.pc = "sign"
  /\ signed' = signed \cup {r.digest[r.at]}
  /\ runs' = [runs EXCEPT ![a] = Signed(r, r.at)]
  /\ UNCHANGED <<tags, pushed, overwritten>>

\* signAll signs each artifact, then its SBOM if it has one, and the bundle last.
SignItem(a) ==
  LET r == runs[a] IN
  /\ r.pc = "sign"
  /\ signed' = signed \cup {r.digest[r.at]}
  /\ runs' = [runs EXCEPT ![a] = IF r.at \in WithSBOM THEN [r EXCEPT !.pc = "signSBOM"]
                                                      ELSE Signed(r, r.at)]
  /\ UNCHANGED <<tags, pushed, overwritten>>

SignSBOM(a) ==
  LET r == runs[a] IN
  /\ r.pc = "signSBOM"
  /\ signed' = signed \cup r.sbom[r.at]
  /\ runs' = [runs EXCEPT ![a] = Signed(r, r.at)]
  /\ UNCHANGED <<tags, pushed, overwritten>>

\* The deploy artifact's tag is written in its place among the others.
TagItemDeclared(n) == n

\* The n-th tag to write: the deploy artifact's after the bundle's.
TagItem(n) == IF Deploy = 0 \/ n < Deploy THEN n ELSE IF n = Bundle THEN Deploy ELSE n + 1

\* After the n-th tag of a run.
Tagged(r, n) == IF n = Bundle THEN Ended(r, "done")
                              ELSE [r EXCEPT !.at = n + 1, !.pc = "tag"]

\* The tag is read again just before it is written; only what this run pushed
\* is owed one.  A run that finds another digest there takes it for its own.
ReadTagUncompared(a) ==
  LET r == runs[a]
      i == TagItem(r.at)
  IN /\ r.pc = "tag"
     /\ runs' = [runs EXCEPT ![a] =
          IF r.state[i] = "absent" /\ tags[i] = NoDigest THEN [r EXCEPT !.pc = "write"]
          ELSE Tagged(r, r.at)]
     /\ UNCHANGED <<tags, pushed, signed, overwritten>>

\* The tag is read again just before it is written; only what this run pushed
\* is owed one.
ReadTag(a) ==
  LET r == runs[a]
      i == TagItem(r.at)
  IN /\ r.pc = "tag"
     /\ runs' = [runs EXCEPT ![a] =
          IF r.state[i] # "absent" THEN Tagged(r, r.at)
          ELSE IF tags[i] = NoDigest THEN [r EXCEPT !.pc = "write"]
          ELSE IF tags[i] = r.digest[i] THEN Tagged(r, r.at)
          ELSE Ended(r, "refused")]
     /\ UNCHANGED <<tags, pushed, signed, overwritten>>

\* The write itself compares nothing.
WriteTag(a) ==
  LET r == runs[a]
      i == TagItem(r.at)
  IN /\ r.pc = "write"
     /\ tags' = [tags EXCEPT ![i] = r.digest[i]]
     /\ overwritten' = (overwritten \/ tags[i] \notin {NoDigest, r.digest[i]})
     /\ runs' = [runs EXCEPT ![a] = Tagged(r, r.at)]
     /\ UNCHANGED <<pushed, signed>>

\* The run is killed, or a call it makes fails and it returns the error.
Stop(a) ==
  /\ Running(a)
  /\ runs' = [runs EXCEPT ![a] = Ended(runs[a], "stopped")]
  /\ UNCHANGED <<tags, pushed, signed, overwritten>>

Step(a) ==
  \/ MakePlan(a)
  \/ AdoptOnlySigned(a)
  \/ BuildAndPush(a)
  \/ AttachSBOM(a)
  \/ PushBundle(a)
  \/ SignItem(a)
  \/ SignSBOM(a)
  \/ ReadTag(a)
  \/ WriteTag(a)

Next == \E a \in Runs : Step(a) \/ Stop(a) \/ \E r \in Revisions : Start(a, r)

Spec == Init /\ [][Next]_vars

-----------------------------------------------------------------------------
(* Properties. *)

\* What a run may name: what is in the registry, or the bundle it will push.
Known == pushed \cup {NoDigest} \cup {BundleDigest(r) : r \in Revisions}

RunType ==
  [pc : {"plan", "adopt", "build", "sbom", "bundle", "sign", "signSBOM", "tag", "write"} \cup Over,
   at : Items, rev : Revisions \cup {0}, alone : BOOLEAN,
   state : [Items -> {"", "absent", "identical", "adopt", "conflict"}],
   digest : [Items -> Known], sbom : [1 .. Artifacts -> SUBSET pushed]]

\* The types: every tag and every SBOM of a run is a digest the registry holds.
TypeOK ==
  /\ tags \in [Items -> pushed \cup {NoDigest}]
  /\ overwritten \in BOOLEAN
  /\ runs \in [Runs -> RunType]

\* d is in the registry and signed, with a signed SBOM if it is to have one.
Complete(d) ==
  /\ d \in pushed \cap signed
  /\ d.item \in WithSBOM =>
       \E s \in pushed \cap signed : s.item = 0 /\ s.uses = {d}

\* "Its tag is the commit point: once it exists, everything it points at
\* exists and is signed" (Apply): the deploy artifact, the artifacts whose
\* digests were built into it and their SBOMs, and the contract annotated on
\* it, whichever runs pushed, adopted, stopped or raced.
CommitPoint ==
  Deploy # 0 /\ tags[Deploy] # NoDigest =>
    /\ Complete(tags[Deploy])
    /\ \A d \in tags[Deploy].uses : Complete(d)
    /\ \A i \in Items : tags[i] # NoDigest

\* What a tag holds is always worth adopting: signed, with its SBOM signed, so
\* a later run neither refuses it nor needs the files of the build that made it.
TaggedIsComplete == \A i \in Items : tags[i] # NoDigest => Complete(tags[i])

\* The version is one build: unless a racing write overwrote a tag, the deploy
\* artifact was built from the very artifacts and the contract that are tagged.
VersionIsOne ==
  Deploy # 0 /\ tags[Deploy] # NoDigest /\ ~overwritten =>
    /\ tags[Bundle] \in tags[Deploy].uses
    /\ \A i \in 1 .. Deploy - 1 : tags[i] \in tags[Deploy].uses

\* A run that stopped halfway finishes when it is run again from the same
\* commit: a run is refused only when another was under way with it, or some
\* run of the version was from another commit.
RerunFinishes ==
  \A a \in Runs : runs[a].pc = "refused" =>
    \/ ~runs[a].alone
    \/ \E b \in 1 .. a - 1 : runs[b].rev # runs[a].rev
=============================================================================
