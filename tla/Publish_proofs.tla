--------------------------- MODULE Publish_proofs ---------------------------
(* The commit point of a publish, that a version is one build, and that a    *)
(* rerun finishes, for any number of artifacts, commits and runs.            *)
EXTENDS Publish, TLAPS

Tagging == {"tag", "write"}
Working == {"bundle", "sign", "signSBOM"} \cup Tagging

\* The plan of r covers item i.
Planned(r, i) == \/ r.pc = "plan" /\ i < r.at
                 \/ r.pc \notin Over \cup {"plan"}

\* Artifact i of r is in the registry, and so is its SBOM.
BuiltItem(r, i) == r.pc \in Working \/ (r.pc = "build" /\ i < r.at) \/ (r.pc = "sbom" /\ i <= r.at)
Attached(r, i) == r.pc \in Working \/ (r.pc \in {"build", "sbom"} /\ i < r.at)

\* Item i of r is signed, and so is its SBOM.
ItemSigned(r, i) == r.pc \in Tagging \/ (r.pc = "sign" /\ i < r.at) \/ (r.pc = "signSBOM" /\ i <= r.at)
SBOMSigned(r, i) == r.pc \in Tagging \/ (r.pc \in {"sign", "signSBOM"} /\ i < r.at)

\* Where a run is.
AtOK(r) ==
  /\ r.pc \notin Over => r.rev \in Revisions
  /\ r.pc \in {"adopt", "bundle"} => r.at = 1
  /\ r.pc \in {"build", "sbom"} => r.at \in 1 .. Artifacts
  /\ r.pc \in {"sbom", "signSBOM"} => r.at \in WithSBOM
  /\ r.pc = "write" => r.state[TagItem(r.at)] = "absent"

\* What the plan found present still is, and was worth adopting.
Found(r, i) ==
  /\ r.state[i] # "absent" => /\ tags[i] # NoDigest
                              /\ r.digest[i].item = i
                              /\ Complete(r.digest[i])
                              /\ ~overwritten => tags[i] = r.digest[i]
  /\ r.state[i] = "absent" /\ i = Bundle => r.digest[i] = BundleDigest(r.rev)
PlanOK(r) == \A i \in Items : Planned(r, i) => Found(r, i)

\* What was built is pushed, and the deploy artifact names what it was given.
BuildOK(r) == \A i \in 1 .. Artifacts : BuiltItem(r, i) =>
  /\ r.digest[i].item = i
  /\ r.digest[i] \in pushed
  /\ i = Deploy /\ r.state[i] = "absent" => r.digest[i].uses = Given(r, i)

SBOMOK(r) == \A i \in WithSBOM : Attached(r, i) =>
  \E s \in r.sbom[i] : s.item = 0 /\ s.uses = {r.digest[i]}

SignOK(r) ==
  /\ r.pc \in Working \ {"bundle"} => r.digest[Bundle].item = Bundle /\ r.digest[Bundle] \in pushed
  /\ \A i \in Items : ItemSigned(r, i) => r.digest[i] \in signed
  /\ \A i \in WithSBOM : SBOMSigned(r, i) => r.sbom[i] \subseteq signed

\* The tags before the one a run is at are written.
TagOK(r) == r.pc \in Tagging => \A n \in 1 .. r.at - 1 :
  /\ tags[TagItem(n)] # NoDigest
  /\ ~overwritten => tags[TagItem(n)] = r.digest[TagItem(n)]

RunOK(r) == AtOK(r) /\ PlanOK(r) /\ BuildOK(r) /\ SBOMOK(r) /\ SignOK(r) /\ TagOK(r)

\* Nothing is untagged, and unless a tag is overwritten none changes what it holds.
TagsKept ==
  /\ \A i \in Items : tags[i] # NoDigest => tags'[i] # NoDigest
  /\ ~overwritten' => /\ ~overwritten
                      /\ \A i \in Items : tags[i] # NoDigest => tags'[i] = tags[i]

TagsOK == \A i \in Items : tags[i] # NoDigest => tags[i].item = i /\ Complete(tags[i])

\* The inductive invariant.
PublishInv ==
  /\ TypeOK
  /\ TagsOK
  /\ CommitPoint
  /\ VersionIsOne
  /\ \A a \in Runs : RunOK(runs[a])

-----------------------------------------------------------------------------

\* The numbers of the items.
LEMMA ItemNumbers ==
  /\ Bundle \in Nat /\ Bundle = Artifacts + 1 /\ Artifacts \in Nat
  /\ Items = 1 .. Bundle /\ Deploy # Bundle /\ (Deploy # 0 => Deploy \in Items /\ Deploy \in 1 .. Artifacts)
  /\ 1 \in Items /\ Bundle \in Items
  /\ WithSBOM \subseteq 1 .. Artifacts /\ 1 .. Artifacts \subseteq Items /\ Bundle \notin WithSBOM
  /\ \A i \in Items : i \in Nat /\ (i # Bundle => i + 1 \in Items /\ i \in 1 .. Artifacts)
  /\ \A n \in Items : TagItem(n) \in Items
BY ItemsAssumption DEF Bundle, Items, TagItem

LEMMA ArtifactNumbers ==
  ASSUME NEW i \in 1 .. Artifacts
  PROVE  /\ i \in Nat /\ i >= 1 /\ i \in Items /\ i # Bundle /\ ~(i < 1)
         /\ i # Artifacts => i + 1 \in 1 .. Artifacts /\ i + 1 \in Items
BY ItemsAssumption DEF Bundle, Items

\* No item has the digest of nothing.
LEMMA SomeDigest == ASSUME NEW d, NEW i \in Items, d.item = i PROVE d # NoDigest
BY ItemNumbers DEF NoDigest

\* A run at its tags has every item pushed and signed, with its SBOM.
LEMMA RunComplete ==
  ASSUME TypeOK, NEW a \in Runs, RunOK(runs[a]), runs[a].pc \in Tagging, NEW i \in Items
  PROVE  runs[a].digest[i].item = i /\ Complete(runs[a].digest[i]) /\ runs[a].digest[i] \in pushed
<1> DEFINE r == runs[a]
<1>1. r.sbom \in [1 .. Artifacts -> SUBSET pushed]
  BY Zenon DEF TypeOK, RunType
<1>2. r.digest[i] \in signed
  BY DEF RunOK, SignOK, ItemSigned
<1>3. r.digest[i].item = i /\ r.digest[i] \in pushed
  BY ItemNumbers, SMTT(30) DEF RunOK, SignOK, BuildOK, BuiltItem, Working, Tagging
<1>4. i \in WithSBOM => \E s \in pushed \cap signed : s.item = 0 /\ s.uses = {r.digest[i]}
  <2> SUFFICES ASSUME i \in WithSBOM PROVE \E s \in pushed \cap signed : s.item = 0 /\ s.uses = {r.digest[i]}
    OBVIOUS
  <2>1. PICK s \in r.sbom[i] : s.item = 0 /\ s.uses = {r.digest[i]}
    BY DEF RunOK, SBOMOK, Attached, Working
  <2>2. r.sbom[i] \subseteq signed
    BY DEF RunOK, SignOK, SBOMSigned
  <2>3. r.sbom[i] \subseteq pushed
    BY <1>1, ItemNumbers, Zenon
  <2> QED BY <2>1, <2>2, <2>3
<1> QED BY <1>2, <1>3, <1>4 DEF Complete

-----------------------------------------------------------------------------

\* What is complete stays so: nothing is unpushed or unsigned.
LEMMA CompleteGrows ==
  ASSUME pushed \subseteq pushed', signed \subseteq signed', NEW d, Complete(d)
  PROVE  Complete(d)'
BY DEF Complete

\* What a run may hold, it may hold after a push.
LEMMA TypeGrows ==
  ASSUME pushed \subseteq pushed', NEW r \in RunType
  PROVE  r \in RunType'
<1>1. Known \subseteq Known'
  BY DEF Known
<1>2. r.digest \in [Items -> Known']
  BY <1>1, Zenon DEF RunType
<1>3. r.sbom \in [1 .. Artifacts -> SUBSET pushed']
  BY Zenon DEF RunType
<1> QED BY <1>2, <1>3, Zenon DEF RunType

\* What the plan found is still there when the run goes on with it.
LEMMA PlanKept ==
  ASSUME NEW a \in Runs, PlanOK(runs[a]), NEW q, runs'[a] = q, q.rev = runs[a].rev, q.state = runs[a].state,
         pushed \subseteq pushed', signed \subseteq signed', TagsKept,
         \A j \in Items : Planned(q, j) => Planned(runs[a], j),
         \A j \in Items : q.state[j] # "absent" \/ j = Bundle => q.digest[j] = runs[a].digest[j]
  PROVE  PlanOK(runs[a])'
<1> SUFFICES ASSUME NEW j \in Items, Planned(q, j) PROVE Found(runs[a], j)'
  BY Zenon DEF PlanOK, Planned
<1>1. Found(runs[a], j)
  BY Zenon DEF PlanOK
<1>2. PICK x : x = runs[a].digest[j]
  OBVIOUS
<1>3. Complete(x) => Complete(x)'
  BY CompleteGrows
<1>5. CASE q.state[j] # "absent"
  <2>1. q.digest[j] = x
    BY <1>2, <1>5
  <2>2. tags[j] # NoDigest /\ x.item = j /\ Complete(x)' /\ (~overwritten => tags[j] = x)
    BY <1>1, <1>2, <1>3, <1>5 DEF Found
  <2>3. tags'[j] # NoDigest /\ (~overwritten' => tags'[j] = x)
    BY <2>2 DEF TagsKept
  <2> QED BY <1>5, <2>1, <2>2, <2>3 DEF Found
<1>6. CASE q.state[j] = "absent"
  BY <1>1, <1>6 DEF Found
<1> QED BY <1>5, <1>6

\* What is built stays so.
LEMMA BuildKept ==
  ASSUME NEW a \in Runs, BuildOK(runs[a]), NEW q, runs'[a] = q, q.state = runs[a].state,
         q.digest = runs[a].digest, pushed \subseteq pushed',
         \A j \in 1 .. Artifacts : BuiltItem(q, j) => BuiltItem(runs[a], j)
  PROVE  BuildOK(runs[a])'
BY DEF BuildOK, BuiltItem, Given

\* A run that does not move keeps what it holds, whatever others push, sign
\* and tag.
LEMMA RunStays ==
  ASSUME pushed \subseteq pushed', signed \subseteq signed', TagsKept, NEW b \in Runs,
         RunOK(runs[b]), runs[b] \in RunType, NEW q, runs'[b] = q,
         q.pc = runs[b].pc, q.at = runs[b].at, q.rev = runs[b].rev,
         q.state = runs[b].state, q.digest = runs[b].digest, q.sbom = runs[b].sbom
  PROVE  RunOK(runs[b])'
<1>1. AtOK(runs[b])'
  BY DEF RunOK, AtOK
<1>2. PlanOK(runs[b])'
  <2>1. \A j \in Items : Planned(q, j) => Planned(runs[b], j)
    BY DEF Planned
  <2> QED BY <2>1, PlanKept, Zenon DEF RunOK
<1>3. BuildOK(runs[b])'
  <2>1. \A j \in 1 .. Artifacts : BuiltItem(q, j) => BuiltItem(runs[b], j)
    BY DEF BuiltItem
  <2> QED BY <2>1, BuildKept, Zenon DEF RunOK
<1>4. SBOMOK(runs[b])'
  BY Zenon DEF RunOK, SBOMOK, Attached
<1>5. SignOK(runs[b])'
  BY Zenon DEF RunOK, SignOK, ItemSigned, SBOMSigned
<1>6. TagOK(runs[b])'
  <2>0. q.at \in Items
    BY Zenon DEF RunType
  <2>1. \A n \in 1 .. q.at - 1 : TagItem(n) \in Items
    BY <2>0, ItemNumbers DEF Items
  <2> QED BY <2>1 DEF RunOK, TagOK, TagsKept
<1> QED BY <1>1, <1>2, <1>3, <1>4, <1>5, <1>6 DEF RunOK

\* A step of one run that writes no tag has only that run to account for.
LEMMA OneRun ==
  ASSUME PublishInv, NEW a \in Runs, NEW q,
         pushed \subseteq pushed', signed \subseteq signed',
         tags' = tags, overwritten' = overwritten,
         runs' = [runs EXCEPT ![a] = q], q \in RunType', RunOK(runs[a])'
  PROVE  PublishInv'
<1>1. runs'[a] = q /\ \A b \in Runs : b # a => runs'[b] = runs[b]
  BY DEF PublishInv, TypeOK
<1>2. TypeOK'
  <2>1. runs' \in [Runs -> RunType']
    BY TypeGrows DEF PublishInv, TypeOK
  <2>2. tags' \in [Items -> pushed' \cup {NoDigest}]
    BY DEF PublishInv, TypeOK
  <2> QED BY <2>1, <2>2 DEF PublishInv, TypeOK
<1>3. TagsOK'
  BY CompleteGrows DEF PublishInv, TagsOK
<1>4. CommitPoint' /\ VersionIsOne'
  BY CompleteGrows DEF PublishInv, CommitPoint, VersionIsOne
<1>5. \A b \in Runs : RunOK(runs[b])'
  <2> SUFFICES ASSUME NEW b \in Runs, b # a PROVE RunOK(runs[b])'
    OBVIOUS
  <2>1. RunOK(runs[b]) /\ runs[b] \in RunType
    BY DEF PublishInv, TypeOK
  <2>2. TagsKept
    BY DEF TagsKept
  <2> QED BY <1>1, <2>1, <2>2, RunStays, Zenon
<1> QED BY <1>2, <1>3, <1>4, <1>5 DEF PublishInv

\* A run that is over, or not begun, holds nothing.
LEMMA OverOK ==
  ASSUME NEW a \in Runs
  PROVE  /\ runs[a].pc \in Over => RunOK(runs[a])
         /\ runs'[a].pc \in Over => RunOK(runs[a])'
<1>1. runs[a].pc \in Over => RunOK(runs[a])
  BY DEF RunOK, AtOK, PlanOK, Planned, BuildOK, BuiltItem, SBOMOK, Attached, SignOK, ItemSigned,
         SBOMSigned, TagOK, Over, Working, Tagging
<1>2. runs'[a].pc \in Over => RunOK(runs[a])'
  BY DEF RunOK, AtOK, PlanOK, Planned, BuildOK, BuiltItem, SBOMOK, Attached, SignOK, ItemSigned,
         SBOMSigned, TagOK, Over, Working, Tagging
<1> QED BY <1>1, <1>2

\* How a run ends is all it leaves.
LEMMA EndedType ==
  ASSUME NEW r \in RunType, NEW pc \in Over
  PROVE  Ended(r, pc) \in RunType /\ Ended(r, pc).pc = pc
<1>1. Idle \in RunType
  BY ItemNumbers, Zenon DEF Idle, RunType, Known, Over
<1> QED BY <1>1, Zenon DEF Ended, RunType

\* Whichever way a run ends, the invariant holds.
LEMMA EndKeeps ==
  ASSUME PublishInv, NEW a \in Runs, NEW pc \in Over, runs' = [runs EXCEPT ![a] = Ended(runs[a], pc)],
         UNCHANGED <<tags, pushed, signed, overwritten>>
  PROVE  PublishInv'
<1>1. runs[a] \in RunType
  BY DEF PublishInv, TypeOK
<1>2. Ended(runs[a], pc) \in RunType' /\ Ended(runs[a], pc).pc = pc
  BY <1>1, EndedType, TypeGrows
<1>3. runs'[a].pc \in Over
  BY <1>2 DEF PublishInv, TypeOK
<1>4. RunOK(runs[a])'
  BY <1>3, OverOK, Zenon
<1> QED BY <1>2, <1>4, OneRun, Zenon

-----------------------------------------------------------------------------
(* The steps of a run. *)

\* Starting a run keeps the invariant: the others only stop being alone.
LEMMA StartKeeps ==
  ASSUME PublishInv, NEW a \in Runs, NEW v \in Revisions, Start(a, v)
  PROVE  PublishInv'
<1>1. /\ tags' = tags /\ pushed' = pushed /\ signed' = signed /\ overwritten' = overwritten
      /\ runs \in [Runs -> RunType]
  BY Zenon DEF Start, PublishInv, TypeOK
<1>2. \A b \in Runs : b # a => runs'[b] = [runs[b] EXCEPT !.alone = @ /\ ~Running(b)]
  BY Zenon DEF Start
<1>3. runs'[a] = [Idle EXCEPT !.pc = "plan", !.rev = v, !.alone = \A c \in Runs : ~Running(c)]
  BY Zenon DEF Start
<1>4. Idle \in RunType
  BY ItemNumbers, Zenon DEF Idle, RunType, Known, Over
<1>5. /\ runs'[a].pc = "plan" /\ runs'[a].at = 1 /\ runs'[a].rev = v
      /\ runs'[a] \in RunType
  <2>1. (\A c \in Runs : ~Running(c)) \in BOOLEAN
    OBVIOUS
  <2> QED BY <1>3, <1>4, <2>1, ZenonT(40) DEF Idle, RunType
<1>6. ASSUME NEW b \in Runs, b # a
      PROVE  runs'[b] \in RunType /\ RunOK(runs[b])'
  <2>1. PICK x : x = (runs[b].alone /\ ~Running(b))
    BY Zenon
  <2>2. x \in BOOLEAN
    BY <2>1, Zenon
  <2>3. PICK q : q = [runs[b] EXCEPT !.alone = x]
    BY Zenon
  <2>4. runs'[b] = q
    BY <1>2, <1>6, <2>1, <2>3, Zenon
  <2>5. runs[b] \in RunType /\ RunOK(runs[b])
    BY <1>1, Zenon DEF PublishInv
  <2>6. /\ q \in RunType /\ q.pc = runs[b].pc /\ q.at = runs[b].at /\ q.rev = runs[b].rev
        /\ q.state = runs[b].state /\ q.digest = runs[b].digest /\ q.sbom = runs[b].sbom
    BY ONLY <2>2, <2>3, <2>5, Zenon DEF RunType
  <2>7. TagsKept
    BY <1>1, Zenon DEF TagsKept
  <2> QED BY <1>1, <2>4, <2>5, <2>6, <2>7, RunStays, Zenon
<1>7. TypeOK'
  <2>1. runs' \in [Runs -> RunType]
    BY <1>5, <1>6, Zenon DEF Start
  <2> QED BY <1>1, <2>1, Zenon DEF PublishInv, TypeOK, RunType, Known
<1>8. TagsOK' /\ CommitPoint' /\ VersionIsOne'
  BY <1>1, Zenon DEF PublishInv, TagsOK, CommitPoint, VersionIsOne, Complete
<1>9. RunOK(runs[a])'
  <2>1. AtOK(runs[a])'
    BY <1>5, Zenon DEF AtOK
  <2>2. \A i \in Items : ~(i < 1)
    BY DEF Items
  <2> QED BY <1>5, <2>1, <2>2 DEF RunOK, PlanOK, Planned, BuildOK, BuiltItem, SBOMOK, Attached,
       SignOK, ItemSigned, SBOMSigned, TagOK, Over, Working, Tagging
<1> QED BY <1>6, <1>7, <1>8, <1>9, Zenon DEF PublishInv

\* A decision is absent exactly when the tag is.
LEMMA Decisions ==
  ASSUME NEW remote, NEW digest, NEW rev
  PROVE  /\ Decide(remote, digest, rev) \in {"absent", "identical", "adopt", "conflict"}
         /\ Decide(remote, digest, rev) = "absent" <=> remote = NoDigest
BY DEF Decide

\* Reading a tag for the plan keeps the invariant.
LEMMA MakePlanKeeps ==
  ASSUME PublishInv, NEW a \in Runs, MakePlan(a)
  PROVE  PublishInv'
<1> DEFINE r == runs[a]
           i == r.at
           st == IF i = Bundle THEN Decide(tags[i], BundleDigest(r.rev), 0)
                               ELSE Decide(tags[i], NoDigest, r.rev)
           state == [r.state EXCEPT ![i] = st]
           d == IF i = Bundle /\ state[i] = "absent" THEN BundleDigest(r.rev) ELSE tags[i]
           q == [r EXCEPT !.state = state, !.digest[i] = d,
                          !.at = IF i = Bundle THEN 1 ELSE i + 1,
                          !.pc = IF i = Bundle THEN "adopt" ELSE "plan"]
<1>1. /\ tags' = tags /\ pushed' = pushed /\ signed' = signed /\ overwritten' = overwritten
      /\ runs[a] \in RunType /\ RunOK(runs[a]) /\ r.pc = "plan" /\ i \in Items
      /\ tags[i] \in pushed \cup {NoDigest}
  BY Zenon DEF PublishInv, TypeOK, RunType, MakePlan
<1>2. CASE i = Bundle /\ \E j \in Items : state[j] = "conflict"
  <2>1. runs' = [runs EXCEPT ![a] = Ended(r, "refused")]
    BY <1>2, Zenon DEF MakePlan
  <2> QED BY <2>1, <1>1, EndKeeps, Zenon DEF Over
<1>3. CASE ~(i = Bundle /\ \E j \in Items : state[j] = "conflict")
  <2>1. runs' = [runs EXCEPT ![a] = q]
    BY <1>3, Zenon DEF MakePlan
  <2>2. st \in {"absent", "identical", "adopt", "conflict"} /\ (st = "absent" <=> tags[i] = NoDigest)
    BY Decisions
  <2>3. state \in [Items -> {"", "absent", "identical", "adopt", "conflict"}]
    BY <1>1, <2>2, Zenon DEF RunType
  <2>4. state[i] = st /\ \A j \in Items : j # i => state[j] = r.state[j]
    BY <1>1, Zenon DEF RunType
  <2>5. d \in Known
    <3>1. r.rev \in Revisions
      BY <1>1 DEF RunOK, AtOK, Over
    <3> QED BY <1>1, <3>1 DEF Known
  <2> HIDE DEF st, d, state
  <2>6. /\ q.pc = (IF i = Bundle THEN "adopt" ELSE "plan")
        /\ q.at = (IF i = Bundle THEN 1 ELSE i + 1)
        /\ q.rev = r.rev /\ q.state = state /\ q.digest = [r.digest EXCEPT ![i] = d]
        /\ q.digest[i] = d /\ \A j \in Items : j # i => q.digest[j] = r.digest[j]
        /\ q \in RunType
    BY <1>1, <2>3, <2>5, ItemNumbers, ZenonT(40) DEF RunType
  <2>7. runs'[a] = q
    BY <2>1 DEF PublishInv, TypeOK
  <2> HIDE DEF q
  <2>8. q.pc \in {"plan", "adopt"}
    BY <2>6
  <2>9. AtOK(runs[a])'
    BY <1>1, <2>6, <2>7 DEF RunOK, AtOK, Over
  <2>10. PlanOK(runs[a])'
    <3> SUFFICES ASSUME NEW j \in Items, Planned(q, j) PROVE Found(q, j)
      BY <1>1, <2>7, ZenonT(40) DEF PlanOK, Planned, Found, Complete
    <3>1. CASE j = i
      <4>1. q.state[j] = st /\ q.digest[j] = d
        BY <2>4, <2>6, <3>1
      <4>2. st # "absent" => d = tags[j] /\ tags[j] # NoDigest
        BY <2>2, <2>4, <3>1 DEF d
      <4>3. st = "absent" /\ j = Bundle => d = BundleDigest(q.rev)
        BY <2>4, <2>6, <3>1 DEF d
      <4>4. tags[j] # NoDigest => tags[j].item = j /\ Complete(tags[j])
        BY Zenon DEF PublishInv, TagsOK
      <4> QED BY <4>1, <4>2, <4>3, <4>4 DEF Found
    <3>2. CASE j # i
      <4>1. Planned(r, j)
        BY <1>1, <2>6, <3>2, ItemNumbers DEF Planned, Items
      <4>2. q.state[j] = r.state[j] /\ q.digest[j] = r.digest[j]
        BY <2>4, <2>6, <3>2
      <4>3. Found(r, j)
        BY <1>1, <4>1, Zenon DEF RunOK, PlanOK
      <4>4. q.rev = r.rev
        BY <2>6, Zenon
      <4> QED BY <4>2, <4>3, <4>4, Zenon DEF Found
    <3> QED BY <3>1, <3>2
  <2>11. (BuildOK(runs[a]) /\ SBOMOK(runs[a]) /\ SignOK(runs[a]) /\ TagOK(runs[a]))'
    BY <2>7, <2>8 DEF BuildOK, BuiltItem, SBOMOK, Attached, SignOK, ItemSigned, SBOMSigned, TagOK,
       Working, Tagging
  <2>12. q \in RunType'
    BY <1>1, <2>6, TypeGrows
  <2> QED BY <1>1, <2>1, <2>9, <2>10, <2>11, <2>12, OneRun, Zenon DEF RunOK
<1> QED BY <1>2, <1>3

\* Refusing what is adopted unsigned, or going on to build, keeps the invariant.
LEMMA AdoptKeeps ==
  ASSUME PublishInv, NEW a \in Runs, AdoptOnlySigned(a)
  PROVE  PublishInv'
<1> DEFINE r == runs[a]
           pc == IF Artifacts = 0 THEN "bundle" ELSE "build"
           q == [r EXCEPT !.pc = pc]
<1>1. /\ tags' = tags /\ pushed' = pushed /\ signed' = signed /\ overwritten' = overwritten
      /\ runs[a] \in RunType /\ RunOK(runs[a]) /\ r.pc = "adopt"
  BY DEF PublishInv, TypeOK, AdoptOnlySigned
<1>2. CASE runs' = [runs EXCEPT ![a] = Ended(r, "refused")]
  BY <1>1, <1>2, EndKeeps, Zenon DEF Over
<1>3. CASE runs' = [runs EXCEPT ![a] = q]
  <2>0. pc \in {"bundle", "build"} /\ (pc = "build" => 1 \in 1 .. Artifacts) /\ (pc = "bundle" => Artifacts = 0)
    BY ItemNumbers
  <2> HIDE DEF pc
  <2>1. /\ q.pc = pc /\ q.at = r.at /\ q.rev = r.rev /\ q.state = r.state
        /\ q.digest = r.digest /\ q.sbom = r.sbom /\ q \in RunType
    BY <1>1, <2>0, Zenon DEF RunType
  <2>2. runs'[a] = q
    BY <1>3 DEF PublishInv, TypeOK
  <2>3. r.at = 1
    BY <1>1, SMTT(30) DEF RunOK, AtOK
  <2> HIDE DEF q
  <2>4. AtOK(runs[a])'
    BY <1>1, <2>0, <2>1, <2>2, <2>3, ItemNumbers, SMTT(30) DEF RunOK, AtOK, Over
  <2>5. PlanOK(runs[a])'
    <3>1. TagsKept /\ \A j \in Items : Planned(r, j)
      BY <1>1 DEF TagsKept, Planned, Over
    <3> QED BY <1>1, <2>1, <2>2, <3>1, PlanKept, Zenon DEF RunOK
  <2> WithSBOM \subseteq 1 .. Artifacts
    BY ItemNumbers
  <2>6. (BuildOK(runs[a]) /\ SBOMOK(runs[a]) /\ SignOK(runs[a]) /\ TagOK(runs[a]))'
    <3>1. CASE pc = "build"
      BY <2>1, <2>2, <2>3, <3>1, ArtifactNumbers, Zenon
      DEF BuildOK, BuiltItem, SBOMOK, Attached, SignOK, ItemSigned, SBOMSigned, TagOK, Working, Tagging
    <3>2. CASE pc = "bundle"
      <4>1. 1 .. Artifacts = {} /\ WithSBOM = {}
        BY <2>0, <3>2
      <4> QED BY <2>1, <2>2, <3>2, <4>1, Zenon
          DEF BuildOK, SBOMOK, SignOK, ItemSigned, SBOMSigned, TagOK, Working, Tagging
    <3> QED BY <2>0, <3>1, <3>2
  <2>7. q \in RunType'
    BY <1>1, <2>1, TypeGrows
  <2>8. RunOK(runs[a])'
    BY <2>4, <2>5, <2>6 DEF RunOK
  <2> QED BY <1>1, <1>3, <2>7, <2>8, OneRun, Zenon
<1> QED BY <1>2, <1>3, Zenon DEF AdoptOnlySigned

\* Building an artifact, or reusing it, keeps the invariant.
LEMMA BuildKeeps ==
  ASSUME PublishInv, NEW a \in Runs, BuildAndPush(a)
  PROVE  PublishInv'
<1> DEFINE r == runs[a]
           i == r.at
<1>1. /\ tags' = tags /\ pushed \subseteq pushed' /\ signed' = signed /\ overwritten' = overwritten
      /\ runs[a] \in RunType /\ RunOK(runs[a]) /\ r.pc = "build"
  BY DEF PublishInv, TypeOK, BuildAndPush
<1>2. i \in 1 .. Artifacts /\ r.rev \in Revisions
  BY <1>1 DEF RunOK, AtOK, Over
<1>3. PICK d \in pushed' :
         /\ d.item = i
         /\ i = Deploy /\ r.state[i] = "absent" => d.uses = Given(r, i)
         /\ r.state[i] # "absent" => d = r.digest[i]
         /\ runs' = [runs EXCEPT ![a] =
              IF i \in WithSBOM THEN [r EXCEPT !.digest[i] = d, !.pc = "sbom"]
                                ELSE Next1([r EXCEPT !.digest[i] = d], i)]
  <2>1. CASE r.state[i] = "absent"
    <3> DEFINE d == Digest(i, r.rev, BuiltBy(a, i), Given(r, i))
    <3>1. d \in pushed' /\ d.item = i /\ d.uses = Given(r, i)
      BY <2>1 DEF BuildAndPush, Digest
    <3>2. runs' = [runs EXCEPT ![a] =
              IF i \in WithSBOM THEN [r EXCEPT !.digest[i] = d, !.pc = "sbom"]
                                ELSE Next1([r EXCEPT !.digest[i] = d], i)]
      BY <2>1 DEF BuildAndPush
    <3> QED BY <2>1, <3>1, <3>2, Zenon
  <2>2. CASE r.state[i] # "absent"
    <3>1. Planned(r, i) /\ i \in Items
      BY <1>1, <1>2, ItemNumbers DEF Planned, Over
    <3>2. r.digest[i].item = i /\ r.digest[i] \in pushed
      BY <1>1, <2>2, <3>1 DEF RunOK, PlanOK, Found, Complete
    <3>3. runs' = [runs EXCEPT ![a] =
              IF i \in WithSBOM THEN [r EXCEPT !.digest[i] = r.digest[i], !.pc = "sbom"]
                                ELSE Next1([r EXCEPT !.digest[i] = r.digest[i]], i)]
      BY <2>2 DEF BuildAndPush
    <3> QED BY <1>1, <2>2, <3>2, <3>3, Zenon
  <2> QED BY <2>1, <2>2, Zenon
<1>4. PICK q : runs' = [runs EXCEPT ![a] = q] /\
         q = IF i \in WithSBOM THEN [r EXCEPT !.digest[i] = d, !.pc = "sbom"]
                               ELSE Next1([r EXCEPT !.digest[i] = d], i)
  BY <1>3, Zenon
<1>5. r \in RunType' /\ d \in Known'
  BY <1>1, <1>3, TypeGrows DEF Known
<1>6. /\ q \in RunType' /\ q.rev = r.rev /\ q.state = r.state /\ q.sbom = r.sbom
      /\ q.digest = [r.digest EXCEPT ![i] = d]
      /\ \/ i \in WithSBOM /\ q.pc = "sbom" /\ q.at = i
         \/ i \notin WithSBOM /\ i # Artifacts /\ q.pc = "build" /\ q.at = i + 1
         \/ i \notin WithSBOM /\ i = Artifacts /\ q.pc = "bundle" /\ q.at = 1
  <2> DEFINE m == [r EXCEPT !.digest[i] = d]
  <2>1. /\ m \in RunType' /\ m.rev = r.rev /\ m.state = r.state /\ m.sbom = r.sbom
        /\ m.digest = [r.digest EXCEPT ![i] = d]
    BY <1>2, <1>5, ItemNumbers, Zenon DEF RunType
  <2>2. CASE i \in WithSBOM
    <3>1. q = [m EXCEPT !.pc = "sbom"]
      BY <1>1, <1>4, <2>2, Zenon DEF RunType
    <3>2. m.at = i
      BY <1>1, Zenon DEF RunType
    <3> HIDE DEF m
    <3> QED BY <2>1, <2>2, <3>1, <3>2, Zenon DEF RunType
  <2>3. CASE i \notin WithSBOM
    <3>1. q = Next1(m, i)
      BY <1>4, <2>3
    <3> HIDE DEF m
    <3>2. /\ q \in RunType' /\ q.rev = m.rev /\ q.state = m.state /\ q.sbom = m.sbom /\ q.digest = m.digest
          /\ \/ i # Artifacts /\ q.pc = "build" /\ q.at = i + 1
             \/ i = Artifacts /\ q.pc = "bundle" /\ q.at = 1
      <4>1. CASE i = Artifacts
        <5>1. q = [m EXCEPT !.at = 1, !.pc = "bundle"]
          BY <3>1, <4>1 DEF Next1
        <5>2. 1 \in Items
          BY ItemNumbers
        <5> QED BY <2>1, <4>1, <5>1, <5>2, Zenon DEF RunType
      <4>2. CASE i # Artifacts
        <5>1. q = [m EXCEPT !.at = i + 1, !.pc = "build"]
          BY <3>1, <4>2 DEF Next1
        <5>2. i + 1 \in Items
          BY <1>2, <4>2, ArtifactNumbers
        <5> QED BY <2>1, <4>2, <5>1, <5>2, Zenon DEF RunType
      <4> QED BY <4>1, <4>2
    <3> QED BY <2>1, <2>3, <3>2
  <2> QED BY <2>2, <2>3
<1>7. runs'[a] = q
  BY <1>4 DEF PublishInv, TypeOK
<1>8. q.digest[i] = d /\ \A j \in Items : j # i => q.digest[j] = r.digest[j]
  <2>1. r.digest \in [Items -> Known] /\ i \in Items
    BY <1>1, <1>2, ArtifactNumbers, Zenon DEF RunType
  <2> QED BY <1>6, <2>1
<1>9. AtOK(runs[a])'
  BY <1>2, <1>6, <1>7, ArtifactNumbers, SMTT(30) DEF AtOK
<1>10. PlanOK(runs[a])'
  <2>1. TagsKept
    BY <1>1 DEF TagsKept
  <2>2. \A j \in Items : Planned(r, j)
    BY <1>1 DEF Planned, Over
  <2>3. \A j \in Items : q.state[j] # "absent" \/ j = Bundle => q.digest[j] = r.digest[j]
    BY <1>2, <1>3, <1>6, <1>8, ItemNumbers
  <2>4. q.rev = r.rev /\ q.state = r.state /\ PlanOK(r)
    BY <1>1, <1>6 DEF RunOK
  <2> QED BY <1>1, <1>7, <2>1, <2>2, <2>3, <2>4, PlanKept, Zenon
<1>11. BuildOK(runs[a])'
  <2> SUFFICES ASSUME NEW j \in 1 .. Artifacts, BuiltItem(q, j)
               PROVE  /\ q.digest[j].item = j
                      /\ q.digest[j] \in pushed'
                      /\ j = Deploy /\ q.state[j] = "absent" => q.digest[j].uses = Given(q, j)
    BY <1>7 DEF BuildOK, BuiltItem, Given
  <2>1. j <= i
    BY <1>2, <1>6 DEF BuiltItem, Working, Tagging
  <2>2. Given(q, j) = Given(r, j)
    <3>1. \A k \in 1 .. j - 1 : q.digest[k] = r.digest[k]
      <4> TAKE k \in 1 .. j - 1
      <4>1. k \in 1 .. Artifacts /\ k # i
        BY <1>2, <2>1, ItemsAssumption
      <4> QED BY <4>1, <1>8, ArtifactNumbers
    <3>2. q.digest[Bundle] = r.digest[Bundle]
      BY <1>2, <1>8, ArtifactNumbers, ItemNumbers, Zenon
    <3> QED BY <3>1, <3>2 DEF Given
  <2>3. CASE j = i
    BY <1>3, <1>6, <1>8, <2>2, <2>3, SMTT(30)
  <2>4. CASE j # i
    <3>1. BuiltItem(r, j)
      BY <1>1, <1>2, <2>1, <2>4 DEF BuiltItem
    <3>2. q.digest[j] = r.digest[j] /\ j \in Items
      BY <1>8, <2>4, ArtifactNumbers, SMTT(30)
    <3> QED BY <1>1, <1>6, <2>2, <3>1, <3>2, Zenon DEF RunOK, BuildOK
  <2> QED BY <2>3, <2>4
<1>12. SBOMOK(runs[a])'
  <2> SUFFICES ASSUME NEW j \in WithSBOM, Attached(q, j)
               PROVE  \E s \in q.sbom[j] : s.item = 0 /\ s.uses = {q.digest[j]}
    BY <1>7 DEF SBOMOK, Attached
  <2>0. j \in 1 .. Artifacts
    BY ItemNumbers
  <2>1. j < i
    BY <1>2, <1>6, <2>0, SMTT(30) DEF Attached, Working, Tagging
  <2>2. Attached(r, j)
    BY <1>1, <2>1 DEF Attached
  <2>3. q.digest[j] = r.digest[j]
    BY <1>2, <1>8, <2>0, <2>1, ArtifactNumbers
  <2> QED BY <1>1, <1>6, <2>2, <2>3 DEF RunOK, SBOMOK
<1>13. (SignOK(runs[a]) /\ TagOK(runs[a]))'
  BY <1>6, <1>7 DEF SignOK, ItemSigned, SBOMSigned, TagOK, Working, Tagging
<1>14. RunOK(runs[a])'
  BY <1>9, <1>10, <1>11, <1>12, <1>13 DEF RunOK
<1> QED BY <1>1, <1>4, <1>6, <1>14, OneRun, Zenon

\* Attaching an SBOM, or finding a signed one, keeps the invariant.
LEMMA AttachKeeps ==
  ASSUME PublishInv, NEW a \in Runs, AttachSBOM(a)
  PROVE  PublishInv'
<1> DEFINE r == runs[a]
           i == r.at
<1>1. /\ tags' = tags /\ pushed \subseteq pushed' /\ signed' = signed /\ overwritten' = overwritten
      /\ runs[a] \in RunType /\ RunOK(runs[a]) /\ r.pc = "sbom"
  BY DEF PublishInv, TypeOK, AttachSBOM
<1>2. i \in 1 .. Artifacts /\ i \in WithSBOM /\ r.rev \in Revisions
  BY <1>1 DEF RunOK, AtOK, Over
<1>3. PICK s \in pushed' :
         /\ s.item = 0 /\ s.uses = {r.digest[i]}
         /\ runs' = [runs EXCEPT ![a] = Next1([r EXCEPT !.sbom[i] = {s}], i)]
  <2> DEFINE have == {s \in pushed \cap signed : s.item = 0 /\ s.uses = {r.digest[i]}}
  <2>1. CASE \E s \in have : runs' = [runs EXCEPT ![a] = Next1([r EXCEPT !.sbom[i] = {s}], i)]
    BY <1>1, <2>1, Zenon
  <2>2. CASE LET s == Digest(0, r.rev, BuiltBy(a, 0), {r.digest[i]}) IN
               /\ pushed' = pushed \cup {s}
               /\ runs' = [runs EXCEPT ![a] = Next1([r EXCEPT !.sbom[i] = {s}], i)]
    BY <2>2, Zenon DEF Digest
  <2> QED BY <2>1, <2>2, Zenon DEF AttachSBOM
<1>4. PICK m : m = [r EXCEPT !.sbom[i] = {s}]
  BY Zenon
<1>5. PICK q : q = Next1(m, i) /\ runs' = [runs EXCEPT ![a] = q]
  BY <1>3, <1>4, Zenon
<1>6. /\ m \in RunType' /\ m.rev = r.rev /\ m.state = r.state /\ m.digest = r.digest
      /\ m.sbom = [r.sbom EXCEPT ![i] = {s}]
  <2>1. r \in RunType'
    BY <1>1, TypeGrows
  <2>2. PICK w : w = [r.sbom EXCEPT ![i] = {s}]
    BY Zenon
  <2>3. w \in [1 .. Artifacts -> SUBSET pushed']
    BY <1>2, <2>1, <2>2, Zenon DEF RunType
  <2>4. m = [r EXCEPT !.sbom = w]
    BY <1>4, <2>2
  <2> QED BY <2>1, <2>2, <2>3, <2>4, Zenon DEF RunType
<1>7. /\ q \in RunType' /\ q.rev = m.rev /\ q.state = m.state /\ q.sbom = m.sbom /\ q.digest = m.digest
      /\ \/ i # Artifacts /\ q.pc = "build" /\ q.at = i + 1
         \/ i = Artifacts /\ q.pc = "bundle" /\ q.at = 1
  <2>1. CASE i = Artifacts
    <3>1. q = [m EXCEPT !.at = 1, !.pc = "bundle"]
      BY <1>5, <2>1 DEF Next1
    <3>2. 1 \in Items
      BY ItemNumbers
    <3> QED BY <1>6, <2>1, <3>1, <3>2, Zenon DEF RunType
  <2>2. CASE i # Artifacts
    <3>1. q = [m EXCEPT !.at = i + 1, !.pc = "build"]
      BY <1>5, <2>2 DEF Next1
    <3>2. i + 1 \in Items
      BY <1>2, <2>2, ArtifactNumbers
    <3> QED BY <1>6, <2>2, <3>1, <3>2, Zenon DEF RunType
  <2> QED BY <2>1, <2>2
<1>8. runs'[a] = q /\ q.digest = r.digest /\ q.state = r.state /\ q.rev = r.rev
  BY <1>5, <1>6, <1>7 DEF PublishInv, TypeOK
<1>9. q.sbom[i] = {s} /\ \A j \in WithSBOM : j # i => q.sbom[j] = r.sbom[j]
  <2>1. r.sbom \in [1 .. Artifacts -> SUBSET pushed] /\ WithSBOM \subseteq 1 .. Artifacts
    BY <1>1, ItemNumbers, Zenon DEF RunType
  <2> QED BY <1>2, <1>6, <1>7, <2>1, Zenon
<1>10. AtOK(runs[a])'
  BY <1>2, <1>7, <1>8, ArtifactNumbers, SMTT(30) DEF AtOK
<1>11. PlanOK(runs[a])'
  <2>1. TagsKept /\ \A j \in Items : Planned(r, j)
    BY <1>1 DEF TagsKept, Planned, Over
  <2> QED BY <1>1, <1>8, <2>1, PlanKept, Zenon DEF RunOK
<1>12. BuildOK(runs[a])'
  <2>1. \A j \in 1 .. Artifacts : BuiltItem(q, j) => BuiltItem(r, j)
    BY <1>1, <1>2, <1>7 DEF BuiltItem, Working, Tagging
  <2> QED BY <1>1, <1>8, <2>1, BuildKept, Zenon DEF RunOK
<1>13. SBOMOK(runs[a])'
  <2> SUFFICES ASSUME NEW j \in WithSBOM, Attached(q, j)
               PROVE  \E t \in q.sbom[j] : t.item = 0 /\ t.uses = {q.digest[j]}
    BY <1>8 DEF SBOMOK, Attached
  <2>1. CASE j = i
    BY <1>3, <1>8, <1>9, <2>1, SMTT(30)
  <2>2. CASE j # i
    <3>0. j \in 1 .. Artifacts
      BY ItemNumbers
    <3>1. Attached(r, j)
      BY <1>1, <1>2, <1>7, <2>2, <3>0, SMTT(30) DEF Attached, Working, Tagging
    <3> QED BY <1>1, <1>8, <1>9, <2>2, <3>1 DEF RunOK, SBOMOK
  <2> QED BY <2>1, <2>2
<1>14. (SignOK(runs[a]) /\ TagOK(runs[a]))'
  BY <1>7, <1>8 DEF SignOK, ItemSigned, SBOMSigned, TagOK, Working, Tagging
<1>15. RunOK(runs[a])'
  BY <1>10, <1>11, <1>12, <1>13, <1>14 DEF RunOK
<1> QED BY <1>1, <1>5, <1>7, <1>15, OneRun, Zenon

\* What a run that has built everything holds, it holds wherever it goes next.
LEMMA Onward ==
  ASSUME PublishInv, NEW a \in Runs, NEW q, runs[a].pc \in Working,
         runs' = [runs EXCEPT ![a] = q], q \in RunType', q.pc \in Working \ {"bundle"},
         q.rev = runs[a].rev, q.state = runs[a].state, q.digest = runs[a].digest, q.sbom = runs[a].sbom,
         pushed \subseteq pushed', signed \subseteq signed', tags' = tags, overwritten' = overwritten,
         (AtOK(runs[a]) /\ SignOK(runs[a]) /\ TagOK(runs[a]))'
  PROVE  PublishInv'
<1> DEFINE r == runs[a]
<1>1. RunOK(r) /\ runs'[a] = q
  BY SMTT(30) DEF PublishInv, TypeOK
<1>2. PlanOK(runs[a])'
  <2>1. TagsKept /\ \A j \in Items : Planned(r, j)
    BY DEF TagsKept, Planned, Over, Working, Tagging
  <2> QED BY <1>1, <2>1, PlanKept, Zenon DEF RunOK
<1>3. BuildOK(runs[a])'
  <2>1. \A j \in 1 .. Artifacts : BuiltItem(r, j)
    BY DEF BuiltItem
  <2> QED BY <1>1, <2>1, BuildKept, Zenon DEF RunOK
<1>4. SBOMOK(runs[a])'
  BY <1>1 DEF RunOK, SBOMOK, Attached
<1>5. RunOK(runs[a])'
  BY <1>2, <1>3, <1>4 DEF RunOK
<1> QED BY <1>5, OneRun, Zenon

\* Pushing the bundle keeps the invariant.
LEMMA BundleKeeps ==
  ASSUME PublishInv, NEW a \in Runs, PushBundle(a)
  PROVE  PublishInv'
<1> DEFINE r == runs[a]
<1>1. /\ tags' = tags /\ pushed \subseteq pushed' /\ signed' = signed /\ overwritten' = overwritten
      /\ runs[a] \in RunType /\ RunOK(runs[a]) /\ r.pc = "bundle"
      /\ r.state[Bundle] = "absent" => r.digest[Bundle] \in pushed'
  BY DEF PublishInv, TypeOK, PushBundle
<1>2. PICK q : q = [r EXCEPT !.pc = "sign"] /\ runs' = [runs EXCEPT ![a] = q]
  BY Zenon DEF PushBundle
<1>3. /\ q.pc = "sign" /\ q.at = r.at /\ q.rev = r.rev /\ q.state = r.state
      /\ q.digest = r.digest /\ q.sbom = r.sbom /\ q \in RunType
  BY <1>1, <1>2, Zenon DEF RunType
<1>4. runs'[a] = q /\ q \in RunType'
  BY <1>1, <1>2, <1>3, TypeGrows, SMTT(30) DEF PublishInv, TypeOK
<1>5. r.at = 1 /\ r.rev \in Revisions
  BY <1>1 DEF RunOK, AtOK, Over
<1>6. q.digest[Bundle].item = Bundle /\ q.digest[Bundle] \in pushed'
  <2>1. Planned(r, Bundle) /\ Bundle \in Items
    BY <1>1, ItemNumbers DEF Planned, Over
  <2>2. CASE r.state[Bundle] = "absent"
    <3>1. r.digest[Bundle] = BundleDigest(r.rev)
      BY <1>1, <2>1, <2>2, Zenon DEF RunOK, PlanOK, Found
    <3>2. BundleDigest(r.rev).item = Bundle
      BY DEF BundleDigest, Digest
    <3>3. BundleDigest(r.rev) \in pushed'
      BY <1>1, <2>2, <3>1, Zenon
    <3> QED BY <1>3, <3>1, <3>2, <3>3, Zenon
  <2>3. CASE r.state[Bundle] # "absent"
    BY <1>1, <1>3, <2>1, <2>3, Zenon DEF RunOK, PlanOK, Found, Complete
  <2> QED BY <2>2, <2>3
<1>7. (AtOK(runs[a]) /\ TagOK(runs[a]))'
  BY <1>3, <1>4, <1>5 DEF AtOK, TagOK, Tagging
<1>8. SignOK(runs[a])'
  <2>1. \A j \in Items : ~(j < 1)
    BY ItemNumbers DEF Items
  <2>2. WithSBOM \subseteq Items
    BY ItemNumbers
  <2> QED BY <1>3, <1>4, <1>5, <1>6, <2>1, <2>2 DEF SignOK, ItemSigned, SBOMSigned, Tagging
<1> QED BY <1>1, <1>2, <1>3, <1>4, <1>7, <1>8, Onward, Zenon DEF Working

\* After item i the next one is signed, or the tags begin.
LEMMA NextSigned ==
  ASSUME NEW r \in RunType, NEW i \in Items, r.at = i
  PROVE  /\ Signed(r, i) \in RunType
         /\ Signed(r, i).rev = r.rev /\ Signed(r, i).state = r.state
         /\ Signed(r, i).digest = r.digest /\ Signed(r, i).sbom = r.sbom
         /\ \/ i # Bundle /\ Signed(r, i).pc = "sign" /\ Signed(r, i).at = i + 1
            \/ i = Bundle /\ Signed(r, i).pc = "tag" /\ Signed(r, i).at = 1
<1>1. CASE i = Bundle
  <2>1. Signed(r, i) = [r EXCEPT !.at = 1, !.pc = "tag"]
    BY <1>1 DEF Signed
  <2>2. 1 \in Items
    BY ItemNumbers
  <2> QED BY <1>1, <2>1, <2>2, Zenon DEF RunType
<1>2. CASE i # Bundle
  <2>1. Signed(r, i) = [r EXCEPT !.at = i + 1, !.pc = "sign"]
    BY <1>2 DEF Signed
  <2>2. i + 1 \in Items
    BY <1>2, ItemNumbers
  <2> QED BY <1>2, <2>1, <2>2, Zenon DEF RunType
<1> QED BY <1>1, <1>2

\* Signing an item, or its SBOM, keeps the invariant.
LEMMA SignKeeps ==
  ASSUME PublishInv, NEW a \in Runs, SignItem(a) \/ SignSBOM(a)
  PROVE  PublishInv'
<1> DEFINE r == runs[a]
           i == r.at
<1>1. /\ tags' = tags /\ pushed' = pushed /\ signed \subseteq signed' /\ overwritten' = overwritten
      /\ runs[a] \in RunType /\ RunOK(runs[a]) /\ r.pc \in {"sign", "signSBOM"} /\ i \in Items
  BY Zenon DEF PublishInv, TypeOK, SignItem, SignSBOM, RunType
<1>2. /\ r.pc = "sign" => r.digest[i] \in signed'
      /\ r.pc = "signSBOM" => r.sbom[i] \subseteq signed' /\ i \in WithSBOM
  BY <1>1 DEF SignItem, SignSBOM, RunOK, AtOK
<1>3. PICK q :
        /\ runs' = [runs EXCEPT ![a] = q]
        /\ \/ r.pc = "sign" /\ i \in WithSBOM /\ q = [r EXCEPT !.pc = "signSBOM"]
           \/ (r.pc = "sign" => i \notin WithSBOM) /\ q = Signed(r, i)
  <2>1. CASE SignItem(a) BY <2>1, Zenon DEF SignItem
  <2>2. CASE SignSBOM(a)
    <3>1. runs' = [runs EXCEPT ![a] = Signed(r, i)] /\ r.pc = "signSBOM"
      BY <2>2 DEF SignSBOM
    <3> QED BY <3>1, Zenon
  <2> QED BY <2>1, <2>2
<1>4. /\ q \in RunType /\ q.rev = r.rev /\ q.state = r.state /\ q.digest = r.digest /\ q.sbom = r.sbom
      /\ \/ r.pc = "sign" /\ i \in WithSBOM /\ q.pc = "signSBOM" /\ q.at = i
         \/ (r.pc = "sign" => i \notin WithSBOM) /\ i # Bundle /\ q.pc = "sign" /\ q.at = i + 1
         \/ (r.pc = "sign" => i \notin WithSBOM) /\ i = Bundle /\ q.pc = "tag" /\ q.at = 1
  <2>1. CASE r.pc = "sign" /\ i \in WithSBOM /\ q = [r EXCEPT !.pc = "signSBOM"]
    BY <1>1, <2>1, Zenon DEF RunType
  <2>2. CASE (r.pc = "sign" => i \notin WithSBOM) /\ q = Signed(r, i)
    BY <1>1, <2>2, NextSigned, Zenon
  <2> QED BY <1>3, <2>1, <2>2
<1>5. runs'[a] = q /\ q \in RunType'
  BY <1>1, <1>3, <1>4, TypeGrows, SMTT(30) DEF PublishInv, TypeOK
<1>6. r.rev \in Revisions /\ q.pc \in {"sign", "signSBOM", "tag"}
  <2>1. r.pc \notin Over
    BY <1>1, SMT DEF Over
  <2>2. r.rev \in Revisions
    BY <1>1, <2>1, Zenon DEF RunOK, AtOK
  <2>3. q.pc \in {"sign", "signSBOM", "tag"}
    BY <1>4, Zenon
  <2> QED BY <2>2, <2>3
<1>7. AtOK(runs[a])'
  BY <1>4, <1>5, <1>6 DEF AtOK
<1>8. TagOK(runs[a])'
  <2>1. q.pc \in Tagging => q.at = 1
    BY <1>4, SMTT(30) DEF Tagging
  <2> QED BY <1>5, <2>1 DEF TagOK
<1>9. SignOK(runs[a])'
  <2>1. q.digest[Bundle].item = Bundle /\ q.digest[Bundle] \in pushed
    BY <1>1, <1>4, Zenon DEF RunOK, SignOK, Working
  <2>2. ASSUME NEW j \in Items, ItemSigned(q, j) PROVE q.digest[j] \in signed'
    <3>1. j = i \/ ItemSigned(r, j)
      <4>1. i \in Nat /\ j \in Nat /\ i <= Bundle /\ j <= Bundle /\ Bundle \in Nat
        BY <1>1, ItemNumbers DEF Items
      <4>2. CASE r.pc = "sign" /\ i \in WithSBOM /\ q.pc = "signSBOM" /\ q.at = i
        BY <2>2, <4>1, <4>2 DEF ItemSigned, Tagging
      <4>3. CASE (r.pc = "sign" => i \notin WithSBOM) /\ i # Bundle /\ q.pc = "sign" /\ q.at = i + 1
        BY <1>1, <2>2, <4>1, <4>3 DEF ItemSigned, Tagging
      <4>4. CASE (r.pc = "sign" => i \notin WithSBOM) /\ i = Bundle /\ q.pc = "tag" /\ q.at = 1
        BY <1>1, <2>2, <4>1, <4>4 DEF ItemSigned, Tagging
      <4> QED BY <1>4, <4>2, <4>3, <4>4, SMTT(30)
    <3>2. r.pc = "signSBOM" => ItemSigned(r, i)
      <4>1. i \in Nat /\ i <= i
        BY <1>1, ItemNumbers, SMTT(30)
      <4> QED BY <4>1 DEF ItemSigned
    <3>3. CASE j = i /\ r.pc = "sign"
      BY <1>2, <1>4, <3>3
    <3>4. CASE ItemSigned(r, j)
      BY <1>1, <1>4, <3>4, Zenon DEF RunOK, SignOK
    <3> QED BY <1>1, <3>1, <3>2, <3>3, <3>4, SMTT(30)
  <2>3. ASSUME NEW j \in WithSBOM, SBOMSigned(q, j) PROVE q.sbom[j] \subseteq signed'
    <3>0. j \in 1 .. Artifacts /\ j # Bundle /\ j \in Items
      BY ItemNumbers, SMTT(30)
    <3>1. (j = i /\ r.pc = "signSBOM") \/ SBOMSigned(r, j)
      <4>1. i \in Nat /\ j \in Nat /\ i <= Bundle /\ j <= Bundle /\ Bundle \in Nat
        BY <1>1, <3>0, ItemNumbers, SMTT(30) DEF Items
      <4>2. CASE r.pc = "sign" /\ i \in WithSBOM /\ q.pc = "signSBOM" /\ q.at = i
        BY <2>3, <3>0, <4>1, <4>2 DEF SBOMSigned, Tagging
      <4>3. CASE (r.pc = "sign" => i \notin WithSBOM) /\ i # Bundle /\ q.pc = "sign" /\ q.at = i + 1
        BY <1>1, <2>3, <3>0, <4>1, <4>3 DEF SBOMSigned, Tagging
      <4>4. CASE (r.pc = "sign" => i \notin WithSBOM) /\ i = Bundle /\ q.pc = "tag" /\ q.at = 1
        BY <1>1, <2>3, <3>0, <4>1, <4>4, SMTT(30) DEF SBOMSigned, Tagging
      <4> QED BY <1>4, <4>2, <4>3, <4>4, SMTT(30)
    <3>2. CASE j = i /\ r.pc = "signSBOM"
      BY <1>2, <1>4, <3>2
    <3>3. CASE SBOMSigned(r, j)
      BY <1>1, <1>4, <3>3, Zenon DEF RunOK, SignOK
    <3> QED BY <3>1, <3>2, <3>3
  <2> QED BY <1>1, <1>5, <2>1, <2>2, <2>3 DEF SignOK, ItemSigned, SBOMSigned
<1> QED BY <1>1, <1>3, <1>4, <1>5, <1>6, <1>7, <1>8, <1>9, Onward, Zenon DEF Working, Tagging

-----------------------------------------------------------------------------
(* The tags. *)

\* After the n-th tag the run is at the next one, or over.
LEMMA NextTag ==
  ASSUME NEW r \in RunType, NEW n \in Items, r.at = n
  PROVE  \/ n = Bundle /\ Tagged(r, n) = Ended(r, "done")
         \/ /\ n # Bundle /\ Tagged(r, n) \in RunType
            /\ Tagged(r, n).pc = "tag" /\ Tagged(r, n).at = n + 1
            /\ Tagged(r, n).rev = r.rev /\ Tagged(r, n).state = r.state
            /\ Tagged(r, n).digest = r.digest /\ Tagged(r, n).sbom = r.sbom
<1>1. CASE n = Bundle
  BY <1>1 DEF Tagged
<1>2. CASE n # Bundle
  <2>1. Tagged(r, n) = [r EXCEPT !.at = n + 1, !.pc = "tag"]
    BY <1>2 DEF Tagged
  <2>2. n + 1 \in Items
    BY <1>2, ItemNumbers
  <2> QED BY <1>2, <2>1, <2>2, Zenon DEF RunType
<1> QED BY <1>1, <1>2

\* Going on from a tag that is written keeps what the run holds.
LEMMA TaggedOK ==
  ASSUME PublishInv, NEW a \in Runs, runs[a].pc \in Tagging, NEW q, q.pc = "tag", q.at = runs[a].at + 1,
         q.rev = runs[a].rev, q.state = runs[a].state, q.digest = runs[a].digest, q.sbom = runs[a].sbom,
         runs'[a] = q, pushed' = pushed, signed' = signed,
         TagsKept, tags'[TagItem(runs[a].at)] # NoDigest,
         ~overwritten' => tags'[TagItem(runs[a].at)] = runs[a].digest[TagItem(runs[a].at)]
  PROVE  RunOK(runs[a])'
<1> DEFINE r == runs[a]
<1>1. RunOK(r) /\ r.at \in Items /\ r.rev \in Revisions
  BY Zenon DEF PublishInv, TypeOK, RunType, RunOK, AtOK, Over, Tagging
<1>2. AtOK(runs[a])'
  BY <1>1, Zenon DEF AtOK
<1>3. PlanOK(runs[a])'
  <2>1. \A j \in Items : Planned(r, j)
    BY DEF Planned, Over, Tagging
  <2> QED BY <1>1, <2>1, PlanKept, Zenon DEF RunOK
<1>4. BuildOK(runs[a])'
  <2>1. \A j \in 1 .. Artifacts : BuiltItem(r, j)
    BY DEF BuiltItem, Working
  <2> QED BY <1>1, <2>1, BuildKept, Zenon DEF RunOK
<1>5. SBOMOK(runs[a])'
  BY <1>1, ZenonT(40) DEF RunOK, SBOMOK, Attached, Working
<1>6. SignOK(runs[a])'
  BY <1>1, Zenon DEF RunOK, SignOK, ItemSigned, SBOMSigned, Working, Tagging
<1>7. TagOK(runs[a])'
  <2> SUFFICES ASSUME NEW n \in 1 .. q.at - 1
               PROVE  /\ tags'[TagItem(n)] # NoDigest
                      /\ ~overwritten' => tags'[TagItem(n)] = q.digest[TagItem(n)]
    BY SMTT(30) DEF TagOK
  <2>1. n = r.at \/ n \in 1 .. r.at - 1
    BY <1>1, ItemNumbers, SMTT(30) DEF Items
  <2>2. CASE n \in 1 .. r.at - 1
    <3>1. tags[TagItem(n)] # NoDigest /\ (~overwritten => tags[TagItem(n)] = r.digest[TagItem(n)])
      BY <1>1, <2>2, Zenon DEF RunOK, TagOK
    <3>2. TagItem(n) \in Items
      <4>1. n \in Items
        BY <1>1, <2>2, ItemNumbers DEF Items
      <4> QED BY <4>1, ItemNumbers, SMTT(30)
    <3> QED BY <3>1, <3>2 DEF TagsKept
  <2> QED BY <2>1, <2>2, Zenon
<1> QED BY <1>2, <1>3, <1>4, <1>5, <1>6, <1>7, Zenon DEF RunOK

\* Reading a tag before it is written keeps the invariant.
LEMMA ReadTagKeeps ==
  ASSUME PublishInv, NEW a \in Runs, ReadTag(a)
  PROVE  PublishInv'
<1>0. PICK r, i : r = runs[a] /\ i = TagItem(r.at)
  BY Zenon
<1>1. /\ tags' = tags /\ pushed' = pushed /\ signed' = signed /\ overwritten' = overwritten
      /\ r \in RunType /\ RunOK(r) /\ r.pc = "tag" /\ r.at \in Items
  BY <1>0, Zenon DEF PublishInv, TypeOK, ReadTag, RunType
<1>2. i \in Items /\ Planned(r, i)
  BY <1>0, <1>1, ItemNumbers DEF Planned, Over
<1>3. CASE runs' = [runs EXCEPT ![a] = Tagged(r, r.at)] /\ (r.state[i] # "absent" \/ tags[i] = r.digest[i])
  <2>1. tags[i] # NoDigest /\ (~overwritten => tags[i] = r.digest[i])
    <3>1. CASE r.state[i] # "absent"
      BY <1>1, <1>2, <3>1, Zenon DEF RunOK, PlanOK, Found
    <3>2. CASE tags[i] = r.digest[i]
      <4>1. r.digest[i].item = i
        BY <1>0, <1>1, <1>2, RunComplete, Zenon DEF PublishInv, Tagging
      <4> QED BY <1>2, <3>2, <4>1, SomeDigest
    <3> QED BY <1>3, <3>1, <3>2
  <2>2. CASE r.at = Bundle
    <3>1. runs' = [runs EXCEPT ![a] = Ended(r, "done")]
      BY <1>3, <2>2 DEF Tagged
    <3> QED BY <1>0, <1>1, <3>1, EndKeeps, Zenon DEF Over
  <2>3. CASE r.at # Bundle
    <3>1. PICK q : q = Tagged(r, r.at)
      BY Zenon
    <3>2. /\ q \in RunType /\ q.pc = "tag" /\ q.at = r.at + 1 /\ q.rev = r.rev /\ q.state = r.state
          /\ q.digest = r.digest /\ q.sbom = r.sbom
      BY <1>1, <2>3, <3>1, NextTag
    <3>3. runs' = [runs EXCEPT ![a] = q] /\ runs'[a] = q /\ q \in RunType'
      BY <1>1, <1>3, <3>1, <3>2, TypeGrows DEF PublishInv, TypeOK
    <3>4. TagsKept
      BY <1>1 DEF TagsKept
    <3>5. RunOK(runs[a])'
      <4>1. /\ runs[a].pc \in Tagging /\ q.at = runs[a].at + 1 /\ q.rev = runs[a].rev
            /\ q.state = runs[a].state /\ q.digest = runs[a].digest /\ q.sbom = runs[a].sbom
        BY <1>0, <1>1, <3>2 DEF Tagging
      <4>2. /\ tags'[TagItem(runs[a].at)] # NoDigest
            /\ ~overwritten' => tags'[TagItem(runs[a].at)] = runs[a].digest[TagItem(runs[a].at)]
        BY <1>0, <1>1, <2>1
      <4> QED BY <1>1, <3>2, <3>3, <3>4, <4>1, <4>2, TaggedOK, Zenon
    <3> QED BY <1>1, <3>3, <3>5, OneRun, Zenon
  <2> QED BY <2>2, <2>3
<1>4. CASE runs' = [runs EXCEPT ![a] = [r EXCEPT !.pc = "write"]] /\ r.state[i] = "absent"
  <2>1. PICK q : q = [r EXCEPT !.pc = "write"]
    BY Zenon
  <2>2. /\ q \in RunType /\ q.pc = "write" /\ q.at = r.at /\ q.rev = r.rev /\ q.state = r.state
        /\ q.digest = r.digest /\ q.sbom = r.sbom
    BY <1>1, <2>1, Zenon DEF RunType
  <2>3. runs' = [runs EXCEPT ![a] = q] /\ runs'[a] = q /\ q \in RunType'
    BY <1>1, <1>4, <2>1, <2>2, TypeGrows DEF PublishInv, TypeOK
  <2>4. AtOK(runs[a])'
    BY <1>0, <1>1, <1>4, <2>2, <2>3 DEF RunOK, AtOK, Over
  <2>5. SignOK(runs[a])'
    <3>1. /\ r.digest[Bundle].item = Bundle /\ r.digest[Bundle] \in pushed
          /\ \A j \in Items : r.digest[j] \in signed
          /\ \A j \in WithSBOM : r.sbom[j] \subseteq signed
      BY <1>1 DEF RunOK, SignOK, ItemSigned, SBOMSigned, Working, Tagging
    <3> QED BY <1>1, <2>2, <2>3, <3>1 DEF SignOK
  <2>6. TagOK(runs[a])'
    BY <1>1, <2>2, <2>3, Zenon DEF RunOK, TagOK, Tagging
  <2>7. /\ runs[a].pc \in Working /\ q.pc \in Working \ {"bundle"} /\ q.rev = runs[a].rev
        /\ q.state = runs[a].state /\ q.digest = runs[a].digest /\ q.sbom = runs[a].sbom
    BY <1>0, <1>1, <2>2 DEF Working, Tagging
  <2> QED BY <1>1, <2>3, <2>4, <2>5, <2>6, <2>7, Onward, Zenon
<1>5. CASE runs' = [runs EXCEPT ![a] = Ended(r, "refused")]
  BY <1>0, <1>1, <1>5, EndKeeps, Zenon DEF Over
<1> QED BY <1>0, <1>3, <1>4, <1>5, Zenon DEF ReadTag

\* The positions of the artifacts before the deploy artifact, of the bundle
\* and of the deploy artifact among the tags.
LEMMA TagPositions ==
  ASSUME Deploy # 0
  PROVE  /\ \A j \in 1 .. Deploy - 1 : j \in Items /\ TagItem(j) = j /\ j \in 1 .. Bundle - 1
         /\ \A j \in Items : j # Deploy => \E n \in 1 .. Bundle - 1 : TagItem(n) = j
         /\ \A n \in Items : TagItem(n) = Deploy => n = Bundle
<1>0. Deploy \in 1 .. Artifacts /\ Artifacts \in Nat
  BY ItemsAssumption
<1>1. \A j \in 1 .. Deploy - 1 : j \in Items /\ TagItem(j) = j /\ j \in 1 .. Bundle - 1
  BY <1>0 DEF Bundle, Items, TagItem
<1>2. ASSUME NEW j \in Items, j # Deploy PROVE \E n \in 1 .. Bundle - 1 : TagItem(n) = j
  <2>1. CASE j < Deploy
    <3>1. j \in 1 .. Bundle - 1 /\ TagItem(j) = j
      BY <1>0, <2>1 DEF Bundle, Items, TagItem
    <3> QED BY <3>1
  <2>2. CASE ~(j < Deploy)
    <3>1. j - 1 \in 1 .. Bundle - 1 /\ TagItem(j - 1) = j
      BY <1>0, <1>2, <2>2 DEF Bundle, Items, TagItem
    <3> QED BY <3>1
  <2> QED BY <2>1, <2>2
<1>3. ASSUME NEW n \in Items, n # Bundle PROVE TagItem(n) # Deploy
  <2>1. CASE n < Deploy
    BY <1>0, <2>1 DEF Items, Bundle, TagItem
  <2>2. CASE ~(n < Deploy)
    BY <1>0, <1>3, <2>2 DEF Items, Bundle, TagItem
  <2> QED BY <2>1, <2>2
<1> QED BY <1>1, <1>2, <1>3

\* Writing a tag, over whatever it holds, keeps the invariant.
LEMMA WriteTagKeeps ==
  ASSUME PublishInv, NEW a \in Runs, WriteTag(a)
  PROVE  PublishInv'
<1>0. PICK r, i, d : r = runs[a] /\ i = TagItem(r.at) /\ d = r.digest[i]
  BY Zenon
<1>1. /\ tags' = [tags EXCEPT ![i] = d] /\ pushed' = pushed /\ signed' = signed
      /\ overwritten' = (overwritten \/ tags[i] \notin {NoDigest, d})
      /\ runs' = [runs EXCEPT ![a] = Tagged(r, r.at)]
      /\ r \in RunType /\ RunOK(r) /\ r.pc = "write" /\ r.at \in Items
      /\ tags \in [Items -> pushed \cup {NoDigest}] /\ runs \in [Runs -> RunType]
  BY <1>0, ZenonT(40) DEF PublishInv, TypeOK, WriteTag, RunType
<1>2. i \in Items /\ r.state[i] = "absent"
  BY <1>0, <1>1, ItemNumbers, Zenon DEF RunOK, AtOK
<1>3. \A j \in Items : r.digest[j].item = j /\ Complete(r.digest[j]) /\ r.digest[j] \in pushed
  BY <1>0, <1>1, RunComplete, Zenon DEF PublishInv, Tagging
<1>4. d # NoDigest /\ d.item = i /\ Complete(d) /\ d \in pushed
  BY <1>0, <1>2, <1>3, SomeDigest, Zenon
<1>5. tags'[i] = d /\ \A j \in Items : j # i => tags'[j] = tags[j]
  BY <1>1, <1>2
<1>6. TagsKept
  BY <1>1, <1>4, <1>5, Zenon DEF TagsKept
<1>7. \A x : Complete(x) => Complete(x)'
  BY <1>1, CompleteGrows
<1>8. PICK q : q = Tagged(r, r.at)
  OBVIOUS
<1>9. q \in RunType /\ (r.at = Bundle => q.pc = "done")
  BY <1>1, <1>8, NextTag, EndedType DEF Over
<1>10. runs'[a] = q /\ q \in RunType' /\ \A b \in Runs : b # a => runs'[b] = runs[b]
  BY <1>1, <1>8, <1>9, TypeGrows
<1>11. TypeOK'
  <2>1. runs' \in [Runs -> RunType']
    BY <1>1, <1>10, TypeGrows
  <2>2. tags' \in [Items -> pushed' \cup {NoDigest}]
    BY <1>1, <1>2, <1>4
  <2>3. overwritten' \in BOOLEAN
    BY <1>1
  <2> QED BY <2>1, <2>2, <2>3 DEF TypeOK
<1>12. TagsOK'
  <2> SUFFICES ASSUME NEW j \in Items, tags'[j] # NoDigest PROVE tags'[j].item = j /\ Complete(tags'[j])
    BY <1>1, Zenon DEF TagsOK, Complete
  <2>1. CASE j = i
    BY <1>4, <1>5, <2>1
  <2>2. CASE j # i
    BY <1>5, <2>2 DEF PublishInv, TagsOK
  <2> QED BY <2>1, <2>2
<1>17. Deploy = 0 => CommitPoint' /\ VersionIsOne'
  BY DEF CommitPoint, VersionIsOne
<1>13. ASSUME i # Deploy, Deploy # 0 PROVE CommitPoint' /\ VersionIsOne'
  <2>1. tags'[Deploy] = tags[Deploy] /\ Deploy \in Items
    BY <1>5, <1>13, ItemNumbers
  <2>2. CommitPoint'
    <3> SUFFICES ASSUME tags[Deploy] # NoDigest
                 PROVE  /\ Complete(tags[Deploy])
                        /\ \A u \in tags[Deploy].uses : Complete(u)
                        /\ \A j \in Items : tags'[j] # NoDigest
      BY <1>1, <2>1, Zenon DEF CommitPoint, Complete
    <3> QED BY <1>6, <1>13 DEF PublishInv, CommitPoint, TagsKept
  <2>3. VersionIsOne'
    <3> SUFFICES ASSUME tags'[Deploy] # NoDigest, ~overwritten'
                 PROVE  /\ tags'[Bundle] \in tags'[Deploy].uses
                        /\ \A j \in 1 .. Deploy - 1 : tags'[j] \in tags'[Deploy].uses
      BY DEF VersionIsOne
    <3>1. \A j \in Items : tags'[j] = tags[j]
      BY <1>6, <1>13, <2>1 DEF PublishInv, CommitPoint, TagsKept
    <3>2. \A j \in 1 .. Deploy - 1 : j \in Items
      BY <1>13, TagPositions
    <3> QED BY <1>6, <1>13, <2>1, <3>1, <3>2, ItemNumbers DEF PublishInv, VersionIsOne, TagsKept
  <2> QED BY <2>2, <2>3
<1>14. ASSUME i = Deploy, Deploy # 0 PROVE CommitPoint' /\ VersionIsOne'
  <2>1. r.at = Bundle /\ i \in 1 .. Artifacts
    BY <1>0, <1>1, <1>14, TagPositions, ItemNumbers, ZenonT(40)
  <2>2. d.uses = Given(r, Deploy)
    BY <1>0, <1>1, <1>2, <1>14, <2>1, Zenon DEF RunOK, BuildOK, BuiltItem, Working, Tagging
  <2>3. d.uses = {r.digest[j] : j \in 1 .. Deploy - 1} \cup {r.digest[Bundle]}
    BY <2>2 DEF Given
  <2>4. \A n \in 1 .. Bundle - 1 :
          tags[TagItem(n)] # NoDigest /\ (~overwritten => tags[TagItem(n)] = r.digest[TagItem(n)])
    BY <1>1, <2>1 DEF RunOK, TagOK, Tagging
  <2>6. tags'[Deploy] = d
    BY <1>5, <1>14
  <2>7. Complete(d) /\ \A u \in d.uses : Complete(u)
    <3> SUFFICES ASSUME NEW u \in d.uses PROVE Complete(u)
      BY <1>4
    <3>1. CASE u = r.digest[Bundle]
      BY <1>3, <3>1, ItemNumbers
    <3>2. CASE \E j \in 1 .. Deploy - 1 : u = r.digest[j]
      BY <1>3, <1>14, <3>2, TagPositions
    <3> QED BY <2>3, <3>1, <3>2
  <2>8. \A j \in Items : j # Deploy =>
          tags'[j] # NoDigest /\ (~overwritten' => tags'[j] = r.digest[j])
    BY <1>6, <1>14, <2>4, TagPositions DEF TagsKept
  <2>9. CommitPoint'
    <3>1. Complete(d)' /\ \A u \in d.uses : Complete(u)'
      BY <1>7, <2>7
    <3>2. \A j \in Items : tags'[j] # NoDigest
      BY <1>4, <1>5, <1>14, <2>8
    <3> QED BY <2>6, <3>1, <3>2 DEF CommitPoint
  <2>10. VersionIsOne'
    <3> SUFFICES ASSUME ~overwritten'
                 PROVE  /\ tags'[Bundle] \in d.uses
                        /\ \A j \in 1 .. Deploy - 1 : tags'[j] \in d.uses
      BY <2>6 DEF VersionIsOne
    <3>1. \A j \in 1 .. Deploy - 1 : j \in Items /\ j # Deploy
      BY <1>14, TagPositions, ItemNumbers
    <3> QED BY <2>3, <2>8, <3>1, ItemNumbers, Zenon
  <2> QED BY <2>9, <2>10
<1>15. RunOK(runs[a])'
  <2>1. CASE r.at = Bundle
    <3>1. runs'[a].pc \in Over
      BY <1>9, <1>10, <2>1 DEF Over
    <3> QED BY <3>1, OverOK, Zenon
  <2>2. CASE r.at # Bundle
    <3>1. /\ q.pc = "tag" /\ q.at = r.at + 1 /\ q.rev = r.rev /\ q.state = r.state
          /\ q.digest = r.digest /\ q.sbom = r.sbom
      BY <1>1, <1>8, <2>2, NextTag
    <3>2. /\ runs[a].pc \in Tagging /\ q.at = runs[a].at + 1 /\ q.rev = runs[a].rev
          /\ q.state = runs[a].state /\ q.digest = runs[a].digest /\ q.sbom = runs[a].sbom
      BY <1>0, <1>1, <3>1 DEF Tagging
    <3>3. /\ tags'[TagItem(runs[a].at)] # NoDigest
          /\ tags'[TagItem(runs[a].at)] = runs[a].digest[TagItem(runs[a].at)]
      BY <1>0, <1>4, <1>5
    <3>4. pushed' = pushed /\ signed' = signed
      BY <1>1
    <3> QED BY <1>6, <1>10, <3>1, <3>2, <3>3, <3>4, TaggedOK, Zenon
  <2> QED BY <2>1, <2>2
<1>16. \A b \in Runs : RunOK(runs[b])'
  <2> SUFFICES ASSUME NEW b \in Runs, b # a PROVE RunOK(runs[b])'
    BY <1>15
  <2>1. RunOK(runs[b]) /\ runs[b] \in RunType
    BY DEF PublishInv, TypeOK
  <2> QED BY <1>1, <1>6, <1>10, <2>1, RunStays, Zenon
<1> QED BY <1>11, <1>12, <1>13, <1>14, <1>16, <1>17 DEF PublishInv

\* The invariant is inductive.
LEMMA PublishInvHolds == Spec => []PublishInv
<1>1. Init => PublishInv
  <2> SUFFICES ASSUME Init PROVE PublishInv
    BY Zenon
  <2>1. Idle \in RunType
    BY ItemNumbers, Zenon DEF Idle, RunType, Known, Over
  <2>2. TypeOK
    BY <2>1, Zenon DEF Init, TypeOK
  <2>3. TagsOK /\ CommitPoint /\ VersionIsOne
    BY ItemNumbers, Zenon DEF Init, TagsOK, CommitPoint, VersionIsOne
  <2>4. ASSUME NEW a \in Runs PROVE RunOK(runs[a])
    <3>1. runs[a].pc \in Over
      BY Zenon DEF Init, Idle, Over
    <3> QED BY <3>1, OverOK
  <2> QED BY <2>2, <2>3, <2>4 DEF PublishInv
<1>2. PublishInv /\ [Next]_vars => PublishInv'
  <2> SUFFICES ASSUME PublishInv, [Next]_vars PROVE PublishInv'
    OBVIOUS
  <2>1. ASSUME NEW a \in Runs, Step(a) PROVE PublishInv'
    BY <2>1, MakePlanKeeps, AdoptKeeps, BuildKeeps, AttachKeeps, BundleKeeps, SignKeeps, ReadTagKeeps,
       WriteTagKeeps DEF Step
  <2>2. ASSUME NEW a \in Runs, Stop(a) PROVE PublishInv'
    BY <2>2, EndKeeps, Zenon DEF Stop, Over
  <2>3. ASSUME NEW a \in Runs, NEW v \in Revisions, Start(a, v) PROVE PublishInv'
    BY <2>3, StartKeeps
  <2>4. CASE UNCHANGED vars
    <3>1. tags' = tags /\ pushed' = pushed /\ signed' = signed /\ runs' = runs /\ overwritten' = overwritten
      BY <2>4, SMTT(30) DEF vars
    <3>2. TypeOK'
      BY <3>1, Zenon DEF PublishInv, TypeOK, RunType, Known
    <3>3. TagsOK' /\ CommitPoint' /\ VersionIsOne'
      BY <3>1, Zenon DEF PublishInv, TagsOK, CommitPoint, VersionIsOne, Complete
    <3>4. ASSUME NEW a \in Runs PROVE RunOK(runs[a])'
      <4>1. RunOK(runs[a]) /\ runs[a] \in RunType
        BY DEF PublishInv, TypeOK
      <4>2. TagsKept
        BY <3>1 DEF TagsKept
      <4> QED BY <3>1, <4>1, <4>2, RunStays, Zenon
    <3> QED BY <3>2, <3>3, <3>4 DEF PublishInv
  <2> QED BY <2>1, <2>2, <2>3, <2>4 DEF Next
<1> QED BY <1>1, <1>2, PTL DEF Spec

\* For any artifacts, commits and number of runs: once the deploy artifact's
\* tag exists, everything it points at is in the registry and signed (Apply).
THEOREM DeployTagCommits == Spec => []CommitPoint
<1>1. PublishInv => CommitPoint
  BY DEF PublishInv
<1> QED BY <1>1, PublishInvHolds, PTL

\* What a tag holds is signed, and so is its SBOM (signAll before the tags).
THEOREM TagsAreSigned == Spec => []TaggedIsComplete
<1>1. PublishInv => TaggedIsComplete
  BY DEF PublishInv, TagsOK, TaggedIsComplete
<1> QED BY <1>1, PublishInvHolds, PTL

\* Unless a tag was overwritten by a race, the deploy artifact names exactly
\* the artifacts and the contract the version's tags hold (owe).
THEOREM OneBuildPerVersion == Spec => []VersionIsOne
<1>1. PublishInv => VersionIsOne
  BY DEF PublishInv
<1> QED BY <1>1, PublishInvHolds, PTL

-----------------------------------------------------------------------------
(* A rerun finishes.  A run that is alone finds every tag as its plan found  *)
(* it or as it wrote it, and every tag was written from the commit of a run, *)
(* so nothing but another commit refuses it.                                 *)

\* What may refuse run a.
Excused(a) == ~runs[a].alone \/ \E b \in 1 .. a - 1 : runs[b].rev # runs[a].rev

\* The tag of item i holds what a run from commit v writes there.
Origin(i, v) == IF i = Bundle THEN tags[i] = BundleDigest(v) ELSE tags[i].rev = v

InOrder == \A a, b \in Runs : b < a /\ runs[b].pc = "idle" => runs[a].pc = "idle"

\* Nobody was started beside a run that is alone.
Alone == \A a, b \in Runs : runs[a].alone /\ Running(a) /\ b # a =>
           ~Running(b) /\ (a < b => runs[b].pc = "idle")

TagsFromRuns == \A i \in Items : tags[i] # NoDigest =>
  \E b \in Runs : runs[b].pc # "idle" /\ Origin(i, runs[b].rev)

\* What a run under way knows of item i.
Knows(a, i) ==
  /\ runs[a].state[i] = "conflict" => Excused(a)
  /\ runs[a].state[i] = "absent" /\ runs[a].alone /\ Planned(runs[a], i) =>
       tags[i] = NoDigest \/ (runs[a].pc \in Tagging /\ tags[i] = runs[a].digest[i])
  /\ runs[a].state[i] = "absent" /\ i # Bundle /\ BuiltItem(runs[a], i) =>
       runs[a].digest[i].rev = runs[a].rev

RerunInv ==
  /\ InOrder /\ Alone /\ TagsFromRuns
  /\ \A a \in Runs : /\ runs[a].pc = "refused" => Excused(a)
                     /\ Running(a) => \A i \in Items : Knows(a, i)

\* A run goes on, or ends, and writes only what comes from its commit.
LEMMA RunGoesOn ==
  ASSUME PublishInv, RerunInv, NEW a \in Runs, Running(a), NEW q,
         runs' = [runs EXCEPT ![a] = q],
         q.pc # "idle", q.rev = runs[a].rev, q.alone = runs[a].alone,
         \A i \in Items : tags'[i] = tags[i] \/ Origin(i, runs[a].rev)',
         q.pc = "refused" => Excused(a),
         (Excused(a)' <=> Excused(a)) /\ q.pc \notin Over => \A i \in Items : Knows(a, i)'
  PROVE  RerunInv'
<1>1. runs'[a] = q /\ \A b \in Runs : b # a => runs'[b] = runs[b]
  BY Zenon DEF PublishInv, TypeOK
<1>2. \A b \in Runs : /\ runs'[b].rev = runs[b].rev /\ runs'[b].alone = runs[b].alone
                      /\ runs'[b].pc = "idle" <=> runs[b].pc = "idle"
  BY <1>1, Zenon DEF Running, Over
<1>3. \A b \in Runs : (Excused(b)' <=> Excused(b))
  <2>1. \A b \in Runs : 1 .. b - 1 \subseteq Runs
    BY RunsAssumption DEF Runs
  <2> SUFFICES ASSUME NEW b \in Runs PROVE Excused(b)' <=> Excused(b)
    OBVIOUS
  <2>2. \A c \in 1 .. b - 1 : c \in Runs
    BY <2>1, Zenon
  <2>3. \A c \in 1 .. b - 1 : runs'[c].rev = runs[c].rev
    BY <1>2, <2>2, Zenon
  <2>4. runs'[b].rev = runs[b].rev /\ runs'[b].alone = runs[b].alone
    BY <1>2, Zenon
  <2> QED BY <2>3, <2>4, Zenon DEF Excused
<1>4. InOrder'
  BY <1>2, Zenon DEF RerunInv, InOrder
<1>5. Alone'
  <2> SUFFICES ASSUME NEW x \in Runs, NEW y \in Runs, runs'[x].alone, Running(x)', y # x
               PROVE  ~Running(y)' /\ (x < y => runs'[y].pc = "idle")
    BY Zenon DEF Alone
  <2>1. CASE x = a
    BY <1>1, <1>2, <2>1, Zenon DEF RerunInv, Alone, Running
  <2>2. CASE x # a
    <3>1. runs[x].alone /\ Running(x)
      BY <1>1, <2>2, Zenon DEF Running
    <3> QED BY <2>2, <3>1, Zenon DEF RerunInv, Alone
  <2> QED BY <2>1, <2>2, Zenon
<1>6. TagsFromRuns'
  <2> SUFFICES ASSUME NEW i \in Items, tags'[i] # NoDigest
               PROVE  \E b \in Runs : runs'[b].pc # "idle" /\ Origin(i, runs[b].rev)'
    BY Zenon DEF TagsFromRuns
  <2>1. CASE tags'[i] = tags[i]
    <3>1. PICK b \in Runs : runs[b].pc # "idle" /\ Origin(i, runs[b].rev)
      BY <2>1, Zenon DEF RerunInv, TagsFromRuns
    <3>2. runs'[b].pc # "idle" /\ Origin(i, runs[b].rev)'
      BY <1>2, <2>1, <3>1, Zenon DEF Origin
    <3> QED BY <3>2
  <2>2. CASE Origin(i, runs[a].rev)'
    BY <1>1, <2>2, Zenon
  <2> QED BY <2>1, <2>2, Zenon
<1>7. ASSUME NEW b \in Runs, b # a
      PROVE  /\ runs'[b].pc = "refused" => Excused(b)'
             /\ Running(b)' => \A i \in Items : Knows(b, i)'
  <2>1. runs'[b] = runs[b] /\ (Excused(b)' <=> Excused(b))
    BY <1>1, <1>3, <1>7, Zenon
  <2>2. Running(b) => ~runs[b].alone
    BY <1>7, Zenon DEF RerunInv, Alone
  <2>3. /\ runs[b].pc = "refused" => Excused(b)
        /\ Running(b) => \A i \in Items : Knows(b, i)
    BY Zenon DEF RerunInv
  <2> QED BY <2>1, <2>2, <2>3, Zenon DEF Running, Knows
<1>8. /\ runs'[a].pc = "refused" => Excused(a)'
      /\ Running(a)' => \A i \in Items : Knows(a, i)'
  BY <1>1, <1>3 DEF Running
<1> QED BY <1>4, <1>5, <1>6, <1>7, <1>8, Zenon DEF RerunInv

\* A tag from another commit excuses a run that is refused for it.
LEMMA OtherCommit ==
  ASSUME RerunInv, NEW a \in Runs, Running(a), NEW i \in Items, tags[i] # NoDigest,
         ~Origin(i, runs[a].rev)
  PROVE  Excused(a)
<1>1. PICK b \in Runs : runs[b].pc # "idle" /\ Origin(i, runs[b].rev)
  BY DEF RerunInv, TagsFromRuns
<1>2. b # a /\ runs[b].rev # runs[a].rev
  BY <1>1
<1>3. runs[a].alone => b < a
  <2>1. runs[a].alone => ~(a < b)
    BY <1>1, <1>2 DEF RerunInv, Alone
  <2> QED BY <1>2, <2>1, RunsAssumption DEF Runs
<1>4. b < a => b \in 1 .. a - 1
  BY RunsAssumption DEF Runs
<1> QED BY <1>2, <1>3, <1>4 DEF Excused

\* A step that ends the run, or leaves its plan and its digests as they are
\* and writes no tag.
LEMMA RunKeepsPlan ==
  ASSUME PublishInv, RerunInv, NEW a \in Runs, Running(a), NEW q,
         runs' = [runs EXCEPT ![a] = q], tags' = tags,
         q.pc # "idle", q.rev = runs[a].rev, q.alone = runs[a].alone,
         q.pc = "refused" => Excused(a),
         q.pc \notin Over =>
           /\ q.state = runs[a].state /\ q.digest = runs[a].digest
           /\ runs[a].pc \in Tagging => q.pc \in Tagging
           /\ \A i \in Items : /\ Planned(runs[a], i)
                               /\ i # Bundle /\ BuiltItem(q, i) => BuiltItem(runs[a], i)
  PROVE  RerunInv'
<1>1. ASSUME Excused(a)' <=> Excused(a), q.pc \notin Over, NEW i \in Items
      PROVE  Knows(a, i)'
  <2>1. Knows(a, i)
    BY DEF RerunInv
  <2>2. runs'[a] = q
    BY Zenon DEF PublishInv, TypeOK
  <2>3. Planned(runs[a], i) /\ (i # Bundle /\ BuiltItem(q, i) => BuiltItem(runs[a], i))
    BY <1>1
  <2>4. (BuiltItem(runs[a], i))' = BuiltItem(q, i)
    BY <2>2 DEF BuiltItem
  <2> QED BY <1>1, <2>1, <2>2, <2>3, <2>4, Zenon DEF Knows
<1> QED BY <1>1, RunGoesOn, Zenon

\* How a run ends leaves whose it was.
LEMMA EndedSame ==
  ASSUME NEW r \in RunType, NEW pc
  PROVE  Ended(r, pc).pc = pc /\ Ended(r, pc).rev = r.rev /\ Ended(r, pc).alone = r.alone
BY Zenon DEF Ended, Idle

LEMMA PlanReruns ==
  ASSUME PublishInv, RerunInv, NEW a \in Runs, MakePlan(a)
  PROVE  RerunInv'
<1>0. PICK r, i, st : /\ r = runs[a] /\ i = r.at
                      /\ st = IF i = Bundle THEN Decide(tags[i], BundleDigest(r.rev), 0)
                                            ELSE Decide(tags[i], NoDigest, r.rev)
  BY Zenon
<1>1. /\ tags' = tags /\ r \in RunType /\ RunOK(r) /\ r.pc = "plan" /\ i \in Items
  BY <1>0, Zenon DEF PublishInv, TypeOK, RunType, MakePlan
<1>2. Running(a) /\ r.rev \in Revisions /\ r.rev # 0
  BY <1>0, <1>1, RevisionsAssumption, Zenon DEF Running, Over, RunOK, AtOK
<1>3. PICK state : state = [r.state EXCEPT ![i] = st]
  BY Zenon
<1>4. state[i] = st /\ \A j \in Items : j # i => state[j] = r.state[j]
  BY <1>1, <1>3, Zenon DEF RunType
<1>5. \A j \in Items : state[j] = "conflict" => Excused(a)
  <2>1. st = "conflict" => tags[i] # NoDigest /\ ~Origin(i, r.rev)
    BY <1>0, <1>2 DEF Decide, Origin
  <2>2. st = "conflict" => Excused(a)
    BY <1>0, <1>1, <1>2, <2>1, OtherCommit, Zenon
  <2>3. \A j \in Items : r.state[j] = "conflict" => Excused(a)
    BY <1>0, <1>2, Zenon DEF RerunInv, Knows
  <2> QED BY <1>4, <2>2, <2>3
<1>6. CASE i = Bundle /\ \E j \in Items : state[j] = "conflict"
  <2>1. PICK q : q = Ended(r, "refused")
    BY Zenon
  <2>2. runs' = [runs EXCEPT ![a] = q]
    BY <1>0, <1>3, <1>6, <2>1, Zenon DEF MakePlan
  <2>3. q.pc = "refused" /\ q.rev = r.rev /\ q.alone = r.alone
    BY <1>1, <2>1, EndedSame
  <2>4. Excused(a)
    BY <1>5, <1>6
  <2>5. q.pc # "idle" /\ q.pc \in Over
    BY <2>3 DEF Over
  <2> QED BY <1>0, <1>1, <1>2, <2>2, <2>3, <2>4, <2>5, RunKeepsPlan, Zenon
<1>7. CASE ~(i = Bundle /\ \E j \in Items : state[j] = "conflict")
  <2>1. PICK d : d = IF i = Bundle /\ state[i] = "absent" THEN BundleDigest(r.rev) ELSE tags[i]
    BY Zenon
  <2>2. PICK q : q = [r EXCEPT !.state = state, !.digest[i] = d,
                               !.at = IF i = Bundle THEN 1 ELSE i + 1,
                               !.pc = IF i = Bundle THEN "adopt" ELSE "plan"]
    BY Zenon
  <2>3. runs' = [runs EXCEPT ![a] = q]
    BY <1>0, <1>3, <1>7, <2>1, <2>2, Zenon DEF MakePlan
  <2>4. /\ q.pc = (IF i = Bundle THEN "adopt" ELSE "plan") /\ q.state = state
        /\ q.at = (IF i = Bundle THEN 1 ELSE i + 1) /\ q.rev = r.rev /\ q.alone = r.alone
    BY <1>1, <2>2, ZenonT(40) DEF RunType
  <2>5. runs'[a] = q
    BY <2>3, Zenon DEF PublishInv, TypeOK
  <2>6. ASSUME Excused(a)' <=> Excused(a), NEW j \in Items
        PROVE  Knows(a, j)'
    <3>1. q.state[j] = "conflict" => Excused(a)'
      BY <1>5, <2>4, <2>6
    <3>2. q.state[j] = "absent" /\ q.alone /\ Planned(q, j) => tags[j] = NoDigest
      <4>1. CASE j = i
        <5>1. st = "absent" => tags[i] = NoDigest
          BY <1>0, Decisions, Zenon
        <5> QED BY <1>4, <2>4, <4>1, <5>1, Zenon
      <4>2. CASE j # i
        <5>1. Planned(q, j) => Planned(r, j)
          <6>1. j \in Nat /\ i \in Nat /\ j <= Bundle
            BY <1>1, ItemNumbers
          <6>2. CASE i = Bundle
            <7>1. j < i
              BY <4>2, <6>1, <6>2
            <7> QED BY <1>0, <1>1, <7>1, Zenon DEF Planned
          <6>3. CASE i # Bundle
            <7>1. q.pc = "plan" /\ q.at = i + 1
              BY <2>4, <6>3, Zenon
            <7>2. Planned(q, j) => j < i + 1
              BY <7>1 DEF Planned
            <7>3. j < i + 1 => j < i
              BY <4>2, <6>1
            <7> QED BY <1>0, <1>1, <7>2, <7>3, Zenon DEF Planned
          <6> QED BY <6>2, <6>3
        <5>2. Knows(a, j) /\ q.state[j] = r.state[j]
          BY <1>2, <1>4, <2>4, <4>2, Zenon DEF RerunInv
        <5>3. r.pc \notin Tagging
          BY <1>1 DEF Tagging
        <5> QED BY <1>0, <2>4, <5>1, <5>2, <5>3, Zenon DEF Knows
      <4> QED BY <4>1, <4>2
    <3>3. ~BuiltItem(q, j)
      BY <2>4, Zenon DEF BuiltItem, Working, Tagging
    <3>4. (Planned(runs[a], j))' = Planned(q, j) /\ (BuiltItem(runs[a], j))' = BuiltItem(q, j)
      BY <2>5 DEF Planned, BuiltItem
    <3> QED BY <1>1, <2>5, <3>1, <3>2, <3>3, <3>4, Zenon DEF Knows
  <2>7. q.pc # "idle" /\ q.pc # "refused"
    BY <2>4
  <2> QED BY <1>0, <1>1, <1>2, <2>3, <2>4, <2>6, <2>7, RunGoesOn, Zenon
<1> QED BY <1>6, <1>7

\* What is adopted carries the signature, as all that is tagged does.
LEMMA AdoptReruns ==
  ASSUME PublishInv, RerunInv, NEW a \in Runs, AdoptOnlySigned(a)
  PROVE  RerunInv'
<1>0. PICK r, pc, q : /\ r = runs[a] /\ pc = (IF Artifacts = 0 THEN "bundle" ELSE "build")
                      /\ q = [r EXCEPT !.pc = pc]
  BY Zenon
<1>1. tags' = tags /\ r \in RunType /\ RunOK(r) /\ r.pc = "adopt"
  BY <1>0, Zenon DEF PublishInv, TypeOK, AdoptOnlySigned
<1>2. Running(a) /\ \A i \in Items : Planned(r, i)
  BY <1>0, <1>1 DEF Running, Over, Planned
<1>3. \A i \in Items : r.state[i] = "adopt" => r.digest[i] \in signed
  BY <1>1, <1>2, Zenon DEF RunOK, PlanOK, Found, Complete
<1>4. runs' = [runs EXCEPT ![a] = q]
  BY <1>0, <1>3, Zenon DEF AdoptOnlySigned
<1>5. /\ q.pc = pc /\ q.at = r.at /\ q.rev = r.rev /\ q.alone = r.alone
      /\ q.state = r.state /\ q.digest = r.digest
  BY <1>0, <1>1, Zenon DEF RunType
<1>6. r.at = 1 /\ r.pc \notin Tagging
  BY <1>1 DEF RunOK, AtOK, Tagging
<1>7. ASSUME NEW i \in Items, i # Bundle PROVE ~BuiltItem(q, i)
  <2>1. i \in 1 .. Artifacts
    BY <1>7, ItemNumbers
  <2>2. pc = "build" /\ ~(i < 1)
    BY <1>0, <2>1, ItemNumbers
  <2> QED BY <1>5, <1>6, <2>2 DEF BuiltItem, Working, Tagging
<1>8. q.pc # "idle" /\ q.pc # "refused"
  BY <1>0, <1>5
<1>9. runs[a].pc \in Tagging => q.pc \in Tagging
  BY <1>0, <1>6
<1>10. \A i \in Items : /\ Planned(runs[a], i)
                        /\ i # Bundle /\ BuiltItem(q, i) => BuiltItem(runs[a], i)
  BY <1>0, <1>2, <1>7
<1>11. /\ q.rev = runs[a].rev /\ q.alone = runs[a].alone
       /\ q.state = runs[a].state /\ q.digest = runs[a].digest
  BY <1>0, <1>5, Zenon
<1>12. q.pc \notin Over => /\ q.state = runs[a].state /\ q.digest = runs[a].digest
                           /\ runs[a].pc \in Tagging => q.pc \in Tagging
                           /\ \A i \in Items : /\ Planned(runs[a], i)
                                               /\ i # Bundle /\ BuiltItem(q, i) => BuiltItem(runs[a], i)
  BY <1>9, <1>10, <1>11, Zenon
<1>13. q.pc = "refused" => Excused(a)
  BY <1>8, Zenon
<1>14. tags' = tags /\ Running(a) /\ q.pc # "idle"
  BY <1>1, <1>2, <1>8, Zenon
<1> QED BY <1>4, <1>11, <1>12, <1>13, <1>14, RunKeepsPlan, Zenon

LEMMA BuildReruns ==
  ASSUME PublishInv, RerunInv, NEW a \in Runs, BuildAndPush(a)
  PROVE  RerunInv'
<1>0. PICK r, i : r = runs[a] /\ i = r.at
  BY Zenon
<1>1. /\ tags' = tags /\ r \in RunType /\ RunOK(r) /\ r.pc = "build"
  BY <1>0, Zenon DEF PublishInv, TypeOK, BuildAndPush
<1>2. i \in 1 .. Artifacts /\ i \in Items /\ Running(a) /\ \A j \in Items : Planned(r, j)
  BY <1>0, <1>1, ItemNumbers, Zenon DEF RunOK, AtOK, Running, Over, Planned
<1>3. PICK d : /\ r.state[i] = "absent" => d.rev = r.rev
               /\ runs' = [runs EXCEPT ![a] =
                    IF i \in WithSBOM THEN [r EXCEPT !.digest[i] = d, !.pc = "sbom"]
                                      ELSE Next1([r EXCEPT !.digest[i] = d], i)]
  <2>1. CASE r.state[i] = "absent"
    <3>1. PICK d : d = Digest(i, r.rev, BuiltBy(a, i), Given(r, i))
      BY Zenon
    <3>2. d.rev = r.rev
      BY <3>1 DEF Digest
    <3>3. runs' = [runs EXCEPT ![a] =
              IF i \in WithSBOM THEN [r EXCEPT !.digest[i] = d, !.pc = "sbom"]
                                ELSE Next1([r EXCEPT !.digest[i] = d], i)]
      BY <1>0, <2>1, <3>1, Zenon DEF BuildAndPush
    <3> QED BY <3>2, <3>3, Zenon
  <2>2. CASE r.state[i] # "absent"
    <3>1. runs' = [runs EXCEPT ![a] =
              IF i \in WithSBOM THEN [r EXCEPT !.digest[i] = r.digest[i], !.pc = "sbom"]
                                ELSE Next1([r EXCEPT !.digest[i] = r.digest[i]], i)]
      BY <1>0, <2>2, Zenon DEF BuildAndPush
    <3> QED BY <2>2, <3>1, Zenon
  <2> QED BY <2>1, <2>2, Zenon
<1>4. PICK q : q = IF i \in WithSBOM THEN [r EXCEPT !.digest[i] = d, !.pc = "sbom"]
                                     ELSE Next1([r EXCEPT !.digest[i] = d], i)
  BY Zenon
<1>5. /\ q.rev = r.rev /\ q.alone = r.alone /\ q.state = r.state
      /\ q.digest[i] = d /\ \A j \in Items : j # i => q.digest[j] = r.digest[j]
      /\ \/ q.pc = "sbom" /\ q.at = i
         \/ q.pc = "build" /\ q.at = i + 1
         \/ q.pc = "bundle" /\ i = Artifacts
  <2>1. PICK w : w = [r.digest EXCEPT ![i] = d]
    BY Zenon
  <2>2. w[i] = d /\ \A j \in Items : j # i => w[j] = r.digest[j]
    BY <1>1, <1>2, <2>1, Zenon DEF RunType
  <2>3. \/ q = [r EXCEPT !.digest = w, !.pc = "sbom"]
        \/ i = Artifacts /\ q = [r EXCEPT !.digest = w, !.at = 1, !.pc = "bundle"]
        \/ q = [r EXCEPT !.digest = w, !.at = i + 1, !.pc = "build"]
    <3>1. PICK m : m = [r EXCEPT !.digest = w]
      BY Zenon
    <3>2. q = IF i \in WithSBOM THEN [m EXCEPT !.pc = "sbom"] ELSE Next1(m, i)
      BY <1>4, <2>1, <3>1
    <3> QED BY <3>1, <3>2, Zenon DEF Next1
  <2>4. CASE q = [r EXCEPT !.digest = w, !.pc = "sbom"]
    BY <1>0, <1>1, <2>2, <2>4, Zenon DEF RunType
  <2>5. CASE i = Artifacts /\ q = [r EXCEPT !.digest = w, !.at = 1, !.pc = "bundle"]
    BY <1>1, <2>2, <2>5, Zenon DEF RunType
  <2>6. CASE q = [r EXCEPT !.digest = w, !.at = i + 1, !.pc = "build"]
    BY <1>1, <2>2, <2>6, Zenon DEF RunType
  <2> QED BY <2>3, <2>4, <2>5, <2>6
<1>6. runs' = [runs EXCEPT ![a] = q] /\ runs'[a] = q
  BY <1>3, <1>4, Zenon DEF PublishInv, TypeOK
<1>7. ASSUME Excused(a)' <=> Excused(a), NEW j \in Items
      PROVE  Knows(a, j)'
  <2>1. Knows(a, j) /\ r.pc \notin Tagging /\ Planned(r, j)
    BY <1>1, <1>2, Zenon DEF RerunInv, Tagging
  <2>2. q.state[j] = "absent" /\ j # Bundle /\ BuiltItem(q, j) => q.digest[j].rev = q.rev
    <3>1. CASE j = i
      BY <1>3, <1>5, <3>1
    <3>2. CASE j # i
      <4>1. j # Bundle /\ BuiltItem(q, j) => BuiltItem(r, j)
        <5>1. j \in Nat /\ i \in Nat /\ (j # Bundle => j <= Artifacts)
          BY <1>2, ItemNumbers
        <5>2. CASE q.pc = "sbom" /\ q.at = i
          BY <1>0, <1>1, <3>2, <5>1, <5>2 DEF BuiltItem, Working, Tagging
        <5>3. CASE q.pc = "build" /\ q.at = i + 1
          BY <1>0, <1>1, <3>2, <5>1, <5>3 DEF BuiltItem, Working, Tagging
        <5>4. CASE q.pc = "bundle" /\ i = Artifacts
          BY <1>0, <1>1, <3>2, <5>1, <5>4 DEF BuiltItem
        <5> QED BY <1>5, <5>2, <5>3, <5>4
      <4> QED BY <1>0, <1>5, <2>1, <3>2, <4>1, Zenon DEF Knows
    <3> QED BY <3>1, <3>2
  <2>3. (BuiltItem(runs[a], j))' = BuiltItem(q, j)
    BY <1>6 DEF BuiltItem
  <2> QED BY <1>0, <1>1, <1>5, <1>6, <1>7, <2>1, <2>2, <2>3, Zenon DEF Knows
<1>8. q.pc # "idle" /\ q.pc # "refused"
  BY <1>5
<1> QED BY <1>0, <1>1, <1>2, <1>5, <1>6, <1>7, <1>8, RunGoesOn, Zenon

\* From the SBOMs to the signatures nothing a run knows of the tags changes.
LEMMA PushReruns ==
  ASSUME PublishInv, RerunInv, NEW a \in Runs,
         AttachSBOM(a) \/ PushBundle(a) \/ SignItem(a) \/ SignSBOM(a)
  PROVE  RerunInv'
<1>0. PICK r : r = runs[a]
  BY Zenon
<1>1. /\ tags' = tags /\ r \in RunType /\ RunOK(r) /\ r.at \in Items
      /\ r.pc \in {"sbom", "bundle", "sign", "signSBOM"}
  BY <1>0, ZenonT(40) DEF PublishInv, TypeOK, RunType, AttachSBOM, PushBundle, SignItem, SignSBOM
<1>2. Running(a) /\ r.pc \notin Tagging /\ \A i \in Items : Planned(r, i)
  BY <1>0, <1>1 DEF Running, Over, Planned, Tagging
<1>3. PICK q :
        /\ runs' = [runs EXCEPT ![a] = q] /\ q.rev = r.rev /\ q.alone = r.alone
        /\ q.state = r.state /\ q.digest = r.digest
        /\ q.pc \in {"build", "bundle", "sign", "signSBOM", "tag"}
        /\ q.pc \in {"sign", "signSBOM", "tag"} => r.pc \in Working
        /\ q.pc \in {"build", "bundle"} =>
             r.pc = "sbom" /\ (q.pc = "build" => q.at = r.at + 1) /\ (q.pc = "bundle" => r.at = Artifacts)
  <2>1. CASE AttachSBOM(a)
    <3>1. PICK s : r.pc = "sbom" /\ runs' = [runs EXCEPT ![a] = Next1([r EXCEPT !.sbom[r.at] = {s}], r.at)]
      BY <1>0, <2>1, Zenon DEF AttachSBOM
    <3>2. PICK w, m, q : /\ w = [r.sbom EXCEPT ![r.at] = {s}] /\ m = [r EXCEPT !.sbom = w]
                         /\ q = Next1(m, r.at)
      BY Zenon
    <3>3. runs' = [runs EXCEPT ![a] = q]
      BY <3>1, <3>2
    <3>4. /\ m.rev = r.rev /\ m.alone = r.alone /\ m.state = r.state /\ m.digest = r.digest
          /\ DOMAIN m = DOMAIN r
      BY <1>1, <3>2, Zenon DEF RunType
    <3>5. \/ r.at = Artifacts /\ q = [m EXCEPT !.at = 1, !.pc = "bundle"]
          \/ q = [m EXCEPT !.at = r.at + 1, !.pc = "build"]
      BY <3>2, Zenon DEF Next1
    <3>6. DOMAIN m = {"pc", "at", "rev", "alone", "state", "digest", "sbom"}
      BY <1>1, <3>4, Zenon DEF RunType
    <3>7. CASE r.at = Artifacts /\ q = [m EXCEPT !.at = 1, !.pc = "bundle"]
      <4>1. /\ q.rev = r.rev /\ q.alone = r.alone /\ q.state = r.state /\ q.digest = r.digest
            /\ q.pc = "bundle"
        BY <3>4, <3>6, <3>7, Zenon
      <4> QED BY <3>1, <3>3, <3>7, <4>1, Zenon
    <3>8. CASE q = [m EXCEPT !.at = r.at + 1, !.pc = "build"]
      <4>1. /\ q.rev = r.rev /\ q.alone = r.alone /\ q.state = r.state /\ q.digest = r.digest
            /\ q.pc = "build" /\ q.at = r.at + 1
        BY <3>4, <3>6, <3>8, Zenon
      <4> QED BY <3>1, <3>3, <4>1, Zenon
    <3> QED BY <3>5, <3>7, <3>8
  <2>2. CASE PushBundle(a) \/ SignItem(a) \/ SignSBOM(a)
    <3>1. PICK q : /\ runs' = [runs EXCEPT ![a] = q]
                   /\ \/ q = [r EXCEPT !.pc = "sign"] \/ q = [r EXCEPT !.pc = "signSBOM"]
                      \/ q = Signed(r, r.at)
      BY <1>0, <2>2, Zenon DEF PushBundle, SignItem, SignSBOM
    <3>2. \/ q = [r EXCEPT !.pc = "sign"] \/ q = [r EXCEPT !.pc = "signSBOM"]
          \/ q = [r EXCEPT !.at = 1, !.pc = "tag"]
          \/ q = [r EXCEPT !.at = r.at + 1, !.pc = "sign"]
      BY <3>1, Zenon DEF Signed
    <3>3. /\ q.rev = r.rev /\ q.alone = r.alone /\ q.state = r.state /\ q.digest = r.digest
          /\ q.pc \in {"sign", "signSBOM", "tag"}
      BY <1>1, <3>2, ZenonT(40) DEF RunType
    <3>4. r.pc \in Working
      BY <1>0, <2>2, Zenon DEF PushBundle, SignItem, SignSBOM, Working
    <3> QED BY <3>1, <3>3, <3>4, Zenon
  <2> QED BY <2>1, <2>2, Zenon
<1>4. q.pc \notin Over /\ q.pc # "idle" /\ q.pc # "refused"
  BY <1>3 DEF Over
<1>5. \A i \in Items : i # Bundle /\ BuiltItem(q, i) => BuiltItem(r, i)
  <2> SUFFICES ASSUME NEW i \in Items, i # Bundle, BuiltItem(q, i) PROVE BuiltItem(r, i)
    OBVIOUS
  <2>1. CASE q.pc \in {"sign", "signSBOM", "tag"}
    BY <1>3, <2>1 DEF BuiltItem
  <2>2. CASE q.pc = "build"
    <3>1. r.pc = "sbom" /\ q.at = r.at + 1 /\ i < q.at
      BY <1>3, <2>2, Zenon DEF BuiltItem, Working, Tagging
    <3>2. i <= r.at
      BY <1>1, <3>1, ItemNumbers
    <3> QED BY <3>1, <3>2 DEF BuiltItem
  <2>3. CASE q.pc = "bundle"
    <3>1. r.pc = "sbom" /\ r.at = Artifacts
      BY <1>3, <2>3, Zenon
    <3>2. i <= Artifacts
      BY ItemNumbers
    <3> QED BY <3>1, <3>2 DEF BuiltItem
  <2> QED BY <1>3, <2>1, <2>2, <2>3
<1> QED BY <1>0, <1>1, <1>2, <1>3, <1>4, <1>5, RunKeepsPlan, Zenon

LEMMA TagReruns ==
  ASSUME PublishInv, RerunInv, NEW a \in Runs, ReadTag(a)
  PROVE  RerunInv'
<1>0. PICK r, i : r = runs[a] /\ i = TagItem(r.at)
  BY Zenon
<1>1. tags' = tags /\ r \in RunType /\ RunOK(r) /\ r.pc = "tag" /\ r.at \in Items
  BY <1>0, Zenon DEF PublishInv, TypeOK, ReadTag, RunType
<1>2. Running(a) /\ i \in Items /\ \A j \in Items : Planned(r, j) /\ BuiltItem(r, j)
  BY <1>0, <1>1, ItemNumbers, Zenon DEF Running, Over, Planned, BuiltItem, Working, Tagging
<1>3. PICK q : /\ runs' = [runs EXCEPT ![a] = q]
               /\ \/ q = Tagged(r, r.at) \/ q = [r EXCEPT !.pc = "write"]
                  \/ /\ q = Ended(r, "refused")
                     /\ r.state[i] = "absent" /\ tags[i] # NoDigest /\ tags[i] # r.digest[i]
  BY <1>0, Zenon DEF ReadTag
<1>4. /\ q.rev = r.rev /\ q.alone = r.alone
      /\ \/ q.pc = "done"
         \/ q.pc \in Tagging /\ q.state = r.state /\ q.digest = r.digest
         \/ q.pc = "refused" /\ r.state[i] = "absent" /\ tags[i] # NoDigest /\ tags[i] # r.digest[i]
  <2>1. CASE q = Ended(r, "done")
    BY <1>1, <2>1, EndedSame
  <2>2. CASE q = [r EXCEPT !.at = r.at + 1, !.pc = "tag"]
    BY <1>1, <2>2, Zenon DEF RunType, Tagging
  <2>3. CASE q = [r EXCEPT !.pc = "write"]
    BY <1>1, <2>3, Zenon DEF RunType, Tagging
  <2>4. CASE /\ q = Ended(r, "refused")
             /\ r.state[i] = "absent" /\ tags[i] # NoDigest /\ tags[i] # r.digest[i]
    BY <1>1, <2>4, EndedSame
  <2> QED BY <1>3, <2>1, <2>2, <2>3, <2>4, Zenon DEF Tagged
<1>5. q.pc = "refused" => Excused(a)
  <2> SUFFICES ASSUME q.pc = "refused" PROVE ~r.alone
    BY <1>0 DEF Excused
  <2>1. r.state[i] = "absent" /\ tags[i] # NoDigest /\ tags[i] # r.digest[i]
    BY <1>4 DEF Tagging
  <2>2. Knows(a, i)
    BY <1>2, Zenon DEF RerunInv
  <2> QED BY <1>0, <1>2, <2>1, <2>2 DEF Knows
<1>6. q.pc # "idle" /\ (q.pc \notin Over => q.pc \in Tagging /\ q.state = r.state /\ q.digest = r.digest)
  BY <1>4 DEF Over, Tagging
<1> QED BY <1>0, <1>1, <1>2, <1>3, <1>4, <1>5, <1>6, RunKeepsPlan, Zenon

LEMMA WriteReruns ==
  ASSUME PublishInv, RerunInv, NEW a \in Runs, WriteTag(a)
  PROVE  RerunInv'
<1>0. PICK r, i, d : r = runs[a] /\ i = TagItem(r.at) /\ d = r.digest[i]
  BY Zenon
<1>1. /\ tags' = [tags EXCEPT ![i] = d] /\ runs' = [runs EXCEPT ![a] = Tagged(r, r.at)]
      /\ r \in RunType /\ RunOK(r) /\ r.pc = "write" /\ r.at \in Items
      /\ tags \in [Items -> pushed \cup {NoDigest}]
  BY <1>0, ZenonT(40) DEF PublishInv, TypeOK, WriteTag, RunType
<1>2. /\ Running(a) /\ i \in Items /\ r.state[i] = "absent"
      /\ \A j \in Items : Planned(r, j) /\ BuiltItem(r, j)
  BY <1>0, <1>1, ItemNumbers,
  Zenon DEF RunOK, AtOK, Running, Over, Planned, BuiltItem, Working, Tagging
<1>3. tags'[i] = d /\ \A j \in Items : j # i => tags'[j] = tags[j]
  BY <1>1, <1>2, Zenon
<1>4. Origin(i, r.rev)'
  <2>1. i = Bundle => d = BundleDigest(r.rev)
    BY <1>0, <1>1, <1>2, Zenon DEF RunOK, PlanOK, Found
  <2>2. i # Bundle => d.rev = r.rev
    BY <1>0, <1>2, Zenon DEF RerunInv, Knows
  <2> QED BY <1>3, <2>1, <2>2 DEF Origin
<1>5. PICK q : q = Tagged(r, r.at)
  BY Zenon
<1>6. /\ q.rev = r.rev /\ q.alone = r.alone
      /\ \/ q.pc = "done"
         \/ q.pc = "tag" /\ q.state = r.state /\ q.digest = r.digest
  <2>1. CASE q = Ended(r, "done")
    BY <1>1, <2>1, EndedSame
  <2>2. CASE q = [r EXCEPT !.at = r.at + 1, !.pc = "tag"]
    BY <1>1, <2>2, Zenon DEF RunType
  <2> QED BY <1>5, <2>1, <2>2, Zenon DEF Tagged
<1>7. runs'[a] = q
  BY <1>1, <1>5, Zenon DEF PublishInv, TypeOK
<1>8. ASSUME Excused(a)' <=> Excused(a), q.pc \notin Over, NEW j \in Items
      PROVE  Knows(a, j)'
  <2>1. Knows(a, j) /\ Planned(r, j) /\ BuiltItem(r, j)
    BY <1>2, Zenon DEF RerunInv
  <2>2. q.pc = "tag" /\ q.state = r.state /\ q.digest = r.digest
    BY <1>6, <1>8, Zenon DEF Over
  <2>3. q.state[j] = "absent" /\ q.alone => tags'[j] = NoDigest \/ tags'[j] = q.digest[j]
    <3>1. CASE j = i
      BY <1>0, <1>3, <2>2, <3>1
    <3>2. CASE j # i
      BY <1>0, <1>3, <1>6, <2>1, <2>2, <3>2, Zenon DEF Knows
    <3> QED BY <3>1, <3>2
  <2> QED BY <1>0, <1>6, <1>7, <1>8, <2>1, <2>2, <2>3, Zenon DEF Knows, Tagging
<1>9. \A j \in Items : tags'[j] = tags[j] \/ Origin(j, runs[a].rev)'
  <2>1. Origin(i, runs[a].rev)'
    BY <1>0, <1>4, <1>6, <1>7
  <2> QED BY <1>3, <2>1, Zenon
<1>10. /\ q.pc # "idle" /\ q.pc # "refused" /\ runs' = [runs EXCEPT ![a] = q]
       /\ q.rev = runs[a].rev /\ q.alone = runs[a].alone
  BY <1>0, <1>1, <1>5, <1>6
<1>11. (Excused(a)' <=> Excused(a)) /\ q.pc \notin Over => \A j \in Items : Knows(a, j)'
  BY <1>8, Zenon
<1>12. q.pc = "refused" => Excused(a)
  BY <1>10
<1> QED BY <1>2, <1>9, <1>10, <1>11, <1>12, RunGoesOn, Zenon

LEMMA StartReruns ==
  ASSUME PublishInv, RerunInv, NEW a \in Runs, NEW v \in Revisions, Start(a, v)
  PROVE  RerunInv'
<1>1. /\ tags' = tags /\ runs \in [Runs -> RunType] /\ runs[a].pc = "idle"
      /\ \A b \in 1 .. a - 1 : runs[b].pc # "idle"
  BY Zenon DEF Start, PublishInv, TypeOK
<1>2. /\ runs'[a].pc = "plan" /\ runs'[a].rev = v /\ runs'[a].alone = (\A c \in Runs : ~Running(c))
      /\ \A i \in Items : runs'[a].state[i] \notin {"absent", "conflict"}
  <2>1. runs'[a] = [Idle EXCEPT !.pc = "plan", !.rev = v, !.alone = \A c \in Runs : ~Running(c)]
    BY Zenon DEF Start
  <2> QED BY <2>1 DEF Idle
<1>3. \A b \in Runs : b # a =>
        /\ runs'[b].pc = runs[b].pc /\ runs'[b].rev = runs[b].rev
        /\ runs'[b].alone = (runs[b].alone /\ ~Running(b)) /\ runs'[b].at = runs[b].at
        /\ runs'[b].state = runs[b].state /\ runs'[b].digest = runs[b].digest
  <2> SUFFICES ASSUME NEW b \in Runs, b # a
               PROVE  /\ runs'[b].pc = runs[b].pc /\ runs'[b].rev = runs[b].rev
                      /\ runs'[b].alone = (runs[b].alone /\ ~Running(b)) /\ runs'[b].at = runs[b].at
                      /\ runs'[b].state = runs[b].state /\ runs'[b].digest = runs[b].digest
    BY Zenon
  <2>1. PICK x : x = (runs[b].alone /\ ~Running(b))
    BY Zenon
  <2>2. runs'[b] = [runs[b] EXCEPT !.alone = x]
    BY <2>1, Zenon DEF Start
  <2>3. runs[b] \in RunType
    BY <1>1
  <2> QED BY <2>1, <2>2, <2>3, Zenon DEF RunType
<1>4. \A b \in Runs : b \in Nat /\ \A c \in Runs : c < b \/ c = b \/ b < c
  BY RunsAssumption DEF Runs
<1>5. \A b \in Runs : a < b => runs[b].pc = "idle"
  BY <1>1 DEF RerunInv, InOrder
<1>6. InOrder'
  <2> SUFFICES ASSUME NEW x \in Runs, NEW y \in Runs, y < x, runs'[y].pc = "idle"
               PROVE  runs'[x].pc = "idle"
    BY DEF InOrder
  <2>1. y # a /\ runs[y].pc = "idle"
    BY <1>2, <1>3
  <2>2. y \notin 1 .. a - 1
    BY <1>1, <2>1
  <2>3. x # a
    BY <2>2, RunsAssumption DEF Runs
  <2> QED BY <1>3, <2>1, <2>3, Zenon DEF RerunInv, InOrder
<1>7. Alone'
  <2> SUFFICES ASSUME NEW x \in Runs, NEW y \in Runs, runs'[x].alone, Running(x)', y # x
               PROVE  ~Running(y)' /\ (x < y => runs'[y].pc = "idle")
    BY DEF Alone
  <2>1. x = a
    BY <1>3, Zenon DEF Running
  <2>2. ~Running(y) /\ runs'[y].pc = runs[y].pc
    BY <1>2, <1>3, <2>1, Zenon
  <2> QED BY <1>5, <2>1, <2>2 DEF Running
<1>8. TagsFromRuns'
  <2> SUFFICES ASSUME NEW i \in Items, tags'[i] # NoDigest
               PROVE  \E b \in Runs : runs'[b].pc # "idle" /\ Origin(i, runs[b].rev)'
    BY Zenon DEF TagsFromRuns
  <2>1. PICK b \in Runs : runs[b].pc # "idle" /\ Origin(i, runs[b].rev)
    BY <1>1 DEF RerunInv, TagsFromRuns
  <2>2. runs'[b].pc # "idle" /\ runs'[b].rev = runs[b].rev
    BY <1>1, <1>3, <2>1, Zenon
  <2> QED BY <1>1, <2>1, <2>2 DEF Origin
<1>9. ASSUME NEW b \in Runs, b # a
      PROVE  /\ runs'[b].pc = "refused" => Excused(b)'
             /\ Running(b)' => \A i \in Items : Knows(b, i)'
  <2>1. /\ runs'[b].pc = runs[b].pc /\ runs'[b].rev = runs[b].rev /\ runs'[b].at = runs[b].at
        /\ runs'[b].alone <=> runs[b].alone /\ ~Running(b)
        /\ runs'[b].state = runs[b].state /\ runs'[b].digest = runs[b].digest
    BY <1>3, <1>9, Zenon
  <2>2. ASSUME runs'[b].pc = "refused" PROVE Excused(b)'
    <3>1. Excused(b) /\ ~(a < b)
      BY <1>5, <2>1, <2>2, Zenon DEF RerunInv
    <3>2. \A c \in 1 .. b - 1 : runs'[c].rev = runs[c].rev
      <4>1. \A c \in 1 .. b - 1 : c \in Runs /\ c # a
        BY <3>1, RunsAssumption DEF Runs
      <4> QED BY <1>3, <4>1
    <3> QED BY <2>1, <3>1, <3>2, Zenon DEF Excused
  <2>3. ASSUME Running(b)', NEW i \in Items PROVE Knows(b, i)'
    <3>1. Running(b) /\ ~runs'[b].alone
      BY <2>1, <2>3, Zenon DEF Running
    <3>2. Excused(b)' /\ Knows(b, i)
      BY <3>1, Zenon DEF Excused, RerunInv
    <3>3. (BuiltItem(runs[b], i))' = BuiltItem(runs[b], i)
      BY <2>1, Zenon DEF BuiltItem
    <3> QED BY <2>1, <3>1, <3>2, <3>3, Zenon DEF Knows
  <2> QED BY <2>2, <2>3, Zenon
<1>10. /\ runs'[a].pc # "refused"
       /\ \A i \in Items : Knows(a, i)'
  BY <1>2, Zenon DEF Knows
<1> QED BY <1>6, <1>7, <1>8, <1>9, <1>10, Zenon DEF RerunInv

LEMMA RerunInvHolds == Spec => []RerunInv
<1>1. Init => RerunInv
  <2> SUFFICES ASSUME Init PROVE RerunInv
    OBVIOUS
  <2>1. (\A a \in Runs : runs[a].pc = "idle") /\ \A i \in Items : tags[i] = NoDigest
    BY Zenon DEF Init, Idle
  <2>2. \A a \in Runs : ~Running(a)
    BY <2>1 DEF Running, Over
  <2> QED BY <2>1, <2>2 DEF RerunInv, InOrder, Alone, TagsFromRuns
<1>2. PublishInv /\ RerunInv /\ [Next]_vars => RerunInv'
  <2> SUFFICES ASSUME PublishInv, RerunInv, [Next]_vars PROVE RerunInv'
    OBVIOUS
  <2>1. ASSUME NEW a \in Runs, Step(a) PROVE RerunInv'
    BY <2>1, PlanReruns, AdoptReruns, BuildReruns, PushReruns, TagReruns, WriteReruns, Zenon DEF Step
  <2>2. ASSUME NEW a \in Runs, Stop(a) PROVE RerunInv'
    <3>1. PICK q : q = Ended(runs[a], "stopped")
      BY Zenon
    <3>2. runs' = [runs EXCEPT ![a] = q] /\ tags' = tags /\ Running(a) /\ runs[a] \in RunType
      BY <2>2, <3>1, Zenon DEF Stop, PublishInv, TypeOK
    <3>3. q.pc = "stopped" /\ q.rev = runs[a].rev /\ q.alone = runs[a].alone
      BY <3>1, <3>2, EndedSame
    <3>4. q.pc # "idle" /\ q.pc # "refused" /\ q.pc \in Over
      BY <3>3 DEF Over
    <3> QED BY <3>2, <3>3, <3>4, RunKeepsPlan, Zenon
  <2>3. ASSUME NEW a \in Runs, NEW v \in Revisions, Start(a, v) PROVE RerunInv'
    BY <2>3, StartReruns
  <2>4. CASE UNCHANGED vars
    <3>1. tags' = tags /\ runs' = runs
      BY <2>4 DEF vars
    <3>2. InOrder' /\ Alone' /\ TagsFromRuns'
      BY <3>1, Zenon DEF RerunInv, InOrder, Alone, TagsFromRuns, Origin, Running
    <3>3. \A a \in Runs : /\ runs'[a].pc = "refused" => Excused(a)'
                          /\ Running(a)' => \A i \in Items : Knows(a, i)'
      <4>1. \A a \in Runs : Excused(a)' <=> Excused(a)
        BY <3>1, Zenon DEF Excused
      <4>2. ASSUME NEW a \in Runs, NEW i \in Items, Knows(a, i)
            PROVE  Knows(a, i)'
        <5>1. /\ Planned(runs[a], i)' <=> Planned(runs[a], i)
              /\ BuiltItem(runs[a], i)' <=> BuiltItem(runs[a], i)
          BY <3>1, Zenon DEF Planned, BuiltItem
        <5>2. runs'[a] = runs[a] /\ tags'[i] = tags[i] /\ (Excused(a)' <=> Excused(a))
          BY <3>1, <4>1, Zenon
        <5>3. runs'[a].state[i] = "conflict" => Excused(a)'
          BY <4>2, <5>2, Zenon DEF Knows
        <5>4. runs'[a].state[i] = "absent" /\ runs'[a].alone /\ Planned(runs[a], i)' =>
                tags'[i] = NoDigest \/ (runs'[a].pc \in Tagging /\ tags'[i] = runs'[a].digest[i])
          BY <4>2, <5>1, <5>2, Zenon DEF Knows
        <5>5. runs'[a].state[i] = "absent" /\ i # Bundle /\ BuiltItem(runs[a], i)' =>
                runs'[a].digest[i].rev = runs'[a].rev
          BY <4>2, <5>1, <5>2, Zenon DEF Knows
        <5> QED BY <5>3, <5>4, <5>5, Zenon DEF Knows, Tagging
      <4> QED BY <3>1, <4>1, <4>2, Zenon DEF RerunInv, Running
    <3> QED BY <3>2, <3>3 DEF RerunInv
  <2> QED BY <2>1, <2>2, <2>3, <2>4 DEF Next
<1> QED BY <1>1, <1>2, PublishInvHolds, PTL DEF Spec

\* For any of these: a publish is refused only when another was under way with
\* it or an earlier one was from another commit (MakePlan, adoptOnlySigned, tag).
THEOREM RefusedForAReason == Spec => []RerunFinishes
<1>1. RerunInv => RerunFinishes
  BY Zenon DEF RerunInv, Excused, RerunFinishes
<1> QED BY <1>1, RerunInvHolds, PTL
=============================================================================
