# Pacto in TLA+

Pacto publishes service contracts to OCI registries. Its command line, dashboard
and Kubernetes operator read them; its opt-in *delivery* moves the versions a
cluster runs and keeps a signed record of every move. This project models the
parts of Pacto that keep state, share it between concurrent actors or must
survive a stop half way.

| module | what it is |
|---|---|
| `Lifecycle` | the rules of delivery: who may raise what, what a plan predicts, what a conclusion does to a Stage (`pkg/delivery`) |
| `Promoter` | the promoter on one Stage: the operation reconciler, the stage reconciler, the caches they read and the people and GitOps around them (`integrations/kubernetes/internal/delivery`) |
| `Stream` | what the promoter promises the recorder: a log of numbered conclusions, abstractly |
| `Recorder` | the recorder of one Stage, request by request, with the promoter of `Stream` (`recorder.go`, `recordstore.go`) |
| `Resolver`, `ResolverCycles` | the dependency resolver and its cycle pass (`pkg/graph/resolver.go`) |
| `Publish` | `pacto publish` (`pkg/publish`) |
| `SnapshotManager` | the snapshot the dashboard's server builds and swaps in (`pkg/fleet/manager.go`) |
| `Paging`, `Page` | the dashboard in the browser: pages of a list, its loader and App's polling (`pkg/dashboard/frontend/src`) |
| `Dashboard` | the last three composed: source, server and page |
| `MC*` | small instances for TLC, with their `.cfg` files |
| `*_proofs` | theorems for every value of the constants (section 6) |

Check a run with `tlc -config MCPromoter_people.cfg MCPromoter` and the proofs with
`tlapm` on each `*_proofs.tla`.

## 1. Inventory

`PROJECT.json` lists every part with its sources and, where it is not modelled, why.

| part | state | operations | what is hard |
|---|---|---|---|
| operation reconciler | Operation status; pointer lock, pointer, stream and memories in the Stage status | admit, plan, hold, lock, move, apply, verify, preempt, conclude | several workers; cached reads; every write may be the last before a restart |
| stage reconciler | Stage status | witness an edit, promote, re-check, re-raise, shadow | acts on what it read minutes ago; raises Operations under derived names |
| lifecycle rules | none of their own | effects on the Stage | sequences of legal conclusions |
| applier access | digest of the OCIRepository or Application | fresh read, patch, three answers of an apply | the patch carries no resource version |
| recorder | chain of signed records in the registry; `recordedSeq`, head | record, gap, leftover, advance, release | a pass lost between push and advance; numbers that come late |
| dependency resolver | visited, errors and pending maps | resolve an edge, wait, fail | parallel branches that share a fetch; cycles split over them |
| publish | registry | plan, build, push, attach, sign, tag | a run that stops half way; two runs at once |
| fleet snapshot manager | current snapshot, build in flight | refresh, read | the order of publications; one build led by one request |
| dashboard page | question, answer, intervals | poll, ask, draw, page | late answers; a decision after an await |
| evidence store, bundle cache, runtime watch | registry, disk, view of processes | | see section 7 |

The remaining parts (contract model, validation, diff, impact, lock file,
documentation, command line, terminal UI, other views) are functions of their
inputs or pure I/O.

A person, an agent or the stage reconciler creates an **Operation** (promote,
rollback, override, freeze, unfreeze, autonomy). The operation reconciler admits
it, plans it, holds it for approvals when the plan asks for a person, takes the
**pointer lock** of the Stage, moves the pointer, patches the applier, waits for
the apply and runs the verify gates. It concludes in two writes: a
compare-and-swap on the **Stage**, which gives the conclusion the next number of
the Stage's *stream* and applies its effects, and the Operation's own status. A
failed promote first raises its one rollback and, on an automatic level, a step
down the autonomy ladder (observe < advise < auto-nonbreaking < autonomous). The
stage reconciler looks, in this order, for an edit of the applier, a failed or
lost re-check, what GitOps runs on observe, and a candidate to promote. The
recorder turns the numbered conclusions into a chain of signed records and holds
each Operation by a finalizer until its record exists.

Controllers never reconcile one object concurrently with itself, but different
objects do (`--workers`, default 4). Reads come from an informer cache unless the
code asks the apiserver. A Stage is written only by compare-and-swap after a
fresh read; an Operation only if the copy that was read is still current.

The other three systems meet delivery in the registry only: `pacto publish` puts
there what delivery moves, the resolver fetches contracts from it, and the
dashboard reads all of it into a snapshot.

## 2. Delivery: the promoter

| variable | code |
|---|---|
| `stage` | `Stage.status`: pointer, pointer lock, level, freeze, auto-hold, stream number and last conclusions, memories of verified, failed and rolled back versions, last re-check |
| `ops` | the Operations of the Stage, by uid in creation order: spec, phase, applied flag, whether a person approved, outcome |
| `digest` | what the applier carries |
| `run`, `sr` | how far the reconcile in flight of each Operation, and of the Stage, has got between two writes, and what it has decided |
| `cops`, `cstage` | the informer caches, snapshots of an earlier state |
| `edits`, `aborts` | counters for the bounds |
| `history` | auxiliary: the uid of every conclusion the Stage ever took |

A step is the stretch of a handler up to and including one write that others can
see. What the handler only reads is read where the code reads it: `Known` and
`KStage` from the cache, `stage` and `ops` from the apiserver. `Advance(o)`
collects the steps of the operation reconciler:

- `Admit`, `PreApplyExit`, `Supersede`, `FreezeOrUnfreeze`, `Pend`, `HeldReject`,
  `HeldAskAgain`, `HeldApprove`: up to the plan that lets an Operation go on;
- `Lock`, `LockRefused`, `LockWaits`: the compare-and-swap on the lock, a step after
  the plan, which looks at the stored Stage's conclusions, lock, freeze and pointer and
  at nothing else the plan looked at;
- `WriteRunning`, `MoveSwap`, `WriteApplied`, `ReadBefore`, `Patch`,
  `ForeignWriter`, `ApplyFailed`, `NotAppliedYet`, `AppliedOk`: the move and the apply;
- `Preempted`, `Verify`, `VerifyDeadline`, `HeldDecision`: the judgement;
- `Finish`, `RaiseOwed`, `Swap`, `SwapAgain`, `WriteConcluded`: `finish`, one step
  for each write. `Swap` is the compare-and-swap with all its effects
  (`ApplyEffects`), `SwapAgain` the branch for an Operation that has its number.

`StageStarts` and `StageGoesOn` collect the stage reconciler's; an automatic promote is
chosen on the Stage the reconcile started with (`AutoRead`) and created once the list of
Operations, read later, has none open (`AutoRaise`). `Abort` and
`SrAbort` lose a reconcile between any two writes: an error, a conflict, a
restart. `Request`, `Squat` and `Edit` are people, agents and GitOps;
`CatchUpOps` and `CatchUpStage` let a cache catch up.

Abstractions:

- A version is a model value. What gates read (contracts, the graph of consumers,
  evidence, probes) is left out: a gate gives any verdict its type allows
  (`GateVerdicts`), so every order of verdicts is explored.
- What a candidate source offers is any version but the one that runs and the failed
  ones; `FromUpstream` tells a Stage that follows another, which may be offered a version
  it verified before, from one that follows tags.
- Approvals of several teams are one answer, preceded by any number of answers
  that do not settle it. Cancelling and the approval deadline end an Operation the
  same way and are one action; time is left out, so a deadline may pass at any time.
- A re-check that passes and one that stays Unknown write the same kind of
  `lastCheck` and are one action.
- The memories of versions are sets: their caps (10, 50 and 50 entries) are left
  out. The memory of conclusions keeps its cap, `MaxConcluded`.
- A cache of Operations is one snapshot, since one watch delivers all changes in
  order. `StageLag` also stands for a Stage reconcile that holds its copy for
  minutes while gates run.

## 3. Delivery: the recorder

`Stream` is the promoter as its readers see it: an Operation takes the next number
of the Stage (`Take`), writes it into its own status in a later request (`Write`),
or loses the reconcile in between (`Lose`) and takes the same number again
(`TakeAgain`) while the Stage remembers it. `Promoter` implements it
(`ImplementsStream`, checked in `crash` and proved), with `history` for the log, the
reconciles between the swap and the status write for `taking`, and the concluded
Operations for `written`. `Recorder` has those four steps as its promoter, so the
two modules together say what each relies on in the other.

A pass reads the Stage (`ReadStage`), lists the Operations (`ListOperations`:
what is owed, what is late, the gaps, the leftovers of an earlier Stage), lists the
records and refuses a chain in conflict (`ListRecords`), then takes its items one by
one: `RecordItem` adopts the record the registry holds or pushes a new one at the
end of the chain, `Advance` swaps `recordedSeq` and the head, `NameRecord` and
`Release` write the record into the Operation and take the finalizer off. Each is a
request of its own; between any two the promoter goes on, and these faults happen:
a pass or a reconcile is lost (`LosePass`, `Lose`), someone strips a finalizer, an
Operation is deleted, the registry loses a record, the Stage is recreated under its
name, the cluster goes back to a backup while the registry does not. `GraceEnds`
ends the grace a gap is given.

Left out: the contents of records and their signatures, records that stand in for
ones too large or refused, copies of a record outside the anchor, upstream
acknowledgements, a second cluster taking the stream over, pushes that land after
the pass that made them was lost, deletion timestamps.

## 4. Resolver, publish, dashboard

**`Resolver`.** `resolveEdge` runs once per edge, siblings in parallel. A call is
known by its place, the positions of the edges on the way down from the root. One
action per critical section: `Cut` (an edge back to an ancestor), `Share` (already
fetched), `Wait` and `Wake` (someone is fetching it), `Fetch`, then `Fetched` or
`FailEdge`, and `Return` once the children are back. `ResolverCycles` has
`detectCycles` as written, a depth-first walk over the finished graph with its colours
and its set of walked contracts, and a reference definition to compare it with.
Bases and constraints are left out, so a reference names one contract.

**`Publish`.** A run plans (`MakePlan` reads the tags one after the other, `Decide`
sorts each), refuses to adopt what is unsigned (`AdoptOnlySigned`), builds and
pushes what is absent (`BuildAndPush`, `AttachSBOM`, `PushBundle`), signs
(`SignItem`, `SignSBOM`) and writes the tags in the code's order (`TagItem`: the
deploy artifact's last, where there is one), each after reading it again (`ReadTag`,
`WriteTag`: two requests, since a registry has no compare-and-swap on tags). `Stop`
ends a run anywhere. A digest is what determines it: item, revision, the build
(unless builds repeat) and the digests built into it, so whether two runs made the
same thing is a question of equality. `Deploy` = 0 is a contract without a deploy
artifact, `Artifacts` = 0 one that publishes its bundle only. Left out: the checks
before a plan, which only refuse; a contract directory that changes under a run,
which ends it (`Stop`); writes that land after their run stopped.

**`SnapshotManager`, `Page`, `Paging`, `Dashboard`.** `Refresh` leads a build or
waits for the one in flight; `Build` ends it and frees the place of the build in
flight, `Publish` swaps the snapshot in afterwards, `Fail` and `GiveUp` are its error
and a waiter whose context is done; the ticker's own builds may fail as well. In the
browser, `Begin`, `ReadSources` and `End` are a pass of `loadGlobal` before, between and
after its awaits, `ToggleAutoReload` the switch, `Run` the loader's
`run` with its generation, `DeliverNewest` and `DeliverLate` its answers, `Answer`
and `ViewState` what the view draws (`answer`, `snapshotKnowledge`,
`decideViewState`, `pastEnd`). `Paging` has `Paginate`, `pageView`, `offsetOfPage`
and `clientPage` as functions. `Dashboard` puts one source, the ticker, the server and
one page together; a source is how many rows it holds and whether a build could read
it. A question is answered from the snapshot published (`Serve`); one that comes before
the first snapshot leads the build or waits for the one in flight, gets its error, or is
answered when it is over (`ServeFirst`). Left out: sign-in, hosts without a fleet, views
that unmount, a second pass of `loadGlobal` beside the first, and how many superseded
requests are under way (`superseded`: some is), which can only be dropped.

## 5. Runs

A system that is done does nothing more, so deadlock is not an error in any run.

| run | instance | checks | distinct states |
|---|---|---|---|
| `people` | one promote by automation behind an upstream Stage, one request by a person, names taken | `TypeOK`, `FailureAttended` | 304,043 |
| `crash` | one promote by automation behind an upstream Stage, two workers, lagging cache of Operations, one lost reconcile, a memory of two | `OneConclusion`, `ConclusionAgrees`, `FailureAttended`, `PatchUnderLock`, `StepDownRaisedFirst`, `ImplementsStream` | 252,742 |
| `stale_stage` | lagging cache of Stages, two workers, two lost reconciles, one promote by a person, edits of the Stage's spec | `HolderOwnsPointer`, `VerifiedWhileHeld`, `RollbackRaisedFirst` | 211,379 |
| `ladder` | two level changes, overrides or unfreezes from observe, one edit, two workers | `HolderOwnsPointer`, `PatchUnderLock`, `PointerMovesAsPlanned`, `LevelsClimbByPeople` | 334,708 |
| `settles` | fairness, one request on advise, one edit, one lost reconcile | `EveryOperationEnds`, `FailureIsLeft`, `EditIsWitnessed` | 119,113 |
| `recorder` | fairness, two Operations that may conclude again, two faults of a plan, or a backup restored, a memory of one | `ChainHolds`, `RecordedOnce`, `LetGoOnceRecorded`, `RecordedSeqEarned`, `GapIsGone`, `HeadFastForwards`, `CatchesUp` | 578,696 |
| `resolver` | fairness, all graphs of three contracts with at most two dependencies each below a root, one failed fetch | `ResolvedOnce`, `NeverLost`, `EverythingResolved`, `CyclesAreFound`, `GraphIsBuilt` | 234,073 |
| `publish` | an image with an SBOM and a chart, three commits of which two share a contract, three runs, two at once | `CommitPoint`, `TaggedIsComplete`, `VersionIsOne`, `RerunFinishes` | 938,091 |
| `dashboard` | fairness, one source that gets a row, a list, its second page and a filter, one fault | `ShownAnswersQuestion`, `EmptyIsKnown`, `OneTimer`, `LinksLeadSomewhere`, `RowIsPublished`, `RowReachesPage` | 431,556 |
| `own_rollback`, `failed_again`, `passed_over` | violated, see below | `FailureRemembered`, `FailedNotTriedAgain`, `InSeqOrder` | |

What they say of the system:

- *The stream.* An Operation is numbered once (`OneConclusion`), the Operation and the
  stream name the same conclusion (`ConclusionAgrees`), and the promoter keeps the
  promise the recorder reads (`ImplementsStream`).
- *The pointer.* One Operation at a time moves a Stage (`HolderOwnsPointer`), the
  applier is patched by the holder of the lock, but for what was concluded before a
  reconcile was lost and what a lagging cache still shows running
  (`PatchUnderLock`), the pointer moves as planned (`PointerMovesAsPlanned`), and an
  Operation is credited only for a version it still held (`VerifiedWhileHeld`).
- *Failure.* What a failure owes is raised before it is concluded
  (`RollbackRaisedFirst`, `StepDownRaisedFirst`); a failed version is left, or the
  Stage frozen (`FailureAttended`, `FailureIsLeft`). That it is remembered and not tried
  again does not hold: see the disagreements.
- *People.* Levels climb only with them (`LevelsClimbByPeople`), edits outside the
  promoter are noticed (`EditIsWitnessed`), every Operation ends.
- *The chain.* It never forks (`ChainHolds`), nothing is recorded twice
  (`RecordedOnce`), a late number is no gap (`GapIsGone`), an Operation is let go only
  once recorded (`LetGoOnceRecorded`), the head only moves forward, and the recorder
  catches up with whatever was lost (`CatchesUp`).
- *The graph.* Each contract is fetched once and nothing is missed; nobody waits for
  ever although branches wait for each other around cycles; the cycle pass finds a
  cycle exactly when there is one, and reports cycles only (`CyclesAreFound`). That
  is less than "every dependency cycle" of `resolver.go:415`: where a needs b and c,
  b needs c and c needs a, there are two cycles and the walk reports one.
- *A version.* The deploy artifact's tag is the commit point; what is tagged is
  signed; a version is one build unless two runs raced into the documented window
  between reading and writing a tag; a rerun is refused only for a reason outside it.
- *The page.* It shows the answer to its question however answers are reordered; it
  says a fleet is empty only when that is known; it never leaves an interval behind;
  its links lead to rows. A new row is published for good although an older snapshot may
  be published over a newer one (`RowIsPublished`), and comes to a page that reloads
  itself unless from some time on no answer arrives before the next pass voids it
  (`RowReachesPage`).

### Bounds

*Promoter.* Two digests give a version before, one after, and the way back; the
failed version can only be met again as the same one. `MaxRaised` = 1 lets
automation ship one version, whose failure raises a rollback, a freeze and a
step-down, so up to four Operations exist. In `crash`, `ladder` and `stale_stage`
two workers let two Operations be between any two of their writes. One lost
reconcile reaches every pair of writes, since the retry starts from the stored
state. Larger instances that take longer than a run should were checked once and
hold: `crash` with two lost reconciles (2,192,013 states) and `settles` with two
workers (533,481). `MaxConcluded` is 3 (20 in the code), and 2 in `crash`, where
forgetting happens. *Recorder.* Two Operations that may each conclude again give a
chain with a gap in the middle. `FaultPlans` groups the faults: lost passes and
reconciles with a recreated Stage, lost passes with stripped finalizers and lost
records, and a restore alone, since the backup may be taken at any time; the proofs
cover every set of plans. *Resolver.* Three contracts are enough for a diamond, a
cycle through the root and one split over two branches, which needs two contracts
and two ways in. *Publish.* Two artifacts, one with an SBOM and one that is
deployed, tell all roles apart; three runs let two race and a third find what they
left; without a deploy artifact (1,005,059 states) and without artifacts (21,333)
the same properties hold. *Dashboard.* One row takes the list from empty to not
empty; `Paging` is looked at for lists up to three rows longer than the one on
screen and pages of one and two rows, which has full and half-full last pages and
offsets past the end. One fault is a source not read, a build failed, a waiter gone
or an answer lost. The browser has one call of `Refresh` at a time, for a question
or for the reader's refresh; with one for each, the properties held on 2,245,806
states. No symmetry is used: the model values play different parts from the start.

### Fairness

- `settles`: some Operation goes on while one can (`WF` on all of `Advance`: the
  work queue retries, the deadlines pass), and what waits time and again before its
  apply comes to its deadline (strong fairness of `PreApplyExit`, which every
  reconcile of a waiting Operation asks first, `operation.go:229`); a Stage
  reconcile in flight ends; caches catch up; and strong fairness of `WitnessRead`
  and `Reraise`, because every periodic Stage reconcile looks for an edit and then
  for a lost rollback before anything else (`stage.go:176-198`), so what is there
  time and again is acted on. Requests, edits, lost reconciles and automatic
  promotes are not fair.
- `recorder`: the work queue retries a pass, a grace ends, and the promoter retries a
  conclusion until its Operation says so.
- `resolver`: the Go scheduler runs what can run, and a fetch returns.
- `dashboard`: ticker and interval go on, builds and passes end, the server answers, and
  an answer that is not voided arrives, all weakly fair. Every poll voids the request
  before it, and nothing in the code makes an answer arrive within an interval; a server
  slower than that never updates the page, which is the last case of `RowReachesPage`.

### Disagreements

Three runs show that the code does not keep what a comment or a document says. Each
is a finding in `PROJECT.json` with the line it quotes.

| run | property | what happens |
|---|---|---|
| `own_rollback` | `FailureRemembered` | With two workers the rollback that a failed promote raised takes the lock before the promote's own swap. The promote then concludes Succeeded, Unverified, and its version is not among the failed ones. |
| `failed_again` | `FailedNotTriedAgain` | Whether the target of a rollback failed is asked when the rollback is admitted. Before it takes the lock that very version is promoted, fails and is remembered; the lock compares only the pointer, and the rollback puts the failed version back. |
| `passed_over` | `InSeqOrder` | Two Operations conclude between the pass's read of the Stage and its list of the Operations, the first not yet in its status. The second is recorded and `recordedSeq` passes both; the first is recorded after it. |

`failed_again` takes three requests to reach, so the instance leaves out what plays no
part in it (`Straight`: holds, Operations that never run, the Stage's own reconciles).

What else was met while modelling, without a run of its own:

- The plan refuses a failed version, the lock does not: a promote planned before its
  version failed may ship it again. If it passes, the Stage runs a version it remembers
  as failed (`PassedSince`, which `FailureAttended` and `FailureIsLeft` let through). On a
  lagging cache of Stages so may a promote whose own failure is concluded.
- A reconcile that is lost after the Stage took its conclusion leaves an Operation
  that still reads Running or Verifying and may patch the applier once more without
  the lock; so may one that reads an old copy of its Operation. `PatchUnderLock`
  names the two.
- A rollback that took the lock, lost its reconcile and then expired leaves the promote
  concluded as Succeeded, Unverified, and its version running.
- A Stage lowered to observe while a promote holds the lock is still moved by it.
- A failed promote retried after its step-down ran computes another step-down, takes
  its own Operation for someone else's and freezes the Stage.
- An automatic rollback that expires leaves the failed version running and the Stage
  unfrozen; `FailureAttended` is `RolledBackOrFrozen` without this and the first case.
- A re-check that passes on a Stage read before a failed one overwrites the failing
  `lastCheck`, and nobody raises the lost rollback again (against `stage.go:703`).
- A Stage recreated while a pass is between two writes gets the number of the old one
  as its `recordedSeq`: `casStage` reads by name and compares no uid (against
  `recorder.go:118`). `RecordedSeqEarned` excludes it with `torn`.
- The inline "cycle detected" mark of an edge depends on which branch came first, so
  it is not the same as the mark of `detectCycles` (against `resolver.go:332`); the
  set of cycles is. A reference whose fetch failed is fetched again by later branches.
- Two publishes that race between a tag's read and its write overwrite a tag (the
  window `apply.go:163-165` names). Two racing commits, one of which stops, can leave
  a version that neither can finish.
- A snapshot built earlier may be published over one built later, since the build in
  flight is forgotten first; the next tick repairs it. A build led by a request fails
  for everyone who waits when that request is cancelled.
- Two passes of `loadGlobal` at once: the one that ends first clears `refreshing`, and
  polls stack on the other (against `App.svelte:96-100`).
- `AcceptedAt` of a piece of evidence is stamped before the store's lock is taken, so
  of two reports at once the one with the lower sequence can become the latest. A push
  that landed without an answer is refused as a replay when it is retried.

## 6. Proofs

Proved for every value of the constants that the named assumptions allow: any
digests, workers, switches, Operations, graphs, artifacts, commits, runs, pages, list
lengths and numbers of faults. TLC evaluates the assumptions in the runs.

| module | theorem | says | rests on |
|---|---|---|---|
| `PromoterTypes_proofs` | `TypeCorrect` | `[](TypeOK /\ OnlyPointerOpsMove)` | the two together |
| `PromoterStream_proofs` | `ConcludedOnce` | `[](LastRemembered /\ OneConclusion)` | `TypeCorrect` |
| | `PromoterRefinesStream` | `ImplementsStream` | the above and `InFlight` |
| `PromoterLock_proofs` | `HolderIsOwner`, `PointerMoves` | `[]HolderOwnsPointer`, `PointerMovesAsPlanned` | the above and `LockInv` |
| | `VerifiedByHolder`, `PeopleRaiseLevels` | `VerifiedWhileHeld`, `LevelsClimbByPeople` | the same |
| `PromoterConclusions_proofs` | `ConclusionsAgree` | `[]ConclusionAgrees` | the above and `AgreeInv` |
| | `PatchesUnderLock` | `[]PatchUnderLock` | the above and `NothingLost` |
| | `RollbacksFirst`, `StepDownsFirst` | `RollbackRaisedFirst`, `StepDownRaisedFirst` | the above and `OwedInv` |
| `Recorder_proofs` | `ChainNeverForks`, `NothingRecordedTwice` | `[]ChainHolds`, `[]RecordedOnce` | `TypeInv`, `ChainInv` |
| | `HeadOnlyForward` | `HeadFastForwards` | the above and `HeadInv` |
| | `LetGoIsRecorded` | `[]LetGoOnceRecorded` | `ReleaseInv` |
| | `PassedIsRecorded`, `OnlyGapsRecorded` | `[]RecordedSeqEarned`, `GapIsGone` | `ReleaseInv` and `EarnedInv`, `GapInv` |
| `Resolver_proofs` | `FetchedOnce`, `WaitersAreAnswered` | `[]ResolvedOnce`, `[]NeverLost` | `Inv` |
| `Publish_proofs` | `DeployTagCommits`, `TagsAreSigned`, `OneBuildPerVersion` | `[]CommitPoint`, `[]TaggedIsComplete`, `[]VersionIsOne` | `PublishInv` |
| | `RefusedForAReason` | `[]RerunFinishes` | `PublishInv` and `RerunInv` |
| `Dashboard_proofs` | `PagerIsRight` | `PagerLeads` for every list, offset and page size | arithmetic of `\div` |
| | `ScreenAnswersURL`, `NoStrayInterval` | `[]ShownAnswersQuestion`, `[]OneTimer` | `DashboardInv` |
| | `EmptyWasRead`, `LinksNeverDangle` | `[]EmptyIsKnown`, `[]LinksLeadSomewhere` | `DashboardInv`, and `PagerIsRight` |

- *Types of the promoter.* `TypeOK` is not inductive. An Operation on the level has
  levels where others have versions, so the type of the pointer depends on no level
  change ever moving it, hence on none taking the lock, verifying, being the Stage's
  last Operation or being checked again, and on the cache holding the same kind of
  Operation under the same uid: `OnlyPointerOpsMove`. `OpStep`, `StageStep` and
  `CreateStep` say which changes keep both; the lemmas of the actions reduce to them.
- *The stream.* `OneConclusion` speaks of all of `history`, which the code does not
  have; a retry looks at the Stage's memory. `LastRemembered` ties the two: the memory
  is the tail of the stream. Only `Swap` touches either (`OthersKeepStream`), and
  `SwapKeepsStream` does the arithmetic of the sliding window.
- *Refinement.* `InFlight` says that a reconcile on its way to the status write is
  about an Operation that does not read Concluded, and that whoever is to write has a
  number. Then `Swap` is `Take`, `SwapAgain` is `TakeAgain`, `WriteConcluded` is
  `Write`, `Abort` may be `Lose`, and everything else is `Still`, a stutter.
- *The lock.* A reconcile decides on a cached copy of its Operation. What makes that
  safe is that an Operation only goes forward and goes beyond the lock only once its
  copy did: `Past` relates a copy to what it may have become meanwhile. `LockInv` says
  this of every Operation, what the reconcile in flight has established at each of its
  points (`OpFine`), and of the holder that the Stage's memory has no conclusion of it
  and the pointer is at its `from` or its `to` (`HolderInv`). A rollback or an
  override takes the lock from an Operation that is being verified; one that still runs
  holds it, or has its number already (`Holds`). `NextKinds` sorts all steps by what they
  may change, and one step of `NextKeepsLock` per kind keeps `LockInv`.
- *Conclusions.* `AgreeInv`: what a reconcile is about to write, and what an Operation
  says, is what the Stage took, which needs that the Stage remembers an Operation once
  (`OneConclusion`). `OwedInv`: a reconcile on its way to the swap of a failure has what
  it owes on its list or created. What it owes is decided before the swap, so a person
  may have raised the level since; the statement of `StepDownRaisedFirst` names that
  case and the one of an Operation that was numbered and forgotten. `NothingLost`: while
  no reconcile was lost, who has a number wrote it or is about to. So whoever comes to a
  patch without a lost reconcile has no number, and then it holds the lock (`Holds`).
- *The chain.* The registry's newest record is where the next one goes, and a pass
  that has listed the records still knows all of them when it pushes, since it alone
  writes; losing a record keeps a chain a chain or is seen as a conflict. `HeadInv`:
  while a pass runs nobody else moves the head, and what it is is among the records.
- *What is recorded.* `ReleaseInv` says what a pass knows of its item: it is a
  conclusion as it was read, and from the advance on its record is in the registry.
  `EarnedInv` adds that items carry the Stage's own numbers and that the backup's
  `recordedSeq` was earned like the Stage's, `GapInv` that a number without an Operation
  stays without one while the pass goes on.
- *The resolver.* `OneFetcher`: a reference is pending exactly while one call fetches
  it, and who waits for a fetch that is over finds a contract or an error.
- *Publish.* `PublishInv` says for each point a run can be at what is pushed, attached,
  signed and tagged, and what the plan found present still is. A tag is written at the
  end of that list, so what it holds is complete; the deploy artifact's is last, so
  everything it was built from is tagged. Without a deploy artifact `CommitPoint` and
  `VersionIsOne` say nothing; the other two theorems hold the same.
- *Running again.* `RerunInv`: runs start in order, nobody starts beside a run that is
  alone, every tag was written from the commit of some run, and what a run under way
  calls absent has no tag or the tag it wrote itself. A run is refused when a tag is not
  its own: then another run was under way beside it, or an earlier one was from another
  commit.
- *The dashboard.* `DashboardInv` joins the server's side (what is published was
  built; a question whose `Refresh` returned finds a snapshot, `WaitInv`) with the
  page's: the newest request asks what the URL asks, the page loads exactly while
  one is under way, and what it holds once it stopped answers it. An empty page that
  is neither past the end nor incomplete holds an unfiltered snapshot that was read
  and has no rows, since every other list has rows on the page it is shown at. The
  pager is arithmetic: the page numbers cover `1 .. total` without overlap
  (`PageCount`, `PageBegins`), hence every link it offers lands on a row.

Only model-checked: `FailureAttended`, which needs a current cache of Stages;
`EverythingResolved`, an induction over the graph; and all liveness, since the
prover has no rules for fairness and `ENABLED`. What the cycle walk computes
(`CyclesAreFound`: `RECURSIVE`, an induction over data) is compared with a reference over
bounded inputs only.

## 7. Not modelled

- *Delivery*: Operations whose Stage is gone, upstream acknowledgements, parking while
  a guard policy is missing, seeding of level and stream, conditions and events, the
  number an Operation forgets after 20 other conclusions on the recorder's side.
- *Evidence ingestion*: scan, replay check and push run under one mutex of one process,
  so nothing interleaves inside; beyond it the registry decides.
- *Bundle cache*: a bounded list in memory and staged, renamed directories on disk,
  keyed by reference, and a memo of tags of 30 seconds; how old an answer of it may
  be is a matter of clocks and of other processes. *Runtime watch*: what it shows
  depends on the kernel's events.
- *The rest of the dashboard*: the other views use the same loader or draw what they
  are given; scroll restoration (`initScrollRestore`) depends on the browser's layout;
  sign-in and sessions are protocols with outside services.
- *Functions of their inputs* (contracts, validation, diff, impact, semver, lock,
  pactify, fleet queries): a model would repeat them line by line.
- *I/O*: transfers, probes, signatures, SBOM generation, terminal UI, self-update.
