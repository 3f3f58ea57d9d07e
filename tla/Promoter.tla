------------------------------ MODULE Promoter -------------------------------
(***************************************************************************)
(* The promoter on one Stage: the operation reconciler, which carries each *)
(* Operation from admission to its conclusion, and the stage reconciler,   *)
(* which witnesses edits, promotes on its own and re-checks what runs.     *)
(*                                                                         *)
(* Operations reconcile concurrently with each other and with the Stage,   *)
(* but one object never reconciles concurrently with itself.  A reconcile  *)
(* reads the Operation and the Stage from a cache, then makes its writes   *)
(* one by one; between two writes anything else may happen, and the        *)
(* reconcile may be lost to an error or a restart.  A Stage is written by  *)
(* compare-and-swap on a fresh read, so a swap is one atomic step; an      *)
(* Operation is written only if the copy that was read is still current.   *)
(***************************************************************************)
EXTENDS Lifecycle, FiniteSets

CONSTANTS
  Asks,         \* the <<type, class>> pairs people and agents ask for
  StartLevel,   \* the level the Stage starts on
  StartPointer, \* what it runs at the start: what it adopted leaving observe
  Workers,      \* how many Operations may reconcile at once
  OpLag,        \* whether the cache of Operations may lag the apiserver
  StageLag,     \* whether the cache of Stages may lag the apiserver
  Squatters,    \* whether someone may take the name of a raised operation
  SpecEdits,    \* whether an edit of the Stage spec may stale any intent
  MaxRequests,  \* bound: operations people and agents ask for
  MaxRaised,    \* bound: automatic promotes, and witnessed overrides, raised
  MaxEdits,     \* bound: edits of the applier outside the promoter
  MaxAborts     \* bound: reconciles lost between two writes

ASSUME StartAssumption ==
  /\ StartLevel \in Levels
  /\ StartPointer \in Digests \cup {NoDigest}
  /\ Asks \subseteq Types \X Classes

ASSUME SwitchAssumption ==
  /\ OpLag \in BOOLEAN /\ StageLag \in BOOLEAN
  /\ Squatters \in BOOLEAN /\ SpecEdits \in BOOLEAN

ASSUME WorkersAssumption == Workers \in Nat \ {0}

ASSUME BoundAssumption ==
  MaxRequests \in Nat /\ MaxRaised \in Nat /\ MaxEdits \in Nat /\ MaxAborts \in Nat

VARIABLES
  stage,    \* the Stage's status, as the apiserver stores it
  ops,      \* the Operations, as the apiserver stores them, by uid
  digest,   \* the digest the applier (OCIRepository or Application) carries
  run,      \* for each Operation, where its reconcile in flight has got to
  sr,       \* where the stage reconciler's reconcile in flight has got to
  cstage,   \* the cached Stage
  cops,     \* the cached Operations
  edits,    \* edits of the applier so far
  aborts,   \* reconciles lost so far
  history   \* every conclusion the Stage ever took, oldest first (auxiliary)

vars == <<stage, ops, digest, run, sr, cstage, cops, edits, aborts, history>>

(***************************************************************************)
(* State                                                                   *)
(***************************************************************************)
NoCheck == [op |-> NoOp, digest |-> NoDigest]

Name(kind, n, from, to) == <<kind, n, from, to>>

NewOp(type, class, from, to, undoes, cause, name) ==
  [type |-> type, class |-> class, from |-> from, to |-> to, undoes |-> undoes,
   cause |-> cause, name |-> name, phase |-> "", applied |-> FALSE,
   person |-> FALSE, outcome |-> "", verification |-> ""]

\* A conclusion a reconcile decided; cause says a confirmed Fail verdict is
\* behind it.
Con(outcome, verification) ==
  [outcome |-> outcome, verification |-> verification, freeze |-> FALSE,
   cause |-> FALSE, preempted |-> FALSE]

\* The empty conclusion of an operation the Stage already concluded.
Again == Con("", "")

Errored == [Con("Errored", "") EXCEPT !.freeze = TRUE]

VerifyFailed == [Con("Failed", "") EXCEPT !.cause = TRUE]

PreemptedBy == Con("Succeeded", "Unverified")

\* person is whether approvals were taken, counting one this reconcile took.
Idle == [at |-> "idle", c |-> Again, todo |-> <<>>, squat |-> FALSE,
         person |-> FALSE]

SrIdle == [at |-> "idle", op |-> NoOp, digest |-> NoDigest, todo |-> <<>>,
           rollback |-> FALSE, squat |-> FALSE]

Init ==
  /\ stage = [pointer |-> IF StartLevel = Observe THEN NoDigest ELSE StartPointer,
              observed |-> StartPointer,
              lock |-> NoOp, lastOp |-> NoOp, level |-> StartLevel,
              frozen |-> FALSE, autoHold |-> FALSE,
              seq |-> 0, concluded |-> <<>>,
              verified |-> {}, failed |-> {}, rolledBack |-> {},
              lastCheck |-> NoCheck]
  /\ ops = <<>>
  /\ digest = StartPointer
  /\ run = <<>>
  /\ sr = SrIdle
  /\ cstage = stage
  /\ cops = ops
  /\ edits = 0
  /\ aborts = 0
  /\ history = <<>>

\* What a reconcile reads from the caches.  The cache of Operations is a
\* snapshot: a watch delivers the changes of every Operation in one order.
Known == IF OpLag THEN cops ELSE ops

KStage == IF StageLag THEN cstage ELSE stage

Stale(o) == Known[o] # ops[o]

Busy == {o \in DOMAIN run : run[o].at # "idle"}

\* The reconciler may start on o, and o still has to conclude.
Ready(o) ==
  /\ o \in DOMAIN Known
  /\ o \notin Busy /\ Cardinality(Busy) < Workers
  /\ Known[o].phase # "Concluded"

In(o, phase) ==
  /\ Ready(o)
  /\ ~ConcludedOn(KStage, o)
  /\ Known[o].phase = phase

(***************************************************************************)
(* Raising operations under a name derived from their cause.               *)
(***************************************************************************)
RollbackOf(o, op) ==
  NewOp("rollback", "controller", op.to, Before(op), o, o,
        Name("rollback", o, NoDigest, NoDigest))

FreezeOf(o, op) ==
  NewOp("freeze", "controller", op.to, NoDigest, NoOp, o,
        Name("freeze", o, NoDigest, NoDigest))

StepDownOf(o) ==
  NewOp("autonomy", "controller", stage.level, stage.level - 1, NoOp, o,
        Name("stepdown", o, NoDigest, NoDigest))

\* Whether op, failed with no approval (person) and on a confirmed Fail
\* (cause), costs the Stage a level.
StepsDown(op, person, cause) ==
  /\ op.type = "promote" /\ op.class # "human" /\ ~person /\ cause
  /\ Automatic(stage.level)

SameIntent(a, b) ==
  /\ a.class = b.class /\ a.type = b.type
  /\ a.from = b.from /\ a.to = b.to /\ a.undoes = b.undoes /\ a.cause = b.cause

Holder(name) == {u \in DOMAIN ops : ops[u].name = name}

\* Mutant of Raise: whoever holds the name, it counts as raised.
RaiseTrusting(op) ==
  IF Holder(op.name) = {} THEN "created"
  ELSE IF Holder(op.name) \cap DOMAIN Known = {} THEN "error" ELSE "noop"

\* What creating op comes to: the apiserver refuses a taken name, and whose
\* it is then is read from the cache.
Raise(op) ==
  IF Holder(op.name) = {} THEN "created"
  ELSE IF Holder(op.name) \cap DOMAIN Known = {} THEN "error"
  ELSE IF \E u \in Holder(op.name) \cap DOMAIN Known : SameIntent(Known[u], op) THEN "noop"
  ELSE "squat"

OpsAfter(op) == IF Raise(op) = "created" THEN Append(ops, op) ELSE ops

RunAfter(op, steps) == IF Raise(op) = "created" THEN Append(steps, Idle) ELSE steps

(***************************************************************************)
(* Concluding: decide, raise what a failure owes, swap the Stage, write    *)
(* the Operation.                                                          *)
(***************************************************************************)
\* Mutant of Owed: a failure raises nothing.
OwedNothing(o, c, person) == <<>>

\* What a failed promote owes, decided on a fresh Stage.
Owed(o, c, person) ==
  LET op   == ops[o]
      open == ~ConcludedOn(stage, o)
      live == open /\ stage.lock = o
      step == (live \/ (open /\ c.preempted)) /\ StepsDown(op, person, c.cause)
      back == live /\ Before(op) # NoDigest /\ Before(op) \notin stage.failed
  IN IF c.outcome = "Failed" /\ op.type = "promote"
     THEN (IF step THEN <<StepDownOf(o)>> ELSE <<>>)
            \o (IF back THEN <<RollbackOf(o, op)>> ELSE <<>>)
     ELSE <<>>

Concluding(o, c, person) ==
  LET todo == Owed(o, c, person)
  IN [Idle EXCEPT !.at = IF todo = <<>> THEN "swap" ELSE "raise",
                  !.c = c, !.todo = todo, !.person = person]

Conclude(o, c, person) ==
  /\ run' = [run EXCEPT ![o] = Concluding(o, c, person)]
  /\ UNCHANGED <<stage, ops, digest, sr, cstage, cops, edits, aborts, history>>

\* Mutant of Finish: the cached Operation is taken for the stored one.
FinishOnCache(o, c, person) == Conclude(o, c, person)

\* finish acts only on the stored Operation: a stale copy is read again.
Finish(o, c, person) == ~Stale(o) /\ Conclude(o, c, person)

FinishAgain(o) ==
  /\ Ready(o)
  /\ ConcludedOn(KStage, o)
  /\ Finish(o, Again, ops[o].person)

RaiseOwed(o) ==
  /\ run[o].at = "raise"
  /\ LET op   == Head(run[o].todo)
         rest == Tail(run[o].todo)
         next == IF Raise(op) = "error" THEN Idle
                 ELSE [run[o] EXCEPT !.at    = IF rest = <<>> THEN "swap" ELSE @,
                                     !.todo  = rest,
                                     !.squat = @ \/ Raise(op) = "squat"]
     IN /\ ops' = OpsAfter(op)
        /\ run' = RunAfter(op, [run EXCEPT ![o] = next])
  /\ UNCHANGED <<stage, digest, sr, cstage, cops, edits, aborts, history>>

\* The newest MaxConcluded entries.
Remember(entries, e) ==
  LET all == Append(entries, e)
  IN IF Len(all) > MaxConcluded THEN Tail(all) ELSE all

\* Mutant of Decided: a lock taken meanwhile is not noticed.
DecidedOnVerdict(o, op, c) ==
  IF op.type = "autonomy" /\ c.outcome = "Succeeded" /\ LevelRefusal(op, stage)
  THEN Con("Rejected", "") ELSE c

\* How the swap concludes o on the Stage it found.
Decided(o, op, c) ==
  LET taken == op.applied /\ stage.lock # o
      d     == IF taken /\ ~c.preempted THEN PreemptedBy ELSE c
  IN IF op.type = "autonomy" /\ d.outcome = "Succeeded" /\ LevelRefusal(op, stage)
     THEN Con("Rejected", "") ELSE d

\* Mutant of Released: the lock is emptied with a value that is no uid.
ReleasedToNothing(o) == [stage EXCEPT !.lock = IF @ = o THEN NoDigest ELSE @]

Released(o) == [stage EXCEPT !.lock = IF @ = o THEN NoOp ELSE @]

EntryOf(o) ==
  stage.concluded[CHOOSE i \in DOMAIN stage.concluded : stage.concluded[i].uid = o]

\* Mutant of SwapAgain: a retry that finds itself concluded leaves it at that.
NoSwapAgain(o) == FALSE

\* Mutant of SwapAgain: the retry keeps its own conclusion.
SwapAgainAnew(o) ==
  /\ run[o].at = "swap"
  /\ ConcludedOn(stage, o)
  /\ run' = [run EXCEPT ![o].at = "write"]
  /\ stage' = Released(o)
  /\ UNCHANGED <<ops, digest, sr, cstage, cops, edits, aborts, history>>

\* The operation took its seq earlier and its status write was lost.
SwapAgain(o) ==
  /\ run[o].at = "swap"
  /\ ConcludedOn(stage, o)
  /\ LET e == EntryOf(o)
     IN run' = [run EXCEPT ![o].at = "write",
                           ![o].c = Con(e.outcome, e.verification)]
  /\ stage' = Released(o)
  /\ UNCHANGED <<ops, digest, sr, cstage, cops, edits, aborts, history>>

Swap(o) ==
  /\ run[o].at = "swap"
  /\ ~ConcludedOn(stage, o)
  /\ LET op == [ops[o] EXCEPT !.person = run[o].person]
         c  == Decided(o, op, run[o].c)
         e  == [uid |-> o, outcome |-> c.outcome, verification |-> c.verification]
         s  == [Released(o) EXCEPT !.seq = @ + 1,
                                   !.concluded = Remember(@, e)]
         t  == ApplyEffects(o, op, s, c)
     IN /\ stage' = [t EXCEPT !.frozen = @ \/ run[o].squat]
        /\ run' = [run EXCEPT ![o].at = "write", ![o].c = c]
  /\ history' = Append(history, o)
  /\ UNCHANGED <<ops, digest, sr, cstage, cops, edits, aborts>>

WriteConcluded(o) ==
  /\ run[o].at = "write"
  /\ ops' = [ops EXCEPT ![o].phase = "Concluded",
                        ![o].outcome = run[o].c.outcome,
                        ![o].verification = run[o].c.verification,
                        ![o].person = run[o].person]
  /\ run' = [run EXCEPT ![o] = Idle]
  /\ UNCHANGED <<stage, digest, sr, cstage, cops, edits, aborts, history>>

(***************************************************************************)
(* Before the pointer moves: admission, the pre-gates, the hold and the    *)
(* lock.                                                                   *)
(***************************************************************************)
\* Writes the Operation's status, which needs the copy read to be current.
Save(o, op) ==
  /\ ~Stale(o)
  /\ ops' = [ops EXCEPT ![o] = op]
  /\ UNCHANGED <<stage, digest, run, sr, cstage, cops, edits, aborts, history>>

\* Admission judges the stored Stage.  A request may also be refused for what
\* the model leaves out: a stale intent digest, an unconfirmed cause or the
\* wrong team.  The promoter's own intent only goes stale when the Stage spec
\* is edited after it was raised.
Admit(o) ==
  /\ In(o, "")
  /\ \E confirmed \in BOOLEAN :
       LET op      == ops[o]
           cited   == {Known[u] : u \in {op.undoes} \cap DOMAIN Known}
           refused == AdmissionRefused(op, stage, cited, confirmed)
       IN \/ /\ refused \/ op.class # "controller" \/ SpecEdits
             /\ Finish(o, Con("Rejected", ""), FALSE)
          \/ /\ ~refused
             /\ Save(o, [op EXCEPT !.phase = "Pending"])

\* The approval deadline, or a cancel: it ends the same way.
PreApplyExit(o) ==
  /\ In(o, "Pending") \/ (In(o, "Held") /\ ~Known[o].applied)
  /\ Finish(o, Con("Expired", ""), ops[o].person)

NewerPromote(o) ==
  \E u \in DOMAIN Known : /\ u > o
                          /\ Known[u].type = "promote"
                          /\ ~Known[u].applied
                          /\ Known[u].phase # "Concluded"

Supersede(o) ==
  /\ In(o, "Pending")
  /\ ops[o].type = "promote" /\ NewerPromote(o)
  /\ Finish(o, Con("Superseded", ""), ops[o].person)

FreezeOrUnfreeze(o) ==
  /\ In(o, "Pending")
  /\ ops[o].type \in {"freeze", "unfreeze"}
  /\ Finish(o, Con("Succeeded", "Unverified"), ops[o].person)

\* A plan is made on the cached Stage; a refusal is made on the stored one.
Plan(o, gate) ==
  IF Predict(ops[o], KStage, gate) = "rejected"
  THEN Predict(ops[o], stage, gate)
  ELSE Predict(ops[o], KStage, gate)

\* Mutant of LockFree: any lock may be taken over.
AnyLockFree(o) == TRUE

\* o may take the lock: it is free, its holder concluded, or o goes before a
\* holder whose version already runs.
LockFree(o) ==
  \A h \in (DOMAIN Known \cap {stage.lock}) \ {o} :
    \/ Known[h].phase = "Concluded"
    \/ /\ ops[o].type \in {"rollback", "override"}
       /\ Known[h].phase = "Verifying" \/ (Known[h].phase = "Held" /\ Known[h].applied)

\* The plan lets o go on to the lock, with the copy of o the reconcile read.
Planned(o, person) ==
  /\ run' = [run EXCEPT ![o] = [Idle EXCEPT !.at = IF Stale(o) THEN "outdated" ELSE "planned",
                                            !.person = person]]
  /\ UNCHANGED <<stage, ops, digest, sr, cstage, cops, edits, aborts, history>>

\* A level change takes no lock: it concludes at once.
LockOrLevel(o, person) ==
  IF ops[o].type = "autonomy"
  THEN Finish(o, Con("Succeeded", "Unverified"), person)
  ELSE Planned(o, person)

\* The lock is busy or the Stage frozen.
MustWait(o) == ~LockFree(o) \/ (stage.frozen /\ ops[o].type = "promote")

MayLock(o) == ~ConcludedOn(stage, o) /\ ~MustWait(o) /\ stage.pointer = ops[o].from

\* The swap that takes the pointer lock compares nothing else of the plan with
\* the Stage it finds.  A reconcile that read a stale Operation takes the lock
\* and then fails to write that it runs.
Lock(o) ==
  /\ run[o].at \in {"planned", "outdated"}
  /\ MayLock(o)
  /\ stage' = [stage EXCEPT !.lock = o]
  /\ run' = [run EXCEPT ![o] = IF @.at = "outdated" THEN Idle ELSE [@ EXCEPT !.at = "locked"]]
  /\ UNCHANGED <<ops, digest, sr, cstage, cops, edits, aborts, history>>

\* The swap found o concluded, or the pointer moved.
LockRefused(o) ==
  /\ run[o].at = "planned"
  /\ \/ ConcludedOn(stage, o) /\ Conclude(o, Again, run[o].person)
     \/ /\ ~ConcludedOn(stage, o) /\ ~MustWait(o) /\ stage.pointer # ops[o].from
        /\ Conclude(o, Con("Rejected", ""), run[o].person)

\* o waits and is planned again, and an approval just taken stays unconsumed; a
\* stale Operation is read again.
LockWaits(o) ==
  /\ run[o].at \in {"planned", "outdated"}
  /\ ~MayLock(o)
  /\ run[o].at = "outdated" \/ (~ConcludedOn(stage, o) /\ MustWait(o))
  /\ run' = [run EXCEPT ![o] = Idle]
  /\ UNCHANGED <<stage, ops, digest, sr, cstage, cops, edits, aborts, history>>

\* The pre-gates.  A promote that must wait is looked at again.
Pend(o) ==
  /\ In(o, "Pending")
  /\ ops[o].type \in PointerTypes \cup {"autonomy"}
  /\ ~(ops[o].type = "promote" /\ NewerPromote(o))
  /\ \E gate \in GateVerdicts(ops[o]) :
       \/ /\ Plan(o, gate) = "rejected"
          /\ Finish(o, Con("Rejected", ""), ops[o].person)
       \/ /\ Plan(o, gate) = "held"
          /\ Save(o, [ops[o] EXCEPT !.phase = "Held"])
       \/ /\ Plan(o, gate) = "proceeds"
          /\ LockOrLevel(o, ops[o].person)

HeldReject(o) ==
  /\ In(o, "Held") /\ ~Known[o].applied
  /\ Finish(o, Con("Rejected", ""), TRUE)

\* An approval that does not settle it: another team is still asked, or the
\* re-check asks something the approval did not answer.
HeldAskAgain(o) ==
  /\ In(o, "Held") /\ ~Known[o].applied
  /\ ~ops[o].person
  /\ Save(o, [ops[o] EXCEPT !.person = TRUE])

\* The last approval: a promote or a level change is planned again first.
HeldApprove(o) ==
  /\ In(o, "Held") /\ ~Known[o].applied
  /\ \E gate \in GateVerdicts(ops[o]) :
       IF ops[o].type \in {"promote", "autonomy"} /\ Plan(o, gate) = "rejected"
       THEN Finish(o, Con("Rejected", ""), TRUE)
       ELSE LockOrLevel(o, TRUE)

WriteRunning(o) ==
  /\ run[o].at = "locked"
  /\ ops' = [ops EXCEPT ![o].phase = "Running", ![o].person = run[o].person]
  /\ run' = [run EXCEPT ![o] = Idle]
  /\ UNCHANGED <<stage, digest, sr, cstage, cops, edits, aborts, history>>

(***************************************************************************)
(* Moving the pointer, applying it and judging it.                         *)
(***************************************************************************)
ExecutionDeadline(o) ==
  /\ In(o, "Running")
  /\ Finish(o, Errored, ops[o].person)

\* Mutant of MoveSwap: the swap that moves the pointer gives the lock back.
MoveSwapReleases(o) ==
  /\ In(o, "Running") /\ ~Known[o].applied
  /\ \/ /\ stage.lock # o
        /\ Finish(o, Errored, ops[o].person)
     \/ /\ stage.lock = o
        /\ stage' = [stage EXCEPT !.pointer = ops[o].to, !.lastOp = o, !.lock = NoOp]
        /\ run' = IF Stale(o) THEN run
                  ELSE [run EXCEPT ![o].at = "moved"]
        /\ UNCHANGED <<ops, digest, sr, cstage, cops, edits, aborts, history>>

\* The swap that moves the pointer, by the holder of the lock only.
MoveSwap(o) ==
  /\ In(o, "Running") /\ ~Known[o].applied
  /\ \/ /\ stage.lock # o
        /\ Finish(o, Errored, ops[o].person)
     \/ /\ stage.lock = o
        /\ stage' = [stage EXCEPT !.pointer = ops[o].to, !.lastOp = o]
        /\ run' = IF Stale(o) THEN run
                  ELSE [run EXCEPT ![o].at = "moved"]
        /\ UNCHANGED <<ops, digest, sr, cstage, cops, edits, aborts, history>>

WriteApplied(o) ==
  /\ run[o].at = "moved"
  /\ ops' = [ops EXCEPT ![o].applied = TRUE]
  /\ run' = [run EXCEPT ![o].at = "apply"]
  /\ UNCHANGED <<stage, digest, sr, cstage, cops, edits, aborts, history>>

\* The reconcile that moved the pointer goes on, or a later one starts here.
Applying(o) == run[o].at = "apply" \/ (In(o, "Running") /\ Known[o].applied)

\* Whether the copy the reconcile holds is the stored one.
Current(o) == run[o].at = "apply" \/ ~Stale(o)

\* The applier shows what this operation did not write.
ForeignWriter(o) ==
  /\ Applying(o) /\ Current(o)
  /\ digest \notin {ops[o].from, ops[o].to}
  /\ Conclude(o, Errored, ops[o].person)

ReadBefore(o) ==
  /\ Applying(o)
  /\ digest = ops[o].from
  /\ run' = [run EXCEPT ![o] = [Idle EXCEPT !.at = "patch"]]
  /\ UNCHANGED <<stage, ops, digest, sr, cstage, cops, edits, aborts, history>>

\* The patch carries no resource version: it writes over whatever is there.
Patch(o) ==
  /\ run[o].at = "patch"
  /\ digest' = ops[o].to
  /\ run' = [run EXCEPT ![o] = Idle]
  /\ UNCHANGED <<stage, ops, sr, cstage, cops, edits, aborts, history>>

ApplyFailed(o) ==
  /\ Applying(o) /\ Current(o)
  /\ digest = ops[o].to
  /\ Conclude(o, Con("Failed", ""), ops[o].person)

NotAppliedYet(o) ==
  /\ run[o].at = "apply"
  /\ digest = ops[o].to
  /\ run' = [run EXCEPT ![o] = Idle]
  /\ UNCHANGED <<stage, ops, digest, sr, cstage, cops, edits, aborts, history>>

\* An override is not verified: it concludes and freezes.
Overridden(op) ==
  [Con(IF Witnessed(op) THEN "Witnessed" ELSE "Succeeded", "Unverified")
     EXCEPT !.freeze = TRUE]

AppliedOk(o) ==
  /\ Applying(o) /\ Current(o)
  /\ digest = ops[o].to
  /\ IF ops[o].type = "override"
     THEN Conclude(o, Overridden(ops[o]), ops[o].person)
     ELSE /\ ops' = [ops EXCEPT ![o].phase = "Verifying"]
          /\ run' = [run EXCEPT ![o] = Idle]
          /\ UNCHANGED <<stage, digest, sr, cstage, cops, edits, aborts, history>>

\* A rollback of o that no person raised.  The class is written on admission:
\* before that no rollback counts as a person's.
PulledBy(o, r) ==
  /\ r.type = "rollback" /\ r.undoes = o
  /\ r.phase = "" \/ r.class \notin {"human", "breakglass"}

Preemption(o) ==
  LET op == ops[o]
  IN IF /\ op.type = "promote" /\ op.class # "human" /\ ~op.person
        /\ \E u \in DOMAIN Known : PulledBy(o, Known[u])
     THEN [VerifyFailed EXCEPT !.preempted = TRUE]
     ELSE PreemptedBy

Shipped(o) == In(o, "Verifying") \/ (In(o, "Held") /\ Known[o].applied)

Preempted(o) ==
  /\ Shipped(o)
  /\ KStage.lock # o
  /\ Finish(o, Preemption(o), ops[o].person)

\* The verify gates judged it, while verifying or again while held.
Verify(o) ==
  /\ Shipped(o)
  /\ KStage.lock = o
  /\ \E c \in {Con("Succeeded", "Verified"), VerifyFailed} :
       Finish(o, c, ops[o].person)

\* Still Unknown when the verify window ends: a person is asked.
VerifyDeadline(o) ==
  /\ In(o, "Verifying")
  /\ KStage.lock = o
  /\ Save(o, [ops[o] EXCEPT !.phase = "Held"])

\* A person accepts the unknown or rejects it, or nobody answers in time.
HeldDecision(o) ==
  /\ In(o, "Held") /\ Known[o].applied
  /\ KStage.lock = o
  /\ \/ Finish(o, Con("Succeeded", "AcceptedUnknown"), TRUE)
     \/ Finish(o, Con("Failed", ""), TRUE)
     \/ Finish(o, Errored, ops[o].person)

\* A reconcile ends early: an error, a conflict or a restart.
Abort(o) ==
  /\ run[o].at # "idle"
  /\ aborts < MaxAborts
  /\ run' = [run EXCEPT ![o] = Idle]
  /\ aborts' = aborts + 1
  /\ UNCHANGED <<stage, ops, digest, sr, cstage, cops, edits, history>>

(***************************************************************************)
(* The stage reconciler.  It raises operations and writes its memories; it *)
(* never moves the pointer.                                                *)
(***************************************************************************)
SrRest == UNCHANGED <<digest, cstage, cops, edits, aborts, history>>

SrGoes(next) == sr' = next /\ UNCHANGED <<stage, ops, run>> /\ SrRest

AllConcluded == \A u \in DOMAIN Known : Known[u].phase = "Concluded"

\* Raises op; a name someone else took freezes the Stage in a later write.
SrRaise(op) ==
  /\ ops' = OpsAfter(op)
  /\ run' = RunAfter(op, run)
  /\ sr' = IF Raise(op) = "squat" THEN [SrIdle EXCEPT !.at = "freeze"] ELSE SrIdle
  /\ UNCHANGED stage /\ SrRest

SrFreeze ==
  /\ sr.at = "freeze"
  /\ stage' = [stage EXCEPT !.frozen = TRUE]
  /\ sr' = SrIdle
  /\ UNCHANGED <<ops, run>> /\ SrRest

MayRaiseMore(kind) ==
  Cardinality({u \in DOMAIN ops : ops[u].name[1] = kind}) < MaxRaised

\* Mutant of WitnessRead: edits outside the promoter are not looked for.
NoWitnessRead == FALSE

\* The applier is read first and the Stage after it.
WitnessRead ==
  /\ sr.at = "idle"
  /\ KStage.lock = NoOp /\ KStage.pointer # NoDigest
  /\ digest \notin {NoDigest, KStage.pointer}
  /\ MayRaiseMore("witnessed")
  /\ SrGoes([SrIdle EXCEPT !.at = "witness", !.digest = digest])

WitnessRaise ==
  /\ sr.at = "witness"
  /\ IF stage.lock # NoOp \/ stage.pointer \in {NoDigest, sr.digest}
     THEN SrGoes(SrIdle)
     ELSE SrRaise(NewOp("override", "controller", stage.pointer, sr.digest, NoOp, NoOp,
                        Name("witnessed", stage.seq, stage.pointer, sr.digest)))

\* Automatic promotion judges the Stage this reconcile started with, and lists
\* the Operations later.
AutoRead ==
  /\ sr.at = "idle"
  /\ Automatic(KStage.level) /\ ~KStage.frozen /\ ~KStage.autoHold
  /\ MayRaiseMore("auto")
  /\ \E d \in Candidates(KStage) :
       SrGoes([SrIdle EXCEPT !.at = "auto",
                 !.todo = <<NewOp("promote", "controller", KStage.pointer, d, NoOp, NoOp,
                                  Name("auto", KStage.seq, KStage.pointer, d))>>])

AutoRaise ==
  /\ sr.at = "auto"
  /\ IF AllConcluded THEN SrRaise(Head(sr.todo)) ELSE SrGoes(SrIdle)

\* The Stage is no longer the one the check is about.
Moved ==
  stage.lastOp # sr.op \/ stage.pointer # sr.digest \/ stage.lock # NoOp

RecheckDue ==
  /\ sr.at = "idle"
  /\ ~KStage.frozen /\ KStage.lastOp # NoOp /\ KStage.lock = NoOp
  /\ AllConcluded

\* The verify gates run again on the version the Stage runs.
RecheckRun ==
  /\ RecheckDue
  /\ KStage.pointer \notin KStage.failed
  /\ KStage.lastOp \in DOMAIN Known
  /\ LET shipped == Known[KStage.lastOp]
     IN /\ shipped.outcome = "Succeeded" /\ shipped.verification # "Unverified"
        /\ shipped.to = KStage.pointer
  /\ \E at \in {"passed", "judged"} :
       SrGoes([SrIdle EXCEPT !.at = at, !.op = KStage.lastOp, !.digest = KStage.pointer])

RecheckPass ==
  /\ sr.at = "passed"
  /\ stage' = IF Moved THEN stage ELSE [stage EXCEPT !.lastCheck = NoCheck]
  /\ sr' = SrIdle
  /\ UNCHANGED <<ops, run>> /\ SrRest

\* A person or an agent chose the version that failed: automation undoes no
\* choice and rolls back no rollback.
Chosen(op) == op.type # "promote" \/ stage.autoHold

RecheckDecide ==
  /\ sr.at = "judged"
  /\ LET op       == ops[sr.op]
         rollback == /\ ~Chosen(op) /\ sr.op \notin stage.rolledBack
                     /\ Before(op) # NoDigest /\ Before(op) \notin stage.failed
         todo     == (IF StepsDown(op, op.person, TRUE) THEN <<StepDownOf(sr.op)>> ELSE <<>>)
                       \o (IF rollback THEN <<>> ELSE <<FreezeOf(sr.op, op)>>)
     IN SrGoes(IF Moved THEN SrIdle
               ELSE [sr EXCEPT !.at = IF todo = <<>> THEN "record" ELSE "raise",
                               !.todo = todo, !.rollback = rollback])

RecheckRaise ==
  /\ sr.at = "raise"
  /\ LET op   == Head(sr.todo)
         rest == Tail(sr.todo)
     IN /\ ops' = OpsAfter(op)
        /\ run' = RunAfter(op, run)
        /\ sr' = IF Raise(op) = "error" THEN SrIdle
                 ELSE [sr EXCEPT !.at    = IF rest = <<>> THEN "record" ELSE @,
                                 !.todo  = rest,
                                 !.squat = @ \/ (Raise(op) = "squat" /\ op.type = "autonomy")]
  /\ UNCHANGED stage /\ SrRest

RecheckRecord ==
  /\ sr.at = "record"
  /\ stage' = IF Moved THEN stage
              ELSE [stage EXCEPT !.lastCheck  = [op |-> sr.op, digest |-> sr.digest],
                                 !.failed     = @ \cup {sr.digest},
                                 !.verified   = @ \ {sr.digest},
                                 !.frozen     = @ \/ ~sr.rollback \/ sr.squat,
                                 !.rolledBack = IF sr.rollback THEN @ \cup {sr.op} ELSE @]
  /\ sr' = IF Moved \/ ~sr.rollback THEN SrIdle
           ELSE [SrIdle EXCEPT !.at = "rollback", !.op = sr.op]
  /\ UNCHANGED <<ops, run>> /\ SrRest

RecheckRollback ==
  /\ sr.at = "rollback"
  /\ SrRaise(RollbackOf(sr.op, ops[sr.op]))

\* Mutant of Reraise: a lost rollback stays lost.
NoReraise == FALSE

\* The rollback a failed re-check recorded but never created is raised again.
Reraise ==
  /\ RecheckDue
  /\ KStage.pointer \in KStage.failed
  /\ KStage.lastOp \in DOMAIN Known \cap KStage.rolledBack
  /\ KStage.lastCheck = [op |-> KStage.lastOp, digest |-> KStage.pointer]
  /\ LET rb == RollbackOf(KStage.lastOp, Known[KStage.lastOp])
     IN /\ ~\E u \in DOMAIN Known :
              /\ Known[u].name = rb.name /\ Known[u].type = "rollback"
              /\ Known[u].class = "controller" /\ Known[u].cause = rb.cause
        /\ SrRaise(rb)

\* On observe the reconciler remembers what GitOps applied, and once that has
\* run for a while judges it.
ShadowRead ==
  /\ sr.at = "idle"
  /\ KStage.level = Observe
  /\ digest # NoDigest
  /\ digest = KStage.observed => digest \notin KStage.verified \cup KStage.failed
  /\ SrGoes([SrIdle EXCEPT !.at = IF digest = KStage.observed THEN "shadow" ELSE "observe",
                           !.digest = digest])

ShadowObserve ==
  /\ sr.at = "observe"
  /\ stage' = [stage EXCEPT !.observed = sr.digest]
  /\ sr' = SrIdle
  /\ UNCHANGED <<ops, run>> /\ SrRest

ShadowVerify ==
  /\ sr.at = "shadow"
  /\ \E s \in {stage, [stage EXCEPT !.failed = @ \cup {sr.digest}],
                      [stage EXCEPT !.verified = @ \cup {sr.digest}]} :
       stage' = IF stage.observed = sr.digest THEN s ELSE stage
  /\ sr' = SrIdle
  /\ UNCHANGED <<ops, run>> /\ SrRest

SrAbort ==
  /\ sr.at # "idle"
  /\ aborts < MaxAborts
  /\ sr' = SrIdle
  /\ aborts' = aborts + 1
  /\ UNCHANGED <<stage, ops, digest, run, cstage, cops, edits, history>>

(***************************************************************************)
(* The world outside: people and agents ask, GitOps edits the applier and  *)
(* the watches catch up.                                                   *)
(***************************************************************************)
Requested == {u \in DOMAIN ops : ops[u].class # "controller"}

Intents(type, class) ==
  LET own == Name("own", Len(ops) + 1, NoDigest, NoDigest)
      New(from, to, undoes) == NewOp(type, class, from, to, undoes, NoOp, own)
  IN CASE type \in {"promote", "override"} ->
            {New(stage.pointer, d, NoOp) : d \in Digests \ {stage.pointer}}
       [] type = "rollback" ->
            {New(ops[u].to, ops[u].from, u) : u \in {v \in DOMAIN ops : ops[v].applied}}
       [] type = "freeze"   -> {New(stage.pointer, NoDigest, NoOp)}
       [] type = "unfreeze" -> {New(NoDigest, NoDigest, NoOp)}
       [] type = "autonomy" -> {New(stage.level, l, NoOp) : l \in Levels \ {stage.level}}

Request ==
  /\ Cardinality(Requested) < MaxRequests
  /\ \E ask \in Asks : \E op \in Intents(ask[1], ask[2]) :
       /\ ops' = Append(ops, op)
       /\ run' = Append(run, Idle)
  /\ UNCHANGED <<stage, digest, sr, cstage, cops, edits, aborts, history>>

\* Someone's own freeze under the name of an operation not raised yet.
Squat ==
  /\ Squatters
  /\ Cardinality(Requested) < MaxRequests
  /\ \E name \in {Name("rollback", u, NoDigest, NoDigest) :
                    u \in {v \in DOMAIN ops : ops[v].type = "promote"}}
              \cup {Name("auto", stage.seq, stage.pointer, d) : d \in Digests \ {stage.pointer}} :
       /\ Holder(name) = {}
       /\ ops' = Append(ops, NewOp("freeze", "human", stage.pointer, NoDigest, NoOp, NoOp, name))
       /\ run' = Append(run, Idle)
  /\ UNCHANGED <<stage, digest, sr, cstage, cops, edits, aborts, history>>

Edit ==
  /\ edits < MaxEdits
  /\ digest' \in Digests \ {digest}
  /\ edits' = edits + 1
  /\ UNCHANGED <<stage, ops, run, sr, cstage, cops, aborts, history>>

CatchUpOps ==
  /\ OpLag
  /\ cops # ops
  /\ cops' = ops
  /\ UNCHANGED <<stage, ops, digest, run, sr, cstage, edits, aborts, history>>

CatchUpStage ==
  /\ StageLag
  /\ cstage # stage
  /\ cstage' = stage
  /\ UNCHANGED <<stage, ops, digest, run, sr, cops, edits, aborts, history>>

-----------------------------------------------------------------------------
\* The operation reconciler takes o one step further.
Advance(o) ==
  \/ FinishAgain(o) \/ RaiseOwed(o) \/ SwapAgain(o) \/ Swap(o) \/ WriteConcluded(o)
  \/ Admit(o) \/ PreApplyExit(o) \/ Supersede(o) \/ FreezeOrUnfreeze(o) \/ Pend(o)
  \/ HeldReject(o) \/ HeldAskAgain(o) \/ HeldApprove(o)
  \/ Lock(o) \/ LockRefused(o) \/ LockWaits(o) \/ WriteRunning(o)
  \/ ExecutionDeadline(o) \/ MoveSwap(o) \/ WriteApplied(o)
  \/ ForeignWriter(o) \/ ReadBefore(o) \/ Patch(o)
  \/ ApplyFailed(o) \/ NotAppliedYet(o) \/ AppliedOk(o)
  \/ Preempted(o) \/ Verify(o) \/ VerifyDeadline(o) \/ HeldDecision(o)

\* A reconcile of the Stage starts.
StageStarts == WitnessRead \/ AutoRead \/ RecheckRun \/ Reraise \/ ShadowRead

\* The reconcile of the Stage in flight takes its next step.
StageGoesOn ==
  \/ SrFreeze \/ WitnessRaise \/ AutoRaise
  \/ RecheckPass \/ RecheckDecide \/ RecheckRaise \/ RecheckRecord \/ RecheckRollback
  \/ ShadowObserve \/ ShadowVerify

Next ==
  \/ \E o \in DOMAIN ops : Advance(o) \/ Abort(o)
  \/ StageStarts \/ StageGoesOn \/ SrAbort
  \/ Request \/ Squat \/ Edit
  \/ CatchUpOps \/ CatchUpStage

Spec == Init /\ [][Next]_vars

\* The work queue retries what is left undone, so some Operation always goes on.
\* Every reconcile of a waiting Operation looks at its deadline first, so what
\* waits time and again comes to its end.  A reconcile of the Stage in flight ends
\* and the watches catch up.  Every periodic reconcile of the Stage looks for an
\* edit and a lost rollback before it does anything else, so what it finds time
\* and again it acts on.  Nobody has to ask for, edit or lose anything.
Fairness ==
  /\ WF_vars(\E o \in DOMAIN ops : Advance(o))
  /\ SF_vars(\E o \in DOMAIN ops : PreApplyExit(o))
  /\ WF_vars(StageGoesOn) /\ SF_vars(Reraise) /\ SF_vars(WitnessRead)
  /\ WF_vars(CatchUpOps) /\ WF_vars(CatchUpStage)

FairSpec == Spec /\ Fairness

(***************************************************************************)
(* Properties                                                              *)
(***************************************************************************)
Digest == Digests \cup {NoDigest}

Outcomes == {"", "Succeeded", "Failed", "Rejected", "Expired", "Superseded", "Errored",
             "Witnessed"}

Verifications == {"", "Verified", "Unverified", "AcceptedUnknown"}

Phases == {"", "Pending", "Held", "Running", "Verifying", "Concluded"}

Kinds == {"own", "auto", "witnessed", "rollback", "freeze", "stepdown"}

OpType ==
  {op \in [type : Types, class : Classes, from : Digest \cup Levels, to : Digest \cup Levels,
           undoes : Nat, cause : Nat, name : Kinds \X Nat \X Digest \X Digest,
           phase : Phases, applied : BOOLEAN, person : BOOLEAN,
           outcome : Outcomes, verification : Verifications] :
     IF op.type = "autonomy"
     THEN /\ op.from \in Levels /\ op.to \in Levels
          /\ op.phase \notin {"Running", "Verifying"} /\ ~op.applied
     ELSE op.from \in Digest /\ op.to \in Digest}

ConType == [outcome : Outcomes, verification : Verifications, freeze : BOOLEAN,
            cause : BOOLEAN, preempted : BOOLEAN]

\* An Operation about to be raised has no status yet.
RaisedType == {op \in OpType : op.phase = "" /\ ~op.applied}

RunType == [at : {"idle", "raise", "swap", "write", "planned", "outdated", "locked",
                  "moved", "apply", "patch"},
            c : ConType, todo : Seq(RaisedType), squat : BOOLEAN, person : BOOLEAN]

EntryType == [uid : Nat, outcome : Outcomes, verification : Verifications]

StageType ==
  [pointer : Digest, observed : Digest, lock : Nat, lastOp : Nat, level : Levels,
   frozen : BOOLEAN, autoHold : BOOLEAN, seq : Nat,
   concluded : Seq(EntryType),
   verified : SUBSET Digest, failed : SUBSET Digest, rolledBack : SUBSET Nat,
   lastCheck : [op : Nat, digest : Digest]]

SrType ==
  [at : {"idle", "freeze", "witness", "auto", "passed", "judged", "raise", "record", "rollback",
         "observe", "shadow"},
   op : Nat, digest : Digest, todo : Seq(RaisedType), rollback : BOOLEAN, squat : BOOLEAN]

\* The state has its type: each Operation has a reconcile, the cache holds no
\* Operation that does not exist, and a level change never runs, verifies or
\* moves the pointer.
TypeOK ==
  /\ stage \in StageType /\ cstage \in StageType
  /\ ops \in Seq(OpType) /\ cops \in Seq(OpType)
  /\ digest \in Digest
  /\ run \in Seq(RunType)
  /\ sr \in SrType
  /\ edits \in Nat /\ aborts \in Nat
  /\ history \in Seq(Nat)
  /\ Len(run) = Len(ops) /\ Len(cops) <= Len(ops)
  /\ \A o \in DOMAIN run : run[o].at = "raise" => run[o].todo # <<>>
  /\ sr.at \in {"auto", "raise"} => sr.todo # <<>>

PointerOp(o) == o \in DOMAIN ops /\ ops[o].type # "autonomy"

\* What makes TypeOK inductive.  A cached Operation is of the stored one's type;
\* what takes the lock, moves the pointer, is judged or is checked again is never
\* a level change, whose parameters are no versions.
OnlyPointerOpsMove ==
  /\ \A o \in DOMAIN cops : cops[o].type = ops[o].type
  /\ \A s \in {stage, cstage} : s.lastOp = NoOp \/ PointerOp(s.lastOp)
  /\ \A o \in DOMAIN run :
       \/ run[o].at \in {"planned", "outdated", "locked", "moved", "apply", "patch"}
       \/ /\ run[o].at \in {"raise", "swap"}
          /\ run[o].c.outcome = "Failed" \/ run[o].c.verification = "Verified"
       => PointerOp(o)
  /\ sr.at \in {"passed", "judged", "raise", "record", "rollback"} => PointerOp(sr.op)

\* An Operation takes one number of the Stage's stream: it is concluded a
\* second time only after MaxConcluded others were, which is as long as the
\* Stage remembers it, whatever caches lag and reconciles are lost between the
\* swap that concludes it and the write that says so.
OneConclusion ==
  \A i, j \in DOMAIN history : i < j /\ history[i] = history[j] => j - i > MaxConcluded

\* The Stage remembers the last MaxConcluded conclusions, in the order of its
\* stream, and its seq counts them all: what a retry looks itself up in.
LastRemembered ==
  LET n == Len(history) IN
  LET k == Len(stage.concluded) IN
  /\ stage.seq = n
  /\ k = IF n > MaxConcluded THEN MaxConcluded ELSE n
  /\ \A i \in DOMAIN stage.concluded : stage.concluded[i].uid = history[n - k + i]

Taking == {o \in DOMAIN run : run[o].at = "write"}

Concluded == {o \in DOMAIN ops : ops[o].phase = "Concluded"}

Conclusions == INSTANCE Stream WITH log <- history, taking <- Taking, written <- Concluded

\* The promoter implements the stream of conclusions the recorder reads: a
\* conclusion takes the next number or the one its Operation has, never a second
\* one while the Stage remembers the first, and no Operation that reads Concluded
\* takes a number again.
ImplementsStream == Conclusions!Spec

Numbered == {history[i] : i \in DOMAIN history}

\* The stream is what the Operations say: one that reads Concluded was given
\* its number, and while the Stage remembers it both name the same conclusion.
ConclusionAgrees ==
  \A o \in DOMAIN ops : ops[o].phase = "Concluded" =>
    /\ o \in Numbered
    /\ \A i \in DOMAIN stage.concluded : stage.concluded[i].uid = o =>
         /\ stage.concluded[i].outcome = ops[o].outcome
         /\ stage.concluded[i].verification = ops[o].verification

\* An Operation that runs holds the pointer lock until it is concluded, so two
\* never move the Stage at once; once it moved the pointer and while it holds
\* the lock, the Stage runs its version.
HolderOwnsPointer ==
  \A o \in DOMAIN ops :
    /\ ops[o].phase = "Running" => stage.lock = o \/ o \in Numbered
    /\ stage.lock = o /\ ops[o].applied /\ stage.level # Observe => stage.pointer = ops[o].to

\* The applier is patched, with no check of what it carries, only by the holder
\* of the lock and only to the version the Stage points at.  But a reconcile
\* that was lost after the Operation was concluded may come back to a patch, and
\* so may one that reads from a lagging cache an Operation no longer Running.
PatchUnderLock ==
  \A o \in DOMAIN run : run[o].at = "patch" =>
    \/ stage.lock = o /\ stage.pointer \in {ops[o].to, NoDigest}
    \/ aborts > 0 /\ o \in Numbered
    \/ OpLag /\ ops[o].phase # "Running"

\* The pointer moves only by the holder of the lock, from the version its plan
\* compared with, or when the level leaves or enters observe.
PointerMovesAsPlanned ==
  [][stage'.pointer # stage.pointer =>
       \/ Observe \in {stage.level, stage'.level}
       \/ \E o \in DOMAIN ops : /\ stage.lock = o /\ stage'.lastOp = o
                                /\ stage.pointer = ops[o].from
                                /\ stage'.pointer = ops[o].to]_vars

LastConcluded == stage.concluded[Len(stage.concluded)]

\* A version is concluded as Verified only while its Operation still holds the
\* Stage: a verdict reached before a rollback or an override took the lock
\* credits nothing.
VerifiedWhileHeld ==
  [][history' # history /\ LastConcluded'.verification = "Verified" =>
       LET o == LastConcluded'.uid
       IN stage.lock = o /\ (stage.pointer = ops[o].to \/ stage.level = Observe)]_vars

\* A failed promote is concluded only once its rollback exists, so nothing
\* slips in between the two; where there is none the Stage freezes.
RollbackRaisedFirst ==
  [][history' # history =>
       \A o \in stage'.rolledBack \ stage.rolledBack :
         stage'.frozen \/ \E u \in DOMAIN ops : ops[u].type = "rollback" /\ ops[u].undoes = o]_vars

\* A promote no person shipped or approved that failed on a confirmed verdict is
\* concluded on an automatic level only once its step-down exists; where its
\* name is taken the Stage freezes.  What a failure owes is decided before its
\* swap, so none is owed where only a raise of the level since then made it
\* automatic, nor by a conclusion the Stage has already counted and forgotten.
StepDownRaisedFirst ==
  [][\A o \in DOMAIN ops \ Numbered :
       /\ history' = Append(history, o) /\ LastConcluded'.outcome = "Failed"
       /\ StepsDown(ops[o], run[o].person, run[o].c.cause)
       => \/ stage'.frozen
          \/ \E u \in DOMAIN ops : ops[u].type = "autonomy" /\ ops[u].cause = o
          \/ \E u \in Numbered : /\ ops[u].type = "autonomy"
                                 /\ ~Automatic(ops[u].from) /\ Automatic(ops[u].to)]_vars

\* The level only climbs one step at a time and with a person: the Operation
\* that raises it was approved by one.
LevelsClimbByPeople ==
  [][stage'.level > stage.level =>
       /\ stage'.level = stage.level + 1
       /\ run[LastConcluded'.uid].person]_vars

Quiet == /\ \A o \in DOMAIN ops : ops[o].phase = "Concluded" /\ run[o].at = "idle"
         /\ sr.at = "idle"

\* The rollbacks the promoter raised for o.
OwnRollbacks(o) ==
  IF o \notin DOMAIN ops THEN {} ELSE
  {u \in Holder(RollbackOf(o, ops[o]).name) :
     ops[u].type = "rollback" /\ ops[u].class = "controller"}

\* A version Pacto moved the Stage to that failed is rolled back once or the
\* Stage freezes: with nothing in flight the Stage is frozen, unless a person
\* unfroze it since, or the next re-check raises the lost rollback again.
RolledBackOrFrozen ==
  /\ Quiet /\ stage.level # Observe /\ stage.lastOp # NoOp
  /\ stage.pointer \in stage.failed
  => \/ stage.frozen
     \/ \E u \in Numbered : ops[u].type = "unfreeze" /\ ops[u].outcome = "Succeeded"
     \/ /\ stage.lastCheck = [op |-> stage.lastOp, digest |-> stage.pointer]
        /\ stage.lastOp \in stage.rolledBack
        /\ OwnRollbacks(stage.lastOp) = {}

\* The Operation that shipped what the Stage runs passed, and no re-check of it
\* failed: a promote planned before its version failed brought it back.
PassedSince ==
  stage.lastOp # NoOp /\ ops[stage.lastOp].outcome = "Succeeded"
    /\ stage.lastOp \notin stage.rolledBack

\* The same, but for a failed version a promote planned before it failed shipped
\* again, and for a rollback that was cancelled, that nobody answered for in time
\* or whose conclusion the Stage forgot before its Operation said it.
FailureAttended ==
  \/ RolledBackOrFrozen
  \/ PassedSince
  \/ \E u \in OwnRollbacks(stage.lastOp) : ops[u].outcome \in {"Expired", ""}

\* A confirmed failure is remembered: a promote whose failure raised its own
\* rollback is concluded with its version among the failed ones, so automation
\* never picks that version again.
FailureRemembered ==
  \A o \in Numbered : OwnRollbacks(o) # {} => ops[o].to \in stage.failed

\* The delivery guide's "None of a Stage's last 50 failed versions is tried
\* again there": no promote or rollback puts a version that failed on the Stage
\* back on the applier; only an override may.
FailedNotTriedAgain ==
  [][\A o \in DOMAIN ops :
       /\ run[o].at = "patch" /\ run'[o].at = "idle" /\ digest' # digest
       /\ ops[o].type # "override"
       => digest' \notin stage.failed]_vars

\* Every Operation ends, whatever it waits for: again and again none is open.
EveryOperationEnds == []<>(\A o \in DOMAIN ops : ops[o].phase = "Concluded")

\* A failed version the promoter shipped is left: time and again the Stage is
\* frozen or runs a version that did not fail, or that passed when it was shipped
\* again, or the rollback nobody answered for expired.
FailureIsLeft ==
  []<>\/ stage.frozen \/ stage.pointer \notin stage.failed \/ stage.level = Observe
      \/ PassedSince
      \/ stage.lastOp # NoOp /\ \E u \in OwnRollbacks(stage.lastOp) : ops[u].outcome = "Expired"

\* An edit of the applier outside the promoter does not stand unseen: time and
\* again the applier carries the pointer, or the edit was recorded as a witnessed
\* override, which freezes the Stage.  One that ends otherwise is raised again,
\* as often as the bound allows.
EditIsWitnessed ==
  []<>\/ stage.frozen \/ digest = stage.pointer \/ stage.pointer = NoDigest
      \/ /\ ~MayRaiseMore("witnessed")
         /\ \E u \in DOMAIN ops : /\ ops[u].name[1] = "witnessed"
                                 /\ ops[u].outcome \notin {"", "Witnessed"}

=============================================================================
