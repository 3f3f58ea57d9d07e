------------------------- MODULE PromoterLock_proofs -------------------------
(***************************************************************************)
(* The pointer lock, for any number of workers and however far the caches  *)
(* lag.  A reconcile decides on a cached copy, so the argument is about    *)
(* what a copy says of the stored Operation: an Operation only goes        *)
(* forward, and goes beyond the lock only once its copy did.               *)
(***************************************************************************)
EXTENDS PromoterStream_proofs

(***************************************************************************)
(* The invariant.                                                          *)
(***************************************************************************)
\* Before the lock, and shipped: from when its version runs until it concludes.
Early(op) == op.phase \in {"", "Pending"} \/ (op.phase = "Held" /\ ~op.applied)

Late(op) == op.phase = "Verifying" \/ (op.phase = "Held" /\ op.applied)

Sound(op) ==
  /\ op.phase \in {"", "Pending"} => ~op.applied
  /\ op.phase = "Verifying" => op.applied

\* The Operation b is what a copy a may have become.  It moved the pointer only
\* after a copy past the lock was read.
Past(a, b) ==
  /\ SameIntent(a, b)
  /\ a.phase = "Concluded" => b.phase = "Concluded"
  /\ Late(a) => Late(b) \/ b.phase = "Concluded"
  /\ Early(a) => ~b.applied
  /\ a.applied => b.applied

Holds(u) == stage.lock = u \/ u \in Numbered

\* The Stage runs u's version, unless it was taken to observe meanwhile.
Placed(u) ==
  \/ stage.pointer = ops[u].to
  \/ stage.level = Observe /\ stage.pointer = NoDigest

\* What a conclusion on its way rests on.
Based(op, r) ==
  r.at \in {"raise", "swap"} =>
    /\ r.c.verification = "Verified" => op.applied /\ ~r.c.preempted
    /\ r.c.outcome = "Succeeded" /\ op.type = "autonomy" /\ op.to > op.from
         => r.person /\ op.to = op.from + 1

\* What holds of the Operation op of u and its reconcile r.
OpFine(u, op, r) ==
  /\ Sound(op)
  /\ u \in DOMAIN Known => Past(Known[u], op)
  /\ op.phase = "Running" => Holds(u)
  /\ r.at = "planned" => Early(op)
  /\ r.at \in {"planned", "outdated"} => ~op.applied /\ u \in DOMAIN Known
  /\ r.at = "locked" => Early(op) /\ Holds(u)
  /\ r.at = "moved" => /\ op.phase = "Running" /\ ~op.applied
                       /\ u \in DOMAIN Known /\ ~Early(Known[u])
                       /\ stage.lock = u => Placed(u)
  /\ r.at = "apply" => op.phase = "Running" /\ op.applied
  /\ r.at = "patch" => op.applied /\ (OpLag \/ op.phase = "Running")
  /\ Based(op, r)

OpInv(u) == OpFine(u, ops[u], run[u])

HolderInv(u) ==
  /\ u \in DOMAIN Known /\ ~ConcludedOn(stage, u)
  /\ ops[u].applied => Placed(u)
  /\ stage.level = Observe \/ stage.pointer \in {ops[u].from, ops[u].to}

LockInv ==
  /\ \A u \in DOMAIN ops : OpInv(u) /\ (stage.lock = u => HolderInv(u))
  /\ stage.lock \in DOMAIN ops \cup {NoOp}

\* The cache of Operations keeps its copies or catches up.
KnownKept ==
  /\ DOMAIN Known \subseteq DOMAIN Known' /\ DOMAIN Known' \subseteq DOMAIN ops'
  /\ \A u \in DOMAIN Known' : \/ Known'[u] = ops'[u]
                              \/ u \in DOMAIN Known /\ Known'[u] = Known[u]

(***************************************************************************)
(* What a step of others does to an Operation.                             *)
(***************************************************************************)
\* The pointer stays, or gives way to observe.
PointerKept ==
  \/ /\ stage'.pointer = stage.pointer
     /\ stage'.level = Observe => stage.level = Observe
     /\ stage.level = Observe => stage'.level = Observe
  \/ stage'.level = Observe /\ stage'.pointer = NoDigest

(***************************************************************************)
(* The steps of the operation reconciler, by what they do.                 *)
(***************************************************************************)
\* What stands behind a conclusion when it is decided.
Grounded(o, c, person) ==
  /\ c.verification = "Verified" \/ c.outcome = "Failed" => ops[o].applied
  /\ c.preempted => /\ c.verification # "Verified"
                    /\ \E u \in DOMAIN ops : ops[u].type = "rollback" /\ ops[u].undoes = o
  /\ c.outcome = "Succeeded" /\ ops[o].type = "autonomy" /\ ops[o].to > ops[o].from
       => person /\ ops[o].to = ops[o].from + 1

Decides(o) ==
  \E c \in ConType, person \in BOOLEAN :
    /\ Conclude(o, c, person) /\ Grounded(o, c, person)
    /\ run[o].at \in {"idle", "planned", "apply"} /\ ops[o].phase # "Concluded"

Saves(o) ==
  \E op \in OpType :
    /\ Ready(o) /\ Save(o, op)
    /\ SameIntent(ops[o], op) /\ op.applied = ops[o].applied
    /\ \/ ops[o].phase = "" /\ op.phase = "Pending"
       \/ ops[o].phase \in {"Pending", "Verifying", "Held"} /\ op.phase = "Held"

Plans(o) ==
  Ready(o) /\ Early(Known[o]) /\ \E person : Planned(o, person)

Places(o) ==
  /\ Ready(o) /\ Known[o].phase = "Running" /\ ~Known[o].applied
  /\ stage.lock = o
  /\ stage' = [stage EXCEPT !.pointer = ops[o].to, !.lastOp = o]
  /\ run' = IF Stale(o) THEN run ELSE [run EXCEPT ![o].at = "moved"]
  /\ UNCHANGED <<ops, digest, sr, cstage, cops, edits, aborts, history>>

Ships(o) ==
  /\ run[o].at \in {"idle", "apply"}
  /\ ops[o].phase = "Running" /\ ops[o].applied
  /\ ops' = [ops EXCEPT ![o].phase = "Verifying"]
  /\ run' = [run EXCEPT ![o] = Idle]
  /\ UNCHANGED <<stage, digest, sr, cstage, cops, edits, aborts, history>>

(***************************************************************************)
(* Each kind of step keeps the invariant.                                  *)
(***************************************************************************)

\* One Operation is written, or the reconcile of one goes on.
LEMMA OneWritten ==
  ASSUME TypeInv, NEW o \in DOMAIN ops, NEW op, NEW r,
         ops' = [ops EXCEPT ![o] = op] \/ (ops' = ops /\ op = ops[o]),
         run' = [run EXCEPT ![o] = r] \/ (run' = run /\ r = run[o])
  PROVE  OnlyOf(o) /\ ops'[o] = op /\ run'[o] = r /\ DOMAIN ops' = DOMAIN ops
<1>1. DOMAIN run = DOMAIN ops
  BY Reads
<1>2. DOMAIN ops' = DOMAIN ops /\ ops'[o] = op /\ \A u \in DOMAIN ops \ {o} : ops'[u] = ops[u]
  OBVIOUS
<1>3. DOMAIN run' = DOMAIN ops /\ run'[o] = r /\ \A u \in DOMAIN ops \ {o} : run'[u] = run[u]
  BY <1>1
<1> QED BY <1>2, <1>3 DEF OnlyOf, Created

\* Raising what a failure owes adds at most an Operation.
LEMMA RaiseOwedSteps ==
  ASSUME TypeInv, NEW o \in DOMAIN ops, RaiseOwed(o)
  PROVE  /\ OnlyOf(o) /\ ops'[o] = ops[o] /\ run[o].at = "raise" /\ UNCHANGED <<stage, cops, history>>
         /\ LET op == Head(run[o].todo) IN
            \/ run'[o] = Idle
            \/ /\ run'[o].at = IF Tail(run[o].todo) = <<>> THEN "swap" ELSE "raise"
               /\ run'[o].todo = Tail(run[o].todo)
               /\ run'[o].c = run[o].c /\ run'[o].person = run[o].person
               /\ run'[o].squat <=> run[o].squat \/ Raise(op) = "squat"
               /\ ops' = OpsAfter(op) /\ Raise(op) # "error"
<1> DEFINE op   == Head(run[o].todo)
           rest == Tail(run[o].todo)
           on   == [run[o] EXCEPT !.at    = IF rest = <<>> THEN "swap" ELSE @,
                                  !.todo  = rest,
                                  !.squat = @ \/ Raise(op) = "squat"]
           r    == IF Raise(op) = "error" THEN Idle ELSE on
           steps == [run EXCEPT ![o] = r]
<1>1. /\ run[o] \in RunType /\ run[o].at = "raise" /\ run[o].todo # <<>>
      /\ run \in Seq(RunType) /\ Len(run) = Len(ops) /\ DOMAIN run = DOMAIN ops
      /\ run[o].squat \in BOOLEAN
  <2>1. /\ run[o] \in RunType /\ run[o].at = "raise" /\ run[o].todo # <<>>
        /\ run \in Seq(RunType) /\ Len(run) = Len(ops) /\ DOMAIN run = DOMAIN ops
    BY Reads DEF RaiseOwed, TypeInv, TypeOK
  <2> QED BY <2>1 DEF RunType
<1>2. Fresh(op) /\ rest \in Seq(RaisedType)
  <2>1. run[o].todo \in Seq(RaisedType)
    BY <1>1 DEF RunType
  <2>2. op \in RaisedType /\ rest \in Seq(RaisedType)
    BY <1>1, <2>1, SeqHeadTail
  <2> QED BY <2>2, Zenon DEF RaisedType, Fresh
<1>3. /\ on \in RunType /\ on.at = IF rest = <<>> THEN "swap" ELSE "raise"
      /\ on.todo = rest /\ on.c = run[o].c /\ on.person = run[o].person
      /\ on.squat = (run[o].squat \/ Raise(op) = "squat")
  BY <1>1, <1>2, Zenon DEF RunType
<1>4. r \in RunType /\ (r = Idle \/ r = on) /\ (r = on \/ Raise(op) = "error")
  BY <1>3, IdleType
<1>5. ops' = OpsAfter(op) /\ run' = RunAfter(op, steps) /\ UNCHANGED <<stage, cops, history>>
  BY DEF RaiseOwed
<1>6. Raise(op) = "error" => r = Idle
  OBVIOUS
<1> HIDE DEF op, r, on
<1>7. /\ steps \in Seq(RunType) /\ Len(steps) = Len(ops) /\ steps[o] = r
      /\ \A u \in DOMAIN ops \ {o} : steps[u] = run[u]
  BY <1>1, <1>4, SeqExcept
<1> HIDE DEF steps
<1>8. Created /\ \A u \in DOMAIN ops : ops'[u] = ops[u] /\ run'[u] = steps[u]
  BY <1>2, <1>5, <1>7, RaiseCreates
<1>9. OnlyOf(o) /\ ops'[o] = ops[o] /\ run'[o] = r
  BY <1>7, <1>8 DEF OnlyOf
<1>10. \/ r = Idle
       \/ /\ r.at = IF rest = <<>> THEN "swap" ELSE "raise"
          /\ r.todo = rest /\ r.c = run[o].c /\ r.person = run[o].person
          /\ r.squat <=> run[o].squat \/ Raise(op) = "squat"
          /\ Raise(op) # "error"
  BY <1>3, <1>4, <1>6, Zenon
<1> QED BY <1>1, <1>5, <1>9, <1>10, Zenon DEF op

\* A step of the reconcile of o that leaves the Stage and the stream alone.
Quietly(o) ==
  \/ Decides(o) \/ Saves(o) \/ Plans(o) \/ LockWaits(o)
  \/ RaiseOwed(o) \/ WriteConcluded(o) \/ WriteRunning(o) \/ WriteApplied(o) \/ Ships(o) \/ ReadBefore(o) \/ Patch(o) \/ NotAppliedYet(o) \/ Abort(o)

LEMMA QuietSteps ==
  ASSUME NEW o, Quietly(o)
  PROVE  UNCHANGED <<stage, history, cops>>
<1>1. Decides(o) \/ Saves(o) \/ Plans(o) \/ LockWaits(o) => UNCHANGED <<stage, history, cops>>
  BY Zenon DEF Decides, Saves, Plans, Conclude, Save, Planned, LockWaits
<1> QED BY <1>1, Zenon DEF Quietly, RaiseOwed, WriteConcluded, WriteRunning, WriteApplied, Ships,
                    ReadBefore, Patch, NotAppliedYet, Abort

\* Every step, by what it does.
LEMMA NextKinds ==
  ASSUME TypeInv, LockInv, [Next]_vars
  PROVE  \/ \E o \in DOMAIN ops : Quietly(o) \/ SwapAgain(o) \/ Swap(o) \/ Lock(o) \/ Places(o)
         \/ World \/ UNCHANGED vars
\* A conclusion that claims nothing that needs grounds.
<1>PlainGrounds.
  ASSUME NEW o, NEW person, NEW c,
         \/ c \in {Again, Errored}
         \/ \E x \in {"Rejected", "Expired", "Superseded"} : c = Con(x, "")
  PROVE  c \in ConType /\ Grounded(o, c, person)
  <2> USE <1>PlainGrounds
  <2>1. \A x \in {"", "Rejected", "Expired", "Superseded"} :
          /\ Con(x, "") \in ConType /\ Con(x, "").outcome = x
          /\ Con(x, "").verification = "" /\ ~Con(x, "").preempted
    BY Zenon DEF Con, ConType, Outcomes, Verifications
  <2>2. /\ Errored \in ConType /\ Errored.outcome = "Errored"
        /\ Errored.verification = "" /\ ~Errored.preempted
    BY Zenon DEF Errored, Con, ConType, Outcomes, Verifications
  <2>3. Again = Con("", "")
    BY Zenon DEF Again
  <2>4. /\ c \in ConType /\ c.outcome \notin {"Failed", "Succeeded"}
        /\ c.verification # "Verified" /\ ~c.preempted
    BY <2>1, <2>2, <2>3, Zenon
  <2> QED BY <2>4, Zenon DEF Grounded

\* A reconcile that starts on the stored Operation may conclude it.
<1>FinishDecides.
  ASSUME TypeInv, NEW o, Ready(o), NEW c \in ConType, NEW person \in BOOLEAN,
         Finish(o, c, person), Grounded(o, c, person)
  PROVE  Decides(o)
  BY <1>FinishDecides, Starts DEF Finish, Decides

\* A conclusion that is neither a failure nor a verdict, of an Operation that
\* raises no level without a person.
<1>SucceededGrounds.
  ASSUME NEW o, NEW person \in BOOLEAN, NEW v \in {"Unverified", "AcceptedUnknown"},
         ops[o].type = "autonomy" /\ ops[o].to > ops[o].from => person /\ ops[o].to = ops[o].from + 1
  PROVE  Con("Succeeded", v) \in ConType /\ Grounded(o, Con("Succeeded", v), person)
  <2> USE <1>SucceededGrounds
  <2>1. Con("Succeeded", v) \in ConType
    BY Zenon DEF Con, ConType, Outcomes, Verifications
  <2>2. /\ Con("Succeeded", v).outcome = "Succeeded" /\ Con("Succeeded", v).verification = v
        /\ ~Con("Succeeded", v).preempted
    BY Zenon DEF Con
  <2> QED BY <2>1, <2>2 DEF Grounded

\* Where no level would be raised, the plan or the conclusion of a level change.
<1>LockKinds.
  ASSUME TypeInv, NEW o, Ready(o), Early(Known[o]), NEW person \in BOOLEAN, LockOrLevel(o, person),
         ops[o].type = "autonomy" /\ ops[o].to > ops[o].from => person /\ ops[o].to = ops[o].from + 1
  PROVE  Decides(o) \/ Plans(o)
  <2> USE <1>LockKinds
  <2>1. CASE Finish(o, Con("Succeeded", "Unverified"), person)
    BY <2>1, <1>SucceededGrounds, <1>FinishDecides
  <2>2. CASE Planned(o, person)
    BY <2>2, Zenon DEF Plans
  <2> QED BY <2>1, <2>2 DEF LockOrLevel

\* The swap that finds o concluded, or the pointer moved, concludes it.
<1>RefusedDecides.
  ASSUME TypeInv, LockInv, NEW o \in DOMAIN ops, LockRefused(o)
  PROVE  Decides(o)
  <2> USE <1>RefusedDecides
  <2>1. run[o].at = "planned" /\ run[o].person \in BOOLEAN
    BY Reads, Zenon DEF LockRefused, RunType
  <2>2. ops[o].phase # "Concluded"
    BY <2>1, Zenon DEF LockInv, OpInv, OpFine, Early
  <2>3. PICK c : c \in {Again, Con("Rejected", "")} /\ Conclude(o, c, run[o].person)
    BY Zenon DEF LockRefused
  <2>4. c \in ConType /\ Grounded(o, c, run[o].person)
    BY <2>3, <1>PlainGrounds, Zenon
  <2> QED BY <2>1, <2>2, <2>3, <2>4, Zenon DEF Decides

\* A level is raised by a person and one step at a time.
<1>PlannedRaise.
  ASSUME TypeInv, NEW o \in DOMAIN ops, NEW gate \in GateVerdicts(ops[o]),
         ops[o].type = "autonomy", ops[o].to > ops[o].from, Plan(o, gate) # "rejected"
  PROVE  ops[o].to = ops[o].from + 1 /\ Plan(o, gate) # "proceeds"
  <2> USE <1>PlannedRaise
  <2>1. ops[o].from \in Levels /\ ops[o].to \in Levels
    BY Reads, OpFields
  <2>2. ops[o].from \in Int /\ ops[o].to \in Int
    BY <2>1 DEF Levels, Observe, Autonomous
  <2>3. \A s : Predict(ops[o], s, gate) # "rejected" => gate # "fail"
    BY DEF Predict
  <2>4. gate # "fail"
    BY <2>3 DEF Plan
  <2>5. gate \in LevelVerdicts(ops[o])
    BY DEF GateVerdicts
  <2>6. gate = "human" /\ ~RaiseRefusal(ops[o])
    BY <2>2, <2>4, <2>5 DEF LevelVerdicts
  <2>7. \A s : Predict(ops[o], s, gate) # "proceeds"
    BY <2>6 DEF Predict
  <2>8. Plan(o, gate) # "proceeds"
    BY <2>7 DEF Plan
  <2>9. ops[o].to = ops[o].from + 1
    BY <2>2, <2>6 DEF RaiseRefusal
  <2> QED BY <2>8, <2>9

\* Writing where o got to.
<1>PhaseSaves.
  ASSUME TypeInv, NEW o, Ready(o), NEW p \in {"Pending", "Held"},
         Save(o, [ops[o] EXCEPT !.phase = p]),
         p = "Pending" => Known[o].phase = "",
         p = "Held" => Known[o].phase \in {"Pending", "Verifying"}
  PROVE  Saves(o)
  <2> USE <1>PhaseSaves
  <2>1. ops[o] \in OpType /\ Known[o] = ops[o]
    BY ReadyReads, Zenon DEF Save, Stale
  <2>2. PICK op : op = [ops[o] EXCEPT !.phase = p]
    BY Zenon
  <2>3. op \in OpType
    BY <2>1, <2>2, PhaseType, Zenon DEF Phases
  <2>4. op.phase = p /\ op.applied = ops[o].applied /\ SameIntent(ops[o], op)
    BY <2>1, <2>2, Zenon DEF OpType, SameIntent
  <2> QED BY <2>1, <2>2, <2>3, <2>4, Zenon DEF Saves

\* Up to the lock, a step concludes, writes where it got to or plans the lock.
<1>BeforeLockKinds.
  ASSUME TypeInv, NEW o \in DOMAIN ops,
         \/ FinishAgain(o) \/ Admit(o) \/ PreApplyExit(o) \/ Supersede(o) \/ FreezeOrUnfreeze(o)
         \/ Pend(o) \/ HeldReject(o) \/ HeldAskAgain(o) \/ HeldApprove(o)
  PROVE  Decides(o) \/ Saves(o) \/ Plans(o)
  <2> USE <1>BeforeLockKinds
  <2>1. Ready(o) /\ ops[o] \in OpType /\ ops[o].person \in BOOLEAN
    <3>1. Ready(o)
      BY Zenon DEF FinishAgain, Admit, PreApplyExit, Supersede, FreezeOrUnfreeze, Pend, HeldReject,
                   HeldAskAgain, HeldApprove, In
    <3> QED BY <3>1, ReadyReads
  <2>2. \A person \in BOOLEAN, x \in {"Rejected", "Expired", "Superseded"} :
          Finish(o, Con(x, ""), person) => Decides(o)
    BY <2>1, <1>PlainGrounds, <1>FinishDecides, Zenon
  <2>3. CASE FinishAgain(o)
    BY <2>1, <2>3, <1>PlainGrounds, <1>FinishDecides, Zenon DEF FinishAgain
  <2>4. CASE Admit(o)
    <3>1. \/ Finish(o, Con("Rejected", ""), FALSE)
          \/ Save(o, [ops[o] EXCEPT !.phase = "Pending"]) /\ Known[o].phase = ""
      BY <2>4, Zenon DEF Admit, In
    <3> QED BY <2>1, <2>2, <3>1, <1>PhaseSaves, Zenon
  <2>5. CASE PreApplyExit(o) \/ Supersede(o) \/ HeldReject(o)
    BY <2>1, <2>2, <2>5, Zenon DEF PreApplyExit, Supersede, HeldReject
  <2>6. CASE FreezeOrUnfreeze(o)
    BY <2>1, <2>6, <1>SucceededGrounds, <1>FinishDecides DEF FreezeOrUnfreeze
  <2>7. CASE Pend(o)
    <3>1. Known[o].phase = "Pending" /\ Early(Known[o])
      BY <2>7, Zenon DEF Pend, In, Early
    <3>2. PICK gate \in GateVerdicts(ops[o]) :
            \/ Finish(o, Con("Rejected", ""), ops[o].person)
            \/ Save(o, [ops[o] EXCEPT !.phase = "Held"])
            \/ Plan(o, gate) = "proceeds" /\ LockOrLevel(o, ops[o].person)
      BY <2>7, Zenon DEF Pend
    <3>3. Plan(o, gate) = "proceeds" => ~(ops[o].type = "autonomy" /\ ops[o].to > ops[o].from)
      BY <1>PlannedRaise
    <3> QED BY <2>1, <2>2, <3>1, <3>2, <3>3, <1>PhaseSaves, <1>LockKinds, Zenon
  <2>8. CASE HeldAskAgain(o)
    <3>1. PICK op : op = [ops[o] EXCEPT !.person = TRUE]
      BY Zenon
    <3>2. Save(o, op) /\ Known[o].phase = "Held" /\ Known[o] = ops[o]
      BY <2>8, <3>1, Zenon DEF HeldAskAgain, In, Save, Stale
    <3>3. op \in OpType
      BY <2>1, <3>1, PersonType, Zenon
    <3>4. op.phase = ops[o].phase /\ op.applied = ops[o].applied /\ SameIntent(ops[o], op)
      BY <2>1, <3>1, Zenon DEF OpType, SameIntent
    <3> QED BY <2>1, <3>2, <3>3, <3>4, Zenon DEF Saves
  <2>9. CASE HeldApprove(o)
    <3>1. Known[o].phase = "Held" /\ Early(Known[o])
      BY <2>9, Zenon DEF HeldApprove, In, Early
    <3>2. PICK gate \in GateVerdicts(ops[o]) :
            \/ Finish(o, Con("Rejected", ""), TRUE)
            \/ /\ ~(ops[o].type \in {"promote", "autonomy"} /\ Plan(o, gate) = "rejected")
               /\ LockOrLevel(o, TRUE)
      BY <2>9, Zenon DEF HeldApprove
    <3>3. ops[o].type = "autonomy" /\ ops[o].to > ops[o].from /\ Plan(o, gate) # "rejected" =>
            ops[o].to = ops[o].from + 1
      BY <1>PlannedRaise
    <3> QED BY <2>1, <2>2, <3>1, <3>2, <3>3, <1>LockKinds, Zenon
  <2> QED BY <2>3, <2>4, <2>5, <2>6, <2>7, <2>8, <2>9, Zenon

\* What moved the pointer may end as a failure, or well without a level.
<1>AppliedGrounds.
  ASSUME NEW o, NEW person, ops[o].applied, ops[o].type # "autonomy"
  PROVE  /\ \A c \in ConType : ~c.preempted => Grounded(o, c, person)
         /\ \A c \in ConType :
              /\ c.verification # "Verified"
              /\ \E u \in DOMAIN ops : ops[u].type = "rollback" /\ ops[u].undoes = o
              => Grounded(o, c, person)
  BY <1>AppliedGrounds DEF Grounded

\* A conclusion before any verdict is no preemption.
<1>ConclusionTypes.
  /\ \A c \in {Con("Failed", ""), Con("Succeeded", "Verified"), Con("Succeeded", "AcceptedUnknown"),
               VerifyFailed, PreemptedBy, Errored} : c \in ConType /\ ~c.preempted
  /\ \A op : Overridden(op) \in ConType /\ ~Overridden(op).preempted
  /\ [VerifyFailed EXCEPT !.preempted = TRUE] \in ConType
  /\ [VerifyFailed EXCEPT !.preempted = TRUE].verification # "Verified"
  <2>1. /\ \A x \in {"Failed", "Succeeded", "Errored", "Witnessed"} : x \in Outcomes
        /\ \A x \in {"", "Verified", "Unverified", "AcceptedUnknown"} : x \in Verifications
    BY DEF Outcomes, Verifications
  <2>2. \A x \in Outcomes, v \in Verifications : Con(x, v) \in ConType /\ ~Con(x, v).preempted
    BY Zenon DEF Con, ConType
  <2>3. \A c \in ConType :
          /\ ~c.preempted => /\ ~[c EXCEPT !.freeze = TRUE].preempted
                             /\ ~[c EXCEPT !.cause = TRUE].preempted
          /\ [c EXCEPT !.freeze = TRUE] \in ConType /\ [c EXCEPT !.cause = TRUE] \in ConType
          /\ [c EXCEPT !.preempted = TRUE] \in ConType
    BY Zenon DEF ConType
  <2>4. VerifyFailed \in ConType /\ ~VerifyFailed.preempted
    BY <2>1, <2>2, <2>3, Zenon DEF VerifyFailed
  <2>5. Errored \in ConType /\ ~Errored.preempted
    BY <2>1, <2>2, <2>3, Zenon DEF Errored
  <2>6. \A op : Overridden(op) \in ConType /\ ~Overridden(op).preempted
    BY <2>1, <2>2, <2>3, Zenon DEF Overridden
  <2>7. PreemptedBy \in ConType /\ ~PreemptedBy.preempted
    BY <2>1, <2>2, Zenon DEF PreemptedBy
  <2>8. [VerifyFailed EXCEPT !.preempted = TRUE].verification # "Verified"
    BY Zenon DEF VerifyFailed, Con
  <2>9. \A c \in {Con("Failed", ""), Con("Succeeded", "Verified"), Con("Succeeded", "AcceptedUnknown")} :
          c \in ConType /\ ~c.preempted
    BY <2>1, <2>2, Zenon
  <2> QED BY <2>3, <2>4, <2>5, <2>6, <2>7, <2>8, <2>9, Zenon

\* From the lock to the patch of the applier.
<1>MovingKinds.
  ASSUME TypeInv, LockInv, NEW o \in DOMAIN ops,
         \/ ExecutionDeadline(o) \/ MoveSwap(o) \/ ForeignWriter(o) \/ ApplyFailed(o) \/ AppliedOk(o)
  PROVE  Decides(o) \/ Places(o) \/ Ships(o)
  <2> USE <1>MovingKinds
  <2>1. ops[o] \in OpType /\ ops[o].person \in BOOLEAN /\ OpInv(o)
    BY Reads, OpFields DEF LockInv
  <2>2. CASE ExecutionDeadline(o) \/ MoveSwap(o)
    <3>1. Ready(o) /\ Known[o].phase = "Running"
      BY <2>2, Zenon DEF ExecutionDeadline, MoveSwap, In
    <3>2. Finish(o, Errored, ops[o].person) => Decides(o)
      BY <2>1, <3>1, <1>PlainGrounds, <1>FinishDecides, Zenon
    <3> QED BY <2>2, <3>1, <3>2, Zenon DEF ExecutionDeadline, MoveSwap, Places
  <2>3. CASE ForeignWriter(o) \/ ApplyFailed(o) \/ AppliedOk(o)
    <3>1. Applying(o) /\ Current(o)
      BY <2>3, Zenon DEF ForeignWriter, ApplyFailed, AppliedOk
    <3>2. /\ run[o].at \in {"idle", "apply"} /\ ops[o].phase = "Running" /\ ops[o].applied
          /\ ops[o].phase # "Concluded"
      BY <2>1, <3>1, Starts, Zenon DEF Applying, Current, In, Stale, OpInv, OpFine
    <3>3. ops[o].type # "autonomy"
      BY <2>1, <3>2, OpFields
    <3>4. \A c \in ConType : ~c.preempted /\ Conclude(o, c, ops[o].person) => Decides(o)
      BY <2>1, <3>2, <3>3, <1>AppliedGrounds DEF Decides
    <3>5. CASE ForeignWriter(o)
      BY <3>4, <3>5, <1>ConclusionTypes, Zenon DEF ForeignWriter
    <3>6. CASE ApplyFailed(o)
      BY <3>4, <3>6, <1>ConclusionTypes, Zenon DEF ApplyFailed
    <3>7. CASE AppliedOk(o)
      BY <3>2, <3>4, <3>7, <1>ConclusionTypes, Zenon DEF AppliedOk, Ships
    <3> QED BY <2>3, <3>5, <3>6, <3>7
  <2> QED BY <2>2, <2>3

\* The verdict of the gates.
<1>JudgingKinds.
  ASSUME TypeInv, LockInv, NEW o \in DOMAIN ops,
         Preempted(o) \/ Verify(o) \/ VerifyDeadline(o) \/ HeldDecision(o)
  PROVE  Decides(o) \/ Saves(o)
  <2> USE <1>JudgingKinds
  <2>1. ops[o] \in OpType /\ ops[o].person \in BOOLEAN /\ OpInv(o)
    BY Reads, OpFields DEF LockInv
  <2>2. Ready(o) /\ (Known[o].phase = "Verifying" \/ (Known[o].phase = "Held" /\ Known[o].applied))
    BY Zenon DEF Preempted, Verify, VerifyDeadline, HeldDecision, Shipped, In
  <2>3. ~Stale(o) => ops[o].applied /\ ops[o].type # "autonomy"
    <3>1. ~Stale(o) => ops[o].applied
      BY <2>1, <2>2, Zenon DEF Stale, OpInv, OpFine, Sound
    <3> QED BY <2>1, <3>1, OpFields
  <2>4. \A c \in ConType, person \in BOOLEAN :
          /\ Finish(o, c, person)
          /\ \/ ~c.preempted
             \/ /\ c.verification # "Verified"
                /\ \E u \in DOMAIN ops : ops[u].type = "rollback" /\ ops[u].undoes = o
          => Decides(o)
    BY <2>2, <2>3, <1>AppliedGrounds, <1>FinishDecides, Zenon DEF Finish
  <2>5. CASE Preempted(o)
    <3>1. CASE Preemption(o) = PreemptedBy
      BY <2>1, <2>4, <2>5, <3>1, <1>ConclusionTypes, Zenon DEF Preempted
    <3>2. CASE /\ Preemption(o) = [VerifyFailed EXCEPT !.preempted = TRUE]
               /\ \E u \in DOMAIN Known : PulledBy(o, Known[u])
      <4>1. PICK u \in DOMAIN Known : Known[u].type = "rollback" /\ Known[u].undoes = o
        BY <3>2, Zenon DEF PulledBy
      <4>2. u \in DOMAIN ops /\ SameIntent(Known[u], ops[u])
        BY <4>1, Reads, Zenon DEF LockInv, OpInv, OpFine, Past
      <4>3. ops[u].type = "rollback" /\ ops[u].undoes = o
        BY <4>1, <4>2, Zenon DEF SameIntent
      <4> QED BY <2>1, <2>4, <2>5, <3>2, <4>2, <4>3, <1>ConclusionTypes, Zenon DEF Preempted
    <3> QED BY <3>1, <3>2, Zenon DEF Preemption
  <2>6. CASE Verify(o)
    BY <2>1, <2>4, <2>6, <1>ConclusionTypes, Zenon DEF Verify
  <2>7. CASE HeldDecision(o)
    BY <2>1, <2>4, <2>7, <1>ConclusionTypes, Zenon DEF HeldDecision
  <2>8. CASE VerifyDeadline(o)
    <3>1. Known[o].phase = "Verifying" /\ Save(o, [ops[o] EXCEPT !.phase = "Held"])
      BY <2>8, Zenon DEF VerifyDeadline, In
    <3> QED BY <2>2, <3>1, <1>PhaseSaves, Zenon
  <2> QED BY <2>5, <2>6, <2>7, <2>8
<1>1. ASSUME NEW o \in DOMAIN ops, Advance(o) \/ Abort(o)
      PROVE  Quietly(o) \/ SwapAgain(o) \/ Swap(o) \/ Lock(o) \/ Places(o)
  <2>1. CASE \/ FinishAgain(o) \/ Admit(o) \/ PreApplyExit(o) \/ Supersede(o) \/ FreezeOrUnfreeze(o)
             \/ Pend(o) \/ HeldReject(o) \/ HeldAskAgain(o) \/ HeldApprove(o)
    BY <2>1, <1>BeforeLockKinds, Zenon DEF Quietly
  <2>2. CASE \/ ExecutionDeadline(o) \/ MoveSwap(o) \/ ForeignWriter(o) \/ ApplyFailed(o)
             \/ AppliedOk(o)
    BY <2>2, <1>MovingKinds, Zenon DEF Quietly
  <2>3. CASE Preempted(o) \/ Verify(o) \/ VerifyDeadline(o) \/ HeldDecision(o)
    BY <2>3, <1>JudgingKinds, Zenon DEF Quietly
  <2>4. CASE LockRefused(o) \/ LockWaits(o)
    BY <2>4, <1>RefusedDecides, Zenon DEF Quietly
  <2> QED BY <1>1, <2>1, <2>2, <2>3, <2>4, Zenon DEF Advance, Quietly
<1> QED BY <1>1, Zenon DEF Next, World

LEMMA NextKeepsLock ==
  ASSUME TypeInv, TypeInv', LastRemembered, LockInv, [Next]_vars
  PROVE  LockInv'
<1>KnownSteps.
  ASSUME TypeInv, TypeInv', Created, cops' = cops \/ (OpLag /\ cops' = ops /\ ops' = ops)
  PROVE  KnownKept
  <2> USE <1>KnownSteps
  <2>1. DOMAIN Known \subseteq DOMAIN ops /\ DOMAIN Known' \subseteq DOMAIN ops'
    <3>1. DOMAIN Known \subseteq DOMAIN ops
      BY Reads
    <3>2. DOMAIN cops' \subseteq DOMAIN ops'
      BY SMTT(30) DEF TypeInv, TypeOK
    <3> QED BY <3>1, <3>2 DEF Known
  <2>2. CASE OpLag
    <3>1. Known = cops /\ Known' = cops'
      BY <2>2 DEF Known
    <3> QED BY <2>1, <2>2, <3>1 DEF KnownKept
  <2>3. CASE ~OpLag
    <3>1. Known = ops /\ Known' = ops'
      BY <2>3 DEF Known
    <3> QED BY <2>1, <2>3, <3>1 DEF KnownKept, Created
  <2> QED BY <2>2, <2>3

\* A copy of an Operation that did not go on still is one.
<1>PastKept.
  ASSUME KnownKept, NEW u \in DOMAIN ops, Sound(ops'[u]),
         u \in DOMAIN Known => Past(Known[u], ops'[u])
  PROVE  u \in DOMAIN Known' => Past(Known'[u], ops'[u])
  <2> USE <1>PastKept
  <2>1. Past(ops'[u], ops'[u])
    BY Zenon DEF Past, Sound, SameIntent, Early
  <2> QED BY <2>1 DEF KnownKept

\* Who held the Stage still does, or its copy says the lock may be taken.
<1>OthersKeep.
  ASSUME NEW u \in DOMAIN ops, OpInv(u), KnownKept, ops'[u] = ops[u],
         run'[u] = run[u] \/ run'[u].at = "idle",
         \/ Holds(u) => Holds(u)'
         \/ u \in DOMAIN Known /\ (Known[u].phase = "Concluded" \/ Late(Known[u])),
         stage'.lock = u => stage.lock = u /\ PointerKept
  PROVE  OpInv(u)'
  <2> USE <1>OthersKeep
  <2>1. Sound(ops'[u]) /\ (u \in DOMAIN Known' => Past(Known'[u], ops'[u]))
    BY <1>PastKept DEF OpInv, OpFine
  <2>2. \/ Holds(u) => Holds(u)'
        \/ Late(ops[u]) \/ ops[u].phase = "Concluded"
    BY DEF OpInv, OpFine, Past
  <2>3. ops'[u].phase = "Running" => Holds(u)'
    BY <2>2, Zenon DEF OpInv, OpFine, Late
  <2>4. run'[u].at = "locked" => Early(ops'[u]) /\ Holds(u)'
    BY <2>2, Zenon DEF OpInv, OpFine, Early, Late
  <2>5. Placed(u) /\ stage'.lock = u => Placed(u)'
    BY DEF Placed, PointerKept
  <2>6. run'[u].at = "moved" => /\ ops'[u].phase = "Running" /\ ~ops'[u].applied
                                /\ u \in DOMAIN Known' /\ ~Early(Known'[u])
                                /\ stage'.lock = u => Placed(u)'
    BY <2>5, Zenon DEF OpInv, OpFine, KnownKept, Early
  <2>7. /\ run'[u].at = "apply" => ops'[u].phase = "Running" /\ ops'[u].applied
        /\ run'[u].at = "patch" => ops'[u].applied /\ (OpLag \/ ops'[u].phase = "Running")
    BY Zenon DEF OpInv, OpFine
  <2>9. /\ run'[u].at = "planned" => Early(ops'[u])
        /\ run'[u].at \in {"planned", "outdated"} => ~ops'[u].applied /\ u \in DOMAIN Known'
    BY DEF OpInv, OpFine, KnownKept
  <2>8. Based(ops'[u], run'[u])
    BY Zenon DEF OpInv, OpFine, Based
  <2> QED BY <2>1, <2>3, <2>4, <2>6, <2>7, <2>8, <2>9, Zenon DEF OpInv, OpFine

\* An Operation just created.
<1>FreshKeeps.
  ASSUME TypeInv, KnownKept, Created, NEW u \in DOMAIN ops' \ DOMAIN ops
  PROVE  OpInv(u)'
  <2> USE <1>FreshKeeps
  <2>1. Fresh(ops'[u]) /\ run'[u].at = "idle"
    BY DEF Created, Idle
  <2>2. u \in DOMAIN Known' => Known'[u] = ops'[u]
    BY Reads DEF KnownKept
  <2>3. u \in DOMAIN Known' => Past(Known'[u], ops'[u])
    BY <2>1, <2>2, Zenon DEF Past, SameIntent, Fresh, Late
  <2> QED BY <2>1, <2>3, ZenonT(30) DEF OpInv, OpFine, Fresh, Sound, Based

\* The holder of the lock, when its Operation did not go on.
<1>HolderKeeps.
  ASSUME NEW u \in DOMAIN ops, HolderInv(u), KnownKept, ops'[u] = ops[u], PointerKept,
         ~ConcludedOn(stage', u)
  PROVE  HolderInv(u)'
  BY <1>HolderKeeps DEF HolderInv, KnownKept, PointerKept, Placed

\* With the Operations there were, those created keep it too.
<1>AllKeep.
  ASSUME TypeInv, TypeInv', KnownKept, Created, stage'.lock \in DOMAIN ops \cup {NoOp},
         \A u \in DOMAIN ops : OpInv(u)' /\ (stage'.lock = u => HolderInv(u)')
  PROVE  LockInv'
  <2> USE <1>AllKeep
  <2>1. \A u \in DOMAIN ops' \ DOMAIN ops : OpInv(u)'
    BY <1>FreshKeeps
  <2>2. NoOp \notin DOMAIN ops'
    <3>1. ops' \in Seq(OpType')
      BY Zenon DEF TypeInv, TypeOK
    <3> QED BY <3>1 DEF NoOp
  <2> QED BY <2>1, <2>2 DEF LockInv, Created

\* The stage reconciler, the world outside and the watches keep it.
<1>WorldKeeps.
  ASSUME TypeInv, TypeInv', LockInv, World
  PROVE  LockInv'
  <2> USE <1>WorldKeeps
  <2>1. /\ Created /\ LockKept /\ history' = history
        /\ \A u \in DOMAIN ops : ops'[u] = ops[u] /\ run'[u] = run[u]
        /\ cops' = cops \/ (OpLag /\ cops' = ops /\ ops' = ops)
    BY WorldSteps
  <2>2. KnownKept
    BY <2>1, <1>KnownSteps
  <2>3. /\ PointerKept /\ \A u : Holds(u) => Holds(u)'
        /\ \A u : ConcludedOn(stage', u) => ConcludedOn(stage, u)
    BY <2>1 DEF LockKept, PointerKept, Holds, Numbered, ConcludedOn
  <2>4. \A u \in DOMAIN ops : OpInv(u)'
    BY <2>1, <2>2, <2>3, <1>OthersKeep DEF LockInv, LockKept
  <2>5. \A u \in DOMAIN ops : stage'.lock = u => HolderInv(u)'
    BY <2>1, <2>2, <2>3, <1>HolderKeeps, Zenon DEF LockInv, HolderInv, LockKept
  <2> QED BY <2>1, <2>2, <2>4, <2>5, <1>AllKeep DEF LockInv, LockKept

\* A step of the reconcile of o keeps it when it does for o, leaves no other
\* without the lock it holds and lets no other take it.
<1>OwnKeeps.
  ASSUME TypeInv, TypeInv', LockInv, NEW o \in DOMAIN ops, OnlyOf(o), cops' = cops,
         OpInv(o)', stage'.lock = o => HolderInv(o)',
         stage'.lock \in DOMAIN ops \cup {NoOp},
         \A u \in DOMAIN ops \ {o} :
           /\ \/ Holds(u) => Holds(u)'
              \/ u \in DOMAIN Known /\ (Known[u].phase = "Concluded" \/ Late(Known[u]))
           /\ stage'.lock = u => stage.lock = u /\ PointerKept /\ ~ConcludedOn(stage', u)
  PROVE  LockInv'
  <2> USE <1>OwnKeeps
  <2>1. Created /\ \A u \in DOMAIN ops \ {o} : ops'[u] = ops[u] /\ run'[u] = run[u]
    BY Zenon DEF OnlyOf
  <2>2. KnownKept
    BY <2>1, <1>KnownSteps
  <2>3. ASSUME NEW u \in DOMAIN ops \ {o}
        PROVE  OpInv(u)' /\ (stage'.lock = u => HolderInv(u)')
    <3>1. OpInv(u) /\ (stage.lock = u => HolderInv(u))
      BY DEF LockInv
    <3>2. OpInv(u)'
      BY <2>1, <2>2, <3>1, <1>OthersKeep, Zenon
    <3>3. stage'.lock = u => HolderInv(u)'
      BY <2>1, <2>2, <3>1, <1>HolderKeeps, Zenon
    <3> QED BY <3>2, <3>3
  <2> QED BY <2>1, <2>2, <2>3, <1>AllKeep, Zenon

\* The Stage is left alone.
<1>QuietKeeps.
  ASSUME TypeInv, TypeInv', LockInv, NEW o \in DOMAIN ops, OnlyOf(o),
         UNCHANGED <<stage, cops, history>>,
         OpFine(o, ops'[o], run'[o]), SameIntent(ops[o], ops'[o]),
         stage.lock = o /\ ops'[o].applied => ops[o].applied \/ Placed(o)
  PROVE  LockInv'
  <2> USE <1>QuietKeeps
  <2>1. Created /\ KnownKept
    BY <1>KnownSteps DEF OnlyOf
  <2>2. /\ PointerKept /\ \A u : Holds(u)' <=> Holds(u)
        /\ \A u : ConcludedOn(stage', u) <=> ConcludedOn(stage, u)
    BY DEF PointerKept, Holds, Numbered
  <2>3. Placed(o)' <=> Placed(o)
    BY DEF Placed, SameIntent
  <2>4. o \in DOMAIN Known' => Past(Known'[o], ops'[o])
    BY <2>1, <1>PastKept, Zenon DEF OpFine
  <2>5. run'[o].at = "moved" => o \in DOMAIN Known' /\ ~Early(Known'[o])
    BY <2>1, Zenon DEF OpFine, KnownKept, Early
  <2>6. OpInv(o)'
    <3>1. OpFine(o, ops'[o], run'[o])
      OBVIOUS
    <3>2. run'[o].at \in {"planned", "outdated"} => ~ops'[o].applied /\ o \in DOMAIN Known'
      BY <2>1, <3>1 DEF OpFine, KnownKept
    <3> QED BY <2>2, <2>3, <2>4, <2>5, <3>1, <3>2, Zenon DEF OpInv, OpFine
  <2>7. OpInv(o) /\ (stage.lock = o => HolderInv(o)) /\ stage.lock \in DOMAIN ops \cup {NoOp}
    BY Zenon DEF LockInv
  <2>8. stage'.lock = o => HolderInv(o)'
    <3> SUFFICES ASSUME stage.lock = o PROVE HolderInv(o)'
      OBVIOUS
    <3>1. HolderInv(o)
      BY <2>7
    <3>2. o \in DOMAIN Known' /\ ~ConcludedOn(stage', o)
      BY <2>1, <2>2, <3>1, Zenon DEF HolderInv, KnownKept
    <3>3. ops'[o].applied => Placed(o)'
      BY <2>3, <3>1, Zenon DEF HolderInv
    <3>4. stage'.level = Observe \/ stage'.pointer \in {ops'[o].from, ops'[o].to}
      BY <3>1 DEF HolderInv, SameIntent
    <3> QED BY <3>2, <3>3, <3>4, Zenon DEF HolderInv
  <2>9. \A u \in DOMAIN ops \ {o} :
          /\ Holds(u) => Holds(u)'
          /\ stage'.lock = u => stage.lock = u /\ PointerKept /\ ~ConcludedOn(stage', u)
    BY <2>2, Zenon DEF LockInv, HolderInv
  <2>10. stage'.lock \in DOMAIN ops \cup {NoOp}
    BY <2>7
  <2> QED BY <2>6, <2>8, <2>9, <2>10, <1>OwnKeeps, Zenon

\* A reconcile that ends here, with the Operation as it is.
<1>RunOnlyKeeps.
  ASSUME TypeInv, TypeInv', LockInv, NEW o \in DOMAIN ops, NEW r,
         run' = [run EXCEPT ![o] = r], UNCHANGED <<stage, ops, cops, history>>,
         r.at \in {"idle", "raise", "swap", "write", "planned", "outdated", "patch"},
         Based(ops[o], r),
         r.at = "planned" => Early(ops[o]),
         r.at \in {"planned", "outdated"} => ~ops[o].applied /\ o \in DOMAIN Known,
         r.at = "patch" => ops[o].applied /\ (OpLag \/ ops[o].phase = "Running")
  PROVE  LockInv'
  <2> USE <1>RunOnlyKeeps
  <2>1. OnlyOf(o) /\ ops'[o] = ops[o] /\ run'[o] = r
    BY OneWritten, Zenon
  <2>2. OpInv(o)
    BY DEF LockInv
  <2>3. OpFine(o, ops[o], r)
    BY <2>2, Zenon DEF OpInv, OpFine
  <2>4. SameIntent(ops[o], ops[o])
    BY DEF SameIntent
  <2> QED BY <2>1, <2>3, <2>4, <1>QuietKeeps
<1>DecidesKeeps.
  ASSUME TypeInv, TypeInv', LockInv, NEW o \in DOMAIN ops, Decides(o)
  PROVE  LockInv'
  <2> USE <1>DecidesKeeps
  <2>1. PICK c \in ConType, person \in BOOLEAN : Conclude(o, c, person) /\ Grounded(o, c, person)
    BY DEF Decides
  <2>2. PICK r : r = Concluding(o, c, person)
    OBVIOUS
  <2>3. r.at \in {"raise", "swap"} /\ r.c = c /\ r.person = person
    BY <2>2, Zenon DEF Concluding, Idle
  <2>4. run' = [run EXCEPT ![o] = r] /\ UNCHANGED <<stage, ops, cops, history>>
    BY <2>1, <2>2 DEF Conclude
  <2>5. Based(ops[o], r)
    BY <2>1, <2>3 DEF Grounded, Based
  <2> QED BY <2>3, <2>4, <2>5, <1>RunOnlyKeeps, Zenon
<1>RestsKeeps.
  ASSUME TypeInv, TypeInv', LockInv, NEW o \in DOMAIN ops,
         \/ ReadBefore(o) \/ Patch(o) \/ NotAppliedYet(o) \/ Abort(o)
         \/ Plans(o) \/ LockWaits(o)
  PROVE  LockInv'
  <2> USE <1>RestsKeeps
  <2>1. CASE ReadBefore(o)
    <3>1. PICK r : r = [Idle EXCEPT !.at = "patch"]
      BY Zenon
    <3>2. r.at = "patch" /\ run' = [run EXCEPT ![o] = r] /\ UNCHANGED <<stage, ops, cops, history>>
      BY <2>1, <3>1, IdleType DEF ReadBefore
    <3>3. ops[o].applied /\ (OpLag \/ ops[o].phase = "Running")
      <4>1. OpInv(o)
        BY DEF LockInv
      <4>2. CASE run[o].at = "apply"
        BY <4>1, <4>2, Zenon DEF OpInv, OpFine
      <4>3. CASE In(o, "Running") /\ Known[o].applied
        <5>1. o \in DOMAIN Known /\ Known[o].phase = "Running"
          BY <4>3, Zenon DEF In, Ready
        <5>2. ops[o].applied
          BY <4>1, <4>3, <5>1, Zenon DEF OpInv, OpFine, Past
        <5>3. OpLag \/ ops[o].phase = "Running"
          BY <5>1 DEF Known
        <5> QED BY <5>2, <5>3
      <4> QED BY <2>1, <4>2, <4>3, Zenon DEF ReadBefore, Applying
    <3>4. Based(ops[o], r)
      BY <3>2 DEF Based
    <3> QED BY <3>2, <3>3, <3>4, <1>RunOnlyKeeps, Zenon
  <2>2. CASE Patch(o) \/ NotAppliedYet(o) \/ Abort(o) \/ LockWaits(o)
    <3>1. run' = [run EXCEPT ![o] = Idle] /\ UNCHANGED <<stage, ops, cops, history>>
      BY <2>2 DEF Patch, NotAppliedYet, Abort, LockWaits
    <3>2. Idle.at = "idle" /\ Based(ops[o], Idle)
      BY IdleType DEF Based
    <3> QED BY <3>1, <3>2, <1>RunOnlyKeeps, Zenon
  <2>3. CASE Plans(o)
    <3>1. PICK person : Planned(o, person)
      BY <2>3 DEF Plans
    <3>2. PICK r : r = [Idle EXCEPT !.at = IF Stale(o) THEN "outdated" ELSE "planned", !.person = person]
      BY Zenon
    <3>3. r.at = IF Stale(o) THEN "outdated" ELSE "planned"
      BY <3>2, Zenon DEF Idle
    <3>4. run' = [run EXCEPT ![o] = r] /\ UNCHANGED <<stage, ops, cops, history>>
      BY <3>1, <3>2, Zenon DEF Planned
    <3>5. OpInv(o) /\ Early(Known[o]) /\ o \in DOMAIN Known
      BY <2>3, Zenon DEF LockInv, Plans, Ready
    <3>6. ~ops[o].applied
      BY <3>5, Zenon DEF OpInv, OpFine, Past
    <3>7. ~Stale(o) => Early(ops[o])
      BY <3>5, Zenon DEF Stale
    <3>8. r.at \in {"planned", "outdated"} /\ (r.at = "planned" => Early(ops[o]))
      BY <3>3, <3>7
    <3>9. r.at \notin {"raise", "swap", "patch"}
      BY <3>8
    <3>10. Based(ops[o], r)
      BY <3>9 DEF Based
    <3> QED BY <3>4, <3>5, <3>6, <3>8, <3>9, <3>10, <1>RunOnlyKeeps, Zenon
  <2> QED BY <2>1, <2>2, <2>3

\* An Operation is written.
<1>WriteKeeps.
  ASSUME TypeInv, TypeInv', LockInv, NEW o \in DOMAIN ops, NEW op, NEW r,
         ops' = [ops EXCEPT ![o] = op], run' = [run EXCEPT ![o] = r] \/ (run' = run /\ r = run[o]),
         UNCHANGED <<stage, cops, history>>, OpFine(o, op, r), SameIntent(ops[o], op),
         stage.lock = o /\ op.applied => ops[o].applied \/ Placed(o)
  PROVE  LockInv'
  <2> USE <1>WriteKeeps
  <2>1. OnlyOf(o) /\ ops'[o] = op /\ run'[o] = r
    BY OneWritten, Zenon
  <2> QED BY <2>1, <1>QuietKeeps, Zenon
<1>SavesKeeps.
  ASSUME TypeInv, TypeInv', LockInv, NEW o \in DOMAIN ops, Saves(o)
  PROVE  LockInv'
  <2> USE <1>SavesKeeps
  <2>1. PICK op \in OpType :
          /\ Ready(o) /\ Save(o, op) /\ SameIntent(ops[o], op) /\ op.applied = ops[o].applied
          /\ \/ ops[o].phase = "" /\ op.phase = "Pending"
             \/ ops[o].phase \in {"Pending", "Verifying", "Held"} /\ op.phase = "Held"
    BY Zenon DEF Saves
  <2>2. OpInv(o) /\ Known[o] = ops[o] /\ run[o].at = "idle"
    BY <2>1, Starts, Zenon DEF LockInv, Save, Stale
  <2>3. Sound(ops[o])
    BY <2>2, Zenon DEF OpInv, OpFine
  <2>4. Sound(op) /\ Past(ops[o], op)
    BY <2>1, <2>3, Zenon DEF Sound, Past, Early, Late
  <2>5. OpFine(o, op, run[o])
    BY <2>1, <2>2, <2>4, Zenon DEF OpFine, Based
  <2>6. ops' = [ops EXCEPT ![o] = op] /\ run' = run /\ UNCHANGED <<stage, cops, history>>
    BY <2>1, Zenon DEF Save
  <2> QED BY <2>1, <2>5, <2>6, <1>WriteKeeps, Zenon

\* The reconcile writes the Operation after a swap, and after the applier answered.
<1>WritesKeep.
  ASSUME TypeInv, TypeInv', LockInv, NEW o \in DOMAIN ops,
         WriteConcluded(o) \/ WriteRunning(o) \/ WriteApplied(o) \/ Ships(o)
  PROVE  LockInv'
  <2> USE <1>WritesKeep
  <2>1. OpInv(o) /\ Sound(ops[o]) /\ ops[o] \in OpType /\ run[o] \in RunType
    BY Reads, Zenon DEF LockInv, OpInv, OpFine
  <2>2. UNCHANGED <<stage, cops, history>>
    BY DEF WriteConcluded, WriteRunning, WriteApplied, Ships
  <2>3. Idle.at = "idle" /\ \A op, r : r.at \notin {"raise", "swap"} => Based(op, r)
    BY IdleType DEF Based
  <2>4. CASE WriteConcluded(o)
    <3>1. PICK op : op = [ops[o] EXCEPT !.phase = "Concluded", !.outcome = run[o].c.outcome,
                                        !.verification = run[o].c.verification,
                                        !.person = run[o].person]
      BY Zenon
    <3>2. op.phase = "Concluded" /\ op.applied = ops[o].applied /\ SameIntent(ops[o], op)
      BY <2>1, <3>1, Zenon DEF OpType, SameIntent
    <3>3. ops' = [ops EXCEPT ![o] = op] /\ run' = [run EXCEPT ![o] = Idle]
      BY <2>4, <3>1, Zenon DEF WriteConcluded
    <3>4. OpFine(o, op, Idle)
      BY <2>1, <2>3, <3>2, ZenonT(30) DEF OpInv, OpFine, Sound, Past, SameIntent
    <3> QED BY <2>2, <3>2, <3>3, <3>4, <1>WriteKeeps, Zenon
  <2>5. CASE WriteRunning(o)
    <3>1. PICK op : op = [ops[o] EXCEPT !.phase = "Running", !.person = run[o].person]
      BY Zenon
    <3>2. op.phase = "Running" /\ op.applied = ops[o].applied /\ SameIntent(ops[o], op)
      BY <2>1, <3>1, Zenon DEF OpType, SameIntent
    <3>3. ops' = [ops EXCEPT ![o] = op] /\ run' = [run EXCEPT ![o] = Idle]
      BY <2>5, <3>1, Zenon DEF WriteRunning
    <3>4. Early(ops[o]) /\ Holds(o)
      BY <2>1, <2>5 DEF WriteRunning, OpInv, OpFine
    <3>5. ~op.applied
      BY <2>1, <3>2, <3>4, Zenon DEF Early, Sound
    <3>6. o \in DOMAIN Known => Past(Known[o], op)
      <4>1. o \in DOMAIN Known => Past(Known[o], ops[o])
        BY <2>1, Zenon DEF OpInv, OpFine
      <4>2. ~Late(ops[o]) /\ ops[o].phase # "Concluded"
        BY <3>4, Zenon DEF Late, Early
      <4> QED BY <3>2, <3>5, <4>1, <4>2, Zenon DEF Past, SameIntent
    <3>7. OpFine(o, op, Idle)
      BY <2>3, <3>2, <3>4, <3>6, Zenon DEF OpFine, Sound
    <3> QED BY <2>2, <3>2, <3>3, <3>7, <1>WriteKeeps, Zenon
  <2>6. CASE WriteApplied(o)
    <3>1. PICK op, r : op = [ops[o] EXCEPT !.applied = TRUE] /\ r = [run[o] EXCEPT !.at = "apply"]
      BY Zenon
    <3>2. op.phase = ops[o].phase /\ op.applied /\ SameIntent(ops[o], op) /\ r.at = "apply"
      BY <2>1, <3>1, Zenon DEF OpType, SameIntent, RunType
    <3>3. ops' = [ops EXCEPT ![o] = op] /\ run' = [run EXCEPT ![o] = r]
      BY <2>6, <3>1, Zenon DEF WriteApplied
    <3>4. /\ ops[o].phase = "Running" /\ o \in DOMAIN Known /\ ~Early(Known[o]) /\ Holds(o)
          /\ Past(Known[o], ops[o]) /\ (stage.lock = o => Placed(o))
      BY <2>1, <2>6 DEF WriteApplied, OpInv, OpFine
    <3>5. Past(Known[o], op)
      BY <3>2, <3>4, Zenon DEF Past, SameIntent, Late
    <3>6. OpFine(o, op, r)
      BY <2>3, <3>2, <3>4, <3>5, Zenon DEF OpFine, Sound
    <3> QED BY <2>2, <3>2, <3>3, <3>4, <3>6, <1>WriteKeeps, Zenon
  <2>7. CASE Ships(o)
    <3>1. PICK op : op = [ops[o] EXCEPT !.phase = "Verifying"]
      BY Zenon
    <3>2. op.phase = "Verifying" /\ op.applied = ops[o].applied /\ SameIntent(ops[o], op)
      BY <2>1, <3>1, Zenon DEF OpType, SameIntent
    <3>3. /\ ops' = [ops EXCEPT ![o] = op] /\ run' = [run EXCEPT ![o] = Idle]
          /\ ops[o].phase = "Running" /\ ops[o].applied
      BY <2>7, <3>1, Zenon DEF Ships
    <3>4. o \in DOMAIN Known => Past(Known[o], op)
      BY <2>1, <3>2, <3>3, Zenon DEF OpInv, OpFine, Past, SameIntent, Late
    <3>5. OpFine(o, op, Idle)
      BY <2>3, <3>2, <3>3, <3>4, Zenon DEF OpFine, Sound
    <3> QED BY <2>2, <3>2, <3>3, <3>5, <1>WriteKeeps, Zenon
  <2> QED BY <2>4, <2>5, <2>6, <2>7
<1>RaiseOwedKeepsLock.
  ASSUME TypeInv, TypeInv', LockInv, NEW o \in DOMAIN ops, RaiseOwed(o)
  PROVE  LockInv'
  <2> USE <1>RaiseOwedKeepsLock
  <2>1. /\ OnlyOf(o) /\ ops'[o] = ops[o] /\ run[o].at = "raise" /\ UNCHANGED <<stage, cops, history>>
        /\ \/ run'[o].at = "idle"
           \/ /\ run'[o].at \in {"raise", "swap"}
              /\ run'[o].c = run[o].c /\ run'[o].person = run[o].person
    <3>1. \A x : (IF x THEN "swap" ELSE "raise") \in {"raise", "swap"}
      OBVIOUS
    <3> QED BY <3>1, RaiseOwedSteps, IdleType, Zenon
  <2>2. OpInv(o)
    BY DEF LockInv
  <2>3. OpFine(o, ops'[o], run'[o])
    BY <2>1, <2>2, ZenonT(30) DEF OpInv, OpFine, Based
  <2>4. SameIntent(ops[o], ops'[o])
    BY <2>1, Zenon DEF SameIntent
  <2> QED BY <2>1, <2>3, <2>4, <1>QuietKeeps, Zenon

\* The swap gives o its number and leaves the others theirs.
<1>SwapNumbers.
  ASSUME TypeInv, LastRemembered, NEW o \in DOMAIN ops, Swap(o)
  PROVE  /\ Numbered \subseteq Numbered' /\ o \in Numbered'
         /\ \A u : ConcludedOn(stage', u) => u = o \/ ConcludedOn(stage, u)
  <2> USE <1>SwapNumbers
  <2>1. history \in Seq(Nat) /\ o \in Nat
    BY Reads DEF TypeInv, TypeOK
  <2>2. /\ DOMAIN history' = DOMAIN history \cup {Len(history) + 1}
        /\ history'[Len(history) + 1] = o
        /\ \A i \in DOMAIN history : history'[i] = history[i]
    <3>1. /\ DOMAIN Append(history, o) = DOMAIN history \cup {Len(history) + 1}
          /\ Append(history, o)[Len(history) + 1] = o
          /\ \A i \in DOMAIN history : Append(history, o)[i] = history[i]
      BY ONLY <2>1, AppendAny
    <3>2. history' = Append(history, o)
      BY Zenon DEF Swap
    <3> QED BY <3>1, <3>2
  <2>3. Numbered \subseteq Numbered' /\ o \in Numbered'
    BY <2>2 DEF Numbered
  <2> DEFINE c == Taken(o)
             e == [uid |-> o, outcome |-> c.outcome, verification |-> c.verification]
             k == Len(stage.concluded)
  <2>4. c \in ConType /\ stage'.concluded = Remember(stage.concluded, e)
    BY SwapStage, Zenon DEF Taken
  <2>5. e \in EntryType /\ e.uid = o
    BY <2>1, <2>4, Zenon DEF ConType, EntryType
  <2> HIDE DEF e, c
  <2>6. stage.concluded \in Seq(EntryType)
    BY Zenon DEF TypeInv, TypeOK, StageType
  <2>7. k \in Nat /\ k <= MaxConcluded /\ DOMAIN stage.concluded = 1 .. k
    BY <2>1, <2>6, MaxConcludedAssumption DEF LastRemembered
  <2>8. Joined(stage.concluded, e, k, stage'.concluded)
    BY <2>4, <2>5, <2>6, <2>7, RememberEntries
  <2>9. Remember(stage.concluded, e) \in Seq(EntryType)
    BY <2>5, <2>6, RememberType
  <2>10. \A i \in DOMAIN stage'.concluded :
           stage'.concluded[i] = e \/ \E j \in DOMAIN stage.concluded : stage'.concluded[i] = stage.concluded[j]
    <3>1. DOMAIN stage'.concluded = 1 .. Len(stage'.concluded)
      BY <2>4, <2>9
    <3>2. CASE k < MaxConcluded
      BY <2>7, <2>8, <3>1, <3>2 DEF Joined
    <3>3. CASE k = MaxConcluded
      <4>1. DOMAIN stage'.concluded = 1 .. k /\ stage'.concluded[k] = e
            /\ \A i \in 1 .. k - 1 : stage'.concluded[i] = stage.concluded[i + 1]
        BY <2>8, <3>1, <3>3 DEF Joined
      <4>2. \A i \in 1 .. k : i = k \/ (i \in 1 .. k - 1 /\ i + 1 \in 1 .. k)
        BY <2>7
      <4> QED BY <2>7, <4>1, <4>2, Zenon
    <3> QED BY <2>7, <3>2, <3>3, MaxConcludedAssumption
  <2>11. \A u : ConcludedOn(stage', u) => u = o \/ ConcludedOn(stage, u)
    BY <2>5, <2>10 DEF ConcludedOn
  <2> QED BY <2>3, <2>11

\* The Operation and what is known of it stay; the reconcile goes on.
<1>SameOpFine.
  ASSUME NEW o \in DOMAIN ops, OpInv(o), UNCHANGED <<ops, cops>>, Holds(o) => Holds(o)',
         \/ run'[o].at \in {"idle", "write"}
         \/ run'[o].at = "locked" /\ Early(ops[o]) /\ Holds(o)'
         \/ /\ run'[o].at = "moved" /\ ops[o].phase = "Running" /\ ~ops[o].applied
            /\ o \in DOMAIN Known /\ ~Early(Known[o]) /\ Placed(o)'
  PROVE  OpInv(o)'
  <2> USE <1>SameOpFine
  <2>1. Known' = Known
    BY DEF Known
  <2>2. /\ Sound(ops[o]) /\ (o \in DOMAIN Known => Past(Known[o], ops[o]))
        /\ ops[o].phase = "Running" => Holds(o)
    BY Zenon DEF OpInv, OpFine
  <2> QED BY <2>1, <2>2, ZenonT(30) DEF OpInv, OpFine, Based
<1>SwapKeepsLock.
  ASSUME TypeInv, TypeInv', LastRemembered, LockInv, NEW o \in DOMAIN ops, Swap(o)
  PROVE  LockInv'
  <2> USE <1>SwapKeepsLock
  <2> DEFINE b == [stage EXCEPT !.lock = IF @ = o THEN NoOp ELSE @]
             r == [run[o] EXCEPT !.at = "write", !.c = Taken(o)]
  <2>1. /\ Effected(o, ops[o], Taken(o), b, stage') /\ run' = [run EXCEPT ![o] = r]
        /\ UNCHANGED <<ops, cops>>
    <3>1. Effected(o, ops[o], Taken(o), b, stage') /\ run' = [run EXCEPT ![o] = r]
      BY SwapEffects, Zenon
    <3> QED BY <3>1, Zenon DEF Swap
  <2>2. /\ b.lock = (IF stage.lock = o THEN NoOp ELSE stage.lock)
        /\ b.level = stage.level /\ b.pointer = stage.pointer
    BY Zenon DEF TypeInv, TypeOK, StageType
  <2>3. r.at = "write"
    BY Reads, Zenon DEF RunType
  <2> HIDE DEF b, r
  <2>4. OnlyOf(o) /\ run'[o].at = "write"
    BY <2>1, <2>3, OneWritten, Zenon
  <2>5. stage'.lock = (IF stage.lock = o THEN NoOp ELSE stage.lock)
    BY <2>1, <2>2, Zenon DEF Effected
  <2>6. o # NoOp /\ NoOp \notin DOMAIN ops
    BY Reads, Zenon
  <2>7. /\ Numbered \subseteq Numbered' /\ o \in Numbered'
        /\ \A u : ConcludedOn(stage', u) => u = o \/ ConcludedOn(stage, u)
    BY <1>SwapNumbers
  <2>8. ASSUME NEW u \in DOMAIN ops \ {o}, stage'.lock = u
        PROVE  stage.lock = u /\ PointerKept /\ ~ConcludedOn(stage', u)
    <3>1. stage.lock = u
      BY <2>5, <2>6, <2>8
    <3>2. ~ConcludedOn(stage', u)
      BY <2>7, <3>1 DEF LockInv, HolderInv
    <3>3. CASE ops[o].type = "autonomy" /\ Taken(o).outcome = "Succeeded"
      <4>1. ops[o].from = stage.level /\ stage.level # Observe
        BY <2>6, <3>1, <3>3, TakenLevel
      <4>2. /\ stage'.level = Observe => stage'.pointer = NoDigest
            /\ Observe \notin {ops[o].from, stage'.level} => stage'.pointer = stage.pointer
        BY <2>1, <2>2, <3>3, Zenon DEF Effected
      <4> QED BY <3>1, <3>2, <4>1, <4>2 DEF PointerKept
    <3>4. CASE ~(ops[o].type = "autonomy" /\ Taken(o).outcome = "Succeeded")
      <4>1. stage'.level = stage.level /\ stage'.pointer = stage.pointer
        BY <2>1, <2>2, <3>4, Zenon DEF Effected
      <4> QED BY <3>1, <3>2, <4>1 DEF PointerKept
    <3> QED BY <3>3, <3>4
  <2>9. \A u \in DOMAIN ops : Holds(u) => Holds(u)'
    BY <2>5, <2>7 DEF Holds
  <2>10. OpInv(o)'
    <3>1. OpInv(o)
      BY DEF LockInv
    <3> QED BY <2>1, <2>4, <2>9, <3>1, <1>SameOpFine, Zenon
  <2>11. stage'.lock # o /\ stage'.lock \in DOMAIN ops \cup {NoOp}
    BY <2>5, <2>6 DEF LockInv
  <2> QED BY <2>1, <2>4, <2>8, <2>9, <2>10, <2>11, <1>OwnKeeps, Zenon
<1>SwapAgainKeepsLock.
  ASSUME TypeInv, TypeInv', LockInv, NEW o \in DOMAIN ops, SwapAgain(o)
  PROVE  LockInv'
  <2> USE <1>SwapAgainKeepsLock
  <2>1. PICK r : r = [run[o] EXCEPT !.at = "write", !.c = Con(EntryOf(o).outcome, EntryOf(o).verification)]
    BY Zenon
  <2>2. r.at = "write" /\ run' = [run EXCEPT ![o] = r]
    BY <2>1, Reads, Zenon DEF SwapAgain, RunType
  <2>3. stage.lock # o
    BY DEF SwapAgain, LockInv, HolderInv
  <2>4. stage' = stage
    <3>1. stage \in StageType
      BY DEF TypeInv, TypeOK
    <3>2. stage' = [stage EXCEPT !.lock = stage.lock]
      BY <2>3, Zenon DEF SwapAgain, Released
    <3> QED BY <3>1, <3>2, Zenon DEF StageType
  <2>5. UNCHANGED <<ops, cops, history>>
    BY DEF SwapAgain
  <2>6. Based(ops[o], r)
    BY <2>2 DEF Based
  <2> QED BY <2>2, <2>4, <2>5, <2>6, <1>RunOnlyKeeps, Zenon

\* Whoever held the lock may be past it: its copy says so, and the stored
\* Operation can only be further.
<1>LockKeeps.
  ASSUME TypeInv, TypeInv', LockInv, NEW o \in DOMAIN ops, Lock(o)
  PROVE  LockInv'
  <2> USE <1>LockKeeps
  <2>1. /\ run[o].at \in {"planned", "outdated"} /\ ~ConcludedOn(stage, o) /\ LockFree(o)
        /\ stage.pointer = ops[o].from /\ stage' = [stage EXCEPT !.lock = o]
        /\ UNCHANGED <<ops, cops, history>>
    BY Zenon DEF Lock, MayLock, MustWait
  <2>2. PICK r : r = IF run[o].at = "outdated" THEN Idle ELSE [run[o] EXCEPT !.at = "locked"]
    BY Zenon
  <2>3. /\ stage'.lock = o /\ stage'.pointer = stage.pointer /\ stage'.level = stage.level
        /\ stage'.concluded = stage.concluded
    BY <2>1, Zenon DEF TypeInv, TypeOK, StageType
  <2>4. OpInv(o) /\ o \in DOMAIN Known /\ ~ops[o].applied /\ (run[o].at = "planned" => Early(ops[o]))
    BY <2>1, Zenon DEF LockInv, OpInv, OpFine
  <2>5. run' = [run EXCEPT ![o] = r]
    BY <2>2, Reads DEF Lock
  <2>6. OnlyOf(o) /\ run'[o] = r
    BY <2>1, <2>5, OneWritten, Zenon
  <2>7. IF run[o].at = "outdated" THEN r.at = "idle" ELSE r.at = "locked"
    BY <2>2, Reads, IdleType, Zenon DEF RunType
  <2>8. Holds(o)'
    BY <2>3 DEF Holds
  <2>9. OpInv(o)'
    <3>1. r.at = "idle" \/ (r.at = "locked" /\ Early(ops[o]))
      BY <2>1, <2>4, <2>7
    <3> QED BY <2>1, <2>4, <2>6, <2>8, <3>1, <1>SameOpFine, Zenon
  <2>10. ~ops[o].applied
    BY <2>4
  <2>11. HolderInv(o)'
    <3>1. Known' = Known
      BY <2>1 DEF Known
    <3>2. o \in DOMAIN Known' /\ ~ConcludedOn(stage', o)
      BY <2>1, <2>3, <2>4, <3>1 DEF ConcludedOn
    <3> QED BY <2>1, <2>3, <2>10, <3>2, Zenon DEF HolderInv
  <2>12. ASSUME NEW u \in DOMAIN ops \ {o}
         PROVE  \/ Holds(u) => Holds(u)'
                \/ u \in DOMAIN Known /\ (Known[u].phase = "Concluded" \/ Late(Known[u]))
    <3>1. u \in Numbered => Holds(u)'
      BY <2>1 DEF Holds, Numbered
    <3>2. CASE stage.lock = u
      <4>1. u \in DOMAIN Known
        BY <3>2 DEF LockInv, HolderInv
      <4>2. Known[u].phase = "Concluded" \/ Late(Known[u])
        BY <2>1, <3>2, <4>1, Zenon DEF LockFree, Late
      <4> QED BY <4>1, <4>2
    <3> QED BY <3>1, <3>2 DEF Holds
  <2>13. stage'.lock \in DOMAIN ops \cup {NoOp} /\ \A u \in DOMAIN ops \ {o} : stage'.lock # u
    BY <2>3
  <2> QED BY <2>1, <2>6, <2>9, <2>11, <2>12, <2>13, <1>OwnKeeps, Zenon
<1>PlacesKeeps.
  ASSUME TypeInv, TypeInv', LockInv, NEW o \in DOMAIN ops, Places(o)
  PROVE  LockInv'
  <2> USE <1>PlacesKeeps
  <2>1. /\ Ready(o) /\ Known[o].phase = "Running" /\ ~Known[o].applied /\ stage.lock = o
        /\ stage' = [stage EXCEPT !.pointer = ops[o].to, !.lastOp = o]
        /\ run' = (IF Stale(o) THEN run ELSE [run EXCEPT ![o].at = "moved"])
        /\ UNCHANGED <<ops, cops, history>>
    BY Zenon DEF Places
  <2>2. /\ stage'.lock = o /\ stage'.pointer = ops[o].to /\ stage'.concluded = stage.concluded
    BY <2>1, Zenon DEF TypeInv, TypeOK, StageType
  <2>3. OpInv(o) /\ HolderInv(o) /\ run[o].at = "idle" /\ o \in DOMAIN Known
    BY <2>1, Starts, Zenon DEF LockInv, Ready
  <2>4. PICK r : r = IF Stale(o) THEN run[o] ELSE [run[o] EXCEPT !.at = "moved"]
    BY Zenon
  <2>5. OnlyOf(o) /\ run'[o] = r
    <3>1. run' = [run EXCEPT ![o] = r] \/ (run' = run /\ r = run[o])
      BY <2>1, <2>4, Zenon
    <3> QED BY <2>1, <3>1, OneWritten, Zenon
  <2>6. IF Stale(o) THEN r.at = "idle" ELSE r.at = "moved"
    BY <2>3, <2>4, Reads, Zenon DEF RunType
  <2>7. Holds(o)' /\ Placed(o)'
    BY <2>1, <2>2 DEF Holds, Placed
  <2>8. OpInv(o)'
    <3>1. ~Stale(o) => ops[o].phase = "Running" /\ ~ops[o].applied
      BY <2>1, Zenon DEF Stale
    <3>2. ~Early(Known[o])
      BY <2>1, Zenon DEF Early
    <3> QED BY <2>1, <2>3, <2>5, <2>6, <2>7, <3>1, <3>2, <1>SameOpFine, Zenon
  <2>9. HolderInv(o)'
    <3>1. Known' = Known
      BY <2>1 DEF Known
    <3>2. o \in DOMAIN Known' /\ ~ConcludedOn(stage', o)
      BY <2>2, <2>3, <3>1 DEF HolderInv, ConcludedOn
    <3> QED BY <2>1, <2>2, <2>7, <3>2, Zenon DEF HolderInv
  <2>10. \A u \in DOMAIN ops \ {o} : Holds(u) => Holds(u)'
    BY <2>1, <2>2 DEF Holds, Numbered
  <2>11. stage'.lock \in DOMAIN ops \cup {NoOp} /\ \A u \in DOMAIN ops \ {o} : stage'.lock # u
    BY <2>2
  <2> QED BY <2>1, <2>5, <2>8, <2>9, <2>10, <2>11, <1>OwnKeeps, Zenon
<1>1. ASSUME NEW o \in DOMAIN ops, Quietly(o)
      PROVE  LockInv'
  BY <1>1, <1>DecidesKeeps, <1>SavesKeeps, <1>RaiseOwedKeepsLock, <1>WritesKeep, <1>RestsKeeps, Zenon DEF Quietly
<1>2. CASE UNCHANGED vars
  <2>1. Known' = Known
    BY <1>2 DEF vars, Known
  <2> QED BY <1>2, <2>1, Zenon DEF vars, LockInv, OpInv, OpFine, HolderInv, Holds, Numbered, Placed
<1> QED BY <1>1, <1>2, NextKinds, <1>SwapKeepsLock, <1>SwapAgainKeepsLock, <1>LockKeeps, <1>PlacesKeeps,
           <1>WorldKeeps, Zenon

(***************************************************************************)
(* The theorems.                                                           *)
(***************************************************************************)
Inv == TypeInv /\ LastRemembered /\ OneConclusion /\ InFlight /\ LockInv

LEMMA InvHolds == Spec => []Inv
<1>1. Init => InFlight /\ LockInv
  <2> SUFFICES ASSUME Init PROVE InFlight /\ LockInv
    OBVIOUS
  <2>1. ops = <<>> /\ run = <<>> /\ DOMAIN <<>> = {} /\ stage.lock = NoOp
    BY SMTT(30) DEF Init
  <2>2. DOMAIN ops = {} /\ DOMAIN run = {}
    BY <2>1, Zenon
  <2> QED BY <2>1, <2>2, Zenon DEF InFlight, Taking, LockInv
<1>2. TypeInv /\ LastRemembered /\ InFlight /\ [Next]_vars => InFlight'
  BY NextIsStreamStep
<1>3. TypeInv /\ TypeInv' /\ LastRemembered /\ LockInv /\ [Next]_vars => LockInv'
  BY NextKeepsLock
<1>4. TypeOK /\ OnlyPointerOpsMove => TypeInv
  BY DEF TypeInv
<1> QED BY <1>1, <1>2, <1>3, <1>4, TypeCorrect, ConcludedOnce, PTL DEF Spec, Inv

\* An Operation that runs holds the pointer lock until it is concluded, and while
\* it holds it the Stage runs the version it moved to, for any number of workers
\* and lost reconciles and however far the caches lag.
THEOREM HolderIsOwner == Spec => []HolderOwnsPointer
<1>1. Inv => HolderOwnsPointer
  <2> SUFFICES ASSUME Inv, NEW o \in DOMAIN ops
               PROVE  /\ ops[o].phase = "Running" => stage.lock = o \/ o \in Numbered
                      /\ stage.lock = o /\ ops[o].applied /\ stage.level # Observe => stage.pointer = ops[o].to
    BY Zenon DEF HolderOwnsPointer
  <2>1. OpInv(o) /\ (stage.lock = o => HolderInv(o))
    BY Zenon DEF Inv, LockInv
  <2>2. ops[o].phase = "Running" => Holds(o)
    BY <2>1, Zenon DEF OpInv, OpFine
  <2>3. stage.lock = o /\ ops[o].applied => Placed(o)
    BY <2>1, Zenon DEF HolderInv
  <2> QED BY <2>2, <2>3, Zenon DEF Holds, Placed
<1> QED BY <1>1, InvHolds, PTL

\* Only the swap that concludes an Operation adds to the stream or changes the
\* level, and only it and the move of the lock's holder change the pointer.
LEMMA StageMoves ==
  ASSUME Inv, [Next]_vars
  PROVE  \/ \E o \in DOMAIN ops : Swap(o)
         \/ \E o \in DOMAIN ops : Places(o) /\ history' = history /\ stage'.level = stage.level
         \/ /\ history' = history /\ stage'.level = stage.level
            /\ stage'.pointer = stage.pointer
<1> DEFINE Rest == /\ history' = history /\ stage'.level = stage.level
                   /\ stage'.pointer = stage.pointer
<1>1. TypeInv /\ LockInv /\ stage \in StageType
  BY Zenon DEF Inv, TypeInv, TypeOK
<1>2. ASSUME NEW o \in DOMAIN ops, Quietly(o) \/ SwapAgain(o) \/ Lock(o)
      PROVE  Rest
  <2>1. Quietly(o) => Rest
    BY QuietSteps
  <2>2. Lock(o) => Rest
    BY <1>1, Zenon DEF Lock, StageType
  <2>3. SwapAgain(o) => Rest
    BY <1>1, Zenon DEF SwapAgain, Released, StageType
  <2> QED BY <1>2, <2>1, <2>2, <2>3, Zenon
<1>3. ASSUME NEW o \in DOMAIN ops, Places(o)
      PROVE  history' = history /\ stage'.level = stage.level
  BY <1>1, <1>3, Zenon DEF Places, StageType
<1>4. World => Rest
  BY <1>1, WorldSteps DEF LockKept
<1>5. UNCHANGED vars => Rest
  BY DEF vars
<1> HIDE DEF Rest
<1>6. \/ \E o \in DOMAIN ops : Swap(o)
      \/ \E o \in DOMAIN ops : Places(o) /\ history' = history /\ stage'.level = stage.level
      \/ Rest
  BY <1>1, <1>2, <1>3, <1>4, <1>5, NextKinds, Zenon
<1> QED BY <1>6 DEF Rest

\* What the swap of o does to the pointer and the level.
LEMMA SwapMoves ==
  ASSUME Inv, NEW o \in DOMAIN ops, Swap(o)
  PROVE  \/ stage'.level = stage.level /\ stage'.pointer = stage.pointer
         \/ /\ ops[o].type = "autonomy" /\ run[o].c.outcome = "Succeeded"
            /\ ops[o].from = stage.level /\ stage'.level = ops[o].to
            /\ Observe \notin {stage.level, stage'.level} => stage'.pointer = stage.pointer
<1> DEFINE b == [stage EXCEPT !.lock = IF @ = o THEN NoOp ELSE @]
<1>1. TypeInv /\ stage \in StageType
  BY Zenon DEF Inv, TypeInv, TypeOK
<1>2. Effected(o, ops[o], Taken(o), b, stage')
  BY <1>1, SwapEffects, Zenon
<1>3. b.level = stage.level /\ b.pointer = stage.pointer
  BY <1>1, Zenon DEF StageType
<1> HIDE DEF b
<1>4. CASE ops[o].type = "autonomy" /\ Taken(o).outcome = "Succeeded"
  <2>1. run[o].c.outcome = "Succeeded" /\ ops[o].from = stage.level
    BY <1>1, <1>4, TakenLevel
  <2>2. /\ stage'.level = ops[o].to
        /\ Observe \notin {ops[o].from, stage'.level} => stage'.pointer = stage.pointer
    BY <1>2, <1>3, <1>4, Zenon DEF Effected
  <2> QED BY <1>4, <2>1, <2>2, Zenon
<1>5. CASE ~(ops[o].type = "autonomy" /\ Taken(o).outcome = "Succeeded")
  BY <1>2, <1>3, <1>5, Zenon DEF Effected
<1> QED BY <1>4, <1>5, Zenon

\* The pointer moves only by the holder of the lock and from the version its plan
\* compared with, but where the level leaves or enters observe.
THEOREM PointerMoves == Spec => PointerMovesAsPlanned
<1>1. ASSUME Inv, [Next]_vars
      PROVE  stage'.pointer # stage.pointer =>
               \/ Observe \in {stage.level, stage'.level}
               \/ \E o \in DOMAIN ops : /\ stage.lock = o /\ stage'.lastOp = o
                                        /\ stage.pointer = ops[o].from
                                        /\ stage'.pointer = ops[o].to
  <2>1. CASE \E o \in DOMAIN ops : Swap(o)
    BY <1>1, <2>1, SwapMoves, Zenon
  <2>2. ASSUME NEW o \in DOMAIN ops, Places(o)
        PROVE  \/ stage'.pointer = stage.pointer \/ stage.level = Observe
               \/ /\ stage.lock = o /\ stage'.lastOp = o /\ stage.pointer = ops[o].from
                  /\ stage'.pointer = ops[o].to
    <3>1. stage.lock = o /\ stage'.lastOp = o /\ stage'.pointer = ops[o].to
      BY <1>1, <2>2, Zenon DEF Places, Inv, TypeInv, TypeOK, StageType
    <3>2. stage.level = Observe \/ stage.pointer \in {ops[o].from, ops[o].to}
      BY <1>1, <3>1 DEF Inv, LockInv, HolderInv
    <3> QED BY <3>1, <3>2
  <2> QED BY <1>1, <2>1, <2>2, StageMoves, Zenon
<1> QED BY <1>1, InvHolds, PTL DEF Spec, PointerMovesAsPlanned

\* The newest entry of the memory is the conclusion the swap took; the others
\* were there.
TakenAs(o, e) ==
  e.uid = o /\ e.outcome = Taken(o).outcome /\ e.verification = Taken(o).verification

LEMMA SwapLast ==
  ASSUME TypeInv, LastRemembered, NEW o \in DOMAIN ops, Swap(o)
  PROVE  /\ TakenAs(o, LastConcluded')
         /\ \A i \in DOMAIN stage'.concluded :
              \/ TakenAs(o, stage'.concluded[i])
              \/ \E j \in DOMAIN stage.concluded : stage'.concluded[i] = stage.concluded[j]
<1> DEFINE c == Taken(o)
           e == [uid |-> o, outcome |-> c.outcome, verification |-> c.verification]
           k == Len(stage.concluded)
<1>1. c \in ConType /\ stage'.concluded = Remember(stage.concluded, e)
  BY SwapStage, Zenon DEF Taken
<1>2. e \in EntryType /\ TakenAs(o, e)
  BY <1>1, Reads, Zenon DEF ConType, EntryType, TakenAs
<1> HIDE DEF e, c
<1>3. stage.concluded \in Seq(EntryType) /\ history \in Seq(Nat)
  BY DEF TypeInv, TypeOK, StageType
<1>4. k \in Nat /\ k <= MaxConcluded /\ DOMAIN stage.concluded = 1 .. k
  BY <1>3, MaxConcludedAssumption DEF LastRemembered
<1>5. Joined(stage.concluded, e, k, stage'.concluded)
  BY <1>1, <1>2, <1>3, <1>4, RememberEntries, Zenon
<1> HIDE DEF k
<1>6. Remember(stage.concluded, e) \in Seq(EntryType)
  BY <1>2, <1>3, RememberType
<1>7. DOMAIN stage'.concluded = 1 .. Len(stage'.concluded)
  BY <1>1, <1>6
<1>8. CASE k < MaxConcluded
  <2>1. /\ Len(stage'.concluded) = k + 1 /\ stage'.concluded[k + 1] = e
        /\ \A i \in 1 .. k : stage'.concluded[i] = stage.concluded[i]
    BY <1>5, <1>8 DEF Joined
  <2>2. LastConcluded' = e
    BY <2>1 DEF LastConcluded
  <2>3. \A i \in DOMAIN stage'.concluded : i = k + 1 \/ i \in 1 .. k
    <3>1. DOMAIN stage'.concluded = 1 .. k + 1
      BY <1>7, <2>1, Zenon
    <3> QED BY <1>4, <3>1
  <2> QED BY <1>2, <1>4, <2>1, <2>2, <2>3
<1>9. CASE k = MaxConcluded
  <2>1. /\ Len(stage'.concluded) = k /\ stage'.concluded[k] = e
        /\ \A i \in 1 .. k - 1 : stage'.concluded[i] = stage.concluded[i + 1]
    BY <1>5, <1>9 DEF Joined
  <2>2. LastConcluded' = e
    BY <2>1 DEF LastConcluded
  <2>3. \A i \in DOMAIN stage'.concluded : i = k \/ (i \in 1 .. k - 1 /\ i + 1 \in 1 .. k)
    <3>1. DOMAIN stage'.concluded = 1 .. k
      BY <1>7, <2>1, Zenon
    <3> QED BY <1>4, <3>1
  <2> QED BY <1>2, <1>4, <2>1, <2>2, <2>3
<1> QED BY <1>4, <1>8, <1>9, MaxConcludedAssumption

\* A verdict the swap takes is the reconcile's own, and it takes none from an
\* Operation that lost the lock.
LEMMA TakenVerdict ==
  ASSUME TypeInv, NEW o \in DOMAIN ops, Taken(o).verification = "Verified"
  PROVE  /\ Taken(o) = run[o].c
         /\ ops[o].applied /\ ~run[o].c.preempted => stage.lock = o
<1>1. ops[o] \in OpType
  BY Reads
<1>2. PICK op : op = [ops[o] EXCEPT !.person = run[o].person]
  BY Zenon
<1>3. op.applied = ops[o].applied
  BY <1>1, <1>2, Zenon DEF OpType
<1>4. Taken(o) = Decided(o, op, run[o].c)
  BY <1>2 DEF Taken
<1>5. Con("Rejected", "").verification # "Verified" /\ PreemptedBy.verification # "Verified"
  BY Zenon DEF Con, PreemptedBy
<1> QED BY <1>3, <1>4, <1>5, Zenon DEF Decided

\* A version is concluded as Verified only while its Operation holds the Stage.
THEOREM VerifiedByHolder == Spec => VerifiedWhileHeld
<1>1. ASSUME Inv, [Next]_vars
      PROVE  history' # history /\ LastConcluded'.verification = "Verified" =>
               LET o == LastConcluded'.uid
               IN stage.lock = o /\ (stage.pointer = ops[o].to \/ stage.level = Observe)
  <2> SUFFICES ASSUME NEW o \in DOMAIN ops, Swap(o), LastConcluded'.verification = "Verified"
               PROVE  /\ LastConcluded'.uid = o /\ stage.lock = o
                      /\ stage.pointer = ops[o].to \/ stage.level = Observe
    BY <1>1, StageMoves
  <2>1. TypeInv /\ LastRemembered /\ OpInv(o) /\ (stage.lock = o => HolderInv(o))
    BY <1>1 DEF Inv, LockInv
  <2>2. LastConcluded'.uid = o /\ Taken(o).verification = "Verified"
    BY <2>1, SwapLast DEF TakenAs
  <2>3. run[o].c.verification = "Verified" /\ (ops[o].applied /\ ~run[o].c.preempted => stage.lock = o)
    BY <2>1, <2>2, TakenVerdict
  <2>4. ops[o].applied /\ ~run[o].c.preempted
    BY <2>1, <2>3 DEF OpInv, OpFine, Based, Swap
  <2> QED BY <2>1, <2>2, <2>3, <2>4 DEF HolderInv, Placed
<1> QED BY <1>1, InvHolds, PTL DEF Spec, VerifiedWhileHeld

\* The level climbs one step at a time, and the Operation that raises it was
\* approved by a person.
THEOREM PeopleRaiseLevels == Spec => LevelsClimbByPeople
<1>1. ASSUME Inv, [Next]_vars
      PROVE  stage'.level > stage.level => /\ stage'.level = stage.level + 1
                                           /\ run[LastConcluded'.uid].person
  <2>1. TypeInv /\ LastRemembered /\ stage.level \in Levels
    BY <1>1, Zenon DEF Inv, TypeInv, TypeOK, StageType
  <2>5. stage.level \in Nat
    BY <2>1 DEF Levels, Observe, Autonomous
  <2> SUFFICES ASSUME NEW o \in DOMAIN ops, Swap(o), stage'.level > stage.level
               PROVE  /\ stage'.level = stage.level + 1
                      /\ run[LastConcluded'.uid].person
    <3>1. (\E o \in DOMAIN ops : Swap(o)) \/ stage'.level = stage.level
      BY <1>1, StageMoves, Zenon
    <3> QED BY <2>5, <3>1
  <2>2. LastConcluded'.uid = o
    BY <2>1, SwapLast DEF TakenAs
  <2>3. /\ ops[o].type = "autonomy" /\ run[o].c.outcome = "Succeeded"
        /\ ops[o].from = stage.level /\ stage'.level = ops[o].to
    BY <1>1, <2>5, SwapMoves
  <2>4. OpInv(o) /\ run[o].at = "swap"
    BY <1>1 DEF Inv, LockInv, Swap
  <2> QED BY <2>2, <2>3, <2>4, Zenon DEF OpInv, OpFine, Based
<1> QED BY <1>1, InvHolds, PTL DEF Spec, LevelsClimbByPeople

=============================================================================
