------------------------------ MODULE Lifecycle ------------------------------
(***************************************************************************)
(* The rules of the delivery lifecycle that are functions of a Stage's     *)
(* status and an Operation: who may raise what, what a plan predicts, what *)
(* a rollback is bound to and what a conclusion does to the Stage          *)
(* (pkg/delivery/lifecycle.go, level.go, types.go and the part of plan.go  *)
(* that does not read contracts).                                          *)
(*                                                                         *)
(* An Operation is known by its uid, a positive number in creation order;  *)
(* NoOp stands for the empty uid.  A Stage has one lock that matters, the  *)
(* pointer's: operations on the freeze and level facets take none.         *)
(***************************************************************************)
EXTENDS Integers, Sequences

CONSTANTS
  Digests,          \* the versions a Stage may run
  NoDigest,         \* the empty pointer
  FromUpstream,     \* whether candidates come from an upstream Stage
  RecordsRequired,  \* spec.records.required with a recorder that may be down
  MaxConcluded      \* how many conclusions a Stage remembers (20)

ASSUME DigestAssumption == NoDigest \notin Digests

ASSUME FromUpstreamAssumption == FromUpstream \in BOOLEAN

ASSUME RecordsRequiredAssumption == RecordsRequired \in BOOLEAN

ASSUME MaxConcludedAssumption == MaxConcluded \in Nat \ {0}

NoOp == 0

Types == {"promote", "rollback", "override", "freeze", "unfreeze", "autonomy"}

Classes == {"human", "agent", "breakglass", "controller"}

PointerTypes == {"promote", "rollback", "override"}

Raisers(type) ==
  CASE type \in {"promote", "rollback"} -> {"agent", "human", "controller"}
    [] type = "override"                -> {"breakglass"}
    [] type = "unfreeze"                -> {"human", "breakglass"}
    [] type = "freeze"                  -> {"human", "breakglass", "controller"}
    [] OTHER                            -> Classes

\* Only the promoter witnesses, and only an override: its own override is
\* legal as a witnessed one alone.
Witnessed(op) == op.class = "controller" /\ op.type = "override"

MayRaise(op) == Witnessed(op) \/ op.class \in Raisers(op.type)

(***************************************************************************)
(* The autonomy ladder, lowest level first.                                *)
(***************************************************************************)
Observe         == 0
Advise          == 1
AutoNonBreaking == 2
Autonomous      == 3

Levels == Observe .. Autonomous

Automatic(level) == level >= AutoNonBreaking

LowerRefusal(op) ==
  \/ op.class = "agent" /\ op.to = Observe
  \/ op.class = "controller" /\ (~Automatic(op.from) \/ op.from - op.to # 1)

\* Mutant of RaiseRefusal: any number of steps up is allowed.
RaiseRefusalAnyStep(op) == op.class = "controller"

\* The label, the recorder and the observed digest a raise also needs are part
\* of the gate verdict a plan is given (see Predict).
RaiseRefusal(op) == op.class = "controller" \/ op.to > op.from + 1

\* Mutant of LevelRefusal: observe may be left while the pointer is busy.
LevelRefusalBusy(op, s) ==
  op.from # s.level \/ (s.level = Observe /\ s.observed = NoDigest)

\* Why a level change may not move the Stage now.
LevelRefusal(op, s) ==
  \/ op.from # s.level
  \/ s.level = Observe /\ (s.observed = NoDigest \/ s.lock # NoOp)

(***************************************************************************)
(* What a plan predicts.  A gate verdict is "fail", "human" (a floor: a    *)
(* consumer breaks or something is Unknown) or "pass".                     *)
(***************************************************************************)
PlanRefused(op, s) ==
  \/ ~MayRaise(op)
  \/ op.type \in PointerTypes /\ op.from # s.pointer
  \/ op.type = "autonomy" /\ op.from # s.level
  \/ op.type = "promote" /\ (s.level = Observe \/ op.to \in s.failed)

\* The verdicts the gates of op may give.  What they read (contracts, the graph
\* of consumers, evidence) is left out: a promote may get any verdict.
PromoteVerdicts == {"pass", "human", "fail"}

\* A rollback is never refused for its impact; one Pacto raised is held only
\* while the records it requires cannot be written.
RollbackVerdicts(op) ==
  {"pass"} \cup (IF op.class # "controller" \/ RecordsRequired THEN {"human"} ELSE {})

\* Lowering needs no approval, raising always asks a person.
LevelVerdicts(op) ==
  CASE op.to < op.from /\ ~LowerRefusal(op) -> {"pass"}
    [] op.to > op.from /\ ~RaiseRefusal(op) -> {"human", "fail"}
    [] OTHER                                -> {"fail"}

GateVerdicts(op) ==
  CASE op.type = "promote"  -> PromoteVerdicts
    [] op.type = "rollback" -> RollbackVerdicts(op)
    [] op.type = "autonomy" -> LevelVerdicts(op)
    [] OTHER                -> {"pass"}

\* A promote no person raised asks one on advise.
LevelHolds(op, s) ==
  op.type = "promote" /\ op.class # "human" /\ s.level = Advise

Predict(op, s, gate) ==
  IF PlanRefused(op, s) \/ gate = "fail" THEN "rejected"
  ELSE IF gate = "human" \/ LevelHolds(op, s) THEN "held"
  ELSE IF op.type = "promote" /\ s.frozen THEN "waits"
  ELSE "proceeds"

(***************************************************************************)
(* Admission: everything checked is a property of the request.             *)
(***************************************************************************)
MayUndo(type, class) == type = "promote" \/ class \in {"human", "breakglass"}

\* cited is the set holding the operation the rollback undoes, empty when no
\* such operation is known.  An agent's rollback of a frozen Stage needs a
\* Fail verdict as its cause; confirmed says it cites one.
AdmitRollback(op, s, cited, confirmed) ==
  \E c \in cited :
    /\ c.applied
    /\ op.from = c.to /\ op.from = s.pointer
    /\ op.to = c.from /\ op.to # NoDigest
    /\ MayUndo(c.type, op.class)
    /\ op.to \notin s.failed
    /\ ~(s.frozen /\ op.class = "agent" /\ ~confirmed)

AdmissionRefused(op, s, cited, confirmed) ==
  \/ ~MayRaise(op)
  \/ op.type = "freeze" /\ op.from # s.pointer
  \/ op.type \in PointerTypes /\ op.from # s.pointer
  \/ op.type = "rollback" /\ ~AdmitRollback(op, s, cited, confirmed)

(***************************************************************************)
(* What a conclusion does to the Stage.  Only an applied operation moved   *)
(* the pointer, so only it has a version before it.                        *)
(***************************************************************************)
Before(op) == IF op.applied THEN op.from ELSE NoDigest

\* Mutant of ConcludedOn: the Stage does not look at what it concluded.
NeverConcluded(s, uid) == FALSE

ConcludedOn(s, uid) == \E i \in DOMAIN s.concluded : s.concluded[i].uid = uid

SetsAutoHold(op, s) ==
  /\ op.class # "controller"
  /\ \/ op.type = "rollback"
     \/ op.type = "promote" /\ op.to \in s.verified

AutoHoldAfter(op, s) ==
  IF ~op.applied THEN s.autoHold
  ELSE \/ SetsAutoHold(op, s)
       \/ s.autoHold /\ ~(op.type = "promote" /\ op.class = "human")

\* Mutant of ChangeLevel: every raise adopts what GitOps ran.
ChangeLevelAdopts(op, s) ==
  [s EXCEPT !.level   = op.to,
            !.pointer = IF op.to = Observe \/ s.observed = NoDigest THEN NoDigest ELSE s.observed]

\* Leaving observe adopts what GitOps runs as the pointer; entering it gives
\* the pointer up.
ChangeLevel(op, s) ==
  [s EXCEPT !.level   = op.to,
            !.pointer = IF op.to = Observe THEN NoDigest
                        ELSE IF op.from = Observe /\ s.observed # NoDigest
                        THEN s.observed
                        ELSE @]

Succeeded(op, s, c) ==
  LET v == IF c.verification = "Verified"
           THEN [s EXCEPT !.verified = @ \cup {op.to}] ELSE s
  IN CASE op.type = "autonomy" -> ChangeLevel(op, v)
       [] op.type = "unfreeze" -> [v EXCEPT !.frozen = FALSE, !.autoHold = FALSE]
       [] op.type = "freeze"   -> [v EXCEPT !.frozen = TRUE]
       [] OTHER                -> v

\* Mutant of Failed: a failure with nothing safe to go back to does not freeze.
FailedUnfrozen(uid, op, s) ==
  LET f == [s EXCEPT !.failed = @ \cup {op.to}, !.verified = @ \ {op.to}]
  IN IF op.type # "promote" THEN f ELSE [f EXCEPT !.rolledBack = @ \cup {uid}]

\* A failed promote has its one automatic rollback counted, unless there is
\* nothing safe to go back to.
Failed(uid, op, s) ==
  LET f      == [s EXCEPT !.failed = @ \cup {op.to}, !.verified = @ \ {op.to}]
      unsafe == \/ op.type # "promote"
                \/ Before(op) = NoDigest
                \/ Before(op) \in f.failed
  IN IF unsafe THEN [f EXCEPT !.frozen = TRUE]
               ELSE [f EXCEPT !.rolledBack = @ \cup {uid}]

ApplyEffects(uid, op, s, c) ==
  LET h == [s EXCEPT !.autoHold = AutoHoldAfter(op, s)]
      e == CASE c.outcome = "Succeeded" -> Succeeded(op, h, c)
             [] c.outcome = "Failed"    -> Failed(uid, op, h)
             [] OTHER                   -> h
      refused == /\ c.outcome = "Rejected"
                 /\ op.type = "rollback" /\ op.class = "controller"
  IN IF c.freeze \/ refused THEN [e EXCEPT !.frozen = TRUE] ELSE e

(***************************************************************************)
(* The versions auto-promotion may ship: what the candidate source names,  *)
(* unless the Stage runs it or failed it.  A tag moved back to a version   *)
(* the Stage verified is nothing new; an upstream Stage may offer one      *)
(* again.                                                                  *)
(***************************************************************************)
Candidates(s) ==
  (Digests \ {s.pointer}) \ (s.failed \cup (IF FromUpstream THEN {} ELSE s.verified))

=============================================================================
