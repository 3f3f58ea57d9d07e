------------------------------ MODULE Recorder -------------------------------
(***************************************************************************)
(* The recorder of one Stage name: it turns the stream of conclusions the  *)
(* promoter writes into a chain of signed records in a registry, and lets  *)
(* an Operation go once its record is there                                *)
(* (integrations/kubernetes/internal/delivery/recorder.go).                *)
(*                                                                         *)
(* A pass reads the Stage, then the Operations, then the records, and then *)
(* makes its writes one by one; between any two requests the promoter goes *)
(* on, the pass may be lost, someone may delete an Operation or recreate   *)
(* the Stage, and the cluster may be restored from a backup while the      *)
(* registry keeps what it has.  The promoter is the abstract one of Stream.*)
(***************************************************************************)
EXTENDS Integers, Sequences, FiniteSets

CONSTANTS
  Operations,    \* uids of the Operations, positive numbers
  MaxConcluded,  \* how many conclusions a Stage remembers (20)
  FaultPlans,    \* which kinds of faults may happen together
  MaxFaults      \* bound: how many faults happen

ASSUME OperationsAssumption == Operations \subseteq Nat \ {0}

ASSUME MemoryAssumption == MaxConcluded \in Nat \ {0}

\* A pass or a reconcile of the promoter lost to an error or a restart, a
\* finalizer someone removes, a record the registry loses, the Stage deleted and
\* created again, and the cluster restored from a backup.
ASSUME FaultsAssumption ==
  /\ FaultPlans \subseteq
       SUBSET {"pass", "reconcile", "strip", "record", "recreate", "restore"}
  /\ MaxFaults \in Nat

VARIABLES
  stage,     \* the Stage's uid and status.stream, as the apiserver stores them
  ops,       \* the Operations, as the apiserver stores them
  taking,    \* the numbers promoter reconciles in flight are about to write
  registry,  \* the records on the stream's anchor; a record is known by its index
  lost,      \* the records the registry no longer holds
  pass,      \* how far the recorder's pass in flight has got
  missing,   \* the gaps seen, by Stage and number, and whether the grace is over
  backup,    \* the backup of the cluster, if there is one
  clock,     \* conclusions written so far: the time an Operation finishes
  plan,      \* the kinds of faults of this behaviour
  faults,    \* faults so far
  torn       \* whether a Stage was recreated under a pass (auxiliary)

vars == <<stage, ops, taking, registry, lost, pass, missing, backup, clock, plan,
          faults, torn>>

\* What the recorder's own steps leave alone.
rest == <<backup, clock, faults, torn, lost, plan>>

(***************************************************************************)
(* State                                                                   *)
(***************************************************************************)
NoUid == 0
NoRecord == 0

NewStage(uid) ==
  [uid |-> uid, log |-> <<>>, recordedSeq |-> 0, head |-> NoRecord, ready |-> FALSE]

\* seq 0 is an Operation that has not concluded.
NewOperation ==
  [seq |-> 0, stageUID |-> 0, finished |-> 0, finalizer |-> TRUE, record |-> NoRecord,
   gone |-> FALSE, stripped |-> FALSE]

NoItem == [seq |-> 0, uid |-> NoUid, op |-> NewOperation, wait |-> FALSE, leftover |-> FALSE]

\* uid is the Stage the pass believes it works for.
Idle == [at |-> "idle", stage |-> NewStage(0), uid |-> 0, items |-> {},
         item |-> NoItem, recs |-> {}, rec |-> NoRecord]

NoBackup == [taken |-> FALSE, stage |-> NewStage(0), ops |-> <<>>]

Init ==
  /\ stage = NewStage(1)
  /\ ops = [u \in Operations |-> NewOperation]
  /\ taking = <<>>
  /\ registry = <<>>
  /\ lost = {}
  /\ pass = Idle
  /\ missing = <<>>
  /\ backup = NoBackup
  /\ clock = 0
  /\ plan \in FaultPlans
  /\ faults = 0
  /\ torn = FALSE

Written == {u \in Operations : ops[u].seq > 0}

Fault(kind) == kind \in plan /\ faults < MaxFaults /\ faults' = faults + 1

Exists(u) == ~ops[u].gone

Without(f, S) == [x \in DOMAIN f \ S |-> f[x]]

With(f, x, v) == [y \in DOMAIN f \cup {x} |-> IF y = x THEN v ELSE f[y]]

(***************************************************************************)
(* The promoter, as far as the stream shows it.                            *)
(***************************************************************************)
Promoter == INSTANCE Stream WITH
  log <- stage.log, taking <- DOMAIN taking, written <- Written

NumberOf(log, u) == CHOOSE n \in DOMAIN log :
  log[n] = u /\ \A m \in DOMAIN log : log[m] = u => m <= n

Take(u) ==
  /\ Exists(u)
  /\ stage' = [stage EXCEPT !.log = Append(@, u)]
  /\ taking' = With(taking, u, [stageUID |-> stage.uid, seq |-> Len(stage.log) + 1])
  /\ UNCHANGED <<ops, registry, pass, missing, rest>>
  /\ Promoter!Take(u)

TakeAgain(u) ==
  /\ Exists(u) /\ u \in Promoter!RememberedOps
  /\ taking' = With(taking, u, [stageUID |-> stage.uid, seq |-> NumberOf(stage.log, u)])
  /\ UNCHANGED <<stage, ops, registry, pass, missing, rest>>
  /\ Promoter!TakeAgain(u)

Write(u) ==
  /\ Exists(u) /\ u \in DOMAIN taking
  /\ ops' = [ops EXCEPT ![u].seq = taking[u].seq, ![u].stageUID = taking[u].stageUID,
                        ![u].finished = clock + 1]
  /\ taking' = Without(taking, {u})
  /\ clock' = clock + 1
  /\ UNCHANGED <<stage, registry, pass, missing, backup, faults, torn, lost, plan>>
  /\ Promoter!Write(u)

\* The reconcile is lost, or finds that its Operation is gone.
Lose(u) ==
  /\ u \in DOMAIN taking
  /\ IF Exists(u) THEN Fault("reconcile") ELSE UNCHANGED faults
  /\ taking' = Without(taking, {u})
  /\ UNCHANGED <<stage, ops, registry, pass, missing, backup, clock, torn, lost, plan>>
  /\ Promoter!Lose(u)

(***************************************************************************)
(* A pass begins: the Stage, then the Operations, both uncached.           *)
(***************************************************************************)
ReadStage ==
  /\ pass.at = "idle"
  /\ pass' = [Idle EXCEPT !.at = "operations", !.stage = stage, !.uid = stage.uid]
  /\ UNCHANGED <<stage, ops, taking, registry, missing, rest>>

Item(seq, u, wait, leftover) ==
  [seq |-> seq, uid |-> u, op |-> IF u = NoUid THEN NewOperation ELSE ops[u],
   wait |-> wait, leftover |-> leftover]

Ours(s) == {u \in Written : Exists(u) /\ ops[u].stageUID = s.uid}

Held(s) == {ops[u].seq : u \in Ours(s)}

Leftovers(s) == {u \in Written : Exists(u) /\ ops[u].stageUID # s.uid /\ ops[u].finalizer}

\* Mutant of Owed: a passed number owes nothing.
OwedUnpassed(s) == {u \in Ours(s) : ops[u].seq > s.recordedSeq}

Owed(s) == {u \in Ours(s) : ops[u].seq > s.recordedSeq \/ ops[u].finalizer}

\* Mutant of Late: a number whose status write is late is taken for a gap.
NeverLate(s) == {}

\* Numbers an Operation took on the Stage but has not written yet.
Late(s) ==
  {n \in DOMAIN s.log : /\ n > s.recordedSeq /\ n + MaxConcluded > Len(s.log)
                        /\ n \notin Held(s) /\ Exists(s.log[n])}

Gaps(s) == ((s.recordedSeq + 1) .. Len(s.log)) \ (Held(s) \cup Late(s))

Pending(s) ==
  {Item(ops[u].seq, u, FALSE, TRUE)  : u \in Leftovers(s)} \cup
  {Item(ops[u].seq, u, FALSE, FALSE) : u \in Owed(s)} \cup
  {Item(n, NoUid, TRUE, FALSE)       : n \in Late(s)} \cup
  {Item(n, NoUid, FALSE, FALSE)      : n \in Gaps(s)}

\* Every gap starts its grace when it is first seen; what is no gap any more is
\* forgotten.
Stamped(s) ==
  [k \in {s.uid} \X Gaps(s) |-> IF k \in DOMAIN missing THEN missing[k] ELSE "fresh"]

ListOperations ==
  /\ pass.at = "operations"
  /\ LET s == pass.stage
     IN /\ missing' = Stamped(s)
        /\ pass' = IF Pending(s) = {} /\ s.ready THEN Idle
                   ELSE [pass EXCEPT !.at = "records", !.items = Pending(s)]
  /\ UNCHANGED <<stage, ops, taking, registry, rest>>

(***************************************************************************)
(* The records, and whether the stream may be extended.                    *)
(***************************************************************************)
\* The newest of a set of records, or NoRecord.
Newest(recs) ==
  IF recs = {} THEN NoRecord
  ELSE CHOOSE i \in recs : \A j \in recs : registry[j].seq <= registry[i].seq

\* Two records with one number, a broken link, or a head the registry lacks.
Conflict(recs, head) ==
  \/ \E i, j \in recs : i # j /\ registry[i].seq = registry[j].seq
  \/ \E i, j \in recs : registry[j].seq = registry[i].seq + 1 /\ registry[j].parent # i
  \/ head # NoRecord /\ head \notin recs

Present == DOMAIN registry \ lost

\* Mutant of Extendable: a head the registry lacks is no reason to stop.
ExtendableAnyway == ~Conflict(Present, NoRecord)

Extendable == ~Conflict(Present, pass.stage.head)

ListRecords ==
  /\ pass.at = "records"
  /\ Extendable
  /\ pass' = [pass EXCEPT !.at = IF pass.stage.ready THEN "item" ELSE "ready",
                          !.recs = Present]
  /\ UNCHANGED <<stage, ops, taking, registry, missing, rest>>

\* Every write of the Stage is made on a fresh read by name, and the pass goes
\* on with the Stage it then found.
MarkReady ==
  /\ pass.at = "ready"
  /\ stage' = [stage EXCEPT !.ready = TRUE]
  /\ pass' = [pass EXCEPT !.at = "item", !.uid = stage.uid]
  /\ UNCHANGED <<ops, taking, registry, missing, rest>>

(***************************************************************************)
(* Recording one item after the other, leftovers first, in number order.   *)
(***************************************************************************)
Before(a, b) == IF a.leftover # b.leftover THEN a.leftover ELSE a.seq < b.seq

First(items) == {a \in items : ~\E b \in items : Before(b, a)}

\* Mutant of Adopted: a record the registry already holds is not looked for.
NothingAdopted(it) == {}

\* Mutant of Adopted: a leftover is taken for recorded when any Operation is.
AdoptedLeftover(it) ==
  {i \in pass.recs : it.leftover \/ (registry[i].uid = it.uid /\ it.uid # NoUid)}

\* The record of this conclusion, or of this gap, if the registry holds it.
Adopted(it) ==
  {i \in pass.recs :
     IF it.uid = NoUid
     THEN registry[i].gap /\ registry[i].number = it.seq /\ registry[i].stageUID = pass.uid
     ELSE registry[i].uid = it.uid /\ registry[i].finished = it.op.finished}

\* Mutant of Link: the chain goes on from the head the Stage names.
LinkFromStage(recs) ==
  [seq |-> IF stage.head = NoRecord THEN 1 ELSE registry[stage.head].seq + 1,
   parent |-> stage.head]

\* Where the next record goes in the chain.
Link(recs) ==
  LET h == Newest(recs)
  IN [seq |-> IF h = NoRecord THEN 1 ELSE registry[h].seq + 1, parent |-> h]

RecordOf(it) ==
  LET l == Link(pass.recs)
  IN [seq |-> l.seq, parent |-> l.parent, gap |-> it.uid = NoUid,
      uid |-> it.uid, finished |-> it.op.finished, number |-> it.seq,
      stageUID |-> IF it.uid = NoUid THEN pass.uid ELSE it.op.stageUID]

\* Mutant of Recorded: a leftover is taken for one of this Stage's own.
RecordedOwn(it) == "advance"

\* A leftover moves nothing of this Stage.
Recorded(it) == IF it.leftover THEN "name" ELSE "advance"

Goes(it, rec) ==
  [pass EXCEPT !.at = Recorded(it), !.items = @ \ {it}, !.item = it,
               !.recs = @ \cup {rec}, !.rec = rec]

Adopt(it) ==
  /\ \E i \in Adopted(it) : pass' = Goes(it, i)
  /\ UNCHANGED registry

Push(it) ==
  /\ Adopted(it) = {}
  /\ registry' = Append(registry, RecordOf(it))
  /\ pass' = Goes(it, Len(registry) + 1)

Key(it) == <<pass.uid, it.seq>>

\* A gap waits for its grace; one this process has no stamp of does not wait.
InGrace(it) == Key(it) \in DOMAIN missing /\ missing[Key(it)] = "fresh"

Waits(it) == it.wait \/ (it.uid = NoUid /\ InGrace(it))

RecordItem ==
  /\ pass.at = "item"
  /\ \E it \in First(pass.items) :
       /\ ~Waits(it)
       /\ Adopt(it) \/ Push(it)
       /\ missing' = IF it.uid = NoUid THEN Without(missing, {Key(it)}) ELSE missing
  /\ UNCHANGED <<stage, ops, taking, rest>>

\* Nothing is left, or the first item has to wait: the pass is over.
EndPass ==
  /\ pass.at = "item"
  /\ \A it \in First(pass.items) : Waits(it)
  /\ pass' = Idle
  /\ UNCHANGED <<stage, ops, taking, registry, missing, rest>>

\* The swap after a record: the number is passed and the head moves to the
\* newest record of the registry.
Advance ==
  /\ pass.at = "advance"
  /\ stage' = [stage EXCEPT !.recordedSeq = IF @ < pass.item.seq THEN pass.item.seq ELSE @,
                            !.head = Newest(pass.recs)]
  /\ pass' = [pass EXCEPT !.at = IF pass.item.uid = NoUid THEN "item" ELSE "name",
                          !.uid = stage.uid]
  /\ UNCHANGED <<ops, taking, registry, missing, rest>>

\* The Operation is still the one the pass listed, or wrote itself.
Current == ops[pass.item.uid] = pass.item.op

\* status.record is written, unless it says so already.
NameRecord ==
  /\ pass.at = "name"
  /\ Current \/ pass.item.op.record = pass.rec
  /\ LET op == [pass.item.op EXCEPT !.record = pass.rec]
     IN /\ pass' = [pass EXCEPT !.at = "release", !.item.op = op]
        /\ ops' = IF pass.item.op.record = pass.rec THEN ops
                  ELSE [ops EXCEPT ![pass.item.uid] = op]
  /\ UNCHANGED <<stage, taking, registry, missing, rest>>

Release ==
  /\ pass.at = "release"
  /\ Current \/ ~pass.item.op.finalizer
  /\ ops' = IF pass.item.op.finalizer
            THEN [ops EXCEPT ![pass.item.uid].finalizer = FALSE] ELSE ops
  /\ pass' = [pass EXCEPT !.at = "item", !.item = NoItem]
  /\ UNCHANGED <<stage, taking, registry, missing, rest>>

\* The pass gives up with an error and says so on the Stage: the stream is in
\* conflict, or the Operation changed since it was listed.
GiveUp ==
  /\ \/ pass.at = "records" /\ ~Extendable
     \/ pass.at = "name" /\ ~Current /\ pass.item.op.record # pass.rec
     \/ pass.at = "release" /\ ~Current /\ pass.item.op.finalizer
  /\ stage' = [stage EXCEPT !.ready = FALSE]
  /\ pass' = Idle
  /\ UNCHANGED <<ops, taking, registry, missing, rest>>

\* A request of the pass fails, and the pass may still say so on the Stage, or
\* the recorder restarts and forgets the gaps.
LosePass ==
  /\ pass.at # "idle" /\ Fault("pass")
  /\ pass' = Idle
  /\ \/ missing' \in {missing, <<>>} /\ UNCHANGED stage
     \/ UNCHANGED missing /\ stage' = [stage EXCEPT !.ready = FALSE]
  /\ UNCHANGED <<ops, taking, registry, backup, clock, torn, lost, plan>>

(***************************************************************************)
(* What happens outside the recorder.                                      *)
(***************************************************************************)
GraceEnds ==
  /\ \E k \in DOMAIN missing :
       missing[k] = "fresh" /\ missing' = [missing EXCEPT ![k] = "over"]
  /\ UNCHANGED <<stage, ops, taking, registry, pass, rest>>

Strip(u) ==
  /\ Exists(u) /\ ops[u].finalizer
  /\ Fault("strip")
  /\ ops' = [ops EXCEPT ![u].finalizer = FALSE, ![u].stripped = TRUE]
  /\ UNCHANGED <<stage, taking, registry, pass, missing, backup, clock, torn, lost, plan>>

\* An Operation without finalizers is deleted: it expired, or someone did it.
Delete(u) ==
  /\ Exists(u) /\ ~ops[u].finalizer
  /\ ops' = [ops EXCEPT ![u].gone = TRUE]
  /\ UNCHANGED <<stage, taking, registry, pass, missing, rest>>

\* The registry loses a record: retention, or someone deletes it.
LoseRecord(i) ==
  /\ Fault("record")
  /\ lost' = lost \cup {i}
  /\ UNCHANGED <<stage, ops, taking, registry, pass, missing, backup, clock, torn, plan>>

Recreate ==
  /\ Fault("recreate")
  /\ stage' = NewStage(stage.uid + 1)
  /\ torn' = (torn \/ pass.at # "idle")
  /\ UNCHANGED <<ops, taking, registry, pass, missing, backup, clock, lost, plan>>

Backup ==
  /\ "restore" \in plan /\ faults < MaxFaults /\ ~backup.taken
  /\ backup' = [taken |-> TRUE, stage |-> stage, ops |-> ops]
  /\ UNCHANGED <<stage, ops, taking, registry, pass, missing, clock, faults, torn, lost, plan>>

\* The cluster goes back to its backup, once; the controllers start anew.
Restore ==
  /\ backup.taken /\ backup.ops # <<>> /\ Fault("restore")
  /\ stage' = backup.stage /\ ops' = backup.ops
  /\ backup' = [NoBackup EXCEPT !.taken = TRUE]
  /\ taking' = <<>> /\ pass' = Idle /\ missing' = <<>>
  /\ UNCHANGED <<registry, clock, torn, lost, plan>>
-----------------------------------------------------------------------------
Pass ==
  \/ ReadStage \/ ListOperations \/ ListRecords \/ MarkReady
  \/ RecordItem \/ EndPass \/ Advance \/ NameRecord \/ Release \/ GiveUp

Next ==
  \/ \E u \in Operations : Take(u) \/ TakeAgain(u) \/ Write(u) \/ Lose(u)
                           \/ Strip(u) \/ Delete(u)
  \/ Pass \/ LosePass \/ GraceEnds
  \/ \E i \in Present : LoseRecord(i)
  \/ Recreate \/ Backup \/ Restore

Spec == Init /\ [][Next]_vars
\* The workqueue retries a pass that gave up, a gap's grace ends, and the
\* promoter retries a conclusion until its Operation says so.  Nobody has to
\* conclude, lose, delete or recreate anything.
Fairness ==
  /\ WF_vars(Pass) /\ WF_vars(GraceEnds)
  /\ \A u \in Operations : WF_vars(TakeAgain(u) \/ Write(u))

FairSpec == Spec /\ Fairness

(***************************************************************************)
(* Properties                                                              *)
(***************************************************************************)
\* The chain never forks: of the records the registry holds no two claim one
\* place, and each names the one before it, whatever passes are lost between a
\* push and the swap that tells the Stage and whatever backup is restored.
ChainHolds == ~Conflict(Present, NoRecord)

\* A conclusion is recorded once and so is a gap: a pass that finds its record
\* in the registry takes it over.
RecordedOnce ==
  \A i, j \in Present :
    /\ registry[i].gap = registry[j].gap
    /\ registry[i].uid = registry[j].uid /\ registry[i].finished = registry[j].finished
    /\ registry[i].gap => /\ registry[i].number = registry[j].number
                          /\ registry[i].stageUID = registry[j].stageUID
    => i = j

\* The recorder lets an Operation go only once the record of its conclusion is
\* in the registry.
LetGoOnceRecorded ==
  \A u \in Operations : ops[u].finalizer \/ ops[u].stripped \/
    \E i \in DOMAIN registry : registry[i].uid = u /\ registry[i].finished = ops[u].finished

\* recordedSeq is earned: it is the number of a record written for this very
\* Stage, unless the Stage was recreated under a pass.
RecordedSeqEarned ==
  torn \/ stage.recordedSeq = 0 \/
    \E i \in DOMAIN registry : /\ registry[i].stageUID = stage.uid
                               /\ registry[i].number = stage.recordedSeq

\* A gap is recorded only for a number whose Operation is gone, or which the
\* Stage no longer remembers: one whose status write is late is waited for.
GapIsGone ==
  [][registry' # registry =>
       LET r == registry'[Len(registry')]
       IN r.gap /\ ~torn =>
            /\ r.stageUID = stage.uid /\ r.number \in DOMAIN stage.log
            /\ r.number \in Promoter!Remembered => ~Exists(stage.log[r.number])]_vars

\* The head a Stage names only moves to a later place of the chain, except when
\* a backup takes the whole Stage back.
HeadFastForwards ==
  [][/\ stage'.uid = stage.uid /\ backup' = backup /\ stage'.head # stage.head
     => \/ stage.head = NoRecord
        \/ registry[stage.head].seq < registry[stage'.head].seq]_vars

HeadLost == stage.head \in lost

\* The recorder catches up: every number the Stage gave is passed and every
\* concluded Operation is let go, unless the registry lost the head.
CatchesUp ==
  <>[](\/ HeadLost
       \/ /\ stage.recordedSeq >= Len(stage.log)
          /\ \A u \in Written : ~ops[u].finalizer)

\* Records of one Stage are chained in the order of its numbers.
InSeqOrder ==
  \A i, j \in DOMAIN registry :
    registry[i].stageUID = registry[j].stageUID /\ i < j
    => registry[i].number < registry[j].number
=============================================================================
