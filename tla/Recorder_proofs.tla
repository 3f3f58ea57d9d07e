---------------------------- MODULE Recorder_proofs ----------------------------
(***************************************************************************)
(* For any number of Operations, faults and kinds of faults: the chain of  *)
(* records never forks and nothing is recorded twice, and what a pass      *)
(* leaves behind is a head that only moves forward along the chain, an     *)
(* Operation let go only once its record is written, a recordedSeq that    *)
(* was earned, and gaps that are gaps.                                     *)
(***************************************************************************)
EXTENDS Recorder, WellFoundedInduction, TLAPS

(***************************************************************************)
(* Types                                                                   *)
(***************************************************************************)
OpType == [seq : Nat, stageUID : Nat, finished : Nat, finalizer : BOOLEAN, record : Nat,
           gone : BOOLEAN, stripped : BOOLEAN]

StageType == [uid : Nat, log : Seq(Operations), recordedSeq : Nat, head : Nat, ready : BOOLEAN]

ItemType == [seq : Nat, uid : Nat, op : OpType, wait : BOOLEAN, leftover : BOOLEAN]

Phases == {"idle", "operations", "records", "ready", "item", "advance", "name", "release"}

PassType == [at : Phases, stage : StageType, uid : Nat, items : SUBSET ItemType,
             item : ItemType, recs : SUBSET Nat, rec : Nat]

RecordType == [seq : Nat, parent : Nat, gap : BOOLEAN, uid : Nat, finished : Nat,
               number : Nat, stageUID : Nat]

TypeInv ==
  /\ stage \in StageType
  /\ ops \in [Operations -> OpType]
  /\ \A u \in DOMAIN taking : /\ u \in Operations /\ taking[u].stageUID \in Nat
                              /\ taking[u].seq \in Nat \ {0}
  /\ registry \in Seq(RecordType)
  /\ pass \in PassType
  /\ backup \in [taken : BOOLEAN, stage : StageType,
                 ops : [Operations -> OpType] \cup {<<>>}]
  /\ clock \in Nat
  /\ \A i \in DOMAIN registry : 0 < registry[i].seq /\ registry[i].seq <= i
  /\ pass.recs \subseteq DOMAIN registry

(***************************************************************************)
(* What the registry's operators return                                    *)
(***************************************************************************)
\* A bounded set of numbers has a largest one.
LEMMA LargestExists ==
  ASSUME NEW n \in Nat, NEW S, S \subseteq 0 .. n, S # {}
  PROVE  \E x \in S : \A y \in S : y <= x
<1> DEFINE T == {n - x : x \in S}
<1>1. T \subseteq Nat /\ T # {}
  <2>1. \A x \in S : n - x \in Nat
    OBVIOUS
  <2> QED BY <2>1, Zenon
<1>2. \E x \in T : \A y \in T : ~ (<<y, x>> \in OpToRel(<, Nat))
  BY <1>1, WFMin, NatLessThanWellFounded, Zenon
<1>3. \E x \in T : \A y \in T : ~ (y < x)
  BY <1>1, <1>2, Zenon DEF OpToRel
<1>4. PICK x \in S : \A y \in T : ~ (y < n - x)
  BY <1>3
<1>5. \A y \in S : ~ (n - y < n - x)
  BY <1>4, Zenon
<1>6. \A y \in S : y <= x
  BY <1>5
<1> QED BY <1>6

LEMMA RegistryFacts ==
  ASSUME TypeInv
  PROVE  /\ Len(registry) \in Nat
         /\ DOMAIN registry = 1 .. Len(registry)
         /\ \A i \in DOMAIN registry :
              /\ registry[i] \in RecordType
              /\ registry[i].seq \in Nat /\ 0 < registry[i].seq /\ registry[i].seq <= i
<1>1. /\ registry \in Seq(RecordType)
      /\ \A i \in DOMAIN registry : 0 < registry[i].seq /\ registry[i].seq <= i
  BY DEF TypeInv
<1>2. \A i \in DOMAIN registry : registry[i] \in RecordType
  BY <1>1
<1>3. \A i \in DOMAIN registry : registry[i].seq \in Nat
  BY <1>2 DEF RecordType
<1>4. Len(registry) \in Nat /\ DOMAIN registry = 1 .. Len(registry)
  BY <1>1
<1> QED BY <1>1, <1>2, <1>3, <1>4

\* The newest of a set of records is one of them and has the largest place.
LEMMA NewestIsLast ==
  ASSUME TypeInv, NEW recs, recs \subseteq DOMAIN registry, recs # {}
  PROVE  /\ Newest(recs) \in recs
         /\ \A j \in recs : registry[j].seq <= registry[Newest(recs)].seq
<1> DEFINE L == Len(registry)
           T == {registry[i].seq : i \in recs}
<1>1. L \in Nat /\ \A i \in recs : registry[i].seq \in 0 .. L
  BY RegistryFacts
<1>2. T \subseteq 0 .. L /\ T # {}
  BY <1>1
<1>3. PICK x \in T : \A y \in T : y <= x
  BY <1>1, <1>2, LargestExists, Zenon
<1>4. \E i \in recs : \A j \in recs : registry[j].seq <= registry[i].seq
  BY <1>3
<1> QED BY <1>4 DEF Newest

\* The next place of the chain: after all the records the pass knows.
LEMMA LinkIsNext ==
  ASSUME TypeInv, NEW recs, recs \subseteq DOMAIN registry
  PROVE  /\ Link(recs).seq \in Nat /\ Link(recs).parent \in Nat
         /\ 0 < Link(recs).seq /\ Link(recs).seq <= Len(registry) + 1
         /\ \A i \in recs : registry[i].seq < Link(recs).seq
         /\ \A i \in recs : Link(recs).seq = registry[i].seq + 1
                            => registry[Link(recs).parent].seq = registry[i].seq
         /\ recs # {} => Link(recs).parent \in recs
<1>1. CASE recs = {}
  BY <1>1, RegistryFacts DEF Link, Newest, NoRecord
<1>2. CASE recs # {}
  <2> DEFINE h == Newest(recs)
  <2>1. h \in recs /\ \A j \in recs : registry[j].seq <= registry[h].seq
    BY <1>2, NewestIsLast
  <2>2. h \in Nat /\ h # NoRecord
    BY <2>1, RegistryFacts DEF NoRecord
  <2>3. Link(recs) = [seq |-> registry[h].seq + 1, parent |-> h]
    BY <2>2 DEF Link
  <2>4. \A j \in recs : registry[j].seq \in Nat /\ registry[j].seq <= Len(registry)
    BY RegistryFacts
  <2> HIDE DEF h
  <2> QED BY <2>1, <2>2, <2>3, <2>4, RegistryFacts
<1> QED BY <1>1, <1>2

(***************************************************************************)
(* The types hold                                                          *)
(***************************************************************************)

LEMMA IdleTyped == Idle \in PassType /\ Idle.recs = {}
<1>1. NewStage(0) \in StageType
  BY DEF NewStage, StageType, NoRecord
<1>2. NoItem \in ItemType
  BY DEF NoItem, ItemType, NewOperation, OpType, NoUid, NoRecord
<1> QED BY <1>1, <1>2 DEF Idle, PassType, Phases, NoRecord

LEMMA RecordTyped ==
  ASSUME TypeInv, NEW it \in ItemType
  PROVE  /\ RecordOf(it) \in RecordType
         /\ RecordOf(it).seq = Link(pass.recs).seq /\ RecordOf(it).parent = Link(pass.recs).parent
         /\ RecordOf(it).uid = it.uid /\ RecordOf(it).finished = it.op.finished
<1>1. Link(pass.recs).seq \in Nat /\ Link(pass.recs).parent \in Nat
  BY LinkIsNext DEF TypeInv
<1>2. /\ it.uid \in Nat /\ it.seq \in Nat /\ it.op.finished \in Nat /\ it.op.stageUID \in Nat
      /\ pass.uid \in Nat
  BY SMTT(30) DEF TypeInv, ItemType, OpType, PassType
<1> QED BY <1>1, <1>2 DEF RecordOf, RecordType

\* What pushing one record does to the registry.
LEMMA Pushed ==
  ASSUME TypeInv, NEW it \in ItemType, registry' = Append(registry, RecordOf(it))
  PROVE  /\ registry' \in Seq(RecordType)
         /\ Len(registry') = Len(registry) + 1
         /\ DOMAIN registry' = 1 .. Len(registry) + 1
         /\ \A i \in DOMAIN registry : registry'[i] = registry[i]
         /\ registry'[Len(registry) + 1] = RecordOf(it)
         /\ DOMAIN registry \subseteq DOMAIN registry'
         /\ Len(registry) + 1 \notin DOMAIN registry
<1>1. registry \in Seq(RecordType) /\ RecordOf(it) \in RecordType
  BY RecordTyped DEF TypeInv
<1>2. /\ registry' \in Seq(RecordType) /\ Len(registry') = Len(registry) + 1
      /\ registry'[Len(registry) + 1] = RecordOf(it)
      /\ \A i \in 1 .. Len(registry) : registry'[i] = registry[i]
  BY <1>1
<1> QED BY <1>2, RegistryFacts

\* What the pass becomes when it took or found a record.
LEMMA GoesTyped ==
  ASSUME TypeInv, NEW it \in ItemType, NEW rec \in Nat
  PROVE  /\ Goes(it, rec) \in PassType
         /\ Goes(it, rec).at = Recorded(it) /\ Goes(it, rec).items = pass.items \ {it}
         /\ Goes(it, rec).item = it /\ Goes(it, rec).rec = rec
         /\ Goes(it, rec).recs = pass.recs \cup {rec}
<1>1. Recorded(it) \in Phases
  BY DEF Recorded, Phases
<1>2. pass \in PassType
  BY DEF TypeInv
<1> QED BY <1>1, <1>2, Zenon DEF Goes, PassType

\* What a pass takes or finds for an item it records.
LEMMA ItemRecorded ==
  ASSUME TypeInv, RecordItem
  PROVE  \E it \in pass.items, rec \in Nat :
           /\ it \in ItemType /\ pass' = Goes(it, rec)
           /\ \/ rec \in Adopted(it) /\ registry' = registry
              \/ /\ registry' = Append(registry, RecordOf(it))
                 /\ rec = Len(registry) + 1
<1>1. PICK it \in First(pass.items) : Adopt(it) \/ Push(it)
  BY DEF RecordItem
<1>2. it \in pass.items /\ it \in ItemType
  BY DEF First, TypeInv, PassType
<1>3. CASE Adopt(it)
  <2>1. PICK i \in Adopted(it) : pass' = Goes(it, i)
    BY <1>3 DEF Adopt
  <2>2. i \in Nat
    BY RegistryFacts DEF Adopted, TypeInv
  <2> QED BY <1>2, <1>3, <2>1, <2>2 DEF Adopt
<1>4. CASE Push(it)
  <2>1. Len(registry) + 1 \in Nat
    BY RegistryFacts
  <2>2. registry' = Append(registry, RecordOf(it)) /\ pass' = Goes(it, Len(registry) + 1)
    BY <1>4 DEF Push
  <2> QED BY <1>2, <2>1, <2>2
<1> QED BY <1>1, <1>3, <1>4

LEMMA TypeStep ==
  ASSUME TypeInv, Next
  PROVE  TypeInv'
\* The number an Operation took on the Stage.
<1>NumberIsTaken.
  ASSUME NEW log \in Seq(Operations), NEW u, NEW m \in DOMAIN log, log[m] = u
  PROVE  NumberOf(log, u) \in DOMAIN log /\ NumberOf(log, u) \in Nat \ {0}
  <2> USE <1>NumberIsTaken
  <2> DEFINE S == {n \in DOMAIN log : log[n] = u}
  <2>1. Len(log) \in Nat /\ DOMAIN log = 1 .. Len(log)
    OBVIOUS
  <2>2. S \subseteq 0 .. Len(log) /\ S # {}
    BY <2>1
  <2>3. PICK x \in S : \A y \in S : y <= x
    BY <2>1, <2>2, LargestExists, Zenon
  <2>4. NumberOf(log, u) \in DOMAIN log
    BY <2>3 DEF NumberOf
  <2> QED BY <2>1, <2>4
<1>ItemTyped.
  ASSUME TypeInv, NEW n \in Nat, NEW u \in Operations \cup {NoUid},
         NEW wait \in BOOLEAN, NEW leftover \in BOOLEAN
  PROVE  Item(n, u, wait, leftover) \in ItemType
  <2> USE <1>ItemTyped
  <2>1. NewOperation \in OpType
    BY DEF NewOperation, OpType, NoRecord
  <2>2. u # NoUid => ops[u] \in OpType
    BY DEF TypeInv
  <2>3. u \in Nat
    BY OperationsAssumption DEF NoUid
  <2> QED BY <2>1, <2>2, <2>3 DEF Item, ItemType
<1>PendingTyped.
  ASSUME TypeInv, NEW s \in StageType
  PROVE  Pending(s) \subseteq ItemType
  <2> USE <1>PendingTyped
  <2>1. \A u \in Operations : ops[u].seq \in Nat
    BY DEF TypeInv, OpType
  <2>2. s.recordedSeq \in Nat /\ s.log \in Seq(Operations)
    BY DEF StageType
  <2>3. Late(s) \subseteq Nat /\ Gaps(s) \subseteq Nat
    BY <2>2 DEF Late, Gaps
  <2>4. Leftovers(s) \subseteq Operations /\ Owed(s) \subseteq Operations
    BY DEF Leftovers, Owed, Ours, Written
  <2>5. \A u \in Leftovers(s) : Item(ops[u].seq, u, FALSE, TRUE) \in ItemType
    BY <2>1, <2>4, <1>ItemTyped, Zenon
  <2>6. \A u \in Owed(s) : Item(ops[u].seq, u, FALSE, FALSE) \in ItemType
    BY <2>1, <2>4, <1>ItemTyped, Zenon
  <2>7. \A n \in Nat : /\ Item(n, NoUid, TRUE, FALSE) \in ItemType
                       /\ Item(n, NoUid, FALSE, FALSE) \in ItemType
    BY <1>ItemTyped, Zenon
  <2> QED BY <2>3, <2>5, <2>6, <2>7, Zenon DEF Pending
<1> USE DEF NoRecord
<1>1. ASSUME NEW u \in Operations, Take(u)
      PROVE  TypeInv'
  <2>1. stage' \in StageType
    <3>1. stage \in StageType /\ stage' = [stage EXCEPT !.log = Append(stage.log, u)]
      BY <1>1 DEF Take, TypeInv
    <3>2. Append(stage.log, u) \in Seq(Operations)
      BY <3>1 DEF StageType
    <3> QED BY <3>1, <3>2, Zenon DEF StageType
  <2>2. \A v \in DOMAIN taking' : /\ v \in Operations /\ taking'[v].stageUID \in Nat
                                  /\ taking'[v].seq \in Nat \ {0}
    BY <1>1, SMTT(30) DEF Take, TypeInv, StageType, With
  <2> QED BY <1>1, <2>1, <2>2 DEF Take, TypeInv, rest
<1>2. ASSUME NEW u \in Operations, TakeAgain(u)
      PROVE  TypeInv'
  <2>1. PICK n \in DOMAIN stage.log : stage.log[n] = u
    BY <1>2 DEF TakeAgain, Promoter!RememberedOps, Promoter!Remembered
  <2>2. NumberOf(stage.log, u) \in Nat \ {0}
    BY <2>1, <1>NumberIsTaken DEF TypeInv, StageType
  <2>3. \A v \in DOMAIN taking' : /\ v \in Operations /\ taking'[v].stageUID \in Nat
                                  /\ taking'[v].seq \in Nat \ {0}
    BY <1>2, <2>2 DEF TakeAgain, TypeInv, StageType, With
  <2> QED BY <1>2, <2>3 DEF TakeAgain, TypeInv, rest
<1>3. ASSUME NEW u \in Operations, Write(u)
      PROVE  TypeInv'
  <2>1. taking[u].seq \in Nat /\ taking[u].stageUID \in Nat /\ clock + 1 \in Nat
    BY <1>3 DEF Write, TypeInv
  <2>2. ops' \in [Operations -> OpType]
    <3>1. /\ ops \in [Operations -> OpType]
          /\ ops' = [ops EXCEPT ![u].seq = taking[u].seq, ![u].stageUID = taking[u].stageUID,
                                ![u].finished = clock + 1]
      BY <1>3 DEF Write, TypeInv
    <3>2. ops[u] \in OpType
      BY <3>1
    <3>3. ops' = [ops EXCEPT ![u] = [ops[u] EXCEPT !.seq = taking[u].seq,
                                                   !.stageUID = taking[u].stageUID,
                                                   !.finished = clock + 1]]
      BY <3>1, <3>2, Zenon DEF OpType
    <3>4. [ops[u] EXCEPT !.seq = taking[u].seq, !.stageUID = taking[u].stageUID,
                         !.finished = clock + 1] \in OpType
      BY <2>1, <3>2, Zenon DEF OpType
    <3> QED BY <3>1, <3>3, <3>4
  <2>3. \A v \in DOMAIN taking' : /\ v \in Operations /\ taking'[v].stageUID \in Nat
                                  /\ taking'[v].seq \in Nat \ {0}
    BY <1>3 DEF Write, TypeInv, Without
  <2> QED BY <1>3, <2>1, <2>2, <2>3, Zenon DEF Write, TypeInv
<1>4. ASSUME NEW u \in Operations, Lose(u)
      PROVE  TypeInv'
  BY <1>4 DEF Lose, TypeInv, Without
<1>5. ASSUME NEW u \in Operations, Strip(u) \/ Delete(u)
      PROVE  TypeInv'
  <2>1. ops' \in [Operations -> OpType]
    <3>1. ops \in [Operations -> OpType] /\ ops[u] \in OpType
      BY DEF TypeInv
    <3>2. CASE ops' = [ops EXCEPT ![u].finalizer = FALSE, ![u].stripped = TRUE]
      BY <3>1, <3>2, Zenon DEF OpType
    <3>3. CASE ops' = [ops EXCEPT ![u].gone = TRUE]
      BY <3>1, <3>3, Zenon DEF OpType
    <3> QED BY <1>5, <3>2, <3>3, Zenon DEF Strip, Delete
  <2> QED BY <1>5, <2>1 DEF Strip, Delete, TypeInv, rest
<1>6. CASE ReadStage
  <2>1. pass' \in PassType /\ pass'.recs = {}
    BY <1>6, IdleTyped, Zenon DEF ReadStage, TypeInv, PassType, StageType, Phases
  <2> QED BY <1>6, <2>1 DEF ReadStage, TypeInv, rest
<1>7. CASE ListOperations
  <2>1. Pending(pass.stage) \subseteq ItemType
    BY <1>PendingTyped DEF TypeInv, PassType
  <2>2. pass' \in PassType /\ pass'.recs \subseteq pass.recs
    BY <1>7, <2>1, IdleTyped, Zenon DEF ListOperations, TypeInv, PassType, Phases
  <2> QED BY <1>7, <2>2 DEF ListOperations, TypeInv, rest
<1>8. CASE ListRecords
  <2>1. Present \subseteq DOMAIN registry /\ Present \subseteq Nat
    BY RegistryFacts DEF Present
  <2>2. pass' \in PassType /\ pass'.recs = Present
    BY <1>8, <2>1, Zenon DEF ListRecords, TypeInv, PassType, Phases
  <2> QED BY <1>8, <2>1, <2>2 DEF ListRecords, TypeInv, rest
<1>9. CASE MarkReady
  <2>1. stage' \in StageType
    BY <1>9, Zenon DEF MarkReady, TypeInv, StageType
  <2>2. pass' \in PassType /\ pass'.recs = pass.recs
    BY <1>9, Zenon DEF MarkReady, TypeInv, StageType, PassType, Phases
  <2> QED BY <1>9, <2>1, <2>2 DEF MarkReady, TypeInv, rest
<1>10. CASE RecordItem
  <2>1. PICK it \in pass.items, rec \in Nat :
          /\ it \in ItemType /\ pass' = Goes(it, rec)
          /\ \/ rec \in Adopted(it) /\ registry' = registry
             \/ /\ registry' = Append(registry, RecordOf(it))
                /\ rec = Len(registry) + 1
    BY <1>10, ItemRecorded
  <2>2. pass' \in PassType /\ pass'.recs = pass.recs \cup {rec}
    BY <2>1, GoesTyped
  <2>3. UNCHANGED <<stage, ops, taking, backup, clock>>
    BY <1>10 DEF RecordItem, rest
  <2>4. CASE rec \in Adopted(it) /\ registry' = registry
    BY <2>2, <2>3, <2>4 DEF TypeInv, Adopted
  <2>5. CASE registry' = Append(registry, RecordOf(it)) /\ rec = Len(registry) + 1
    <3>1. /\ registry' \in Seq(RecordType)
          /\ DOMAIN registry' = 1 .. Len(registry) + 1
          /\ \A i \in DOMAIN registry : registry'[i] = registry[i]
          /\ registry'[Len(registry) + 1] = RecordOf(it)
          /\ DOMAIN registry \subseteq DOMAIN registry'
      BY <2>1, <2>5, Pushed
    <3>2. 0 < RecordOf(it).seq /\ RecordOf(it).seq <= Len(registry) + 1
      BY <2>1, RecordTyped, LinkIsNext DEF TypeInv
    <3>3. \A i \in DOMAIN registry' : 0 < registry'[i].seq /\ registry'[i].seq <= i
      BY <3>1, <3>2, RegistryFacts
    <3>4. pass'.recs \subseteq DOMAIN registry'
      BY <2>2, <2>5, <3>1, RegistryFacts DEF TypeInv
    <3> QED BY <2>2, <2>3, <3>1, <3>3, <3>4 DEF TypeInv
  <2> QED BY <2>1, <2>4, <2>5
<1>11. CASE EndPass
  BY <1>11, IdleTyped DEF EndPass, TypeInv, rest
<1>12. CASE Advance
  <2>1. Newest(pass.recs) \in Nat
    <3>1. pass.recs # {} => Newest(pass.recs) \in pass.recs
      BY NewestIsLast DEF TypeInv
    <3>2. pass.recs = {} => Newest(pass.recs) = NoRecord
      BY DEF Newest
    <3> QED BY <3>1, <3>2, RegistryFacts DEF TypeInv
  <2>2. stage' \in StageType
    BY <1>12, <2>1, Zenon DEF Advance, TypeInv, StageType, PassType, ItemType
  <2>3. pass' \in PassType /\ pass'.recs = pass.recs
    BY <1>12, Zenon DEF Advance, TypeInv, StageType, PassType, Phases
  <2> QED BY <1>12, <2>2, <2>3 DEF Advance, TypeInv, rest
<1>13. CASE NameRecord
  <2> DEFINE op == [pass.item.op EXCEPT !.record = pass.rec]
  <2>1. op \in OpType
    BY Zenon DEF TypeInv, PassType, ItemType, OpType
  <2>2. ops' \in [Operations -> OpType]
    BY <1>13, <2>1, Zenon DEF NameRecord, TypeInv
  <2>3. pass' = [pass EXCEPT !.at = "release", !.item.op = op]
    BY <1>13 DEF NameRecord
  <2>4. pass' \in PassType /\ pass'.recs = pass.recs
    BY <2>1, <2>3, Zenon DEF TypeInv, PassType, ItemType, Phases
  <2> QED BY <1>13, <2>2, <2>4 DEF NameRecord, TypeInv, rest
<1>14. CASE Release
  <2>1. ops' \in [Operations -> OpType]
    <3>1. ops \in [Operations -> OpType]
      BY DEF TypeInv
    <3>2. CASE ops' = [ops EXCEPT ![pass.item.uid].finalizer = FALSE]
      BY <3>1, <3>2, Zenon DEF OpType
    <3> QED BY <1>14, <3>1, <3>2 DEF Release
  <2>2. NoItem \in ItemType
    BY DEF NoItem, ItemType, NewOperation, OpType, NoUid
  <2>3. pass' \in PassType /\ pass'.recs = pass.recs
    BY <1>14, <2>2, Zenon DEF Release, TypeInv, PassType, Phases
  <2> QED BY <1>14, <2>1, <2>3 DEF Release, TypeInv, rest
<1>15. CASE GiveUp \/ LosePass
  <2>1. stage' \in StageType
    BY <1>15, Zenon DEF GiveUp, LosePass, TypeInv, StageType
  <2> QED BY <1>15, <2>1, IdleTyped DEF GiveUp, LosePass, TypeInv, rest
<1>16. CASE GraceEnds
  BY <1>16 DEF GraceEnds, TypeInv, rest
<1>17. ASSUME NEW i, LoseRecord(i)
       PROVE  TypeInv'
  BY <1>17 DEF LoseRecord, TypeInv
<1>18. CASE Recreate
  <2>1. stage' \in StageType
    BY <1>18 DEF Recreate, NewStage, TypeInv, StageType
  <2> QED BY <1>18, <2>1 DEF Recreate, TypeInv
<1>19. CASE Backup
  BY <1>19 DEF Backup, TypeInv
<1>20. CASE Restore
  <2>1. stage' \in StageType /\ ops' \in [Operations -> OpType]
    BY <1>20 DEF Restore, TypeInv
  <2>2. backup' \in [taken : BOOLEAN, stage : StageType,
                     ops : [Operations -> OpType] \cup {<<>>}]
    <3>1. NewStage(0) \in StageType
      BY DEF NewStage, StageType
    <3> QED BY <1>20, <3>1, Zenon DEF Restore, NoBackup
  <2>3. \A u \in DOMAIN taking' : FALSE
    BY <1>20 DEF Restore
  <2> QED BY <1>20, <2>1, <2>2, <2>3, IdleTyped DEF Restore, TypeInv
<1> QED BY SMTT(30), <1>1, <1>2, <1>3, <1>4, <1>5, <1>6, <1>7, <1>8, <1>9, <1>10, <1>11, <1>12, <1>13,
           <1>14, <1>15, <1>16, <1>17, <1>18, <1>19, <1>20 DEF Next, Pass

(***************************************************************************)
(* The chain.  A pass that has listed the records knows all the registry   *)
(* holds, so what it appends extends a chain without twins or broken links.*)
(***************************************************************************)
Listed == pass.at \in {"ready", "item", "advance", "name", "release"}

ChainInv ==
  /\ ChainHolds
  /\ Listed => Present \subseteq pass.recs /\ ~Conflict(pass.recs, NoRecord)

\* A step that pushes nothing and whose pass, if it goes on with a list of
\* records, goes on with the same one.
LEMMA ChainKept ==
  ASSUME ChainInv, registry' = registry, lost \subseteq lost',
         Listed' => Listed /\ pass'.recs = pass.recs
  PROVE  ChainInv'
<1>1. Present' \subseteq Present
  BY DEF Present
<1>2. ChainHolds'
  BY <1>1 DEF ChainInv, ChainHolds, Conflict
<1>3. ASSUME Listed' PROVE (Present \subseteq pass.recs /\ ~Conflict(pass.recs, NoRecord))'
  BY <1>1, <1>3 DEF ChainInv, Conflict
<1> QED BY <1>2, <1>3 DEF ChainInv

LEMMA ChainStep ==
  ASSUME TypeInv, ChainInv, Next
  PROVE  ChainInv'
\* A record after all the others, whose parent is the last of them, makes
\* neither a twin nor a broken link.
<1>ChainExtended.
  ASSUME NEW new, NEW R, NEW n,
         \A i \in R \cup {n} : new[i].seq \in Nat,
         \A i \in R : new[i].seq < new[n].seq,
         \A i, j \in R : /\ i # j => new[i].seq # new[j].seq
                         /\ new[j].seq = new[i].seq + 1 => new[j].parent = i,
         \A i \in R : new[n].seq = new[i].seq + 1 => new[n].parent = i
  PROVE  \A i, j \in R \cup {n} :
           /\ i # j => new[i].seq # new[j].seq
           /\ new[j].seq = new[i].seq + 1 => new[j].parent = i
  <2> USE <1>ChainExtended
  <2> SUFFICES ASSUME NEW i \in R \cup {n}, NEW j \in R \cup {n}
               PROVE  /\ i # j => new[i].seq # new[j].seq
                      /\ new[j].seq = new[i].seq + 1 => new[j].parent = i
    OBVIOUS
  <2>1. CASE i \in R /\ j \in R
    BY <2>1
  <2>2. CASE i \in R /\ j = n
    BY <2>2
  <2>3. CASE i = n /\ j \in R
    BY <2>3
  <2>4. CASE i = n /\ j = n
    BY <2>4
  <2> QED BY <2>1, <2>2, <2>3, <2>4

\* A pushed record extends the chain of those the pass knows.
<1>PushExtends.
  ASSUME TypeInv, NEW it \in ItemType, ~Conflict(pass.recs, NoRecord),
         NEW n, n \notin pass.recs, registry'[n] = RecordOf(it),
         \A i \in pass.recs : registry'[i] = registry[i],
         NEW S, S = pass.recs \cup {n}
  PROVE  ~Conflict(S, NoRecord)'
  <2> USE <1>PushExtends
  <2> DEFINE R == pass.recs
             r == RecordOf(it)
  <2>1. /\ \A i \in R : registry'[i] = registry[i] /\ registry[i].seq \in Nat
        /\ registry'[n] = r
    BY RegistryFacts DEF TypeInv
  <2>2. /\ r.seq \in Nat
        /\ \A i \in R : registry[i].seq < r.seq
        /\ \A i \in R : r.seq = registry[i].seq + 1 => registry[r.parent].seq = registry[i].seq
        /\ R # {} => r.parent \in R
    BY RecordTyped, LinkIsNext DEF TypeInv
  <2>3. \A i, j \in R : /\ i # j => registry[i].seq # registry[j].seq
                        /\ registry[j].seq = registry[i].seq + 1 => registry[j].parent = i
    BY DEF Conflict
  <2>4. \A i \in R : r.seq = registry[i].seq + 1 => r.parent = i
    BY <2>2, <2>3
  <2>5. \A i, j \in R \cup {n} :
          /\ i # j => registry'[i].seq # registry'[j].seq
          /\ registry'[j].seq = registry'[i].seq + 1 => registry'[j].parent = i
    <3>1. \A i \in R \cup {n} : registry'[i].seq \in Nat
      BY <2>1, <2>2
    <3>2. \A i \in R : registry'[i].seq < registry'[n].seq
      BY <2>1, <2>2
    <3>3. \A i, j \in R :
            /\ i # j => registry'[i].seq # registry'[j].seq
            /\ registry'[j].seq = registry'[i].seq + 1 => registry'[j].parent = i
      BY <2>1, <2>3
    <3>4. \A i \in R : registry'[n].seq = registry'[i].seq + 1 => registry'[n].parent = i
      BY <2>1, <2>4
    <3> QED BY <3>1, <3>2, <3>3, <3>4, <1>ChainExtended
  <2> QED BY <2>5 DEF Conflict
<1>1. CASE \E u \in Operations : Take(u) \/ TakeAgain(u) \/ Write(u) \/ Lose(u)
                                 \/ Strip(u) \/ Delete(u)
  <2>1. UNCHANGED <<registry, lost, pass>>
    BY <1>1 DEF Take, TakeAgain, Write, Lose, Strip, Delete, rest
  <2> QED BY <2>1, ChainKept DEF Listed
<1>2. CASE GraceEnds \/ Recreate \/ Backup \/ \E i \in Present : LoseRecord(i)
  <2>1. UNCHANGED <<registry, pass>> /\ lost \subseteq lost'
    BY <1>2 DEF GraceEnds, Recreate, Backup, LoseRecord, rest
  <2> QED BY <2>1, ChainKept DEF Listed
<1>3. CASE ReadStage \/ ListOperations \/ EndPass \/ GiveUp \/ LosePass \/ Restore
  <2>1. UNCHANGED <<registry, lost>>
    BY <1>3 DEF ReadStage, ListOperations, EndPass, GiveUp, LosePass, Restore, rest
  <2>2. pass' = Idle \/ pass'.at \in {"operations", "records"}
    BY <1>3, IdleTyped, Zenon
       DEF ReadStage, ListOperations, EndPass, GiveUp, LosePass, Restore, PassType, TypeInv
  <2>3. ~Listed'
    BY <2>2 DEF Listed, Idle
  <2> QED BY <2>1, <2>3, ChainKept
<1>4. CASE ListRecords
  <2>1. UNCHANGED <<registry, lost>> /\ pass'.recs = Present
    BY <1>4 DEF ListRecords, rest, TypeInv, PassType
  <2>2. ~Conflict(Present, NoRecord)
    BY DEF ChainInv, ChainHolds
  <2>3. Present' = Present
    BY <2>1 DEF Present
  <2> QED BY <2>1, <2>2, <2>3 DEF ChainInv, ChainHolds, Conflict
<1>5. CASE MarkReady \/ Advance \/ NameRecord \/ Release
  <2>1. UNCHANGED <<registry, lost>> /\ Listed
    BY <1>5 DEF MarkReady, Advance, NameRecord, Release, rest, Listed
  <2>2. pass'.recs = pass.recs
    BY <1>5, Zenon DEF MarkReady, Advance, NameRecord, Release, TypeInv, PassType
  <2> QED BY <2>1, <2>2, ChainKept
<1>6. CASE RecordItem
  <2>1. PICK it \in pass.items, rec \in Nat :
          /\ it \in ItemType /\ pass' = Goes(it, rec)
          /\ \/ rec \in Adopted(it) /\ registry' = registry
             \/ /\ registry' = Append(registry, RecordOf(it))
                /\ rec = Len(registry) + 1
    BY <1>6, ItemRecorded
  <2>2. lost' = lost /\ Listed /\ pass'.recs = pass.recs \cup {rec}
    BY <1>6, <2>1, GoesTyped DEF RecordItem, rest, Listed
  <2>3. CASE rec \in Adopted(it) /\ registry' = registry
    BY <2>2, <2>3, ChainKept DEF Adopted
  <2>4. CASE registry' = Append(registry, RecordOf(it)) /\ rec = Len(registry) + 1
    <3>1. PICK S : S = pass.recs \cup {Len(registry) + 1}
      BY Zenon
    <3>2. ~Conflict(S, NoRecord)'
      <4>1. /\ \A i \in pass.recs : registry'[i] = registry[i]
            /\ registry'[rec] = RecordOf(it) /\ rec \notin pass.recs
        BY <2>1, <2>4, Pushed DEF TypeInv
      <4> QED BY <2>1, <2>2, <2>4, <3>1, <4>1, <1>PushExtends, Zenon DEF ChainInv
    <3>3. pass'.recs = S
      BY <2>2, <2>4, <3>1
    <3>4. Present' \subseteq Present \cup {Len(registry) + 1}
      BY <2>1, <2>2, <2>4, Pushed, RegistryFacts DEF Present
    <3>5. Present' \subseteq pass'.recs
      BY <2>2, <3>1, <3>3, <3>4 DEF ChainInv
    <3>6. ~Conflict(pass.recs, NoRecord)'
      BY <3>2, <3>3 DEF Conflict
    <3>7. ~Conflict(Present, NoRecord)'
      BY <3>5, <3>6 DEF Conflict
    <3> QED BY <3>5, <3>6, <3>7 DEF ChainInv, ChainHolds
  <2> QED BY <2>1, <2>3, <2>4
<1> QED BY <1>1, <1>2, <1>3, <1>4, <1>5, <1>6 DEF Next, Pass

LEMMA InitHolds ==
  ASSUME Init
  PROVE  TypeInv /\ ChainInv
<1>1. stage \in StageType /\ NewStage(0) \in StageType
  BY DEF Init, NewStage, StageType, NoRecord
<1>2. ops \in [Operations -> OpType]
  BY DEF Init, NewOperation, OpType, NoRecord
<1>3. registry \in Seq(RecordType) /\ registry = <<>> /\ DOMAIN registry = {}
  BY DEF Init
<1>4. DOMAIN taking = {}
  BY DEF Init
<1>5. TypeInv
  BY <1>1, <1>2, <1>3, <1>4, IdleTyped DEF Init, TypeInv, NoBackup
<1>6. Present = {} /\ ~Listed
  BY <1>3 DEF Present, Listed, Init, Idle
<1> QED BY <1>5, <1>6 DEF ChainInv, ChainHolds, Conflict

\* The records the registry holds form one chain without twins and without
\* broken links, whatever is lost, recreated or restored.
THEOREM ChainNeverForks == Spec => []ChainHolds
<1>1. Init => TypeInv /\ ChainInv
  BY InitHolds
<1>2. TypeInv /\ ChainInv /\ [Next]_vars => (TypeInv /\ ChainInv)'
  <2>1. ASSUME TypeInv, ChainInv, UNCHANGED vars
        PROVE  TypeInv' /\ ChainInv'
    <3>1. TypeInv'
      BY <2>1 DEF TypeInv, vars
    <3>2. ChainInv'
      BY <2>1, ChainKept DEF vars, Listed
    <3> QED BY <3>1, <3>2
  <2> QED BY <2>1, TypeStep, ChainStep
<1>3. ChainInv => ChainHolds
  BY DEF ChainInv
<1> QED BY <1>1, <1>2, <1>3, PTL DEF Spec

(***************************************************************************)
(* One record of each conclusion and of each gap.  A pass pushes only what *)
(* it does not find among the records it knows, which are all there are.   *)
(***************************************************************************)
SameThing(r, s) ==
  /\ r.gap = s.gap /\ r.uid = s.uid /\ r.finished = s.finished
  /\ r.gap => r.number = s.number /\ r.stageUID = s.stageUID

\* What a step does to the registry: nothing, or it appends the record of an
\* item that the pass did not find.
LEMMA RegistryGrows ==
  ASSUME TypeInv, [Next]_vars
  PROVE  \/ registry' = registry
         \/ \E it \in pass.items :
              /\ RecordItem /\ it \in ItemType /\ Adopted(it) = {} /\ ~Waits(it)
              /\ registry' = Append(registry, RecordOf(it))
<1>1. CASE RecordItem
  <2>1. PICK it \in First(pass.items) : ~Waits(it) /\ (Adopt(it) \/ Push(it))
    BY <1>1 DEF RecordItem
  <2>2. it \in pass.items /\ it \in ItemType
    BY DEF First, TypeInv, PassType
  <2> QED BY <1>1, <2>1, <2>2 DEF Adopt, Push
<1>2. CASE ~RecordItem
  BY <1>2, Zenon DEF Next, vars, Pass, Take, TakeAgain, Write, Lose, Strip, Delete, ReadStage,
     ListOperations, ListRecords, MarkReady, EndPass, Advance, NameRecord, Release, GiveUp,
     LosePass, GraceEnds, LoseRecord, Recreate, Backup, Restore
<1> QED BY <1>1, <1>2

LEMMA OnceStep ==
  ASSUME TypeInv, ChainInv, RecordedOnce, [Next]_vars
  PROVE  RecordedOnce'
\* The registry's losses are for good.
<1>LostStays.
  ASSUME [Next]_vars
  PROVE  lost \subseteq lost'
  <2> USE <1>LostStays
  <2>1. CASE \E i \in Present : LoseRecord(i)
    BY <2>1 DEF LoseRecord
  <2>2. CASE ~\E i \in Present : LoseRecord(i)
    <3>1. lost' = lost
      BY <2>2, Zenon DEF Next, vars, rest, Pass, Take, TakeAgain, Write, Lose, Strip, Delete,
         ReadStage, ListOperations, ListRecords, MarkReady, RecordItem, EndPass, Advance,
         NameRecord, Release, GiveUp, LosePass, GraceEnds, Recreate, Backup, Restore
    <3> QED BY <3>1
  <2> QED BY <2>1, <2>2

\* What the pass did not find is none of the records it knows.
<1>NotFound.
  ASSUME TypeInv, NEW it \in ItemType, Adopted(it) = {}, NEW i \in pass.recs
  PROVE  ~SameThing(registry[i], RecordOf(it)) /\ ~SameThing(RecordOf(it), registry[i])
  <2> USE <1>NotFound
  <2>1. /\ RecordOf(it).gap = (it.uid = NoUid) /\ RecordOf(it).uid = it.uid
        /\ RecordOf(it).finished = it.op.finished /\ RecordOf(it).number = it.seq
        /\ it.uid = NoUid => RecordOf(it).stageUID = pass.uid
    BY Zenon DEF RecordOf
  <2>2. i \notin Adopted(it)
    OBVIOUS
  <2>3. registry[i] \in RecordType
    BY RegistryFacts DEF TypeInv
  <2>4. registry[i].gap \in BOOLEAN
    BY <2>3 DEF RecordType
  <2> QED BY <2>1, <2>2, <2>4 DEF Adopted, SameThing
<1>1. \A i, j \in Present : SameThing(registry[i], registry[j]) => i = j
  BY DEF RecordedOnce, SameThing
<1>2. lost \subseteq lost'
  BY <1>LostStays
<1>3. \A i, j \in Present' : SameThing(registry'[i], registry'[j]) => i = j
  <2>1. CASE registry' = registry
    BY <1>1, <1>2, <2>1 DEF Present
  <2>2. ASSUME NEW it \in pass.items, RecordItem, it \in ItemType, Adopted(it) = {},
               registry' = Append(registry, RecordOf(it))
        PROVE  \A i, j \in Present' : SameThing(registry'[i], registry'[j]) => i = j
    <3> DEFINE n == Len(registry) + 1
    <3>1. /\ DOMAIN registry' = 1 .. n /\ DOMAIN registry = 1 .. n - 1 /\ n \in Nat
          /\ \A i \in DOMAIN registry : registry'[i] = registry[i]
          /\ registry'[n] = RecordOf(it)
      BY <2>2, Pushed, RegistryFacts
    <3>2. Present \subseteq pass.recs
      BY <2>2 DEF ChainInv, Listed, RecordItem
    <3> HIDE DEF n
    <3>3. \A i \in Present' : i = n \/ (i \in Present /\ registry'[i] = registry[i])
      BY <1>2, <3>1 DEF Present
    <3>4. \A i \in Present : /\ ~SameThing(registry[i], RecordOf(it))
                             /\ ~SameThing(RecordOf(it), registry[i])
      BY <2>2, <3>2, <1>NotFound
    <3> QED BY <1>1, <3>1, <3>3, <3>4, Zenon
  <2> QED BY <2>1, <2>2, RegistryGrows
<1> QED BY <1>3 DEF RecordedOnce, SameThing

\* Of the records the registry holds no two are of one conclusion, or of one
\* gap of one Stage, for any number of lost passes between a push and the swap.
THEOREM NothingRecordedTwice == Spec => []RecordedOnce
<1> DEFINE Inv == TypeInv /\ ChainInv /\ RecordedOnce
<1>1. Init => Inv
  <2>1. Init => RecordedOnce
    BY DEF Init, RecordedOnce, Present
  <2> QED BY <2>1, InitHolds
<1>2. Inv /\ [Next]_vars => Inv'
  <2>1. ASSUME Inv, UNCHANGED vars
        PROVE  TypeInv' /\ ChainInv'
    BY <2>1, ChainKept DEF TypeInv, vars, Listed
  <2> QED BY <2>1, TypeStep, ChainStep, OnceStep
<1> QED BY <1>1, <1>2, PTL DEF Spec

(***************************************************************************)
(* The head.  A pass that has listed the records knows the head the Stage  *)
(* names, and before that it has read it: nobody else moves it.            *)
(***************************************************************************)
HeadInv ==
  /\ pass.at \in {"operations", "records"} => stage.head \in {NoRecord, pass.stage.head}
  /\ Listed => stage.head = NoRecord \/ stage.head \in pass.recs

\* The head a Stage names moves only to a later record of the chain.
THEOREM HeadOnlyForward == Spec => HeadFastForwards
<1>HeadKept.
  ASSUME HeadInv, stage'.head \in {NoRecord, stage.head},
         pass'.at \in {"operations", "records"}
           => pass.at \in {"operations", "records"} /\ pass'.stage = pass.stage,
         Listed' => Listed /\ pass.recs \subseteq pass'.recs
  PROVE  HeadInv'
  BY <1>HeadKept DEF HeadInv
<1>HeadStep.
  ASSUME TypeInv, HeadInv, Next
  PROVE  HeadInv'
  <2> USE <1>HeadStep
  <2>1. CASE \E u \in Operations : Take(u) \/ TakeAgain(u) \/ Write(u) \/ Lose(u)
                                   \/ Strip(u) \/ Delete(u)
    <3>1. pass' = pass /\ stage'.head = stage.head
      BY <2>1 DEF Take, TakeAgain, Write, Lose, Strip, Delete, rest, TypeInv, StageType
    <3> QED BY <3>1, <1>HeadKept DEF Listed
  <2>2. CASE GraceEnds \/ Recreate \/ Backup \/ \E i \in Present : LoseRecord(i)
    <3>1. pass' = pass /\ stage'.head \in {NoRecord, stage.head}
      BY <2>2 DEF GraceEnds, Recreate, Backup, LoseRecord, NewStage
    <3> QED BY <3>1, <1>HeadKept DEF Listed
  <2>3. CASE EndPass \/ GiveUp \/ LosePass \/ Restore
    <3>1. pass' = Idle
      BY <2>3 DEF EndPass, GiveUp, LosePass, Restore
    <3> QED BY <3>1 DEF HeadInv, Listed, Idle
  <2>4. CASE ReadStage
    <3>1. pass'.at = "operations" /\ pass'.stage = stage /\ stage' = stage
      BY <2>4, IdleTyped DEF ReadStage, PassType
    <3> QED BY <3>1 DEF HeadInv, Listed
  <2>5. CASE ListOperations
    <3>1. stage' = stage /\ pass.at = "operations"
      BY <2>5 DEF ListOperations
    <3>2. pass' = Idle \/ (pass'.at = "records" /\ pass'.stage = pass.stage)
      BY <2>5 DEF ListOperations, TypeInv, PassType
    <3> QED BY <3>1, <3>2 DEF HeadInv, Listed, Idle
  <2>6. CASE ListRecords
    <3>1. pass'.at \in {"item", "ready"} /\ pass'.recs = Present /\ stage' = stage
      BY <2>6 DEF ListRecords, TypeInv, PassType
    <3>2. pass.stage.head = NoRecord \/ pass.stage.head \in Present
      BY <2>6 DEF ListRecords, Extendable, Conflict
    <3>3. stage.head \in {NoRecord, pass.stage.head}
      BY <2>6 DEF ListRecords, HeadInv
    <3> QED BY <3>1, <3>2, <3>3 DEF HeadInv, Listed
  <2>7. CASE MarkReady \/ NameRecord \/ Release
    <3>1. stage'.head = stage.head /\ Listed
      BY <2>7 DEF MarkReady, NameRecord, Release, TypeInv, StageType, Listed
    <3>2. pass'.recs = pass.recs /\ pass'.at \in {"item", "release"}
      BY <2>7, Zenon DEF MarkReady, NameRecord, Release, TypeInv, PassType
    <3> QED BY <3>1, <3>2, <1>HeadKept
  <2>8. CASE RecordItem
    <3>1. PICK it \in pass.items, rec \in Nat : it \in ItemType /\ pass' = Goes(it, rec)
      BY <2>8, ItemRecorded
    <3>2. pass'.recs = pass.recs \cup {rec} /\ pass'.at \in {"name", "advance"}
      BY <3>1, GoesTyped DEF Recorded
    <3>3. stage' = stage /\ Listed
      BY <2>8 DEF RecordItem, Listed
    <3> QED BY <3>2, <3>3, <1>HeadKept
  <2>9. CASE Advance
    <3>1. stage'.head = Newest(pass.recs)
      BY <2>9 DEF Advance, TypeInv, StageType
    <3>2. pass'.recs = pass.recs /\ pass'.at \in {"item", "name"}
      BY <2>9 DEF Advance, TypeInv, PassType
    <3>3. Newest(pass.recs) = NoRecord \/ Newest(pass.recs) \in pass.recs
      <4>1. CASE pass.recs = {}
        BY <4>1 DEF Newest
      <4>2. CASE pass.recs # {}
        BY <4>2, NewestIsLast DEF TypeInv
      <4> QED BY <4>1, <4>2
    <3> QED BY <3>1, <3>2, <3>3 DEF HeadInv, Listed
  <2> QED BY <2>1, <2>2, <2>3, <2>4, <2>5, <2>6, <2>7, <2>8, <2>9 DEF Next, Pass

\* Only the swap after a record, a recreation and a restore move the head.
<1>HeadMoves.
  ASSUME TypeInv, ChainInv, HeadInv, [Next]_vars,
         stage'.uid = stage.uid, backup' = backup, stage'.head # stage.head,
         stage.head # NoRecord
  PROVE  registry[stage.head].seq < registry[stage'.head].seq
  <2> USE <1>HeadMoves
  <2>1. stage \in StageType /\ stage.uid \in Nat
    BY DEF TypeInv, StageType
  <2>2. ~Restore
    BY DEF Restore, NoBackup, TypeInv
  <2>3. ~Recreate
    BY <2>1 DEF Recreate, NewStage
  <2>4. CASE Advance
    <3>1. stage'.head = Newest(pass.recs)
      BY <2>1, <2>4 DEF Advance, StageType
    <3>2. stage.head \in pass.recs
      BY <2>4 DEF Advance, HeadInv, Listed
    <3>3. /\ Newest(pass.recs) \in pass.recs
          /\ registry[stage.head].seq <= registry[Newest(pass.recs)].seq
      BY <3>2, NewestIsLast DEF TypeInv
    <3>4. registry[stage.head].seq # registry[stage'.head].seq
      BY <2>4, <3>1, <3>2, <3>3 DEF ChainInv, Listed, Advance, Conflict
    <3>5. registry[stage.head].seq \in Nat /\ registry[stage'.head].seq \in Nat
      BY <3>1, <3>2, <3>3, RegistryFacts DEF TypeInv
    <3> QED BY <3>1, <3>3, <3>4, <3>5
  <2>5. ASSUME NEW u \in Operations,
               Take(u) \/ TakeAgain(u) \/ Write(u) \/ Lose(u) \/ Strip(u) \/ Delete(u)
        PROVE  FALSE
    BY <2>1, <2>5 DEF Take, TakeAgain, Write, Lose, Strip, Delete, StageType
  <2>6. CASE (Pass /\ ~Advance) \/ LosePass
    <3>1. CASE ReadStage \/ ListOperations \/ ListRecords \/ RecordItem \/ EndPass
               \/ NameRecord \/ Release
      BY <3>1 DEF ReadStage, ListOperations, ListRecords, RecordItem, EndPass, NameRecord, Release
    <3>2. CASE MarkReady \/ GiveUp
      BY <2>1, <3>2 DEF MarkReady, GiveUp, StageType
    <3>3. CASE LosePass
      BY <2>1, <3>3 DEF LosePass, StageType
    <3> QED BY <2>6, <3>1, <3>2, <3>3 DEF Pass
  <2>7. CASE GraceEnds \/ Backup \/ (\E i \in Present : LoseRecord(i)) \/ UNCHANGED vars
    BY <2>7 DEF GraceEnds, Backup, LoseRecord, vars
  <2> QED BY <2>2, <2>3, <2>4, <2>5, <2>6, <2>7 DEF Next
<1> DEFINE Inv == TypeInv /\ ChainInv /\ HeadInv
<1>1. Init => Inv
  <2>1. Init => HeadInv
    BY DEF HeadInv, Listed, Init, Idle
  <2> QED BY <2>1, InitHolds
<1>2. Inv /\ [Next]_vars => Inv'
  <2>1. ASSUME Inv, UNCHANGED vars
        PROVE  Inv'
    <3>1. TypeInv'
      BY <2>1 DEF TypeInv, vars
    <3>2. ChainInv'
      BY <2>1, ChainKept DEF vars, Listed
    <3>3. HeadInv'
      BY <2>1, <1>HeadKept DEF vars, Listed
    <3> QED BY <3>1, <3>2, <3>3
  <2> QED BY <2>1, TypeStep, ChainStep, <1>HeadStep
<1>3. Inv /\ [Next]_vars
      => [/\ stage'.uid = stage.uid /\ backup' = backup /\ stage'.head # stage.head
          => \/ stage.head = NoRecord
             \/ registry[stage.head].seq < registry[stage'.head].seq]_vars
  BY <1>HeadMoves
<1> QED BY <1>1, <1>2, <1>3, PTL DEF Spec, HeadFastForwards

(***************************************************************************)
(* Letting go.  The record of a conclusion is known by the Operation and   *)
(* the time it finished; an Operation is released as the pass listed it,   *)
(* and one that was released has concluded and concludes no more.          *)
(***************************************************************************)
RecordedOp(u, op) ==
  \E i \in DOMAIN registry : registry[i].uid = u /\ registry[i].finished = op.finished

Safe(u, op) == op.finalizer \/ op.stripped \/ (op.seq > 0 /\ RecordedOp(u, op))

\* An item of a pass is a concluded Operation, or a number without one.
Proper(it) ==
  /\ it.uid # NoUid => it.uid \in Operations /\ it.op.seq > 0
  /\ it.leftover => it.uid # NoUid

ReleaseInv ==
  /\ \A u \in Operations : Safe(u, ops[u])
  /\ backup.ops # <<>> => \A u \in Operations : Safe(u, backup.ops[u])
  /\ \A u \in DOMAIN taking : ops[u].seq = 0
  /\ \A it \in pass.items : Proper(it)
  /\ pass.at \in {"advance", "name", "release"} =>
       /\ Proper(pass.item)
       /\ pass.item.uid # NoUid => /\ pass.rec \in DOMAIN registry
                                   /\ registry[pass.rec].uid = pass.item.uid
                                   /\ registry[pass.rec].finished = pass.item.op.finished
  /\ pass.at \in {"name", "release"} => pass.item.uid # NoUid

\* What the registry recorded stays recorded.
LEMMA StaysRecorded ==
  ASSUME TypeInv, Next
  PROVE  /\ DOMAIN registry \subseteq DOMAIN registry'
         /\ \A i \in DOMAIN registry : registry'[i] = registry[i]
<1>1. CASE RecordItem
  <2>1. PICK it \in pass.items, rec \in Nat :
          /\ it \in ItemType
          /\ registry' = registry \/ registry' = Append(registry, RecordOf(it))
    BY <1>1, ItemRecorded
  <2> QED BY <2>1, Pushed
<1>2. CASE ~RecordItem
  <2>1. registry' = registry
    BY <1>2, Zenon DEF Next, Pass, Take, TakeAgain, Write, Lose, Strip, Delete, ReadStage,
                ListOperations, ListRecords, MarkReady, EndPass, Advance, NameRecord, Release,
                GiveUp, LosePass, GraceEnds, LoseRecord, Recreate, Backup, Restore
  <2> QED BY <2>1
<1> QED BY <1>1, <1>2

LEMMA ReleaseStep ==
  ASSUME TypeInv, ReleaseInv, Next
  PROVE  ReleaseInv'
<1>StaysSafe.
  ASSUME TypeInv, Next, NEW u, NEW op, Safe(u, op)
  PROVE  Safe(u, op)'
  <2> USE <1>StaysSafe
  <2>1. RecordedOp(u, op) => RecordedOp(u, op)'
    BY StaysRecorded DEF RecordedOp
  <2> QED BY <2>1 DEF Safe

\* A step that leaves the pass alone, or ends it.
<1>PassKept.
  ASSUME TypeInv, Next, ReleaseInv, pass' = pass \/ pass' = Idle,
         \A u \in Operations : Safe(u, ops[u])',
         backup'.ops \in {<<>>, backup.ops, ops},
         \A u \in DOMAIN taking' : ops'[u].seq = 0
  PROVE  ReleaseInv'
  <2> USE <1>PassKept
  <2>1. backup'.ops # <<>> => \A u \in Operations : Safe(u, backup.ops[u])'
    <3>1. \A u \in Operations : Safe(u, ops[u]) /\ (backup.ops # <<>> => Safe(u, backup.ops[u]))
      BY Zenon DEF ReleaseInv
    <3>2. ASSUME NEW u \in Operations, NEW op, Safe(u, op)
          PROVE  Safe(u, op)'
      BY <3>2, <1>StaysSafe
    <3>3. ASSUME backup'.ops # <<>>, NEW u \in Operations
          PROVE  Safe(u, backup.ops[u])'
      <4>1. PICK op : op = backup'.ops[u]
        OBVIOUS
      <4>2. Safe(u, op)
        BY <3>1, <3>3, <4>1
      <4>3. Safe(u, op)'
        BY <3>2, <4>2
      <4> QED BY <4>1, <4>3 DEF Safe, RecordedOp
    <3> QED BY <3>3
  <2>2. CASE pass' = Idle
    BY <2>1, <2>2, Zenon DEF ReleaseInv, Idle
  <2>3. CASE pass' = pass
    <3>1. pass'.at \in {"advance", "name", "release"} /\ pass'.item.uid # NoUid
          => /\ pass'.rec \in DOMAIN registry'
             /\ registry'[pass'.rec].uid = pass'.item.uid
             /\ registry'[pass'.rec].finished = pass'.item.op.finished
      BY <2>3, StaysRecorded, Zenon DEF ReleaseInv
    <3> QED BY <2>1, <2>3, <3>1, Zenon DEF ReleaseInv, Proper
  <2> QED BY <2>2, <2>3

\* The Operations a step does not touch stay as safe as they were.
<1>OpsStaySafe.
  ASSUME TypeInv, Next, ReleaseInv, ops' = ops
  PROVE  \A u \in Operations : Safe(u, ops[u])'
  <2> USE <1>OpsStaySafe
  <2> SUFFICES ASSUME NEW u \in Operations
               PROVE  Safe(u, ops[u])'
    OBVIOUS
  <2>1. PICK op : op = ops[u]
    OBVIOUS
  <2>2. Safe(u, op)'
    BY <2>1, <1>StaysSafe DEF ReleaseInv
  <2> QED BY <2>1, <2>2 DEF Safe, RecordedOp

\* So do those of a backup nobody takes or restores.
<1>BackupStaysSafe.
  ASSUME TypeInv, Next, ReleaseInv, backup' = backup
  PROVE  backup'.ops # <<>> => \A u \in Operations : Safe(u, backup.ops[u])'
  <2> USE <1>BackupStaysSafe
  <2> SUFFICES ASSUME backup.ops # <<>>, NEW u \in Operations
               PROVE  Safe(u, backup.ops[u])'
    OBVIOUS
  <2>1. PICK op : op = backup.ops[u]
    OBVIOUS
  <2>2. Safe(u, op)'
    BY <2>1, <1>StaysSafe DEF ReleaseInv
  <2> QED BY <2>1, <2>2 DEF Safe, RecordedOp

\* One Operation changes: it is enough that it is safe after the step.
<1>OneOpChanges.
  ASSUME TypeInv, Next, ReleaseInv, NEW w \in Operations, NEW op,
         ops' = [ops EXCEPT ![w] = op], Safe(w, op)'
  PROVE  \A u \in Operations : Safe(u, ops[u])'
  <2> USE <1>OneOpChanges
  <2> SUFFICES ASSUME NEW u \in Operations
               PROVE  Safe(u, ops[u])'
    OBVIOUS
  <2>1. ops \in [Operations -> OpType]
    BY DEF TypeInv
  <2>2. CASE u = w
    BY <2>1, <2>2 DEF Safe, RecordedOp
  <2>3. CASE u # w
    <3>1. PICK x : x = ops[u]
      OBVIOUS
    <3>2. Safe(u, x)'
      BY <3>1, <1>StaysSafe DEF ReleaseInv
    <3>3. ops'[u] = x
      BY <2>1, <2>3, <3>1
    <3> QED BY <3>2, <3>3 DEF Safe, RecordedOp
  <2> QED BY <2>2, <2>3
<1>PendingProper.
  ASSUME TypeInv, NEW s
  PROVE  \A it \in Pending(s) : Proper(it)
  <2> USE <1>PendingProper
  <2>1. \A u \in Leftovers(s) \cup Owed(s) : u \in Operations /\ ops[u].seq > 0 /\ u # NoUid
    BY OperationsAssumption DEF Leftovers, Owed, Ours, Written, NoUid
  <2>2. \A u \in Leftovers(s) : Proper(Item(ops[u].seq, u, FALSE, TRUE))
    BY <2>1 DEF Proper, Item
  <2>3. \A u \in Owed(s) : Proper(Item(ops[u].seq, u, FALSE, FALSE))
    BY <2>1 DEF Proper, Item
  <2>4. \A n : Proper(Item(n, NoUid, TRUE, FALSE)) /\ Proper(Item(n, NoUid, FALSE, FALSE))
    BY DEF Proper, Item
  <2> QED BY <2>2, <2>3, <2>4, Zenon DEF Pending
<1>0. /\ ops \in [Operations -> OpType] /\ pass \in PassType
      /\ \A u \in Operations : ops[u] \in OpType
  BY DEF TypeInv
<1>1. ASSUME NEW u \in Operations, Take(u) \/ TakeAgain(u)
      PROVE  ReleaseInv'
  <2>1. UNCHANGED <<ops, pass, backup>>
    BY <1>1 DEF Take, TakeAgain, rest
  <2>2. u \notin Written
    BY <1>1 DEF Take, TakeAgain, Promoter!Take, Promoter!TakeAgain
  <2>3. ops[u].seq = 0
    BY <1>0, <2>2 DEF Written, OpType
  <2>4. \A v \in DOMAIN taking' : ops'[v].seq = 0
    BY <1>1, <2>1, <2>3 DEF Take, TakeAgain, With, ReleaseInv
  <2> QED BY <2>1, <2>4, <1>OpsStaySafe, <1>PassKept
<1>2. ASSUME NEW u \in Operations, Write(u)
      PROVE  ReleaseInv'
  <2>1. UNCHANGED <<pass, backup>> /\ ops[u].seq = 0
    BY <1>2 DEF Write, ReleaseInv
  <2>2. ops[u].finalizer \/ ops[u].stripped
    BY <2>1 DEF ReleaseInv, Safe
  <2>3. PICK op : op = [ops[u] EXCEPT !.seq = taking[u].seq, !.stageUID = taking[u].stageUID,
                                      !.finished = clock + 1]
    OBVIOUS
  <2>4. ops' = [ops EXCEPT ![u] = op]
    BY <1>0, <1>2, <2>3, Zenon DEF Write, OpType
  <2>5. op.finalizer \/ op.stripped
    BY <1>0, <2>2, <2>3 DEF OpType
  <2>6. Safe(u, op)'
    BY <2>5 DEF Safe
  <2>7. \A v \in Operations : Safe(v, ops[v])'
    BY <2>4, <2>6, <1>OneOpChanges, Zenon
  <2>8. \A v \in DOMAIN taking' : ops'[v].seq = 0
    BY <1>0, <1>2, <2>4 DEF Write, Without, ReleaseInv, TypeInv
  <2> QED BY <2>1, <2>7, <2>8, <1>PassKept
<1>3. ASSUME NEW u \in Operations, Lose(u)
      PROVE  ReleaseInv'
  <2>1. UNCHANGED <<ops, pass, backup>> /\ \A v \in DOMAIN taking' : ops'[v].seq = 0
    BY <1>3 DEF Lose, Without, ReleaseInv
  <2> QED BY <2>1, <1>OpsStaySafe, <1>PassKept
<1>4. ASSUME NEW u \in Operations, Strip(u)
      PROVE  ReleaseInv'
  <2>1. UNCHANGED <<pass, backup, taking>>
    BY <1>4 DEF Strip
  <2>2. PICK op : op = [ops[u] EXCEPT !.finalizer = FALSE, !.stripped = TRUE]
    OBVIOUS
  <2>3. ops' = [ops EXCEPT ![u] = op] /\ op.stripped /\ op.seq = ops[u].seq
    BY <1>0, <1>4, <2>2, Zenon DEF Strip, OpType
  <2>4. Safe(u, op)'
    BY <2>3 DEF Safe
  <2>5. \A v \in Operations : Safe(v, ops[v])'
    BY <2>3, <2>4, <1>OneOpChanges, Zenon
  <2>6. \A v \in DOMAIN taking' : ops'[v].seq = 0
    BY <1>0, <2>1, <2>3 DEF ReleaseInv, TypeInv
  <2> QED BY <2>1, <2>5, <2>6, <1>PassKept
<1>5. ASSUME NEW u \in Operations, Delete(u)
      PROVE  ReleaseInv'
  <2>1. UNCHANGED <<pass, backup, taking>>
    BY <1>5 DEF Delete, rest
  <2>2. PICK op : op = [ops[u] EXCEPT !.gone = TRUE]
    BY Zenon
  <2>3. /\ ops' = [ops EXCEPT ![u] = op] /\ op.seq = ops[u].seq /\ op.stripped = ops[u].stripped
        /\ op.finalizer = ops[u].finalizer /\ op.finished = ops[u].finished
    BY <1>0, <1>5, <2>2 DEF Delete, OpType
  <2>4. Safe(u, op)
    BY <2>3 DEF ReleaseInv, Safe, RecordedOp
  <2>5. \A v \in Operations : Safe(v, ops[v])'
    BY <2>3, <2>4, <1>StaysSafe, <1>OneOpChanges, Zenon
  <2>6. \A v \in DOMAIN taking' : ops'[v].seq = 0
    BY <1>0, <2>1, <2>3, Zenon DEF ReleaseInv, TypeInv
  <2> QED BY <2>1, <2>5, <2>6, <1>PassKept
<1>6. CASE EndPass \/ GiveUp \/ LosePass \/ GraceEnds \/ Recreate \/ Backup
           \/ \E i \in Present : LoseRecord(i)
  <2>1. UNCHANGED <<ops, taking>> /\ (pass' = pass \/ pass' = Idle)
    BY <1>6 DEF EndPass, GiveUp, LosePass, GraceEnds, Recreate, Backup, LoseRecord
  <2>2. backup'.ops \in {backup.ops, ops}
    BY <1>6 DEF EndPass, GiveUp, LosePass, GraceEnds, Recreate, Backup, LoseRecord, rest
  <2>3. \A u \in DOMAIN taking' : ops'[u].seq = 0
    BY <2>1 DEF ReleaseInv
  <2> QED BY <2>1, <2>2, <2>3, <1>OpsStaySafe, <1>PassKept
<1>7. CASE Restore
  <2>1. pass' = Idle /\ backup'.ops = <<>> /\ DOMAIN taking' = {} /\ ops' = backup.ops
    BY <1>7 DEF Restore, NoBackup
  <2>2. ASSUME NEW u \in Operations
        PROVE  Safe(u, ops[u])'
    <3>1. PICK op : op = backup.ops[u]
      OBVIOUS
    <3>2. Safe(u, op)'
      BY <1>7, <3>1, <1>StaysSafe, SMTT(30) DEF ReleaseInv, Restore
    <3> QED BY <2>1, <3>1, <3>2 DEF Safe, RecordedOp
  <2> QED BY <2>1, <2>2, <1>PassKept
<1>8. CASE ReadStage \/ ListOperations \/ ListRecords \/ MarkReady
  <2>1. UNCHANGED <<ops, taking, backup, registry>>
    BY <1>8 DEF ReadStage, ListOperations, ListRecords, MarkReady, rest
  <2>2. pass' = Idle \/ pass'.at \in {"operations", "records", "ready", "item"}
    BY <1>0, <1>8, IdleTyped, Zenon DEF ReadStage, ListOperations, ListRecords, MarkReady, PassType
  <2>3. \A it \in pass'.items : Proper(it)
    <3>1. CASE ReadStage
      BY <3>1, IdleTyped DEF ReadStage, Idle
    <3>2. CASE ListOperations
      BY <1>0, <3>2, <1>PendingProper DEF ListOperations, Idle, PassType
    <3>3. CASE ListRecords \/ MarkReady
      BY <1>0, <3>3, Zenon DEF ListRecords, MarkReady, PassType, ReleaseInv
    <3> QED BY <1>8, <3>1, <3>2, <3>3
  <2>4. pass'.at \notin {"advance", "name", "release"}
    BY <2>2 DEF Idle
  <2>5. \A u \in Operations : Safe(u, ops[u])'
    BY <2>1, <1>OpsStaySafe
  <2>6. backup'.ops # <<>> => \A u \in Operations : Safe(u, backup.ops[u])'
    BY <2>1, <1>BackupStaysSafe
  <2>7. \A u \in DOMAIN taking' : ops'[u].seq = 0
    BY <2>1, Zenon DEF ReleaseInv
  <2> QED BY <2>3, <2>4, <2>5, <2>6, <2>7, Zenon DEF ReleaseInv, Proper
<1>9. CASE RecordItem
  <2>1. PICK it \in pass.items, rec \in Nat :
          /\ it \in ItemType /\ pass' = Goes(it, rec)
          /\ \/ rec \in Adopted(it) /\ registry' = registry
             \/ /\ registry' = Append(registry, RecordOf(it))
                /\ rec = Len(registry) + 1
    BY <1>9, ItemRecorded
  <2>2. /\ pass'.at = Recorded(it) /\ pass'.items = pass.items \ {it}
        /\ pass'.item = it /\ pass'.rec = rec
    BY <2>1, GoesTyped
  <2>3. Proper(it)
    BY DEF ReleaseInv
  <2>4. it.uid # NoUid => /\ rec \in DOMAIN registry' /\ registry'[rec].uid = it.uid
                          /\ registry'[rec].finished = it.op.finished
    <3>1. CASE rec \in Adopted(it) /\ registry' = registry
      BY <3>1 DEF Adopted, TypeInv
    <3>2. CASE registry' = Append(registry, RecordOf(it)) /\ rec = Len(registry) + 1
      BY <2>1, <3>2, Pushed, RecordTyped, RegistryFacts
    <3> QED BY <2>1, <3>1, <3>2
  <2>5. UNCHANGED <<ops, taking, backup>>
    BY <1>9 DEF RecordItem, rest
  <2>6. \A u \in Operations : Safe(u, ops[u])'
    BY <2>5, <1>OpsStaySafe
  <2>7. backup'.ops # <<>> => \A u \in Operations : Safe(u, backup.ops[u])'
    BY <2>5, <1>BackupStaysSafe
  <2>8. pass'.at = "name" => it.uid # NoUid
    BY <2>2, <2>3 DEF Recorded, Proper
  <2>9. pass'.at # "release"
    BY <2>2 DEF Recorded
  <2> QED BY <2>2, <2>3, <2>4, <2>5, <2>6, <2>7, <2>8, <2>9, Zenon DEF ReleaseInv, Proper
<1>10. CASE Advance
  <2>1. UNCHANGED <<ops, taking, backup, registry>> /\ pass.at = "advance"
    BY <1>10 DEF Advance, rest
  <2>2. /\ pass'.items = pass.items /\ pass'.item = pass.item /\ pass'.rec = pass.rec
        /\ pass'.at = IF pass.item.uid = NoUid THEN "item" ELSE "name"
    BY <1>0, <1>10, SMTT(30) DEF Advance, PassType
  <2>3. \A u \in Operations : Safe(u, ops[u])'
    BY <2>1, <1>OpsStaySafe
  <2>4. backup'.ops # <<>> => \A u \in Operations : Safe(u, backup.ops[u])'
    BY <2>1, <1>BackupStaysSafe
  <2>5. \A u \in DOMAIN taking' : ops'[u].seq = 0
    BY <2>1, Zenon DEF ReleaseInv
  <2> QED BY <2>1, <2>2, <2>3, <2>4, <2>5, Zenon DEF ReleaseInv, Proper
<1>11. CASE NameRecord
  <2>1. PICK op : op = [pass.item.op EXCEPT !.record = pass.rec]
    BY Zenon
  <2>2. /\ pass'.items = pass.items /\ pass'.item.uid = pass.item.uid /\ pass'.item.op = op
        /\ pass'.item.leftover = pass.item.leftover
        /\ pass'.rec = pass.rec /\ pass'.at = "release"
    BY <1>0, <1>11, <2>1 DEF NameRecord, PassType, ItemType
  <2>3. /\ op.finished = pass.item.op.finished /\ op.seq = pass.item.op.seq
        /\ op.finalizer = pass.item.op.finalizer /\ op.stripped = pass.item.op.stripped
    BY <1>0, <2>1 DEF PassType, ItemType, OpType
  <2>4. UNCHANGED <<taking, backup, registry>> /\ pass.at = "name"
    BY <1>11 DEF NameRecord, rest
  <2>5. pass.item.uid \in Operations
    BY <2>4 DEF ReleaseInv, Proper
  <2>6. ops' = ops \/ (ops' = [ops EXCEPT ![pass.item.uid] = op] /\ Current)
    BY <1>11, <2>1 DEF NameRecord
  <2>7. \A u \in Operations : Safe(u, ops[u])'
    <3>1. CASE ops' = ops
      BY <3>1, <1>OpsStaySafe
    <3>2. CASE ops' = [ops EXCEPT ![pass.item.uid] = op] /\ Current
      <4>1. PICK w \in Operations : w = pass.item.uid
        BY <2>5
      <4>2. Safe(w, op)
        <5>1. ops[w] = pass.item.op /\ Safe(w, ops[w])
          BY <3>2, <4>1, Zenon DEF Current, ReleaseInv
        <5> QED BY <2>3, <5>1, Zenon DEF Safe, RecordedOp
      <4> QED BY <3>2, <4>1, <4>2, <1>StaysSafe, <1>OneOpChanges, Zenon
    <3> QED BY <2>6, <3>1, <3>2
  <2>8. \A u \in DOMAIN taking' : ops'[u].seq = 0
    <3>1. \A u \in DOMAIN taking : u \in Operations /\ ops[u].seq = 0
      BY Zenon DEF ReleaseInv, TypeInv
    <3>2. CASE ops' = ops
      BY <2>4, <3>1, <3>2, Zenon
    <3>3. CASE ops' = [ops EXCEPT ![pass.item.uid] = op] /\ Current
      <4>1. op.seq = ops[pass.item.uid].seq
        BY <2>3, <3>3, Zenon DEF Current
      <4> QED BY <1>0, <2>4, <3>1, <3>3, <4>1, Zenon
    <3> QED BY <2>6, <3>2, <3>3
  <2>9. backup'.ops # <<>> => \A u \in Operations : Safe(u, backup.ops[u])'
    BY <2>4, <1>BackupStaysSafe
  <2>10. /\ \A it \in pass'.items : Proper(it)
         /\ Proper(pass'.item)
         /\ pass'.item.uid # NoUid /\ pass'.rec \in DOMAIN registry'
         /\ registry'[pass'.rec].uid = pass'.item.uid
         /\ registry'[pass'.rec].finished = pass'.item.op.finished
    BY <2>2, <2>3, <2>4 DEF ReleaseInv, Proper
  <2> QED BY <2>7, <2>8, <2>9, <2>10, Zenon DEF ReleaseInv, Proper
<1>12. CASE Release
  <2>1. /\ pass'.items = pass.items /\ pass'.at = "item" /\ pass.at = "release"
        /\ UNCHANGED <<taking, backup, registry>>
    BY <1>0, <1>12 DEF Release, rest, PassType
  <2>2. pass.item.uid \in Operations /\ pass.item.op.seq > 0
    BY <2>1, Zenon DEF ReleaseInv, Proper
  <2>3. PICK w \in Operations : w = pass.item.uid
    BY <2>2
  <2>4. PICK op : op = [ops[w] EXCEPT !.finalizer = FALSE]
    BY Zenon
  <2>5. ops' = ops \/ (ops' = [ops EXCEPT ![w] = op] /\ Current)
    BY <1>0, <1>12, <2>3, <2>4 DEF Release, OpType
  <2>6. op.seq = ops[w].seq /\ op.finished = ops[w].finished
    BY <1>0, <2>4 DEF OpType
  <2>7. \A u \in Operations : Safe(u, ops[u])'
    <3>1. CASE ops' = ops
      BY <3>1, <1>OpsStaySafe
    <3>2. CASE ops' = [ops EXCEPT ![w] = op] /\ Current
      <4>1. Safe(w, op)
        <5>1. ops[w] = pass.item.op
          BY <2>3, <3>2, Zenon DEF Current
        <5>2. /\ pass.rec \in DOMAIN registry /\ registry[pass.rec].uid = w
              /\ registry[pass.rec].finished = op.finished
          BY <2>1, <2>3, <2>6, <5>1, Zenon DEF ReleaseInv
        <5>3. RecordedOp(w, op)
          BY <5>2, Zenon DEF RecordedOp
        <5>4. op.seq > 0
          BY <2>2, <2>6, <5>1, Zenon
        <5> QED BY <5>3, <5>4, Zenon DEF Safe
      <4> QED BY <3>2, <4>1, <1>StaysSafe, <1>OneOpChanges, Zenon
    <3> QED BY <2>5, <3>1, <3>2
  <2>8. \A u \in DOMAIN taking' : ops'[u].seq = 0
    BY <1>0, <2>1, <2>5, <2>6, Zenon DEF ReleaseInv, TypeInv
  <2>9. backup'.ops # <<>> => \A u \in Operations : Safe(u, backup.ops[u])'
    BY <2>1, <1>BackupStaysSafe
  <2> QED BY <2>1, <2>7, <2>8, <2>9, Zenon DEF ReleaseInv, Proper
<1> QED BY <1>1, <1>2, <1>3, <1>4, <1>5, <1>6, <1>7, <1>8, <1>9, <1>10, <1>11, <1>12, SMTT(30)
        DEF Next, Pass

LEMMA ReleaseInit == Init => ReleaseInv
<1> SUFFICES ASSUME Init PROVE ReleaseInv
  OBVIOUS
<1>1. /\ ops = [u \in Operations |-> NewOperation] /\ DOMAIN taking = {}
      /\ backup.ops = <<>> /\ pass.items = {} /\ pass.at = "idle"
  BY DEF Init, NoBackup, Idle
<1>2. \A u \in Operations : Safe(u, ops[u])
  BY <1>1 DEF Safe, NewOperation
<1> QED BY <1>1, <1>2 DEF ReleaseInv

LEMMA Unchanged ==
  ASSUME TypeInv, ReleaseInv, UNCHANGED vars
  PROVE  TypeInv' /\ ReleaseInv'
<1>1. TypeInv'
  <2>1. UNCHANGED <<stage, ops, taking, registry, pass, backup, clock>>
    BY Zenon DEF vars
  <2> QED BY <2>1, ZenonT(30) DEF TypeInv
<1>2. ReleaseInv'
  BY Zenon DEF ReleaseInv, Safe, RecordedOp, Proper, vars
<1> QED BY <1>1, <1>2

\* An Operation that was let go and not stripped has its record.
THEOREM LetGoIsRecorded == Spec => []LetGoOnceRecorded
<1>1. Init => TypeInv /\ ReleaseInv
  BY InitHolds, ReleaseInit
<1>2. TypeInv /\ ReleaseInv /\ [Next]_vars => (TypeInv /\ ReleaseInv)'
  BY Unchanged, TypeStep, ReleaseStep
<1>3. ReleaseInv => LetGoOnceRecorded
  BY DEF ReleaseInv, LetGoOnceRecorded, Safe, RecordedOp
<1> QED BY <1>1, <1>2, <1>3, PTL DEF Spec

(***************************************************************************)
(* What a pass records is what its Stage gave.  An Operation's conclusion  *)
(* is known by the Operation and the time it finished: whoever holds a     *)
(* copy of it (the apiserver, a backup, a pass, the registry) holds the    *)
(* same number of the same Stage.                                          *)
(***************************************************************************)
Claim(u, op) == [uid |-> u, finished |-> op.finished, number |-> op.seq,
                 stageUID |-> op.stageUID]

Claimed(c) ==
  \/ \E u \in Operations : ops[u].seq > 0 /\ c = Claim(u, ops[u])
  \/ \E u \in Operations :
       backup.ops # <<>> /\ backup.ops[u].seq > 0 /\ c = Claim(u, backup.ops[u])
  \/ \E it \in pass.items : it.uid # NoUid /\ c = Claim(it.uid, it.op)
  \/ \E i \in DOMAIN registry :
       /\ registry[i].uid # NoUid
       /\ c = [uid |-> registry[i].uid, finished |-> registry[i].finished,
               number |-> registry[i].number, stageUID |-> registry[i].stageUID]

ClaimsAgree ==
  /\ \A c : Claimed(c) => c.finished \in 0 .. clock
  /\ \A c, d : Claimed(c) /\ Claimed(d) /\ c.uid = d.uid /\ c.finished = d.finished => c = d

\* The items of a pass are the conclusions of its Stage, and the leftovers.
ItemsOurs ==
  \A it \in pass.items : it.uid # NoUid =>
    /\ it.seq = it.op.seq
    /\ it.leftover \/ it.op.stageUID = pass.stage.uid

\* A pass works for the Stage it read unless that is recreated under it.
SameStage ==
  torn \/ pass.at = "idle" \/ (pass.uid = stage.uid /\ pass.stage.uid = stage.uid)

\* The record a pass is about to swap in is of this Stage and of this number.
SwapEarned ==
  torn \/ pass.at # "advance" \/
    /\ pass.rec \in DOMAIN registry /\ registry[pass.rec].stageUID = stage.uid
    /\ registry[pass.rec].number = pass.item.seq

Earned(s) ==
  torn \/ s.recordedSeq = 0 \/
    \E i \in DOMAIN registry : registry[i].stageUID = s.uid /\ registry[i].number = s.recordedSeq

EarnedInv ==
  /\ ClaimsAgree /\ ItemsOurs /\ SameStage /\ SwapEarned
  /\ Earned(stage) /\ Earned(backup.stage)

\* A number of the Stage that nobody holds and nobody is going to write.
GapOf(n) == /\ n \in DOMAIN stage.log
            /\ n \in Promoter!Remembered => ~Exists(stage.log[n])

GapInv ==
  /\ pass.at = "idle" => pass.items = {}
  /\ ~torn /\ pass.at = "operations" =>
       /\ Len(pass.stage.log) <= Len(stage.log)
       /\ \A n \in DOMAIN pass.stage.log : stage.log[n] = pass.stage.log[n]
  /\ ~torn => \A it \in pass.items : it.uid = NoUid /\ ~it.wait => GapOf(it.seq)

\* What a step does to an Operation: its conclusion stays, or it concludes, or
\* it goes back to the backup.
LEMMA OpsSteps ==
  ASSUME TypeInv, ReleaseInv, [Next]_vars, NEW u \in Operations
  PROVE  \/ ops'[u].seq = ops[u].seq /\ Claim(u, ops'[u]) = Claim(u, ops[u])
            /\ (ops[u].gone => ops'[u].gone)
         \/ Write(u)
         \/ Restore /\ backup.ops # <<>> /\ ops' = backup.ops
<1>0. ops \in [Operations -> OpType] /\ ops[u] \in OpType /\ pass \in PassType
  BY DEF TypeInv
<1>1. CASE ops' = ops
  BY <1>1, Zenon
<1>2. ASSUME NEW v \in Operations, Write(v)
      PROVE  ops'[u] = ops[u] \/ Write(u)
  BY <1>0, <1>2, Zenon DEF Write
<1>3. ASSUME NEW v \in Operations, Strip(v) \/ Delete(v)
      PROVE  /\ ops'[u].seq = ops[u].seq /\ ops'[u].finished = ops[u].finished
             /\ ops'[u].stageUID = ops[u].stageUID /\ (ops[u].gone => ops'[u].gone)
  <2>1. CASE v = u /\ Strip(v)
    BY <1>0, <2>1, Zenon DEF Strip, OpType
  <2>2. CASE v = u /\ Delete(v)
    BY <1>0, <2>2, Zenon DEF Delete, OpType
  <2>3. CASE v # u
    BY <1>0, <1>3, <2>3, Zenon DEF Strip, Delete
  <2> QED BY <1>3, <2>1, <2>2, <2>3
<1>4. CASE NameRecord
  <2>1. PICK op : op = [pass.item.op EXCEPT !.record = pass.rec]
    BY Zenon
  <2>2. ops' = ops \/ (ops' = [ops EXCEPT ![pass.item.uid] = op] /\ Current)
    BY <1>4, <2>1, Zenon DEF NameRecord
  <2>3. /\ op.seq = pass.item.op.seq /\ op.finished = pass.item.op.finished
        /\ op.stageUID = pass.item.op.stageUID /\ op.gone = pass.item.op.gone
    BY <1>0, <2>1 DEF PassType, ItemType, OpType
  <2>4. /\ ops'[u].seq = ops[u].seq /\ ops'[u].finished = ops[u].finished
        /\ ops'[u].stageUID = ops[u].stageUID /\ ops'[u].gone = ops[u].gone
    <3>1. CASE ops' = ops
      BY <3>1, Zenon
    <3>2. CASE ops' = [ops EXCEPT ![pass.item.uid] = op] /\ Current
      <4>1. CASE u = pass.item.uid
        BY <1>0, <2>3, <3>2, <4>1, Zenon DEF Current
      <4>2. CASE u # pass.item.uid
        BY <1>0, <3>2, <4>2, Zenon
      <4> QED BY <4>1, <4>2
    <3> QED BY <2>2, <3>1, <3>2
  <2> QED BY <2>4, Zenon DEF Claim
<1>5. CASE Release
  <2>1. ops' = ops \/ ops' = [ops EXCEPT ![pass.item.uid].finalizer = FALSE]
    BY <1>5, Zenon DEF Release
  <2>2. /\ ops'[u].seq = ops[u].seq /\ ops'[u].finished = ops[u].finished
        /\ ops'[u].stageUID = ops[u].stageUID /\ ops'[u].gone = ops[u].gone
    <3>1. CASE u = pass.item.uid
      BY <1>0, <2>1, <3>1, Zenon DEF OpType
    <3>2. CASE u # pass.item.uid
      BY <1>0, <2>1, <3>2, Zenon
    <3> QED BY <3>1, <3>2
  <2> QED BY <2>2, Zenon DEF Claim
<1>6. CASE Restore
  BY <1>6, Zenon DEF Restore
<1>7. CASE /\ ~(\E v \in Operations : Write(v) \/ Strip(v) \/ Delete(v))
           /\ ~NameRecord /\ ~Release /\ ~Restore
  <2>1. ops' = ops
    BY <1>7, Zenon DEF Next, vars, rest, Pass, Take, TakeAgain, Lose, ReadStage,
       ListOperations, ListRecords, MarkReady, RecordItem, EndPass, Advance, GiveUp,
       LosePass, GraceEnds, LoseRecord, Recreate, Backup
  <2> QED BY <1>1, <2>1
<1>8. CASE \E v \in Operations : Write(v)
  BY <1>2, <1>8, Zenon
<1>9. CASE \E v \in Operations : Strip(v) \/ Delete(v)
  BY <1>3, <1>9, Zenon DEF Claim
<1> QED BY <1>4, <1>5, <1>6, <1>7, <1>8, <1>9, Zenon

\* What a step does to the items of the pass.
LEMMA ItemsSteps ==
  ASSUME TypeInv, [Next]_vars
  PROVE  \/ pass'.items = {}
         \/ pass'.items \subseteq pass.items /\ pass'.stage = pass.stage
         \/ /\ ListOperations /\ pass'.items = Pending(pass.stage)
            /\ pass'.stage = pass.stage /\ ops' = ops
<1>0. pass \in PassType
  BY DEF TypeInv
<1>1. CASE pass' = pass
  BY <1>1
<1>2. CASE pass' = Idle
  BY <1>2 DEF Idle
<1>3. CASE ReadStage
  BY <1>3, IdleTyped DEF ReadStage, Idle
<1>4. CASE ListOperations
  <2>1. pass' = Idle \/ pass' = [pass EXCEPT !.at = "records", !.items = Pending(pass.stage)]
    BY <1>4, Zenon DEF ListOperations
  <2>2. CASE pass' = [pass EXCEPT !.at = "records", !.items = Pending(pass.stage)]
    BY <1>0, <1>4, <2>2, Zenon DEF ListOperations, PassType
  <2> QED BY <1>2, <2>1, <2>2
<1>5. CASE ListRecords \/ MarkReady \/ Advance \/ NameRecord \/ Release
  BY <1>0, <1>5, Zenon DEF ListRecords, MarkReady, Advance, NameRecord, Release, PassType
<1>6. CASE RecordItem
  <2>1. PICK it \in pass.items, rec \in Nat : it \in ItemType /\ pass' = Goes(it, rec)
    BY <1>6, ItemRecorded
  <2> QED BY <1>0, <2>1, Zenon DEF Goes, PassType
<1>7. CASE EndPass \/ GiveUp \/ LosePass \/ Restore
  BY <1>2, <1>7, Zenon DEF EndPass, GiveUp, LosePass, Restore
<1>8. CASE ~Pass /\ ~LosePass /\ ~Restore
  BY <1>1, <1>8, Zenon DEF Next, vars, rest, Take, TakeAgain, Write, Lose, Strip, Delete,
     GraceEnds, LoseRecord, Recreate, Backup
<1> QED BY <1>3, <1>4, <1>5, <1>6, <1>7, <1>8, Zenon DEF Pass

\* What a step does to the backup.
LEMMA BackupSteps ==
  ASSUME [Next]_vars
  PROVE  \/ backup' = backup
         \/ backup'.ops = ops /\ backup'.stage = stage /\ torn' = torn /\ registry' = registry
         \/ backup'.ops = <<>> /\ backup'.stage = NewStage(0)
<1>1. CASE Backup
  BY <1>1 DEF Backup
<1>2. CASE Restore
  BY <1>2 DEF Restore, NoBackup
<1>3. CASE ~Backup /\ ~Restore
  BY <1>3, Zenon DEF Next, vars, rest, Pass, Take, TakeAgain, Write, Lose, Strip, Delete,
     ReadStage, ListOperations, ListRecords, MarkReady, RecordItem, EndPass, Advance,
     NameRecord, Release, GiveUp, LosePass, GraceEnds, LoseRecord, Recreate
<1> QED BY <1>1, <1>2, <1>3

\* The conclusions a pass lists are those the Operations hold.
LEMMA PendingHeld ==
  ASSUME TypeInv, NEW s, NEW it \in Pending(s), it.uid # NoUid
  PROVE  /\ it.uid \in Operations /\ ops[it.uid].seq > 0 /\ it.op = ops[it.uid]
         /\ it.seq = it.op.seq /\ (it.leftover \/ it.op.stageUID = s.uid)
<1>1. \A u \in Leftovers(s) \cup Owed(s) : u \in Operations /\ ops[u].seq > 0 /\ u # NoUid
  BY OperationsAssumption DEF Leftovers, Owed, Ours, Written, NoUid
<1>2. \A u \in Owed(s) : ops[u].stageUID = s.uid
  BY DEF Owed, Ours
<1>3. CASE \E u \in Leftovers(s) : it = Item(ops[u].seq, u, FALSE, TRUE)
  BY <1>1, <1>3 DEF Item
<1>4. CASE \E u \in Owed(s) : it = Item(ops[u].seq, u, FALSE, FALSE)
  BY <1>1, <1>2, <1>4 DEF Item
<1>5. CASE \E n : it = Item(n, NoUid, TRUE, FALSE) \/ it = Item(n, NoUid, FALSE, FALSE)
  BY <1>5 DEF Item
<1> QED BY <1>3, <1>4, <1>5, Zenon DEF Pending

LEMMA ClaimsStep ==
  ASSUME TypeInv, ReleaseInv, ClaimsAgree, ItemsOurs, [Next]_vars
  PROVE  ClaimsAgree'
\* The record a pass pushes for an Operation says what the pass listed.
<1>PushClaims.
  ASSUME TypeInv, ItemsOurs, NEW it \in pass.items, it.uid # NoUid
  PROVE  /\ RecordOf(it).uid = it.uid /\ RecordOf(it).finished = it.op.finished
         /\ RecordOf(it).number = it.op.seq /\ RecordOf(it).stageUID = it.op.stageUID
  BY <1>PushClaims, Zenon DEF RecordOf, ItemsOurs

\* A step makes no new claim but that of an Operation that concludes.
<1>NewClaims.
  ASSUME TypeInv, ReleaseInv, ItemsOurs, [Next]_vars, NEW c, Claimed(c)'
  PROVE  Claimed(c) \/ \E u \in Operations : Write(u) /\ c = Claim(u, ops'[u])
  <2> USE <1>NewClaims
  <2>1. ASSUME NEW u \in Operations, ops'[u].seq > 0, c = Claim(u, ops'[u])
        PROVE  Claimed(c) \/ Write(u)
    BY <2>1, OpsSteps, Zenon DEF Claimed
  <2>2. ASSUME NEW u \in Operations, backup'.ops # <<>>, backup'.ops[u].seq > 0,
               c = Claim(u, backup'.ops[u])
        PROVE  Claimed(c)
    BY <2>2, BackupSteps, Zenon DEF Claimed
  <2>3. ASSUME NEW it \in pass'.items, it.uid # NoUid, c = Claim(it.uid, it.op)
        PROVE  Claimed(c)
    <3>1. CASE it \in pass.items
      BY <2>3, <3>1, Zenon DEF Claimed
    <3>2. CASE it \in Pending(pass.stage)
      <4>1. it.uid \in Operations /\ ops[it.uid].seq > 0 /\ it.op = ops[it.uid]
        BY <2>3, <3>2, PendingHeld
      <4> QED BY <2>3, <4>1, Zenon DEF Claimed
    <3> QED BY <2>3, <3>1, <3>2, ItemsSteps, Zenon
  <2>4. ASSUME NEW i \in DOMAIN registry', registry'[i].uid # NoUid,
               c = [uid |-> registry'[i].uid, finished |-> registry'[i].finished,
                    number |-> registry'[i].number, stageUID |-> registry'[i].stageUID]
        PROVE  Claimed(c)
    <3>1. CASE i \in DOMAIN registry /\ registry'[i] = registry[i]
      BY <2>4, <3>1, Zenon DEF Claimed
    <3>2. ASSUME NEW it \in pass.items, registry'[i] = RecordOf(it)
          PROVE  Claimed(c)
      <4>1. it.uid # NoUid
        <5>1. RecordOf(it).uid = it.uid
          BY DEF RecordOf
        <5> QED BY <2>4, <3>2, <5>1, Zenon
      <4>2. c = Claim(it.uid, it.op)
        BY <2>4, <3>2, <4>1, <1>PushClaims, Zenon DEF Claim
      <4> QED BY <4>1, <4>2, Zenon DEF Claimed
    <3>3. CASE registry' = registry
      BY <2>4, <3>1, <3>3
    <3>4. ASSUME NEW it \in pass.items, it \in ItemType, registry' = Append(registry, RecordOf(it))
          PROVE  Claimed(c)
      <4>1. i \in DOMAIN registry \/ i = Len(registry) + 1
        <5>1. i \in 1 .. Len(registry) + 1
          BY <2>4, <3>4, Pushed, Zenon
        <5>2. Len(registry) \in Nat /\ DOMAIN registry = 1 .. Len(registry)
          BY RegistryFacts, Zenon
        <5> QED BY <5>1, <5>2
      <4>2. CASE i \in DOMAIN registry
        BY <3>1, <3>4, <4>2, Pushed
      <4>3. CASE i = Len(registry) + 1
        BY <3>2, <3>4, <4>3, Pushed
      <4> QED BY <4>1, <4>2, <4>3
    <3> QED BY <3>3, <3>4, RegistryGrows
  <2>5. \/ \E u \in Operations : ops'[u].seq > 0 /\ c = Claim(u, ops'[u])
        \/ \E u \in Operations :
             backup'.ops # <<>> /\ backup'.ops[u].seq > 0 /\ c = Claim(u, backup'.ops[u])
        \/ \E it \in pass'.items : it.uid # NoUid /\ c = Claim(it.uid, it.op)
        \/ \E i \in DOMAIN registry' :
             /\ registry'[i].uid # NoUid
             /\ c = [uid |-> registry'[i].uid, finished |-> registry'[i].finished,
                     number |-> registry'[i].number, stageUID |-> registry'[i].stageUID]
    BY Zenon DEF Claimed, Claim, NoUid
  <2> QED BY <2>1, <2>2, <2>3, <2>4, <2>5, Zenon
<1>1. CASE \E u \in Operations : Write(u)
  <2>1. clock' = clock + 1 /\ clock \in Nat
    BY <1>1 DEF Write, TypeInv
  <2>2. ASSUME NEW u \in Operations, Write(u)
        PROVE  Claim(u, ops'[u]).finished = clock + 1
    BY <2>2 DEF Write, TypeInv, OpType, Claim
  <2>3. \A c : Claimed(c)' => \/ Claimed(c) /\ c.finished \in 0 .. clock
                             \/ \E u \in Operations : c = Claim(u, ops'[u]) /\ c.finished = clock + 1
    BY <2>2, <1>NewClaims, Zenon DEF ClaimsAgree
  <2>4. \A c : Claimed(c)' => c.finished \in 0 .. clock'
    BY <2>1, <2>3
  <2>5. ASSUME NEW c, NEW d, Claimed(c)', Claimed(d)', c.uid = d.uid, c.finished = d.finished
        PROVE  c = d
    <3>1. CASE c.finished = clock + 1
      <4>1. clock + 1 \notin 0 .. clock
        BY <2>1
      <4>2. PICK u \in Operations : c = Claim(u, ops'[u])
        BY <2>3, <2>5, <3>1, <4>1, Zenon
      <4>3. PICK v \in Operations : d = Claim(v, ops'[v])
        BY <2>3, <2>5, <3>1, <4>1, Zenon
      <4>4. u = v
        BY <2>5, <4>2, <4>3, Zenon DEF Claim
      <4> QED BY <4>2, <4>3, <4>4
    <3>2. CASE c.finished # clock + 1
      BY <2>3, <2>5, <3>2, Zenon DEF ClaimsAgree
    <3> QED BY <3>1, <3>2
  <2> QED BY <2>4, <2>5, Zenon DEF ClaimsAgree
<1>2. CASE ~\E u \in Operations : Write(u)
  <2>1. clock' = clock
    BY <1>2, Zenon DEF Next, vars, rest, Pass, Take, TakeAgain, Lose, Strip, Delete,
       ReadStage, ListOperations, ListRecords, MarkReady, RecordItem, EndPass, Advance,
       NameRecord, Release, GiveUp, LosePass, GraceEnds, LoseRecord, Recreate, Backup, Restore
  <2>2. \A c : Claimed(c)' => Claimed(c)
    BY <1>2, <1>NewClaims, Zenon
  <2> QED BY <2>1, <2>2, Zenon DEF ClaimsAgree
<1> QED BY <1>1, <1>2

LEMMA ItemsStep ==
  ASSUME TypeInv, ItemsOurs, [Next]_vars
  PROVE  ItemsOurs'
<1> SUFFICES ASSUME NEW it \in pass'.items, it.uid # NoUid
             PROVE  /\ it.seq = it.op.seq
                    /\ it.leftover \/ it.op.stageUID = pass'.stage.uid
  BY DEF ItemsOurs
<1>1. CASE it \in pass.items /\ pass'.stage = pass.stage
  BY <1>1 DEF ItemsOurs
<1>2. CASE it \in Pending(pass.stage) /\ pass'.stage = pass.stage
  BY <1>2, PendingHeld
<1> QED BY <1>1, <1>2, ItemsSteps

\* What a step does to the Stage.
LEMMA StageSteps ==
  ASSUME TypeInv, [Next]_vars
  PROVE  \/ /\ stage'.uid = stage.uid /\ stage'.recordedSeq = stage.recordedSeq /\ torn' = torn
            /\ stage'.log = stage.log \/ \E u \in Operations : stage'.log = Append(stage.log, u)
         \/ Advance
         \/ Recreate
         \/ Restore
<1>0. stage \in StageType
  BY DEF TypeInv
<1>1. ASSUME NEW u \in Operations, Take(u)
      PROVE  /\ stage'.uid = stage.uid /\ stage'.recordedSeq = stage.recordedSeq /\ torn' = torn
             /\ stage'.log = Append(stage.log, u)
  BY <1>0, <1>1 DEF Take, rest, StageType
<1>2. CASE \/ stage' = stage /\ torn' = torn
           \/ stage' = [stage EXCEPT !.ready = TRUE] /\ torn' = torn
           \/ stage' = [stage EXCEPT !.ready = FALSE] /\ torn' = torn
  BY <1>0, <1>2 DEF StageType
<1>3. CASE MarkReady \/ GiveUp \/ LosePass
  BY <1>2, <1>3, Zenon DEF MarkReady, GiveUp, LosePass, rest
<1>4. CASE /\ ~(\E u \in Operations : Take(u))
           /\ ~MarkReady /\ ~GiveUp /\ ~LosePass /\ ~Advance /\ ~Recreate /\ ~Restore
  BY <1>2, <1>4, Zenon DEF Next, vars, rest, Pass, TakeAgain, Write, Lose, Strip, Delete,
     ReadStage, ListOperations, ListRecords, RecordItem, EndPass, NameRecord, Release,
     GraceEnds, LoseRecord, Backup
<1> QED BY <1>1, <1>3, <1>4, Zenon

\* The swap leaves the uid and the log alone.
LEMMA AdvanceSteps ==
  ASSUME TypeInv, Advance
  PROVE  /\ stage'.uid = stage.uid /\ stage'.log = stage.log /\ torn' = torn
         /\ stage'.recordedSeq \in {stage.recordedSeq, pass.item.seq}
         /\ pass'.at \in {"item", "name"} /\ pass'.uid = stage.uid
         /\ pass'.stage = pass.stage /\ pass'.items = pass.items
<1>1. stage \in StageType /\ pass \in PassType
  BY DEF TypeInv
<1>2. /\ stage'.uid = stage.uid /\ stage'.log = stage.log /\ torn' = torn
      /\ stage'.recordedSeq \in {stage.recordedSeq, pass.item.seq}
  BY <1>1 DEF Advance, StageType, rest
<1>3. /\ pass'.at \in {"item", "name"} /\ pass'.uid = stage.uid
      /\ pass'.stage = pass.stage /\ pass'.items = pass.items
  BY <1>1 DEF Advance, PassType
<1> QED BY <1>2, <1>3

\* What a step does to where the pass is and whom it works for.
LEMMA PassSteps ==
  ASSUME TypeInv, [Next]_vars
  PROVE  \/ pass' = pass /\ ~Pass
         \/ pass'.at = "idle" /\ pass'.items = {}
         \/ /\ pass'.at = "operations" /\ pass'.uid = stage.uid /\ pass'.stage = stage
            /\ pass'.items = {} /\ stage' = stage /\ torn' = torn
         \/ /\ pass.at # "idle" /\ pass'.stage = pass.stage
            /\ pass'.uid \in {pass.uid, stage.uid} /\ pass'.at \notin {"idle", "operations"}
            /\ stage'.uid = stage.uid /\ stage'.log = stage.log /\ torn' = torn
            /\ RecordItem \/ pass'.at # "advance"
<1>0. pass \in PassType /\ stage \in StageType
  BY DEF TypeInv
<1>1. CASE ReadStage
  BY <1>1, IdleTyped, SMTT(30) DEF ReadStage, rest, PassType, Idle
<1>2. CASE EndPass \/ GiveUp \/ LosePass \/ Restore
  BY <1>2 DEF EndPass, GiveUp, LosePass, Restore, Idle
<1>3. CASE ListOperations
  <2>1. pass' = Idle \/ pass' = [pass EXCEPT !.at = "records", !.items = Pending(pass.stage)]
    BY <1>3, Zenon DEF ListOperations
  <2>2. CASE pass' = Idle
    BY <2>2, SMTT(30) DEF Idle
  <2>3. CASE pass' = [pass EXCEPT !.at = "records", !.items = Pending(pass.stage)]
    BY <1>0, <1>3, <2>3, Zenon DEF ListOperations, PassType, rest
  <2> QED BY <2>1, <2>2, <2>3
<1>4. CASE ListRecords
  BY <1>0, <1>4 DEF ListRecords, PassType, rest
<1>5. CASE MarkReady
  BY <1>0, <1>5 DEF MarkReady, PassType, StageType, rest
<1>6. CASE RecordItem
  <2>1. PICK it \in pass.items, rec \in Nat : it \in ItemType /\ pass' = Goes(it, rec)
    BY <1>6, ItemRecorded
  <2>2. pass'.stage = pass.stage /\ pass'.uid = pass.uid /\ pass'.at = Recorded(it)
    BY <1>0, <2>1 DEF Goes, PassType
  <2> QED BY <1>6, <2>2, Zenon DEF RecordItem, Recorded, rest
<1>7. CASE Advance
  BY <1>7, AdvanceSteps DEF Advance
<1>8. CASE NameRecord
  BY <1>0, <1>8 DEF NameRecord, PassType, rest
<1>9. CASE Release
  BY <1>0, <1>9 DEF Release, PassType, rest
<1>10. CASE ~Pass /\ ~LosePass /\ ~Restore
  BY <1>10, Zenon DEF Next, vars, rest, Take, TakeAgain, Write, Lose, Strip, Delete,
     GraceEnds, LoseRecord, Recreate, Backup
<1> QED BY <1>1, <1>2, <1>3, <1>4, <1>5, <1>6, <1>7, <1>8, <1>9, <1>10, Zenon DEF Pass

\* What the registry recorded stays recorded, and a torn pass is not forgotten.
LEMMA RecordsStay ==
  ASSUME TypeInv, [Next]_vars
  PROVE  /\ torn => torn'
         /\ DOMAIN registry \subseteq DOMAIN registry'
         /\ \A i \in DOMAIN registry : registry'[i] = registry[i]
<1>1. torn => torn'
  BY StageSteps, AdvanceSteps, Zenon DEF Recreate, Restore
<1>2. CASE Next
  BY <1>1, <1>2, StaysRecorded
<1>3. CASE UNCHANGED vars
  BY <1>1, <1>3 DEF vars
<1> QED BY <1>2, <1>3

\* While a pass rests, its Stage is not replaced without tearing it.
LEMMA StageRests ==
  ASSUME TypeInv, [Next]_vars, ~torn', pass' = pass, pass.at # "idle", ~Advance
  PROVE  /\ stage'.uid = stage.uid
         /\ stage'.log = stage.log \/ \E u \in Operations : stage'.log = Append(stage.log, u)
<1>1. ~Recreate
  BY Zenon DEF Recreate
<1>2. ~Restore
  <2>1. Idle.at = "idle"
    BY SMTT(30) DEF Idle
  <2> QED BY <2>1, Zenon DEF Restore
<1> QED BY <1>1, <1>2, StageSteps, Zenon

LEMMA SameStageStep ==
  ASSUME TypeInv, SameStage, [Next]_vars
  PROVE  SameStage'
<1> SUFFICES ASSUME ~torn', pass'.at # "idle"
             PROVE  pass'.uid = stage'.uid /\ pass'.stage.uid = stage'.uid
  BY DEF SameStage
<1>1. ~torn
  BY RecordsStay
<1>2. CASE pass' = pass /\ ~Pass
  <2>1. stage'.uid = stage.uid
    BY <1>2, StageRests DEF Pass
  <2> QED BY <1>1, <1>2, <2>1, Zenon DEF SameStage
<1>3. CASE /\ pass'.at = "operations" /\ pass'.uid = stage.uid /\ pass'.stage = stage
           /\ stage' = stage
  BY <1>3
<1>4. CASE /\ pass.at # "idle" /\ pass'.stage = pass.stage
           /\ pass'.uid \in {pass.uid, stage.uid} /\ stage'.uid = stage.uid
  BY <1>1, <1>4 DEF SameStage
<1> QED BY <1>2, <1>3, <1>4, PassSteps, Zenon

LEMMA SwapStep ==
  ASSUME TypeInv, EarnedInv, [Next]_vars
  PROVE  SwapEarned'
\* The record a pass takes over or pushes for an item of its own Stage.
<1>SwapTaken.
  ASSUME TypeInv, EarnedInv, RecordItem, ~torn, pass'.at = "advance"
  PROVE  /\ pass'.rec \in DOMAIN registry' /\ registry'[pass'.rec].stageUID = stage.uid
         /\ registry'[pass'.rec].number = pass'.item.seq
  <2> USE <1>SwapTaken
  <2>1. PICK it \in pass.items, rec \in Nat :
          /\ it \in ItemType /\ pass' = Goes(it, rec)
          /\ \/ rec \in Adopted(it) /\ registry' = registry
             \/ /\ registry' = Append(registry, RecordOf(it))
                /\ rec = Len(registry) + 1
    BY ItemRecorded
  <2>2. pass'.at = Recorded(it) /\ pass'.item = it /\ pass'.rec = rec
    BY <2>1, GoesTyped
  <2>3. ~it.leftover
    BY <2>2 DEF Recorded
  <2>4. pass.uid = stage.uid /\ pass.stage.uid = stage.uid
    BY Zenon DEF EarnedInv, SameStage, RecordItem
  <2>5. it.uid # NoUid => it.seq = it.op.seq /\ it.op.stageUID = stage.uid
    BY <2>3, <2>4 DEF EarnedInv, ItemsOurs
  <2>6. CASE rec \in Adopted(it) /\ registry' = registry
    <3>1. rec \in DOMAIN registry
      BY <2>6 DEF Adopted, TypeInv
    <3>2. CASE it.uid = NoUid
      BY <2>2, <2>4, <2>6, <3>1, <3>2 DEF Adopted
    <3>3. CASE it.uid # NoUid
      <4>1. PICK c : c = [uid |-> registry[rec].uid, finished |-> registry[rec].finished,
                          number |-> registry[rec].number, stageUID |-> registry[rec].stageUID]
        BY Zenon
      <4>2. registry[rec].uid = it.uid /\ registry[rec].finished = it.op.finished
        BY <2>6, <3>3 DEF Adopted
      <4>3. Claimed(c)
        BY <3>1, <3>3, <4>1, <4>2, Zenon DEF Claimed
      <4>4. Claimed(Claim(it.uid, it.op))
        BY <3>3, Zenon DEF Claimed
      <4>5. /\ c.uid = Claim(it.uid, it.op).uid /\ c.finished = Claim(it.uid, it.op).finished
            /\ c.number = registry[rec].number /\ c.stageUID = registry[rec].stageUID
            /\ Claim(it.uid, it.op).number = it.op.seq
            /\ Claim(it.uid, it.op).stageUID = it.op.stageUID
        BY <4>1, <4>2 DEF Claim
      <4>6. c = Claim(it.uid, it.op)
        BY <4>3, <4>4, <4>5, Zenon DEF EarnedInv, ClaimsAgree
      <4> QED BY <2>2, <2>5, <2>6, <3>1, <3>3, <4>5, <4>6
    <3> QED BY <3>2, <3>3
  <2>7. CASE registry' = Append(registry, RecordOf(it)) /\ rec = Len(registry) + 1
    <3>1. rec \in DOMAIN registry' /\ registry'[rec] = RecordOf(it)
      BY <2>1, <2>7, Pushed, RegistryFacts
    <3>2. RecordOf(it).number = it.seq /\ RecordOf(it).stageUID = stage.uid
      BY <2>4, <2>5, Zenon DEF RecordOf
    <3> QED BY <2>2, <3>1, <3>2
  <2> QED BY <2>1, <2>6, <2>7, Zenon
<1> SUFFICES ASSUME ~torn', pass'.at = "advance"
             PROVE  /\ pass'.rec \in DOMAIN registry'
                    /\ registry'[pass'.rec].stageUID = stage'.uid
                    /\ registry'[pass'.rec].number = pass'.item.seq
  BY DEF SwapEarned
<1>1. ~torn
  BY RecordsStay
<1>2. CASE pass' = pass /\ ~Pass
  <2>1. stage'.uid = stage.uid
    BY <1>2, StageRests DEF Pass
  <2>2. /\ pass.rec \in DOMAIN registry /\ registry[pass.rec].stageUID = stage.uid
        /\ registry[pass.rec].number = pass.item.seq
    BY <1>1, <1>2, Zenon DEF EarnedInv, SwapEarned
  <2> QED BY <1>2, <2>1, <2>2, RecordsStay
<1>3. CASE RecordItem
  <2>1. stage' = stage
    BY <1>3 DEF RecordItem
  <2> QED BY <1>1, <1>3, <2>1, <1>SwapTaken
<1> QED BY <1>2, <1>3, PassSteps, Zenon

LEMMA EarnedStep ==
  ASSUME TypeInv, EarnedInv, [Next]_vars
  PROVE  Earned(stage)' /\ Earned(backup.stage)'
<1>StaysEarned.
  ASSUME TypeInv, [Next]_vars, NEW s, Earned(s)
  PROVE  Earned(s)'
  BY <1>StaysEarned, RecordsStay DEF Earned
<1>1. ASSUME NEW s, Earned(s)
      PROVE  torn' \/ s.recordedSeq = 0 \/
               \E i \in DOMAIN registry' : /\ registry'[i].stageUID = s.uid
                                          /\ registry'[i].number = s.recordedSeq
  BY <1>1, <1>StaysEarned DEF Earned
<1>2. Earned(stage)'
  <2>1. CASE stage'.uid = stage.uid /\ stage'.recordedSeq = stage.recordedSeq
    BY <1>1, <2>1 DEF EarnedInv, Earned
  <2>2. CASE Advance
    <3>1. CASE stage'.recordedSeq = stage.recordedSeq
      BY <2>1, <2>2, <3>1, AdvanceSteps
    <3>2. CASE stage'.recordedSeq = pass.item.seq
      <4>1. registry' = registry /\ pass.at = "advance" /\ torn' = torn
        BY <2>2 DEF Advance, rest
      <4> QED BY <2>2, <3>2, <4>1, AdvanceSteps DEF EarnedInv, SwapEarned, Earned
    <3> QED BY <2>2, <3>1, <3>2, AdvanceSteps
  <2>3. CASE Recreate
    BY <2>3 DEF Recreate, NewStage, Earned
  <2>4. CASE Restore
    <3>1. stage' = backup.stage
      BY <2>4 DEF Restore
    <3> QED BY <1>1, <3>1 DEF EarnedInv, Earned
  <2> QED BY <2>1, <2>2, <2>3, <2>4, StageSteps
<1>3. Earned(backup.stage)'
  <2>1. CASE backup' = backup
    BY <1>1, <2>1 DEF EarnedInv, Earned
  <2>2. CASE backup'.stage = stage
    BY <1>1, <2>2 DEF EarnedInv, Earned
  <2>3. CASE backup'.stage = NewStage(0)
    BY <2>3 DEF NewStage, Earned
  <2> QED BY <2>1, <2>2, <2>3, BackupSteps
<1> QED BY <1>2, <1>3

LEMMA EarnedInit ==
  ASSUME Init
  PROVE  EarnedInv
<1>1. ~\E c : Claimed(c)
  <2>1. \A u \in Operations : ~(ops[u].seq > 0)
    BY DEF Init, NewOperation
  <2>2. backup.ops = <<>> /\ pass.items = {} /\ DOMAIN registry = {}
    BY DEF Init, NoBackup, Idle
  <2> QED BY <2>1, <2>2 DEF Claimed
<1>2. pass.at = "idle" /\ pass.items = {} /\ stage.recordedSeq = 0 /\ backup.stage.recordedSeq = 0
  BY Zenon DEF Init, Idle, NewStage, NoBackup
<1> QED BY <1>1, <1>2 DEF EarnedInv, ClaimsAgree, ItemsOurs, SameStage, SwapEarned, Earned

\* recordedSeq is the number of a record of this very Stage, for any number of
\* lost passes, restores and recreations between passes.
THEOREM PassedIsRecorded == Spec => []RecordedSeqEarned
<1> DEFINE Inv == TypeInv /\ ReleaseInv /\ EarnedInv
<1>1. Init => Inv
  BY InitHolds, ReleaseInit, EarnedInit
<1>2. Inv /\ [Next]_vars => Inv'
  <2>1. TypeInv /\ ReleaseInv /\ [Next]_vars => TypeInv' /\ ReleaseInv'
    BY Unchanged, TypeStep, ReleaseStep
  <2>2. Inv /\ [Next]_vars => EarnedInv'
    BY ClaimsStep, ItemsStep, SameStageStep, SwapStep, EarnedStep, Zenon DEF EarnedInv
  <2> QED BY <2>1, <2>2
<1>3. EarnedInv => RecordedSeqEarned
  BY DEF EarnedInv, Earned, RecordedSeqEarned
<1> QED BY <1>1, <1>2, <1>3, PTL DEF Spec

(***************************************************************************)
(* Gaps.  What a pass lists as a gap is a number of its Stage that no      *)
(* Operation holds and none will write while the Stage remembers it.       *)
(***************************************************************************)

LEMMA GapStep ==
  ASSUME TypeInv, ReleaseInv, GapInv, [Next]_vars
  PROVE  GapInv'
\* An Operation that is gone comes back only with a backup.
<1>GoneStays.
  ASSUME TypeInv, ReleaseInv, [Next]_vars, ~Restore, NEW u \in Operations, ~Exists(u)
  PROVE  ~Exists(u)'
  <2> USE <1>GoneStays
  <2>1. CASE Write(u)
    BY <2>1 DEF Write
  <2>2. CASE ~Write(u)
    BY <2>2, OpsSteps, Zenon DEF Exists
  <2> QED BY <2>1, <2>2

\* A gap of a Stage stays one while its log grows.
<1>GapStays.
  ASSUME TypeInv, ReleaseInv, [Next]_vars, ~Restore, NEW n, GapOf(n),
         stage'.log = stage.log \/ \E u \in Operations : stage'.log = Append(stage.log, u)
  PROVE  GapOf(n)'
  <2> USE <1>GapStays
  <2>1. stage.log \in Seq(Operations) /\ MaxConcluded \in Nat
    BY MemoryAssumption DEF TypeInv, StageType
  <2>2. /\ n \in DOMAIN stage.log /\ n \in Nat /\ stage.log[n] \in Operations
        /\ DOMAIN stage.log \subseteq DOMAIN stage'.log /\ stage'.log[n] = stage.log[n]
        /\ Len(stage.log) \in Nat /\ Len(stage'.log) \in Nat /\ Len(stage.log) <= Len(stage'.log)
    BY <2>1 DEF GapOf
  <2>3. ASSUME n + MaxConcluded > Len(stage'.log)
        PROVE  ops'[stage'.log[n]].gone
    <3>1. n \in Promoter!Remembered
      BY <2>1, <2>2, <2>3 DEF Promoter!Remembered
    <3>2. PICK u \in Operations : u = stage.log[n]
      BY <2>2
    <3>3. ~Exists(u)
      BY <3>1, <3>2 DEF GapOf
    <3>4. ~Exists(u)'
      BY <3>3, <1>GoneStays
    <3> QED BY <2>2, <3>2, <3>4 DEF Exists
  <2> QED BY <2>2, <2>3 DEF GapOf, Promoter!Remembered, Exists

\* What a pass lists as a gap.
<1>PendingGap.
  ASSUME TypeInv, GapInv, pass.at = "operations", ~torn,
         NEW it \in Pending(pass.stage), it.uid = NoUid, ~it.wait
  PROVE  GapOf(it.seq)
  <2> USE <1>PendingGap
  <2> DEFINE s == pass.stage
  <2>1. \A u \in Leftovers(s) \cup Owed(s) : u # NoUid
    BY OperationsAssumption DEF Leftovers, Owed, Ours, Written, NoUid
  <2>2. PICK n \in Gaps(s) : it = Item(n, NoUid, FALSE, FALSE)
    <3>1. ASSUME NEW u \in Leftovers(s) \cup Owed(s), NEW n, NEW l, it = Item(n, u, FALSE, l)
          PROVE  FALSE
      BY <2>1, <3>1 DEF Item
    <3>2. ASSUME NEW n, it = Item(n, NoUid, TRUE, FALSE)
          PROVE  FALSE
      BY <3>2 DEF Item
    <3> QED BY <3>1, <3>2, Zenon DEF Pending
  <2>3. it.seq = n
    BY <2>2 DEF Item
  <2>4. s \in StageType /\ stage \in StageType
    BY Zenon DEF TypeInv, PassType
  <2>5. /\ s.log \in Seq(Operations) /\ stage.log \in Seq(Operations) /\ s.recordedSeq \in Nat
        /\ MaxConcluded \in Nat
    BY <2>4, MemoryAssumption, Zenon DEF StageType
  <2>6. Len(s.log) <= Len(stage.log) /\ \A m \in DOMAIN s.log : stage.log[m] = s.log[m]
    BY DEF GapInv
  <2>7. n \in DOMAIN s.log /\ n > s.recordedSeq /\ n \notin Held(s) /\ n \notin Late(s)
    BY <2>5 DEF Gaps
  <2>8. n + MaxConcluded > Len(s.log) => ~Exists(s.log[n])
    BY <2>7 DEF Late
  <2>9. n \in DOMAIN stage.log /\ (n + MaxConcluded > Len(stage.log) => n + MaxConcluded > Len(s.log))
    BY <2>5, <2>6, <2>7
  <2> QED BY <2>3, <2>6, <2>7, <2>8, <2>9 DEF GapOf, Promoter!Remembered
<1>0. torn => torn'
  BY RecordsStay
<1>1. CASE pass' = pass /\ ~Pass
  <2>1. CASE pass.at = "idle"
    BY <1>1, <2>1, Zenon DEF GapInv
  <2>2. CASE pass.at # "idle" /\ torn'
    BY <1>1, <2>2, Zenon DEF GapInv
  <2>3. CASE pass.at # "idle" /\ ~torn'
    <3>1. /\ ~torn /\ ~Restore
          /\ stage'.log = stage.log \/ \E u \in Operations : stage'.log = Append(stage.log, u)
      <4>1. Idle.at = "idle"
        BY SMTT(30) DEF Idle
      <4>2. ~Restore
        BY <1>1, <2>3, <4>1, Zenon DEF Restore
      <4> QED BY <1>0, <1>1, <2>3, <4>2, StageRests DEF Pass
    <3>2. \A it \in pass'.items : it.uid = NoUid /\ ~it.wait => GapOf(it.seq)'
      BY <1>1, <3>1, <1>GapStays, Zenon DEF GapInv
    <3>3. pass.at = "operations" =>
            /\ Len(pass'.stage.log) <= Len(stage'.log)
            /\ \A n \in DOMAIN pass'.stage.log : stage'.log[n] = pass'.stage.log[n]
      <4>1. pass.stage.log \in Seq(Operations) /\ stage.log \in Seq(Operations)
        BY DEF TypeInv, PassType, StageType
      <4>2. /\ Len(stage.log) <= Len(stage'.log)
            /\ \A n \in DOMAIN stage.log : stage'.log[n] = stage.log[n]
        BY <3>1, <4>1
      <4>3. ASSUME pass.at = "operations"
            PROVE  /\ Len(pass.stage.log) <= Len(stage.log)
                   /\ \A n \in DOMAIN pass.stage.log : stage.log[n] = pass.stage.log[n]
        BY <3>1, <4>3, Zenon DEF GapInv
      <4>4. Len(stage'.log) \in Nat
        BY <3>1, <4>1
      <4> QED BY <1>1, <4>1, <4>2, <4>3, <4>4
    <3> QED BY <1>1, <2>3, <3>2, <3>3, Zenon DEF GapInv
  <2> QED BY <2>1, <2>2, <2>3
<1>2. CASE pass'.at = "idle" /\ pass'.items = {}
  BY <1>2 DEF GapInv
<1>3. CASE pass'.at = "operations" /\ pass'.items = {} /\ pass'.stage = stage /\ stage' = stage
  <2>1. stage.log \in Seq(Operations)
    BY DEF TypeInv, StageType
  <2> QED BY <1>3, <2>1 DEF GapInv
<1>4. CASE /\ pass'.stage = pass.stage /\ pass'.at \notin {"idle", "operations"}
           /\ stage'.log = stage.log /\ torn' = torn
  <2>1. Idle.at = "idle"
    BY SMTT(30) DEF Idle
  <2>2. ~Restore
    BY <1>4, <2>1, Zenon DEF Restore
  <2>3. ASSUME ~torn, NEW it \in pass'.items, it.uid = NoUid, ~it.wait
        PROVE  GapOf(it.seq)
    <3>1. CASE it \in pass.items
      BY <2>3, <3>1, Zenon DEF GapInv
    <3>2. CASE ListOperations /\ it \in Pending(pass.stage)
      BY <2>3, <3>2, <1>PendingGap DEF ListOperations
    <3> QED BY <2>3, <3>1, <3>2, ItemsSteps, Zenon
  <2>4. ASSUME ~torn, NEW it \in pass'.items, it.uid = NoUid, ~it.wait
        PROVE  GapOf(it.seq)'
    BY <1>4, <2>2, <2>3, <2>4, <1>GapStays, Zenon
  <2> QED BY <1>4, <2>4, Zenon DEF GapInv
<1> QED BY <1>1, <1>2, <1>3, <1>4, PassSteps, Zenon

\* A gap is recorded only for a number of this very Stage whose Operation is
\* gone, or which the Stage no longer remembers, for any memory of the Stage.
THEOREM OnlyGapsRecorded == Spec => GapIsGone
<1> DEFINE Inv == TypeInv /\ ReleaseInv /\ SameStage /\ GapInv
           New == registry'[Len(registry')]
<1>1. Init => Inv
  <2>1. Init => SameStage /\ GapInv
    BY DEF Init, SameStage, GapInv, Idle
  <2> QED BY <2>1, InitHolds, ReleaseInit
<1>2. Inv /\ [Next]_vars => Inv'
  BY Unchanged, TypeStep, ReleaseStep, SameStageStep, GapStep, Zenon
<1>3. ASSUME Inv, [Next]_vars, registry' # registry, New.gap, ~torn
      PROVE  /\ New.stageUID = stage.uid /\ New.number \in DOMAIN stage.log
             /\ New.number \in Promoter!Remembered => ~Exists(stage.log[New.number])
  <2>1. PICK it \in pass.items : /\ RecordItem /\ it \in ItemType /\ ~Waits(it)
                                 /\ registry' = Append(registry, RecordOf(it))
    BY <1>3, RegistryGrows
  <2>2. New = RecordOf(it)
    BY <1>3, <2>1, Pushed
  <2> HIDE DEF New
  <2>3. it.uid = NoUid /\ ~it.wait /\ New.number = it.seq /\ New.stageUID = pass.uid
    BY <1>3, <2>1, <2>2, Zenon DEF RecordOf, Waits
  <2>4. pass.uid = stage.uid
    BY <1>3, <2>1, Zenon DEF SameStage, RecordItem
  <2>5. GapOf(it.seq)
    BY <1>3, <2>3, Zenon DEF GapInv
  <2> QED BY <2>3, <2>4, <2>5, Zenon DEF GapOf
<1>4. Inv /\ [Next]_vars
      => [registry' # registry =>
            LET r == registry'[Len(registry')]
            IN r.gap /\ ~torn =>
                 /\ r.stageUID = stage.uid /\ r.number \in DOMAIN stage.log
                 /\ r.number \in Promoter!Remembered => ~Exists(stage.log[r.number])]_vars
  BY <1>3, Zenon
<1> QED BY <1>1, <1>2, <1>4, PTL DEF Spec, GapIsGone

=============================================================================
