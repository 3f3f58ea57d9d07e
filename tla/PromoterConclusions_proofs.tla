--------------------- MODULE PromoterConclusions_proofs ----------------------
(***************************************************************************)
(* What a conclusion comes with: the stream and the Operation agree on it, *)
(* what a failure owes exists before it, and nothing is applied after it.  *)
(***************************************************************************)
EXTENDS PromoterLock_proofs

\* A quiet step of o, by what becomes of o.
LEMMA QuietOf ==
  ASSUME TypeInv, LockInv, NEW o \in DOMAIN ops, Quietly(o)
  PROVE  /\ OnlyOf(o)
         /\ \/ Decides(o) /\ ops'[o] = ops[o]
            \/ RaiseOwed(o) /\ ops'[o] = ops[o]
            \/ WriteConcluded(o)
            \/ /\ run'[o].at \in {"idle", "planned", "outdated", "apply", "patch"} \/ run'[o] = run[o]
               /\ ops'[o].phase = "Concluded" => ops'[o] = ops[o]
               /\ SameIntent(ops[o], ops'[o])
               /\ ops[o].applied => ops'[o].applied
               /\ run'[o] = run[o] => run[o].at = "idle"
               /\ run[o].at = "write" => Abort(o)
<1>1. ops[o] \in OpType /\ run[o] \in RunType
  BY Reads
<1>2. CASE Decides(o)
  <2>1. PICK c, person : run' = [run EXCEPT ![o] = Concluding(o, c, person)] /\ ops' = ops
    BY <1>2, Zenon DEF Decides, Conclude
  <2> QED BY <1>2, <2>1, OneWritten, Zenon
<1>3. CASE Saves(o)
  <2>1. PICK op : /\ ops' = [ops EXCEPT ![o] = op] /\ run' = run /\ Ready(o)
                  /\ SameIntent(ops[o], op) /\ op.applied = ops[o].applied
                  /\ op.phase \in {"Pending", "Held"}
    BY <1>3, Zenon DEF Saves, Save
  <2>2. OnlyOf(o) /\ ops'[o] = op /\ run'[o] = run[o]
    BY <2>1, OneWritten, Zenon
  <2>3. run[o].at = "idle"
    BY <2>1, Starts, Zenon
  <2> QED BY <2>1, <2>2, <2>3
<1>4. CASE RaiseOwed(o)
  BY <1>4, RaiseOwedSteps, Zenon
<1>5. CASE WriteConcluded(o)
  <2>1. PICK op : ops' = [ops EXCEPT ![o] = op] /\ run' = [run EXCEPT ![o] = Idle]
    BY <1>5, Zenon DEF WriteConcluded
  <2> QED BY <1>5, <2>1, OneWritten, Zenon
<1>6. CASE WriteRunning(o) \/ WriteApplied(o) \/ Ships(o)
  <2>1. PICK op, r : /\ ops' = [ops EXCEPT ![o] = op] /\ run' = [run EXCEPT ![o] = r]
                     /\ \/ /\ WriteRunning(o) /\ r = Idle
                           /\ op = [ops[o] EXCEPT !.phase = "Running", !.person = run[o].person]
                        \/ /\ WriteApplied(o) /\ r = [run[o] EXCEPT !.at = "apply"]
                           /\ op = [ops[o] EXCEPT !.applied = TRUE]
                        \/ /\ Ships(o) /\ r = Idle
                           /\ op = [ops[o] EXCEPT !.phase = "Verifying"]
    BY <1>6, Zenon DEF WriteRunning, WriteApplied, Ships
  <2>2. OnlyOf(o) /\ ops'[o] = op /\ run'[o] = r
    BY <2>1, OneWritten, Zenon
  <2>3. run[o].at = "moved" => ops[o].phase = "Running"
    BY DEF LockInv, OpInv, OpFine
  <2>4. /\ r.at \in {"idle", "apply"} /\ op.phase # "Concluded" /\ SameIntent(ops[o], op)
        /\ ops[o].applied => op.applied
    BY <1>1, <2>1, <2>3, IdleType, ZenonT(30) DEF OpType, RunType, SameIntent, WriteApplied
  <2>5. r = run[o] => run[o].at = "idle"
    BY <2>1, <2>4, IdleType, Zenon DEF WriteRunning, WriteApplied
  <2>6. run[o].at # "write"
    BY <2>1 DEF WriteRunning, WriteApplied, Ships
  <2> QED BY <2>2, <2>4, <2>5, <2>6
<1>7. CASE ReadBefore(o) \/ Patch(o) \/ NotAppliedYet(o) \/ Abort(o)
  <2>1. PICK r : /\ ops' = ops /\ run' = [run EXCEPT ![o] = r]
                 /\ r = Idle \/ (ReadBefore(o) /\ r = [Idle EXCEPT !.at = "patch"])
    BY <1>7, Zenon DEF ReadBefore, Patch, NotAppliedYet, Abort
  <2>2. r.at \in {"idle", "patch"}
    BY <2>1, IdleType, Zenon
  <2>3. r = run[o] => run[o].at = "idle"
    BY <2>1, <2>2, IdleType, Starts, Zenon DEF ReadBefore, Applying, In
  <2>4. OnlyOf(o) /\ ops'[o] = ops[o] /\ run'[o] = r
    BY <2>1, OneWritten, Zenon
  <2>5. run[o].at = "write" => Abort(o)
    BY <1>7, Starts, Zenon DEF ReadBefore, Patch, NotAppliedYet, Applying, In
  <2> QED BY <2>2, <2>3, <2>4, <2>5 DEF SameIntent
<1>8. CASE Plans(o)
  <2>1. PICK at : at = IF Stale(o) THEN "outdated" ELSE "planned"
    OBVIOUS
  <2>2. PICK person : run' = [run EXCEPT ![o] = [Idle EXCEPT !.at = at, !.person = person]] /\ ops' = ops
    BY <1>8, <2>1, Zenon DEF Plans, Planned
  <2>3. PICK r : r = [Idle EXCEPT !.at = at, !.person = person]
    OBVIOUS
  <2>4. r.at = at /\ at \in {"planned", "outdated"}
    BY <2>1, <2>3 DEF Idle
  <2>5. run[o].at = "idle"
    BY <1>8, Starts DEF Plans
  <2>6. OnlyOf(o) /\ ops'[o] = ops[o] /\ run'[o] = r
    BY <2>2, <2>3, OneWritten, Zenon
  <2> QED BY <2>4, <2>5, <2>6 DEF SameIntent
<1>9. CASE LockWaits(o)
  <2>1. run' = [run EXCEPT ![o] = Idle] /\ ops' = ops /\ run[o].at \in {"planned", "outdated"}
    BY <1>9, Zenon DEF LockWaits
  <2>2. OnlyOf(o) /\ ops'[o] = ops[o] /\ run'[o] = Idle
    BY <2>1, OneWritten, Zenon
  <2> QED BY <2>1, <2>2, IdleType DEF SameIntent
<1> QED BY <1>2, <1>3, <1>4, <1>5, <1>6, <1>7, <1>8, <1>9, Zenon DEF Quietly

\* Where the Stage remembers u, it remembers it as concluded this way.
Says(s, u, outcome, verification) ==
  \A i \in DOMAIN s.concluded : s.concluded[i].uid = u =>
    s.concluded[i].outcome = outcome /\ s.concluded[i].verification = verification

AgreesOf(s, u, op, r) ==
  /\ r.at = "write" => Says(s, u, r.c.outcome, r.c.verification)
  /\ op.phase = "Concluded" => Says(s, u, op.outcome, op.verification)

\* What is about to be written, and what was, is what the Stage took.
AgreeInv == \A u \in DOMAIN ops : AgreesOf(stage, u, ops[u], run[u])

\* The Stage remembers an Operation once.
LEMMA RememberedOnce ==
  ASSUME TypeInv, LastRemembered, OneConclusion, NEW i \in DOMAIN stage.concluded,
         NEW j \in DOMAIN stage.concluded, stage.concluded[i].uid = stage.concluded[j].uid
  PROVE  i = j
<1> DEFINE n == Len(history)
           k == Len(stage.concluded)
<1>1. stage.concluded \in Seq(EntryType) /\ history \in Seq(Nat)
  BY DEF TypeInv, TypeOK, StageType
<1>2. /\ n \in Nat /\ k \in Nat /\ k <= n /\ k <= MaxConcluded /\ MaxConcluded \in Nat
      /\ DOMAIN stage.concluded = 1 .. k /\ DOMAIN history = 1 .. n
  BY <1>1, MaxConcludedAssumption DEF LastRemembered
<1>3. /\ stage.concluded[i].uid = history[n - k + i]
      /\ stage.concluded[j].uid = history[n - k + j]
  BY DEF LastRemembered
<1> HIDE DEF n, k
<1>4. i \in 1 .. k /\ j \in 1 .. k
  BY <1>2
<1>5. ASSUME NEW a \in 1 .. k, NEW b \in 1 .. k, history[n - k + a] = history[n - k + b]
      PROVE  ~(a < b)
  <2>1. n - k + a \in 1 .. n /\ n - k + b \in 1 .. n
    BY <1>2
  <2>2. a < b => n - k + a < n - k + b /\ ~((n - k + b) - (n - k + a) > MaxConcluded)
    BY <1>2
  <2> QED BY <1>2, <1>5, <2>1, <2>2 DEF OneConclusion
<1>6. ~(i < j) /\ ~(j < i)
  BY <1>3, <1>4, <1>5, Zenon
<1> QED BY <1>2, <1>4, <1>6

\* A retry that finds itself concluded takes the conclusion the Stage took.
LEMMA SwapAgainSays ==
  ASSUME TypeInv, LastRemembered, OneConclusion, NEW o \in DOMAIN ops, SwapAgain(o)
  PROVE  /\ Says(stage, o, run'[o].c.outcome, run'[o].c.verification)
         /\ stage'.concluded = stage.concluded /\ OnlyOf(o) /\ ops'[o] = ops[o]
<1>1. PICK e : e = EntryOf(o)
  OBVIOUS
<1>2. PICK j : j = CHOOSE i \in DOMAIN stage.concluded : stage.concluded[i].uid = o
  OBVIOUS
<1>3. j \in DOMAIN stage.concluded /\ stage.concluded[j].uid = o
  BY <1>2 DEF SwapAgain, ConcludedOn
<1>4. e = stage.concluded[j]
  BY <1>1, <1>2 DEF EntryOf
<1>5. PICK c : c = Con(e.outcome, e.verification)
  OBVIOUS
<1>6. c.outcome = e.outcome /\ c.verification = e.verification
  BY <1>5 DEF Con
<1>7. PICK r : r = [run[o] EXCEPT !.at = "write", !.c = c]
  BY Zenon
<1>8. r.c = c /\ run' = [run EXCEPT ![o] = r] /\ ops' = ops
  BY <1>1, <1>5, <1>7, Reads, Zenon DEF SwapAgain, RunType
<1>9. OnlyOf(o) /\ ops'[o] = ops[o] /\ run'[o] = r
  BY <1>8, OneWritten, Zenon
<1>10. \A i \in DOMAIN stage.concluded : stage.concluded[i].uid = o => i = j
  BY <1>3, RememberedOnce
<1>11. stage'.concluded = stage.concluded
  BY Zenon DEF SwapAgain, Released, TypeInv, TypeOK, StageType
<1> QED BY <1>4, <1>6, <1>8, <1>9, <1>10, <1>11 DEF Says

\* The same, for the entries of others and for what o takes.
LEMMA SwapSays ==
  ASSUME TypeInv, LastRemembered, NEW o \in DOMAIN ops, Swap(o)
  PROVE  /\ Says(stage', o, run'[o].c.outcome, run'[o].c.verification)
         /\ \A u, x, v : u # o /\ Says(stage, u, x, v) => Says(stage', u, x, v)
         /\ OnlyOf(o) /\ ops'[o] = ops[o]
<1>1. \A i \in DOMAIN stage'.concluded :
        \/ TakenAs(o, stage'.concluded[i])
        \/ \E j \in DOMAIN stage.concluded : stage'.concluded[i] = stage.concluded[j]
  BY SwapLast
<1>2. ~ConcludedOn(stage, o) /\ ops' = ops
  BY DEF Swap
<1>3. PICK r : r = [run[o] EXCEPT !.at = "write", !.c = Taken(o)]
  BY Zenon
<1>4. run' = [run EXCEPT ![o] = r] /\ r.c = Taken(o)
  <2>1. run' = [run EXCEPT ![o] = [run[o] EXCEPT !.at = "write", !.c = Taken(o)]]
    BY SwapEffects, Zenon
  <2>2. run' = [run EXCEPT ![o] = r]
    BY <1>3, <2>1, Zenon
  <2> QED BY <1>3, <2>2, Reads, Zenon DEF RunType
<1>5. OnlyOf(o) /\ ops'[o] = ops[o] /\ run'[o] = r
  BY <1>2, <1>4, OneWritten, Zenon
<1>6. Says(stage', o, Taken(o).outcome, Taken(o).verification)
  BY <1>1, <1>2 DEF Says, ConcludedOn, TakenAs
<1>7. \A u, x, v : u # o /\ Says(stage, u, x, v) => Says(stage', u, x, v)
  BY <1>1 DEF Says, TakenAs
<1> QED BY <1>4, <1>5, <1>6, <1>7

\* The reconcile of o after the swap that takes the lock, and after the move.
LEMMA LockRuns ==
  ASSUME TypeInv, NEW o \in DOMAIN ops, Lock(o)
  PROVE  /\ run[o].at \in {"planned", "outdated"}
         /\ \E r : run' = [run EXCEPT ![o] = r] /\ r.at \in {"idle", "locked"}
<1>1. o \in DOMAIN run /\ run[o] \in RunType
  BY Reads
<1>2. PICK r : r = IF run[o].at = "outdated" THEN Idle ELSE [run[o] EXCEPT !.at = "locked"]
  BY Zenon
<1>3. r.at \in {"idle", "locked"}
  BY <1>1, <1>2 DEF Idle, RunType
<1>4. run' = [run EXCEPT ![o] = r] /\ run[o].at \in {"planned", "outdated"}
  BY <1>1, <1>2 DEF Lock
<1> QED BY <1>3, <1>4, Zenon

LEMMA PlaceRuns ==
  ASSUME TypeInv, NEW o \in DOMAIN ops, Places(o)
  PROVE  /\ run[o].at = "idle"
         /\ run' = run \/ \E r : run' = [run EXCEPT ![o] = r] /\ r.at = "moved"
<1>1. run[o] \in RunType /\ run[o].at = "idle"
  BY Reads, Starts DEF Places
<1>2. PICK r : r = [run[o] EXCEPT !.at = "moved"]
  BY Zenon
<1>3. r.at = "moved"
  BY <1>1, <1>2 DEF RunType
<1>4. run' = run \/ run' = [run EXCEPT ![o] = r]
  BY <1>2, Zenon DEF Places
<1> QED BY <1>1, <1>3, <1>4, Zenon

\* Once for all steps.
LEMMA NextAgrees ==
  ASSUME Inv, AgreeInv, [Next]_vars
  PROVE  AgreeInv'
<1>1. TypeInv /\ LastRemembered /\ OneConclusion /\ InFlight /\ LockInv
  BY DEF Inv
<1>2. ASSUME stage'.concluded = stage.concluded
      PROVE  \A u, x, v : Says(stage, u, x, v) => Says(stage', u, x, v)
  BY <1>2 DEF Says
<1>3. \A u \in DOMAIN ops' : Created /\ u \notin DOMAIN ops => AgreesOf(stage', u, ops'[u], run'[u])
  BY IdleType, Zenon DEF Created, Fresh, AgreesOf
<1>4. ASSUME NEW o \in DOMAIN ops, OnlyOf(o),
             \A u, x, v : u # o /\ Says(stage, u, x, v) => Says(stage', u, x, v),
             AgreesOf(stage', o, ops'[o], run'[o])
      PROVE  AgreeInv'
  <2>1. \A u \in DOMAIN ops \ {o} : AgreesOf(stage', u, ops'[u], run'[u])
    BY <1>4, Zenon DEF AgreeInv, AgreesOf, OnlyOf
  <2> QED BY <1>3, <1>4, <2>1 DEF AgreeInv, OnlyOf
<1>5. ASSUME NEW o \in DOMAIN ops, Swap(o) PROVE AgreeInv'
  <2>1. ops[o].phase # "Concluded"
    BY <1>1, <1>5 DEF Swap, InFlight, Going
  <2>2. AgreesOf(stage', o, ops'[o], run'[o])
    BY <1>1, <1>5, <2>1, SwapSays, Zenon DEF AgreesOf
  <2> QED BY <1>1, <1>4, <1>5, <2>2, SwapSays, Zenon
<1>6. ASSUME NEW o \in DOMAIN ops, SwapAgain(o) PROVE AgreeInv'
  <2>1. ops[o].phase # "Concluded"
    BY <1>1, <1>6 DEF SwapAgain, InFlight, Going
  <2>2. AgreesOf(stage', o, ops'[o], run'[o])
    BY <1>1, <1>2, <1>6, <2>1, SwapAgainSays, Zenon DEF AgreesOf
  <2> QED BY <1>1, <1>2, <1>4, <1>6, <2>2, SwapAgainSays, Zenon
<1>7. ASSUME NEW o \in DOMAIN ops, Quietly(o) PROVE AgreeInv'
  <2>1. stage' = stage /\ OnlyOf(o) /\ AgreesOf(stage, o, ops[o], run[o])
    BY <1>1, <1>7, QuietSteps, QuietOf DEF AgreeInv
  <2>2. CASE Decides(o) /\ ops'[o] = ops[o]
    <3>1. PICK c, person : run' = [run EXCEPT ![o] = Concluding(o, c, person)] /\ ops' = ops
      BY <2>2, Zenon DEF Decides, Conclude
    <3>2. run'[o] = Concluding(o, c, person)
      BY <1>1, <3>1, OneWritten, Zenon
    <3>3. Concluding(o, c, person).at # "write"
      BY Zenon DEF Concluding, Idle
    <3> QED BY <1>4, <2>1, <2>2, <3>2, <3>3, Zenon DEF AgreesOf
  <2>3. CASE RaiseOwed(o) /\ ops'[o] = ops[o]
    <3>1. \A x : (IF x THEN "swap" ELSE "raise") # "write"
      OBVIOUS
    <3>2. run'[o].at # "write"
      BY <1>1, <2>3, <3>1, RaiseOwedSteps, IdleType, Zenon
    <3> QED BY <1>4, <2>1, <2>3, <3>2, Zenon DEF AgreesOf
  <2>4. CASE WriteConcluded(o)
    <3>1. PICK op : op = [ops[o] EXCEPT !.phase = "Concluded", !.outcome = run[o].c.outcome,
                                        !.verification = run[o].c.verification,
                                        !.person = run[o].person]
      BY Zenon
    <3>2. op.outcome = run[o].c.outcome /\ op.verification = run[o].c.verification
      BY <1>1, <3>1, Reads, Zenon DEF OpType
    <3>3. ops' = [ops EXCEPT ![o] = op] /\ run' = [run EXCEPT ![o] = Idle] /\ run[o].at = "write"
      BY <2>4, <3>1, Zenon DEF WriteConcluded
    <3>4. ops'[o] = op /\ run'[o] = Idle
      BY <1>1, <3>3, OneWritten, Zenon
    <3> QED BY <1>4, <2>1, <3>2, <3>3, <3>4, IdleType, Zenon DEF AgreesOf
  <2>5. CASE /\ run'[o].at \in {"idle", "planned", "outdated", "apply", "patch"} \/ run'[o] = run[o]
             /\ ops'[o].phase = "Concluded" => ops'[o] = ops[o]
    BY <1>4, <2>1, <2>5, Zenon DEF AgreesOf
  <2> QED BY <1>1, <1>7, <2>2, <2>3, <2>4, <2>5, QuietOf, Zenon
<1>8. ASSUME NEW o \in DOMAIN ops, Lock(o) \/ Places(o) PROVE AgreeInv'
  <2>1. stage'.concluded = stage.concluded
    BY <1>1, <1>8, Zenon DEF Lock, Places, TypeInv, TypeOK, StageType
  <2>2. PICK r : /\ run' = [run EXCEPT ![o] = r] \/ (run' = run /\ r = run[o])
                 /\ r = run[o] \/ r.at \in {"idle", "locked", "moved"}
    BY <1>1, <1>8, LockRuns, PlaceRuns, Zenon
  <2>3. ops' = ops
    BY <1>8 DEF Lock, Places
  <2>4. OnlyOf(o) /\ ops'[o] = ops[o] /\ run'[o] = r
    BY <1>1, <2>2, <2>3, OneWritten, Zenon
  <2> QED BY <1>2, <1>4, <2>1, <2>2, <2>4, Zenon DEF AgreeInv, AgreesOf
<1>9. CASE World
  <2>1. /\ Created /\ stage'.concluded = stage.concluded
        /\ \A u \in DOMAIN ops : ops'[u] = ops[u] /\ run'[u] = run[u]
    BY <1>1, <1>9, WorldSteps DEF LockKept
  <2> QED BY <1>2, <1>3, <2>1, Zenon DEF AgreeInv, AgreesOf
<1>10. CASE UNCHANGED vars
  BY <1>10 DEF vars, AgreeInv, AgreesOf
<1> QED BY <1>1, <1>5, <1>6, <1>7, <1>8, <1>9, <1>10, NextKinds, Zenon

\* Who reads Concluded has a number.
LEMMA NextNumbers ==
  ASSUME Inv, Concluded \subseteq Numbered, [Next]_vars
  PROVE  (Concluded \subseteq Numbered)'
<1>1. TypeInv /\ LastRemembered /\ InFlight /\ history \in Seq(Nat)
  BY DEF Inv, TypeInv, TypeOK
<1>2. StreamStep
  BY <1>1, NextIsStreamStep
<1>3. ASSUME NEW u, Conclusions!Take(u)
      PROVE  Numbered \subseteq Numbered' /\ Concluded' = Concluded
  <2>1. \A i \in DOMAIN history : i \in DOMAIN Append(history, u) /\ Append(history, u)[i] = history[i]
    BY <1>1, AppendAny
  <2> QED BY <1>3, <2>1 DEF Conclusions!Take, Numbered
<1>4. ASSUME NEW u, Conclusions!TakeAgain(u) \/ Conclusions!Write(u) \/ Conclusions!Lose(u)
      PROVE  Numbered' = Numbered /\ Concluded' \subseteq Concluded \cup Taking
  BY <1>4 DEF Conclusions!TakeAgain, Conclusions!Write, Conclusions!Lose, Numbered
<1>5. CASE UNCHANGED <<history, Taking, Concluded>>
  BY <1>5 DEF Numbered
<1> QED BY <1>1, <1>2, <1>3, <1>4, <1>5 DEF StreamStep, Conclusions!Next, InFlight

\* An Operation that reads Concluded was given its number, and says what the
\* stream says of it.
THEOREM ConclusionsAgree == Spec => []ConclusionAgrees
<1>1. Init => AgreeInv /\ Concluded \subseteq Numbered
  <2> SUFFICES ASSUME Init PROVE AgreeInv /\ Concluded \subseteq Numbered
    OBVIOUS
  <2>1. DOMAIN ops = {}
    BY SMTT(30) DEF Init
  <2> QED BY <2>1, Zenon DEF AgreeInv, Concluded
<1>2. Inv /\ AgreeInv /\ [Next]_vars => AgreeInv'
  BY NextAgrees
<1>3. Inv /\ Concluded \subseteq Numbered /\ [Next]_vars => (Concluded \subseteq Numbered)'
  BY NextNumbers
<1>4. AgreeInv /\ Concluded \subseteq Numbered => ConclusionAgrees
  BY DEF AgreeInv, AgreesOf, Says, Concluded, ConclusionAgrees
<1> QED BY <1>1, <1>2, <1>3, <1>4, InvHolds, PTL DEF Spec

(***************************************************************************)
(* The patch of the applier.                                               *)
(***************************************************************************)
\* While no reconcile was lost, who has a number wrote it or is about to.
NothingLost == aborts = 0 => Numbered \subseteq Taking \cup Concluded

\* A reconcile that was lost is never forgotten.
LEMMA AbortsGrow ==
  ASSUME TypeInv, LockInv, [Next]_vars, aborts' = 0
  PROVE  aborts = 0 /\ \A o \in DOMAIN ops : ~Abort(o)
<1>1. aborts \in Nat
  BY DEF TypeInv, TypeOK
<1>2. ~SrAbort /\ \A o \in DOMAIN ops : ~Abort(o)
  BY <1>1 DEF SrAbort, Abort
<1>3. ASSUME NEW o \in DOMAIN ops, Quietly(o) \/ SwapAgain(o) \/ Swap(o) \/ Lock(o) \/ Places(o)
      PROVE  aborts' = aborts
  <2>1. Decides(o) \/ Saves(o) \/ Plans(o) => aborts' = aborts
    BY Zenon DEF Decides, Conclude, Saves, Save, Plans, Planned
  <2>2. LockWaits(o) \/ RaiseOwed(o) \/ WriteConcluded(o) \/ WriteRunning(o) \/ WriteApplied(o)
          => aborts' = aborts
    BY Zenon DEF LockWaits, RaiseOwed, WriteConcluded, WriteRunning, WriteApplied
  <2>3. Ships(o) \/ ReadBefore(o) \/ Patch(o) \/ NotAppliedYet(o) => aborts' = aborts
    BY Zenon DEF Ships, ReadBefore, Patch, NotAppliedYet
  <2>4. SwapAgain(o) \/ Swap(o) \/ Lock(o) \/ Places(o) => aborts' = aborts
    BY Zenon DEF SwapAgain, Swap, Lock, Places
  <2> QED BY <1>2, <1>3, <2>1, <2>2, <2>3, <2>4, Zenon DEF Quietly
<1>4. /\ \A next : SrGoes(next) => aborts' = aborts
      /\ \A op : SrRaise(op) => aborts' = aborts
  BY Zenon DEF SrGoes, SrRaise, SrRest
<1>5. StageStarts => aborts' = aborts
  BY <1>4, ZenonT(40) DEF StageStarts, WitnessRead, AutoRead, RecheckRun, Reraise, ShadowRead
<1>6. WitnessRaise \/ AutoRaise \/ RecheckDecide \/ RecheckRollback => aborts' = aborts
  BY <1>4, ZenonT(40) DEF WitnessRaise, AutoRaise, RecheckDecide, RecheckRollback
<1>7. RecheckRaise \/ SrFreeze \/ RecheckPass \/ RecheckRecord \/ ShadowObserve \/ ShadowVerify
        => aborts' = aborts
  BY ZenonT(40) DEF RecheckRaise, SrFreeze, RecheckPass, RecheckRecord, ShadowObserve,
                          ShadowVerify, SrRest
<1>8. Request \/ Squat \/ Edit \/ CatchUpOps \/ CatchUpStage => aborts' = aborts
  BY ZenonT(40) DEF Request, Squat, Edit, CatchUpOps, CatchUpStage
<1>9. UNCHANGED vars => aborts' = aborts
  BY DEF vars
<1>10. World => aborts' = aborts
  BY <1>2, <1>5, <1>6, <1>7, <1>8, Zenon DEF World, StageGoesOn
<1> QED BY <1>2, <1>3, <1>9, <1>10, NextKinds, Zenon

LEMMA NextLosesNothing ==
  ASSUME Inv, NothingLost, [Next]_vars
  PROVE  NothingLost'
<1> SUFFICES ASSUME aborts' = 0 PROVE NothingLost'
  BY DEF NothingLost
<1>1. /\ TypeInv /\ LastRemembered /\ InFlight /\ LockInv /\ history \in Seq(Nat)
      /\ DOMAIN run = DOMAIN ops
  BY Reads DEF Inv, TypeInv, TypeOK
<1>7. Numbered \subseteq Taking \cup Concluded /\ \A o \in DOMAIN ops : ~Abort(o)
  BY <1>1, AbortsGrow DEF NothingLost
<1>2. InFlight' /\ StreamStep
  BY <1>1, NextIsStreamStep
<1>3. ASSUME NEW u, Conclusions!Lose(u)
      PROVE  FALSE
  <2>1. u \in DOMAIN ops /\ run[u].at = "write" /\ u \notin Taking' /\ Concluded' = Concluded
    BY <1>1, <1>3 DEF Conclusions!Lose, Taking
  <2>2. ops[u].phase # "Concluded"
    BY <1>1, <2>1 DEF InFlight, Going
  <2>3. history' = history
    BY <1>3 DEF Conclusions!Lose
  <2>4. ASSUME NEW o \in DOMAIN ops, Quietly(o) PROVE FALSE
    <3>1. ~Abort(o)
      BY <1>7
    <3>2. o # u => run'[u] = run[u] /\ u \in DOMAIN run'
      BY <1>1, <2>1, <2>4, QuietOf DEF OnlyOf, Created
    <3>3. o = u
      BY <2>1, <3>2 DEF Taking
    <3>4. WriteConcluded(u)
      BY <1>1, <2>1, <2>4, <3>1, <3>3, QuietOf, Zenon DEF Decides, RaiseOwed
    <3>5. PICK op : op = [ops[u] EXCEPT !.phase = "Concluded", !.outcome = run[u].c.outcome,
                                        !.verification = run[u].c.verification,
                                        !.person = run[u].person]
      BY Zenon
    <3>6. op.phase = "Concluded" /\ ops' = [ops EXCEPT ![u] = op]
      BY <1>1, <2>1, <3>4, <3>5, Reads, Zenon DEF OpType, WriteConcluded
    <3>7. u \in Concluded'
      BY <2>1, <3>6 DEF Concluded
    <3> QED BY <2>1, <2>2, <3>7 DEF Concluded
  <2>5. ASSUME NEW o \in DOMAIN ops, SwapAgain(o) \/ Swap(o) \/ Lock(o) \/ Places(o) PROVE FALSE
    <3>1. o # u => run'[u] = run[u] /\ u \in DOMAIN run'
      <4>1. PICK r : run' = [run EXCEPT ![o] = r] \/ run' = run
        <5>1. Swap(o) => \E r : run' = [run EXCEPT ![o] = r]
          BY <1>1, SwapEffects, Zenon
        <5>2. SwapAgain(o) => \E r : run' = [run EXCEPT ![o] = r]
          BY <1>1, <2>5, Reads, Zenon DEF SwapAgain
        <5>3. Lock(o) => \E r : run' = [run EXCEPT ![o] = r]
          BY <1>1, LockRuns, Zenon
        <5>4. Places(o) => run' = run \/ \E r : run' = [run EXCEPT ![o] = r]
          BY <1>1, PlaceRuns, Zenon
        <5> QED BY <2>5, <5>1, <5>2, <5>3, <5>4, Zenon
      <4> QED BY <1>1, <2>1, <4>1
    <3>2. o # u
      BY <1>1, <2>1, <2>5, LockRuns, PlaceRuns, Zenon DEF SwapAgain, Swap
    <3> QED BY <2>1, <3>1, <3>2 DEF Taking
  <2>6. World \/ UNCHANGED vars => run'[u] = run[u] /\ u \in DOMAIN run'
    BY <1>1, <2>1, WorldSteps DEF vars, Created
  <2> QED BY <1>1, <2>1, <2>4, <2>5, <2>6, NextKinds DEF Taking
<1>4. ASSUME NEW u, Conclusions!Take(u)
      PROVE  NothingLost'
  <2>1. /\ DOMAIN Append(history, u) = DOMAIN history \cup {Len(history) + 1}
        /\ Append(history, u)[Len(history) + 1] = u
        /\ \A i \in DOMAIN history : Append(history, u)[i] = history[i]
    BY <1>1, AppendAny
  <2>2. Numbered' \subseteq Numbered \cup {u}
    BY <1>4, <2>1 DEF Conclusions!Take, Numbered
  <2> QED BY <1>4, <1>7, <2>2 DEF Conclusions!Take, NothingLost
<1>5. ASSUME NEW u, Conclusions!TakeAgain(u) \/ Conclusions!Write(u)
      PROVE  NothingLost'
  BY <1>5, <1>7 DEF Conclusions!TakeAgain, Conclusions!Write, Numbered, NothingLost
<1>6. CASE UNCHANGED <<history, Taking, Concluded>>
  BY <1>6, <1>7 DEF Numbered, NothingLost
<1> QED BY <1>2, <1>3, <1>4, <1>5, <1>6 DEF StreamStep, Conclusions!Next

\* The applier is patched only by the holder of the lock, with the version the
\* Stage runs, for any number of workers and lost reconciles and however far the
\* caches lag: an Operation with a number comes to a patch only after a reconcile
\* was lost, and one no longer Running only where its cache lags.
THEOREM PatchesUnderLock == Spec => []PatchUnderLock
<1>1. Init => NothingLost
  <2> SUFFICES ASSUME Init PROVE NothingLost
    OBVIOUS
  <2>1. DOMAIN history = {}
    BY SMTT(30) DEF Init
  <2> QED BY <2>1, Zenon DEF NothingLost, Numbered
<1>2. Inv /\ NothingLost /\ [Next]_vars => NothingLost'
  BY NextLosesNothing
<1>3. Inv /\ NothingLost => PatchUnderLock
  <2> SUFFICES ASSUME Inv, NothingLost, NEW o \in DOMAIN run, run[o].at = "patch"
               PROVE  \/ stage.lock = o /\ stage.pointer \in {ops[o].to, NoDigest}
                      \/ aborts > 0 /\ o \in Numbered
                      \/ OpLag /\ ops[o].phase # "Running"
    BY DEF PatchUnderLock
  <2>1. o \in DOMAIN ops /\ OpInv(o) /\ (stage.lock = o => HolderInv(o))
    BY Reads DEF Inv, LockInv
  <2>2. ops[o].applied /\ (OpLag \/ ops[o].phase = "Running")
    BY <2>1, Zenon DEF OpInv, OpFine
  <2>3. ops[o].phase = "Running" => Holds(o)
    BY <2>1, Zenon DEF OpInv, OpFine
  <2>4. ops[o].phase = "Running" /\ o \in Numbered => aborts # 0
    BY DEF NothingLost, Taking, Concluded
  <2>5. aborts \in Nat
    BY DEF Inv, TypeInv, TypeOK
  <2> QED BY <2>1, <2>2, <2>3, <2>4, <2>5 DEF Holds, HolderInv, Placed
<1> QED BY <1>1, <1>2, <1>3, InvHolds, PTL DEF Spec

(***************************************************************************)
(* What a failure owes: decided on the Stage the reconcile read, raised    *)
(* one by one, and there before the swap that concludes it.                *)
(***************************************************************************)
\* op is the rollback, or the step-down, of o.
Answers(op, o, kind) ==
  \/ kind = "rollback" /\ op.type = "rollback" /\ op.undoes = o
  \/ kind = "stepdown" /\ op.type = "autonomy" /\ op.cause = o

Exists(o, kind) == \E u \in DOMAIN ops : Answers(ops[u], o, kind)

\* It exists, will be raised, or its name is taken.
Due(o, r, kind) ==
  r.squat \/ Exists(o, kind) \/ \E i \in DOMAIN r.todo : Answers(r.todo[i], o, kind)

\* A person took the Stage from a level that is not automatic to one that is.
Climbed ==
  \E u \in Numbered : /\ ops[u].type = "autonomy"
                      /\ ~Automatic(ops[u].from) /\ Automatic(ops[u].to)

OwesRollback(o, op) ==
  op.type = "promote" /\ stage.lock = o /\ Before(op) # NoDigest /\ Before(op) \notin stage.failed

OwesStepDown(o, op, r) ==
  /\ StepsDown(op, r.person, r.c.cause) /\ o \notin Numbered
  /\ stage.lock = o \/ r.c.preempted

OwedOf(o, op, r) ==
  /\ r.at = "swap" => r.todo = <<>>
  /\ r.at \in {"raise", "swap"} /\ r.c.outcome = "Failed" =>
       /\ op.applied
       /\ r.c.preempted => Exists(o, "rollback")
       /\ OwesRollback(o, op) => Due(o, r, "rollback")
       /\ OwesStepDown(o, op, r) => Due(o, r, "stepdown") \/ Climbed

OwedInv ==
  /\ Numbered \subseteq DOMAIN ops
  /\ \A u \in DOMAIN ops : OwedOf(u, ops[u], run[u])

\* Operations keep their intent.
IntentsKept ==
  DOMAIN ops \subseteq DOMAIN ops' /\ \A u \in DOMAIN ops : SameIntent(ops[u], ops'[u])

LEMMA AnswersKept ==
  ASSUME NEW a, NEW b, SameIntent(a, b), NEW o, NEW kind, Answers(a, o, kind)
  PROVE  Answers(b, o, kind)
  BY DEF SameIntent, Answers

LEMMA ExistsKept ==
  ASSUME IntentsKept
  PROVE  /\ \A o, kind : Exists(o, kind) => Exists(o, kind)'
         /\ Numbered \subseteq DOMAIN ops /\ Numbered \subseteq Numbered' /\ Climbed => Climbed'
<1>1. ASSUME NEW o, NEW kind, Exists(o, kind) PROVE Exists(o, kind)'
  <2>1. PICK u \in DOMAIN ops : Answers(ops[u], o, kind)
    BY <1>1 DEF Exists
  <2>2. u \in DOMAIN ops' /\ Answers(ops'[u], o, kind)
    BY <2>1, AnswersKept DEF IntentsKept
  <2> QED BY <2>2 DEF Exists
<1>2. ASSUME Numbered \subseteq DOMAIN ops, Numbered \subseteq Numbered', Climbed PROVE Climbed'
  <2>1. PICK u \in Numbered : /\ ops[u].type = "autonomy"
                              /\ ~Automatic(ops[u].from) /\ Automatic(ops[u].to)
    BY <1>2 DEF Climbed
  <2>2. u \in Numbered' /\ SameIntent(ops[u], ops'[u])
    BY <1>2, <2>1 DEF IntentsKept
  <2> QED BY <2>1, <2>2, Zenon DEF SameIntent, Climbed
<1> QED BY <1>1, <1>2

\* A Stage after which nobody owes more.
StageEases ==
  /\ stage.failed \subseteq stage'.failed
  /\ Numbered \subseteq DOMAIN ops /\ Numbered \subseteq Numbered'
  /\ Automatic(stage'.level) => Automatic(stage.level) \/ Climbed'

\* What is owed stays owed, whoever else takes a step.
LEMMA OwedKept ==
  ASSUME IntentsKept, StageEases, NEW o \in DOMAIN ops, OwedOf(o, ops[o], run[o]),
         ops'[o] = ops[o], run'[o] = run[o],
         run[o].at \in {"raise", "swap"} /\ stage'.lock = o => stage.lock = o
  PROVE  OwedOf(o, ops[o], run[o])'
<1>1. \A kind : Due(o, run[o], kind) => Due(o, run[o], kind)'
  BY ExistsKept, Zenon DEF Due
<1>2. Exists(o, "rollback") => Exists(o, "rollback")'
  BY ExistsKept
<1>3. Climbed => Climbed'
  BY ExistsKept DEF StageEases
<1>4. run[o].at \in {"raise", "swap"} /\ OwesRollback(o, ops[o])' => OwesRollback(o, ops[o])
  BY DEF OwesRollback, StageEases
<1>5. run[o].at \in {"raise", "swap"} /\ OwesStepDown(o, ops[o], run[o])' =>
        OwesStepDown(o, ops[o], run[o]) \/ Climbed'
  BY DEF OwesStepDown, StepsDown, StageEases
<1> QED BY <1>1, <1>2, <1>3, <1>4, <1>5, Zenon DEF OwedOf

\* What a failure owes is what Owed lists.
LEMMA OwedLists ==
  ASSUME TypeInv, NEW o, NEW c, NEW person, c.outcome = "Failed", ops[o].type = "promote",
         ~ConcludedOn(stage, o)
  PROVE  LET todo == Owed(o, c, person) IN
         /\ OwesRollback(o, ops[o]) => \E i \in DOMAIN todo : Answers(todo[i], o, "rollback")
         /\ (stage.lock = o \/ c.preempted) /\ StepsDown(ops[o], person, c.cause)
              => \E i \in DOMAIN todo : Answers(todo[i], o, "stepdown")
<1> DEFINE todo == Owed(o, c, person)
           step == (stage.lock = o \/ c.preempted) /\ StepsDown(ops[o], person, c.cause)
           back == stage.lock = o /\ Before(ops[o]) # NoDigest /\ Before(ops[o]) \notin stage.failed
           down == StepDownOf(o)
           undo == RollbackOf(o, ops[o])
<1>1. Answers(undo, o, "rollback") /\ Answers(down, o, "stepdown")
  BY Zenon DEF RollbackOf, StepDownOf, NewOp, Answers
<1>2. todo = (IF step THEN <<down>> ELSE <<>>) \o (IF back THEN <<undo>> ELSE <<>>)
  BY Zenon DEF Owed
<1>3. OwesRollback(o, ops[o]) => back
  BY DEF OwesRollback
<1> HIDE DEF todo, step, back, down, undo
<1>4. CASE step /\ back
  <2>1. todo = <<down>> \o <<undo>>
    BY <1>2, <1>4
  <2>2. <<down>> \in Seq({down, undo}) /\ <<undo>> \in Seq({down, undo})
    OBVIOUS
  <2>3. 1 \in DOMAIN todo /\ 2 \in DOMAIN todo /\ todo[1] = down /\ todo[2] = undo
    BY <2>1, <2>2
  <2> QED BY <1>1, <2>3 DEF todo
<1>5. CASE step /\ ~back
  <2>1. todo = <<down>>
    BY <1>2, <1>5
  <2> QED BY <1>1, <1>3, <1>5, <2>1 DEF todo
<1>6. CASE ~step /\ back
  <2>1. todo = <<undo>>
    BY <1>2, <1>6
  <2> QED BY <1>1, <1>6, <2>1 DEF todo, step
<1> QED BY <1>3, <1>4, <1>5, <1>6, Zenon DEF step

\* A conclusion just decided.
LEMMA DecidesOwes ==
  ASSUME Inv, NEW o \in DOMAIN ops, Decides(o)
  PROVE  OwedOf(o, ops[o], run[o])'
<1>1. /\ TypeInv /\ LastRemembered /\ (stage.lock = o => HolderInv(o))
      /\ history \in Seq(Nat) /\ stage.concluded \in Seq(EntryType)
  <2>1. TypeInv /\ LastRemembered /\ (stage.lock = o => HolderInv(o))
    BY Zenon DEF Inv, LockInv
  <2> QED BY <2>1, Zenon DEF TypeInv, TypeOK, StageType
<1>2. PICK c \in ConType, person \in BOOLEAN : Conclude(o, c, person) /\ Grounded(o, c, person)
  BY DEF Decides
<1>3. PICK todo : todo = Owed(o, c, person)
  OBVIOUS
<1>4. PICK r : r = [Idle EXCEPT !.at = IF todo = <<>> THEN "swap" ELSE "raise",
                                !.c = c, !.todo = todo, !.person = person]
  BY Zenon
<1>5. /\ r.at = "swap" => r.todo = <<>>
      /\ r.c = c /\ r.todo = todo /\ r.person = person
  BY <1>4, Zenon DEF Idle
<1>6. run' = [run EXCEPT ![o] = r] /\ UNCHANGED <<stage, ops, history>>
  BY <1>2, <1>3, <1>4, Zenon DEF Conclude, Concluding
<1>7. run'[o] = r /\ ops'[o] = ops[o]
  BY <1>1, <1>6, OneWritten, Zenon
<1>8. /\ c.outcome = "Failed" => ops[o].applied
      /\ c.preempted => Exists(o, "rollback")
  BY <1>2 DEF Grounded, Exists, Answers
<1>9. (stage.lock = o \/ o \notin Numbered) => ~ConcludedOn(stage, o)
  <2>1. o \notin Numbered => ~ConcludedOn(stage, o)
    <3> SUFFICES ASSUME NEW i \in DOMAIN stage.concluded, stage.concluded[i].uid = o
                 PROVE  o \in Numbered
      BY DEF ConcludedOn
    <3> DEFINE n == Len(history)
               k == Len(stage.concluded)
    <3>1. n \in Nat /\ k \in Nat /\ k <= n /\ i \in 1 .. k /\ DOMAIN history = 1 .. n
      <4>1. n \in Nat /\ k \in Nat /\ DOMAIN history = 1 .. n /\ DOMAIN stage.concluded = 1 .. k
        BY <1>1
      <4>2. k = IF n > MaxConcluded THEN MaxConcluded ELSE n
        BY <1>1, Zenon DEF LastRemembered
      <4> QED BY <4>1, <4>2, MaxConcludedAssumption
    <3>2. o = history[n - k + i]
      BY <1>1, Zenon DEF LastRemembered
    <3> HIDE DEF n, k
    <3>3. n - k + i \in DOMAIN history
      BY <3>1
    <3> QED BY <3>2, <3>3 DEF Numbered
  <2> QED BY <1>1, <2>1 DEF HolderInv
<1>10. ASSUME c.outcome = "Failed", OwesRollback(o, ops[o])
       PROVE  \E i \in DOMAIN todo : Answers(todo[i], o, "rollback")
  BY <1>1, <1>3, <1>9, <1>10, OwedLists, Zenon DEF OwesRollback
<1>11. ASSUME c.outcome = "Failed", OwesStepDown(o, ops[o], r)
       PROVE  \E i \in DOMAIN todo : Answers(todo[i], o, "stepdown")
  BY <1>1, <1>3, <1>5, <1>9, <1>11, OwedLists, Zenon DEF OwesStepDown, StepsDown
<1>12. OwedOf(o, ops[o], r)
  BY <1>5, <1>8, <1>10, <1>11, Zenon DEF OwedOf, Due
<1>13. OwedOf(o, ops[o], r) => OwedOf(o, ops[o], run[o])'
  BY <1>6, <1>7, ZenonT(40) DEF OwedOf, OwesRollback, OwesStepDown, StepsDown, Due, Exists, Climbed, Numbered
<1> QED BY <1>12, <1>13

\* Raising one of those owed: what it would create exists after it, or its
\* name is another's.
LEMMA RaisedExists ==
  ASSUME TypeInv, LockInv, NEW o, NEW kind, NEW op, Answers(op, o, kind), ops' = OpsAfter(op),
         Raise(op) # "error", IntentsKept
  PROVE  Raise(op) = "squat" \/ Exists(o, kind)'
<1>1. CASE Raise(op) = "created"
  <2>1. ops' = Append(ops, op) /\ ops \in Seq(OpType)
    BY <1>1 DEF OpsAfter, TypeInv, TypeOK
  <2>2. Len(ops) + 1 \in DOMAIN ops' /\ ops'[Len(ops) + 1] = op
    BY <2>1, AppendAny
  <2> QED BY <2>2 DEF Exists
<1>2. CASE \E u \in Holder(op.name) \cap DOMAIN Known : SameIntent(Known[u], op)
  <2>1. PICK u \in DOMAIN Known : SameIntent(Known[u], op)
    BY <1>2
  <2>2. u \in DOMAIN ops /\ SameIntent(Known[u], ops[u])
    BY <2>1, Reads, Zenon DEF LockInv, OpInv, OpFine, Past
  <2>3. SameIntent(op, ops[u])
    BY <2>1, <2>2 DEF SameIntent
  <2>4. Exists(o, kind)
    BY <2>2, <2>3, AnswersKept DEF Exists
  <2> QED BY <2>4, ExistsKept
<1> QED BY <1>1, <1>2, Zenon DEF Raise

\* The tail of a sequence holds all but its first entry.
LEMMA TailEntries ==
  ASSUME NEW S, NEW s \in Seq(S), NEW i \in 2 .. Len(s)
  PROVE  i - 1 \in DOMAIN Tail(s) /\ Tail(s)[i - 1] = s[i]
  OBVIOUS

LEMMA RaiseOwedOwes ==
  ASSUME Inv, Numbered \subseteq DOMAIN ops, NEW o \in DOMAIN ops, RaiseOwed(o),
         OwedOf(o, ops[o], run[o])
  PROVE  OwedOf(o, ops[o], run[o])'
<1>1. TypeInv /\ LockInv
  BY DEF Inv
<1>2. PICK op : op = Head(run[o].todo)
  BY Zenon
<1>3. PICK rest : rest = Tail(run[o].todo)
  BY Zenon
<1>4. /\ OnlyOf(o) /\ ops'[o] = ops[o] /\ run[o].at = "raise" /\ UNCHANGED <<stage, cops, history>>
      /\ \/ run'[o] = Idle
         \/ /\ run'[o].at = IF rest = <<>> THEN "swap" ELSE "raise"
            /\ run'[o].todo = rest
            /\ run'[o].c = run[o].c /\ run'[o].person = run[o].person
            /\ run'[o].squat <=> run[o].squat \/ Raise(op) = "squat"
            /\ ops' = OpsAfter(op) /\ Raise(op) # "error"
  BY <1>1, <1>2, <1>3, RaiseOwedSteps, Zenon
<1>5. CASE run'[o] = Idle
  BY <1>5, IdleType, Zenon DEF OwedOf
<1>6. CASE run'[o] # Idle
  <2>1. IntentsKept
    BY <1>4, Zenon DEF IntentsKept, OnlyOf, Created, SameIntent
  <2>2. run[o].todo \in Seq(RaisedType) /\ run[o].todo # <<>>
    BY <1>1, <1>4, Reads DEF RunType, TypeInv, TypeOK
  <2>3. \A i \in DOMAIN run[o].todo : run[o].todo[i] = op \/ \E j \in DOMAIN rest : rest[j] = run[o].todo[i]
    <3> SUFFICES ASSUME NEW i \in DOMAIN run[o].todo
                 PROVE  run[o].todo[i] = op \/ \E j \in DOMAIN rest : rest[j] = run[o].todo[i]
      OBVIOUS
    <3>1. i \in 1 .. Len(run[o].todo) /\ Len(run[o].todo) \in Nat
      BY <2>2
    <3>2. CASE i = 1
      BY <1>2, <2>2, <3>2
    <3>3. CASE i # 1
      <4>1. i \in 2 .. Len(run[o].todo)
        BY <3>1, <3>3
      <4>2. i - 1 \in DOMAIN rest /\ rest[i - 1] = run[o].todo[i]
        BY <1>3, <2>2, <4>1, TailEntries
      <4> QED BY <4>2
    <3> QED BY <3>2, <3>3
  <2>4. \A kind : Due(o, run[o], kind) => Due(o, run[o], kind)'
    <3> SUFFICES ASSUME NEW kind, Due(o, run[o], kind) PROVE Due(o, run[o], kind)'
      OBVIOUS
    <3>1. CASE run[o].squat
      BY <1>4, <1>6, <3>1, Zenon DEF Due
    <3>2. CASE Exists(o, kind)
      BY <2>1, <3>2, ExistsKept, Zenon DEF Due
    <3>3. CASE \E i \in DOMAIN run[o].todo : Answers(run[o].todo[i], o, kind)
      <4>1. Answers(op, o, kind) \/ \E j \in DOMAIN rest : Answers(rest[j], o, kind)
        BY <2>3, <3>3
      <4>2. Answers(op, o, kind) => Raise(op) = "squat" \/ Exists(o, kind)'
        BY <1>1, <1>4, <1>6, <2>1, RaisedExists, Zenon
      <4> QED BY <1>4, <1>6, <4>1, <4>2, Zenon DEF Due
    <3> QED BY <3>1, <3>2, <3>3, Zenon DEF Due
  <2>5. Exists(o, "rollback") => Exists(o, "rollback")'
    BY <2>1, ExistsKept
  <2>6. /\ OwesRollback(o, ops[o])' => OwesRollback(o, ops[o])
        /\ OwesStepDown(o, ops[o], run[o])' => OwesStepDown(o, ops[o], run[o])
    BY <1>4, <1>6, Zenon DEF OwesRollback, OwesStepDown, StepsDown, Numbered
  <2>7. Climbed => Climbed'
    <3>1. Numbered' = Numbered
      BY <1>4 DEF Numbered
    <3> QED BY <2>1, <3>1, ExistsKept
  <2>8. run'[o].at = "swap" => run'[o].todo = <<>>
    BY <1>4, <1>6
  <2> QED BY <1>4, <1>6, <2>4, <2>5, <2>6, <2>7, <2>8, Zenon DEF OwedOf
<1> QED BY <1>5, <1>6

\* A step of o that pays what o owes, on a Stage after which nobody owes more.
LEMMA OneOwes ==
  ASSUME OwedInv, StageEases, NEW o \in DOMAIN ops, OnlyOf(o), SameIntent(ops[o], ops'[o]),
         OwedOf(o, ops[o], run[o])', \A u \in DOMAIN ops \ {o} : stage'.lock = u => stage.lock = u,
         Numbered' \subseteq DOMAIN ops'
  PROVE  OwedInv'
<1>1. IntentsKept
  BY DEF OnlyOf, Created, IntentsKept, SameIntent
<1>2. \A u \in DOMAIN ops \ {o} : OwedOf(u, ops[u], run[u])'
  BY <1>1, OwedKept, Zenon DEF OwedInv, OnlyOf
<1>3. \A u \in DOMAIN ops' \ DOMAIN ops : OwedOf(u, ops[u], run[u])'
  BY IdleType DEF OnlyOf, Created, OwedOf
<1> QED BY <1>2, <1>3 DEF OwedInv

\* A swap counts a level raised, and lets nobody have the lock.
LEMMA SwapOwes ==
  ASSUME Inv, OwedInv, NEW o \in DOMAIN ops, Swap(o)
  PROVE  OwedInv'
<1>1. TypeInv /\ LastRemembered /\ stage \in StageType /\ history \in Seq(Nat)
  BY DEF Inv, TypeInv, TypeOK
<1>2. PICK b : b = [stage EXCEPT !.lock = IF @ = o THEN NoOp ELSE @]
  BY Zenon
<1>3. Effected(o, ops[o], Taken(o), b, stage')
  BY <1>1, <1>2, SwapEffects, Zenon
<1>4. /\ b.lock = (IF stage.lock = o THEN NoOp ELSE stage.lock)
      /\ b.level = stage.level /\ b.failed = stage.failed
  BY <1>1, <1>2, Zenon DEF StageType
<1>5. stage'.lock = b.lock /\ stage.failed \subseteq stage'.failed
  BY <1>3, <1>4, Zenon DEF Effected
<1>6. NoOp \notin DOMAIN ops
  BY <1>1, Reads, Zenon
<1>7. \A u \in DOMAIN ops : stage'.lock = u => stage.lock = u
  BY <1>4, <1>5, <1>6
<1>8. /\ DOMAIN history' = DOMAIN history \cup {Len(history) + 1}
      /\ history'[Len(history) + 1] = o
      /\ \A i \in DOMAIN history : history'[i] = history[i]
  <2>1. /\ DOMAIN Append(history, o) = DOMAIN history \cup {Len(history) + 1}
        /\ Append(history, o)[Len(history) + 1] = o
        /\ \A i \in DOMAIN history : Append(history, o)[i] = history[i]
    BY ONLY <1>1, AppendAny
  <2>2. history' = Append(history, o)
    BY Zenon DEF Swap
  <2> QED BY <2>1, <2>2, Zenon
<1>9. Numbered' = Numbered \cup {o}
  BY <1>8 DEF Numbered
<1>10. OnlyOf(o) /\ ops'[o] = ops[o] /\ ops' = ops
  BY <1>1, SwapSays, Zenon DEF Swap
<1>11. Automatic(stage'.level) => Automatic(stage.level) \/ Climbed'
  <2> SUFFICES ASSUME Automatic(stage'.level), ~Automatic(stage.level) PROVE Climbed'
    OBVIOUS
  <2>1. ops[o].type = "autonomy" /\ ops[o].from = stage.level /\ stage'.level = ops[o].to
    BY SwapMoves
  <2> QED BY <1>9, <1>10, <2>1, Zenon DEF Climbed
<1>12. StageEases
  BY <1>5, <1>9, <1>11 DEF StageEases, OwedInv
<1>13. run'[o].at = "write"
  <2>1. PICK r : r = [run[o] EXCEPT !.at = "write", !.c = Taken(o)]
    BY Zenon
  <2>2. run' = [run EXCEPT ![o] = r]
    BY <1>1, <2>1, SwapEffects, Zenon
  <2>3. run'[o] = r
    BY <1>1, <1>10, <2>2, OneWritten, Zenon
  <2> QED BY <1>1, <2>1, <2>3, Reads, Zenon DEF RunType
<1>14. OwedOf(o, ops[o], run[o])'
  BY <1>13, Zenon DEF OwedOf
<1>15. SameIntent(ops[o], ops'[o]) /\ Numbered' \subseteq DOMAIN ops'
  BY <1>9, <1>10 DEF SameIntent, OwedInv
<1> QED BY <1>7, <1>10, <1>12, <1>14, <1>15, OneOwes, Zenon

\* Once for all steps.
LEMMA NextOwes ==
  ASSUME Inv, OwedInv, [Next]_vars
  PROVE  OwedInv'
<1>1. TypeInv /\ LastRemembered /\ OneConclusion /\ LockInv /\ stage \in StageType
  BY DEF Inv, TypeInv, TypeOK
<1>2. /\ Numbered \subseteq DOMAIN ops
      /\ history' = history /\ DOMAIN ops \subseteq DOMAIN ops' => Numbered' \subseteq DOMAIN ops'
  BY DEF OwedInv, Numbered
<1>3. ASSUME stage'.failed = stage.failed \/ FailedGrows, stage'.level = stage.level, history' = history
      PROVE  StageEases
  BY <1>2, <1>3 DEF StageEases, FailedGrows, Numbered
<1>4. \A r : r.at \notin {"raise", "swap"} => \A o, op : OwedOf(o, op, r)
  BY Zenon DEF OwedOf
<1>5. ASSUME NEW o \in DOMAIN ops, Quietly(o) PROVE OwedInv'
  <2>1. OnlyOf(o) /\ UNCHANGED <<stage, history>> /\ OwedOf(o, ops[o], run[o])
    BY <1>1, <1>5, QuietOf, QuietSteps DEF OwedInv
  <2>2. StageEases /\ Numbered' \subseteq DOMAIN ops'
    BY <1>2, <1>3, <2>1 DEF OnlyOf, Created
  <2>3. SameIntent(ops[o], ops[o])
    BY DEF SameIntent
  <2>4. CASE Decides(o) /\ ops'[o] = ops[o]
    BY <2>1, <2>2, <2>3, <2>4, DecidesOwes, OneOwes, Zenon
  <2>5. CASE RaiseOwed(o) /\ ops'[o] = ops[o]
    BY <1>2, <2>1, <2>2, <2>3, <2>5, RaiseOwedOwes, OneOwes, Zenon
  <2>6. CASE WriteConcluded(o)
    <3>1. PICK op : op = [ops[o] EXCEPT !.phase = "Concluded", !.outcome = run[o].c.outcome,
                                        !.verification = run[o].c.verification,
                                        !.person = run[o].person]
      BY Zenon
    <3>2. SameIntent(ops[o], op)
      BY <1>1, <3>1, Reads, Zenon DEF OpType, SameIntent
    <3>3. ops' = [ops EXCEPT ![o] = op] /\ run' = [run EXCEPT ![o] = Idle]
      BY <2>6, <3>1, Zenon DEF WriteConcluded
    <3>4. ops'[o] = op /\ run'[o] = Idle
      BY <1>1, <3>3, OneWritten, Zenon
    <3>5. OwedOf(o, ops[o], run[o])'
      BY <3>4, IdleType, Zenon DEF OwedOf
    <3> QED BY <2>1, <2>2, <3>2, <3>4, <3>5, OneOwes, Zenon
  <2>7. CASE /\ run'[o].at \in {"idle", "planned", "outdated", "apply", "patch"} \/ run'[o] = run[o]
             /\ SameIntent(ops[o], ops'[o])
             /\ run'[o] = run[o] => run[o].at = "idle"
    <3>1. run'[o].at \notin {"raise", "swap"}
      BY <2>7
    <3>2. OwedOf(o, ops[o], run[o])'
      BY <3>1, Zenon DEF OwedOf
    <3> QED BY <2>1, <2>2, <2>7, <3>2, OneOwes, Zenon
  <2> QED BY <1>1, <1>5, <2>4, <2>5, <2>6, <2>7, QuietOf, Zenon
<1>6. ASSUME NEW o \in DOMAIN ops, SwapAgain(o) \/ Lock(o) \/ Places(o) PROVE OwedInv'
  <2>1. /\ history' = history /\ ops' = ops /\ stage'.failed = stage.failed /\ stage'.level = stage.level
    BY <1>1, <1>6, Zenon DEF SwapAgain, Released, Lock, Places, StageType
  <2>2. \A u \in DOMAIN ops \ {o} : stage'.lock = u => stage.lock = u
    <3>1. stage'.lock \in {stage.lock, o, NoOp}
      BY <1>1, <1>6, Zenon DEF SwapAgain, Released, Lock, Places, StageType
    <3> QED BY <1>1, <3>1, Reads
  <2>3. PICK r : /\ run' = [run EXCEPT ![o] = r] \/ (run' = run /\ r = run[o])
                 /\ r.at \notin {"raise", "swap"}
    <3>1. CASE SwapAgain(o)
      <4>1. PICK r : r = [run[o] EXCEPT !.at = "write", !.c = Con(EntryOf(o).outcome, EntryOf(o).verification)]
        BY Zenon
      <4>2. r.at = "write" /\ run' = [run EXCEPT ![o] = r]
        BY <1>1, <3>1, <4>1, Reads, Zenon DEF SwapAgain, RunType
      <4> QED BY <4>2, Zenon
    <3>2. CASE Lock(o)
      <4>1. PICK r : run' = [run EXCEPT ![o] = r] /\ r.at \in {"idle", "locked"}
        BY <1>1, <3>2, LockRuns
      <4> QED BY <4>1
    <3>3. CASE Places(o)
      BY <1>1, <3>3, PlaceRuns
    <3> QED BY <1>6, <3>1, <3>2, <3>3
  <2>4. OnlyOf(o) /\ ops'[o] = ops[o] /\ run'[o] = r
    BY <1>1, <2>1, <2>3, OneWritten, Zenon
  <2>5. OwedOf(o, ops[o], run[o])'
    BY <2>3, <2>4, Zenon DEF OwedOf
  <2>6. SameIntent(ops[o], ops'[o]) /\ Numbered' \subseteq DOMAIN ops'
    BY <1>2, <2>1 DEF SameIntent
  <2> QED BY <1>3, <2>1, <2>2, <2>4, <2>5, <2>6, OneOwes, Zenon
<1>7. CASE World \/ UNCHANGED vars
  <2>1. /\ Created /\ LockKept /\ FailedGrows /\ history' = history
        /\ \A u \in DOMAIN ops : ops'[u] = ops[u] /\ run'[u] = run[u]
    <3>1. UNCHANGED vars => /\ Created /\ LockKept /\ FailedGrows /\ history' = history
                            /\ \A u \in DOMAIN ops : ops'[u] = ops[u] /\ run'[u] = run[u]
      BY <1>1, Reads DEF vars, Created, LockKept, FailedGrows
    <3> QED BY <1>1, <1>7, <3>1, WorldSteps, Zenon
  <2>2. IntentsKept /\ StageEases /\ Numbered' \subseteq DOMAIN ops'
    BY <1>2, <1>3, <2>1 DEF Created, IntentsKept, SameIntent, LockKept
  <2>3. \A u \in DOMAIN ops : OwedOf(u, ops[u], run[u])'
    BY <2>1, <2>2, OwedKept, Zenon DEF OwedInv, LockKept
  <2>4. \A u \in DOMAIN ops' \ DOMAIN ops : OwedOf(u, ops[u], run[u])'
    BY <2>1, IdleType DEF Created, OwedOf
  <2> QED BY <2>2, <2>3, <2>4 DEF OwedInv
<1> QED BY <1>1, <1>5, <1>6, <1>7, SwapOwes, NextKinds, Zenon

LEMMA OwedHolds == Spec => []OwedInv
<1>1. Init => OwedInv
  <2> SUFFICES ASSUME Init PROVE OwedInv
    OBVIOUS
  <2>1. DOMAIN ops = {} /\ DOMAIN history = {}
    BY SMTT(30) DEF Init
  <2> QED BY <2>1, Zenon DEF OwedInv, Numbered
<1>2. Inv /\ OwedInv /\ [Next]_vars => OwedInv'
  BY NextOwes
<1> QED BY <1>1, <1>2, InvHolds, PTL DEF Spec

\* A failure the swap takes is the reconcile's own, of an Operation that holds
\* the lock or that a rollback took it from.
LEMMA TakenFailure ==
  ASSUME Inv, OwedInv, NEW o \in DOMAIN ops, Swap(o), Taken(o).outcome = "Failed"
  PROVE  /\ run[o].at = "swap" /\ run[o].c.outcome = "Failed"
         /\ ops[o].applied /\ (stage.lock = o \/ run[o].c.preempted)
         /\ \A kind : Due(o, run[o], kind) => stage'.frozen \/ Exists(o, kind)
<1>1. TypeInv /\ ops[o] \in OpType /\ OwedOf(o, ops[o], run[o]) /\ run[o].at = "swap"
  BY Reads DEF Inv, OwedInv, Swap
<1>2. PICK op : op = [ops[o] EXCEPT !.person = run[o].person]
  BY Zenon
<1>3. op.applied = ops[o].applied
  BY <1>1, <1>2, Zenon DEF OpType
<1>4. Taken(o) = Decided(o, op, run[o].c)
  BY <1>2 DEF Taken
<1>5. Con("Rejected", "").outcome # "Failed" /\ PreemptedBy.outcome # "Failed"
  BY Zenon DEF Con, PreemptedBy
<1>6. Taken(o) = run[o].c /\ (ops[o].applied /\ ~run[o].c.preempted => stage.lock = o)
  BY <1>3, <1>4, <1>5, Zenon DEF Decided
<1>7. ops[o].applied /\ run[o].todo = <<>>
  BY <1>1, <1>6, Zenon DEF OwedOf
<1>8. DOMAIN run[o].todo = {}
  <2>1. DOMAIN <<>> = {}
    OBVIOUS
  <2> QED BY <1>7, <2>1, Zenon
<1>9. run[o].squat => stage'.frozen
  BY <1>1, SwapEffects, Zenon
<1>10. \A kind : Due(o, run[o], kind) => stage'.frozen \/ Exists(o, kind)
  BY <1>8, <1>9, Zenon DEF Due
<1> QED BY <1>1, <1>6, <1>7, <1>10, Zenon

\* A failed promote is concluded only once its rollback exists; where its name
\* is taken the Stage freezes.
THEOREM RollbacksFirst == Spec => RollbackRaisedFirst
<1>1. ASSUME Inv, OwedInv, [Next]_vars
      PROVE  history' # history =>
               \A o \in stage'.rolledBack \ stage.rolledBack :
                 stage'.frozen \/ \E u \in DOMAIN ops : ops[u].type = "rollback" /\ ops[u].undoes = o
  <2> SUFFICES ASSUME NEW o \in DOMAIN ops, Swap(o), NEW v \in stage'.rolledBack \ stage.rolledBack
               PROVE  stage'.frozen \/ \E u \in DOMAIN ops : ops[u].type = "rollback" /\ ops[u].undoes = v
    BY <1>1, StageMoves
  <2>1. TypeInv /\ stage \in StageType /\ OwedOf(o, ops[o], run[o])
    BY <1>1 DEF Inv, OwedInv, TypeInv, TypeOK
  <2>2. PICK b : b = [stage EXCEPT !.lock = IF @ = o THEN NoOp ELSE @]
    BY Zenon
  <2>3. Effected(o, ops[o], Taken(o), b, stage')
    BY <2>1, <2>2, SwapEffects, Zenon
  <2>4. b.failed = stage.failed /\ b.rolledBack = stage.rolledBack
    BY <2>1, <2>2, Zenon DEF StageType
  <2>5. /\ v = o /\ Taken(o).outcome = "Failed" /\ ops[o].type = "promote"
        /\ Before(ops[o]) # NoDigest /\ Before(ops[o]) \notin stage.failed
    BY <2>3, <2>4, Zenon DEF Effected
  <2>6. /\ run[o].at = "swap" /\ run[o].c.outcome = "Failed"
        /\ stage.lock = o \/ run[o].c.preempted
        /\ Due(o, run[o], "rollback") => stage'.frozen \/ Exists(o, "rollback")
    BY <1>1, <2>5, TakenFailure, Zenon
  <2>7. run[o].c.preempted => Exists(o, "rollback")
    BY <2>1, <2>6, Zenon DEF OwedOf
  <2>8. stage.lock = o => Due(o, run[o], "rollback")
    BY <2>1, <2>5, <2>6, Zenon DEF OwedOf, OwesRollback
  <2>9. stage'.frozen \/ Exists(o, "rollback")
    BY <2>6, <2>7, <2>8
  <2> QED BY <2>5, <2>9, Zenon DEF Exists, Answers
<1> QED BY <1>1, InvHolds, OwedHolds, PTL DEF Spec, RollbackRaisedFirst

\* A promote no person stands behind that failed on a confirmed verdict is
\* concluded on an automatic level only once its step-down exists; where its
\* name is taken the Stage freezes, and where the level was not automatic when
\* the failure was decided a level change took it there since.
THEOREM StepDownsFirst == Spec => StepDownRaisedFirst
<1>1. ASSUME Inv, OwedInv, [Next]_vars, NEW o \in DOMAIN ops \ Numbered,
             history' = Append(history, o), LastConcluded'.outcome = "Failed",
             StepsDown(ops[o], run[o].person, run[o].c.cause)
      PROVE  \/ stage'.frozen
             \/ \E u \in DOMAIN ops : ops[u].type = "autonomy" /\ ops[u].cause = o
             \/ \E u \in Numbered : /\ ops[u].type = "autonomy"
                                    /\ ~Automatic(ops[u].from) /\ Automatic(ops[u].to)
  <2>1. TypeInv /\ LastRemembered /\ history \in Seq(Nat) /\ OwedOf(o, ops[o], run[o])
    BY <1>1 DEF Inv, OwedInv, TypeInv, TypeOK
  <2>2. \A e : /\ Len(history) + 1 \in DOMAIN Append(history, e)
               /\ Len(history) + 1 \notin DOMAIN history
               /\ Append(history, e)[Len(history) + 1] = e
    BY <2>1, AppendAny
  <2>3. history' # history
    BY <1>1, <2>2
  <2>4. PICK v \in DOMAIN ops : Swap(v)
    BY <1>1, <2>3, StageMoves
  <2>5. v = o
    <3>1. history' = Append(history, v)
      BY <2>4, Zenon DEF Swap
    <3>2. Append(history, v) = Append(history, o)
      BY <1>1, <3>1
    <3>3. Append(history, v)[Len(history) + 1] = v /\ Append(history, o)[Len(history) + 1] = o
      BY <2>2, Zenon
    <3> QED BY <3>2, <3>3, Zenon
  <2>6. Swap(o) /\ Taken(o).outcome = "Failed"
    BY <1>1, <2>1, <2>4, <2>5, SwapLast DEF TakenAs
  <2>7. /\ run[o].at = "swap" /\ run[o].c.outcome = "Failed"
        /\ stage.lock = o \/ run[o].c.preempted
        /\ \A kind : Due(o, run[o], kind) => stage'.frozen \/ Exists(o, kind)
    BY <1>1, <2>6, TakenFailure, ZenonT(30)
  <2>8. OwesStepDown(o, ops[o], run[o])
    BY <1>1, <2>7 DEF OwesStepDown
  <2>9. stage'.frozen \/ Exists(o, "stepdown") \/ Climbed
    BY <2>1, <2>7, <2>8, Zenon DEF OwedOf
  <2> QED BY <2>9, Zenon DEF Exists, Answers, Climbed
<1>2. Inv /\ OwedInv /\ [Next]_vars =>
        \A o \in DOMAIN ops \ Numbered :
          /\ history' = Append(history, o) /\ LastConcluded'.outcome = "Failed"
          /\ StepsDown(ops[o], run[o].person, run[o].c.cause)
          => \/ stage'.frozen
             \/ \E u \in DOMAIN ops : ops[u].type = "autonomy" /\ ops[u].cause = o
             \/ \E u \in Numbered : /\ ops[u].type = "autonomy"
                                    /\ ~Automatic(ops[u].from) /\ Automatic(ops[u].to)
  BY <1>1, Zenon
<1> QED BY <1>2, InvHolds, OwedHolds, PTL DEF Spec, StepDownRaisedFirst

=============================================================================
