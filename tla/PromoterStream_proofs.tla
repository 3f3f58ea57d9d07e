------------------------ MODULE PromoterStream_proofs ------------------------
(***************************************************************************)
(* The stream of conclusions: every Operation concludes at most once while *)
(* its Stage remembers it, and the promoter implements Stream, which is    *)
(* what the recorder reads: a swap that concludes takes a number, the      *)
(* status write that follows it writes it, and every other step leaves the *)
(* stream as it is.  The last part says what the steps of the world        *)
(* outside and the swap change besides.                                    *)
(***************************************************************************)
EXTENDS PromoterTypes_proofs

(***************************************************************************)
(* One conclusion for each Operation.  A retry finds its Operation in what *)
(* the Stage remembers, so OneConclusion rests on LastRemembered.          *)
(***************************************************************************)
StreamKept ==
  history' = history /\ stage'.seq = stage.seq /\ stage'.concluded = stage.concluded

\* What the Stage remembers after entry e joined the k entries of old.
Joined(old, e, k, new) ==
  /\ k < MaxConcluded => /\ Len(new) = k + 1 /\ new[k + 1] = e
                         /\ \A i \in 1 .. k : new[i] = old[i]
  /\ k = MaxConcluded => /\ Len(new) = k /\ new[k] = e
                         /\ \A i \in 1 .. k - 1 : new[i] = old[i + 1]

\* Remember keeps the newest entries, one by one.
LEMMA RememberEntries ==
  ASSUME NEW entries \in Seq(EntryType), NEW e \in EntryType, Len(entries) <= MaxConcluded
  PROVE  Joined(entries, e, Len(entries), Remember(entries, e))
<1> DEFINE k == Len(entries)
           r == Remember(entries, e)
<1> SUFFICES /\ k < MaxConcluded => /\ Len(r) = k + 1 /\ r[k + 1] = e
                                    /\ \A i \in 1 .. k : r[i] = entries[i]
             /\ k = MaxConcluded => /\ Len(r) = k /\ r[k] = e
                                    /\ \A i \in 1 .. k - 1 : r[i] = entries[i + 1]
  BY DEF Joined
<1> DEFINE all == Append(entries, e)
<1>1. k \in Nat /\ MaxConcluded \in Nat /\ MaxConcluded > 0
  BY MaxConcludedAssumption
<1>2. /\ all \in Seq(EntryType) /\ Len(all) = k + 1
      /\ \A i \in 1 .. k : all[i] = entries[i]
      /\ all[k + 1] = e
  BY SeqAppend
<1>3. CASE k < MaxConcluded
  <2>1. Remember(entries, e) = all
    BY <1>1, <1>2, <1>3 DEF Remember
  <2> QED BY <1>1, <1>2, <1>3, <2>1
<1>4. CASE k = MaxConcluded
  <2>1. Remember(entries, e) = Tail(all)
    BY <1>1, <1>2, <1>4 DEF Remember
  <2>2. Len(Tail(all)) = k /\ \A i \in 1 .. k : Tail(all)[i] = all[i + 1]
    BY <1>1, <1>2
  <2> HIDE DEF all
  <2> QED BY <1>1, <1>2, <1>4, <2>1, <2>2
<1> QED BY <1>1, <1>3, <1>4, ZenonT(30)

\* An Operation is concluded a second time only after MaxConcluded others, for
\* any number of workers, lost reconciles and however far the caches lag.
THEOREM ConcludedOnce == Spec => [](LastRemembered /\ OneConclusion)
\* Only the swap that concludes an Operation touches the stream.
<1>OthersKeepStream.
  ASSUME TypeInv, Next, \A o \in DOMAIN ops : ~Swap(o)
  PROVE  StreamKept
  <2> USE <1>OthersKeepStream
  <2>1. stage \in StageType
    BY DEF TypeInv, TypeOK
  <2>2. UNCHANGED <<stage, history>> => StreamKept
    BY DEF StreamKept
  <2>3. ASSUME NEW o \in DOMAIN ops, Advance(o) \/ Abort(o), ~Swap(o)
        PROVE  StreamKept
    <3>1. \A c, person : Finish(o, c, person) \/ Conclude(o, c, person) => UNCHANGED <<stage, history>>
      BY DEF Finish, Conclude
    <3>2. \A op : Save(o, op) => UNCHANGED <<stage, history>>
      BY DEF Save
    <3>3. /\ \A person : LockOrLevel(o, person) => StreamKept
          /\ LockRefused(o) \/ LockWaits(o) => StreamKept
      BY <2>2, <3>1, Zenon DEF LockOrLevel, Planned, LockRefused, LockWaits
    <3>10. Lock(o) => StreamKept
      BY <2>1, Zenon DEF Lock, StreamKept, StageType
    <3>4. MoveSwap(o) => StreamKept
      BY <2>1, <2>2, <3>1, Zenon DEF MoveSwap, StreamKept, StageType
    <3>5. SwapAgain(o) => StreamKept
      BY ReleasedType DEF SwapAgain, StreamKept
    <3>6. RaiseOwed(o) \/ WriteConcluded(o) \/ WriteRunning(o) \/ WriteApplied(o) \/ ReadBefore(o)
            \/ Patch(o) \/ NotAppliedYet(o) \/ Abort(o) => UNCHANGED <<stage, history>>
      BY DEF RaiseOwed, WriteConcluded, WriteRunning, WriteApplied, ReadBefore, Patch,
             NotAppliedYet, Abort
    <3>7. FinishAgain(o) \/ Admit(o) \/ PreApplyExit(o) \/ Supersede(o) \/ FreezeOrUnfreeze(o)
            \/ HeldReject(o) \/ HeldAskAgain(o) \/ ExecutionDeadline(o)
          => UNCHANGED <<stage, history>>
      BY <3>1, <3>2, Zenon DEF FinishAgain, Admit, PreApplyExit, Supersede, FreezeOrUnfreeze,
                        HeldReject, HeldAskAgain, ExecutionDeadline
    <3>8. ForeignWriter(o) \/ ApplyFailed(o) \/ AppliedOk(o) \/ Preempted(o) \/ Verify(o)
            \/ VerifyDeadline(o) \/ HeldDecision(o) => UNCHANGED <<stage, history>>
      BY <3>1, <3>2, Zenon DEF ForeignWriter, ApplyFailed, AppliedOk, Preempted, Verify,
                        VerifyDeadline, HeldDecision
    <3>9. Pend(o) \/ HeldApprove(o) => StreamKept
      BY <2>2, <3>1, <3>2, <3>3, ZenonT(40) DEF Pend, HeldApprove
    <3> QED BY <2>2, <2>3, <3>3, <3>4, <3>5, <3>6, <3>7, <3>8, <3>9, <3>10, ZenonT(40) DEF Advance
  <2>10. /\ \A next : SrGoes(next) => UNCHANGED <<stage, history>>
         /\ \A op : SrRaise(op) => UNCHANGED <<stage, history>>
    BY Zenon DEF SrGoes, SrRaise, SrRest
  <2>4. CASE StageStarts
    BY <2>2, <2>4, <2>10, ZenonT(40) DEF StageStarts, WitnessRead, AutoRead, RecheckRun, Reraise,
                                         ShadowRead
  <2>5. CASE WitnessRaise \/ AutoRaise \/ RecheckDecide \/ RecheckRaise \/ RecheckRollback
    <3>1. CASE WitnessRaise \/ AutoRaise \/ RecheckDecide \/ RecheckRollback
      BY <2>2, <2>10, <3>1, ZenonT(40) DEF WitnessRaise, AutoRaise, RecheckDecide, RecheckRollback
    <3>2. CASE RecheckRaise
      BY <2>2, <3>2, Zenon DEF RecheckRaise, SrRest
    <3> QED BY <2>5, <3>1, <3>2
  <2>6. CASE SrFreeze \/ RecheckPass \/ ShadowObserve
    BY <2>1, <2>6, SMTT(30) DEF SrFreeze, RecheckPass, ShadowObserve, SrRest, StreamKept, StageType
  <2>7. CASE RecheckRecord
    BY <2>1, <2>7 DEF RecheckRecord, SrRest, StreamKept, StageType
  <2>8. CASE ShadowVerify
    BY <2>1, <2>8 DEF ShadowVerify, SrRest, StreamKept, StageType
  <2>9. CASE SrAbort \/ Request \/ Squat \/ Edit \/ CatchUpOps \/ CatchUpStage
    BY <2>2, <2>9, ZenonT(30) DEF SrAbort, Request, Squat, Edit, CatchUpOps, CatchUpStage
  <2> QED BY <2>3, <2>4, <2>5, <2>6, <2>7, <2>8, <2>9, SMTT(30) DEF Next, StageGoesOn

\* Concluding an Operation the Stage does not remember keeps both.
<1>SwapKeepsStream.
  ASSUME TypeInv, LastRemembered, OneConclusion, NEW o \in DOMAIN ops, Swap(o)
  PROVE  LastRemembered' /\ OneConclusion'
  <2> USE <1>SwapKeepsStream
  <2> DEFINE n == Len(history)
             k == Len(stage.concluded)
             c == Decided(o, [ops[o] EXCEPT !.person = run[o].person], run[o].c)
             e == [uid |-> o, outcome |-> c.outcome, verification |-> c.verification]
             new == stage'.concluded
  <2>0. /\ history \in Seq(Nat) /\ stage.concluded \in Seq(EntryType) /\ stage.seq \in Nat
        /\ MaxConcluded \in Nat /\ MaxConcluded > 0 /\ o \in Nat
    <3>1. stage \in StageType /\ history \in Seq(Nat)
      BY DEF TypeInv, TypeOK
    <3>2. stage.concluded \in Seq(EntryType) /\ stage.seq \in Nat
      BY <3>1 DEF StageType
    <3>3. o \in Nat
      BY Reads
    <3> QED BY MaxConcludedAssumption, <3>1, <3>2, <3>3
  <2>1. /\ n \in Nat /\ k \in Nat
        /\ DOMAIN history = 1 .. n /\ DOMAIN stage.concluded = 1 .. k
    BY <2>0
  <2>2. /\ stage'.seq = stage.seq + 1 /\ new = Remember(stage.concluded, e)
        /\ c \in ConType
    BY SwapStage, Zenon
  <2>3. e \in EntryType /\ e.uid = o
    BY <2>0, <2>2 DEF EntryType, ConType
  <2> HIDE DEF c, e
  <2>4. /\ stage.seq = n /\ k = (IF n > MaxConcluded THEN MaxConcluded ELSE n)
        /\ \A i \in 1 .. k : stage.concluded[i].uid = history[n - k + i]
    BY <2>1, SMTT(30) DEF LastRemembered
  <2>5. /\ history' \in Seq(Nat) /\ Len(history') = n + 1 /\ DOMAIN history' = 1 .. n + 1
        /\ \A i \in 1 .. n : history'[i] = history[i]
        /\ history'[n + 1] = o
    <3>1. history' = Append(history, o)
      BY Zenon DEF Swap
    <3> QED BY <2>0, <2>1, <3>1, SeqAppend, SMTT(30)
  <2>6. /\ k < MaxConcluded => /\ Len(new) = k + 1 /\ new[k + 1] = e
                               /\ \A i \in 1 .. k : new[i] = stage.concluded[i]
        /\ k = MaxConcluded => /\ Len(new) = k /\ new[k] = e
                               /\ \A i \in 1 .. k - 1 : new[i] = stage.concluded[i + 1]
    <3>1. k <= MaxConcluded
      BY <2>0, <2>1, <2>4
    <3>2. Joined(stage.concluded, e, k, new)
      BY <2>0, <2>2, <2>3, <3>1, RememberEntries
    <3> HIDE DEF k, new
    <3> QED BY <3>2 DEF Joined
  <2>7. new \in Seq(EntryType)
    BY <2>0, <2>2, <2>3, RememberType
  <2> HIDE DEF new
  <2>8. DOMAIN new = 1 .. Len(new)
    BY <2>7
  <2> HIDE DEF n, k
  <2>9. LastRemembered'
    <3>1. stage'.seq = n + 1
      BY <2>2, <2>4
    <3>2. Len(new) = IF n + 1 > MaxConcluded THEN MaxConcluded ELSE n + 1
      BY <2>0, <2>1, <2>4, <2>6, SMTT(30)
    <3>3. \A i \in 1 .. Len(new) : new[i].uid = history'[(n + 1) - Len(new) + i]
      <4>1. CASE k < MaxConcluded
        <5>1. k = n /\ Len(new) = n + 1
          BY <2>0, <2>1, <2>4, <2>6, <4>1, SMTT(30)
        <5>2. \A i \in 1 .. n : new[i].uid = history'[i]
          BY <2>1, <2>4, <2>5, <2>6, <4>1, <5>1, SMTT(30)
        <5>3. new[n + 1].uid = history'[n + 1]
          BY <2>3, <2>5, <2>6, <4>1, <5>1
        <5> QED BY <2>1, <5>1, <5>2, <5>3
      <4>2. CASE k = MaxConcluded
        <5>1. Len(new) = k /\ k <= n /\ k > 0
          BY <2>0, <2>1, <2>4, <2>6, <4>2, SMTT(30)
        <5>2. \A i \in 1 .. k - 1 : new[i].uid = history'[(n + 1) - k + i]
          <6> TAKE i \in 1 .. k - 1
          <6>1. new[i].uid = stage.concluded[i + 1].uid
            BY <2>6, <4>2
          <6>2. stage.concluded[i + 1].uid = history[n - k + (i + 1)]
            BY <2>1, <2>4
          <6>3. n - k + (i + 1) = (n + 1) - k + i /\ (n + 1) - k + i \in 1 .. n
            BY <2>1, <5>1
          <6> QED BY <2>5, <6>1, <6>2, <6>3
        <5>3. new[k].uid = history'[(n + 1) - k + k]
          BY <2>1, <2>3, <2>5, <2>6, <4>2
        <5> QED BY <2>1, <5>1, <5>2, <5>3, SMTT(30)
      <4> QED BY <2>0, <2>1, <2>4, <4>1, <4>2, SMTT(30)
    <3> QED BY <2>5, <2>8, <3>1, <3>2, <3>3, ZenonT(30) DEF LastRemembered, new, n, k
  <2>10. OneConclusion'
    <3> SUFFICES ASSUME NEW i \in 1 .. n + 1, NEW j \in 1 .. n + 1, i < j, history'[i] = history'[j]
                 PROVE  j - i > MaxConcluded
      BY <2>5 DEF OneConclusion
    <3>1. CASE j <= n
      <4>1. i \in 1 .. n /\ j \in 1 .. n
        BY <2>1, <3>1
      <4> QED BY <2>1, <2>5, <4>1, ZenonT(30) DEF OneConclusion
    <3>2. CASE j = n + 1
      <4>1. i \in 1 .. n /\ history[i] = o
        BY <2>1, <2>5, <3>2
      <4>2. \A m \in 1 .. k : history[n - k + m] # o
        BY <2>1, <2>4, ZenonT(30) DEF Swap, ConcludedOn, k
      <4>3. i <= n - k
        <5> SUFFICES ASSUME i > n - k PROVE FALSE
          BY <2>1
        <5>1. i - (n - k) \in 1 .. k /\ n - k + (i - (n - k)) = i
          BY <2>1, <2>4, <4>1
        <5> QED BY <4>1, <4>2, <5>1
      <4> QED BY <2>0, <2>1, <2>4, <3>2, <4>1, <4>3, SMTT(30)
    <3> QED BY <2>1, <3>1, <3>2
  <2> QED BY <2>9, <2>10

\* A Stage that concluded nothing remembers nothing.
<1>InitStream. Init => LastRemembered /\ OneConclusion
  <2> SUFFICES ASSUME Init PROVE LastRemembered /\ OneConclusion
    OBVIOUS
  <2>1. /\ history = <<>> /\ stage.concluded = <<>> /\ stage.seq = 0
        /\ Len(<<>>) = 0 /\ DOMAIN <<>> = {}
    BY SMTT(30) DEF Init
  <2> QED BY <2>1, MaxConcludedAssumption DEF LastRemembered, OneConclusion
<1> DEFINE Inv == TypeInv /\ LastRemembered /\ OneConclusion
<1>1. Init => Inv
  BY InitTyped, <1>InitStream
<1>2. Inv /\ [Next]_vars => Inv'
  <2> SUFFICES ASSUME Inv, [Next]_vars PROVE Inv'
    OBVIOUS
  <2>1. TypeInv'
    BY NextTyped
  <2>2. CASE \E o \in DOMAIN ops : Swap(o)
    BY <2>1, <2>2, <1>SwapKeepsStream
  <2>3. CASE Next /\ \A o \in DOMAIN ops : ~Swap(o)
    <3>1. StreamKept
      BY <2>3, <1>OthersKeepStream
    <3> QED BY <2>1, <3>1 DEF StreamKept, LastRemembered, OneConclusion
  <2>4. CASE UNCHANGED vars
    BY <2>1, <2>4 DEF vars, LastRemembered, OneConclusion
  <2> QED BY <2>2, <2>3, <2>4
<1> QED BY <1>1, <1>2, PTL DEF Spec

(***************************************************************************)
(* The invariant.  A reconcile on its way to the status write is about an  *)
(* Operation that does not read Concluded, which is what the copies read   *)
(* again before a conclusion are for; and who is to write has a number.    *)
(***************************************************************************)
Going == {"raise", "swap", "write", "planned", "locked", "moved", "apply"}

InFlight ==
  /\ \A u \in DOMAIN ops : run[u].at \in Going => ops[u].phase # "Concluded"
  /\ Taking \subseteq Numbered

\* A step the stream does not see.
Still ==
  /\ history' = history
  /\ DOMAIN run' = DOMAIN ops' /\ DOMAIN ops \subseteq DOMAIN ops'
  /\ \A u \in DOMAIN ops :
       /\ ops'[u].phase = "Concluded" <=> ops[u].phase = "Concluded"
       /\ run'[u].at = "write" <=> run[u].at = "write"
       /\ run'[u].at \in Going => run[u].at \in Going \/ ops[u].phase # "Concluded"
  /\ \A u \in DOMAIN ops' \ DOMAIN ops : ops'[u].phase = "" /\ run'[u].at = "idle"

(***************************************************************************)
(* Steps that leave the stream alone.                                      *)
(***************************************************************************)

\* Whatever is appended, the other entries stay where they are.
LEMMA AppendAny ==
  ASSUME NEW S, NEW s \in Seq(S), NEW e
  PROVE  /\ DOMAIN Append(s, e) = DOMAIN s \cup {Len(s) + 1}
         /\ \A i \in DOMAIN s : Append(s, e)[i] = s[i]
         /\ Append(s, e)[Len(s) + 1] = e
<1>1. s \in Seq(S \cup {e})
  OBVIOUS
<1> QED BY <1>1, SeqAppend

\* A reconcile that starts holds no number and, the copy it read being the
\* stored one, is about an Operation that does not read Concluded.
LEMMA Starts ==
  ASSUME TypeInv, NEW o, Ready(o)
  PROVE  /\ o \in DOMAIN ops /\ run[o].at = "idle"
         /\ ~Stale(o) => ops[o].phase # "Concluded"
<1>1. o \in DOMAIN ops /\ DOMAIN run = DOMAIN ops
  BY Reads, ReadyReads
<1> QED BY <1>1 DEF Ready, Busy, Stale

(***************************************************************************)
(* The reconcile of one Operation.                                         *)
(***************************************************************************)

(***************************************************************************)
(* Raising Operations, and the steps of everyone else.                     *)
(***************************************************************************)

(***************************************************************************)
(* The steps of the stream.                                                *)
(***************************************************************************)

\* A step of the stream.
StreamStep == Conclusions!Next \/ UNCHANGED <<history, Taking, Concluded>>

(***************************************************************************)
(* The theorem.                                                            *)
(***************************************************************************)
LEMMA NextIsStreamStep ==
  ASSUME TypeInv, InFlight, LastRemembered, [Next]_vars
  PROVE  InFlight' /\ StreamStep
<1>StillStutters.
  ASSUME TypeInv, InFlight, Still
  PROVE  InFlight' /\ UNCHANGED <<history, Taking, Concluded>>
  <2> USE <1>StillStutters
  <2>1. DOMAIN run = DOMAIN ops
    BY Reads
  <2>2. Taking' = Taking
    BY <2>1, Zenon DEF Still, Taking
  <2>3. Concluded' = Concluded
    BY Zenon DEF Still, Concluded
  <2>4. \A u \in DOMAIN ops' : run'[u].at \in Going => ops'[u].phase # "Concluded"
    BY Zenon DEF Still, InFlight, Going
  <2>5. Numbered' = Numbered
    BY Zenon DEF Still, Numbered
  <2> QED BY <2>2, <2>3, <2>4, <2>5, Zenon DEF InFlight, Still
<1>OneOpStill.
  ASSUME TypeInv, NEW o \in DOMAIN ops, NEW op, NEW r,
         ops' = [ops EXCEPT ![o] = op], run' = [run EXCEPT ![o] = r], history' = history,
         op.phase = "Concluded" <=> ops[o].phase = "Concluded",
         run[o].at # "write", r.at # "write",
         r.at \in Going => run[o].at \in Going \/ ops[o].phase # "Concluded"
  PROVE  Still
  <2> USE <1>OneOpStill
  <2>1. DOMAIN run = DOMAIN ops
    BY Reads
  <2>2. DOMAIN ops' = DOMAIN ops /\ DOMAIN run' = DOMAIN ops /\ ops'[o] = op /\ run'[o] = r
        /\ \A u \in DOMAIN ops \ {o} : ops'[u] = ops[u] /\ run'[u] = run[u]
    BY <2>1
  <2> QED BY <2>2, Zenon DEF Still

\* The same when the Operation itself is not written.
<1>RunStill.
  ASSUME TypeInv, NEW o \in DOMAIN ops, NEW r,
         ops' = ops, run' = [run EXCEPT ![o] = r], history' = history,
         run[o].at # "write", r.at # "write",
         r.at \in Going => run[o].at \in Going \/ ops[o].phase # "Concluded"
  PROVE  Still
  <2> USE <1>RunStill
  <2>1. DOMAIN run = DOMAIN ops
    BY Reads
  <2>2. DOMAIN run' = DOMAIN ops /\ run'[o] = r
        /\ \A u \in DOMAIN ops \ {o} : run'[u] = run[u]
    BY <2>1
  <2> QED BY <2>2, Zenon DEF Still

\* Nothing an Operation's reconcile is at changes.
<1>RestStill.
  ASSUME TypeInv, UNCHANGED <<ops, run, history>>
  PROVE  Still
  BY <1>RestStill, Reads, Zenon DEF Still

\* An Operation is created.
<1>CreatedStill.
  ASSUME TypeInv, NEW op, op.phase = "", ops' = Append(ops, op),
         run' = Append(run, Idle), history' = history
  PROVE  Still
  <2> USE <1>CreatedStill
  <2>1. DOMAIN run = DOMAIN ops /\ ops \in Seq(OpType) /\ run \in Seq(RunType) /\ Len(run) = Len(ops)
    BY Reads, Zenon DEF TypeInv, TypeOK
  <2>2. Idle \in RunType /\ Idle.at = "idle"
    BY IdleType, Zenon DEF Idle
  <2>3. /\ DOMAIN ops' = DOMAIN ops \cup {Len(ops) + 1} /\ ops'[Len(ops) + 1] = op
        /\ \A u \in DOMAIN ops : ops'[u] = ops[u]
    <3>1. ops \in Seq(OpType)
      BY <2>1, Zenon
    <3>2. /\ DOMAIN Append(ops, op) = DOMAIN ops \cup {Len(ops) + 1}
          /\ Append(ops, op)[Len(ops) + 1] = op
          /\ \A u \in DOMAIN ops : Append(ops, op)[u] = ops[u]
      BY ONLY <3>1, AppendAny
    <3> QED BY <3>2, Zenon
  <2>4. /\ DOMAIN run' = DOMAIN run \cup {Len(run) + 1} /\ run'[Len(run) + 1] = Idle
        /\ \A u \in DOMAIN run : run'[u] = run[u]
    <3>1. run \in Seq(RunType) /\ Idle \in RunType
      BY <2>1, <2>2, Zenon
    <3>2. /\ DOMAIN Append(run, Idle) = DOMAIN run \cup {Len(run) + 1}
          /\ Append(run, Idle)[Len(run) + 1] = Idle
          /\ \A u \in DOMAIN run : Append(run, Idle)[u] = run[u]
      BY ONLY <3>1, SeqAppend
    <3> QED BY <3>2, Zenon
  <2> QED BY <2>1, <2>2, <2>3, <2>4, Zenon DEF Still
<1>ConcludeStill.
  ASSUME TypeInv, NEW o \in DOMAIN ops, NEW c, NEW person,
         run[o].at # "write", ops[o].phase # "Concluded", Conclude(o, c, person)
  PROVE  Still
  <2> USE <1>ConcludeStill
  <2>1. PICK r : r = Concluding(o, c, person)
    OBVIOUS
  <2>2. r.at \in {"swap", "raise"}
    BY <2>1 DEF Concluding, Idle
  <2>3. run' = [run EXCEPT ![o] = r] /\ ops' = ops /\ history' = history
    BY <2>1 DEF Conclude
  <2> QED BY <2>2, <2>3, <1>RunStill, Zenon
<1>FinishStill.
  ASSUME TypeInv, NEW o, Ready(o), NEW c, NEW person, Finish(o, c, person)
  PROVE  Still
  <2> USE <1>FinishStill
  <2>1. o \in DOMAIN ops /\ run[o].at = "idle" /\ ops[o].phase # "Concluded"
    BY Starts DEF Finish
  <2> QED BY <2>1, <1>ConcludeStill DEF Finish
<1>SaveStill.
  ASSUME TypeInv, NEW o, Ready(o), NEW op, op.phase # "Concluded", Save(o, op)
  PROVE  Still
  <2> USE <1>SaveStill
  <2>1. o \in DOMAIN ops /\ run[o].at = "idle" /\ ops[o].phase # "Concluded"
    BY Starts DEF Save
  <2>2. run' = [run EXCEPT ![o] = run[o]] /\ history' = history /\ ops' = [ops EXCEPT ![o] = op]
    BY <2>1, Reads DEF Save, TypeInv, TypeOK
  <2>3. PICK r : r = run[o]
    OBVIOUS
  <2> QED BY <2>1, <2>2, <2>3, <1>OneOpStill, Zenon

\* A swap that moves the pointer.
<1>SwapStill.
  ASSUME TypeInv, NEW o, Ready(o), NEW r, r.at # "write",
         run' = (IF Stale(o) THEN run ELSE [run EXCEPT ![o] = r]), UNCHANGED <<ops, history>>
  PROVE  Still
  <2> USE <1>SwapStill
  <2>1. CASE Stale(o)
    BY <2>1, <1>RestStill
  <2>2. CASE ~Stale(o)
    BY <2>2, Starts, <1>RunStill, Zenon
  <2> QED BY <2>1, <2>2
<1>LockStill.
  ASSUME TypeInv, NEW o, Ready(o), NEW person, LockOrLevel(o, person)
  PROVE  Still
  <2> USE <1>LockStill
  <2>1. CASE \E c : Finish(o, c, person)
    BY <2>1, <1>FinishStill
  <2>2. CASE Planned(o, person)
    <3>1. o \in DOMAIN ops /\ run[o].at = "idle" /\ (~Stale(o) => ops[o].phase # "Concluded")
      BY Starts
    <3>2. PICK r : r = [Idle EXCEPT !.at = IF Stale(o) THEN "outdated" ELSE "planned", !.person = person]
      OBVIOUS
    <3>3. r.at = IF Stale(o) THEN "outdated" ELSE "planned"
      BY <3>2 DEF Idle
    <3>4. ops' = ops /\ run' = [run EXCEPT ![o] = r] /\ history' = history
      BY <2>2, <3>2 DEF Planned
    <3>5. r.at # "write" /\ (r.at \in Going => ops[o].phase # "Concluded")
      BY <3>1, <3>3 DEF Going
    <3> QED BY <3>1, <3>4, <3>5, <1>RunStill, Zenon
  <2> QED BY <2>1, <2>2, Zenon DEF LockOrLevel

\* The swap that takes the lock, finds o concluded or the pointer moved, or waits.
<1>LockingStill.
  ASSUME TypeInv, InFlight, NEW o \in DOMAIN ops, Lock(o) \/ LockRefused(o) \/ LockWaits(o)
  PROVE  Still
  <2> USE <1>LockingStill
  <2>1. run[o].at \in {"planned", "outdated"} /\ run[o].at # "write"
    BY DEF Lock, LockRefused, LockWaits
  <2>2. run[o].at = "planned" => ops[o].phase # "Concluded"
    BY DEF InFlight, Going
  <2>3. CASE LockRefused(o)
    BY <2>1, <2>2, <2>3, <1>ConcludeStill DEF LockRefused
  <2>4. CASE LockWaits(o)
    <3>1. PICK r : r = Idle
      OBVIOUS
    <3>2. r.at = "idle" /\ ops' = ops /\ run' = [run EXCEPT ![o] = r] /\ history' = history
      BY <2>4, <3>1 DEF LockWaits, Idle
    <3> QED BY <2>1, <3>2, <1>RunStill, Zenon DEF Going
  <2>5. CASE Lock(o)
    <3>1. o \in DOMAIN run /\ run[o] \in RunType
      BY Reads
    <3>2. PICK r : r = IF run[o].at = "outdated" THEN Idle ELSE [run[o] EXCEPT !.at = "locked"]
      OBVIOUS
    <3>3. ops' = ops /\ run' = [run EXCEPT ![o] = r] /\ history' = history
      BY <2>5, <3>1, <3>2 DEF Lock
    <3>4. r.at = IF run[o].at = "outdated" THEN "idle" ELSE "locked"
      BY <3>1, <3>2 DEF Idle, RunType
    <3>5. r.at # "write" /\ (r.at \in Going => ops[o].phase # "Concluded")
      BY <2>1, <2>2, <3>4 DEF Going
    <3> QED BY <2>1, <3>3, <3>5, <1>RunStill, Zenon
  <2> QED BY <2>3, <2>4, <2>5
<1>BeforeLockStill.
  ASSUME TypeInv, NEW o,
         \/ FinishAgain(o) \/ Admit(o) \/ PreApplyExit(o) \/ Supersede(o) \/ FreezeOrUnfreeze(o)
         \/ Pend(o) \/ HeldReject(o) \/ HeldAskAgain(o) \/ HeldApprove(o)
  PROVE  Still
  <2> USE <1>BeforeLockStill
  <2>1. Ready(o)
    BY Zenon DEF FinishAgain, Admit, PreApplyExit, Supersede, FreezeOrUnfreeze, Pend, HeldReject,
           HeldAskAgain, HeldApprove, In
  <2>2. o \in DOMAIN ops /\ ops[o] \in OpType /\ (~Stale(o) => ops[o].phase # "Concluded")
    BY <2>1, ReadyReads, Starts, Zenon
  <2>3. CASE \E c, person : Finish(o, c, person)
    BY <2>1, <2>3, <1>FinishStill
  <2>4. CASE \E person : LockOrLevel(o, person)
    BY <2>1, <2>4, <1>LockStill
  <2>5. CASE \E p \in {"Pending", "Held"} : Save(o, [ops[o] EXCEPT !.phase = p])
    <3>1. PICK p \in {"Pending", "Held"} : Save(o, [ops[o] EXCEPT !.phase = p])
      BY <2>5
    <3>2. PICK op : op = [ops[o] EXCEPT !.phase = p]
      BY Zenon
    <3>3. op.phase # "Concluded"
      BY <2>2, <3>1, <3>2 DEF OpType
    <3> QED BY <2>1, <3>1, <3>2, <3>3, <1>SaveStill, Zenon
  <2>6. CASE Save(o, [ops[o] EXCEPT !.person = TRUE])
    <3>1. PICK op : op = [ops[o] EXCEPT !.person = TRUE]
      BY Zenon
    <3>2. op.phase = ops[o].phase
      BY <2>2, <3>1 DEF OpType
    <3>3. op.phase # "Concluded"
      BY <2>2, <2>6, <3>2 DEF Save
    <3> QED BY <2>1, <2>6, <3>1, <3>3, <1>SaveStill, Zenon
  <2>7. Admit(o) => (\E c, person : Finish(o, c, person)) \/ Save(o, [ops[o] EXCEPT !.phase = "Pending"])
    BY Zenon DEF Admit
  <2>8. Pend(o) \/ HeldApprove(o) => \/ \E c, person : Finish(o, c, person)
                                     \/ \E person : LockOrLevel(o, person)
                                     \/ Save(o, [ops[o] EXCEPT !.phase = "Held"])
    BY Zenon DEF Pend, HeldApprove
  <2>9. FinishAgain(o) \/ PreApplyExit(o) \/ Supersede(o) \/ FreezeOrUnfreeze(o) \/ HeldReject(o)
          => \E c, person : Finish(o, c, person)
    BY Zenon DEF FinishAgain, PreApplyExit, Supersede, FreezeOrUnfreeze, HeldReject
  <2>10. HeldAskAgain(o) => Save(o, [ops[o] EXCEPT !.person = TRUE])
    BY DEF HeldAskAgain
  <2> QED BY <2>3, <2>4, <2>5, <2>6, <2>7, <2>8, <2>9, <2>10, SMTT(30)
<1>MovingStill.
  ASSUME TypeInv, InFlight, NEW o \in DOMAIN ops,
         \/ WriteRunning(o) \/ ExecutionDeadline(o) \/ MoveSwap(o) \/ WriteApplied(o)
         \/ ForeignWriter(o) \/ ReadBefore(o) \/ Patch(o)
         \/ ApplyFailed(o) \/ NotAppliedYet(o) \/ AppliedOk(o)
  PROVE  Still
  <2> USE <1>MovingStill
  <2>1. o \in DOMAIN run /\ run[o] \in RunType /\ ops[o] \in OpType
    BY Reads
  <2>2. run[o].at \in Going => ops[o].phase # "Concluded"
    BY DEF InFlight
  <2>3. Idle.at = "idle"
    BY DEF Idle
  <2>4. Applying(o) => run[o].at \in {"idle", "apply"}
    BY Starts, Zenon DEF Applying, In
  <2>5. Applying(o) /\ Current(o) => ops[o].phase # "Concluded"
    BY <2>2, Starts DEF Applying, Current, In, Going
  <2>6. CASE \E c, person : Applying(o) /\ Current(o) /\ Conclude(o, c, person)
    <3>1. run[o].at # "write"
      BY <2>4, <2>6
    <3> QED BY <2>5, <2>6, <3>1, <1>ConcludeStill, Zenon
  <2>7. CASE ForeignWriter(o) \/ ApplyFailed(o)
    BY <2>6, <2>7, Zenon DEF ForeignWriter, ApplyFailed
  <2>8. CASE ExecutionDeadline(o)
    BY <2>8, <1>FinishStill DEF ExecutionDeadline, In
  <2>9. CASE WriteRunning(o)
    <3>1. PICK op : op = [ops[o] EXCEPT !.phase = "Running", !.person = run[o].person]
      OBVIOUS
    <3>2. op.phase = "Running"
      BY <2>1, <3>1 DEF OpType
    <3>3. ops' = [ops EXCEPT ![o] = op] /\ run[o].at = "locked"
          /\ run' = [run EXCEPT ![o] = Idle] /\ history' = history
      BY <2>9, <3>1, Zenon DEF WriteRunning
    <3>4. PICK r : r = Idle
      OBVIOUS
    <3> QED BY <2>2, <2>3, <3>2, <3>3, <3>4, <1>OneOpStill, Zenon DEF Going
  <2>10. CASE WriteApplied(o)
    <3>1. PICK op : op = [ops[o] EXCEPT !.applied = TRUE]
      BY Zenon
    <3>2. op.phase = ops[o].phase
      BY <2>1, <3>1 DEF OpType
    <3>3. PICK r : r = [run[o] EXCEPT !.at = "apply"]
      BY Zenon
    <3>4. r.at = "apply"
      BY <2>1, <3>3 DEF RunType
    <3>5. ops' = [ops EXCEPT ![o] = op] /\ run[o].at = "moved"
          /\ run' = [run EXCEPT ![o] = r] /\ history' = history
      BY <2>10, <3>1, <3>3 DEF WriteApplied
    <3> QED BY <3>2, <3>4, <3>5, <1>OneOpStill, Zenon DEF Going
  <2>11. CASE MoveSwap(o)
    <3>1. Ready(o)
      BY <2>11 DEF MoveSwap, In
    <3>2. CASE \E c, person : Finish(o, c, person)
      BY <3>1, <3>2, <1>FinishStill
    <3>3. CASE /\ run' = (IF Stale(o) THEN run ELSE [run EXCEPT ![o].at = "moved"])
               /\ UNCHANGED <<ops, history>>
      <4>1. PICK r : r = [run[o] EXCEPT !.at = "moved"]
        BY Zenon
      <4>2. r.at = "moved"
        BY <2>1, <4>1 DEF RunType
      <4>3. [run EXCEPT ![o].at = "moved"] = [run EXCEPT ![o] = r]
        BY <2>1, <4>1
      <4> QED BY <3>1, <3>3, <4>2, <4>3, <1>SwapStill, SMTT(30)
    <3> QED BY <2>11, <3>2, <3>3 DEF MoveSwap
  <2>12. CASE ReadBefore(o)
    <3>1. PICK r : r = [Idle EXCEPT !.at = "patch"]
      BY Zenon
    <3>2. r.at = "patch"
      BY <3>1 DEF Idle
    <3>3. run' = [run EXCEPT ![o] = r] /\ ops' = ops /\ history' = history /\ Applying(o)
      BY <2>12, <3>1 DEF ReadBefore
    <3> QED BY <2>4, <3>2, <3>3, <1>RunStill, Zenon DEF Going
  <2>13. CASE Patch(o) \/ NotAppliedYet(o)
    <3>1. PICK r : r = Idle
      OBVIOUS
    <3>2. run' = [run EXCEPT ![o] = r] /\ ops' = ops /\ history' = history
          /\ run[o].at \in {"patch", "apply"}
      BY <2>13, <3>1 DEF Patch, NotAppliedYet
    <3> QED BY <2>3, <3>1, <3>2, <1>RunStill, Zenon DEF Going
  <2>14. CASE AppliedOk(o)
    <3>1. CASE ops[o].type = "override"
      BY <2>6, <2>14, <3>1 DEF AppliedOk
    <3>2. CASE ops[o].type # "override"
      <4>1. PICK op : op = [ops[o] EXCEPT !.phase = "Verifying"]
        BY Zenon
      <4>2. op.phase = "Verifying"
        BY <2>1, <4>1 DEF OpType
      <4>3. PICK r : r = Idle
        OBVIOUS
      <4>4. ops' = [ops EXCEPT ![o] = op] /\ run' = [run EXCEPT ![o] = r] /\ history' = history
            /\ Applying(o) /\ Current(o)
        BY <2>14, <3>2, <4>1, <4>3, SMTT(30) DEF AppliedOk
      <4> QED BY <2>3, <2>4, <2>5, <4>2, <4>3, <4>4, <1>OneOpStill, Zenon DEF Going
    <3> QED BY <3>1, <3>2
  <2> QED BY <2>7, <2>8, <2>9, <2>10, <2>11, <2>12, <2>13, <2>14, SMTT(30)
<1>JudgingStill.
  ASSUME TypeInv, NEW o, Preempted(o) \/ Verify(o) \/ VerifyDeadline(o) \/ HeldDecision(o)
  PROVE  Still
  <2> USE <1>JudgingStill
  <2>1. Ready(o)
    BY Zenon DEF Preempted, Verify, VerifyDeadline, HeldDecision, Shipped, In
  <2>2. CASE \E c, person : Finish(o, c, person)
    BY <2>1, <2>2, <1>FinishStill
  <2>3. CASE VerifyDeadline(o)
    <3>1. ops[o] \in OpType
      BY <2>1, ReadyReads
    <3>2. PICK op : op = [ops[o] EXCEPT !.phase = "Held"]
      BY Zenon
    <3>3. op.phase = "Held"
      BY <3>1, <3>2 DEF OpType
    <3> QED BY <2>1, <2>3, <3>2, <3>3, <1>SaveStill, Zenon DEF VerifyDeadline
  <2> QED BY <2>2, <2>3, Zenon DEF Preempted, Verify, HeldDecision

\* The reconcile of o raises op, or finds its name taken.
<1>RaiseOwedStill.
  ASSUME TypeInv, NEW o \in DOMAIN ops, RaiseOwed(o)
  PROVE  Still
  <2> USE <1>RaiseOwedStill
  <2> DEFINE op   == Head(run[o].todo)
             rest == Tail(run[o].todo)
             on   == [run[o] EXCEPT !.at    = IF rest = <<>> THEN "swap" ELSE @,
                                    !.todo  = rest,
                                    !.squat = @ \/ Raise(op) = "squat"]
             r    == IF Raise(op) = "error" THEN Idle ELSE on
             steps == [run EXCEPT ![o] = r]
  <2>1. /\ run[o] \in RunType /\ run[o].at = "raise" /\ run[o].todo # <<>>
        /\ ops \in Seq(OpType) /\ run \in Seq(RunType) /\ Len(run) = Len(ops) /\ DOMAIN run = DOMAIN ops
    BY Reads DEF RaiseOwed, TypeInv, TypeOK
  <2>2. op \in OpType /\ op.phase = "" /\ rest \in Seq(RaisedType)
    <3>1. run[o].todo \in Seq(RaisedType)
      BY <2>1 DEF RunType
    <3>2. op \in RaisedType /\ rest \in Seq(RaisedType)
      BY <2>1, <3>1, SeqHeadTail
    <3> QED BY <3>2, Zenon DEF RaisedType
  <2>3. on \in RunType /\ on.at \in {"raise", "swap"}
    BY <2>1, <2>2, Zenon DEF RunType
  <2>4. r \in RunType /\ r.at \in {"idle", "raise", "swap"}
    BY <2>3, IdleType
  <2>5. ops' = OpsAfter(op) /\ run' = RunAfter(op, steps) /\ history' = history
    BY DEF RaiseOwed
  <2> HIDE DEF op, r
  <2>6. CASE Raise(op) # "created"
    <3>1. ops' = ops /\ run' = [run EXCEPT ![o] = r]
      BY <2>5, <2>6, SMTT(30) DEF OpsAfter, RunAfter
    <3> QED BY <2>1, <2>4, <2>5, <3>1, <1>RunStill, Zenon DEF Going
  <2>7. CASE Raise(op) = "created"
    <3>1. steps \in Seq(RunType) /\ Len(steps) = Len(ops) /\ DOMAIN steps = DOMAIN ops
          /\ steps[o] = r /\ \A u \in DOMAIN ops \ {o} : steps[u] = run[u]
      BY <2>1, <2>4, SeqExcept
    <3>2. ops' = Append(ops, op) /\ run' = Append(steps, Idle)
      BY <2>5, <2>7 DEF OpsAfter, RunAfter
    <3> HIDE DEF steps
    <3>3. Idle \in RunType /\ Idle.at = "idle"
      BY IdleType
    <3>4. /\ DOMAIN ops' = DOMAIN ops \cup {Len(ops) + 1} /\ ops'[Len(ops) + 1] = op
          /\ \A u \in DOMAIN ops : ops'[u] = ops[u]
      <4>1. /\ DOMAIN Append(ops, op) = DOMAIN ops \cup {Len(ops) + 1}
            /\ Append(ops, op)[Len(ops) + 1] = op
            /\ \A u \in DOMAIN ops : Append(ops, op)[u] = ops[u]
        BY ONLY <2>1, AppendAny
      <4> QED BY <3>2, <4>1
    <3>5. /\ DOMAIN run' = DOMAIN steps \cup {Len(ops) + 1} /\ run'[Len(ops) + 1] = Idle
          /\ \A u \in DOMAIN steps : run'[u] = steps[u]
      <4>1. /\ DOMAIN Append(steps, Idle) = DOMAIN steps \cup {Len(steps) + 1}
            /\ Append(steps, Idle)[Len(steps) + 1] = Idle
            /\ \A u \in DOMAIN steps : Append(steps, Idle)[u] = steps[u]
        BY ONLY <3>1, <3>3, SeqAppend
      <4> QED BY <3>1, <3>2, <4>1
    <3>6. \A u \in DOMAIN ops : u # o => run'[u] = run[u] /\ ops'[u] = ops[u]
      BY <3>1, <3>4, <3>5
    <3>7. run'[o] = r /\ ops'[o] = ops[o]
      BY <3>1, <3>4, <3>5
    <3> QED BY <2>1, <2>2, <2>4, <2>5, <3>1, <3>3, <3>4, <3>5, <3>6, <3>7, Zenon DEF Still, Going
  <2> QED BY <2>6, <2>7

\* The stage reconciler raises op, or finds its name taken.
<1>RaiseStill.
  ASSUME TypeInv, NEW op, op.phase = "", ops' = OpsAfter(op), run' = RunAfter(op, run),
         history' = history
  PROVE  Still
  <2> USE <1>RaiseStill
  <2>1. CASE Raise(op) = "created"
    BY <2>1, <1>CreatedStill, Zenon DEF OpsAfter, RunAfter
  <2>2. CASE Raise(op) # "created"
    BY <2>2, <1>RestStill, Zenon DEF OpsAfter, RunAfter
  <2> QED BY <2>1, <2>2, Zenon
<1>NewPhase.
  /\ \A type, class, from, to, undoes, cause, name :
       NewOp(type, class, from, to, undoes, cause, name).phase = ""
  /\ \A o, op : RollbackOf(o, op).phase = ""
  BY DEF NewOp, RollbackOf
<1>StageStill.
  ASSUME TypeInv, StageStarts \/ StageGoesOn
  PROVE  Still
  <2> USE <1>StageStill
  <2>1. CASE UNCHANGED <<ops, run, history>>
    BY <2>1, <1>RestStill
  <2>2. \A next : SrGoes(next) => UNCHANGED <<ops, run, history>>
    BY DEF SrGoes, SrRest
  <2>3. ASSUME NEW op, op.phase = "", SrRaise(op)
        PROVE  Still
    BY <2>3, <1>RaiseStill, Zenon DEF SrRaise, SrRest
  <2>4. CASE WitnessRead \/ AutoRead \/ RecheckRun \/ ShadowRead \/ RecheckDecide
    BY <2>1, <2>2, <2>4 DEF WitnessRead, AutoRead, RecheckRun, ShadowRead, RecheckDecide
  <2>5. CASE SrFreeze \/ RecheckPass \/ RecheckRecord \/ ShadowObserve \/ ShadowVerify
    BY <2>1, <2>5 DEF SrFreeze, RecheckPass, RecheckRecord, ShadowObserve, ShadowVerify, SrRest
  <2>6. CASE AutoRaise
    <3>1. sr \in SrType /\ sr.todo # <<>>
      BY <2>6 DEF AutoRaise, TypeInv, TypeOK
    <3>2. sr.todo \in Seq(RaisedType)
      BY <3>1 DEF SrType
    <3>3. PICK op : op = Head(sr.todo)
      OBVIOUS
    <3>4. op \in RaisedType
      BY <3>1, <3>2, <3>3, SeqHeadTail, SMTT(30)
    <3>5. op.phase = "" /\ (SrGoes(SrIdle) \/ SrRaise(op))
      BY <2>6, <3>3, <3>4, Zenon DEF AutoRaise, RaisedType
    <3> QED BY <2>1, <2>2, <2>3, <3>5, Zenon
  <2>7. CASE WitnessRaise
    <3>1. PICK op : op = NewOp("override", "controller", stage.pointer, sr.digest, NoOp, NoOp,
                               Name("witnessed", stage.seq, stage.pointer, sr.digest))
      OBVIOUS
    <3>2. op.phase = "" /\ (SrGoes(SrIdle) \/ SrRaise(op))
      BY <2>7, <3>1, <1>NewPhase, ZenonT(40) DEF WitnessRaise
    <3> QED BY <2>1, <2>2, <2>3, <3>2, Zenon
  <2>8. CASE RecheckRollback \/ Reraise
    <3>1. PICK o, f : SrRaise(RollbackOf(o, f))
      BY <2>8, Zenon DEF RecheckRollback, Reraise
    <3>2. PICK op : op = RollbackOf(o, f)
      OBVIOUS
    <3>3. op.phase = ""
      BY <3>2, <1>NewPhase, Zenon
    <3>4. SrRaise(op)
      BY <3>1, <3>2, Zenon
    <3> QED BY <2>3, <3>3, <3>4, Zenon
  <2>9. CASE RecheckRaise
    <3>1. sr \in SrType /\ sr.todo # <<>>
      BY <2>9 DEF RecheckRaise, TypeInv, TypeOK
    <3>2. sr.todo \in Seq(RaisedType)
      BY <3>1 DEF SrType
    <3>3. PICK op : op = Head(sr.todo)
      OBVIOUS
    <3>4. op \in RaisedType
      BY <3>1, <3>2, <3>3, SeqHeadTail, SMTT(30)
    <3>5. op.phase = "" /\ ops' = OpsAfter(op) /\ run' = RunAfter(op, run) /\ history' = history
      BY <2>9, <3>3, <3>4, Zenon DEF RecheckRaise, SrRest, RaisedType
    <3> QED BY <3>5, <1>RaiseStill, Zenon
  <2> QED BY <2>4, <2>5, <2>6, <2>7, <2>8, <2>9, SMTT(30) DEF StageStarts, StageGoesOn
<1>OutsideStill.
  ASSUME TypeInv, SrAbort \/ Request \/ Squat \/ Edit \/ CatchUpOps \/ CatchUpStage
  PROVE  Still
  <2> USE <1>OutsideStill
  <2>1. CASE SrAbort \/ Edit \/ CatchUpOps \/ CatchUpStage
    BY <2>1, <1>RestStill, SMTT(30) DEF SrAbort, Edit, CatchUpOps, CatchUpStage
  <2>2. CASE Request
    <3>1. PICK ask \in Asks : \E op \in Intents(ask[1], ask[2]) :
            ops' = Append(ops, op) /\ run' = Append(run, Idle)
      BY <2>2 DEF Request
    <3>2. PICK type \in Types, class \in Classes : type = ask[1] /\ class = ask[2]
      BY StartAssumption
    <3>3. PICK op \in Intents(type, class) : ops' = Append(ops, op) /\ run' = Append(run, Idle)
      BY <3>1, <3>2
    <3>4. op.phase = ""
      BY <3>3, IntentsType, ZenonT(40) DEF RaisedType
    <3> QED BY <2>2, <3>3, <3>4, <1>CreatedStill, Zenon DEF Request
  <2>3. CASE Squat
    <3>1. PICK name : /\ ops' = Append(ops, NewOp("freeze", "human", stage.pointer, NoDigest, NoOp, NoOp, name))
                      /\ run' = Append(run, Idle)
      BY <2>3, ZenonT(30) DEF Squat
    <3>2. PICK op : op = NewOp("freeze", "human", stage.pointer, NoDigest, NoOp, NoOp, name)
      OBVIOUS
    <3>3. op.phase = "" /\ ops' = Append(ops, op) /\ run' = Append(run, Idle)
      BY <3>1, <3>2, <1>NewPhase, ZenonT(40)
    <3> QED BY <2>3, <3>3, <1>CreatedStill, Zenon DEF Squat
  <2> QED BY <2>1, <2>2, <2>3, SMTT(30)

\* What the Stage remembers is what the stream remembers.
<1>SameMemory.
  ASSUME TypeInv, LastRemembered, NEW o
  PROVE  ConcludedOn(stage, o) <=> o \in Conclusions!RememberedOps
  <2> USE <1>SameMemory
  <2> DEFINE n == Len(history)
             k == Len(stage.concluded)
  <2>1. history \in Seq(Nat) /\ stage.concluded \in Seq(EntryType)
    BY DEF TypeInv, TypeOK, StageType
  <2>2. /\ n \in Nat /\ k \in Nat /\ DOMAIN history = 1 .. n /\ DOMAIN stage.concluded = 1 .. k
        /\ MaxConcluded \in Nat /\ MaxConcluded > 0
    BY <2>1, MaxConcludedAssumption
  <2>3. /\ k = IF n > MaxConcluded THEN MaxConcluded ELSE n
        /\ \A i \in 1 .. k : stage.concluded[i].uid = history[n - k + i]
    BY <2>2, Zenon DEF LastRemembered
  <2>4. o \in Conclusions!RememberedOps <=> \E m \in 1 .. n : m + MaxConcluded > n /\ history[m] = o
    BY <2>2 DEF Conclusions!RememberedOps, Conclusions!Remembered
  <2>5. ConcludedOn(stage, o) <=> \E i \in 1 .. k : history[n - k + i] = o
    BY <2>2, <2>3, Zenon DEF ConcludedOn
  <2> HIDE DEF n, k
  <2>6. ASSUME NEW i \in 1 .. k
        PROVE  n - k + i \in 1 .. n /\ (n - k + i) + MaxConcluded > n
    BY <2>2, <2>3
  <2>7. ASSUME NEW m \in 1 .. n, m + MaxConcluded > n
        PROVE  m - (n - k) \in 1 .. k /\ n - k + (m - (n - k)) = m
    BY <2>2, <2>3, <2>7
  <2> QED BY <2>4, <2>5, <2>6, <2>7

\* Who moves to "write" with a number, and nobody else does.
<1>TakesNumber.
  ASSUME TypeInv, InFlight, NEW o \in DOMAIN ops, NEW r, r.at = "write", run[o].at = "swap",
         run' = [run EXCEPT ![o] = r], ops' = ops,
         Numbered \subseteq Numbered', o \in Numbered'
  PROVE  /\ InFlight' /\ Taking' = Taking \cup {o} /\ Concluded' = Concluded
         /\ o \notin Taking \cup Concluded
  <2> USE <1>TakesNumber
  <2>1. DOMAIN run = DOMAIN ops
    BY Reads
  <2>2. DOMAIN run' = DOMAIN run /\ run'[o] = r /\ \A u \in DOMAIN run \ {o} : run'[u] = run[u]
    BY <2>1
  <2>3. ops[o].phase # "Concluded"
    BY DEF InFlight, Going
  <2>4. Taking' = Taking \cup {o} /\ o \notin Taking
    BY <2>1, <2>2 DEF Taking
  <2>5. Concluded' = Concluded /\ o \notin Concluded
    BY <2>3 DEF Concluded
  <2>6. \A u \in DOMAIN ops' : run'[u].at \in Going => ops'[u].phase # "Concluded"
    BY <2>1, <2>2, <2>3 DEF InFlight
  <2>7. Taking' \subseteq Numbered'
    BY <2>4 DEF InFlight
  <2> QED BY <2>4, <2>5, <2>6, <2>7, SMTT(30) DEF InFlight

\* Who leaves "write" has its number, whether or not it was written.
<1>LeavesWrite.
  ASSUME TypeInv, InFlight, NEW o \in DOMAIN ops, run[o].at = "write",
         run' = [run EXCEPT ![o] = Idle], history' = history,
         DOMAIN ops' = DOMAIN ops, \A u \in DOMAIN ops \ {o} : ops'[u] = ops[u]
  PROVE  /\ InFlight' /\ Taking' = Taking \ {o} /\ o \in Taking /\ o \in Numbered
  <2> USE <1>LeavesWrite
  <2>1. DOMAIN run = DOMAIN ops /\ Idle.at = "idle"
    BY Reads DEF Idle
  <2>2. DOMAIN run' = DOMAIN run /\ run'[o].at = "idle" /\ \A u \in DOMAIN run \ {o} : run'[u] = run[u]
    BY <2>1
  <2>3. Taking' = Taking \ {o} /\ o \in Taking
    BY <2>1, <2>2 DEF Taking
  <2>4. Numbered' = Numbered
    BY DEF Numbered
  <2>5. \A u \in DOMAIN ops' : run'[u].at \in Going => ops'[u].phase # "Concluded"
    BY <2>1, <2>2 DEF InFlight, Going
  <2> QED BY <2>3, <2>4, <2>5, SMTT(30) DEF InFlight
<1>SwapTakes.
  ASSUME TypeInv, InFlight, LastRemembered, NEW o \in DOMAIN ops, Swap(o)
  PROVE  InFlight' /\ StreamStep
  <2> USE <1>SwapTakes
  <2>1. /\ run[o].at = "swap" /\ ~ConcludedOn(stage, o) /\ history' = Append(history, o) /\ ops' = ops
    BY DEF Swap
  <2>2. history \in Seq(Nat) /\ o \in Nat
    BY Reads DEF TypeInv, TypeOK
  <2>3. /\ DOMAIN history' = DOMAIN history \cup {Len(history) + 1}
        /\ history'[Len(history) + 1] = o
        /\ \A i \in DOMAIN history : history'[i] = history[i]
    <3>1. /\ DOMAIN Append(history, o) = DOMAIN history \cup {Len(history) + 1}
          /\ Append(history, o)[Len(history) + 1] = o
          /\ \A i \in DOMAIN history : Append(history, o)[i] = history[i]
      BY ONLY <2>2, AppendAny
    <3> QED BY <2>1, <3>1
  <2>4. Numbered \subseteq Numbered' /\ o \in Numbered'
    BY <2>3 DEF Numbered
  <2>5. PICK c : run' = [run EXCEPT ![o].at = "write", ![o].c = c]
    BY Zenon DEF Swap
  <2>6. run[o] \in RunType /\ o \in DOMAIN run
    BY Reads
  <2>7. PICK r : r = [run[o] EXCEPT !.at = "write", !.c = c]
    OBVIOUS
  <2>8. r.at = "write" /\ run' = [run EXCEPT ![o] = r]
    BY <2>5, <2>6, <2>7, Zenon DEF RunType
  <2>9. /\ InFlight' /\ Taking' = Taking \cup {o} /\ Concluded' = Concluded
        /\ o \notin Taking \cup Concluded
    BY <2>1, <2>4, <2>8, <1>TakesNumber, Zenon
  <2>10. o \notin Conclusions!RememberedOps
    BY <2>1, <1>SameMemory
  <2>11. Conclusions!Take(o)
    BY <2>1, <2>9, <2>10, SMTT(30) DEF Conclusions!Take
  <2>12. o \in {history'[n] : n \in DOMAIN history'}
    BY <2>4 DEF Numbered
  <2>13. Conclusions!Next
    BY <2>11, <2>12 DEF Conclusions!Next
  <2> QED BY <2>9, <2>13, SMTT(30) DEF StreamStep
<1>SwapTakesAgain.
  ASSUME TypeInv, InFlight, LastRemembered, NEW o \in DOMAIN ops, SwapAgain(o)
  PROVE  InFlight' /\ StreamStep
  <2> USE <1>SwapTakesAgain
  <2>1. run[o].at = "swap" /\ ConcludedOn(stage, o) /\ history' = history /\ ops' = ops
    BY DEF SwapAgain
  <2>2. o \in Conclusions!RememberedOps
    BY <2>1, <1>SameMemory, SMTT(30)
  <2>3. o \in Numbered /\ Numbered' = Numbered
    BY <2>1, <2>2 DEF Conclusions!RememberedOps, Conclusions!Remembered, Numbered
  <2>4. PICK c : run' = [run EXCEPT ![o].at = "write", ![o].c = c]
    BY Zenon DEF SwapAgain
  <2>5. run[o] \in RunType /\ o \in DOMAIN run
    BY Reads
  <2>6. PICK r : r = [run[o] EXCEPT !.at = "write", !.c = c]
    OBVIOUS
  <2>7. r.at = "write" /\ run' = [run EXCEPT ![o] = r]
    BY <2>4, <2>5, <2>6, Zenon DEF RunType
  <2>8. /\ InFlight' /\ Taking' = Taking \cup {o} /\ Concluded' = Concluded
        /\ o \notin Taking \cup Concluded
    BY <2>1, <2>3, <2>7, <1>TakesNumber, Zenon
  <2>9. Conclusions!TakeAgain(o)
    BY <2>1, <2>2, <2>8, SMTT(30) DEF Conclusions!TakeAgain
  <2>10. o \in {history'[n] : n \in DOMAIN history'}
    BY <2>3 DEF Numbered
  <2>11. Conclusions!Next
    BY <2>9, <2>10 DEF Conclusions!Next
  <2> QED BY <2>8, <2>11 DEF StreamStep
<1>WriteWrites.
  ASSUME TypeInv, InFlight, NEW o \in DOMAIN ops, WriteConcluded(o)
  PROVE  InFlight' /\ StreamStep
  <2> USE <1>WriteWrites
  <2>1. ops[o] \in OpType
    BY Reads
  <2>2. PICK op : op = [ops[o] EXCEPT !.phase = "Concluded", !.outcome = run[o].c.outcome,
                                      !.verification = run[o].c.verification,
                                      !.person = run[o].person]
    OBVIOUS
  <2>3. op.phase = "Concluded"
    BY <2>1, <2>2 DEF OpType
  <2>4. ops' = [ops EXCEPT ![o] = op] /\ run[o].at = "write" /\ run' = [run EXCEPT ![o] = Idle]
        /\ history' = history
    BY <2>2, Zenon DEF WriteConcluded
  <2>5. DOMAIN ops' = DOMAIN ops /\ ops'[o] = op /\ \A u \in DOMAIN ops \ {o} : ops'[u] = ops[u]
    BY <2>4
  <2>6. InFlight' /\ Taking' = Taking \ {o} /\ o \in Taking /\ o \in Numbered
    BY <2>4, <2>5, <1>LeavesWrite, ZenonT(40)
  <2>7. Concluded' = Concluded \cup {o}
    BY <2>3, <2>5, SMTT(30) DEF Concluded
  <2>8. Conclusions!Write(o)
    BY <2>4, <2>6, <2>7, SMTT(30) DEF Conclusions!Write
  <2>9. o \in {history'[n] : n \in DOMAIN history'}
    BY <2>4, <2>6 DEF Numbered
  <2>10. Conclusions!Next
    BY <2>8, <2>9 DEF Conclusions!Next
  <2> QED BY <2>6, <2>10, SMTT(30) DEF StreamStep
<1>AbortLoses.
  ASSUME TypeInv, InFlight, NEW o \in DOMAIN ops, Abort(o)
  PROVE  InFlight' /\ StreamStep
  <2> USE <1>AbortLoses
  <2>1. run' = [run EXCEPT ![o] = Idle] /\ history' = history /\ ops' = ops
    BY DEF Abort
  <2>2. CASE run[o].at # "write"
    <3>1. PICK r : r = Idle
      OBVIOUS
    <3>2. r.at = "idle"
      BY <3>1 DEF Idle
    <3>3. Still
      BY <2>1, <2>2, <3>1, <3>2, <1>RunStill, Zenon DEF Going
    <3> QED BY <3>3, <1>StillStutters DEF StreamStep
  <2>3. CASE run[o].at = "write"
    <3>1. InFlight' /\ Taking' = Taking \ {o} /\ o \in Taking /\ o \in Numbered
      BY <2>1, <2>3, <1>LeavesWrite, Zenon
    <3>2. Concluded' = Concluded
      BY <2>1 DEF Concluded
    <3>3. Conclusions!Lose(o)
      BY <2>1, <3>1, <3>2, SMTT(30) DEF Conclusions!Lose
    <3>4. o \in {history'[n] : n \in DOMAIN history'}
      BY <2>1, <3>1, SMTT(30) DEF Numbered
    <3>5. Conclusions!Next
      BY <3>3, <3>4 DEF Conclusions!Next
    <3> QED BY <3>1, <3>5 DEF StreamStep
  <2> QED BY <2>2, <2>3
<1>1. Still => InFlight' /\ StreamStep
  BY <1>StillStutters, SMTT(30) DEF StreamStep
<1>2. ASSUME NEW o \in DOMAIN ops, Advance(o) PROVE InFlight' /\ StreamStep
  BY SMTT(30), <1>1, <1>2, <1>RaiseOwedStill, <1>SwapTakesAgain, <1>SwapTakes, <1>WriteWrites, <1>BeforeLockStill,
     <1>LockingStill, <1>MovingStill, <1>JudgingStill DEF Advance
<1>3. ASSUME NEW o \in DOMAIN ops, Abort(o) PROVE InFlight' /\ StreamStep
  BY <1>3, <1>AbortLoses
<1>4. CASE StageStarts \/ StageGoesOn
  BY <1>1, <1>4, <1>StageStill
<1>5. CASE SrAbort \/ Request \/ Squat \/ Edit \/ CatchUpOps \/ CatchUpStage
  BY <1>1, <1>5, <1>OutsideStill, SMTT(30)
<1>6. CASE UNCHANGED vars
  BY <1>1, <1>6, <1>RestStill DEF vars
<1> QED BY <1>2, <1>3, <1>4, <1>5, <1>6, SMTT(30) DEF Next

\* The promoter implements the stream of conclusions, for any number of
\* Operations, workers, lost reconciles and however far the caches lag: every step
\* of it takes a number, takes it again, writes it, loses the write or leaves the
\* stream alone.
THEOREM PromoterRefinesStream == Spec => ImplementsStream
<1>1. Init => InFlight /\ Conclusions!Init
  <2> SUFFICES ASSUME Init PROVE InFlight /\ Conclusions!Init
    OBVIOUS
  <2>1. ops = <<>> /\ run = <<>> /\ history = <<>> /\ DOMAIN <<>> = {}
    BY SMTT(30) DEF Init
  <2> QED BY <2>1 DEF InFlight, Taking, Concluded, Conclusions!Init
<1>2. TypeInv /\ LastRemembered /\ InFlight /\ [Next]_vars => InFlight' /\ [Conclusions!Next]_(Conclusions!vars)
  BY NextIsStreamStep DEF StreamStep, Conclusions!vars
<1>3. TypeOK /\ OnlyPointerOpsMove => TypeInv
  BY DEF TypeInv
<1> QED BY <1>1, <1>2, <1>3, TypeCorrect, ConcludedOnce, PTL DEF Spec, ImplementsStream, Conclusions!Spec

(***************************************************************************)
(* What a step leaves alone.                                               *)
(***************************************************************************)
\* An Operation nobody reconciled yet.
Fresh(op) == op.phase = "" /\ ~op.applied

\* Operations are only ever added, and an added one is fresh.
Created ==
  /\ DOMAIN ops \subseteq DOMAIN ops' /\ DOMAIN run' = DOMAIN ops'
  /\ \A u \in DOMAIN ops' \ DOMAIN ops : Fresh(ops'[u]) /\ run'[u] = Idle

\* Nobody's Operation or reconcile but o's changes.
OnlyOf(o) ==
  /\ Created
  /\ \A u \in DOMAIN ops \ {o} : ops'[u] = ops[u] /\ run'[u] = run[u]

\* The part of the Stage the lock is about.
LockKept ==
  /\ stage'.lock = stage.lock /\ stage'.pointer = stage.pointer
  /\ stage'.level = stage.level /\ stage'.concluded = stage.concluded

\* A failed version stays failed, and nothing but a swap counts a rollback.
FailedGrows == stage.failed \subseteq stage'.failed

LEMMA FreshOps ==
  /\ \A type, class, from, to, undoes, cause, name :
       Fresh(NewOp(type, class, from, to, undoes, cause, name))
  /\ \A o, op : Fresh(RollbackOf(o, op)) /\ Fresh(FreezeOf(o, op)) /\ Fresh(StepDownOf(o))
  /\ \A type, class : \A op \in Intents(type, class) : type \in Types => Fresh(op)
<1>1. \A type, class, from, to, undoes, cause, name :
       Fresh(NewOp(type, class, from, to, undoes, cause, name))
  BY DEF Fresh, NewOp
<1>2. \A o, op : Fresh(RollbackOf(o, op)) /\ Fresh(FreezeOf(o, op)) /\ Fresh(StepDownOf(o))
  BY <1>1, Zenon DEF RollbackOf, FreezeOf, StepDownOf
<1>3. \A type, class : \A op \in Intents(type, class) : type \in Types => Fresh(op)
  BY <1>1 DEF Intents, Types
<1> QED BY <1>1, <1>2, <1>3

\* Appending one Operation with an idle reconcile adds a fresh one.
LEMMA AppendCreates ==
  ASSUME TypeInv, NEW steps, steps \in Seq(RunType), Len(steps) = Len(ops), NEW op, Fresh(op),
         ops' = Append(ops, op), run' = Append(steps, Idle)
  PROVE  /\ Created
         /\ \A u \in DOMAIN ops : ops'[u] = ops[u] /\ run'[u] = steps[u]
<1>1. ops \in Seq(OpType)
  BY DEF TypeInv, TypeOK
<1>2. /\ DOMAIN ops' = DOMAIN ops \cup {Len(ops) + 1} /\ ops'[Len(ops) + 1] = op
      /\ \A u \in DOMAIN ops : ops'[u] = ops[u]
  <2>1. /\ DOMAIN Append(ops, op) = DOMAIN ops \cup {Len(ops) + 1}
        /\ Append(ops, op)[Len(ops) + 1] = op
        /\ \A u \in DOMAIN ops : Append(ops, op)[u] = ops[u]
    BY ONLY <1>1, AppendAny
  <2> QED BY <2>1
<1>3. /\ DOMAIN run' = DOMAIN steps \cup {Len(steps) + 1} /\ run'[Len(steps) + 1] = Idle
      /\ \A u \in DOMAIN steps : run'[u] = steps[u]
  <2>1. /\ DOMAIN Append(steps, Idle) = DOMAIN steps \cup {Len(steps) + 1}
        /\ Append(steps, Idle)[Len(steps) + 1] = Idle
        /\ \A u \in DOMAIN steps : Append(steps, Idle)[u] = steps[u]
    BY AppendAny
  <2> QED BY <2>1
<1>4. DOMAIN steps = DOMAIN ops
  BY <1>1
<1> QED BY <1>2, <1>3, <1>4 DEF Created

\* Raising adds a fresh Operation or none.
LEMMA RaiseCreates ==
  ASSUME TypeInv, NEW steps, steps \in Seq(RunType), Len(steps) = Len(ops), NEW op, Fresh(op),
         ops' = OpsAfter(op), run' = RunAfter(op, steps)
  PROVE  /\ Created
         /\ \A u \in DOMAIN ops : ops'[u] = ops[u] /\ run'[u] = steps[u]
<1>1. CASE Raise(op) = "created"
  <2>1. ops' = Append(ops, op) /\ run' = Append(steps, Idle)
    BY <1>1 DEF OpsAfter, RunAfter
  <2> QED BY <2>1, AppendCreates
<1>2. CASE Raise(op) # "created"
  <2>1. ops' = ops /\ run' = steps
    BY <1>2 DEF OpsAfter, RunAfter
  <2>2. DOMAIN steps = DOMAIN ops
    BY DEF TypeInv, TypeOK
  <2> QED BY <2>1, <2>2 DEF Created
<1> QED BY <1>1, <1>2

\* The stage reconciler, the world outside and the watches.
World == StageStarts \/ StageGoesOn \/ SrAbort \/ Request \/ Squat \/ Edit \/ CatchUpOps \/ CatchUpStage

\* None of them touches an Operation, its reconcile, the lock or the pointer.
LEMMA WorldSteps ==
  ASSUME TypeInv, World
  PROVE  /\ Created /\ LockKept /\ FailedGrows /\ history' = history
         /\ \A u \in DOMAIN ops : ops'[u] = ops[u] /\ run'[u] = run[u]
         /\ cops' = cops \/ (OpLag /\ cops' = ops /\ ops' = ops)
<1> DEFINE OpsRest == /\ Created
                      /\ \A u \in DOMAIN ops : ops'[u] = ops[u] /\ run'[u] = run[u]
           StageRest == LockKept /\ FailedGrows
           Rest == /\ history' = history
                   /\ cops' = cops \/ (OpLag /\ cops' = ops /\ ops' = ops)
<1> SUFFICES OpsRest /\ StageRest /\ Rest
  OBVIOUS
<1>1. stage \in StageType /\ run \in Seq(RunType) /\ Len(run) = Len(ops)
  BY DEF TypeInv, TypeOK
<1>2. UNCHANGED stage => StageRest
  BY DEF LockKept, FailedGrows
<1>3. UNCHANGED <<ops, run>> => OpsRest
  BY Reads DEF Created
<1>4. \A op : Fresh(op) /\ ops' = OpsAfter(op) /\ run' = RunAfter(op, run) => OpsRest
  BY <1>1, RaiseCreates
<1>5. \A op : Fresh(op) /\ ops' = Append(ops, op) /\ run' = Append(run, Idle) => OpsRest
  BY <1>1, AppendCreates
<1> HIDE DEF OpsRest, StageRest
<1>6. \A op : Fresh(op) /\ SrRaise(op) => OpsRest /\ StageRest /\ Rest
  BY <1>2, <1>4 DEF SrRaise, SrRest
<1>7. \A r : SrGoes(r) => OpsRest /\ StageRest /\ Rest
  BY <1>2, <1>3 DEF SrGoes, SrRest
<1>8. CASE StageStarts
  BY <1>6, <1>7, <1>8, FreshOps, Zenon
     DEF StageStarts, WitnessRead, AutoRead, RecheckRun, Reraise, ShadowRead
<1>9. CASE WitnessRaise \/ RecheckDecide \/ RecheckRollback
  BY <1>6, <1>7, <1>9, FreshOps, Zenon DEF WitnessRaise, RecheckDecide, RecheckRollback
<1>10. CASE RecheckRaise \/ AutoRaise
  <2>1. Head(sr.todo) \in RaisedType
    BY <1>10, SeqHeadTail DEF RecheckRaise, AutoRaise, TypeInv, TypeOK, SrType
  <2>2. Fresh(Head(sr.todo))
    BY <2>1, Zenon DEF Fresh, RaisedType
  <2>3. CASE RecheckRaise
    BY <1>2, <1>4, <2>2, <2>3 DEF RecheckRaise, SrRest
  <2>4. CASE AutoRaise
    BY <1>6, <1>7, <2>2, <2>4, Zenon DEF AutoRaise
  <2> QED BY <1>10, <2>3, <2>4
<1>11. CASE SrFreeze \/ RecheckPass \/ ShadowObserve
  <2>1. StageRest
    BY <1>1, <1>11, Zenon DEF SrFreeze, RecheckPass, ShadowObserve, StageRest, LockKept, FailedGrows, StageType
  <2> QED BY <1>3, <1>11, <2>1 DEF SrFreeze, RecheckPass, ShadowObserve, SrRest
<1>12. CASE RecheckRecord
  <2>1. StageRest
    BY <1>1, <1>12 DEF RecheckRecord, StageRest, LockKept, FailedGrows, StageType
  <2> QED BY <1>3, <1>12, <2>1 DEF RecheckRecord, SrRest
<1>13. CASE ShadowVerify
  <2>1. StageRest
    BY <1>1, <1>13 DEF ShadowVerify, StageRest, LockKept, FailedGrows, StageType
  <2> QED BY <1>3, <1>13, <2>1 DEF ShadowVerify, SrRest
<1>14. CASE SrAbort \/ Edit \/ CatchUpStage
  BY <1>2, <1>3, <1>14 DEF SrAbort, Edit, CatchUpStage
<1>15. CASE Request
  <2>1. PICK ask \in Asks : \E op \in Intents(ask[1], ask[2]) :
          ops' = Append(ops, op) /\ run' = Append(run, Idle)
    BY <1>15 DEF Request
  <2>2. ask[1] \in Types
    BY StartAssumption
  <2>3. OpsRest
    BY <1>5, <2>1, <2>2, FreshOps
  <2> QED BY <1>2, <1>15, <2>3 DEF Request
<1>16. CASE Squat
  <2>1. OpsRest
    BY <1>5, <1>16, FreshOps, Zenon DEF Squat
  <2> QED BY <1>2, <1>16, <2>1, Zenon DEF Squat
<1>17. CASE CatchUpOps
  BY <1>2, <1>3, <1>17 DEF CatchUpOps
<1> QED BY <1>8, <1>9, <1>10, <1>11, <1>12, <1>13, <1>14, <1>15, <1>16, <1>17, Zenon
        DEF World, StageGoesOn

(***************************************************************************)
(* What the swap of a conclusion does to the Stage.                        *)
(***************************************************************************)
\* What a conclusion c of op does to the lock, the pointer, the level and the
\* memory of failures: t is the Stage s after it.
Effected(uid, op, c, s, t) ==
  /\ t.lock = s.lock /\ s.failed \subseteq t.failed
  /\ IF op.type = "autonomy" /\ c.outcome = "Succeeded"
     THEN /\ t.level = op.to
          /\ t.level = Observe => t.pointer = NoDigest
          /\ Observe \notin {op.from, t.level} => t.pointer = s.pointer
     ELSE t.level = s.level /\ t.pointer = s.pointer
  /\ \A u \in t.rolledBack \ s.rolledBack :
       /\ u = uid /\ c.outcome = "Failed" /\ op.type = "promote"
       /\ Before(op) # NoDigest /\ Before(op) \notin s.failed

LEMMA EffectsKept ==
  ASSUME NEW uid \in Nat, NEW op \in OpType, NEW s \in StageType, NEW c \in ConType
  PROVE  Effected(uid, op, c, s, ApplyEffects(uid, op, s, c))
<1> DEFINE h == [s EXCEPT !.autoHold = AutoHoldAfter(op, s)]
           Same(t) == /\ t.lock = s.lock /\ t.failed = s.failed /\ t.level = s.level
                      /\ t.pointer = s.pointer /\ t.rolledBack = s.rolledBack
                      /\ t.observed = s.observed
           Full(t) == DOMAIN t = DOMAIN s
<1>1. Same(h) /\ Full(h)
  BY Zenon DEF StageType
<1> HIDE DEF h
<1>2. ASSUME c.outcome = "Succeeded"
      PROVE  Effected(uid, op, c, s, Succeeded(op, h, c)) /\ Full(Succeeded(op, h, c))
  <2> DEFINE v == IF c.verification = "Verified"
                  THEN [h EXCEPT !.verified = @ \cup {op.to}] ELSE h
  <2>1. Same(v) /\ Full(v)
    BY <1>1, Zenon DEF StageType
  <2> HIDE DEF v
  <2>2. CASE op.type = "autonomy"
    <3>1. Succeeded(op, h, c) = ChangeLevel(op, v)
      BY <2>2, Zenon DEF Succeeded, v
    <3>2. PICK t : t = ChangeLevel(op, v)
      OBVIOUS
    <3>3. /\ Full(t) /\ t.lock = s.lock /\ t.failed = s.failed /\ t.rolledBack = s.rolledBack
          /\ t.level = op.to
          /\ t.pointer = IF op.to = Observe THEN NoDigest
                         ELSE IF op.from = Observe /\ v.observed # NoDigest THEN v.observed
                         ELSE s.pointer
      BY <2>1, <3>2, Zenon DEF ChangeLevel, StageType
    <3>4. /\ t.level = Observe => t.pointer = NoDigest
          /\ Observe \notin {op.from, t.level} => t.pointer = s.pointer
      BY <3>3
    <3>5. Effected(uid, op, c, s, t)
      BY <1>2, <2>2, <3>3, <3>4, Zenon DEF Effected
    <3> QED BY <3>1, <3>2, <3>3, <3>5, Zenon
  <2>3. CASE op.type # "autonomy"
    <3>1. PICK t : t = Succeeded(op, h, c)
      OBVIOUS
    <3>2. t \in {v, [v EXCEPT !.frozen = TRUE], [v EXCEPT !.frozen = FALSE, !.autoHold = FALSE]}
      BY <2>3, <3>1 DEF Succeeded, v
    <3>3. Same(t) /\ Full(t)
      BY <2>1, <3>2, Zenon DEF StageType
    <3>4. Effected(uid, op, c, s, t)
      BY <2>3, <3>3, Zenon DEF Effected
    <3> QED BY <3>1, <3>3, <3>4
  <2> QED BY <2>2, <2>3
<1>3. ASSUME c.outcome = "Failed"
      PROVE  Effected(uid, op, c, s, Failed(uid, op, h)) /\ Full(Failed(uid, op, h))
  <2> DEFINE f == [h EXCEPT !.failed = @ \cup {op.to}, !.verified = @ \ {op.to}]
             unsafe == \/ op.type # "promote" \/ Before(op) = NoDigest
                       \/ Before(op) \in f.failed
  <2>1. /\ Full(f) /\ f.lock = s.lock /\ f.failed = s.failed \cup {op.to} /\ f.level = s.level
        /\ f.pointer = s.pointer /\ f.rolledBack = s.rolledBack
    BY <1>1, Zenon DEF StageType
  <2>2. PICK t : t = Failed(uid, op, h)
    OBVIOUS
  <2>3. t = IF unsafe THEN [f EXCEPT !.frozen = TRUE] ELSE [f EXCEPT !.rolledBack = @ \cup {uid}]
    BY <2>2 DEF Failed
  <2> HIDE DEF f
  <2>4. /\ Full(t) /\ t.lock = s.lock /\ t.failed = s.failed \cup {op.to} /\ t.level = s.level
        /\ t.pointer = s.pointer
        /\ unsafe => t.rolledBack = s.rolledBack
        /\ ~unsafe => t.rolledBack = s.rolledBack \cup {uid}
    BY <2>1, <2>3, Zenon DEF StageType
  <2>5. \A u \in t.rolledBack \ s.rolledBack :
          /\ u = uid /\ c.outcome = "Failed" /\ op.type = "promote"
          /\ Before(op) # NoDigest /\ Before(op) \notin s.failed
    BY <1>3, <2>1, <2>4, Zenon
  <2>6. Effected(uid, op, c, s, t)
    BY <1>3, <2>4, <2>5 DEF Effected
  <2> QED BY <2>2, <2>4, <2>6, Zenon
<1> DEFINE e == CASE c.outcome = "Succeeded" -> Succeeded(op, h, c)
                  [] c.outcome = "Failed"    -> Failed(uid, op, h)
                  [] OTHER                   -> h
<1>4. Effected(uid, op, c, s, e) /\ Full(e)
  <2>1. CASE c.outcome \notin {"Succeeded", "Failed"}
    <3>1. e = h
      BY <2>1
    <3>2. Effected(uid, op, c, s, h)
      BY <1>1, <2>1 DEF Effected
    <3> QED BY <1>1, <3>1, <3>2
  <2>2. CASE c.outcome = "Succeeded"
    BY <1>2, <2>2
  <2>3. CASE c.outcome = "Failed"
    BY <1>3, <2>3
  <2> QED BY <2>1, <2>2, <2>3
<1>5. ApplyEffects(uid, op, s, c) \in {e, [e EXCEPT !.frozen = TRUE]}
  BY DEF ApplyEffects, h
<1> HIDE DEF e
<1>6. PICK t : t = [e EXCEPT !.frozen = TRUE]
  BY Zenon
<1>7. /\ t.lock = e.lock /\ t.failed = e.failed /\ t.level = e.level /\ t.pointer = e.pointer
      /\ t.rolledBack = e.rolledBack
  BY <1>4, <1>6, Zenon DEF StageType
<1>8. Effected(uid, op, c, s, t)
  BY <1>4, <1>7, Zenon DEF Effected
<1> QED BY <1>4, <1>5, <1>6, <1>8, Zenon

\* The conclusion the swap of o takes.
Taken(o) == Decided(o, [ops[o] EXCEPT !.person = run[o].person], run[o].c)

\* What it does to the Stage, and to the others: it empties the lock only of o.
LEMMA SwapEffects ==
  ASSUME TypeInv, NEW o \in DOMAIN ops, Swap(o)
  PROVE  /\ Effected(o, ops[o], Taken(o), [stage EXCEPT !.lock = IF @ = o THEN NoOp ELSE @], stage')
         /\ run[o].squat => stage'.frozen
         /\ Taken(o) \in ConType
         /\ run' = [run EXCEPT ![o] = [run[o] EXCEPT !.at = "write", !.c = Taken(o)]]
<1> DEFINE op == [ops[o] EXCEPT !.person = run[o].person]
           c  == Taken(o)
           e  == [uid |-> o, outcome |-> c.outcome, verification |-> c.verification]
           s  == [Released(o) EXCEPT !.seq = @ + 1, !.concluded = Remember(@, e)]
           t  == ApplyEffects(o, op, s, c)
           b  == [stage EXCEPT !.lock = IF @ = o THEN NoOp ELSE @]
<1>1. /\ run[o] \in RunType /\ o \in Nat /\ ops[o] \in OpType /\ stage \in StageType
      /\ run[o].c \in ConType /\ run[o].person \in BOOLEAN /\ run[o].squat \in BOOLEAN
  BY Reads, SMTT(30) DEF RunType, TypeInv, TypeOK
<1>2. /\ op \in OpType /\ op.type = ops[o].type /\ op.from = ops[o].from /\ op.to = ops[o].to
      /\ op.applied = ops[o].applied
  <2>1. op \in OpType
    BY <1>1, PersonType, Zenon
  <2> QED BY <1>1, <2>1, Zenon DEF OpType
<1>3. c \in ConType /\ run' = [run EXCEPT ![o] = [run[o] EXCEPT !.at = "write", !.c = c]]
  BY SwapStage, Zenon DEF Taken
<1> HIDE DEF c
<1>4. e \in EntryType
  BY <1>1, <1>3, Zenon DEF ConType, EntryType
<1> HIDE DEF e
<1>5. s \in StageType
  <2>1. Released(o) \in StageType
    BY ReleasedType
  <2>2. Released(o).concluded \in Seq(EntryType) /\ Released(o).seq \in Nat
    BY <2>1 DEF StageType
  <2>3. Remember(Released(o).concluded, e) \in Seq(EntryType) /\ Released(o).seq + 1 \in Nat
    BY <1>4, <2>2, RememberType
  <2> QED BY <2>1, <2>3, Zenon DEF StageType
<1>6. Released(o) = b
  BY DEF Released
<1>7. /\ s.lock = b.lock /\ s.failed = b.failed /\ s.level = b.level /\ s.pointer = b.pointer
      /\ s.rolledBack = b.rolledBack
  <2>1. Released(o) \in StageType
    BY ReleasedType
  <2> QED BY <1>6, <2>1, Zenon DEF StageType
<1> HIDE DEF s, b
<1>8. Effected(o, op, c, s, t)
  BY <1>1, <1>2, <1>3, <1>5, EffectsKept, Zenon
<1>9. stage' = [t EXCEPT !.frozen = @ \/ run[o].squat]
  BY DEF Swap, Taken, op, c, s, e
<1>10. t \in StageType
  <2>1. /\ c.outcome = "Failed" => run[o].c.outcome = "Failed"
        /\ c.verification = "Verified" => run[o].c.verification = "Verified"
    BY <1>1, DecidedType DEF c, Taken
  <2>2. c.outcome = "Failed" \/ c.verification = "Verified" => op.type # "autonomy"
    BY <1>1, <1>2, <2>1, Reads, SMTT(30) DEF Swap, TypeInv, OnlyPointerOpsMove, PointerOp
  <2> QED BY <1>1, <1>2, <1>3, <1>5, <2>2, EffectsType, Zenon
<1> HIDE DEF t
<1>11. /\ stage'.lock = t.lock /\ stage'.failed = t.failed /\ stage'.level = t.level
       /\ stage'.pointer = t.pointer /\ stage'.rolledBack = t.rolledBack
       /\ run[o].squat => stage'.frozen
  BY <1>1, <1>9, <1>10, Zenon DEF StageType
<1>12. Before(op) = Before(ops[o])
  BY <1>2 DEF Before
<1> HIDE DEF op
<1>13. Effected(o, ops[o], c, b, stage')
  BY <1>2, <1>7, <1>8, <1>11, <1>12, Zenon DEF Effected
<1> QED BY <1>3, <1>11, <1>13 DEF b, c

\* A level changes only from the level it is, and observe is left with the
\* pointer free.
LEMMA TakenLevel ==
  ASSUME TypeInv, NEW o \in DOMAIN ops, ops[o].type = "autonomy", Taken(o).outcome = "Succeeded"
  PROVE  /\ run[o].c.outcome = "Succeeded" /\ ops[o].from = stage.level
         /\ stage.level = Observe => stage.lock = NoOp
<1>1. ops[o] \in OpType /\ ~ops[o].applied
  BY Reads, OpFields
<1>2. PICK op : op = [ops[o] EXCEPT !.person = run[o].person]
  BY Zenon
<1>3. op.type = "autonomy" /\ op.from = ops[o].from /\ ~op.applied
  BY <1>1, <1>2, Zenon DEF OpType
<1>4. Taken(o) = Decided(o, op, run[o].c)
  BY <1>2 DEF Taken
<1>5. Con("Rejected", "").outcome = "Rejected"
  BY ConTypes, Zenon DEF Outcomes, Verifications
<1>6. ~LevelRefusal(op, stage) /\ Taken(o) = run[o].c
  BY <1>3, <1>4, <1>5, Zenon DEF Decided
<1> QED BY <1>3, <1>6, Zenon DEF LevelRefusal

=============================================================================
