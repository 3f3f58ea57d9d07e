------------------------ MODULE PromoterTypes_proofs -------------------------
(****************************************************************************)
(* The promoter keeps its type, for any number of versions, workers, lost  *)
(* reconciles and lagging caches: the operation reconciler, then the stage *)
(* reconciler and the world outside, and the theorem.                      *)
(****************************************************************************)
EXTENDS Promoter, TLAPS

TypeInv == TypeOK /\ OnlyPointerOpsMove

(***************************************************************************)
(* Sequences and records.                                                  *)
(***************************************************************************)
\* Replacing an entry of a sequence.
LEMMA SeqExcept ==
  ASSUME NEW S, NEW s \in Seq(S), NEW i \in DOMAIN s, NEW e \in S
  PROVE  /\ [s EXCEPT ![i] = e] \in Seq(S)
         /\ Len([s EXCEPT ![i] = e]) = Len(s)
         /\ DOMAIN [s EXCEPT ![i] = e] = DOMAIN s
  OBVIOUS

\* Appending to a sequence leaves its entries where they are.
LEMMA SeqAppend ==
  ASSUME NEW S, NEW s \in Seq(S), NEW e \in S
  PROVE  /\ Append(s, e) \in Seq(S)
         /\ Len(Append(s, e)) = Len(s) + 1
         /\ DOMAIN Append(s, e) = DOMAIN s \cup {Len(s) + 1}
         /\ \A i \in DOMAIN s : Append(s, e)[i] = s[i]
         /\ Append(s, e)[Len(s) + 1] = e
  OBVIOUS

\* The head and the tail of a sequence that is not empty.
LEMMA SeqHeadTail ==
  ASSUME NEW S, NEW s \in Seq(S), s # <<>>
  PROVE  Head(s) \in S /\ Tail(s) \in Seq(S)
  OBVIOUS

\* A phase written into an Operation leaves it an Operation.
LEMMA PhaseType ==
  ASSUME NEW op \in OpType, NEW p \in Phases,
         op.type = "autonomy" => p \notin {"Running", "Verifying"}
  PROVE  /\ [op EXCEPT !.phase = p] \in OpType
         /\ [op EXCEPT !.phase = p].type = op.type
  BY DEF OpType

\* So do an approval,
LEMMA PersonType ==
  ASSUME NEW op \in OpType, NEW person \in BOOLEAN
  PROVE  /\ [op EXCEPT !.person = person] \in OpType
         /\ [op EXCEPT !.person = person].type = op.type
  BY DEF OpType

\* A new Operation is one when its parameters are those of its type.
LEMMA NewOpType ==
  ASSUME NEW type \in Types, NEW class \in Classes, NEW from, NEW to,
         NEW undoes \in Nat, NEW cause \in Nat,
         NEW name \in Kinds \X Nat \X Digest \X Digest,
         IF type = "autonomy" THEN from \in Levels /\ to \in Levels
                              ELSE from \in Digest /\ to \in Digest
  PROVE  /\ NewOp(type, class, from, to, undoes, cause, name) \in OpType
         /\ NewOp(type, class, from, to, undoes, cause, name) \in RaisedType
<1>1. NewOp(type, class, from, to, undoes, cause, name) \in OpType
  BY Zenon DEF OpType, NewOp, Phases, Outcomes, Verifications
<1> QED BY <1>1, Zenon DEF RaisedType, NewOp

\* The fields of an Operation have their types.
LEMMA OpFields ==
  ASSUME NEW op \in OpType
  PROVE  /\ op.type \in Types /\ op.class \in Classes
         /\ op.phase \in Phases /\ op.applied \in BOOLEAN /\ op.person \in BOOLEAN
         /\ op.type # "autonomy" => op.from \in Digest /\ op.to \in Digest
         /\ op.type = "autonomy" => /\ op.from \in Levels /\ op.to \in Levels
                                    /\ op.phase \notin {"Running", "Verifying"}
                                    /\ ~op.applied
  BY DEF OpType

\* The conclusions a reconcile decides.
LEMMA ConTypes ==
  /\ \A o \in Outcomes, v \in Verifications :
       /\ Con(o, v) \in ConType
       /\ Con(o, v).outcome = o /\ Con(o, v).verification = v
  /\ Again \in ConType /\ Again.outcome = "" /\ Again.verification = ""
  /\ Errored \in ConType /\ Errored.outcome = "Errored" /\ Errored.verification = ""
  /\ VerifyFailed \in ConType /\ PreemptedBy \in ConType
  /\ PreemptedBy.outcome = "Succeeded" /\ PreemptedBy.verification = "Unverified"
  BY Zenon DEF Con, Again, Errored, VerifyFailed, PreemptedBy, ConType, Outcomes, Verifications

\* A reconcile that rests, and one that is elsewhere with nothing to raise.
LEMMA IdleType ==
  /\ Idle \in RunType /\ Idle.at = "idle"
  /\ [Idle EXCEPT !.at = "patch"] \in RunType /\ [Idle EXCEPT !.at = "patch"].at = "patch"
<1>1. <<>> \in Seq(RaisedType)
  OBVIOUS
<1> QED BY <1>1, ConTypes, Zenon DEF Idle, RunType

\* What a conclusion does to the Stage keeps its type, and touches neither the
\* stream nor the Operation that last moved the pointer.
LEMMA EffectsType ==
  ASSUME NEW uid \in Nat, NEW op \in OpType, NEW s \in StageType, NEW c \in ConType,
         c.outcome = "Failed" \/ c.verification = "Verified" => op.type # "autonomy"
  PROVE  LET t == ApplyEffects(uid, op, s, c)
         IN /\ t \in StageType
            /\ t.seq = s.seq /\ t.concluded = s.concluded /\ t.lastOp = s.lastOp
<1> DEFINE Kept(t) == /\ t \in StageType
                      /\ t.seq = s.seq /\ t.concluded = s.concluded /\ t.lastOp = s.lastOp
           h == [s EXCEPT !.autoHold = AutoHoldAfter(op, s)]
<1>1. AutoHoldAfter(op, s) \in BOOLEAN
  BY Zenon DEF AutoHoldAfter, SetsAutoHold, StageType
<1>2. Kept(h)
  BY <1>1, SMTT(30) DEF StageType
<1> HIDE DEF h
<1>3. ASSUME c.outcome = "Succeeded" PROVE Kept(Succeeded(op, h, c))
  <2> DEFINE v == IF c.verification = "Verified"
                  THEN [h EXCEPT !.verified = @ \cup {op.to}] ELSE h
  <2>1. Kept(v)
    <3>1. c.verification = "Verified" => op.to \in Digest
      BY OpFields
    <3> QED BY <1>2, <3>1, Zenon DEF StageType
  <2> HIDE DEF v
  <2>2. op.type = "autonomy" => Kept(ChangeLevel(op, v))
    <3>1. op.type = "autonomy" => op.to \in Levels
      BY OpFields
    <3>2. v.pointer \in Digest /\ v.observed \in Digest /\ NoDigest \in Digest
      BY <2>1 DEF StageType, Digest
    <3> QED BY <2>1, <3>1, <3>2, Zenon DEF ChangeLevel, StageType
  <2>3. Kept([v EXCEPT !.frozen = FALSE, !.autoHold = FALSE])
    BY <2>1, Zenon DEF StageType
  <2>4. Kept([v EXCEPT !.frozen = TRUE])
    BY <2>1, Zenon DEF StageType
  <2>5. Succeeded(op, h, c) =
          CASE op.type = "autonomy" -> ChangeLevel(op, v)
            [] op.type = "unfreeze" -> [v EXCEPT !.frozen = FALSE, !.autoHold = FALSE]
            [] op.type = "freeze"   -> [v EXCEPT !.frozen = TRUE]
            [] OTHER                -> v
    BY DEF Succeeded, v
  <2> HIDE DEF Kept
  <2> QED BY <2>1, <2>2, <2>3, <2>4, <2>5
<1>4. ASSUME c.outcome = "Failed" PROVE Kept(Failed(uid, op, h))
  <2> DEFINE f == [h EXCEPT !.failed = @ \cup {op.to}, !.verified = @ \ {op.to}]
  <2>1. op.to \in Digest
    BY <1>4, OpFields
  <2>2. Kept(f)
    BY <1>2, <2>1, Zenon DEF StageType
  <2>3. Failed(uid, op, h) \in {[f EXCEPT !.frozen = TRUE],
                                [f EXCEPT !.rolledBack = @ \cup {uid}]}
    BY DEF Failed
  <2> HIDE DEF f
  <2>4. Kept([f EXCEPT !.frozen = TRUE]) /\ Kept([f EXCEPT !.rolledBack = @ \cup {uid}])
    BY <2>2, Zenon DEF StageType
  <2> QED BY <2>3, <2>4, Zenon
<1> DEFINE e == CASE c.outcome = "Succeeded" -> Succeeded(op, h, c)
                  [] c.outcome = "Failed"    -> Failed(uid, op, h)
                  [] OTHER                   -> h
<1>5. Kept(e)
  <2> HIDE DEF Kept
  <2> QED BY <1>2, <1>3, <1>4
<1>6. Kept([e EXCEPT !.frozen = TRUE])
  <2> HIDE DEF e
  <2> QED BY <1>5, Zenon DEF StageType
<1>7. ApplyEffects(uid, op, s, c) \in {e, [e EXCEPT !.frozen = TRUE]}
  BY DEF ApplyEffects, h
<1> HIDE DEF e
<1> QED BY <1>5, <1>6, <1>7, Zenon

\* What a reconcile reads is typed and of the stored Operation's type.
LEMMA Reads ==
  ASSUME TypeInv
  PROVE  /\ DOMAIN ops = 1 .. Len(ops) /\ DOMAIN run = DOMAIN ops
         /\ DOMAIN Known \subseteq DOMAIN ops
         /\ \A o \in DOMAIN ops : o \in Nat /\ o # NoOp /\ ops[o] \in OpType /\ run[o] \in RunType
         /\ \A o \in DOMAIN Known : Known[o] \in OpType /\ Known[o].type = ops[o].type
         /\ KStage \in StageType
         /\ KStage.lastOp = NoOp \/ PointerOp(KStage.lastOp)
<1>1. Len(ops) \in Nat /\ Len(cops) \in Nat /\ Len(cops) <= Len(ops)
  BY DEF TypeInv, TypeOK
<1>2. DOMAIN ops = 1 .. Len(ops) /\ DOMAIN run = DOMAIN ops /\ DOMAIN cops \subseteq DOMAIN ops
  BY <1>1 DEF TypeInv, TypeOK
<1>3. \A o \in DOMAIN ops : o \in Nat /\ o # NoOp /\ ops[o] \in OpType /\ run[o] \in RunType
  BY <1>1, <1>2 DEF TypeInv, TypeOK, NoOp
<1>4. /\ DOMAIN Known \subseteq DOMAIN ops
      /\ \A o \in DOMAIN Known : Known[o] \in OpType /\ Known[o].type = ops[o].type
  BY <1>2, <1>3 DEF TypeInv, TypeOK, OnlyPointerOpsMove, Known
<1>5. KStage \in StageType /\ (KStage.lastOp = NoOp \/ PointerOp(KStage.lastOp))
  BY DEF TypeInv, TypeOK, OnlyPointerOpsMove, KStage
<1> QED BY <1>2, <1>3, <1>4, <1>5

(***************************************************************************)
(* What a step may do.  Every action is an instance of one of the three    *)
(* lemmas below.                                                           *)
(***************************************************************************)
\* A reconcile in this state concerns the pointer.
Moves(r) ==
  \/ r.at \in {"planned", "outdated", "locked", "moved", "apply", "patch"}
  \/ r.at \in {"raise", "swap"} /\ (r.c.outcome = "Failed" \/ r.c.verification = "Verified")

Fits(r, o) == (r.at = "raise" => r.todo # <<>>) /\ (Moves(r) => PointerOp(o))

SrFits(r) ==
  /\ r.at \in {"auto", "raise"} => r.todo # <<>>
  /\ r.at \in {"passed", "judged", "raise", "record", "rollback"} => PointerOp(r.op)

(***************************************************************************)
(* Raising and concluding.                                                 *)
(***************************************************************************)

\* The lock is released and nothing else.
LEMMA ReleasedType ==
  ASSUME TypeInv, NEW o
  PROVE  /\ Released(o) \in StageType
         /\ Released(o).seq = stage.seq /\ Released(o).concluded = stage.concluded
         /\ Released(o).lastOp = stage.lastOp
<1>1. stage \in StageType /\ NoOp \in Nat
  BY DEF TypeInv, TypeOK, NoOp
<1> QED BY <1>1, SMTT(30) DEF Released, StageType

\* What the swap decides is a conclusion, and no level change fails.
LEMMA DecidedType ==
  ASSUME NEW o, NEW op, NEW c \in ConType
  PROVE  LET d == Decided(o, op, c)
         IN /\ d \in ConType
            /\ d.outcome = "Failed" => c.outcome = "Failed"
            /\ d.verification = "Verified" => c.verification = "Verified"
<1>1. Con("Rejected", "") \in ConType /\ Con("Rejected", "").outcome = "Rejected"
      /\ Con("Rejected", "").verification = ""
  BY ConTypes, ZenonT(40) DEF Outcomes, Verifications
<1>2. Decided(o, op, c) \in {Con("Rejected", ""), PreemptedBy, c}
  BY DEF Decided
<1> QED BY <1>1, <1>2, ConTypes, Zenon

\* The newest entries are a sequence of entries.
LEMMA RememberType ==
  ASSUME NEW S, NEW entries \in Seq(S), NEW e \in S
  PROVE  Remember(entries, e) \in Seq(S)
<1>1. Append(entries, e) \in Seq(S) /\ Len(Append(entries, e)) = Len(entries) + 1
  BY SeqAppend
<1>2. Len(entries) \in Nat /\ Len(<<>>) = 0
  OBVIOUS
<1>3. Append(entries, e) # <<>>
  BY <1>1, <1>2
<1> QED BY <1>1, <1>3, SeqHeadTail DEF Remember

\* The Stage a conclusion leaves: typed, one number further and one entry more.
LEMMA SwapStage ==
  ASSUME TypeInv, NEW o \in DOMAIN ops, Swap(o)
  PROVE  LET op == [ops[o] EXCEPT !.person = run[o].person]
             c  == Decided(o, op, run[o].c)
             e  == [uid |-> o, outcome |-> c.outcome, verification |-> c.verification]
         IN /\ c \in ConType
            /\ stage' \in StageType /\ stage'.lastOp = stage.lastOp
            /\ stage'.seq = stage.seq + 1
            /\ stage'.concluded = Remember(stage.concluded, e)
            /\ run' = [run EXCEPT ![o] = [run[o] EXCEPT !.at = "write", !.c = c]]
<1> DEFINE op == [ops[o] EXCEPT !.person = run[o].person]
           c  == Decided(o, op, run[o].c)
           e  == [uid |-> o, outcome |-> c.outcome, verification |-> c.verification]
           s  == [Released(o) EXCEPT !.seq = @ + 1, !.concluded = Remember(@, e)]
           t  == ApplyEffects(o, op, s, c)
<1>1. /\ run[o] \in RunType /\ o \in DOMAIN run /\ o \in Nat /\ ops[o] \in OpType
      /\ run[o].c \in ConType /\ run[o].person \in BOOLEAN /\ run[o].squat \in BOOLEAN
  BY Reads DEF RunType
<1>2. op \in OpType /\ op.type = ops[o].type
  BY <1>1, PersonType
<1>3. /\ c \in ConType
      /\ c.outcome = "Failed" => run[o].c.outcome = "Failed"
      /\ c.verification = "Verified" => run[o].c.verification = "Verified"
  BY <1>1, DecidedType
<1>4. c.outcome = "Failed" \/ c.verification = "Verified" => op.type # "autonomy"
  BY <1>1, <1>2, <1>3, Zenon DEF Swap, TypeInv, OnlyPointerOpsMove, PointerOp
<1> HIDE DEF op, c
<1>5. e \in EntryType
  BY <1>1, <1>3 DEF ConType, EntryType
<1> HIDE DEF e
<1>6. /\ s \in StageType /\ s.lastOp = stage.lastOp
      /\ s.seq = stage.seq + 1 /\ s.concluded = Remember(stage.concluded, e)
  <2>1. Released(o).concluded \in Seq(EntryType) /\ Released(o).seq \in Nat
    BY ReleasedType DEF StageType
  <2>2. Remember(Released(o).concluded, e) \in Seq(EntryType) /\ Released(o).seq + 1 \in Nat
    BY <1>5, <2>1, RememberType
  <2> QED BY <2>2, ReleasedType, Zenon DEF StageType
<1> HIDE DEF s
<1>7. /\ t \in StageType /\ t.lastOp = stage.lastOp
      /\ t.seq = stage.seq + 1 /\ t.concluded = Remember(stage.concluded, e)
  BY <1>1, <1>2, <1>3, <1>4, <1>6, EffectsType, Zenon
<1>8. stage' = [t EXCEPT !.frozen = @ \/ run[o].squat]
  BY DEF Swap, op, c, s, e
<1> HIDE DEF t
<1>9. /\ stage' \in StageType /\ stage'.lastOp = stage.lastOp
      /\ stage'.seq = stage.seq + 1 /\ stage'.concluded = Remember(stage.concluded, e)
  BY <1>1, <1>7, <1>8, SMTT(30) DEF StageType
<1>10. run' = [run EXCEPT ![o] = [run[o] EXCEPT !.at = "write", !.c = c]]
  BY <1>1, ZenonT(30) DEF Swap, op, c
<1> QED BY <1>3, <1>9, <1>10, SMTT(30) DEF e, c, op

(***************************************************************************)
(* The operation reconciler.                                               *)
(***************************************************************************)

\* A reconcile that starts on o read a copy of an Operation that exists.
LEMMA ReadyReads ==
  ASSUME TypeInv, NEW o, Ready(o)
  PROVE  /\ o \in DOMAIN ops /\ ops[o] \in OpType /\ ops[o].person \in BOOLEAN
         /\ Known[o] \in OpType /\ Known[o].type = ops[o].type
<1>1. o \in DOMAIN Known
  BY DEF Ready
<1> QED BY <1>1, Reads, OpFields

(***************************************************************************)
(* The stage reconciler and the world outside.                             *)
(***************************************************************************)
\* A reconcile of the Stage that rests, or is elsewhere with nothing to raise.
LEMMA SrTypes ==
  /\ SrIdle \in SrType /\ SrFits(SrIdle)
  /\ [SrIdle EXCEPT !.at = "freeze"] \in SrType /\ SrFits([SrIdle EXCEPT !.at = "freeze"])
  /\ \A op \in RaisedType : LET r == [SrIdle EXCEPT !.at = "auto", !.todo = <<op>>]
                            IN r \in SrType /\ SrFits(r)
  /\ \A at \in {"witness", "observe", "shadow"}, d \in Digest :
       LET r == [SrIdle EXCEPT !.at = at, !.digest = d] IN r \in SrType /\ SrFits(r)
  /\ \A at \in {"passed", "judged"}, o \in Nat, d \in Digest : PointerOp(o) =>
       LET r == [SrIdle EXCEPT !.at = at, !.op = o, !.digest = d] IN r \in SrType /\ SrFits(r)
  /\ \A o \in Nat : PointerOp(o) =>
       LET r == [SrIdle EXCEPT !.at = "rollback", !.op = o] IN r \in SrType /\ SrFits(r)
<1>1. <<>> \in Seq(RaisedType) /\ NoOp \in Nat /\ NoDigest \in Digest
  BY DEF NoOp, Digest
<1>2. SrIdle \in SrType /\ SrIdle.at = "idle"
  BY <1>1, Zenon DEF SrIdle, SrType
<1>3. [SrIdle EXCEPT !.at = "freeze"] \in SrType /\ [SrIdle EXCEPT !.at = "freeze"].at = "freeze"
  BY <1>2 DEF SrType
<1>4. \A r : r.at \in {"idle", "freeze", "witness", "observe", "shadow"} => SrFits(r)
  BY DEF SrFits
<1>5. \A r : r.at \in {"passed", "judged", "rollback"} /\ PointerOp(r.op) => SrFits(r)
  BY DEF SrFits
<1>6. SrFits(SrIdle) /\ SrFits([SrIdle EXCEPT !.at = "freeze"])
  BY <1>2, <1>3 DEF SrFits
<1>7. ASSUME NEW at \in {"witness", "observe", "shadow"}, NEW d \in Digest
      PROVE  LET r == [SrIdle EXCEPT !.at = at, !.digest = d] IN r \in SrType /\ SrFits(r)
  <2> DEFINE r == [SrIdle EXCEPT !.at = at, !.digest = d]
  <2>1. r \in SrType /\ r.at = at
    BY <1>2, Zenon DEF SrType
  <2>2. SrFits(r)
    <3> HIDE DEF r
    <3> QED BY <1>4, <2>1
  <2> QED BY <2>1, <2>2
<1>8. ASSUME NEW at \in {"passed", "judged"}, NEW o \in Nat, NEW d \in Digest
      PROVE  PointerOp(o) => LET r == [SrIdle EXCEPT !.at = at, !.op = o, !.digest = d]
                             IN r \in SrType /\ SrFits(r)
  <2> DEFINE r == [SrIdle EXCEPT !.at = at, !.op = o, !.digest = d]
  <2>1. r \in SrType /\ r.at = at /\ r.op = o
    BY <1>2, Zenon DEF SrType
  <2> HIDE DEF r
  <2>2. PointerOp(o) => r \in SrType /\ SrFits(r)
    BY <1>5, <2>1
  <2> QED BY <2>2 DEF r
<1>9. ASSUME NEW o \in Nat
      PROVE  PointerOp(o) => LET r == [SrIdle EXCEPT !.at = "rollback", !.op = o]
                             IN r \in SrType /\ SrFits(r)
  <2> DEFINE r == [SrIdle EXCEPT !.at = "rollback", !.op = o]
  <2>1. r \in SrType /\ r.at = "rollback" /\ r.op = o
    BY <1>2, Zenon DEF SrType
  <2> HIDE DEF r
  <2>2. PointerOp(o) => r \in SrType /\ SrFits(r)
    BY <1>5, <2>1
  <2> QED BY <2>2 DEF r
<1>10. ASSUME NEW op \in RaisedType
       PROVE  LET r == [SrIdle EXCEPT !.at = "auto", !.todo = <<op>>] IN r \in SrType /\ SrFits(r)
  <2> DEFINE r == [SrIdle EXCEPT !.at = "auto", !.todo = <<op>>]
  <2>1. <<op>> \in Seq(RaisedType) /\ <<op>> # <<>>
    OBVIOUS
  <2>2. r \in SrType /\ r.at = "auto" /\ r.todo = <<op>>
    BY <1>2, <2>1, Zenon DEF SrType
  <2>3. SrFits(r)
    <3> HIDE DEF r
    <3> QED BY <2>1, <2>2 DEF SrFits
  <2> QED BY <2>2, <2>3
<1> QED BY <1>2, <1>3, <1>6, <1>7, <1>8, <1>9, <1>10, Zenon

\* People and agents ask for Operations.
LEMMA IntentsType ==
  ASSUME TypeInv, NEW type \in Types, NEW class \in Classes
  PROVE  Intents(type, class) \subseteq RaisedType
<1> DEFINE own == Name("own", Len(ops) + 1, NoDigest, NoDigest)
           New(from, to, undoes) == NewOp(type, class, from, to, undoes, NoOp, own)
<1>1. /\ stage.pointer \in Digest /\ stage.level \in Levels /\ NoDigest \in Digest
      /\ Digests \subseteq Digest /\ NoOp \in Nat /\ Len(ops) + 1 \in Nat
  BY SMTT(30) DEF TypeInv, TypeOK, StageType, Digest, NoOp
<1>2. own \in Kinds \X Nat \X Digest \X Digest
  BY <1>1 DEF Name, Kinds
<1> HIDE DEF own
<1>3. \A from, to \in Digest, undoes \in Nat :
        type # "autonomy" => New(from, to, undoes) \in RaisedType
  BY <1>1, <1>2, NewOpType, Zenon
<1>4. \A from, to \in Levels : type = "autonomy" => New(from, to, NoOp) \in RaisedType
  BY <1>1, <1>2, NewOpType
<1>5. \A u \in DOMAIN ops : ops[u].applied =>
        u \in Nat /\ ops[u].to \in Digest /\ ops[u].from \in Digest
  BY Reads, OpFields
<1> HIDE DEF New
<1>6. CASE type \in {"promote", "override"}
  <2>1. Intents(type, class) = {New(stage.pointer, d, NoOp) : d \in Digests \ {stage.pointer}}
    BY <1>6 DEF Intents, New, own
  <2> QED BY <1>1, <1>3, <1>6, <2>1
<1>7. CASE type = "rollback"
  <2>1. Intents(type, class) =
          {New(ops[u].to, ops[u].from, u) : u \in {v \in DOMAIN ops : ops[v].applied}}
    BY <1>7 DEF Intents, New, own
  <2> QED BY <1>3, <1>5, <1>7, <2>1
<1>8. CASE type = "freeze"
  <2>1. Intents(type, class) = {New(stage.pointer, NoDigest, NoOp)}
    BY <1>8 DEF Intents, New, own
  <2> QED BY <1>1, <1>3, <1>8, <2>1
<1>9. CASE type = "unfreeze"
  <2>1. Intents(type, class) = {New(NoDigest, NoDigest, NoOp)}
    BY <1>9 DEF Intents, New, own
  <2> QED BY <1>1, <1>3, <1>9, <2>1
<1>10. CASE type = "autonomy"
  <2>1. Intents(type, class) = {New(stage.level, l, NoOp) : l \in Levels \ {stage.level}}
    BY <1>10 DEF Intents, New, own
  <2> QED BY <1>1, <1>4, <1>10, <2>1
<1> QED BY <1>6, <1>7, <1>8, <1>9, <1>10, SMTT(30) DEF Types

(***************************************************************************)
(* The theorems.                                                           *)
(***************************************************************************)
LEMMA InitTyped == Init => TypeInv
<1> SUFFICES ASSUME Init PROVE TypeInv
  OBVIOUS
<1>1. StartPointer \in Digest /\ NoDigest \in Digest /\ StartLevel \in Levels /\ NoOp \in Nat
  BY StartAssumption DEF Digest, NoOp
<1>2. NoCheck \in [op : Nat, digest : Digest]
  BY <1>1 DEF NoCheck
<1>3. /\ <<>> \in Seq(EntryType) /\ <<>> \in Seq(OpType) /\ <<>> \in Seq(RunType)
      /\ <<>> \in Seq(Nat) /\ Len(<<>>) = 0 /\ DOMAIN <<>> = {}
  OBVIOUS
<1>4. stage \in StageType /\ stage.lastOp = NoOp
  BY <1>1, <1>2, <1>3, ZenonT(30) DEF Init, StageType
<1>5. sr \in SrType /\ SrFits(sr)
  BY SrTypes, ZenonT(30) DEF Init
<1>6. TypeOK
  <2>1. /\ ops = <<>> /\ cops = <<>> /\ run = <<>> /\ history = <<>> /\ cstage = stage
        /\ digest = StartPointer /\ edits = 0 /\ aborts = 0
    BY Zenon DEF Init
  <2>2. edits \in Nat /\ aborts \in Nat
    BY <2>1
  <2>3. Len(run) = Len(ops) /\ Len(cops) <= Len(ops)
    BY <2>1
  <2> QED BY <1>1, <1>3, <1>4, <1>5, <2>1, <2>2, <2>3, Zenon DEF TypeOK, SrFits
<1>7. OnlyPointerOpsMove
  BY <1>3, <1>4, <1>5, Zenon DEF Init, OnlyPointerOpsMove, SrFits
<1> QED BY <1>6, <1>7 DEF TypeInv

\* Every step of either reconciler and of the world outside keeps the type.
LEMMA NextTyped == TypeInv /\ [Next]_vars => TypeInv'
\* Sequences of at most one element each.
<1>SeqConcat.
  ASSUME NEW S, NEW s \in Seq(S), NEW t \in Seq(S)
  PROVE  s \o t \in Seq(S)
  BY <1>SeqConcat

\* the mark that it moved the pointer, on all but a level change,
<1>AppliedType.
  ASSUME NEW op \in OpType, op.type # "autonomy"
  PROVE  /\ [op EXCEPT !.applied = TRUE] \in OpType
         /\ [op EXCEPT !.applied = TRUE].type = op.type
  BY <1>AppliedType, Zenon DEF OpType

\* and the mark that it runs.
<1>RunningType.
  ASSUME NEW op \in OpType, NEW person \in BOOLEAN, op.type # "autonomy"
  PROVE  /\ [op EXCEPT !.phase = "Running", !.person = person] \in OpType
         /\ [op EXCEPT !.phase = "Running", !.person = person].type = op.type
  BY <1>RunningType, Zenon DEF OpType, Phases

\* The operation reconciler writes one Operation, the Stage or the applier.
<1>OpStep.
  ASSUME TypeInv, NEW o \in DOMAIN ops,
         NEW op \in OpType, op.type = ops[o].type, ops' = [ops EXCEPT ![o] = op],
         NEW r \in RunType, Fits(r, o), run' = [run EXCEPT ![o] = r],
         stage' \in StageType,
         stage'.lastOp = stage.lastOp \/ (stage'.lastOp = o /\ PointerOp(o)),
         digest' \in Digest, aborts' \in Nat, history' \in Seq(Nat),
         UNCHANGED <<sr, cstage, cops, edits>>
  PROVE  TypeInv'
  <2> USE <1>OpStep
  <2>1. /\ ops \in Seq(OpType) /\ run \in Seq(RunType) /\ Len(run) = Len(ops)
        /\ DOMAIN run = DOMAIN ops
    BY Reads DEF TypeInv, TypeOK
  <2>2. /\ ops' \in Seq(OpType) /\ Len(ops') = Len(ops) /\ DOMAIN ops' = DOMAIN ops
    BY <2>1, SeqExcept
  <2>3. /\ run' \in Seq(RunType) /\ Len(run') = Len(run) /\ DOMAIN run' = DOMAIN run
    BY <2>1, SeqExcept
  <2>4. \A u \in DOMAIN ops : ops'[u].type = ops[u].type
    BY <2>1
  <2>5. \A u : PointerOp(u)' <=> PointerOp(u)
    BY <2>2, <2>4 DEF PointerOp
  <2>6. \A u \in DOMAIN run : Fits(run[u], u)
    BY DEF TypeInv, TypeOK, OnlyPointerOpsMove, Fits, Moves
  <2>7. \A u \in DOMAIN run' : Fits(run'[u], u)
    BY <2>1, <2>3, <2>6
  <2>8. TypeOK'
    BY <2>2, <2>3, <2>7 DEF TypeInv, TypeOK, Fits
  <2>9. OnlyPointerOpsMove'
    <3>1. \A u \in DOMAIN cops' : cops'[u].type = ops'[u].type
      BY <2>4, Reads DEF TypeInv, TypeOK, OnlyPointerOpsMove
    <3>2. \A t \in {stage', cstage'} : t.lastOp = NoOp \/ PointerOp(t.lastOp)'
      BY <2>5 DEF TypeInv, OnlyPointerOpsMove
    <3>3. \A u \in DOMAIN run' : Moves(run'[u]) => PointerOp(u)'
      BY <2>5, <2>7 DEF Fits
    <3>4. sr'.at \in {"passed", "judged", "raise", "record", "rollback"} => PointerOp(sr.op)'
      BY <2>5 DEF TypeInv, OnlyPointerOpsMove
    <3> QED BY <3>1, <3>2, <3>3, <3>4 DEF OnlyPointerOpsMove, Moves
  <2> QED BY <2>8, <2>9 DEF TypeInv

\* The stage reconciler, or the world outside, writes the Stage, the applier or
\* the caches.
<1>StageStep.
  ASSUME TypeInv,
         stage' \in StageType, stage'.lastOp = stage.lastOp,
         sr' \in SrType, SrFits(sr'),
         digest' \in Digest, edits' \in Nat, aborts' \in Nat,
         cstage' \in {stage, cstage}, cops' \in {ops, cops},
         UNCHANGED <<ops, run, history>>
  PROVE  TypeInv'
  <2> USE <1>StageStep
  <2>1. \A u : PointerOp(u)' <=> PointerOp(u)
    BY DEF PointerOp
  <2>2. TypeOK'
    BY DEF TypeInv, TypeOK, SrFits
  <2>3. OnlyPointerOpsMove'
    <3>1. \A u \in DOMAIN cops' : cops'[u].type = ops'[u].type
      BY DEF TypeInv, OnlyPointerOpsMove
    <3>2. \A t \in {stage', cstage'} : t.lastOp = NoOp \/ PointerOp(t.lastOp)'
      BY <2>1 DEF TypeInv, OnlyPointerOpsMove
    <3>3. \A u \in DOMAIN run' : Moves(run'[u]) => PointerOp(u)'
      BY <2>1 DEF TypeInv, OnlyPointerOpsMove, Moves
    <3>4. sr'.at \in {"passed", "judged", "raise", "record", "rollback"} => PointerOp(sr.op)'
      BY <2>1 DEF SrFits
    <3> QED BY <3>1, <3>2, <3>3, <3>4 DEF OnlyPointerOpsMove, Moves
  <2> QED BY <2>2, <2>3 DEF TypeInv

\* An Operation is created.
<1>CreateStep.
  ASSUME TypeInv, NEW op \in OpType, ops' = Append(ops, op),
         NEW steps \in Seq(RunType), Len(steps) = Len(run),
         \A u \in DOMAIN steps : Fits(steps[u], u), run' = Append(steps, Idle),
         sr' \in SrType, SrFits(sr'),
         UNCHANGED <<stage, digest, cstage, cops, edits, aborts, history>>
  PROVE  TypeInv'
  <2> USE <1>CreateStep
  <2>1. /\ ops \in Seq(OpType) /\ Len(run) = Len(ops) /\ Len(ops) \in Nat
        /\ DOMAIN ops = 1 .. Len(ops)
    BY Reads DEF TypeInv, TypeOK
  <2>2. /\ ops' \in Seq(OpType) /\ Len(ops') = Len(ops) + 1
        /\ DOMAIN ops' = DOMAIN ops \cup {Len(ops) + 1}
        /\ \A u \in DOMAIN ops : ops'[u] = ops[u]
    BY <2>1, SeqAppend
  <2>3. Idle \in RunType /\ Idle.at = "idle"
    BY IdleType
  <2>4. /\ run' \in Seq(RunType) /\ Len(run') = Len(steps) + 1
        /\ DOMAIN run' = DOMAIN steps \cup {Len(steps) + 1}
        /\ \A u \in DOMAIN steps : run'[u] = steps[u]
        /\ run'[Len(steps) + 1] = Idle
    BY <2>3, SeqAppend
  <2>5. \A u : PointerOp(u) => PointerOp(u)'
    BY <2>2 DEF PointerOp
  <2>6. \A u \in DOMAIN run' : Fits(run'[u], u) 
    BY <2>3, <2>4 DEF Fits, Moves
  <2>7. TypeOK'
    BY <2>1, <2>2, <2>4, <2>6 DEF TypeInv, TypeOK, Fits, SrFits
  <2>8. OnlyPointerOpsMove'
    <3>1. \A u \in DOMAIN cops' : cops'[u].type = ops'[u].type
      BY <2>1, <2>2 DEF TypeInv, TypeOK, OnlyPointerOpsMove
    <3>2. \A t \in {stage', cstage'} : t.lastOp = NoOp \/ PointerOp(t.lastOp)'
      BY <2>5 DEF TypeInv, OnlyPointerOpsMove
    <3>3. \A u \in DOMAIN run' : Moves(run'[u]) => PointerOp(u)'
      BY <2>5, <2>6 DEF Fits
    <3>4. sr'.at \in {"passed", "judged", "raise", "record", "rollback"} => PointerOp(sr.op)'
      BY <2>5 DEF SrFits
    <3> QED BY <3>1, <3>2, <3>3, <3>4, Zenon DEF OnlyPointerOpsMove, Moves
  <2> QED BY <2>7, <2>8 DEF TypeInv

\* The rollback, the freeze and the step-down of an Operation are Operations.
<1>RollbackOfType.
  ASSUME NEW o \in Nat, NEW op \in OpType, op.type # "autonomy"
  PROVE  /\ RollbackOf(o, op) \in RaisedType /\ FreezeOf(o, op) \in RaisedType
         /\ RollbackOf(o, op) \in OpType /\ FreezeOf(o, op) \in OpType
  <2> USE <1>RollbackOfType
  <2>1. op.to \in Digest /\ Before(op) \in Digest /\ NoDigest \in Digest
    BY OpFields DEF Before, Digest
  <2>2. /\ Name("rollback", o, NoDigest, NoDigest) \in Kinds \X Nat \X Digest \X Digest
        /\ Name("freeze", o, NoDigest, NoDigest) \in Kinds \X Nat \X Digest \X Digest
    BY <2>1 DEF Name, Kinds
  <2>3. /\ "rollback" \in Types /\ "rollback" # "autonomy" /\ "freeze" \in Types
        /\ "freeze" # "autonomy" /\ "controller" \in Classes /\ NoOp \in Nat
    BY DEF Types, Classes, NoOp
  <2>4. RollbackOf(o, op) \in RaisedType
    BY <2>1, <2>2, <2>3, NewOpType, Zenon DEF RollbackOf
  <2>5. FreezeOf(o, op) \in RaisedType
    BY <2>1, <2>2, <2>3, NewOpType, Zenon DEF FreezeOf
  <2> QED BY <2>4, <2>5, Zenon DEF RaisedType

\* The step-down of a failed promote goes from one level to the one below.
<1>StepDownOfType.
  ASSUME NEW o \in Nat, stage \in StageType, Automatic(stage.level)
  PROVE  StepDownOf(o) \in RaisedType
  <2> USE <1>StepDownOfType
  <2>1. stage.level \in Levels /\ stage.level - 1 \in Levels
    BY DEF StageType, Automatic, Levels, Observe, AutoNonBreaking, Autonomous
  <2>2. Name("stepdown", o, NoDigest, NoDigest) \in Kinds \X Nat \X Digest \X Digest
    BY DEF Name, Kinds, Digest
  <2>3. "autonomy" \in Types /\ "controller" \in Classes /\ NoOp \in Nat
    BY DEF Types, Classes, NoOp
  <2> QED BY <2>1, <2>2, <2>3, NewOpType DEF StepDownOf

\* What a failed promote owes are Operations.
<1>OwedType.
  ASSUME TypeInv, NEW o \in DOMAIN ops, NEW c, NEW person
  PROVE  Owed(o, c, person) \in Seq(RaisedType)
  <2> USE <1>OwedType
  <2> DEFINE op == ops[o]
  <2>1. o \in Nat /\ op \in OpType /\ stage \in StageType
    BY Reads DEF TypeInv, TypeOK
  <2>2. \A e \in RaisedType : <<e>> \in Seq(RaisedType)
    OBVIOUS
  <2>3. <<>> \in Seq(RaisedType)
    OBVIOUS
  <2>4. StepsDown(op, person, c.cause) => <<StepDownOf(o)>> \in Seq(RaisedType)
    BY <2>1, <2>2, <1>StepDownOfType DEF StepsDown
  <2>5. op.type = "promote" => <<RollbackOf(o, op)>> \in Seq(RaisedType)
    BY <2>1, <2>2, <1>RollbackOfType
  <2>6. \A s, t \in Seq(RaisedType) : s \o t \in Seq(RaisedType)
    BY <1>SeqConcat
  <2>7. CASE c.outcome = "Failed" /\ op.type = "promote"
    <3>1. \E s, t \in Seq(RaisedType) : Owed(o, c, person) = s \o t
      BY <2>3, <2>4, <2>5, <2>7, Zenon DEF Owed
    <3> QED BY <2>6, <3>1
  <2>8. CASE ~(c.outcome = "Failed" /\ op.type = "promote")
    BY <2>3, <2>8 DEF Owed
  <2> QED BY <2>7, <2>8

\* Deciding a conclusion.
<1>ConcludeKeeps.
  ASSUME TypeInv, NEW o \in DOMAIN ops, NEW c \in ConType, NEW person \in BOOLEAN,
         c.outcome = "Failed" \/ c.verification = "Verified" => PointerOp(o),
         Conclude(o, c, person)
  PROVE  TypeInv'
  <2> USE <1>ConcludeKeeps
  <2> DEFINE r == Concluding(o, c, person)
  <2>1. Owed(o, c, person) \in Seq(RaisedType)
    BY <1>OwedType
  <2>2. /\ r \in RunType /\ r.c = c
        /\ r.at \in {"raise", "swap"} /\ (r.at = "raise" => r.todo # <<>>)
    BY <2>1, IdleType, Zenon DEF Concluding, RunType
  <2>3. Fits(r, o)
    BY <2>2 DEF Fits, Moves
  <2>4. ops[o] \in OpType /\ ops = [ops EXCEPT ![o] = ops[o]]
    BY Reads DEF TypeInv, TypeOK
  <2> HIDE DEF r
  <2>5. run' = [run EXCEPT ![o] = r]
    BY DEF Conclude, r
  <2> QED BY <2>2, <2>3, <2>4, <2>5, <1>OpStep, Zenon DEF Conclude, TypeInv, TypeOK

\* The reconcile of o raises op, or finds its name taken.
<1>RaiseByOperation.
  ASSUME TypeInv, NEW o \in DOMAIN ops, NEW op \in OpType, NEW r \in RunType, Fits(r, o),
         ops' = OpsAfter(op), run' = RunAfter(op, [run EXCEPT ![o] = r]),
         UNCHANGED <<stage, digest, sr, cstage, cops, edits, aborts, history>>
  PROVE  TypeInv'
  <2> USE <1>RaiseByOperation
  <2> DEFINE steps == [run EXCEPT ![o] = r]
  <2>1. /\ run \in Seq(RunType) /\ o \in DOMAIN run /\ ops[o] \in OpType
        /\ ops = [ops EXCEPT ![o] = ops[o]]
    BY Reads DEF TypeInv, TypeOK
  <2>2. steps \in Seq(RunType) /\ Len(steps) = Len(run) /\ DOMAIN steps = DOMAIN run
    BY <2>1, SeqExcept, SMTT(30)
  <2>3. \A u \in DOMAIN run : Fits(run[u], u)
    BY Zenon DEF TypeInv, TypeOK, OnlyPointerOpsMove, Fits, Moves
  <2>4. \A u \in DOMAIN steps : Fits(steps[u], u)
    BY <2>1, <2>2, <2>3, SMTT(30)
  <2>5. sr' \in SrType /\ SrFits(sr')
    BY DEF TypeInv, TypeOK, OnlyPointerOpsMove, SrFits
  <2>6. CASE Raise(op) = "created"
    <3>1. ops' = Append(ops, op) /\ run' = Append(steps, Idle)
      BY <2>6 DEF OpsAfter, RunAfter
    <3> HIDE DEF steps
    <3> QED BY <2>2, <2>4, <2>5, <3>1, <1>CreateStep, Zenon
  <2>7. CASE Raise(op) # "created"
    <3>1. ops' = ops /\ run' = steps
      BY <2>7 DEF OpsAfter, RunAfter
    <3> QED BY <2>1, <3>1, <1>OpStep, Zenon DEF TypeInv, TypeOK
  <2> QED BY <2>6, <2>7

\* The stage reconciler raises op, or finds its name taken.
<1>RaiseByStage.
  ASSUME TypeInv, NEW op \in OpType, sr' \in SrType, SrFits(sr'),
         ops' = OpsAfter(op), run' = RunAfter(op, run),
         UNCHANGED <<stage, digest, cstage, cops, edits, aborts, history>>
  PROVE  TypeInv'
  <2> USE <1>RaiseByStage
  <2>1. run \in Seq(RunType) /\ \A u \in DOMAIN run : Fits(run[u], u)
    BY DEF TypeInv, TypeOK, OnlyPointerOpsMove, Fits, Moves
  <2>2. CASE Raise(op) = "created"
    <3>1. ops' = Append(ops, op) /\ run' = Append(run, Idle)
      BY <2>2 DEF OpsAfter, RunAfter
    <3> QED BY <2>1, <3>1, <1>CreateStep
  <2>3. CASE Raise(op) # "created"
    <3>1. ops' = ops /\ run' = run
      BY <2>3 DEF OpsAfter, RunAfter
    <3> QED BY <3>1, <1>StageStep DEF TypeInv, TypeOK
  <2> QED BY <2>2, <2>3

\* Raising what a failed promote owes, one Operation at a time (raiseOnFailure).
<1>RaiseOwedKeeps.
  ASSUME TypeInv, NEW o \in DOMAIN ops, RaiseOwed(o)
  PROVE  TypeInv'
  <2> USE <1>RaiseOwedKeeps
  <2> DEFINE op   == Head(run[o].todo)
             rest == Tail(run[o].todo)
             on   == [run[o] EXCEPT !.at    = IF rest = <<>> THEN "swap" ELSE @,
                                    !.todo  = rest,
                                    !.squat = @ \/ Raise(op) = "squat"]
             r    == IF Raise(op) = "error" THEN Idle ELSE on
  <2>1. /\ run[o] \in RunType /\ run[o].at = "raise" /\ run[o].todo # <<>>
        /\ Fits(run[o], o)
    BY Reads DEF RaiseOwed, TypeInv, TypeOK, OnlyPointerOpsMove, Fits, Moves
  <2>2. op \in OpType /\ rest \in Seq(RaisedType)
    BY <2>1, SeqHeadTail, Zenon DEF RunType, RaisedType
  <2>3. /\ on \in RunType /\ on.c = run[o].c /\ on.at \in {"raise", "swap"}
        /\ (on.at = "raise" => on.todo # <<>>)
    BY <2>1, <2>2, Zenon DEF RunType
  <2>4. Fits(on, o)
    BY <2>1, <2>3, SMTT(30) DEF Fits, Moves
  <2>5. r \in RunType /\ Fits(r, o)
    BY <2>3, <2>4, IdleType DEF Fits, Moves
  <2>6. /\ ops' = OpsAfter(op) /\ run' = RunAfter(op, [run EXCEPT ![o] = r])
        /\ UNCHANGED <<stage, digest, sr, cstage, cops, edits, aborts, history>>
    BY DEF RaiseOwed
  <2> HIDE DEF op, r
  <2> QED BY <2>2, <2>5, <2>6, <1>RaiseByOperation, SMTT(30)

\* The swap of an Operation that has its number releases the lock alone.
<1>SwapAgainKeeps.
  ASSUME TypeInv, NEW o \in DOMAIN ops, SwapAgain(o)
  PROVE  TypeInv'
  <2> USE <1>SwapAgainKeeps
  <2> DEFINE e == EntryOf(o)
             r == [run[o] EXCEPT !.at = "write", !.c = Con(e.outcome, e.verification)]
  <2>1. /\ run[o] \in RunType /\ o \in DOMAIN run /\ ops[o] \in OpType
        /\ ops = [ops EXCEPT ![o] = ops[o]]
    BY Reads DEF TypeInv, TypeOK
  <2>2. stage.concluded \in Seq(EntryType)
    BY DEF TypeInv, TypeOK, StageType
  <2>3. e \in EntryType
    BY <2>2 DEF SwapAgain, ConcludedOn, EntryOf
  <2> HIDE DEF e
  <2>4. Con(e.outcome, e.verification) \in ConType
    BY <2>3, ConTypes, Zenon DEF EntryType
  <2>5. r \in RunType /\ r.at = "write"
    BY <2>1, <2>4, Zenon DEF RunType
  <2>6. Fits(r, o)
    BY <2>5 DEF Fits, Moves
  <2>7. run' = [run EXCEPT ![o] = r]
    BY <2>1, Zenon DEF SwapAgain, e
  <2>8. stage' \in StageType /\ stage'.lastOp = stage.lastOp
    BY ReleasedType DEF SwapAgain
  <2> HIDE DEF r
  <2> QED BY <2>1, <2>5, <2>6, <2>7, <2>8, <1>OpStep, Zenon DEF SwapAgain, TypeInv, TypeOK

\* The swap that concludes an Operation keeps the type.
<1>SwapKeeps.
  ASSUME TypeInv, NEW o \in DOMAIN ops, Swap(o)
  PROVE  TypeInv'
  <2> USE <1>SwapKeeps
  <2> DEFINE c == Decided(o, [ops[o] EXCEPT !.person = run[o].person], run[o].c)
             r == [run[o] EXCEPT !.at = "write", !.c = c]
  <2>1. /\ c \in ConType /\ stage' \in StageType /\ stage'.lastOp = stage.lastOp
        /\ run' = [run EXCEPT ![o] = r]
    BY SwapStage, Zenon
  <2> HIDE DEF c
  <2>2. /\ run[o] \in RunType /\ o \in Nat /\ ops[o] \in OpType
        /\ ops = [ops EXCEPT ![o] = ops[o]]
    BY Reads DEF TypeInv, TypeOK
  <2>3. r \in RunType /\ r.at = "write"
    BY <2>1, <2>2, Zenon DEF RunType
  <2>4. Fits(r, o)
    BY <2>3 DEF Fits, Moves
  <2>5. history' \in Seq(Nat)
    BY <2>2 DEF Swap, TypeInv, TypeOK
  <2> HIDE DEF r
  <2> QED BY <2>1, <2>2, <2>3, <2>4, <2>5, <1>OpStep, Zenon DEF Swap, TypeInv, TypeOK

\* Writing the conclusion on the Operation keeps the type.
<1>WriteConcludedKeeps.
  ASSUME TypeInv, NEW o \in DOMAIN ops, WriteConcluded(o)
  PROVE  TypeInv'
  <2> USE <1>WriteConcludedKeeps
  <2> DEFINE op == [ops[o] EXCEPT !.phase = "Concluded", !.outcome = run[o].c.outcome,
                                  !.verification = run[o].c.verification,
                                  !.person = run[o].person]
  <2>1. /\ run[o] \in RunType /\ ops[o] \in OpType
        /\ run[o].c \in ConType /\ run[o].person \in BOOLEAN
    BY Reads, Zenon DEF RunType
  <2>2. op \in OpType /\ op.type = ops[o].type
    <3>1. run[o].c.outcome \in Outcomes /\ run[o].c.verification \in Verifications
      BY <2>1 DEF ConType
    <3> QED BY <2>1, <3>1, Zenon DEF OpType, Phases
  <2>3. ops' = [ops EXCEPT ![o] = op]
    BY Zenon DEF WriteConcluded
  <2>4. Idle \in RunType /\ Fits(Idle, o) /\ run' = [run EXCEPT ![o] = Idle]
    BY IdleType DEF WriteConcluded, Fits, Moves
  <2> HIDE DEF op
  <2> QED BY <2>2, <2>3, <2>4, <1>OpStep, Zenon DEF WriteConcluded, TypeInv, TypeOK

\* A conclusion that is neither Failed nor Verified may end any Operation.
<1>PlainFinish.
  ASSUME TypeInv, NEW o \in DOMAIN ops, NEW person \in BOOLEAN, NEW c,
         \/ c \in {Again, Errored}
         \/ \E x \in {"Rejected", "Expired", "Superseded"} : c = Con(x, "")
         \/ c = Con("Succeeded", "Unverified") \/ c = Con("Succeeded", "AcceptedUnknown"),
         Conclude(o, c, person)
  PROVE  TypeInv'
  <2> USE <1>PlainFinish
  <2>1. ASSUME NEW x \in {"Rejected", "Expired", "Superseded"}
        PROVE  Con(x, "") \in ConType /\ Con(x, "").outcome = x /\ Con(x, "").verification = ""
    <3>1. x \in Outcomes /\ "" \in Verifications
      BY Zenon DEF Outcomes, Verifications
    <3> QED BY <3>1, ConTypes, Zenon
  <2>2. \A v \in {"Unverified", "AcceptedUnknown"} :
          /\ Con("Succeeded", v) \in ConType
          /\ Con("Succeeded", v).outcome = "Succeeded" /\ Con("Succeeded", v).verification = v
    <3>1. {"Unverified", "AcceptedUnknown"} \subseteq Verifications /\ "Succeeded" \in Outcomes
      BY Zenon DEF Outcomes, Verifications
    <3> QED BY <3>1, ConTypes, Zenon
  <2>3. c \in ConType /\ c.outcome # "Failed" /\ c.verification # "Verified"
    BY <2>1, <2>2, ConTypes, ZenonT(40)
  <2> QED BY <2>3, <1>ConcludeKeeps, Zenon

\* Writing an Operation whose kind stays the same keeps the type.
<1>SaveKeeps.
  ASSUME TypeInv, NEW o \in DOMAIN ops, NEW op \in OpType, op.type = ops[o].type, Save(o, op)
  PROVE  TypeInv'
  <2> USE <1>SaveKeeps
  <2>1. run[o] \in RunType /\ run = [run EXCEPT ![o] = run[o]]
    BY Reads DEF TypeInv, TypeOK
  <2>2. Fits(run[o], o)
    BY Reads DEF TypeInv, TypeOK, OnlyPointerOpsMove, Fits, Moves
  <2> QED BY <2>1, <2>2, <1>OpStep, ZenonT(30) DEF Save, TypeInv, TypeOK

\* The reconcile of o goes to another place that fits it.
<1>RunKeeps.
  ASSUME TypeInv, NEW o \in DOMAIN ops, NEW r \in RunType, Fits(r, o),
         run' = [run EXCEPT ![o] = r], aborts' \in Nat, digest' \in Digest,
         stage' \in StageType,
         stage'.lastOp = stage.lastOp \/ (stage'.lastOp = o /\ PointerOp(o)),
         UNCHANGED <<ops, sr, cstage, cops, edits, history>>
  PROVE  TypeInv'
  <2> USE <1>RunKeeps
  <2>1. ops[o] \in OpType /\ ops = [ops EXCEPT ![o] = ops[o]]
    BY Reads DEF TypeInv, TypeOK
  <2> QED BY <2>1, <1>OpStep, Zenon DEF TypeInv, TypeOK

\* The reconcile of a pointer Operation moves the pointer, and goes on unless the copy it read was stale.
<1>SwapAndGoOn.
  ASSUME TypeInv, NEW o, PointerOp(o),
         run' = run \/ run' = [run EXCEPT ![o].at = "moved"],
         stage' \in StageType, stage'.lastOp \in {stage.lastOp, o},
         UNCHANGED <<ops, digest, sr, cstage, cops, edits, aborts, history>>
  PROVE  TypeInv'
  <2> USE <1>SwapAndGoOn
  <2>1. o \in DOMAIN ops /\ o \in DOMAIN run /\ run[o] \in RunType
    BY Reads DEF PointerOp
  <2>2. Fits(run[o], o)
    BY <2>1 DEF TypeInv, TypeOK, OnlyPointerOpsMove, Fits, Moves
  <2> DEFINE p == [run[o] EXCEPT !.at = "moved"]
  <2>3. p \in RunType /\ p.at = "moved"
    BY <2>1, Zenon DEF RunType
  <2>4. Fits(p, o)
    BY <2>3 DEF Fits
  <2>5. run' = [run EXCEPT ![o] = run[o]] \/ run' = [run EXCEPT ![o] = p]
    BY <2>1 DEF TypeInv, TypeOK
  <2>6. \E r \in RunType : Fits(r, o) /\ run' = [run EXCEPT ![o] = r]
    BY <2>1, <2>2, <2>3, <2>4, <2>5, SMTT(30)
  <2> QED BY <2>1, <2>6, <1>RunKeeps, Zenon DEF TypeInv, TypeOK

\* Going on to the lock, or concluding a level change, keeps the type.
<1>LockKeeps.
  ASSUME TypeInv, NEW o \in DOMAIN ops, NEW person \in BOOLEAN, LockOrLevel(o, person)
  PROVE  TypeInv'
  <2> USE <1>LockKeeps
  <2>1. CASE ops[o].type = "autonomy"
    BY <2>1, <1>PlainFinish, Zenon DEF LockOrLevel, Finish
  <2>2. CASE ops[o].type # "autonomy"
    <3>1. PICK at \in {"planned", "outdated"} :
            run' = [run EXCEPT ![o] = [Idle EXCEPT !.at = at, !.person = person]]
      BY <2>2, Zenon DEF LockOrLevel, Planned
    <3> DEFINE r == [Idle EXCEPT !.at = at, !.person = person]
    <3>2. r \in RunType /\ r.at = at
      BY IdleType, Zenon DEF RunType
    <3>3. Fits(r, o)
      BY <2>2, <3>2 DEF Fits, PointerOp
    <3> HIDE DEF r
    <3>4. run' = [run EXCEPT ![o] = r]
      BY <3>1 DEF r
    <3> QED BY <2>2, <3>2, <3>3, <3>4, <1>RunKeeps, Zenon DEF LockOrLevel, Planned, TypeInv, TypeOK
  <2> QED BY <2>1, <2>2

\* The swap that takes the lock, and what it comes to when it does not.
<1>LockingKeeps.
  ASSUME TypeInv, NEW o \in DOMAIN ops, Lock(o) \/ LockRefused(o) \/ LockWaits(o)
  PROVE  TypeInv'
  <2> USE <1>LockingKeeps
  <2>1. o \in DOMAIN run /\ run[o] \in RunType /\ run[o].person \in BOOLEAN
    BY Reads, Zenon DEF RunType
  <2>2. Idle \in RunType /\ Fits(Idle, o)
    BY IdleType DEF Fits, Moves
  <2>3. CASE Lock(o)
    <3> DEFINE r == [run[o] EXCEPT !.at = "locked"]
    <3>1. PointerOp(o)
      BY <2>1, <2>3 DEF Lock, TypeInv, OnlyPointerOpsMove
    <3>2. r \in RunType /\ r.at = "locked"
      BY <2>1, Zenon DEF RunType
    <3>3. Fits(r, o)
      BY <3>1, <3>2 DEF Fits
    <3>4. stage' \in StageType /\ stage'.lastOp = stage.lastOp
      BY <2>3, Reads, Zenon DEF Lock, TypeInv, TypeOK, StageType
    <3>5. run' = [run EXCEPT ![o] = Idle] \/ run' = [run EXCEPT ![o] = r]
      BY <2>1, <2>3, Zenon DEF Lock
    <3> HIDE DEF r
    <3> QED BY <2>2, <2>3, <3>2, <3>3, <3>4, <3>5, <1>RunKeeps, Zenon DEF Lock, TypeInv, TypeOK
  <2>4. CASE LockRefused(o)
    BY <2>1, <2>4, <1>PlainFinish, Zenon DEF LockRefused
  <2>5. CASE LockWaits(o)
    BY <2>2, <2>5, <1>RunKeeps, Zenon DEF LockWaits, TypeInv, TypeOK
  <2> QED BY <2>3, <2>4, <2>5

\* One that concerns the pointer is of an Operation that does.
<1>ShippedIsPointerOp.
  ASSUME TypeInv, NEW o, Ready(o),
         Known[o].phase \in {"Running", "Verifying"} \/ Known[o].applied
  PROVE  PointerOp(o)
  BY <1>ShippedIsPointerOp, ReadyReads, OpFields DEF PointerOp

\* Everything up to the lock: admission, exits, the pre-gates and the hold.
<1>BeforeLockKeeps.
  ASSUME TypeInv, NEW o \in DOMAIN ops,
         \/ FinishAgain(o) \/ Admit(o) \/ PreApplyExit(o) \/ Supersede(o)
         \/ FreezeOrUnfreeze(o) \/ Pend(o) \/ HeldReject(o) \/ HeldAskAgain(o)
         \/ HeldApprove(o)
  PROVE  TypeInv'
  <2> USE <1>BeforeLockKeeps
  <2>1. ops[o] \in OpType /\ ops[o].person \in BOOLEAN
    BY Reads, OpFields
  <2>2. \A p \in {"Pending", "Held"} :
          [ops[o] EXCEPT !.phase = p] \in OpType /\ [ops[o] EXCEPT !.phase = p].type = ops[o].type
    BY <2>1, PhaseType, Zenon DEF Phases
  <2>3. CASE FinishAgain(o)
    BY <2>1, <2>3, <1>PlainFinish, Zenon DEF FinishAgain, Finish
  <2>4. CASE Admit(o)
    <3>1. \/ Finish(o, Con("Rejected", ""), FALSE)
          \/ Save(o, [ops[o] EXCEPT !.phase = "Pending"])
      BY <2>4, Zenon DEF Admit
    <3> QED BY <2>2, <3>1, <1>PlainFinish, <1>SaveKeeps, Zenon DEF Finish
  <2>5. CASE PreApplyExit(o)
    BY <2>1, <2>5, <1>PlainFinish, Zenon DEF PreApplyExit, Finish
  <2>6. CASE Supersede(o)
    BY <2>1, <2>6, <1>PlainFinish, Zenon DEF Supersede, Finish
  <2>7. CASE FreezeOrUnfreeze(o)
    BY <2>1, <2>7, <1>PlainFinish, Zenon DEF FreezeOrUnfreeze, Finish
  <2>8. CASE Pend(o)
    <3>1. \/ Finish(o, Con("Rejected", ""), ops[o].person)
          \/ Save(o, [ops[o] EXCEPT !.phase = "Held"])
          \/ LockOrLevel(o, ops[o].person)
      BY <2>8, Zenon DEF Pend
    <3> QED BY <2>1, <2>2, <3>1, <1>PlainFinish, <1>SaveKeeps, <1>LockKeeps, Zenon DEF Finish
  <2>9. CASE HeldReject(o)
    BY <2>9, <1>PlainFinish, Zenon DEF HeldReject, Finish
  <2>10. CASE HeldAskAgain(o)
    BY <2>1, <2>10, PersonType, <1>SaveKeeps, Zenon DEF HeldAskAgain
  <2>11. CASE HeldApprove(o)
    <3>1. Finish(o, Con("Rejected", ""), TRUE) \/ LockOrLevel(o, TRUE)
      BY <2>11, Zenon DEF HeldApprove
    <3> QED BY <3>1, <1>PlainFinish, <1>LockKeeps, Zenon DEF Finish
  <2> QED BY <2>3, <2>4, <2>5, <2>6, <2>7, <2>8, <2>9, <2>10, <2>11, SMTT(30)

\* From the lock to the patch of the applier.
<1>MovingKeeps.
  ASSUME TypeInv, NEW o \in DOMAIN ops,
         \/ WriteRunning(o) \/ ExecutionDeadline(o) \/ MoveSwap(o) \/ WriteApplied(o)
         \/ ReadBefore(o) \/ Patch(o) \/ NotAppliedYet(o) \/ Abort(o)
  PROVE  TypeInv'
  <2> USE <1>MovingKeeps
  <2>1. /\ ops[o] \in OpType /\ ops[o].person \in BOOLEAN
        /\ o \in DOMAIN run /\ run[o] \in RunType /\ run[o].person \in BOOLEAN
    <3>1. ops[o] \in OpType /\ o \in DOMAIN run /\ run[o] \in RunType
      BY Reads, Zenon
    <3>2. ops[o].person \in BOOLEAN
      BY <3>1, Zenon DEF OpType
    <3>3. run[o].person \in BOOLEAN
      BY <3>1, Zenon DEF RunType
    <3> QED BY <3>1, <3>2, <3>3
  <2>2. Moves(run[o]) => PointerOp(o)
    BY <2>1, Zenon DEF TypeInv, OnlyPointerOpsMove, Moves
  <2>3. Idle \in RunType /\ Fits(Idle, o)
    BY IdleType DEF Fits, Moves
  <2>4. CASE WriteRunning(o)
    <3> DEFINE op == [ops[o] EXCEPT !.phase = "Running", !.person = run[o].person]
    <3>1. ops[o].type # "autonomy"
      BY <2>2, <2>4 DEF WriteRunning, Moves, PointerOp
    <3>2. op \in OpType /\ op.type = ops[o].type
      BY <2>1, <3>1, <1>RunningType, Zenon
    <3>3. ops' = [ops EXCEPT ![o] = op] /\ run' = [run EXCEPT ![o] = Idle]
      BY <2>4, ZenonT(30) DEF WriteRunning
    <3> HIDE DEF op
    <3> QED BY <2>3, <2>4, <3>2, <3>3, <1>OpStep, Zenon DEF WriteRunning, TypeInv, TypeOK
  <2>5. CASE ExecutionDeadline(o)
    BY <2>1, <2>5, <1>PlainFinish, Zenon DEF ExecutionDeadline, Finish
  <2>6. CASE MoveSwap(o)
    <3>1. PointerOp(o)
      BY <2>6, <1>ShippedIsPointerOp, SMTT(30) DEF MoveSwap, In
    <3>2. CASE Finish(o, Errored, ops[o].person)
      BY <2>1, <3>2, <1>PlainFinish, Zenon DEF Finish
    <3>3. CASE /\ stage' = [stage EXCEPT !.pointer = ops[o].to, !.lastOp = o]
               /\ run' = IF Stale(o) THEN run ELSE [run EXCEPT ![o].at = "moved"]
               /\ UNCHANGED <<ops, digest, sr, cstage, cops, edits, aborts, history>>
      <4>1. ops[o].to \in Digest /\ o \in Nat
        BY <2>1, <3>1, OpFields, Reads DEF PointerOp
      <4>2. stage' \in StageType /\ stage'.lastOp = o
        BY <3>3, <4>1, Zenon DEF TypeInv, TypeOK, StageType
      <4> QED BY <3>1, <3>3, <4>2, <1>SwapAndGoOn, ZenonT(40)
    <3> QED BY <2>6, <3>2, <3>3 DEF MoveSwap
  <2>7. CASE WriteApplied(o)
    <3> DEFINE op == [ops[o] EXCEPT !.applied = TRUE]
               r  == [run[o] EXCEPT !.at = "apply"]
    <3>1. PointerOp(o)
      BY <2>2, <2>7 DEF WriteApplied, Moves
    <3>2. op \in OpType /\ op.type = ops[o].type
      BY <2>1, <3>1, <1>AppliedType DEF PointerOp
    <3>3. r \in RunType /\ r.at = "apply"
      BY <2>1 DEF RunType
    <3>4. Fits(r, o)
      BY <3>1, <3>3 DEF Fits
    <3>5. ops' = [ops EXCEPT ![o] = op] /\ run' = [run EXCEPT ![o] = r]
      BY <2>7 DEF WriteApplied
    <3> HIDE DEF op, r
    <3> QED BY <2>7, <3>2, <3>3, <3>4, <3>5, <1>OpStep, Zenon DEF WriteApplied, TypeInv, TypeOK
  <2>8. CASE ReadBefore(o)
    <3> DEFINE r == [Idle EXCEPT !.at = "patch"]
    <3>1. PointerOp(o)
      BY <2>2, <2>8, <1>ShippedIsPointerOp DEF ReadBefore, Applying, In, Moves
    <3>2. r \in RunType /\ r.at = "patch"
      BY IdleType
    <3>3. Fits(r, o)
      BY <3>1, <3>2 DEF Fits
    <3>4. run' = [run EXCEPT ![o] = r]
      BY <2>8 DEF ReadBefore
    <3> HIDE DEF r
    <3> QED BY <2>8, <3>2, <3>3, <3>4, <1>RunKeeps, ZenonT(30) DEF ReadBefore, TypeInv, TypeOK
  <2>9. CASE Patch(o)
    <3>1. ops[o].to \in Digest
      BY <2>1, <2>2, <2>9, OpFields, ZenonT(30) DEF Patch, Moves, PointerOp
    <3> QED BY <2>3, <2>9, <3>1, <1>RunKeeps, Zenon DEF Patch, TypeInv, TypeOK
  <2>10. CASE NotAppliedYet(o)
    BY <2>3, <2>10, <1>RunKeeps, ZenonT(30) DEF NotAppliedYet, TypeInv, TypeOK
  <2>11. CASE Abort(o)
    <3>0. aborts \in Nat
      BY DEF TypeInv, TypeOK
    <3>1. aborts' \in Nat
      BY <2>11, <3>0 DEF Abort
    <3> QED BY <2>3, <2>11, <3>1, <1>RunKeeps, ZenonT(30) DEF Abort, TypeInv, TypeOK
  <2> QED BY <2>4, <2>5, <2>6, <2>7, <2>8, <2>9, <2>10, <2>11, SMTT(30)

\* The answer of the applier and the verdict of the gates.
<1>JudgingKeeps.
  ASSUME TypeInv, NEW o \in DOMAIN ops,
         \/ ForeignWriter(o) \/ ApplyFailed(o) \/ AppliedOk(o)
         \/ Preempted(o) \/ Verify(o) \/ VerifyDeadline(o) \/ HeldDecision(o)
  PROVE  TypeInv'
  <2> USE <1>JudgingKeeps
  <2>1. /\ ops[o] \in OpType /\ ops[o].person \in BOOLEAN /\ o \in DOMAIN run
    BY Reads, OpFields, SMTT(30)
  <2>2. Moves(run[o]) => PointerOp(o)
    BY <2>1, Zenon DEF TypeInv, OnlyPointerOpsMove, Moves
  <2>3. Applying(o) => PointerOp(o)
    BY <2>2, <1>ShippedIsPointerOp, SMTT(30) DEF Applying, In, Moves
  <2>4. Shipped(o) => PointerOp(o)
    BY <1>ShippedIsPointerOp DEF Shipped, In
  <2>5. \A c \in ConType, person \in BOOLEAN : PointerOp(o) /\ Conclude(o, c, person) => TypeInv'
    BY <1>ConcludeKeeps
  <2>6. Con("Failed", "") \in ConType /\ Con("Succeeded", "Verified") \in ConType
    BY SMTT(30) DEF Con, ConType, Outcomes, Verifications
  <2>7. CASE ForeignWriter(o)
    BY <2>1, <2>7, <1>PlainFinish, ZenonT(40) DEF ForeignWriter
  <2>8. CASE ApplyFailed(o)
    BY <2>1, <2>3, <2>5, <2>6, <2>8, ZenonT(40) DEF ApplyFailed
  <2>9. CASE AppliedOk(o)
    <3>1. PointerOp(o)
      BY <2>3, <2>9 DEF AppliedOk
    <3>2. Overridden(ops[o]) \in ConType
      BY Zenon DEF Overridden, Con, ConType, Outcomes, Verifications
    <3>3. CASE ops[o].type = "override"
      BY <2>1, <2>5, <2>9, <3>1, <3>2, <3>3, SMTT(30) DEF AppliedOk
    <3>4. CASE ops[o].type # "override"
      <4> DEFINE op == [ops[o] EXCEPT !.phase = "Verifying"]
      <4>1. op \in OpType /\ op.type = ops[o].type
        BY <2>1, <3>1, PhaseType, Zenon DEF PointerOp, Phases
      <4>2. ops' = [ops EXCEPT ![o] = op] /\ run' = [run EXCEPT ![o] = Idle]
        BY <2>9, <3>4 DEF AppliedOk
      <4>3. Idle \in RunType /\ Fits(Idle, o)
        BY IdleType, SMTT(30) DEF Fits, Moves
      <4> HIDE DEF op
      <4> QED BY <2>9, <3>4, <4>1, <4>2, <4>3, <1>OpStep, ZenonT(40) DEF AppliedOk, TypeInv, TypeOK
    <3> QED BY <3>3, <3>4
  <2>10. CASE Preempted(o)
    <3>1. Preemption(o) \in ConType
      BY Zenon DEF Preemption, VerifyFailed, PreemptedBy, Con, ConType, Outcomes, Verifications
    <3> QED BY <2>1, <2>4, <2>5, <2>10, <3>1, Zenon DEF Preempted, Finish
  <2>11. CASE Verify(o)
    BY <2>1, <2>4, <2>5, <2>6, <2>11, ConTypes, ZenonT(30) DEF Verify, Finish
  <2>12. CASE VerifyDeadline(o)
    <3>1. "Held" \in Phases /\ "Held" \notin {"Running", "Verifying"}
      BY DEF Phases
    <3> QED BY <2>1, <2>12, <3>1, PhaseType, <1>SaveKeeps, ZenonT(30) DEF VerifyDeadline
  <2>13. CASE HeldDecision(o)
    <3>1. PointerOp(o)
      BY <2>13, <1>ShippedIsPointerOp, Zenon DEF HeldDecision, In
    <3>2. Con("Succeeded", "AcceptedUnknown") \in ConType /\ Errored \in ConType
      BY ConTypes, Zenon DEF Outcomes, Verifications
    <3> QED BY <2>1, <2>5, <2>6, <2>13, <3>1, <3>2, Zenon DEF HeldDecision, Finish
  <2> QED BY <2>7, <2>8, <2>9, <2>10, <2>11, <2>12, <2>13, SMTT(30)

\* Whatever the operation reconciler does next keeps the type.
<1>AdvanceKeeps.
  ASSUME TypeInv, NEW o \in DOMAIN ops, Advance(o) \/ Abort(o)
  PROVE  TypeInv'
  BY <1>AdvanceKeeps, SMTT(30), <1>RaiseOwedKeeps, <1>SwapAgainKeeps, <1>SwapKeeps, <1>WriteConcludedKeeps, <1>BeforeLockKeeps,
       <1>LockingKeeps, <1>MovingKeeps, <1>JudgingKeeps
       DEF Advance

\* The reconcile of the Stage goes to a place that fits it.
<1>SrGoesKeeps.
  ASSUME TypeInv, NEW r \in SrType, SrFits(r), SrGoes(r)
  PROVE  TypeInv'
  BY <1>SrGoesKeeps, <1>StageStep, Zenon DEF SrGoes, SrRest, TypeInv, TypeOK

\* The reconcile of the Stage raises an Operation and rests.
<1>SrRaiseKeeps.
  ASSUME TypeInv, NEW op \in OpType, SrRaise(op)
  PROVE  TypeInv'
  <2> USE <1>SrRaiseKeeps
  <2>1. sr' \in SrType /\ SrFits(sr')
    BY SrTypes, ZenonT(30) DEF SrRaise
  <2> QED BY <2>1, <1>RaiseByStage DEF SrRaise, SrRest

\* The stage reconciler writes the Stage and rests.
<1>SrWriteKeeps.
  ASSUME TypeInv, stage' \in StageType, stage'.lastOp = stage.lastOp, sr' \in SrType, SrFits(sr'),
         UNCHANGED <<ops, run>>, SrRest
  PROVE  TypeInv'
  BY <1>SrWriteKeeps, <1>StageStep, Zenon DEF SrRest, TypeInv, TypeOK

\* A new reconcile of the Stage.
<1>StageStartsKeeps.
  ASSUME TypeInv, StageStarts
  PROVE  TypeInv'
  <2> USE <1>StageStartsKeeps
  <2>1. /\ KStage \in StageType /\ KStage.pointer \in Digest /\ KStage.seq \in Nat
        /\ KStage.lastOp \in Nat /\ digest \in Digest
    BY Reads, Zenon DEF TypeInv, TypeOK, StageType
  <2>2. CASE WitnessRead
    <3>1. SrGoes([SrIdle EXCEPT !.at = "witness", !.digest = digest])
      BY <2>2 DEF WitnessRead
    <3> QED BY <2>1, <3>1, SrTypes, <1>SrGoesKeeps, Zenon
  <2>3. CASE AutoRead
    <3>1. PICK d \in Candidates(KStage) : \E op :
            /\ op = NewOp("promote", "controller", KStage.pointer, d, NoOp, NoOp,
                          Name("auto", KStage.seq, KStage.pointer, d))
            /\ SrGoes([SrIdle EXCEPT !.at = "auto", !.todo = <<op>>])
      BY <2>3, Zenon DEF AutoRead
    <3>6. PICK op :
            /\ op = NewOp("promote", "controller", KStage.pointer, d, NoOp, NoOp,
                          Name("auto", KStage.seq, KStage.pointer, d))
            /\ SrGoes([SrIdle EXCEPT !.at = "auto", !.todo = <<op>>])
      BY <3>1
    <3>2. d \in Digest
      BY DEF Candidates, Digest
    <3>3. Name("auto", KStage.seq, KStage.pointer, d) \in Kinds \X Nat \X Digest \X Digest
      BY <2>1, <3>2 DEF Name, Kinds
    <3>4. /\ "promote" \in Types /\ "promote" # "autonomy" /\ "controller" \in Classes
          /\ NoOp \in Nat
      BY DEF Types, Classes, NoOp
    <3>5. op \in RaisedType
      BY <2>1, <3>6, <3>2, <3>3, <3>4, NewOpType, Zenon
    <3> QED BY <3>5, <3>6, SrTypes, <1>SrGoesKeeps, Zenon
  <2>4. CASE RecheckRun
    <3>1. PICK at \in {"passed", "judged"} :
            SrGoes([SrIdle EXCEPT !.at = at, !.op = KStage.lastOp, !.digest = KStage.pointer])
      BY <2>4, ZenonT(30) DEF RecheckRun
    <3>2. PointerOp(KStage.lastOp)
      BY <2>4, Reads DEF RecheckRun, RecheckDue
    <3> QED BY <2>1, <3>1, <3>2, SrTypes, <1>SrGoesKeeps, Zenon
  <2>5. CASE Reraise
    <3>1. KStage.lastOp \in DOMAIN Known /\ KStage.lastOp \in Nat
          /\ SrRaise(RollbackOf(KStage.lastOp, Known[KStage.lastOp]))
      BY <2>1, <2>5 DEF Reraise
    <3>2. Known[KStage.lastOp] \in OpType /\ Known[KStage.lastOp].type # "autonomy"
      BY <2>5, <3>1, Reads DEF Reraise, RecheckDue, PointerOp
    <3> QED BY <3>1, <3>2, <1>RollbackOfType, <1>SrRaiseKeeps
  <2>6. CASE ShadowRead
    <3>1. \E at \in {"observe", "shadow"} : SrGoes([SrIdle EXCEPT !.at = at, !.digest = digest])
      BY <2>6, Zenon DEF ShadowRead
    <3> QED BY <2>1, <3>1, SrTypes, <1>SrGoesKeeps, Zenon
  <2> QED BY <2>2, <2>3, <2>4, <2>5, <2>6, SMTT(30) DEF StageStarts

\* The next step of the reconcile of the Stage in flight.
<1>StageGoesOnKeeps.
  ASSUME TypeInv, StageGoesOn
  PROVE  TypeInv'
  <2> USE <1>StageGoesOnKeeps
  <2>1. /\ stage \in StageType /\ stage.pointer \in Digest /\ stage.seq \in Nat
        /\ sr \in SrType /\ sr.digest \in Digest /\ sr.op \in Nat /\ sr.squat \in BOOLEAN
        /\ sr.rollback \in BOOLEAN /\ SrFits(sr)
    <3>1. stage \in StageType /\ sr \in SrType
      BY Zenon DEF TypeInv, TypeOK
    <3>2. SrFits(sr)
      BY Zenon DEF TypeInv, TypeOK, OnlyPointerOpsMove, SrFits
    <3>3. stage.pointer \in Digest /\ stage.seq \in Nat
      BY <3>1, Zenon DEF StageType
    <3>4. sr.digest \in Digest /\ sr.op \in Nat /\ sr.squat \in BOOLEAN /\ sr.rollback \in BOOLEAN
      BY <3>1, Zenon DEF SrType
    <3> QED BY <3>1, <3>2, <3>3, <3>4, Zenon
  <2>2. SrIdle \in SrType /\ SrFits(SrIdle)
    BY SrTypes, ZenonT(30)
  <2>3. PointerOp(sr.op) => ops[sr.op] \in OpType /\ ops[sr.op].type # "autonomy"
    BY Reads DEF PointerOp
  <2>4. CASE SrFreeze
    <3>1. stage' \in StageType /\ stage'.lastOp = stage.lastOp
      BY <2>1, <2>4, Zenon DEF SrFreeze, StageType
    <3> QED BY <2>2, <2>4, <3>1, <1>SrWriteKeeps DEF SrFreeze
  <2>5. CASE WitnessRaise
    <3> DEFINE op == NewOp("override", "controller", stage.pointer, sr.digest, NoOp, NoOp,
                           Name("witnessed", stage.seq, stage.pointer, sr.digest))
    <3>1. SrGoes(SrIdle) \/ SrRaise(op)
      BY <2>5 DEF WitnessRaise
    <3>2. Name("witnessed", stage.seq, stage.pointer, sr.digest) \in Kinds \X Nat \X Digest \X Digest
      BY <2>1 DEF Name, Kinds
    <3>3. /\ "override" \in Types /\ "override" # "autonomy" /\ "controller" \in Classes
          /\ NoOp \in Nat
      BY DEF Types, Classes, NoOp
    <3>4. op \in OpType
      BY <2>1, <3>2, <3>3, NewOpType, Zenon
    <3> HIDE DEF op
    <3> QED BY <2>2, <3>1, <3>4, <1>SrGoesKeeps, <1>SrRaiseKeeps
  <2>6. CASE RecheckPass
    <3>1. NoCheck \in [op : Nat, digest : Digest]
      BY DEF NoCheck, NoOp, Digest
    <3>2. stage' \in StageType /\ stage'.lastOp = stage.lastOp
      BY <2>1, <2>6, <3>1, Zenon DEF RecheckPass, StageType
    <3> QED BY <2>2, <2>6, <3>2, <1>SrWriteKeeps DEF RecheckPass
  <2>7. CASE RecheckDecide
    <3> DEFINE op == ops[sr.op]
               rollback == /\ ~Chosen(op) /\ sr.op \notin stage.rolledBack
                           /\ Before(op) # NoDigest /\ Before(op) \notin stage.failed
               step == IF StepsDown(op, op.person, TRUE) THEN <<StepDownOf(sr.op)>> ELSE <<>>
               freeze == IF rollback THEN <<>> ELSE <<FreezeOf(sr.op, op)>>
               todo == step \o freeze
               r == [sr EXCEPT !.at = IF todo = <<>> THEN "record" ELSE "raise",
                               !.todo = todo, !.rollback = rollback]
    <3>1. PointerOp(sr.op)
      BY <2>1, <2>7 DEF RecheckDecide, SrFits
    <3>2. \A e \in RaisedType : <<e>> \in Seq(RaisedType)
      OBVIOUS
    <3>3. <<>> \in Seq(RaisedType)
      OBVIOUS
    <3>4. step \in Seq(RaisedType)
      BY <2>1, <3>2, <3>3, <1>StepDownOfType, SMTT(30) DEF StepsDown
    <3>5. freeze \in Seq(RaisedType)
      BY <2>1, <2>3, <3>1, <3>2, <3>3, <1>RollbackOfType, SMTT(30)
    <3>6. rollback \in BOOLEAN
      OBVIOUS
    <3> HIDE DEF step, freeze, rollback
    <3>7. todo \in Seq(RaisedType)
      BY <3>4, <3>5, <1>SeqConcat
    <3>8. SrGoes(SrIdle) \/ SrGoes(r)
      BY <2>7 DEF RecheckDecide, step, freeze, rollback
    <3> HIDE DEF todo
    <3>9. /\ r \in SrType /\ r.op = sr.op /\ r.at \in {"record", "raise"}
          /\ (r.at = "raise" => r.todo # <<>>)
      BY <2>1, <3>6, <3>7, Zenon DEF SrType
    <3> HIDE DEF r
    <3>10. SrFits(r)
      BY <3>1, <3>9 DEF SrFits
    <3> QED BY <2>2, <3>8, <3>9, <3>10, <1>SrGoesKeeps, SMTT(30)
  <2>8. CASE RecheckRaise
    <3> DEFINE op   == Head(sr.todo)
               rest == Tail(sr.todo)
               on   == [sr EXCEPT !.at    = IF rest = <<>> THEN "record" ELSE @,
                                  !.todo  = rest,
                                  !.squat = @ \/ (Raise(op) = "squat" /\ op.type = "autonomy")]
    <3>1. sr.at = "raise" /\ sr.todo # <<>> /\ sr.todo \in Seq(RaisedType) /\ PointerOp(sr.op)
      BY <2>1, <2>8 DEF RecheckRaise, SrFits, SrType
    <3>2. op \in OpType /\ rest \in Seq(RaisedType)
      BY <3>1, SeqHeadTail, Zenon DEF RaisedType
    <3>3. /\ on \in SrType /\ on.op = sr.op /\ on.at \in {"raise", "record"}
          /\ (on.at = "raise" => on.todo # <<>>)
      BY <2>1, <3>1, <3>2, Zenon DEF SrType
    <3>4. /\ ops' = OpsAfter(op) /\ run' = RunAfter(op, run) /\ sr' \in {SrIdle, on}
          /\ UNCHANGED <<stage, digest, cstage, cops, edits, aborts, history>>
      BY <2>8 DEF RecheckRaise, SrRest
    <3> HIDE DEF op, on
    <3>5. SrFits(on)
      BY <3>1, <3>3 DEF SrFits
    <3>6. sr' \in SrType /\ SrFits(sr')
      BY <2>2, <3>3, <3>4, <3>5
    <3> QED BY <3>2, <3>4, <3>6, <1>RaiseByStage
  <2>9. CASE RecheckRecord
    <3>1. PointerOp(sr.op)
      BY <2>1, <2>9 DEF RecheckRecord, SrFits
    <3>2. sr' \in SrType /\ SrFits(sr')
      BY <2>1, <2>9, <3>1, SrTypes, ZenonT(30) DEF RecheckRecord
    <3>3. [op |-> sr.op, digest |-> sr.digest] \in [op : Nat, digest : Digest]
      BY <2>1
    <3>4. stage' \in StageType /\ stage'.lastOp = stage.lastOp
      <4> DEFINE check  == [op |-> sr.op, digest |-> sr.digest]
                 failed == stage.failed \cup {sr.digest}
                 fine   == stage.verified \ {sr.digest}
                 frozen == stage.frozen \/ ~sr.rollback \/ sr.squat
                 back   == IF sr.rollback THEN stage.rolledBack \cup {sr.op} ELSE stage.rolledBack
                 s      == [stage EXCEPT !.lastCheck = check, !.failed = failed, !.verified = fine,
                                         !.frozen = frozen, !.rolledBack = back]
      <4>1. /\ failed \in SUBSET Digest /\ fine \in SUBSET Digest
            /\ frozen \in BOOLEAN /\ back \in SUBSET Nat
        BY <2>1 DEF StageType
      <4>2. stage' \in {stage, s}
        BY <2>9 DEF RecheckRecord
      <4> HIDE DEF check, failed, fine, frozen, back
      <4>3. s \in StageType /\ s.lastOp = stage.lastOp
        BY <2>1, <3>3, <4>1, ZenonT(30) DEF StageType, check
      <4> QED BY <2>1, <4>2, <4>3, Zenon
    <3> QED BY <2>9, <3>2, <3>4, <1>SrWriteKeeps DEF RecheckRecord
  <2>10. CASE RecheckRollback
    <3>1. PointerOp(sr.op)
      BY <2>1, <2>10 DEF RecheckRollback, SrFits
    <3> QED BY <2>1, <2>3, <2>10, <3>1, <1>RollbackOfType, <1>SrRaiseKeeps DEF RecheckRollback
  <2>11. CASE ShadowObserve
    <3>1. stage' \in StageType /\ stage'.lastOp = stage.lastOp
      BY <2>1, <2>11, ZenonT(30) DEF ShadowObserve, StageType
    <3> QED BY <2>2, <2>11, <3>1, <1>SrWriteKeeps DEF ShadowObserve
  <2>12. CASE ShadowVerify
    <3>1. stage' \in StageType /\ stage'.lastOp = stage.lastOp
      BY <2>1, <2>12 DEF ShadowVerify, StageType
    <3> QED BY <2>2, <2>12, <3>1, <1>SrWriteKeeps DEF ShadowVerify
  <2>13. CASE AutoRaise
    <3>1. SrGoes(SrIdle) \/ SrRaise(Head(sr.todo))
      BY <2>13 DEF AutoRaise
    <3>2. sr.todo \in Seq(RaisedType) /\ sr.todo # <<>>
      BY <2>1, <2>13, Zenon DEF AutoRaise, SrType, SrFits
    <3>3. Head(sr.todo) \in OpType
      BY <3>2, SeqHeadTail DEF RaisedType
    <3> QED BY <2>2, <3>1, <3>3, <1>SrGoesKeeps, <1>SrRaiseKeeps
  <2> QED BY <2>4, <2>5, <2>6, <2>7, <2>8, <2>9, <2>10, <2>11, <2>12, <2>13, SMTT(30) DEF StageGoesOn

\* What the world outside does.
<1>OutsideKeeps.
  ASSUME TypeInv, SrAbort \/ Request \/ Squat \/ Edit \/ CatchUpOps \/ CatchUpStage
  PROVE  TypeInv'
  <2> USE <1>OutsideKeeps
  <2>1. /\ run \in Seq(RunType) /\ \A u \in DOMAIN run : Fits(run[u], u)
        /\ sr \in SrType /\ SrFits(sr)
    BY Zenon DEF TypeInv, TypeOK, OnlyPointerOpsMove, Fits, Moves, SrFits
  <2>2. ASSUME NEW op \in OpType, ops' = Append(ops, op), run' = Append(run, Idle),
               UNCHANGED <<stage, digest, sr, cstage, cops, edits, aborts, history>>
        PROVE  TypeInv'
    BY <2>1, <2>2, <1>CreateStep, Zenon
  <2>3. CASE SrAbort
    <3>0. aborts \in Nat
      BY DEF TypeInv, TypeOK
    <3>1. aborts' \in Nat
      BY <2>3, <3>0 DEF SrAbort
    <3> QED BY <2>3, <3>1, SrTypes, <1>StageStep, ZenonT(30) DEF SrAbort, TypeInv, TypeOK
  <2>4. CASE Request
    <3>1. PICK ask \in Asks : \E op \in Intents(ask[1], ask[2]) :
            ops' = Append(ops, op) /\ run' = Append(run, Idle)
      BY <2>4 DEF Request
    <3>2. ask[1] \in Types /\ ask[2] \in Classes
      BY StartAssumption
    <3>3. PICK op \in Intents(ask[1], ask[2]) :
            ops' = Append(ops, op) /\ run' = Append(run, Idle)
      BY <3>1
    <3>4. op \in OpType
      BY <3>2, <3>3, IntentsType, Zenon DEF RaisedType
    <3> QED BY <2>2, <2>4, <3>3, <3>4 DEF Request
  <2>5. CASE Squat
    <3>1. PICK name \in {Name("rollback", u, NoDigest, NoDigest) :
                          u \in {v \in DOMAIN ops : ops[v].type = "promote"}}
                      \cup {Name("auto", stage.seq, stage.pointer, d) : d \in Digests \ {stage.pointer}} :
            /\ ops' = Append(ops, NewOp("freeze", "human", stage.pointer, NoDigest, NoOp, NoOp, name))
            /\ run' = Append(run, Idle)
      BY <2>5, ZenonT(30) DEF Squat
    <3>2. stage.pointer \in Digest /\ stage.seq \in Nat /\ NoDigest \in Digest /\ Digests \subseteq Digest
      BY Zenon DEF TypeInv, TypeOK, StageType, Digest
    <3>3. name \in Kinds \X Nat \X Digest \X Digest
      <4>1. /\ "rollback" \in Kinds /\ "auto" \in Kinds
            /\ \A u \in DOMAIN ops : u \in Nat
        BY Reads DEF Kinds
      <4>2. CASE \E u \in DOMAIN ops : name = Name("rollback", u, NoDigest, NoDigest)
        BY <3>2, <4>1, <4>2 DEF Name
      <4>3. CASE \E d \in Digests : name = Name("auto", stage.seq, stage.pointer, d)
        BY <3>2, <4>1, <4>3 DEF Name
      <4> QED BY <3>1, <4>2, <4>3
    <3>4. "freeze" \in Types /\ "freeze" # "autonomy" /\ "human" \in Classes /\ NoOp \in Nat
      BY DEF Types, Classes, NoOp
    <3>5. NewOp("freeze", "human", stage.pointer, NoDigest, NoOp, NoOp, name) \in OpType
      BY <3>2, <3>3, <3>4, NewOpType, ZenonT(30)
    <3> QED BY <2>2, <2>5, <3>1, <3>5, ZenonT(30) DEF Squat
  <2>6. CASE Edit
    <3>0. edits \in Nat
      BY DEF TypeInv, TypeOK
    <3>1. digest' \in Digest /\ edits' \in Nat
      BY <2>6, <3>0 DEF Edit, Digest
    <3> QED BY <2>1, <2>6, <3>1, <1>StageStep, Zenon DEF Edit, TypeInv, TypeOK
  <2>7. CASE CatchUpOps
    BY <2>1, <2>7, <1>StageStep, ZenonT(30) DEF CatchUpOps, TypeInv, TypeOK
  <2>8. CASE CatchUpStage
    BY <2>1, <2>8, <1>StageStep, Zenon DEF CatchUpStage, TypeInv, TypeOK
  <2> QED BY <2>3, <2>4, <2>5, <2>6, <2>7, <2>8, SMTT(30)
<1> SUFFICES ASSUME TypeInv, [Next]_vars PROVE TypeInv'
  OBVIOUS
<1>1. CASE \E o \in DOMAIN ops : Advance(o) \/ Abort(o)
  BY <1>1, <1>AdvanceKeeps
<1>2. CASE StageStarts
  BY <1>2, <1>StageStartsKeeps
<1>3. CASE StageGoesOn
  BY <1>3, <1>StageGoesOnKeeps
<1>4. CASE SrAbort \/ Request \/ Squat \/ Edit \/ CatchUpOps \/ CatchUpStage
  BY <1>4, <1>OutsideKeeps, SMTT(30)
<1>5. CASE UNCHANGED vars
  BY <1>5, Zenon DEF vars, TypeInv, TypeOK, OnlyPointerOpsMove, PointerOp
<1> QED BY <1>1, <1>2, <1>3, <1>4, <1>5 DEF Next

\* The promoter's state keeps its type, and only an Operation that has versions
\* for parameters takes the lock, moves the pointer, is judged or is re-checked,
\* however stale the copies its reconciles read.
THEOREM TypeCorrect == Spec => [](TypeOK /\ OnlyPointerOpsMove)
<1>1. Init => TypeInv
  BY InitTyped
<1>2. TypeInv /\ [Next]_vars => TypeInv'
  BY NextTyped
<1>3. TypeInv <=> TypeOK /\ OnlyPointerOpsMove
  BY DEF TypeInv
<1> QED BY <1>1, <1>2, <1>3, PTL DEF Spec

=============================================================================
