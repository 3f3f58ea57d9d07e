--------------------------- MODULE Resolver_proofs ---------------------------
(***************************************************************************)
(* A contract is fetched once and nobody who waits for one is left with    *)
(* nothing, for any graph of dependencies and any number of failures.      *)
(***************************************************************************)
EXTENDS Resolver, TLAPS

Inv == TypeOK /\ OneFetcher /\ ResolvedOnce /\ NeverLost

LEMMA ChildrenTyped ==
  ASSUME deps \in [Names -> Seq(Names)],
         NEW place \in Seq(Nat), NEW path \in Seq(Names), NEW ref \in Names
  PROVE  /\ DOMAIN Children(place, path, ref) \subseteq Seq(Nat)
         /\ \A p \in DOMAIN Children(place, path, ref) :
              /\ Children(place, path, ref)[p] \in CallType
              /\ Children(place, path, ref)[p].at = "start"
<1> DEFINE ps == {Append(place, i) : i \in DOMAIN deps[ref]}
<1>1. deps[ref] \in Seq(Names)
  OBVIOUS
<1>2. DOMAIN deps[ref] = 1 .. Len(deps[ref])
  BY <1>1
<1>3. ASSUME NEW i \in DOMAIN deps[ref]
      PROVE  Append(place, i) \in Seq(Nat) /\ Last(Append(place, i)) = i /\ deps[ref][i] \in Names
  BY <1>1, <1>2, <1>3 DEF Last
<1>4. DOMAIN Children(place, path, ref) = ps
  BY DEF Children
<1>5. ASSUME NEW p \in ps
      PROVE  p \in Seq(Nat) /\ Children(place, path, ref)[p] \in CallType
             /\ Children(place, path, ref)[p].at = "start"
  <2>1. Children(place, path, ref)[p]
          = [ref |-> deps[ref][Last(p)], path |-> path, at |-> "start", on |-> place]
    BY <1>5 DEF Children
  <2>2. PICK i \in DOMAIN deps[ref] : p = Append(place, i)
    BY <1>5
  <2>3. p \in Seq(Nat) /\ deps[ref][Last(p)] \in Names
    BY <2>2, <1>3
  <2> QED BY <2>1, <2>3 DEF CallType
<1> QED BY <1>4, <1>5, Zenon

\* A call that only notes where it is.
LEMMA GoesTyped ==
  ASSUME TypeOK, NEW c \in DOMAIN calls, NEW at \in {"cycle", "node", "fetching", "shared", "failed"},
         Goes(c, at)
  PROVE  /\ DOMAIN calls' = DOMAIN calls /\ calls' \in [DOMAIN calls -> CallType]
         /\ calls'[c].at = at
         /\ \A p \in DOMAIN calls : calls'[p].ref = calls[p].ref /\ calls'[p].on = calls[p].on
         /\ \A p \in DOMAIN calls : p # c => calls'[p].at = calls[p].at
BY ZenonT(40) DEF TypeOK, Goes, CallType, Final

\* A call that was neither fetched for nor fetches comes to an end.
LEMMA Ends ==
  ASSUME Inv, NEW c \in DOMAIN calls, NEW at \in {"cycle", "node", "shared", "failed"},
         calls[c].at # "fetching", Goes(c, at),
         UNCHANGED <<deps, visited, errors, pending, resolved, failures>>
  PROVE  Inv'
<1>1. /\ DOMAIN calls' = DOMAIN calls /\ calls' \in [DOMAIN calls -> CallType]
      /\ calls'[c].at = at
      /\ \A p \in DOMAIN calls : calls'[p].ref = calls[p].ref /\ calls'[p].on = calls[p].on
      /\ \A p \in DOMAIN calls : p # c => calls'[p].at = calls[p].at
  BY GoesTyped DEF Inv
<1>2. TypeOK'
  BY <1>1 DEF Inv, TypeOK
<1>3. OneFetcher'
  <2>1. ASSUME NEW p \in DOMAIN calls', calls'[p].at = "fetching"
        PROVE  /\ calls'[p].ref \in pending' \ visited'
               /\ \A q \in DOMAIN calls' :
                    calls'[q].at = "fetching" /\ calls'[q].ref = calls'[p].ref => q = p
    <3>1. p # c /\ p \in DOMAIN calls /\ calls[p].at = "fetching"
      BY <1>1, <2>1, SMTT(30)
    <3>2. \A q \in DOMAIN calls : calls'[q].at = "fetching" => calls[q].at = "fetching"
      BY <1>1, SMTT(30)
    <3> QED BY <1>1, <3>1, <3>2, SMTT(30) DEF Inv, OneFetcher
  <2>2. ASSUME NEW p \in DOMAIN calls', calls'[p].at = "waiting"
        PROVE  /\ calls'[p].on \in DOMAIN calls' /\ calls'[calls'[p].on].ref = calls'[p].ref
               /\ calls'[calls'[p].on].at # "fetching" => calls'[p].ref \in visited' \cup errors'
    <3>1. p # c /\ p \in DOMAIN calls /\ calls[p].at = "waiting"
      BY <1>1, <2>2, SMTT(30)
    <3>2. calls'[calls[p].on].at # "fetching" => calls[calls[p].on].at # "fetching"
      BY <1>1, <3>1, SMTT(30) DEF Inv, OneFetcher
    <3> QED BY <1>1, <3>1, <3>2, SMTT(30) DEF Inv, OneFetcher
  <2> QED BY <2>1, <2>2, SMTT(30) DEF OneFetcher
<1>4. ResolvedOnce' /\ NeverLost'
  <2>1. NeverLost'
    BY <1>1 DEF Inv, NeverLost
  <2> QED BY <2>1 DEF Inv, ResolvedOnce
<1> QED BY <1>2, <1>3, <1>4 DEF Inv

LEMMA InitInv == Init => Inv
<1> SUFFICES ASSUME Init PROVE Inv
  OBVIOUS
<1>1. deps \in [Names -> Seq(Names)]
  BY GraphsAssumption DEF Init, Names
<1>2. /\ DOMAIN Children(<<>>, <<Root>>, Root) \subseteq Seq(Nat)
      /\ \A p \in DOMAIN Children(<<>>, <<Root>>, Root) :
           /\ Children(<<>>, <<Root>>, Root)[p] \in CallType
           /\ Children(<<>>, <<Root>>, Root)[p].at = "start"
  <2>1. <<Root>> \in Seq(Names) /\ Root \in Names /\ <<>> \in Seq(Nat)
    BY DEF Names
  <2> QED BY <2>1, <1>1, ChildrenTyped, Zenon
<1>3. DOMAIN calls \subseteq Seq(Nat) /\ \A p \in DOMAIN calls : calls[p] \in CallType /\ calls[p].at = "start"
  BY <1>2 DEF Init
<1>4. TypeOK
  <2>1. calls = [p \in DOMAIN calls |-> calls[p]]
    BY DEF Init, Children
  <2>2. calls \in [DOMAIN calls -> CallType]
    BY <2>1, <1>3
  <2> QED BY <1>1, <1>3, <2>2, GraphsAssumption, SMTT(30) DEF Init, TypeOK
<1>5. OneFetcher /\ NeverLost
  BY <1>3 DEF OneFetcher, NeverLost
<1>6. ResolvedOnce
  BY DEF Init, ResolvedOnce
<1> QED BY <1>4, <1>5, <1>6 DEF Inv

LEMMA StepInv ==
  ASSUME Inv, NEW c \in DOMAIN calls, Step(c)
  PROVE  Inv'
<1> USE DEF Inv
<1>1. CASE Cut(c)
  BY <1>1, Ends DEF Cut
<1>2. CASE Share(c)
  BY <1>2, Ends DEF Share
<1>3. CASE Return(c)
  BY <1>3, Ends DEF Return
<1>4. CASE Wake(c)
  <2>1. calls[c].ref \in visited \cup errors
    BY <1>4 DEF Wake, OneFetcher
  <2>2. Found(calls[c].ref) \in {"shared", "failed"}
    BY <2>1 DEF Found
  <2>3. PICK at \in {"shared", "failed"} : at = Found(calls[c].ref)
    BY <2>2
  <2>4. Goes(c, at)
    BY <1>4, <2>3 DEF Wake
  <2> QED BY <1>4, <2>4, Ends, SMTT(30) DEF Wake
<1>5. CASE Wait(c)
  <2>1. PICK o \in Fetching(calls[c].ref) :
          calls' = [calls EXCEPT ![c].at = "waiting", ![c].on = o]
    BY <1>5, Zenon DEF Wait
  <2>2. o \in DOMAIN calls /\ calls[o].at = "fetching" /\ calls[o].ref = calls[c].ref /\ o \in Seq(Nat)
        /\ o # c
    BY <2>1, <1>5 DEF Fetching, Wait, TypeOK
  <2>3. /\ DOMAIN calls' = DOMAIN calls /\ calls' \in [DOMAIN calls -> CallType]
        /\ calls'[c].at = "waiting" /\ calls'[c].on = o /\ calls'[c].ref = calls[c].ref
        /\ \A p \in DOMAIN calls : p # c => calls'[p] = calls[p]
    BY <2>1, <2>2, Zenon DEF TypeOK, CallType
  <2>4. UNCHANGED <<deps, visited, errors, pending, resolved, failures>> /\ calls[c].at = "start"
    BY <1>5, SMTT(30) DEF Wait
  <2>5. TypeOK'
    BY <2>3, <2>4, SMTT(30) DEF TypeOK
  <2>6. OneFetcher'
    <3>1. \A p \in DOMAIN calls : calls'[p].ref = calls[p].ref
                                /\ (calls'[p].at = "fetching" <=> calls[p].at = "fetching")
      BY <2>3, <2>4
    <3>2. \A p \in DOMAIN calls : p # c => calls'[p].on = calls[p].on /\ calls'[p].at = calls[p].at
      BY <2>3
    <3> QED BY <2>2, <2>3, <2>4, <3>1, <3>2, SMTT(30) DEF OneFetcher
  <2>7. NeverLost'
    BY <2>3 DEF NeverLost
  <2>8. ResolvedOnce'
    BY <2>4 DEF ResolvedOnce
  <2> QED BY <2>5, <2>6, <2>7, <2>8, SMTT(30)
<1>6. CASE Fetch(c)
  <2>1. Goes(c, "fetching") /\ calls[c].at = "start" /\ calls[c].ref \notin visited \cup pending
        /\ pending' = pending \cup {calls[c].ref}
        /\ UNCHANGED <<deps, visited, errors, resolved, failures>>
    BY <1>6 DEF Fetch
  <2>2. /\ DOMAIN calls' = DOMAIN calls /\ calls' \in [DOMAIN calls -> CallType]
        /\ calls'[c].at = "fetching"
        /\ \A p \in DOMAIN calls : calls'[p].ref = calls[p].ref /\ calls'[p].on = calls[p].on
        /\ \A p \in DOMAIN calls : p # c => calls'[p].at = calls[p].at
    BY <2>1, GoesTyped
  <2>3. TypeOK'
    BY <2>1, <2>2, SMTT(30) DEF TypeOK, CallType
  <2>4. OneFetcher'
    <3>1. ASSUME NEW p \in DOMAIN calls', calls'[p].at = "fetching"
          PROVE  /\ calls'[p].ref \in pending' \ visited'
                 /\ \A q \in DOMAIN calls' :
                      calls'[q].at = "fetching" /\ calls'[q].ref = calls'[p].ref => q = p
      BY <2>1, <2>2, <3>1, SMTT(30) DEF OneFetcher
    <3>2. ASSUME NEW p \in DOMAIN calls', calls'[p].at = "waiting"
          PROVE  /\ calls'[p].on \in DOMAIN calls' /\ calls'[calls'[p].on].ref = calls'[p].ref
                 /\ calls'[calls'[p].on].at # "fetching" => calls'[p].ref \in visited' \cup errors'
      BY <2>1, <2>2, <3>2, SMTT(30) DEF OneFetcher
    <3> QED BY <3>1, <3>2, SMTT(30) DEF OneFetcher
  <2>5. NeverLost'
    BY <2>2 DEF NeverLost
  <2>6. ResolvedOnce'
    BY <2>1, SMTT(30) DEF ResolvedOnce
  <2> QED BY <2>3, <2>4, <2>5, <2>6, SMTT(30)
<1>7. CASE FailEdge(c)
  <2>1. Goes(c, "failed") /\ calls[c].at = "fetching" /\ failures < MaxFailures
        /\ failures' = failures + 1 /\ errors' = errors \cup {calls[c].ref}
        /\ pending' = pending \ {calls[c].ref} /\ UNCHANGED <<deps, visited, resolved>>
    BY <1>7 DEF FailEdge
  <2>2. /\ DOMAIN calls' = DOMAIN calls /\ calls' \in [DOMAIN calls -> CallType]
        /\ calls'[c].at = "failed"
        /\ \A p \in DOMAIN calls : calls'[p].ref = calls[p].ref /\ calls'[p].on = calls[p].on
        /\ \A p \in DOMAIN calls : p # c => calls'[p].at = calls[p].at
    BY <2>1, GoesTyped
  <2>3. TypeOK'
    <3>1. failures' \in 0 .. MaxFailures
      BY <2>1, GraphsAssumption DEF TypeOK
    <3>2. calls[c].ref \in Names
      BY SMTT(30) DEF TypeOK, CallType
    <3> QED BY <2>1, <2>2, <3>1, <3>2, SMTT(30) DEF TypeOK
  <2>4. OneFetcher'
    <3>1. ASSUME NEW p \in DOMAIN calls', calls'[p].at = "fetching"
          PROVE  /\ calls'[p].ref \in pending' \ visited'
                 /\ \A q \in DOMAIN calls' :
                      calls'[q].at = "fetching" /\ calls'[q].ref = calls'[p].ref => q = p
      <4>1. p # c /\ p \in DOMAIN calls /\ calls[p].at = "fetching"
        BY <2>2, <3>1
      <4>2. calls[p].ref # calls[c].ref
        BY <4>1, <2>1 DEF OneFetcher
      <4>3. \A q \in DOMAIN calls : calls'[q].at = "fetching" => calls[q].at = "fetching"
        BY <2>2
      <4> QED BY <2>1, <2>2, <4>1, <4>2, <4>3, SMTT(30) DEF OneFetcher
    <3>2. ASSUME NEW p \in DOMAIN calls', calls'[p].at = "waiting"
          PROVE  /\ calls'[p].on \in DOMAIN calls' /\ calls'[calls'[p].on].ref = calls'[p].ref
                 /\ calls'[calls'[p].on].at # "fetching" => calls'[p].ref \in visited' \cup errors'
      <4>1. p # c /\ p \in DOMAIN calls /\ calls[p].at = "waiting"
        BY <2>2, <3>2
      <4>2. calls[p].on = c => calls[p].ref \in errors'
        BY <4>1, <2>1 DEF OneFetcher
      <4> QED BY <2>1, <2>2, <4>1, <4>2, SMTT(30) DEF OneFetcher
    <3> QED BY <3>1, <3>2 DEF OneFetcher
  <2>5. NeverLost'
    BY <2>2 DEF NeverLost
  <2>6. ResolvedOnce'
    BY <2>1, SMTT(30) DEF ResolvedOnce
  <2> QED BY <2>3, <2>4, <2>5, <2>6
<1>8. CASE Fetched(c)
  <2> DEFINE below == Below(c)
  <2>1. /\ calls[c].at = "fetching" /\ visited' = visited \cup {calls[c].ref}
        /\ pending' = pending \ {calls[c].ref}
        /\ resolved' = [resolved EXCEPT ![calls[c].ref] = @ + 1]
        /\ UNCHANGED <<deps, errors, failures>>
        /\ calls' = [p \in DOMAIN calls \cup DOMAIN below |->
                       IF p = c THEN [calls[c] EXCEPT !.at = "below"]
                       ELSE IF p \in DOMAIN calls THEN calls[p] ELSE below[p]]
    BY <1>8 DEF Fetched, Descends
  <2>2. calls[c] \in CallType /\ calls[c].ref \in Names /\ calls[c].path \in Seq(Names)
        /\ c \in Seq(Nat) /\ deps \in [Names -> Seq(Names)]
    BY DEF TypeOK, CallType
  <2>3. /\ DOMAIN below \subseteq Seq(Nat)
        /\ \A p \in DOMAIN below : below[p] \in CallType /\ below[p].at = "start"
    <3>0. Append(calls[c].path, calls[c].ref) \in Seq(Names)
      BY <2>2
    <3>1. PICK path \in Seq(Names) : path = Append(calls[c].path, calls[c].ref)
      BY <3>0, Zenon
    <3>2. below = Children(c, path, calls[c].ref)
      BY <3>1 DEF Below
    <3> QED BY <2>2, <3>2, ChildrenTyped, SMTT(30)
  <2>4. [calls[c] EXCEPT !.at = "below"] \in CallType
        /\ [calls[c] EXCEPT !.at = "below"].at = "below"
        /\ [calls[c] EXCEPT !.at = "below"].ref = calls[c].ref
    BY <2>2, Zenon DEF CallType
  <2> HIDE DEF below
  <2>5. /\ DOMAIN calls' = DOMAIN calls \cup DOMAIN below
        /\ calls'[c].at = "below" /\ calls'[c].ref = calls[c].ref
        /\ \A p \in DOMAIN calls : p # c => calls'[p] = calls[p]
        /\ \A p \in DOMAIN calls' \ DOMAIN calls : calls'[p].at = "start"
        /\ \A p \in DOMAIN calls' : calls'[p] \in CallType
    BY <2>1, <2>3, <2>4, Zenon DEF TypeOK
  <2>6. TypeOK'
    <3>1. calls' = [p \in DOMAIN calls' |-> calls'[p]]
      BY <2>1
    <3>2. calls' \in [DOMAIN calls' -> CallType] /\ DOMAIN calls' \subseteq Seq(Nat)
      BY <3>1, <2>5, <2>3, SMTT(30) DEF TypeOK
    <3>3. resolved' \in [Names -> Nat]
      BY <2>1, <2>2, SMTT(30) DEF TypeOK
    <3> QED BY <3>2, <3>3, <2>1, <2>2, ZenonT(40) DEF TypeOK
  <2>7. OneFetcher'
    <3>1. ASSUME NEW p \in DOMAIN calls', calls'[p].at = "fetching"
          PROVE  /\ calls'[p].ref \in pending' \ visited'
                 /\ \A q \in DOMAIN calls' :
                      calls'[q].at = "fetching" /\ calls'[q].ref = calls'[p].ref => q = p
      <4>1. \A q \in DOMAIN calls' : calls'[q].at = "fetching"
              => q # c /\ q \in DOMAIN calls /\ calls'[q] = calls[q]
        BY <2>5
      <4>2. calls[p].ref # calls[c].ref
        BY <4>1, <2>1, <3>1, Zenon DEF OneFetcher
      <4> QED BY <2>1, <4>1, <4>2, <3>1, Zenon DEF OneFetcher
    <3>2. ASSUME NEW p \in DOMAIN calls', calls'[p].at = "waiting"
          PROVE  /\ calls'[p].on \in DOMAIN calls' /\ calls'[calls'[p].on].ref = calls'[p].ref
                 /\ calls'[calls'[p].on].at # "fetching" => calls'[p].ref \in visited' \cup errors'
      <4>1. p # c /\ p \in DOMAIN calls /\ calls'[p] = calls[p]
        BY <2>5, <3>2, SMTT(30)
      <4>2. /\ calls[p].on \in DOMAIN calls /\ calls[calls[p].on].ref = calls[p].ref
            /\ calls[calls[p].on].at # "fetching" => calls[p].ref \in visited \cup errors
        BY <4>1, <3>2 DEF OneFetcher
      <4>3. CASE calls[p].on = c
        BY <4>1, <4>2, <4>3, <2>1, <2>5, SMTT(30)
      <4>4. CASE calls[p].on # c
        BY <4>1, <4>2, <4>4, <2>1, <2>5, SMTT(30)
      <4> QED BY <4>3, <4>4, SMTT(30)
    <3> QED BY <3>1, <3>2 DEF OneFetcher
  <2>8. NeverLost'
    BY <2>5 DEF NeverLost
  <2>9. ResolvedOnce'
    <3>1. calls[c].ref \notin visited
      BY <2>1 DEF OneFetcher
    <3> QED BY <2>1, <2>2, <3>1, SMTT(30) DEF ResolvedOnce, TypeOK
  <2> QED BY <2>6, <2>7, <2>8, <2>9
<1> QED BY <1>1, <1>2, <1>3, <1>4, <1>5, <1>6, <1>7, <1>8, SMTT(30) DEF Step

LEMMA Invariant == Spec => []Inv
<1>1. Inv /\ [Next]_vars => Inv'
  <2> SUFFICES ASSUME Inv, [Next]_vars PROVE Inv'
    OBVIOUS
  <2>1. CASE Next
    BY <2>1, StepInv, SMTT(30) DEF Next
  <2>2. CASE UNCHANGED vars
    BY <2>2 DEF vars, Inv, TypeOK, OneFetcher, ResolvedOnce, NeverLost
  <2> QED BY <2>1, <2>2, SMTT(30)
<1> QED BY <1>1, InitInv, PTL DEF Spec

\* OnResolved is fired once for every contract fetched and for no other, in any
\* graph and whatever fetches fail.
THEOREM FetchedOnce == Spec => []ResolvedOnce
<1>1. Inv => ResolvedOnce
  BY SMTT(30) DEF Inv
<1> QED BY <1>1, Invariant, PTL

\* No call that waited for another's fetch ends with neither contract nor error.
THEOREM WaitersAreAnswered == Spec => []NeverLost
<1>1. Inv => NeverLost
  BY DEF Inv
<1> QED BY <1>1, Invariant, PTL
=============================================================================
