-------------------------- MODULE Dashboard_proofs --------------------------
(* What the dashboard shows: the pager, for lists of every length and pages  *)
(* of every size, and the page, however its requests, its passes and the     *)
(* builds of the server interleave.                                          *)
EXTENDS Dashboard, FiniteSetTheorems, TLAPS

\* The smaller and the larger of two numbers.
LEMMA MinMax ==
  ASSUME NEW x \in Int, NEW y \in Int
  PROVE  /\ Min({x, y}) = IF x <= y THEN x ELSE y
         /\ Max({x, y}) = IF x >= y THEN x ELSE y
<1>1. \E z \in {x, y} : \A w \in {x, y} : z <= w
  OBVIOUS
<1>2. \E z \in {x, y} : \A w \in {x, y} : z >= w
  OBVIOUS
<1>3. Min({x, y}) \in {x, y} /\ \A w \in {x, y} : Min({x, y}) <= w
  BY <1>1, Zenon DEF Min
<1>4. Max({x, y}) \in {x, y} /\ \A w \in {x, y} : Max({x, y}) >= w
  BY <1>2, Zenon DEF Max
<1> QED BY <1>3, <1>4

LEMMA AtLeastOne == ASSUME NEW n \in Nat \ {0} PROVE Max({1, n}) = n
<1>1. 1 \in Int /\ n \in Int
  OBVIOUS
<1>2. Max({1, n}) = IF 1 >= n THEN 1 ELSE n
  BY <1>1, MinMax, Zenon
<1> QED BY <1>2

-----------------------------------------------------------------------------
(* The pager. *)

\* A list is as many pages as it takes, and the last one is not empty.
LEMMA PageCount ==
  ASSUME NEW total \in Nat \ {0}, NEW limit \in Nat \ {0}, NEW pages, pages = (total + limit - 1) \div limit
  PROVE  pages \in Nat \ {0} /\ (pages - 1) * limit < total /\ total <= pages * limit
<1>1. PICK x \in Nat : x = total + limit - 1
  OBVIOUS
<1>2. pages \in Nat /\ limit * pages <= x /\ x < limit * pages + limit
  BY <1>1
<1>3. total <= pages * limit
  BY <1>1, <1>2
<1>4. pages # 0
  BY <1>3
<1>5. (pages - 1) * limit = limit * pages - limit
  BY <1>2
<1> QED BY <1>1, <1>2, <1>3, <1>4, <1>5

\* Where page n begins.
LEMMA PageBegins ==
  ASSUME NEW n \in Nat \ {0}, NEW limit \in Nat \ {0}
  PROVE  /\ (n - 1) * limit \in Nat
         /\ \A m \in Nat : n < m => (n - 1) * limit + limit <= (m - 1) * limit
<1>1. PICK k \in Nat : k = n - 1
  OBVIOUS
<1>2. k * limit \in Nat
  OBVIOUS
<1>3. ASSUME NEW m \in Nat, n < m PROVE k * limit + limit <= (m - 1) * limit
  <2>1. PICK j \in Nat : j = m - 1 /\ k < j
    BY <1>1, <1>3
  <2>2. k * limit + limit <= j * limit
    BY <2>1
  <2> QED BY <2>1, <2>2
<1> QED BY <1>1, <1>2, <1>3

\* A page that begins within the list.
LEMMA PageWithin ==
  ASSUME NEW total \in Nat \ {0}, NEW limit \in Nat \ {0}, NEW offset \in Nat, offset < total
  PROVE  /\ Paginate(total, offset, limit).count > 0
         /\ \A x \in Int : x \in RowsAt(total, offset, limit) <=>
                             offset < x /\ x <= offset + limit /\ x <= total
         /\ RowsAt(total, offset, limit) \subseteq Int
<1>1. Min({offset, total}) = offset
  BY MinMax
<1>2. Min({offset + limit, total}) = IF offset + limit <= total THEN offset + limit ELSE total
  BY MinMax
<1>3. PICK end \in Nat : end = IF offset + limit <= total THEN offset + limit ELSE total
  OBVIOUS
<1>4. Paginate(total, offset, limit) = [total |-> total, offset |-> offset, limit |-> limit, count |-> end - offset]
  BY <1>1, <1>2, <1>3 DEF Paginate
<1>5. RowsAt(total, offset, limit) = (offset + 1) .. (offset + (end - offset))
  BY <1>4 DEF RowsAt
<1> QED BY <1>3, <1>4, <1>5

\* The page the server answers, wherever it is asked to begin.
LEMMA PageAnswered ==
  ASSUME NEW total \in Nat, NEW limit \in Nat \ {0}, NEW offset \in Nat, NEW p, p = Paginate(total, offset, limit)
  PROVE  /\ p.total = total /\ p.limit = limit /\ p.offset \in Nat /\ p.offset <= total
         /\ p.count = 0 <=> p.offset = total
         /\ p.offset = (IF offset <= total THEN offset ELSE total)
<1>1. PICK start \in Nat : start = IF offset <= total THEN offset ELSE total
  OBVIOUS
<1>2. PICK end \in Nat : end = IF start + limit <= total THEN start + limit ELSE total
  OBVIOUS
<1>3. Min({offset, total}) = start /\ Min({start + limit, total}) = end
  BY <1>1, <1>2, MinMax
<1>4. p = [total |-> total, offset |-> start, limit |-> limit, count |-> end - start]
  BY <1>3, Zenon DEF Paginate
<1> QED BY <1>1, <1>2, <1>4

\* For any list, any page size and any place in it: every link the pager draws
\* leads to rows, the last page is offered past the end, a client's page is
\* never past its end, and the pages by number hold every row once (PageView,
\* OffsetOfPage, ClientPage).
THEOREM PagerIsRight ==
  \A total, limit \in Nat \ {0}, offset \in Nat : PagerLeads(total, offset, limit)
<1> SUFFICES ASSUME NEW total \in Nat \ {0}, NEW limit \in Nat \ {0}, NEW offset \in Nat
             PROVE  PagerLeads(total, offset, limit)
  OBVIOUS
<1>1. PICK pages : pages = (total + limit - 1) \div limit
  OBVIOUS
<1>2. pages \in Nat \ {0} /\ (pages - 1) * limit < total /\ total <= pages * limit
  BY <1>1, PageCount
<1>3. PICK K \in Nat : K = (pages - 1) * limit
  BY <1>2, PageBegins, Zenon
<1>4. PICK p : p = Paginate(total, offset, limit)
  OBVIOUS
<1>5. /\ p.total = total /\ p.limit = limit /\ p.offset \in Nat /\ p.offset <= total
      /\ p.count = 0 => p.offset = total
  BY <1>4, PageAnswered
<1>6. PICK back \in Nat : back = IF p.offset < p.limit THEN 0 ELSE p.offset - p.limit
  BY <1>5
<1>7. Max({1, pages}) = pages
  BY <1>2, AtLeastOne
<1>8. PICK v : v = PageView(p)
  BY Zenon
<1>9. /\ v.pages = pages
      /\ v.first = (IF p.offset > 0 THEN 0 ELSE NoLink)
      /\ v.prev = (IF p.offset > 0 THEN Min({K, back}) ELSE NoLink)
      /\ v.next = (IF p.offset + limit < total THEN p.offset + limit ELSE NoLink)
      /\ v.last = (IF p.offset # K THEN K ELSE NoLink)
  BY <1>1, <1>3, <1>5, <1>6, <1>7, <1>8, Zenon DEF PageView
<1>10. \A o \in LinksOf(v) : RowsAt(total, o, limit) # {}
  <2> SUFFICES ASSUME NEW o \in LinksOf(v) PROVE RowsAt(total, o, limit) # {}
    OBVIOUS
  <2>1. Min({K, back}) \in Nat /\ Min({K, back}) <= K
    BY <1>3, <1>6, MinMax
  <2>2. o \in Nat /\ o < total
    BY <1>2, <1>3, <1>5, <1>9, <2>1 DEF LinksOf
  <2>3. o + 1 \in RowsAt(total, o, limit)
    BY <2>2, PageWithin
  <2> QED BY <2>3
<1>11. PastEnd(p) => v.last # NoLink
  BY <1>2, <1>3, <1>5, <1>9 DEF PastEnd, NoLink
<1>12. ClientPage(total, offset, limit).count > 0
  <2>1. Min({offset, K}) \in Nat /\ Min({offset, K}) < total
    BY <1>2, <1>3, MinMax
  <2>2. ClientPage(total, offset, limit) = Paginate(total, Min({offset, K}), limit)
    BY <1>1, <1>2, <1>3 DEF ClientPage
  <2> QED BY <2>1, <2>2, PageWithin
<1> DEFINE Jump(n) == RowsAt(total, OffsetOfPage(n, v.pages, limit), limit)
<1>13. \A n \in 1 .. pages :
          /\ Jump(n) \subseteq Int
          /\ \A x \in Int : x \in Jump(n) <=> (n - 1) * limit < x /\ x <= (n - 1) * limit + limit /\ x <= total
  <2> SUFFICES ASSUME NEW n \in 1 .. pages
               PROVE  /\ Jump(n) \subseteq Int
                      /\ \A x \in Int : x \in Jump(n) <=>
                           (n - 1) * limit < x /\ x <= (n - 1) * limit + limit /\ x <= total
    OBVIOUS
  <2>0. n \in Nat \ {0}
    BY <1>2
  <2>1. Max({1, n}) = n
    BY <2>0, AtLeastOne
  <2>2. Min({n, pages}) = n
    BY <1>2, MinMax
  <2>3. PICK b \in Nat : b = (n - 1) * limit
    BY <2>0, PageBegins, Zenon
  <2>4. OffsetOfPage(n, v.pages, limit) = b
    BY <1>7, <1>9, <2>1, <2>2, <2>3, Zenon DEF OffsetOfPage
  <2>5. b <= (pages - 1) * limit
    <3>1. CASE n = pages
      BY <1>3, <2>3, <3>1
    <3>2. CASE n # pages
      <4>1. n < pages
        BY <1>2, <3>2
      <4>2. (n - 1) * limit + limit <= (pages - 1) * limit
        BY <1>2, <2>0, <4>1, PageBegins
      <4>3. PICK top : top = (pages - 1) * limit
        OBVIOUS
      <4>4. b + limit <= top
        BY <2>3, <4>2, <4>3, Zenon
      <4>5. top \in Nat
        BY <1>2, <4>3, PageBegins, Zenon
      <4>6. b <= top
        BY <4>4, <4>5
      <4> QED BY <4>3, <4>6, Zenon
    <3> QED BY <3>1, <3>2
  <2> QED BY <1>2, <2>3, <2>4, <2>5, PageWithin
<1>14. UNION {Jump(n) : n \in 1 .. pages} = 1 .. total
  <2>1. ASSUME NEW n \in 1 .. pages PROVE Jump(n) \subseteq 1 .. total
    <3>1. (n - 1) * limit \in Nat
      BY <1>2, PageBegins
    <3> QED BY <1>13, <3>1
  <2>2. ASSUME NEW x \in 1 .. total PROVE \E n \in 1 .. pages : x \in Jump(n)
    <3>1. PICK y \in Nat : y = x - 1
      OBVIOUS
    <3>2. PICK k : k = y \div limit
      OBVIOUS
    <3>3. k \in Nat /\ limit * k <= y /\ y < limit * k + limit
      BY <3>2
    <3>4. k < pages
      <4> SUFFICES ASSUME pages <= k PROVE FALSE
        BY <1>2, <3>3
      <4>1. pages * limit <= k * limit
        BY <1>2, <3>3
      <4> QED BY <1>2, <3>1, <3>3, <4>1
    <3>5. k + 1 \in 1 .. pages /\ (k + 1) - 1 = k /\ k * limit = limit * k
      BY <1>2, <3>3, <3>4
    <3>6. x \in Jump(k + 1)
      BY <1>13, <3>1, <3>3, <3>5
    <3> QED BY <3>5, <3>6
  <2> QED BY <2>1, <2>2
<1>15. \A n, m \in 1 .. pages : n # m => Jump(n) \cap Jump(m) = {}
  <2>1. ASSUME NEW n \in 1 .. pages, NEW m \in 1 .. pages, n < m PROVE Jump(n) \cap Jump(m) = {}
    <3>1. (n - 1) * limit + limit <= (m - 1) * limit /\ (n - 1) * limit \in Nat /\ (m - 1) * limit \in Nat
      BY <1>2, <2>1, PageBegins
    <3> QED BY <1>13, <3>1
  <2> QED BY <1>2, <2>1
<1> QED BY <1>4, <1>8, <1>9, <1>10, <1>11, <1>12, <1>14, <1>15 DEF PagerLeads

-----------------------------------------------------------------------------
(* The page. *)

Calls == [pc : {"returned", "building", "waiting", "publishing"}, on : Callers \cup {NoCaller},
          snap : Snapshots \cup {NoSnapshot}]

\* What is published was built.
ServerInv ==
  /\ rows \in Nat
  /\ current \in Snapshots \cup {NoSnapshot}
  /\ inflight \in Callers \cup {NoCaller}
  /\ calls \in [Callers -> Calls]
  /\ \A c \in Callers : calls[c].pc = "publishing" => calls[c].snap \in Snapshots

\* The newest request asks what the URL asks, and the page loads until it
\* returns; what it then holds answers it.
LoaderInv ==
  /\ question \in Questions
  /\ data \in Answers \cup {NoData}
  /\ loading \in BOOLEAN /\ error \in BOOLEAN
  /\ request \in Requests \cup {NoRequest}
  /\ loading <=> request # NoRequest
  /\ request # NoRequest => /\ request.question = question
                            /\ request.pc = "answered" => request.snap \in Snapshots
  /\ ~loading /\ ~error => data # NoData /\ data.question = question

\* A question whose Refresh returned without an error finds a snapshot.
WaitInv == request # NoRequest /\ request.pc = "waiting" /\ calls[Asker] = Returned => current \in Snapshots

\* The inductive invariant.
DashboardInv == ServerInv /\ LoaderInv /\ WaitInv /\ OneTimer

\* A new request is one, and asks the question.
LEMMA Asked ==
  ASSUME NEW q \in Questions, Run(q), question' = q, LoaderInv
  PROVE  LoaderInv'
<1>1. NewRequest(q) \in Requests /\ NewRequest(q).question = q /\ NewRequest(q).pc = "sent"
  BY DEF NewRequest, Requests
<1>2. NewRequest(q) # NoRequest
  BY <1>1, PageAssumption
<1>3. request' = NewRequest(q) /\ loading' = TRUE /\ error' = FALSE /\ data' = data
  BY DEF Run
<1> QED BY <1>1, <1>2, <1>3, Zenon DEF LoaderInv

\* The request under way waits, is answered from a snapshot, or fails.
LEMMA RequestReturns ==
  ASSUME LoaderInv, request # NoRequest, NEW snap \in Snapshots,
         request' = Answered(request, snap) \/ request' = NotAnswered(request) \/ request' = Waiting(request),
         UNCHANGED <<question, data, loading, error>>
  PROVE  LoaderInv'
<1>1. request \in Requests /\ request.question = question
  BY DEF LoaderInv
<1>2. request' \in Requests /\ request'.question = question /\ (request'.pc = "answered" => request'.snap \in Snapshots)
  <2>1. CASE request' = Answered(request, snap)
    BY <1>1, <2>1, Zenon DEF Answered, Requests
  <2>2. CASE request' = NotAnswered(request)
    BY <1>1, <2>2, Zenon DEF NotAnswered, Requests
  <2>3. CASE request' = Waiting(request)
    BY <1>1, <2>3, Zenon DEF Waiting, Requests
  <2> QED BY <2>1, <2>2, <2>3
<1>3. request' # NoRequest
  BY <1>2, PageAssumption
<1> QED BY <1>2, <1>3 DEF LoaderInv

\* The newest answer is put on the screen.
LEMMA NewestShown ==
  ASSUME LoaderInv, DeliverNewest
  PROVE  LoaderInv'
<1>1. /\ request # NoRequest /\ request \in Requests /\ request.question = question /\ question \in Questions
      /\ request' = NoRequest /\ question' = question /\ loading' = FALSE
  BY DEF LoaderInv, DeliverNewest, Apply
<1>2. CASE request.pc = "answered"
  <2>1. PICK d : d = [question |-> request.question, snap |-> request.snap]
    BY Zenon
  <2>2. d \in Answers /\ d.question = question
    BY <1>1, <1>2, <2>1 DEF LoaderInv, Answers
  <2>3. data' = d /\ error' = error
    BY <1>2, <2>1 DEF DeliverNewest, Apply
  <2>4. d # NoData
    BY <2>2, PageAssumption
  <2> QED BY <1>1, <2>2, <2>3, <2>4, Zenon DEF LoaderInv
<1>3. CASE request.pc # "answered"
  <2>1. data' = data /\ error' = TRUE
    BY <1>3 DEF DeliverNewest, Apply
  <2> QED BY <1>1, <2>1, Zenon DEF LoaderInv
<1> QED BY <1>2, <1>3

\* The loader's part of a step of the dashboard.
LEMMA LoaderStep ==
  ASSUME DashboardInv, [Next]_vars
  PROVE  LoaderInv'
<1> USE DEF DashboardInv
<1>1. CASE UNCHANGED loaderVars
  BY <1>1 DEF LoaderInv, loaderVars
<1>2. CASE Grow \/ Tick \/ Poll \/ RefreshNow \/ OnPage(ToggleAutoReload)
  <2>1. UNCHANGED loaderVars
    BY <1>2 DEF Grow, Tick, Poll, RefreshNow, Begin, OnPage, ToggleAutoReload, pageVars
  <2> QED BY <1>1, <2>1
<1>3. ASSUME NEW c \in Callers, BuildReads(c) \/ BuildMisses(c) \/ BuildPublished(c)
      PROVE  LoaderInv'
  <2>1. UNCHANGED loaderVars
    BY <1>3, Zenon DEF BuildReads, BuildMisses, BuildPublished, pageVars
  <2> QED BY <1>1, <2>1
<1>4. \E snap : snap \in Snapshots
  <2>1. [read |-> TRUE, rows |-> 0] \in Snapshots
    BY DEF Snapshots
  <2> QED BY <2>1
<1>5. ASSUME NEW c \in Callers, BuildFails(c) \/ WaitEnds(c) PROVE LoaderInv'
  <2>1. UNCHANGED <<question, data, loading, error>>
    BY <1>5 DEF BuildFails, WaitEnds
  <2>2. request' = request \/ (request # NoRequest /\ request' = NotAnswered(request))
    BY <1>5, Zenon DEF BuildFails, WaitEnds, AskerFails
  <2>3. CASE request' = request
    BY <2>1, <2>3 DEF LoaderInv
  <2> QED BY <1>4, <2>1, <2>2, <2>3, RequestReturns
<1>6. CASE Serve \/ ServeFirst
  <2>1. request # NoRequest /\ UNCHANGED <<question, data, loading, error>>
    BY <1>6 DEF Serve, ServeFirst, ServerRest
  <2>2. \/ current \in Snapshots /\ request' = Answered(request, current)
        \/ request' = Waiting(request)
    BY <1>6 DEF Serve, ServeFirst, ServerInv, WaitInv
  <2> QED BY <1>4, <2>1, <2>2, RequestReturns
<1>7. CASE LoseAnswer
  BY <1>4, <1>7, RequestReturns DEF LoseAnswer
<1>8. ASSUME NEW p \in Passes, OnPage(End(p)) PROVE LoaderInv'
  <2>1. Run(question) /\ question' = question
    BY <1>8, Zenon DEF OnPage, End
  <2> QED BY <2>1, Asked DEF LoaderInv
<1>9. ASSUME NEW q \in Questions, OnPage(Navigate(q)) PROVE LoaderInv'
  BY <1>9, Asked DEF OnPage, Navigate
<1>10. CASE OnPage(Retry)
  BY <1>10, Asked DEF OnPage, Retry, LoaderInv
<1>11. CASE OnPage(DeliverNewest)
  BY <1>11, NewestShown DEF OnPage
<1>12. CASE OnPage(DeliverLate(current))
  <2>1. UNCHANGED <<question, data, loading, error, request>>
    BY <1>12 DEF OnPage, DeliverLate
  <2> QED BY <2>1 DEF LoaderInv
<1>13. CASE UNCHANGED vars
  BY <1>1, <1>13 DEF vars, pageVars
<1>14. ASSUME NEW p \in Passes, PassReads(p) PROVE LoaderInv'
  <2>1. UNCHANGED loaderVars
    BY <1>14, Zenon DEF PassReads, ReadSources
  <2> QED BY <1>1, <2>1
<1> QED BY <1>2, <1>3, <1>5, <1>6, <1>7, <1>8, <1>9, <1>10, <1>11, <1>12, <1>13, <1>14 DEF Next

\* What a step means for a question that waits: its Refresh does not return
\* without an error before there is a snapshot.
LEMMA WaitStep ==
  ASSUME DashboardInv, [Next]_vars
  PROVE  WaitInv'
<1> USE DEF DashboardInv
<1>1. CASE /\ request' = request
           /\ \/ current' \in Snapshots
              \/ current' = current /\ (calls'[Asker] = calls[Asker] \/ calls'[Asker] # Returned)
  BY <1>1 DEF WaitInv
<1>2. CASE request' = request /\ UNCHANGED managerVars
  BY <1>1, <1>2 DEF managerVars
<1>3. CASE request' = NoRequest \/ request'.pc # "waiting"
  BY <1>3 DEF WaitInv
<1>4. Asker \in Callers
  BY DashboardAssumption
<1>5. ASSUME NEW c \in Callers, Refresh(c)
      PROVE  current' = current /\ (calls'[Asker] = calls[Asker] \/ calls'[Asker] # Returned) /\ calls'[c] # Returned
  <2>1. calls \in [Callers -> Calls]
    BY DEF ServerInv
  <2>2. PICK k : /\ k = [calls[c] EXCEPT !.pc = "building"] \/ k = [calls[c] EXCEPT !.pc = "waiting", !.on = inflight]
                 /\ calls' = [calls EXCEPT ![c] = k] /\ current' = current
    BY <1>5, Zenon DEF Refresh
  <2>3. k.pc # "returned"
    BY <2>1, <2>2, Zenon DEF Calls
  <2>4. k # Returned
    BY <2>3 DEF Returned
  <2> QED BY <1>4, <2>1, <2>2, <2>4
<1>6. CASE Tick
  BY <1>1, <1>5, <1>6, CallersAssumption, Zenon DEF Tick, pageVars, loaderVars
<1>7. CASE RefreshNow
  <2>1. PICK p \in Passes : Refresh(p) /\ request' = request
    BY <1>7 DEF RefreshNow, Begin, loaderVars
  <2>2. p \in Callers
    BY DashboardAssumption
  <2> QED BY <1>1, <1>5, <2>1, <2>2, Zenon
<1>8. ASSUME NEW c \in Callers, BuildReads(c) \/ BuildMisses(c) PROVE WaitInv'
  <2>1. PICK snap : Build(c, snap) /\ request' = request
    BY <1>8, Zenon DEF BuildReads, BuildMisses, pageVars, loaderVars
  <2>2. calls \in [Callers -> Calls]
    BY DEF ServerInv
  <2>3. PICK k : k = [calls[c] EXCEPT !.pc = "publishing", !.snap = snap] /\ calls' = [calls EXCEPT ![c] = k] /\ current' = current
    BY <2>1, Zenon DEF Build
  <2>4. k.pc = "publishing"
    BY <2>2, <2>3, Zenon DEF Calls
  <2>5. k # Returned
    BY <2>4 DEF Returned
  <2>6. calls'[Asker] = calls[Asker] \/ calls'[Asker] # Returned
    BY <1>4, <2>2, <2>3, <2>5
  <2> QED BY <1>1, <2>1, <2>3, <2>6
<1>9. ASSUME NEW c \in Callers, BuildPublished(c) PROVE WaitInv'
  <2>1. request' = request /\ current' = calls[c].snap /\ calls[c].pc = "publishing"
    BY <1>9 DEF BuildPublished, Publish, pageVars, loaderVars
  <2> QED BY <1>1, <2>1 DEF ServerInv
<1>10. ASSUME AskerFails PROVE WaitInv'
  <2>1. CASE request # NoRequest /\ request.pc = "waiting"
    <3>1. request' = NotAnswered(request) /\ request \in Requests
      BY <1>10, <2>1 DEF AskerFails, LoaderInv
    <3>2. request'.pc = "failed"
      BY <3>1, Zenon DEF NotAnswered, Requests
    <3> QED BY <1>3, <3>2
  <2>2. CASE ~(request # NoRequest /\ request.pc = "waiting")
    BY <1>10, <2>2 DEF AskerFails, WaitInv
  <2> QED BY <2>1, <2>2
<1>11. ASSUME NEW c \in Callers, BuildFails(c) PROVE WaitInv'
  <2>1. CASE c = Asker \/ calls[Asker].on = c
    BY <1>10, <1>11, <2>1, Zenon DEF BuildFails
  <2>2. CASE ~(c = Asker \/ calls[Asker].on = c)
    <3>1. request' = request /\ current' = current /\ calls' = Close(c)
      BY <1>11, <2>2 DEF BuildFails, Fail
    <3>2. calls'[Asker] = calls[Asker]
      BY <1>4, <2>2, <3>1 DEF Close
    <3> QED BY <1>1, <3>1, <3>2
  <2> QED BY <2>1, <2>2
<1>12. ASSUME NEW c \in Callers, WaitEnds(c) PROVE WaitInv'
  <2>1. CASE c = Asker
    BY <1>10, <1>12, <2>1, Zenon DEF WaitEnds
  <2>2. CASE c # Asker
    <3>1. request' = request /\ current' = current /\ calls' = [calls EXCEPT ![c] = Returned] /\ calls \in [Callers -> Calls]
      BY <1>12, <2>2 DEF WaitEnds, GiveUp, ServerInv
    <3> QED BY <1>1, <1>4, <2>2, <3>1
  <2> QED BY <2>1, <2>2
<1>13. CASE Serve \/ ServeFirst
  <2>1. request \in Requests
    BY <1>13 DEF Serve, ServeFirst, LoaderInv
  <2>2. CASE request' = Answered(request, current)
    <3>1. request'.pc = "answered"
      BY <2>1, <2>2, Zenon DEF Answered, Requests
    <3> QED BY <1>3, <3>1
  <2>3. CASE Refresh(Asker)
    BY <1>4, <1>5, <2>3 DEF WaitInv
  <2> QED BY <1>13, <2>2, <2>3 DEF Serve, ServeFirst
<1>14. CASE LoseAnswer
  <2>1. request \in Requests /\ request' = NotAnswered(request)
    BY <1>14 DEF LoseAnswer, LoaderInv
  <2>2. request'.pc = "failed"
    BY <2>1, Zenon DEF NotAnswered, Requests
  <2> QED BY <1>3, <2>2
<1>15. ASSUME NEW q, Run(q) PROVE WaitInv'
  <2>1. request'.pc = "sent"
    BY <1>15 DEF Run, NewRequest
  <2> QED BY <1>3, <2>1
<1>16. CASE OnPage(DeliverNewest)
  BY <1>3, <1>16 DEF OnPage, DeliverNewest
<1>17. Next => \/ request' = request /\ UNCHANGED managerVars
               \/ Tick \/ RefreshNow \/ Serve \/ ServeFirst \/ LoseAnswer \/ OnPage(DeliverNewest)
               \/ \E q : Run(q)
               \/ \E c \in Callers : \/ BuildReads(c) \/ BuildMisses(c) \/ BuildPublished(c)
                                     \/ BuildFails(c) \/ WaitEnds(c)
  BY Zenon DEF Next, Grow, Poll, Begin, PassReads, ReadSources, End, OnPage, Navigate, Retry, DeliverLate,
         ToggleAutoReload, pageVars, loaderVars
<1>18. UNCHANGED vars => request' = request /\ UNCHANGED managerVars
  BY DEF vars, pageVars, loaderVars
<1> QED BY <1>2, <1>6, <1>7, <1>8, <1>9, <1>11, <1>12, <1>13, <1>14, <1>15, <1>16, <1>17, <1>18, Zenon

\* The interval's part of it.
LEMMA TimerStep ==
  ASSUME OneTimer, [Next]_vars
  PROVE  OneTimer'
<1>1. CASE UNCHANGED <<autoReload, timers, reloadTimer>>
  BY <1>1 DEF OneTimer
<1>2. ASSUME NEW p \in Passes, OnPage(End(p)) PROVE OneTimer'
  <2>1. PICK early : early = (seen[p] = "discovering")
    BY Zenon
  <2>2. autoReload' = autoReload
    BY <1>2 DEF OnPage, End
  <2>3. \/ autoReload /\ SetInterval(reloadTimer, Speed(early))
        \/ UNCHANGED <<timers, reloadTimer, reloadInterval>>
    BY <1>2, <2>1, Zenon DEF OnPage, End
  <2>4. CASE autoReload /\ SetInterval(reloadTimer, Speed(early))
    <3>1. timers \subseteq {reloadTimer}
      BY <2>4 DEF OneTimer
    <3>2. timers' = (timers \ {reloadTimer}) \cup {reloadTimer'}
      BY <2>4, Zenon DEF SetInterval
    <3> QED BY <2>2, <2>4, <3>1, <3>2 DEF OneTimer
  <2> QED BY <1>1, <2>2, <2>3, <2>4
<1>3. CASE OnPage(ToggleAutoReload)
  <2>1. CASE autoReload
    BY <1>3, <2>1, Zenon DEF OnPage, ToggleAutoReload, OneTimer
  <2>2. CASE ~autoReload
    <3>1. SetInterval(0, Speed(discovering)) /\ autoReload' = TRUE
      BY <1>3, <2>2, Zenon DEF OnPage, ToggleAutoReload
    <3>2. timers = {}
      BY <2>2 DEF OneTimer
    <3>3. timers' = (timers \ {0}) \cup {reloadTimer'}
      BY <3>1, Zenon DEF SetInterval
    <3> QED BY <3>1, <3>2, <3>3 DEF OneTimer
  <2> QED BY <2>1, <2>2
<1>4. Next => \/ UNCHANGED <<autoReload, timers, reloadTimer>>
              \/ \E p \in Passes : OnPage(End(p))
              \/ OnPage(ToggleAutoReload)
  BY Zenon DEF Next, Grow, Tick, BuildReads, BuildMisses, BuildPublished, BuildFails, WaitEnds, Serve, ServeFirst, ServerRest,
         LoseAnswer, PassReads, ReadSources, Poll, RefreshNow, Begin, OnPage, Navigate, Retry, DeliverNewest, DeliverLate, pageVars, pollVars
<1> QED BY <1>1, <1>2, <1>3, <1>4 DEF vars, pageVars, pollVars

\* The server's part of it.
LEMMA ServerStep ==
  ASSUME ServerInv, [Next]_vars
  PROVE  ServerInv'
<1>1. ASSUME rows' \in Nat, UNCHANGED managerVars PROVE ServerInv'
  BY <1>1 DEF ServerInv, managerVars
<1>2. ASSUME NEW c \in Callers, Refresh(c), rows' = rows PROVE ServerInv'
  <2>1. PICK k : /\ k = [calls[c] EXCEPT !.pc = "building"] \/ k = [calls[c] EXCEPT !.pc = "waiting", !.on = inflight]
                 /\ calls' = [calls EXCEPT ![c] = k]
                 /\ inflight' \in Callers \cup {NoCaller} /\ current' = current
    BY <1>2, Zenon DEF Refresh, ServerInv
  <2>2. k \in Calls /\ k.pc # "publishing"
    BY <2>1, Zenon DEF ServerInv, Calls
  <2> QED BY <1>2, <2>1, <2>2 DEF ServerInv
<1>3. ASSUME NEW c \in Callers, NEW snap \in Snapshots, Build(c, snap), rows' = rows PROVE ServerInv'
  <2>1. PICK k : k = [calls[c] EXCEPT !.pc = "publishing", !.snap = snap]
    OBVIOUS
  <2>2. calls' = [calls EXCEPT ![c] = k] /\ inflight' = NoCaller /\ current' = current
    BY <1>3, <2>1, Zenon DEF Build
  <2>3. k \in Calls /\ k.snap = snap
    BY <2>1, Zenon DEF ServerInv, Calls
  <2> QED BY <1>3, <2>2, <2>3 DEF ServerInv
<1>4. Returned \in Calls /\ Returned.pc # "publishing"
  BY DEF Returned, Calls
<1>5. ASSUME calls' \in [Callers -> Calls], \A d \in Callers : calls'[d] = Returned \/ calls'[d] = calls[d],
             inflight' \in {inflight, NoCaller}, current' \in Snapshots \cup {NoSnapshot}, rows' = rows
      PROVE  ServerInv'
  BY <1>4, <1>5 DEF ServerInv
<1>6. \A c \in Callers : /\ Close(c) \in [Callers -> Calls]
                         /\ \A d \in Callers : Close(c)[d] = Returned \/ Close(c)[d] = calls[d]
  BY <1>4 DEF Close, ServerInv
<1>7. \A r \in BOOLEAN : Snapshot(r) \in Snapshots
  BY DEF Snapshot, Snapshots, ServerInv
<1>8. CASE Tick
  BY <1>2, <1>8, CallersAssumption DEF Tick
<1>9. ASSUME NEW c \in Callers, BuildReads(c) \/ BuildMisses(c) PROVE ServerInv'
  BY <1>3, <1>7, <1>9, Zenon DEF BuildReads, BuildMisses
<1>10. ASSUME NEW c \in Callers, BuildPublished(c) PROVE ServerInv'
  <2>1. calls' = Close(c) /\ inflight' = inflight /\ current' = calls[c].snap /\ rows' = rows
    BY <1>10 DEF BuildPublished, Publish
  <2>2. calls[c].snap \in Snapshots
    BY <1>10 DEF BuildPublished, Publish, ServerInv
  <2> QED BY <1>5, <1>6, <2>1, <2>2
<1>11. ASSUME NEW c \in Callers, BuildFails(c) PROVE ServerInv'
  <2>1. calls' = Close(c) /\ inflight' = NoCaller /\ current' = current /\ rows' = rows
    BY <1>11 DEF BuildFails, Fail
  <2> QED BY <1>5, <1>6, <2>1 DEF ServerInv
<1>12. ASSUME NEW c \in Callers, WaitEnds(c) PROVE ServerInv'
  <2>1. calls' = [calls EXCEPT ![c] = Returned] /\ inflight' = inflight /\ current' = current /\ rows' = rows
    BY <1>12 DEF WaitEnds, GiveUp
  <2>2. calls' \in [Callers -> Calls] /\ \A d \in Callers : calls'[d] = Returned \/ calls'[d] = calls[d]
    BY <1>4, <2>1 DEF ServerInv
  <2> QED BY <1>5, <2>1, <2>2 DEF ServerInv
<1>13. CASE RefreshNow
  <2>1. PICK p \in Passes : Refresh(p) /\ rows' = rows
    BY <1>13 DEF RefreshNow
  <2> QED BY <1>2, <2>1, DashboardAssumption
<1>14. CASE Grow
  BY <1>1, <1>14 DEF Grow, ServerInv
<1>15. Next => \/ rows' = rows /\ UNCHANGED managerVars
               \/ Grow \/ Tick \/ RefreshNow
               \/ Refresh(Asker) /\ rows' = rows
               \/ \E c \in Callers : \/ BuildReads(c) \/ BuildMisses(c) \/ BuildPublished(c)
                                     \/ BuildFails(c) \/ WaitEnds(c)
  BY Zenon DEF Next, Serve, ServeFirst, ServerRest, LoseAnswer, Poll, PassReads, OnPage
<1>16. ASSUME rows' = rows, UNCHANGED managerVars PROVE ServerInv'
  BY <1>1, <1>16 DEF ServerInv
<1>17. Asker \in Callers
  BY DashboardAssumption
<1> QED BY <1>2, <1>8, <1>9, <1>10, <1>11, <1>12, <1>13, <1>14, <1>15, <1>16, <1>17, Zenon DEF vars

LEMMA DashboardInvHolds == Spec => []DashboardInv
<1>1. Init => DashboardInv
  <2> SUFFICES ASSUME Init PROVE DashboardInv
    OBVIOUS
  <2>1. ServerInv
    <3>1. Returned \in Calls /\ Returned.pc # "publishing"
      BY DEF Returned, Calls
    <3> QED BY <3>1 DEF Init, ManagerInit, ServerInv
  <2>2. LoaderInv
    <3>1. question \in Questions /\ request = NewRequest(question) /\ data = NoData /\ loading = TRUE /\ error = FALSE
      BY DEF Init, PageInit
    <3>2. request \in Requests /\ request.question = question /\ request.pc = "sent"
      BY <3>1 DEF NewRequest, Requests
    <3>3. request # NoRequest
      BY <3>2, PageAssumption
    <3> QED BY <3>1, <3>2, <3>3, Zenon DEF LoaderInv
  <2>3. OneTimer
    BY DEF Init, PageInit, OneTimer
  <2>4. WaitInv
    BY DEF Init, PageInit, NewRequest, WaitInv
  <2> QED BY <2>1, <2>2, <2>3, <2>4 DEF DashboardInv
<1>2. DashboardInv /\ [Next]_vars => DashboardInv'
  BY LoaderStep, WaitStep, TimerStep, ServerStep DEF DashboardInv
<1> QED BY <1>1, <1>2, PTL DEF Spec

\* For any questions, passes and builds: what is on screen belongs to the
\* question in the URL, and answers it once nothing loads and nothing failed
\* (the loader's generation, answer).
THEOREM ScreenAnswersURL == Spec => []ShownAnswersQuestion
<1>1. LoaderInv => ShownAnswersQuestion
  BY DEF LoaderInv, ShownAnswersQuestion, Answer
<1> QED BY <1>1, DashboardInvHolds, PTL DEF DashboardInv

\* The interval runs exactly while the reader wants it to, and is the one App
\* can stop (toggleAutoReload, and the end of loadGlobal).
THEOREM NoStrayInterval == Spec => []OneTimer
<1>1. DashboardInv => OneTimer
  BY DEF DashboardInv
<1> QED BY <1>1, DashboardInvHolds, PTL

\* How many rows an answer has, and what a page of them says.
LEMMA RowsCounted ==
  ASSUME NEW a \in Answers
  PROVE  /\ Cardinality(RowsOf(a)) \in Nat
         /\ a.question.filter = 0 => Cardinality(RowsOf(a)) = a.snap.rows
<1>1. a.snap.rows \in Nat
  BY DEF Answers, Snapshots
<1>2. IsFiniteSet(1 .. a.snap.rows) /\ Cardinality(1 .. a.snap.rows) = a.snap.rows
  <2>0. 1 \in Int /\ a.snap.rows \in Int
    BY <1>1
  <2>1. IsFiniteSet(1 .. a.snap.rows)
        /\ Cardinality(1 .. a.snap.rows) = IF 1 > a.snap.rows THEN 0 ELSE a.snap.rows - 1 + 1
    BY <2>0, FS_Interval, Zenon
  <2> QED BY <1>1, <2>1
<1>3. RowsOf(a) \subseteq 1 .. a.snap.rows /\ (a.question.filter = 0 => RowsOf(a) = 1 .. a.snap.rows)
  BY DEF RowsOf
<1>4. Cardinality(RowsOf(a)) \in Nat
  BY <1>2, <1>3, FS_Subset, FS_CardinalityType
<1> QED BY <1>2, <1>3, <1>4

\* A page says the fleet is empty only of a snapshot that read its source when
\* it held nothing (decideViewState, snapshotKnowledge and pastEnd together).
THEOREM EmptyWasRead == Spec => []EmptyIsKnown
<1>1. DashboardInv => EmptyIsKnown
  <2> SUFFICES ASSUME LoaderInv, ViewState = "empty-fleet"
               PROVE  data.snap.read /\ data.snap.rows = 0 /\ data.question.filter = 0
    BY DEF DashboardInv, EmptyIsKnown
  <2>1. /\ ~loading /\ ~error /\ question.filter = 0 /\ ~Incomplete(Answer)
        /\ ~(Answer # NoData /\ PastEnd(PageOf(Answer)))
        /\ ~((IF Answer = NoData THEN 0 ELSE PageOf(Answer).count) > 0)
    BY Zenon DEF ViewState
  <2>2. data \in Answers /\ data # NoData /\ data.question = question /\ Answer = data
    BY <2>1, Zenon DEF LoaderInv, Answer
  <2>3. data.snap.read
    BY <2>1, <2>2 DEF Incomplete, Level
  <2>4. PICK p : p = PageOf(data)
    OBVIOUS
  <2>5. ~PastEnd(p) /\ ~(p.count > 0)
    BY <2>1, <2>2, <2>4
  <2>6. PICK total, offset : total = data.snap.rows /\ offset = question.offset
    OBVIOUS
  <2>7. total \in Nat /\ offset \in Nat /\ Cardinality(RowsOf(data)) = total
    BY <2>1, <2>2, <2>6, RowsCounted, PageAssumption, Zenon DEF LoaderInv, Answers, Snapshots
  <2>8. p = Paginate(total, offset, PageLimit)
    BY <2>2, <2>4, <2>6, <2>7, Zenon DEF PageOf
  <2>9. CASE total # 0
    <3>1. offset < total => p.count > 0
      BY <2>7, <2>8, <2>9, PageWithin, PageAssumption
    <3>0. PageLimit \in Nat \ {0}
      BY PageAssumption
    <3>2. p.total = total /\ (p.count = 0 <=> p.offset = total) /\ p.offset = IF offset <= total THEN offset ELSE total
      BY <2>7, <2>8, <3>0, PageAnswered
    <3>3. p.offset = total /\ p.count = 0
      BY <2>5, <2>7, <3>1, <3>2
    <3>4. p.total > 0
      BY <2>7, <2>9, <3>2
    <3> QED BY <2>5, <3>2, <3>3, <3>4 DEF PastEnd
  <2> QED BY <2>1, <2>2, <2>3, <2>6, <2>9
<1> QED BY <1>1, DashboardInvHolds, PTL

\* Every link of the pager leads somewhere, on every page the dashboard shows.
THEOREM LinksNeverDangle == Spec => []LinksLeadSomewhere
<1>1. DashboardInv => LinksLeadSomewhere
  <2> SUFFICES ASSUME LoaderInv, Answer # NoData, NEW more \in 0 .. MaxMore, NEW limit \in 1 .. MaxLimit,
                      NEW offset \in 0 .. MaxMore + MaxLimit, Cardinality(RowsOf(Answer)) + more > 0
               PROVE  PagerLeads(Cardinality(RowsOf(Answer)) + more, offset, limit)
    BY DEF DashboardInv, LinksLeadSomewhere
  <2>1. Answer \in Answers
    BY DEF LoaderInv, Answer
  <2>2. PICK total : total = Cardinality(RowsOf(Answer)) + more
    OBVIOUS
  <2>3. total \in Nat \ {0} /\ limit \in Nat \ {0} /\ offset \in Nat
    BY <2>1, <2>2, RowsCounted, PageAssumption
  <2> QED BY <2>2, <2>3, PagerIsRight
<1> QED BY <1>1, DashboardInvHolds, PTL
=============================================================================
