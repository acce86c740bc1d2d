------------------------------ MODULE WebProofs ------------------------------
(***************************************************************************)
(* Proofs about indexer-web: its process state (Console), for any users,   *)
(* requests, dates, limits and any length of time; and its pages           *)
(* (Dashboard), for any rows, labels, prices, filters and page size.  The  *)
(* three parts of Console share the clock and the restarts: each has its   *)
(* own invariant.                                                          *)
(*                                                                         *)
(* That the pages agree rests on one argument: a line of a view, a group   *)
(* of lines and a page's total each stand for a set of rows, and the sum   *)
(* over a set is the sum over the parts of any partition of it (SumFibres).*)
(***************************************************************************)
EXTENDS Console, Dashboard, FoldTheorems, SequenceTheorems

\* No step of the other two parts touches the floor.
LEMMA FloorStep == FloorInv /\ [ConsoleNext]_consoleVars => FloorInv'
<1> SUFFICES ASSUME FloorInv, [ConsoleNext]_consoleVars PROVE FloorInv'
  OBVIOUS
<1> USE ConsoleAssumption DEF FloorValue
<1>1. CASE UNCHANGED floorVars
  BY <1>1 DEF FloorInv, floorVars
<1>2. CASE WebRestart
  <2> DEFINE Request == [pc: {"save", "apply", "late"}, value: FloorValue, alone: BOOLEAN]
  <2>1. ASSUME NEW t \in Tab, NEW q \in saving[t]
        PROVE  /\ saving[t] = {q} /\ q \in Request
               /\ q.alone => \A s \in Tab \ {t} : saving[s] = {}
    BY DEF FloorInv
  <2>2. ASSUME NEW q \in Request
        PROVE  /\ [q EXCEPT !.pc = "late"] \in Request
               /\ [q EXCEPT !.pc = "late"].pc = "late" /\ [q EXCEPT !.pc = "late"].alone = q.alone
    OBVIOUS
  <2> HIDE DEF Request
  <2>3. ASSUME NEW t \in Tab, NEW r \in Unanswered(t)
        PROVE  /\ Unanswered(t) = {r} /\ r \in Request /\ r.pc = "late"
               /\ r.alone => \A s \in Tab \ {t} : Unanswered(s) = {}
    <3>1. PICK q \in saving[t] : q.pc # "apply" /\ r = [q EXCEPT !.pc = "late"]
      BY <2>3 DEF Unanswered
    <3> QED
      BY <2>1, <2>2, <3>1 DEF Unanswered
  <2>4. saving' = [t \in Tab |-> Unanswered(t)] /\ redis_floor' = redis_floor
    BY <1>2 DEF WebRestart
  <2>5. saving' \in [Tab -> SUBSET Request]
    BY <2>3, <2>4
  <2>6. floor_doubt' \in BOOLEAN /\ ((\E t \in Tab : Unanswered(t) # {}) => floor_doubt')
    BY <1>2, Zenon DEF WebRestart
  <2>7. ~floor_doubt' => floor' = load_data_floor(redis_floor)
    BY <1>2 DEF WebRestart
  <2>8. redis_floor \in FloorValue \cup {"missing"}
    BY DEF FloorInv
  <2> QED
    BY <2>3, <2>4, <2>5, <2>6, <2>7, <2>8 DEF FloorInv, Request, load_data_floor
<1>3. ASSUME NEW t \in Tab, NEW v \in FloorValue, FloorSubmit(t, v) PROVE FloorInv'
  <2> DEFINE New == [pc |-> "save", value |-> v, alone |-> InFlight = {}]
             Request == [pc: {"save", "apply", "late"}, value: FloorValue, alone: BOOLEAN]
  <2>1. saving[t] = {} /\ redis_floor' = redis_floor /\ floor' = floor
    BY <1>3 DEF FloorSubmit
  <2>2. saving'[t] = {New}
    BY <1>3 DEF FloorSubmit, FloorInv
  <2>3. \A s \in Tab \ {t} : saving'[s] = {Overlapped(r) : r \in saving[s]}
    BY <1>3 DEF FloorSubmit, FloorInv
  <2>4. floor_doubt' = (floor_doubt \/ InFlight # {})
    BY <1>3 DEF FloorSubmit
  <2>5. New \in Request /\ New.pc = "save" /\ (New.alone <=> InFlight = {})
    <3>1. (InFlight = {}) \in BOOLEAN
      OBVIOUS
    <3> QED
      BY <3>1, Zenon
  <2>6. ASSUME NEW r \in Request
        PROVE  Overlapped(r) \in Request /\ ~Overlapped(r).alone /\ Overlapped(r).pc = r.pc
    BY <2>6 DEF Overlapped
  <2> HIDE DEF New, Request
  <2>7. DOMAIN saving' = Tab /\ saving' = [s \in Tab |-> saving'[s]]
    BY <1>3 DEF FloorSubmit
  <2>8. ASSUME NEW s \in Tab PROVE saving'[s] \in SUBSET Request
    <3>1. saving[s] \in SUBSET Request
      BY DEF FloorInv, Request
    <3> QED
      BY <2>2, <2>3, <2>5, <2>6, <3>1
  <2>9. saving' \in [Tab -> SUBSET Request]
    BY <2>7, <2>8
  <2>10. ASSUME NEW s \in Tab, NEW r \in saving'[s]
         PROVE  /\ saving'[s] = {r}
                /\ r.alone => \A q \in Tab \ {s} : saving'[q] = {}
                /\ r.alone /\ r.pc = "apply" => redis_floor = r.value
                /\ ~floor_doubt' => r.alone /\ r.pc # "late"
    <3>1. CASE s = t
      BY <2>2, <2>3, <2>4, <2>5, <2>10, <3>1 DEF InFlight
    <3>2. CASE s # t
      <4>1. PICK q \in saving[s] : r = Overlapped(q)
        BY <2>3, <2>10, <3>2
      <4>2. saving[s] = {q} /\ q \in Request
        BY <4>1 DEF FloorInv, Request
      <4>3. saving'[s] = {r} /\ ~r.alone
        BY <2>3, <2>6, <3>2, <4>1, <4>2
      <4>4. floor_doubt'
        BY <2>4, <4>1 DEF InFlight
      <4> QED
        BY <4>3, <4>4
    <3> QED
      BY <3>1, <3>2
  <2>11. ~floor_doubt' => floor = load_data_floor(redis_floor)
    BY <2>4 DEF FloorInv, InFlight
  <2>12. floor_doubt' \in BOOLEAN
    BY <2>4
  <2> QED
    BY <2>1, <2>9, <2>10, <2>11, <2>12 DEF FloorInv, load_data_floor, Request
<1>4. ASSUME NEW t \in Tab, FloorSaved(t) PROVE FloorInv'
  BY <1>4 DEF FloorSaved, FloorInv, load_data_floor
<1>5. ASSUME NEW t \in Tab, FloorSaveFails(t) PROVE FloorInv'
  BY <1>5 DEF FloorSaveFails, FloorInv, load_data_floor
<1>6. ASSUME NEW t \in Tab, FloorApply(t) PROVE FloorInv'
  BY <1>6 DEF FloorApply, FloorInv, load_data_floor
<1>8. ASSUME NEW t \in Tab, FloorSaveLost(t) PROVE FloorInv'
  BY <1>8 DEF FloorSaveLost, FloorInv, load_data_floor
<1>9. ASSUME NEW t \in Tab, FloorLate(t) PROVE FloorInv'
  BY <1>9 DEF FloorLate, FloorInv, load_data_floor
<1>7. CASE ClockTick \/ SessionNext \/ DiagnoseNext \/ UNCHANGED consoleVars
  BY <1>1, <1>7 DEF ClockTick, SessionNext, login_post, logout, EditAllowlist, DiagnoseNext,
     DiagnoseCached, DiagnoseGate, DiagnoseCollect, DiagnoseAnswer, DiagnoseFails, consoleVars
<1> QED
  BY <1>2, <1>3, <1>4, <1>5, <1>6, <1>7, <1>8, <1>9 DEF ConsoleNext, FloorNext

\* Between requests the floor the pages use is the one a restart would load,
\* unless a change raced or went unanswered and none has gone through since.
THEOREM FloorIsDurable == ConsoleSpec => []FloorSurvivesRestart
<1>1. ConsoleInit => FloorInv
  BY ConsoleAssumption DEF ConsoleInit, FloorInv, FloorValue, load_data_floor
<1>2. FloorInv => FloorSurvivesRestart
  BY DEF FloorInv, FloorSurvivesRestart, InFlight
<1> QED
  BY <1>1, <1>2, FloorStep, PTL DEF ConsoleSpec

-----------------------------------------------------------------------------
\* The cookies, and whom a request is let in as.
LEMMA SessionStep == SessionInv /\ [ConsoleNext]_consoleVars => SessionInv'
<1> SUFFICES ASSUME SessionInv, [ConsoleNext]_consoleVars PROVE SessionInv'
  OBVIOUS
<1>1. ASSUME NEW u \in User, login_post(u) PROVE SessionInv'
  BY <1>1, ConsoleAssumption DEF login_post, issue_token, SessionInv
<1>2. ASSUME NEW u \in User, logout(u) PROVE SessionInv'
  BY <1>2 DEF logout, SessionInv
<1>3. CASE ClockTick
  BY <1>3 DEF ClockTick, sessionVars, SessionInv
<1>4. CASE UNCHANGED <<clock, cookie, logged_in>>
  BY <1>4 DEF SessionInv
<1>5. CASE WebRestart \/ (\E U \in SUBSET User : EditAllowlist(U)) \/ FloorNext \/ DiagnoseNext
           \/ UNCHANGED consoleVars
  BY <1>4, <1>5 DEF WebRestart, EditAllowlist, sessionVars, FloorNext, FloorSubmit, FloorSaved,
     FloorSaveFails, FloorSaveLost, FloorLate, FloorApply, DiagnoseNext, DiagnoseCached,
     DiagnoseGate, DiagnoseCollect, DiagnoseAnswer, DiagnoseFails, consoleVars
<1> QED
  BY <1>1, <1>2, <1>3, <1>5 DEF ConsoleNext, SessionNext

\* A cookie that still verifies is one the user's own login set in time.
LEMMA SessionsFresh ==
  ASSUME SessionInv
  PROVE  \A u \in User : \A v \in from_request_parts(u) :
           v = u /\ v \in users /\ logged_in[v] >= 0 /\ clock - logged_in[v] <= SessionTtl
BY ConsoleAssumption DEF SessionInv, from_request_parts, verify_token

-----------------------------------------------------------------------------
\* The gate and the answers.
Spaced == gate[2] - gate[1] >= RateLimit \/ gate[1] < 0
FreshlyServed == \A s \in served : s.at - s.bundle <= CacheTtl + LlmTimeout

LEMMA DiagnoseStep ==
  ASSUME clock \in Nat, DiagnoseInv, Spaced, FreshlyServed, [ConsoleNext]_consoleVars
  PROVE  DiagnoseInv' /\ Spaced' /\ FreshlyServed'
<1> USE ConsoleAssumption DEF DiagnoseInv
<1>1. CASE ClockTick
  BY <1>1 DEF ClockTick, diagnoseVars, Spaced, FreshlyServed
<1>2. CASE WebRestart
  BY <1>2 DEF WebRestart, Spaced, FreshlyServed
<1>3. CASE DiagnoseCached
  BY <1>3 DEF DiagnoseCached, Cached, Spaced, FreshlyServed
<1>4. ASSUME NEW t \in Tab, DiagnoseGate(t) PROVE DiagnoseInv' /\ Spaced' /\ FreshlyServed'
  BY <1>4 DEF DiagnoseGate, Limited, Spaced, FreshlyServed
<1>5. ASSUME NEW t \in Tab, DiagnoseCollect(t) PROVE DiagnoseInv' /\ Spaced' /\ FreshlyServed'
  BY <1>5 DEF DiagnoseCollect, Spaced, FreshlyServed
<1>6. ASSUME NEW t \in Tab, DiagnoseAnswer(t) PROVE DiagnoseInv' /\ Spaced' /\ FreshlyServed'
  BY <1>6 DEF DiagnoseAnswer, Spaced, FreshlyServed
<1>7. ASSUME NEW t \in Tab, DiagnoseFails(t) PROVE DiagnoseInv' /\ Spaced' /\ FreshlyServed'
  BY <1>7 DEF DiagnoseFails, Spaced, FreshlyServed
<1>8. CASE UNCHANGED <<clock, diagnoseVars>>
  BY <1>8 DEF diagnoseVars, Spaced, FreshlyServed
<1>9. CASE SessionNext \/ FloorNext \/ UNCHANGED consoleVars
  BY <1>8, <1>9 DEF SessionNext, login_post, logout, EditAllowlist, FloorNext, FloorSubmit,
     FloorSaved, FloorSaveFails, FloorSaveLost, FloorLate, FloorApply, consoleVars
<1> QED
  BY <1>1, <1>2, <1>3, <1>4, <1>5, <1>6, <1>7, <1>9 DEF ConsoleNext, DiagnoseNext

\* Nobody is let in on a login older than SessionTtl, no two calls pass the
\* gate closer than RateLimit, and no answer shown is staler than its two
\* delays together.
THEOREM LimitsAreKept == ConsoleSpec => []TimeLimitsKept
<1> DEFINE Inv == SessionInv /\ DiagnoseInv /\ Spaced /\ FreshlyServed
<1>1. ConsoleInit => Inv
  BY ConsoleAssumption DEF ConsoleInit, SessionInv, DiagnoseInv, Spaced, FreshlyServed
<1>2. Inv /\ [ConsoleNext]_consoleVars => Inv'
  <2>1. Inv => clock \in Nat
    BY DEF SessionInv
  <2> QED
    BY <2>1, SessionStep, DiagnoseStep
<1>3. Inv => TimeLimitsKept
  BY SessionsFresh DEF Spaced, FreshlyServed, TimeLimitsKept
<1> QED
  BY <1>1, <1>2, <1>3, PTL DEF ConsoleSpec

-----------------------------------------------------------------------------
(* Dashboard: the pages of transactions. *)

\* Pages begin PageSize apart.
LEMMA PageStarts ==
  /\ \A p \in Nat \ {0} : Offset(p) \in Nat
  /\ \A p, q \in Nat \ {0} : p < q => Offset(p) + PageSize <= Offset(q)
<1>1. ASSUME NEW p \in Nat \ {0} PROVE Offset(p) \in Nat
  BY DashboardAssumption DEF Offset
<1>2. ASSUME NEW p \in Nat \ {0}, NEW q \in Nat \ {0}, p < q
      PROVE  Offset(p) + PageSize <= Offset(q)
  <2>1. \A a, b \in Nat : a < b => a * PageSize + PageSize <= b * PageSize
    BY DashboardAssumption
  <2>2. p - 1 \in Nat /\ q - 1 \in Nat /\ p - 1 < q - 1
    BY <1>2
  <2> QED
    BY <2>1, <2>2 DEF Offset
<1> QED
  BY <1>1, <1>2

\* Every position is on a page.
LEMMA PageOfPosition ==
  ASSUME NEW m \in Nat
  PROVE  \E p \in 1..(m + 1) : Offset(p) <= m /\ m < Offset(p) + PageSize
<1> DEFINE k == m \div PageSize
<1>1. k \in Nat /\ k * PageSize <= m /\ m < k * PageSize + PageSize
  BY DashboardAssumption
<1>2. k <= m
  BY <1>1, DashboardAssumption
<1> HIDE DEF k
<1>3. k + 1 \in 1..(m + 1) /\ (k + 1) - 1 = k
  BY <1>1, <1>2
<1> QED
  BY <1>1, <1>3 DEF Offset

\* A page has a next one when the list fills it.
LEMMA NextPage ==
  ASSUME NEW I, Cardinality(I) \in Nat, NEW p \in Nat \ {0}
  PROVE  paging_view(I, p).has_next <=> Cardinality(I) >= Offset(p) + PageSize
<1> DEFINE d == Cardinality(I) - Offset(p)
           e == Max({0, d})
<1>1. d \in Int /\ Offset(p) \in Nat /\ PageSize \in Nat /\ PageSize >= 1
  BY PageStarts, DashboardAssumption
<1> HIDE DEF d
<1>2. e \in {0, d} /\ e >= 0 /\ e >= d
  <2>1. \E x \in {0, d} : \A y \in {0, d} : x >= y
    BY <1>1
  <2> QED
    BY <2>1 DEF Max
<1> HIDE DEF e
<1>3. e \in Int
  BY <1>1, <1>2
<1>4. Min({PageSize, e}) \in {PageSize, e} /\ Min({PageSize, e}) <= PageSize /\ Min({PageSize, e}) <= e
  <2>1. \E x \in {PageSize, e} : \A y \in {PageSize, e} : x <= y
    BY <1>1, <1>3
  <2> QED
    BY <2>1 DEF Min
<1>5. RowsReturned(I, p) = Min({PageSize, e})
  BY DEF RowsReturned, e, d
<1>6. RowsReturned(I, p) >= PageSize <=> d >= PageSize
  BY <1>1, <1>2, <1>3, <1>4, <1>5
<1>7. d >= PageSize <=> Cardinality(I) >= Offset(p) + PageSize
  BY <1>1 DEF d
<1> QED
  BY <1>6, <1>7 DEF paging_view

\* The pages that are reached by following "next" from the first.
LEMMA PagesReached ==
  ASSUME NEW I, Cardinality(I) \in Nat, Cardinality(I) <= MaxRows,
         NEW pages, pages = {p \in 1..(MaxRows + 2) : \A q \in 1..(p - 1) : paging_view(I, q).has_next}
  PROVE  /\ \A p \in 1..(MaxRows + 2) : p \in pages <=> Offset(p) <= Cardinality(I)
         /\ ~paging_view(I, Max(pages)).has_next
<1> USE DashboardAssumption
<1> DEFINE n == Cardinality(I)
<1>1. ASSUME NEW p \in 1..(MaxRows + 2) PROVE p \in pages <=> Offset(p) <= n
  <2>1. ASSUME p \in pages PROVE Offset(p) <= n
    <3>1. CASE p = 1
      BY <3>1 DEF Offset
    <3>2. CASE p > 1
      <4>1. p - 1 \in 1..(p - 1) /\ p - 1 \in Nat \ {0}
        BY <3>2
      <4>2. paging_view(I, p - 1).has_next
        BY <2>1, <4>1
      <4>3. n >= Offset(p - 1) + PageSize
        BY <4>1, <4>2, NextPage
      <4>4. Offset(p) = Offset(p - 1) + PageSize
        BY DEF Offset
      <4> QED
        BY <4>3, <4>4
    <3> QED
      BY <3>1, <3>2
  <2>2. ASSUME Offset(p) <= n PROVE p \in pages
    <3> SUFFICES ASSUME NEW q \in 1..(p - 1) PROVE paging_view(I, q).has_next
      OBVIOUS
    <3>1. q \in Nat \ {0} /\ p \in Nat \ {0} /\ q < p
      OBVIOUS
    <3>2. Offset(q) + PageSize <= Offset(p) /\ Offset(p) \in Nat /\ Offset(q) \in Nat
      BY <3>1, PageStarts
    <3> QED
      BY <2>2, <3>1, <3>2, NextPage
  <2> QED
    BY <2>1, <2>2
<1>2. PICK k \in 1..(n + 1) : Offset(k) <= n /\ n < Offset(k) + PageSize
  BY PageOfPosition
<1>3. k \in 1..(MaxRows + 2) /\ k \in Nat \ {0} /\ k \in pages
  BY <1>1, <1>2
<1>4. \A p \in pages : k >= p
  <2> SUFFICES ASSUME NEW p \in pages, k < p PROVE FALSE
    OBVIOUS
  <2>1. p \in Nat \ {0} /\ p \in 1..(MaxRows + 2)
    OBVIOUS
  <2>2. Offset(p) <= n /\ Offset(k) + PageSize <= Offset(p) /\ Offset(p) \in Nat /\ Offset(k) \in Nat
    BY <1>1, <1>3, <2>1, PageStarts
  <2> QED
    BY <1>2, <2>2
<1>5. Max(pages) = k
  <2>1. \A p \in pages : p \in Nat
    OBVIOUS
  <2>2. Max(pages) \in pages /\ \A p \in pages : Max(pages) >= p
    BY <1>3, <1>4 DEF Max
  <2>3. Max(pages) >= k /\ k >= Max(pages) /\ Max(pages) \in Nat /\ k \in Nat
    BY <1>3, <1>4, <2>1, <2>2
  <2> QED
    BY <2>3
<1>6. ~paging_view(I, k).has_next
  <2>1. Offset(k) \in Nat
    BY <1>3, PageStarts
  <2> QED
    BY <1>2, <1>3, <2>1, NextPage
<1> QED
  BY <1>1, <1>5, <1>6

\* A list of rows is finite.
LEMMA ListType ==
  ASSUME RowsOK, NEW I \in SUBSET DOMAIN rows
  PROVE  /\ IsFiniteSet(I) /\ Cardinality(I) \in Nat /\ Cardinality(I) <= MaxRows
         /\ \A i \in I : rows[i].time \in Nat
<1> DEFINE Row == [to: Contract, selector: Function, slug: Slugs, time: Nat, saved: Int, skipped: BOOLEAN]
<1>1. rows \in Seq(Row) /\ Len(rows) <= MaxRows
  BY DEF RowsOK
<1>0. \A r \in Row : r.time \in Nat
  OBVIOUS
<1> HIDE DEF Row
<1>2. DOMAIN rows = 1..Len(rows) /\ Len(rows) \in Nat /\ \A i \in DOMAIN rows : rows[i] \in Row
  BY <1>1, LenProperties, ElementOfSeq
<1>3. IsFiniteSet(DOMAIN rows) /\ Cardinality(DOMAIN rows) = Len(rows)
  <2>1. /\ IsFiniteSet(1..Len(rows))
        /\ Cardinality(1..Len(rows)) = IF 1 > Len(rows) THEN 0 ELSE Len(rows) - 1 + 1
    BY <1>2, FS_Interval
  <2> QED
    BY <1>2, <2>1
<1>4. IsFiniteSet(I) /\ Cardinality(I) <= Cardinality(DOMAIN rows) /\ Cardinality(I) \in Nat
  BY <1>3, FS_Subset, FS_CardinalityType
<1>5. \A i \in I : rows[i].time \in Nat
  BY <1>0, <1>2
<1>6. MaxRows \in Nat /\ Len(rows) \in Nat
  BY <1>2, DashboardAssumption
<1> QED
  BY <1>1, <1>3, <1>4, <1>5, <1>6

\* What the pages of a list show of a row.
ShownOn(I, i, pages) ==
  /\ \E p \in pages : MayShow(I, i, p)
  /\ Tied(I, i) = {i} =>
       /\ Cardinality({p \in pages : MayShow(I, i, p)}) = 1
       /\ \A p \in pages : MayShow(I, i, p) => MustShow(I, i, p)

\* A row's position, and the page it is on.
LEMMA RowsPage ==
  ASSUME RowsOK, NEW I \in SUBSET DOMAIN rows, NEW i \in I,
         NEW pages, pages = {p \in 1..(MaxRows + 2) : \A q \in 1..(p - 1) : paging_view(I, q).has_next}
  PROVE  ShownOn(I, i, pages)
<1> USE DashboardAssumption
<1> DEFINE n == Cardinality(I)
           m == Cardinality(Newer(I, i))
           t == Cardinality(Tied(I, i))
<1>1. IsFiniteSet(I) /\ n \in Nat /\ n <= MaxRows
  BY ListType
<1>0. \A p \in 1..(MaxRows + 2) : p \in pages <=> Offset(p) <= n
  <2>1. pages = {p \in 1..(MaxRows + 2) : \A q \in 1..(p - 1) : paging_view(I, q).has_next}
    OBVIOUS
  <2> QED
    BY <1>1, <2>1, PagesReached
<1>2. i \notin Newer(I, i) /\ i \in Tied(I, i)
  <2>1. rows[i].time \in Nat
    BY ListType
  <2> QED
    BY <2>1 DEF Newer, Tied
<1>3. m \in Nat /\ m + 1 <= n /\ t \in Nat /\ t >= 1
  <2>1. IsFiniteSet(Newer(I, i)) /\ IsFiniteSet(Tied(I, i)) /\ m \in Nat /\ t \in Nat
    BY <1>1, FS_Subset, FS_CardinalityType DEF Newer, Tied
  <2>2. Cardinality(Newer(I, i) \cup {i}) = m + 1
    BY <1>2, <2>1, FS_AddElement
  <2>3. Cardinality(Newer(I, i) \cup {i}) <= n
    <3>1. Newer(I, i) \cup {i} \subseteq I
      BY DEF Newer
    <3> QED
      BY <1>1, <3>1, FS_Subset
  <2>4. t # 0
    BY <1>2, <2>1, FS_EmptySet
  <2> QED
    BY <2>1, <2>2, <2>3, <2>4
<1> HIDE DEF m, t, n
<1>4. PICK k \in 1..(m + 1) : Offset(k) <= m /\ m < Offset(k) + PageSize
  BY <1>3, PageOfPosition
<1>5. k \in 1..(MaxRows + 2) /\ k \in Nat \ {0} /\ Offset(k) \in Nat
  BY <1>1, <1>3, PageStarts
<1>6. k \in pages
  BY <1>0, <1>1, <1>3, <1>4, <1>5
<1>7. MayShow(I, i, k)
  BY <1>3, <1>4, <1>5 DEF MayShow, m, t
<1>8. ASSUME Tied(I, i) = {i}, NEW p \in pages, MayShow(I, i, p) PROVE p = k
  <2>1. t = 1
    BY <1>8, FS_Singleton DEF t
  <2>2. p \in Nat \ {0} /\ Offset(p) \in Nat
    BY PageStarts
  <2>3. m < Offset(p) + PageSize /\ m + 1 > Offset(p)
    BY <1>8, <2>1 DEF MayShow, m, t
  <2>4. ~(p < k) /\ ~(k < p)
    <3>1. p < k => Offset(p) + PageSize <= Offset(k)
      BY <1>5, <2>2, PageStarts
    <3>2. k < p => Offset(k) + PageSize <= Offset(p)
      BY <1>5, <2>2, PageStarts
    <3> QED
      BY <1>3, <1>4, <1>5, <2>2, <2>3, <3>1, <3>2
  <2> QED
    BY <1>5, <2>2, <2>4
<1>9. ASSUME Tied(I, i) = {i} PROVE Cardinality({p \in pages : MayShow(I, i, p)}) = 1
  <2>1. {p \in pages : MayShow(I, i, p)} = {k}
    BY <1>6, <1>7, <1>8, <1>9
  <2> QED
    BY <2>1, FS_Singleton
<1>10. ASSUME Tied(I, i) = {i} PROVE MustShow(I, i, k)
  <2>1. t = 1
    BY <1>10, FS_Singleton DEF t
  <2> QED
    BY <1>3, <1>4, <1>5, <2>1 DEF MustShow, m, t
<1> QED
  BY <1>6, <1>7, <1>8, <1>9, <1>10 DEF ShownOn

LEMMA RowsStep == RowsOK /\ [DashboardNext]_dashVars => RowsOK'
<1> SUFFICES ASSUME RowsOK, [DashboardNext]_dashVars PROVE RowsOK'
  OBVIOUS
<1> DEFINE Row == [to: Contract, selector: Function, slug: Slugs, time: Nat, saved: Int, skipped: BOOLEAN]
<1>1. CASE UNCHANGED rows
  BY <1>1 DEF RowsOK
<1>2. ASSUME NEW r \in Fresh, StoreRow(r) PROVE RowsOK'
  <2>1. Labelled(r, r.to) \in Row
    BY DashboardAssumption DEF Labelled, Slugs
  <2>2. rows \in Seq(Row) /\ rows' = Append(rows, Labelled(r, r.to)) /\ Len(rows) < MaxRows
    BY <1>2 DEF RowsOK, StoreRow
  <2> HIDE DEF Row
  <2>3. rows' \in Seq(Row) /\ Len(rows') = Len(rows) + 1 /\ Len(rows) \in Nat
    BY <2>1, <2>2, AppendProperties, LenProperties
  <2> QED
    BY <2>2, <2>3, DashboardAssumption DEF RowsOK, Row
<1>3. ASSUME NEW c \in Contract, Relabel(c) PROVE RowsOK'
  <2>0. rows \in Seq(Row) /\ Len(rows) <= MaxRows
    BY DEF RowsOK
  <2>1. ASSUME NEW r \in Row PROVE Labelled(r, ProjectOf[c]) \in Row
    BY DEF Labelled, Slugs, Project
  <2>2. rows' = [i \in DOMAIN rows |->
                   IF rows[i].slug = c THEN Labelled(rows[i], ProjectOf[c]) ELSE rows[i]]
    BY <1>3 DEF Relabel
  <2> HIDE DEF Row
  <2>3. DOMAIN rows = 1..Len(rows) /\ Len(rows) \in Nat /\ \A i \in DOMAIN rows : rows[i] \in Row
    BY <2>0, LenProperties, ElementOfSeq
  <2>4. rows' \in [1..Len(rows) -> Row]
    BY <2>1, <2>2, <2>3
  <2>5. rows' \in Seq(Row) /\ Len(rows') = Len(rows)
    BY <2>3, <2>4, LenProperties
  <2> QED
    BY <2>0, <2>5 DEF RowsOK, Row
<1>4. UNCHANGED rows \/ (\E r \in Fresh : StoreRow(r)) \/ \E c \in Contract : Relabel(c)
  BY DEF DashboardNext, dashVars, RefreshProjectDaily, RefreshFunctionDaily, HalfDay, blacklist_add,
     blacklist_remove, orgs_create, orgs_assign, FloorMoves
<1> QED
  BY <1>1, <1>2, <1>3, <1>4

\* Following "next" from the first page of a list of transactions ends, by when
\* every row has had its page, and one whose timestamp is its own exactly one.
THEOREM PagesCoverAll == DashboardSpec => []PagesShowAll
<1>1. DashboardInit => RowsOK
  BY DashboardAssumption, EmptySeq DEF DashboardInit, RowsOK
<1>2. ASSUME RowsOK PROVE PagesShowAll
  <2> SUFFICES ASSUME NEW c \in Contract, NEW f \in Filters,
                      NEW I, I = recent_txs_for_contract(c, f),
                      NEW pages, pages = {p \in 1..(MaxRows + 2) :
                                            \A q \in 1..(p - 1) : paging_view(I, q).has_next}
               PROVE  /\ ~paging_view(I, Max(pages)).has_next
                      /\ \A i \in I : ShownOn(I, i, pages)
    BY DEF PagesShowAll, ShownOn
  <2>1. I \in SUBSET DOMAIN rows
    BY DEF recent_txs_for_contract, TxRows, Covered
  <2>2. Cardinality(I) \in Nat /\ Cardinality(I) <= MaxRows
    BY <1>2, <2>1, ListType
  <2>3. ~paging_view(I, Max(pages)).has_next
    BY <2>2, PagesReached
  <2>4. ASSUME NEW i \in I
        PROVE  ShownOn(I, i, pages)
    BY <1>2, <2>1, RowsPage
  <2> QED
    BY <2>3, <2>4
<1> QED
  BY <1>1, <1>2, RowsStep, PTL DEF DashboardSpec

-----------------------------------------------------------------------------
(* Sums of lines. *)

Field == {"tx", "wei", "usd"}

IsLines(L) == IsFiniteSet(L) /\ \A l \in L : l.tx \in Nat /\ l.wei \in Nat /\ l.usd \in Nat

Share(L, f) == [l \in L |-> l[f]]
Sums(L, f) == SumOf(Share(L, f), L)

LEMMA SharesOK ==
  ASSUME NEW L, IsLines(L), NEW f \in Field
  PROVE  Share(L, f) \in [L -> Nat] /\ Sums(L, f) \in Nat /\ \A M \in SUBSET L : IsLines(M)
<1>1. \A l \in L : l[f] \in Nat
  BY DEF IsLines, Field
<1>2. Share(L, f) \in [L -> Nat]
  BY <1>1 DEF Share
<1>3. Sums(L, f) \in Nat
  BY <1>2, SumType DEF Sums, IsLines
<1>4. \A M \in SUBSET L : IsLines(M)
  BY FS_Subset DEF IsLines
<1> QED
  BY <1>2, <1>3, <1>4

\* The sums over some of the lines.
LEMMA SomeSums ==
  ASSUME NEW L, IsLines(L), NEW M \in SUBSET L, NEW f
  PROVE  SumOf(Share(L, f), M) = Sums(M, f)
<1>1. \A l \in M : Share(L, f)[l] = Share(M, f)[l]
  BY DEF Share
<1>2. IsFiniteSet(M)
  BY FS_Subset DEF IsLines
<1> QED
  BY <1>1, <1>2, SumSame DEF Sums

LEMMA FiguresAre ==
  ASSUME NEW L, IsFiniteSet(L)
  PROVE  /\ Figures(L) = [tx |-> Sums(L, "tx"), wei |-> Sums(L, "wei"), usd |-> Sums(L, "usd")]
         /\ Txs(L) = Sums(L, "tx")
<1> DEFINE t == [l \in L |-> l.tx]
           w == [l \in L |-> l.wei]
           u == [l \in L |-> l.usd]
<1>1. Figures(L) = [tx |-> SumFunction(t), wei |-> SumFunction(w), usd |-> SumFunction(u)]
      /\ Txs(L) = SumFunction(t)
  BY DEF Figures, Txs
<1>2. t = Share(L, "tx") /\ w = Share(L, "wei") /\ u = Share(L, "usd")
  BY DEF Share
<1>3. DOMAIN t = L /\ DOMAIN w = L /\ DOMAIN u = L
  OBVIOUS
<1> HIDE DEF t, w, u
<1>4. SumFunction(t) = SumOf(t, L) /\ SumFunction(w) = SumOf(w, L) /\ SumFunction(u) = SumOf(u, L)
  BY <1>3, SumFunctionIs
<1> QED
  BY <1>1, <1>2, <1>4 DEF Sums

LEMMA FiguresEqual ==
  ASSUME NEW L, IsFiniteSet(L), NEW M, IsFiniteSet(M), \A f \in Field : Sums(L, f) = Sums(M, f)
  PROVE  Figures(L) = Figures(M)
<1>1. Sums(L, "tx") = Sums(M, "tx") /\ Sums(L, "wei") = Sums(M, "wei") /\ Sums(L, "usd") = Sums(M, "usd")
  BY DEF Field
<1> QED
  BY <1>1, FiguresAre

\* Each line of G is the sum of the lines of L that k sends to it.
Sorts(k, L, G) ==
  k \in [L -> G] /\ \A g \in G, f \in Field : g[f] = Sums({l \in L : k[l] = g}, f)

LEMMA SortedSums ==
  ASSUME NEW L, IsLines(L), NEW G, IsFiniteSet(G), NEW k, Sorts(k, L, G)
  PROVE  IsLines(G) /\ \A f \in Field : Sums(G, f) = Sums(L, f)
<1> DEFINE Of(g) == {l \in L : k[l] = g}
<1>1. ASSUME NEW g \in G, NEW f \in Field
      PROVE  g[f] \in Nat /\ g[f] = SumOf(Share(L, f), Of(g))
  <2>1. g[f] = Sums(Of(g), f)
    BY DEF Sorts
  <2>2. Of(g) \in SUBSET L
    OBVIOUS
  <2> HIDE DEF Of
  <2> QED
    BY <2>1, <2>2, SharesOK, SomeSums
<1>2. IsLines(G)
  BY <1>1 DEF IsLines, Field
<1>3. ASSUME NEW f \in Field PROVE Sums(G, f) = Sums(L, f)
  <2> DEFINE w == Share(L, f)
             v == Share(G, f)
  <2>1. w \in [L -> Nat] /\ v \in [G -> Nat]
    BY <1>2, SharesOK
  <2>2. k \in [L -> G]
    BY DEF Sorts
  <2>3. \A g \in G : v[g] = SumOf(w, {l \in L : k[l] = g})
    BY <1>1 DEF Share
  <2> HIDE DEF w, v
  <2>4. SumOf(v, G) = SumOf(w, L)
    BY <2>1, <2>2, <2>3, SumFibres DEF IsLines
  <2> QED
    BY <2>4 DEF w, v, Sums
<1> QED
  BY <1>2, <1>3

LEMMA FiniteImage ==
  ASSUME NEW L, IsFiniteSet(L), NEW G, NEW k \in [L -> G], \A g \in G : \E l \in L : k[l] = g
  PROVE  IsFiniteSet(G)
BY FS_Surjection DEF Surjection

Alike(L, columns, l) == {m \in L : \A c \in columns : m[c] = l[c]}

\* The line of a group.
Group(L, columns, l) ==
  [key |-> [c \in columns |-> l[c]], tx |-> Sums(Alike(L, columns, l), "tx"),
   wei |-> Sums(Alike(L, columns, l), "wei"), usd |-> Sums(Alike(L, columns, l), "usd")]

LEMMA GroupsAre ==
  ASSUME NEW L, IsLines(L), NEW columns
  PROVE  GroupBy(L, columns) = {Group(L, columns, l) : l \in L}
<1> DEFINE sums(l) == Figures(Alike(L, columns, l))
           Of(l) == [key |-> [c \in columns |-> l[c]], tx |-> sums(l).tx, wei |-> sums(l).wei, usd |-> sums(l).usd]
<1>1. GroupBy(L, columns) = {Of(l) : l \in L}
  BY DEF GroupBy, Alike
<1>2. ASSUME NEW l \in L PROVE Of(l) = Group(L, columns, l)
  <2>1. IsFiniteSet(Alike(L, columns, l))
    BY FS_Subset DEF Alike, IsLines
  <2>2. /\ sums(l).tx = Sums(Alike(L, columns, l), "tx")
        /\ sums(l).wei = Sums(Alike(L, columns, l), "wei")
        /\ sums(l).usd = Sums(Alike(L, columns, l), "usd")
    BY <2>1, FiguresAre
  <2> QED
    BY <2>2 DEF Group
<1> HIDE DEF Of
<1> QED
  BY <1>1, <1>2

\* The groups of the lines add up to the lines.
LEMMA GroupSums ==
  ASSUME NEW L, IsLines(L), NEW columns
  PROVE  /\ IsLines(GroupBy(L, columns))
         /\ \A f \in Field : Sums(GroupBy(L, columns), f) = Sums(L, f)
<1> DEFINE G == GroupBy(L, columns)
           k == [l \in L |-> Group(L, columns, l)]
<1>1. G = {Group(L, columns, l) : l \in L}
  BY GroupsAre
<1>2. IsFiniteSet(G)
  <2>1. k \in [L -> G] /\ \A g \in G : \E l \in L : k[l] = g
    BY <1>1
  <2> HIDE DEF k, G
  <2> QED
    BY <2>1, FiniteImage DEF IsLines
<1>3. ASSUME NEW l \in L, NEW m \in L
      PROVE  Group(L, columns, m) = Group(L, columns, l) <=> m \in Alike(L, columns, l)
  <2>1. ASSUME m \in Alike(L, columns, l) PROVE Group(L, columns, m) = Group(L, columns, l)
    <3>1. \A c \in columns : m[c] = l[c]
      BY <2>1 DEF Alike
    <3>2. Alike(L, columns, m) = Alike(L, columns, l)
      BY <3>1 DEF Alike
    <3>3. [c \in columns |-> m[c]] = [c \in columns |-> l[c]]
      BY <3>1
    <3> QED
      BY <3>2, <3>3 DEF Group
  <2>2. ASSUME Group(L, columns, m) = Group(L, columns, l) PROVE m \in Alike(L, columns, l)
    <3>1. [c \in columns |-> m[c]] = [c \in columns |-> l[c]]
      BY <2>2 DEF Group
    <3>2. ASSUME NEW c \in columns PROVE m[c] = l[c]
      BY <3>1
    <3> QED
      BY <3>2 DEF Alike
  <2> QED
    BY <2>1, <2>2
<1>4. ASSUME NEW g \in G, NEW f \in Field PROVE g[f] = Sums({l \in L : k[l] = g}, f)
  <2>1. PICK l \in L : g = Group(L, columns, l)
    BY <1>1
  <2>2. {m \in L : k[m] = g} = Alike(L, columns, l)
    BY <1>3, <2>1 DEF Alike
  <2>3. g[f] = Sums(Alike(L, columns, l), f)
    BY <2>1 DEF Group, Field
  <2> QED
    BY <2>2, <2>3
<1>5. k \in [L -> G]
  BY <1>1
<1>6. Sorts(k, L, G)
  BY <1>4, <1>5 DEF Sorts
<1> HIDE DEF k, G
<1> QED
  BY <1>2, <1>6, SortedSums DEF G

-----------------------------------------------------------------------------
(* The lines of the views are sums over rows. *)

\* What a row adds to a figure.
Adds(f) ==
  [i \in Covered |-> CASE f = "tx"  -> 1
                       [] f = "wei" -> rows[i].saved
                       [] OTHER     -> UsdOf(rows[i].saved, DayOf(rows[i].time))]

LEMMA CoveredRows ==
  ASSUME RowsOK
  PROVE  /\ IsFiniteSet(Covered)
         /\ \A i \in Covered : /\ rows[i].to \in Contract /\ rows[i].selector \in Function
                               /\ rows[i].slug \in Slugs /\ rows[i].time \in Nat
                               /\ rows[i].saved \in Nat /\ DayOf(rows[i].time) \in Nat
<1> DEFINE Row == [to: Contract, selector: Function, slug: Slugs, time: Nat, saved: Int, skipped: BOOLEAN]
<1>1. rows \in Seq(Row)
  BY DEF RowsOK
<1>2. DOMAIN rows = 1..Len(rows) /\ Len(rows) \in Nat /\ \A i \in DOMAIN rows : rows[i] \in Row
  <2> HIDE DEF Row
  <2> QED
    BY <1>1, LenProperties, ElementOfSeq
<1>3. IsFiniteSet(Covered)
  <2>1. IsFiniteSet(1..Len(rows))
    BY <1>2, FS_Interval
  <2>2. Covered \subseteq 1..Len(rows)
    BY <1>2 DEF Covered
  <2> QED
    BY <2>1, <2>2, FS_Subset
<1>4. ASSUME NEW i \in Covered
      PROVE  /\ rows[i].to \in Contract /\ rows[i].selector \in Function /\ rows[i].slug \in Slugs
             /\ rows[i].time \in Nat /\ rows[i].saved \in Nat
  BY <1>2 DEF Covered
<1>5. \A t \in Nat : DayOf(t) \in Nat
  BY DEF DayOf
<1> QED
  BY <1>3, <1>4, <1>5

LEMMA UsdType ==
  ASSUME NEW wei \in Nat, NEW day PROVE UsdOf(wei, day) \in Nat
<1>1. CASE day \in DOMAIN UsdPerEth
  <2> DEFINE price == UsdPerEth[day]
  <2>1. price \in Nat
    BY <1>1, DashboardAssumption
  <2> HIDE DEF price
  <2>2. wei * price \in Nat
    BY <2>1
  <2> QED
    BY <1>1, <2>2 DEF UsdOf, price
<1> QED
  BY <1>1 DEF UsdOf

LEMMA AddsType ==
  ASSUME RowsOK, NEW f
  PROVE  Adds(f) \in [Covered -> Nat] /\ \A I \in SUBSET Covered : SumOf(Adds(f), I) \in Nat
<1>1. \A i \in Covered : UsdOf(rows[i].saved, DayOf(rows[i].time)) \in Nat /\ rows[i].saved \in Nat
  BY CoveredRows, UsdType
<1>2. Adds(f) \in [Covered -> Nat]
  BY <1>1 DEF Adds
<1> QED
  BY <1>2, CoveredRows, SumType

\* A line of rows of one day.
LEMMA LineSums ==
  ASSUME RowsOK, NEW I \in SUBSET Covered, NEW day, \A i \in I : DayOf(rows[i].time) = day
  PROVE  /\ Cardinality(I) = SumOf(Adds("tx"), I)
         /\ Wei(I) = SumOf(Adds("wei"), I)
         /\ UsdOf(Wei(I), day) = SumOf(Adds("usd"), I)
<1>1. IsFiniteSet(I)
  BY CoveredRows, FS_Subset
<1>2. \A i \in I : rows[i].saved \in Nat
  BY CoveredRows
<1> DEFINE ones == [i \in I |-> 1]
           w == [i \in I |-> rows[i].saved]
           u == [i \in I |-> UsdOf(rows[i].saved, day)]
<1>3. ones \in [I -> Nat] /\ w \in [I -> Nat] /\ u \in [I -> Nat]
  BY <1>2, UsdType
<1>4. /\ \A i \in I : ones[i] = Adds("tx")[i] /\ ones[i] = 1
      /\ \A i \in I : w[i] = Adds("wei")[i]
      /\ \A i \in I : u[i] = Adds("usd")[i]
  BY DEF Adds
<1>5. Wei(I) = SumFunction(w) /\ DOMAIN w = I
  BY DEF Wei
<1>6. \A i \in I : u[i] = UsdOf(w[i], day)
  OBVIOUS
<1> HIDE DEF ones, w, u
<1>7. Cardinality(I) = SumOf(Adds("tx"), I)
  <2>1. SumOf(ones, I) = Cardinality(I)
    BY <1>1, <1>3, <1>4, SumOnes
  <2>2. SumOf(ones, I) = SumOf(Adds("tx"), I)
    BY <1>1, <1>4, SumSame
  <2> QED
    BY <2>1, <2>2
<1>8. Wei(I) = SumOf(w, I)
  BY <1>1, <1>5, SumFunctionIs
<1>9. SumOf(w, I) = SumOf(Adds("wei"), I)
  BY <1>1, <1>4, SumSame
<1>10. SumOf(u, I) = SumOf(Adds("usd"), I)
  BY <1>1, <1>4, SumSame
<1>11. UsdOf(SumOf(w, I), day) = SumOf(u, I)
  <2>1. CASE day \in DOMAIN UsdPerEth
    <3> DEFINE price == UsdPerEth[day]
    <3>1. price \in Nat
      BY <2>1, DashboardAssumption
    <3>2. \A i \in I : u[i] = w[i] * price
      BY <1>6, <2>1 DEF UsdOf
    <3>3. UsdOf(SumOf(w, I), day) = SumOf(w, I) * price
      BY <2>1 DEF UsdOf
    <3> HIDE DEF price
    <3> QED
      BY <1>1, <1>3, <3>1, <3>2, <3>3, SumScaled
  <2>2. CASE day \notin DOMAIN UsdPerEth
    <3>1. (\A i \in I : u[i] = 0) /\ UsdOf(SumOf(w, I), day) = 0
      BY <1>6, <2>2 DEF UsdOf
    <3> QED
      BY <1>1, <1>3, <3>1, SumZero
  <2> QED
    BY <2>1, <2>2
<1> QED
  BY <1>7, <1>8, <1>9, <1>10, <1>11

\* The line of a function's day, of the rows like row i.
FunctionRows(i) ==
  {j \in Covered : /\ rows[j].to = rows[i].to /\ rows[j].selector = rows[i].selector
                   /\ rows[j].slug = rows[i].slug /\ DayOf(rows[j].time) = DayOf(rows[i].time)}

FunctionLine(i) ==
  [to |-> rows[i].to, selector |-> rows[i].selector, slug |-> rows[i].slug, day |-> DayOf(rows[i].time),
   tx |-> SumOf(Adds("tx"), FunctionRows(i)), wei |-> SumOf(Adds("wei"), FunctionRows(i)),
   usd |-> SumOf(Adds("usd"), FunctionRows(i))]

LEMMA FunctionDailyIs ==
  ASSUME RowsOK
  PROVE  FunctionDaily = {FunctionLine(i) : i \in Covered}
<1> DEFINE Of(i) == [to |-> rows[i].to, selector |-> rows[i].selector, slug |-> rows[i].slug,
                     day |-> DayOf(rows[i].time), tx |-> Cardinality(FunctionRows(i)),
                     wei |-> Wei(FunctionRows(i)), usd |-> UsdOf(Wei(FunctionRows(i)), DayOf(rows[i].time))]
<1>1. FunctionDaily = {Of(i) : i \in Covered}
  BY DEF FunctionDaily, FunctionRows
<1>2. ASSUME NEW i \in Covered PROVE Of(i) = FunctionLine(i)
  <2> DEFINE I == FunctionRows(i)
             day == DayOf(rows[i].time)
  <2>1. I \in SUBSET Covered /\ \A j \in I : DayOf(rows[j].time) = day
    BY DEF FunctionRows
  <2> HIDE DEF I, day
  <2>2. /\ Cardinality(I) = SumOf(Adds("tx"), I) /\ Wei(I) = SumOf(Adds("wei"), I)
        /\ UsdOf(Wei(I), day) = SumOf(Adds("usd"), I)
    BY <2>1, LineSums
  <2> QED
    BY <2>2 DEF I, day, FunctionLine
<1> HIDE DEF Of
<1> QED
  BY <1>1, <1>2

\* The line of a project's day.
ProjectRows(i) ==
  {j \in Covered : rows[j].slug = rows[i].slug /\ DayOf(rows[j].time) = DayOf(rows[i].time)}

ProjectLine(i) ==
  [slug |-> rows[i].slug, day |-> DayOf(rows[i].time),
   tx |-> SumOf(Adds("tx"), ProjectRows(i)), wei |-> SumOf(Adds("wei"), ProjectRows(i)),
   usd |-> SumOf(Adds("usd"), ProjectRows(i))]

LEMMA ProjectDailyIs ==
  ASSUME RowsOK
  PROVE  ProjectDaily = {ProjectLine(i) : i \in Covered}
<1> DEFINE Of(i) == [slug |-> rows[i].slug, day |-> DayOf(rows[i].time),
                     tx |-> Cardinality(ProjectRows(i)), wei |-> Wei(ProjectRows(i)),
                     usd |-> UsdOf(Wei(ProjectRows(i)), DayOf(rows[i].time))]
<1>1. ProjectDaily = {Of(i) : i \in Covered}
  BY DEF ProjectDaily, ProjectRows
<1>2. ASSUME NEW i \in Covered PROVE Of(i) = ProjectLine(i)
  <2> DEFINE I == ProjectRows(i)
             day == DayOf(rows[i].time)
  <2>1. I \in SUBSET Covered /\ \A j \in I : DayOf(rows[j].time) = day
    BY DEF ProjectRows
  <2> HIDE DEF I, day
  <2>2. /\ Cardinality(I) = SumOf(Adds("tx"), I) /\ Wei(I) = SumOf(Adds("wei"), I)
        /\ UsdOf(Wei(I), day) = SumOf(Adds("usd"), I)
    BY <2>1, LineSums
  <2> QED
    BY <2>2 DEF I, day, ProjectLine
<1> HIDE DEF Of
<1> QED
  BY <1>1, <1>2

\* Each line of D is the sum of the rows of I that k sends to it.
Collects(k, I, D) ==
  /\ k \in [I -> D] /\ \A d \in D : \E i \in I : k[i] = d
  /\ \A d \in D, f \in Field : d[f] = SumOf(Adds(f), {i \in I : k[i] = d})

LEMMA CollectedSums ==
  ASSUME RowsOK, NEW I \in SUBSET Covered, NEW D, NEW k, Collects(k, I, D)
  PROVE  IsLines(D) /\ \A f \in Field : Sums(D, f) = SumOf(Adds(f), I)
<1> DEFINE Of(d) == {i \in I : k[i] = d}
<1>1. IsFiniteSet(I)
  BY CoveredRows, FS_Subset
<1>2. k \in [I -> D] /\ IsFiniteSet(D)
  BY <1>1, FiniteImage DEF Collects
<1>3. ASSUME NEW d \in D PROVE Of(d) \in SUBSET I /\ Of(d) \in SUBSET Covered /\ IsFiniteSet(Of(d))
  BY <1>1, FS_Subset
<1>4. ASSUME NEW d \in D, NEW f \in Field PROVE d[f] = SumOf(Adds(f), Of(d))
  BY DEF Collects
<1> HIDE DEF Of
<1>5. ASSUME NEW d \in D, NEW f \in Field PROVE d[f] \in Nat
  BY <1>3, <1>4, AddsType
<1>6. IsLines(D)
  BY <1>2, <1>5 DEF IsLines, Field
<1>7. ASSUME NEW f \in Field PROVE Sums(D, f) = SumOf(Adds(f), I)
  <2> DEFINE v == Share(D, f)
             w == [i \in I |-> Adds(f)[i]]
  <2>1. v \in [D -> Nat] /\ \A d \in D : v[d] = d[f]
    BY <1>6, SharesOK DEF Share
  <2>2. w \in [I -> Nat] /\ \A i \in I : w[i] = Adds(f)[i]
    BY AddsType
  <2> HIDE DEF v, w
  <2>3. ASSUME NEW d \in D PROVE v[d] = SumOf(w, Of(d))
    <3>1. \A i \in Of(d) : w[i] = Adds(f)[i]
      BY <1>3, <2>2
    <3>2. SumOf(w, Of(d)) = SumOf(Adds(f), Of(d))
      BY <1>3, <3>1, SumSame
    <3> QED
      BY <1>4, <2>1, <3>2
  <2>4. \A d \in D : v[d] = SumOf(w, {i \in I : k[i] = d})
    BY <2>3 DEF Of
  <2>5. SumOf(v, D) = SumOf(w, I)
    BY <1>1, <1>2, <2>1, <2>2, <2>4, SumFibres
  <2>6. SumOf(w, I) = SumOf(Adds(f), I)
    BY <1>1, <2>2, SumSame
  <2> QED
    BY <2>5, <2>6 DEF Sums, v
<1> QED
  BY <1>6, <1>7

\* Lines of function_daily, and the rows they stand for.
LEMMA FunctionSums ==
  ASSUME RowsOK, NEW D \in SUBSET FunctionDaily, NEW I, I = {i \in Covered : FunctionLine(i) \in D}
  PROVE  IsLines(D) /\ \A f \in Field : Sums(D, f) = SumOf(Adds(f), I)
<1> DEFINE k == [i \in I |-> FunctionLine(i)]
<1>1. \A d \in D : \E i \in I : d = FunctionLine(i)
  BY FunctionDailyIs
<1>2. k \in [I -> D] /\ \A d \in D : \E i \in I : k[i] = d
  BY <1>1
<1>3. ASSUME NEW i \in Covered, NEW j \in Covered
      PROVE  FunctionLine(j) = FunctionLine(i) <=> j \in FunctionRows(i)
  <2>1. ASSUME j \in FunctionRows(i) PROVE FunctionRows(j) = FunctionRows(i)
    BY <2>1 DEF FunctionRows
  <2> QED
    BY <2>1 DEF FunctionLine, FunctionRows
<1>4. ASSUME NEW d \in D, NEW f \in Field PROVE d[f] = SumOf(Adds(f), {i \in I : k[i] = d})
  <2>1. PICK i \in I : d = FunctionLine(i)
    BY <1>1
  <2>2. {j \in I : k[j] = d} = FunctionRows(i)
    BY <1>3, <2>1 DEF FunctionRows
  <2>3. d[f] = SumOf(Adds(f), FunctionRows(i))
    BY <2>1 DEF FunctionLine, Field
  <2> QED
    BY <2>2, <2>3
<1>5. Collects(k, I, D) /\ I \in SUBSET Covered
  BY <1>2, <1>4 DEF Collects
<1> HIDE DEF k
<1> QED
  BY <1>5, CollectedSums

\* Lines of project_daily.
LEMMA ProjectSums ==
  ASSUME RowsOK, NEW D \in SUBSET ProjectDaily, NEW I, I = {i \in Covered : ProjectLine(i) \in D}
  PROVE  IsLines(D) /\ \A f \in Field : Sums(D, f) = SumOf(Adds(f), I)
<1> DEFINE k == [i \in I |-> ProjectLine(i)]
<1>1. \A d \in D : \E i \in I : d = ProjectLine(i)
  BY ProjectDailyIs
<1>2. k \in [I -> D] /\ \A d \in D : \E i \in I : k[i] = d
  BY <1>1
<1>3. ASSUME NEW i \in Covered, NEW j \in Covered
      PROVE  ProjectLine(j) = ProjectLine(i) <=> j \in ProjectRows(i)
  <2>1. ASSUME j \in ProjectRows(i) PROVE ProjectRows(j) = ProjectRows(i)
    BY <2>1 DEF ProjectRows
  <2> QED
    BY <2>1 DEF ProjectLine, ProjectRows
<1>4. ASSUME NEW d \in D, NEW f \in Field PROVE d[f] = SumOf(Adds(f), {i \in I : k[i] = d})
  <2>1. PICK i \in I : d = ProjectLine(i)
    BY <1>1
  <2>2. {j \in I : k[j] = d} = ProjectRows(i)
    BY <1>3, <2>1 DEF ProjectRows
  <2>3. d[f] = SumOf(Adds(f), ProjectRows(i))
    BY <2>1 DEF ProjectLine, Field
  <2> QED
    BY <2>2, <2>3
<1>5. Collects(k, I, D) /\ I \in SUBSET Covered
  BY <1>2, <1>4 DEF Collects
<1> HIDE DEF k
<1> QED
  BY <1>5, CollectedSums

-----------------------------------------------------------------------------
(* The blacklist. *)

LEMMA OneLine ==
  ASSUME NEW g, NEW f \in Field, IsLines({g})
  PROVE  Sums({g}, f) = g[f]
<1> DEFINE w == Share({g}, f)
<1>1. w \in [{g} -> Nat] /\ w[g] = g[f]
  BY SharesOK DEF Share
<1>2. IsFiniteSet({g}) /\ {g} \ {g} = {} /\ {g} \in SUBSET {g} /\ g \in {g}
  BY FS_Singleton
<1> HIDE DEF w
<1>3. SumOf(w, {g}) = w[g] + SumOf(w, {g} \ {g})
  BY <1>1, <1>2, SumWithout
<1>4. SumOf(w, {}) = 0 /\ w[g] \in Nat
  BY <1>1, FS_EmptySet, SumPicked
<1>5. SumOf(w, {g}) = w[g]
  BY <1>2, <1>3, <1>4
<1>6. SumOf(w, {g}) = g[f]
  BY <1>1, <1>5
<1> QED
  BY <1>6 DEF Sums, w

\* The groups of one contract are the groups of its lines.
LEMMA GroupsOfContract ==
  ASSUME NEW L, IsLines(L), NEW columns, "to" \in columns, NEW c,
         NEW M \in SUBSET L, \A l \in L : l \in M <=> l.to = c
  PROVE  GroupBy(M, columns) = {g \in GroupBy(L, columns) : g.key.to = c}
<1>1. IsLines(M)
  BY FS_Subset DEF IsLines
<1>2. ASSUME NEW l \in L PROVE Group(L, columns, l).key.to = l.to
  BY DEF Group
<1>3. ASSUME NEW l \in M PROVE Group(L, columns, l) = Group(M, columns, l)
  <2>1. Alike(L, columns, l) = Alike(M, columns, l)
    BY DEF Alike
  <2> QED
    BY <2>1 DEF Group
<1>4. GroupBy(L, columns) = {Group(L, columns, l) : l \in L}
  BY GroupsAre
<1>5. GroupBy(M, columns) = {Group(M, columns, l) : l \in M}
  BY <1>1, GroupsAre
<1>6. ASSUME NEW g \in GroupBy(M, columns) PROVE g \in GroupBy(L, columns) /\ g.key.to = c
  <2>1. PICK l \in M : g = Group(M, columns, l)
    BY <1>5
  <2>2. l \in L /\ l.to = c /\ g = Group(L, columns, l)
    BY <1>3, <2>1
  <2> QED
    BY <1>2, <1>4, <2>2
<1>7. ASSUME NEW g \in GroupBy(L, columns), g.key.to = c PROVE g \in GroupBy(M, columns)
  <2>1. PICK l \in L : g = Group(L, columns, l)
    BY <1>4
  <2>2. l \in M
    BY <1>2, <1>7, <2>1
  <2> QED
    BY <1>3, <1>5, <2>1, <2>2
<1> QED
  BY <1>6, <1>7

\* function_daily has lines of known contracts, and the blacklist its entries.
ViewInv ==
  /\ IsLines(function_daily)
  /\ \A l \in function_daily : l.to \in Contract /\ l.selector \in Function
  /\ analysis_exclusion \in SUBSET Hideable

LEMMA ViewStep == RowsOK /\ ViewInv /\ [DashboardNext]_dashVars => ViewInv'
<1> SUFFICES ASSUME RowsOK, ViewInv, [DashboardNext]_dashVars PROVE ViewInv'
  OBVIOUS
<1>1. CASE UNCHANGED <<function_daily, analysis_exclusion>>
  BY <1>1 DEF ViewInv, IsLines
<1>2. CASE RefreshFunctionDaily
  <2>1. function_daily' = FunctionDaily /\ analysis_exclusion' = analysis_exclusion
    BY <1>2 DEF RefreshFunctionDaily, settings
  <2>2. IsLines(FunctionDaily)
    BY FunctionSums
  <2>3. ASSUME NEW l \in FunctionDaily PROVE l.to \in Contract /\ l.selector \in Function
    <3>1. PICK i \in Covered : l = FunctionLine(i)
      BY FunctionDailyIs
    <3> QED
      BY <3>1, CoveredRows DEF FunctionLine
  <2> QED
    BY <2>1, <2>2, <2>3 DEF ViewInv, IsLines
<1>3. ASSUME NEW x \in Hideable, blacklist_add(x) \/ blacklist_remove(x) PROVE ViewInv'
  BY <1>3 DEF blacklist_add, blacklist_remove, views, ViewInv, IsLines
<1>4. \/ UNCHANGED <<function_daily, analysis_exclusion>> \/ RefreshFunctionDaily
      \/ \E x \in Hideable : blacklist_add(x) \/ blacklist_remove(x)
  BY DEF DashboardNext, dashVars, RefreshProjectDaily, HalfDay, StoreRow, Relabel, orgs_create,
     orgs_assign, FloorMoves, views, settings
<1> QED
  BY <1>1, <1>2, <1>3, <1>4

\* The lines of a contract that its boards show.
ShownOf(c) == {l \in Shown : l.to = c}

LEMMA ShownLines ==
  ASSUME ViewInv, NEW c
  PROVE  IsLines(Shown) /\ IsLines(ShownOf(c)) /\ ShownOf(c) \in SUBSET Shown
<1>1. Shown \in SUBSET function_daily /\ ShownOf(c) \in SUBSET Shown
  BY DEF Shown, ShownOf, InView
<1> QED
  BY <1>1, FS_Subset DEF ViewInv, IsLines

\* A contract's lines on the board of functions.
LEMMA FunctionBoard ==
  ASSUME ViewInv, NEW c, NEW parts, parts = {g \in overview("functions").board : g.key.to = c}
  PROVE  /\ parts = {Group(ShownOf(c), {"to", "selector", "slug"}, l) : l \in ShownOf(c)}
         /\ IsFiniteSet(parts) /\ \A f \in Field : Sums(parts, f) = Sums(ShownOf(c), f)
<1> DEFINE columns == {"to", "selector", "slug"}
<1>1. overview("functions").board = GroupBy(Shown, columns)
  <2> HIDE DEF columns
  <2> QED
    BY DEF overview, leaderboard_functions_30d, columns
<1>2. IsLines(Shown) /\ IsLines(ShownOf(c)) /\ "to" \in columns
  BY ShownLines
<1> HIDE DEF columns
<1>3. parts = GroupBy(ShownOf(c), columns)
  <2>1. ShownOf(c) \in SUBSET Shown /\ \A l \in Shown : l \in ShownOf(c) <=> l.to = c
    BY DEF ShownOf
  <2>2. GroupBy(ShownOf(c), columns) = {g \in GroupBy(Shown, columns) : g.key.to = c}
    BY <1>2, <2>1, GroupsOfContract
  <2> QED
    BY <1>1, <2>2
<1>4. parts = {Group(ShownOf(c), columns, l) : l \in ShownOf(c)}
  BY <1>2, <1>3, GroupsAre
<1>5. IsLines(parts) /\ \A f \in Field : Sums(parts, f) = Sums(ShownOf(c), f)
  BY <1>2, <1>3, GroupSums
<1> QED
  BY <1>4, <1>5 DEF columns, IsLines

\* And on the board of contracts.
LEMMA ContractBoard ==
  ASSUME ViewInv, NEW c, NEW lines, lines = {g \in overview("contracts").board : g.key.to = c}
  PROVE  /\ ShownOf(c) = {} => lines = {}
         /\ IsFiniteSet(lines) /\ \A f \in Field : Sums(lines, f) = Sums(ShownOf(c), f)
<1> DEFINE columns == {"to", "slug"}
           all == GroupBy(Shown, columns)
           Count(g) == Cardinality({l.selector : l \in {m \in Shown : m.to = g.key.to /\ m.slug = g.key.slug}})
           Line(g) == [key |-> g.key, tx |-> g.tx, wei |-> g.wei, usd |-> g.usd, functions |-> Count(g)]
           G == GroupBy(ShownOf(c), columns)
           k == [g \in G |-> Line(g)]
<1>1. overview("contracts").board = {Line(g) : g \in all}
  BY DEF overview, leaderboard_contracts_30d
<1>2. IsLines(Shown) /\ IsLines(ShownOf(c)) /\ "to" \in columns
  BY ShownLines
<1> HIDE DEF columns, Count
<1>3. G = {g \in all : g.key.to = c}
  <2>1. ShownOf(c) \in SUBSET Shown /\ \A l \in Shown : l \in ShownOf(c) <=> l.to = c
    BY DEF ShownOf
  <2> QED
    BY <1>2, <2>1, GroupsOfContract
<1> HIDE DEF all
<1>4. lines = {Line(g) : g \in G}
  BY <1>1, <1>3
<1>5. G = {Group(ShownOf(c), columns, l) : l \in ShownOf(c)}
  BY <1>2, GroupsAre
<1>6. IsLines(G) /\ \A f \in Field : Sums(G, f) = Sums(ShownOf(c), f)
  BY <1>2, GroupSums
<1> HIDE DEF G
<1>7. ASSUME NEW g \in G, NEW h \in G PROVE Line(g) = Line(h) => g = h
  <2>1. PICK l \in ShownOf(c) : g = Group(ShownOf(c), columns, l)
    BY <1>5
  <2>2. PICK m \in ShownOf(c) : h = Group(ShownOf(c), columns, m)
    BY <1>5
  <2>3. Line(g) = Line(h) => g.key = h.key /\ g.tx = h.tx /\ g.wei = h.wei /\ g.usd = h.usd
    OBVIOUS
  <2> QED
    BY <2>1, <2>2, <2>3 DEF Group
<1>8. k \in [G -> lines] /\ \A b \in lines : \E g \in G : k[g] = b
  BY <1>4
<1>9. IsFiniteSet(lines)
  <2> HIDE DEF k
  <2> QED
    BY <1>6, <1>8, FiniteImage DEF IsLines
<1>10. ASSUME NEW b \in lines, NEW f \in Field PROVE b[f] = Sums({g \in G : k[g] = b}, f)
  <2>1. PICK g \in G : b = Line(g)
    BY <1>4
  <2>2. {h \in G : k[h] = b} = {g}
    BY <1>7, <2>1
  <2>3. b[f] = g[f]
    BY <2>1 DEF Field
  <2>4. IsLines({g})
    BY <1>6, FS_Singleton DEF IsLines
  <2>5. Sums({g}, f) = g[f]
    BY <2>4, OneLine
  <2> QED
    BY <2>2, <2>3, <2>5
<1>11. Sorts(k, G, lines)
  BY <1>8, <1>10 DEF Sorts
<1> HIDE DEF k
<1>12. \A f \in Field : Sums(lines, f) = Sums(G, f)
  BY <1>6, <1>9, <1>11, SortedSums
<1>13. ShownOf(c) = {} => lines = {}
  BY <1>4, <1>5
<1> QED
  BY <1>6, <1>9, <1>12, <1>13

LEMMA BlacklistFacts ==
  ASSUME ViewInv, NEW c \in Contract,
         NEW lines, lines = {g \in overview("contracts").board : g.key.to = c},
         NEW parts, parts = {g \in overview("functions").board : g.key.to = c}
  PROVE  /\ Figures(lines) = Figures(parts)
         /\ \A g \in parts : [address |-> c, selector |-> g.key.selector] \notin analysis_exclusion
         /\ [address |-> c, selector |-> Nothing] \in analysis_exclusion =>
              lines = {} /\ \A g \in new_high_savings_candidates(Month, 0) : g.key # c
         /\ (\A s \in Function \cup {Nothing} : [address |-> c, selector |-> s] \notin analysis_exclusion) =>
              Figures(lines) = contract_totals(c, Month).saved
<1>1. /\ IsFiniteSet(lines) /\ \A f \in Field : Sums(lines, f) = Sums(ShownOf(c), f)
      /\ ShownOf(c) = {} => lines = {}
  BY ContractBoard
<1>2. /\ IsFiniteSet(parts) /\ \A f \in Field : Sums(parts, f) = Sums(ShownOf(c), f)
      /\ parts = {Group(ShownOf(c), {"to", "selector", "slug"}, l) : l \in ShownOf(c)}
  BY FunctionBoard
<1>3. IsFiniteSet(ShownOf(c))
  BY ShownLines DEF IsLines
<1>4. Figures(lines) = Figures(parts) /\ Figures(lines) = Figures(ShownOf(c))
  BY <1>1, <1>2, <1>3, FiguresEqual
<1>5. ASSUME NEW g \in parts PROVE [address |-> c, selector |-> g.key.selector] \notin analysis_exclusion
  <2>1. PICK l \in ShownOf(c) : g = Group(ShownOf(c), {"to", "selector", "slug"}, l)
    BY <1>2
  <2>2. g.key.selector = l.selector
    BY <2>1 DEF Group
  <2>3. l.to = c /\ ~Excluded(l.to, l.selector)
    BY DEF ShownOf, Shown
  <2> QED
    BY <2>2, <2>3 DEF Excluded
<1>6. ASSUME [address |-> c, selector |-> Nothing] \in analysis_exclusion
      PROVE  lines = {} /\ \A g \in new_high_savings_candidates(Month, 0) : g.key # c
  <2>1. \A s : Excluded(c, s)
    BY <1>6 DEF Excluded
  <2>2. ShownOf(c) = {}
    BY <2>1 DEF ShownOf, Shown
  <2>3. ASSUME NEW g \in new_high_savings_candidates(Month, 0) PROVE g.key # c
    <3> DEFINE I == {i \in Covered :
                       /\ rows[i].slug \in Contract /\ TimeFloor(rows[i].time)
                       /\ [address |-> rows[i].to, selector |-> Nothing] \notin analysis_exclusion}
    <3>1. g \in RowGroups(I, "to")
      BY DEF new_high_savings_candidates
    <3>2. PICK i \in I : g.key = rows[i]["to"]
      <4> HIDE DEF I
      <4> DEFINE like(i) == {j \in I : rows[j]["to"] = rows[i]["to"]}
                 Of(i) == [key |-> rows[i]["to"], tx |-> Cardinality(like(i)), wei |-> Wei(like(i))]
      <4>1. RowGroups(I, "to") = {Of(i) : i \in I}
        BY DEF RowGroups
      <4> HIDE DEF like
      <4> QED
        BY <3>1, <4>1
    <3> QED
      BY <1>6, <3>2
  <2> QED
    BY <1>1, <2>2, <2>3
<1>7. ASSUME \A s \in Function \cup {Nothing} : [address |-> c, selector |-> s] \notin analysis_exclusion
      PROVE  Figures(lines) = contract_totals(c, Month).saved
  <2>1. \A s : ~Excluded(c, s)
    <3> SUFFICES ASSUME NEW x \in analysis_exclusion, x.address = c PROVE FALSE
      BY DEF Excluded
    <3>1. x \in [address: Contract, selector: Function \cup {Nothing}]
      BY DashboardAssumption DEF ViewInv
    <3>2. x = [address |-> c, selector |-> x.selector] /\ x.selector \in Function \cup {Nothing}
      BY <3>1
    <3> QED
      BY <1>7, <3>2
  <2>2. ShownOf(c) = OfContract(c, Month)
    BY <2>1 DEF ShownOf, Shown, OfContract
  <2>3. contract_totals(c, Month).saved = Figures(OfContract(c, Month))
    BY DEF contract_totals
  <2> QED
    BY <1>4, <2>2, <2>3
<1> QED
  BY <1>4, <1>5, <1>6, <1>7

\* The boards hide what the blacklist names, with its functions, and nothing
\* else, whatever rows, views, floor and entries there are and however stale the
\* views.
THEOREM BlacklistHidesExactly == DashboardSpec => []BoardsHideExactly
<1>1. DashboardInit => RowsOK /\ ViewInv
  BY DashboardAssumption, EmptySeq, FS_EmptySet DEF DashboardInit, RowsOK, ViewInv, IsLines
<1>2. ASSUME ViewInv PROVE BoardsHideExactly
  <2> SUFFICES ASSUME NEW c \in Contract,
                      NEW lines, lines = {g \in overview("contracts").board : g.key.to = c},
                      NEW parts, parts = {g \in overview("functions").board : g.key.to = c}
               PROVE  /\ Figures(lines) = Figures(parts)
                      /\ \A g \in parts : [address |-> c, selector |-> g.key.selector] \notin analysis_exclusion
                      /\ [address |-> c, selector |-> Nothing] \in analysis_exclusion => lines = {}
                      /\ [address |-> c, selector |-> Nothing] \in analysis_exclusion =>
                           \A g \in new_high_savings_candidates(Month, 0) : g.key # c
                      /\ (\A s \in Function \cup {Nothing} :
                            [address |-> c, selector |-> s] \notin analysis_exclusion) =>
                           Figures(lines) = contract_totals(c, Month).saved
    BY DEF BoardsHideExactly
  <2> QED
    BY <1>2, BlacklistFacts
<1> QED
  BY <1>1, <1>2, RowsStep, ViewStep, PTL DEF DashboardSpec

-----------------------------------------------------------------------------
(* The pages against each other. *)

\* The rows of the days a window shows.
RowsIn(window) ==
  {i \in Covered : DayFloor(DayOf(rows[i].time)) /\ DayIn(DayOf(rows[i].time), window)}

\* The views are up to date.
Refreshed == RowsOK /\ project_daily = ProjectDaily /\ function_daily = FunctionDaily

LEMMA ProjectView ==
  ASSUME Refreshed, NEW window
  PROVE  /\ IsLines(InView(project_daily, window))
         /\ \A f \in Field : Sums(InView(project_daily, window), f) = SumOf(Adds(f), RowsIn(window))
<1> DEFINE D == InView(project_daily, window)
<1>1. D \in SUBSET ProjectDaily
  BY DEF InView, Refreshed
<1>2. RowsIn(window) = {i \in Covered : ProjectLine(i) \in D}
  <2>1. ASSUME NEW i \in Covered
        PROVE  ProjectLine(i) \in project_daily /\ ProjectLine(i).day = DayOf(rows[i].time)
    BY ProjectDailyIs DEF Refreshed, ProjectLine
  <2>2. \A i \in Covered : ProjectLine(i) \in D <=>
          DayFloor(DayOf(rows[i].time)) /\ DayIn(DayOf(rows[i].time), window)
    BY <2>1 DEF InView
  <2> QED
    BY <2>2 DEF RowsIn
<1> HIDE DEF D
<1>3. IsLines(D) /\ \A f \in Field : Sums(D, f) = SumOf(Adds(f), RowsIn(window))
  BY <1>1, <1>2, ProjectSums DEF Refreshed
<1> QED
  BY <1>3 DEF D

LEMMA SlugView ==
  ASSUME Refreshed, NEW window, NEW s
  PROVE  /\ IsLines(OfProject(s, window))
         /\ \A f \in Field : Sums(OfProject(s, window), f) =
                               SumOf(Adds(f), {i \in RowsIn(window) : rows[i].slug = s})
<1> DEFINE D == OfProject(s, window)
           I == {i \in RowsIn(window) : rows[i].slug = s}
<1>1. D \in SUBSET ProjectDaily
  BY DEF OfProject, InView, Refreshed
<1>2. I = {i \in Covered : ProjectLine(i) \in D}
  <2>1. ASSUME NEW i \in Covered
        PROVE  /\ ProjectLine(i) \in project_daily /\ ProjectLine(i).day = DayOf(rows[i].time)
               /\ ProjectLine(i).slug = rows[i].slug
    BY ProjectDailyIs DEF Refreshed, ProjectLine
  <2>2. \A i \in Covered : ProjectLine(i) \in D <=>
          DayFloor(DayOf(rows[i].time)) /\ DayIn(DayOf(rows[i].time), window) /\ rows[i].slug = s
    BY <2>1 DEF OfProject, InView
  <2> QED
    BY <2>2 DEF RowsIn
<1> HIDE DEF D, I
<1>3. IsLines(D) /\ \A f \in Field : Sums(D, f) = SumOf(Adds(f), I)
  BY <1>1, <1>2, ProjectSums DEF Refreshed
<1> QED
  BY <1>3 DEF D, I

LEMMA FunctionView ==
  ASSUME Refreshed, NEW window
  PROVE  /\ IsLines(InView(function_daily, window))
         /\ \A f \in Field : Sums(InView(function_daily, window), f) = SumOf(Adds(f), RowsIn(window))
<1> DEFINE D == InView(function_daily, window)
<1>1. D \in SUBSET FunctionDaily
  BY DEF InView, Refreshed
<1>2. RowsIn(window) = {i \in Covered : FunctionLine(i) \in D}
  <2>1. ASSUME NEW i \in Covered
        PROVE  FunctionLine(i) \in function_daily /\ FunctionLine(i).day = DayOf(rows[i].time)
    BY FunctionDailyIs DEF Refreshed, FunctionLine
  <2>2. \A i \in Covered : FunctionLine(i) \in D <=>
          DayFloor(DayOf(rows[i].time)) /\ DayIn(DayOf(rows[i].time), window)
    BY <2>1 DEF InView
  <2> QED
    BY <2>2 DEF RowsIn
<1> HIDE DEF D
<1>3. IsLines(D) /\ \A f \in Field : Sums(D, f) = SumOf(Adds(f), RowsIn(window))
  BY <1>1, <1>2, FunctionSums DEF Refreshed
<1> QED
  BY <1>3 DEF D

LEMMA ContractView ==
  ASSUME Refreshed, NEW window, NEW c
  PROVE  /\ IsLines(OfContract(c, window))
         /\ \A f \in Field : Sums(OfContract(c, window), f) =
                               SumOf(Adds(f), {i \in RowsIn(window) : rows[i].to = c})
<1> DEFINE D == OfContract(c, window)
           I == {i \in RowsIn(window) : rows[i].to = c}
<1>1. D \in SUBSET FunctionDaily
  BY DEF OfContract, InView, Refreshed
<1>2. I = {i \in Covered : FunctionLine(i) \in D}
  <2>1. ASSUME NEW i \in Covered
        PROVE  /\ FunctionLine(i) \in function_daily /\ FunctionLine(i).day = DayOf(rows[i].time)
               /\ FunctionLine(i).to = rows[i].to
    BY FunctionDailyIs DEF Refreshed, FunctionLine
  <2>2. \A i \in Covered : FunctionLine(i) \in D <=>
          DayFloor(DayOf(rows[i].time)) /\ DayIn(DayOf(rows[i].time), window) /\ rows[i].to = c
    BY <2>1 DEF OfContract, InView
  <2> QED
    BY <2>2 DEF RowsIn
<1> HIDE DEF D, I
<1>3. IsLines(D) /\ \A f \in Field : Sums(D, f) = SumOf(Adds(f), I)
  BY <1>1, <1>2, FunctionSums DEF Refreshed
<1> QED
  BY <1>3 DEF D, I

LEMMA SelectorView ==
  ASSUME Refreshed, NEW window, NEW c, NEW s
  PROVE  /\ IsLines(OfFunction(c, s, window))
         /\ \A f \in Field : Sums(OfFunction(c, s, window), f) =
              SumOf(Adds(f), {i \in RowsIn(window) : rows[i].to = c /\ rows[i].selector = s})
<1> DEFINE D == OfFunction(c, s, window)
           I == {i \in RowsIn(window) : rows[i].to = c /\ rows[i].selector = s}
<1>1. D \in SUBSET FunctionDaily
  BY DEF OfFunction, OfContract, InView, Refreshed
<1>2. I = {i \in Covered : FunctionLine(i) \in D}
  <2>1. ASSUME NEW i \in Covered
        PROVE  /\ FunctionLine(i) \in function_daily /\ FunctionLine(i).day = DayOf(rows[i].time)
               /\ FunctionLine(i).to = rows[i].to /\ FunctionLine(i).selector = rows[i].selector
    BY FunctionDailyIs DEF Refreshed, FunctionLine
  <2>2. \A i \in Covered : FunctionLine(i) \in D <=>
          /\ DayFloor(DayOf(rows[i].time)) /\ DayIn(DayOf(rows[i].time), window)
          /\ rows[i].to = c /\ rows[i].selector = s
    BY <2>1 DEF OfFunction, OfContract, InView
  <2> QED
    BY <2>2 DEF RowsIn
<1> HIDE DEF D, I
<1>3. IsLines(D) /\ \A f \in Field : Sums(D, f) = SumOf(Adds(f), I)
  BY <1>1, <1>2, FunctionSums DEF Refreshed
<1> QED
  BY <1>3 DEF D, I

\* Rows counted, or summed by a value k of theirs.
LEMMA RowCount ==
  ASSUME RowsOK, NEW I \in SUBSET Covered
  PROVE  SumOf(Adds("tx"), I) = Cardinality(I) /\ IsFiniteSet(I) /\ Cardinality(I) \in Nat
<1> DEFINE ones == [i \in I |-> 1]
<1>1. IsFiniteSet(I)
  BY CoveredRows, FS_Subset
<1>2. ones \in [I -> Nat] /\ \A i \in I : ones[i] = 1 /\ Adds("tx")[i] = ones[i]
  BY DEF Adds
<1> HIDE DEF ones
<1>3. SumOf(ones, I) = Cardinality(I) /\ SumOf(Adds("tx"), I) = SumOf(ones, I)
  BY <1>1, <1>2, SumOnes, SumSame
<1> QED
  BY <1>1, <1>3, FS_CardinalityType

\* v[x] is the sum over the rows of J that k sends to x.
SumsBy(v, f, k, J, S) ==
  k \in [J -> S] /\ DOMAIN v = S /\ \A x \in S : v[x] = SumOf(Adds(f), {i \in J : k[i] = x})

LEMMA RowFibres ==
  ASSUME RowsOK, NEW J \in SUBSET Covered, NEW S, IsFiniteSet(S), NEW f, NEW k, NEW v,
         v = [x \in S |-> v[x]], SumsBy(v, f, k, J, S)
  PROVE  SumFunction(v) = SumOf(Adds(f), J)
<1> DEFINE w == [i \in J |-> Adds(f)[i]]
           Of(x) == {i \in J : k[i] = x}
<1>1. IsFiniteSet(J)
  BY CoveredRows, FS_Subset
<1>2. w \in [J -> Nat] /\ \A i \in J : w[i] = Adds(f)[i]
  BY AddsType
<1> HIDE DEF w
<1>3. ASSUME NEW x \in S PROVE v[x] \in Nat /\ v[x] = SumOf(w, Of(x))
  <2>1. Of(x) \in SUBSET J /\ IsFiniteSet(Of(x)) /\ v[x] = SumOf(Adds(f), Of(x))
    BY <1>1, FS_Subset DEF SumsBy
  <2> HIDE DEF Of
  <2>2. \A i \in Of(x) : w[i] = Adds(f)[i]
    BY <1>2, <2>1
  <2>3. SumOf(w, Of(x)) = SumOf(Adds(f), Of(x))
    BY <2>1, <2>2, SumSame
  <2>4. SumOf(Adds(f), Of(x)) \in Nat
    BY <2>1, AddsType
  <2> QED
    BY <2>1, <2>3, <2>4
<1>4. v \in [S -> Nat] /\ DOMAIN v = S /\ k \in [J -> S]
  BY <1>3 DEF SumsBy
<1>5. \A x \in S : v[x] = SumOf(w, {i \in J : k[i] = x})
  BY <1>3
<1>6. SumOf(v, S) = SumOf(w, J)
  BY <1>1, <1>2, <1>4, <1>5, SumFibres
<1>7. SumOf(w, J) = SumOf(Adds(f), J)
  BY <1>1, <1>2, SumSame
<1>8. SumFunction(v) = SumOf(v, S)
  BY <1>4, SumFunctionIs
<1> QED
  BY <1>6, <1>7, <1>8

\* A family of figures, one for each value k of the rows of J, adds up to the
\* figures of lines that stand for J.
Covers(F, k, J, S) ==
  /\ k \in [J -> S] /\ DOMAIN F = S
  /\ \A x \in S, f \in Field : F[x][f] = SumOf(Adds(f), {i \in J : k[i] = x})

LEMMA TotalOf ==
  ASSUME RowsOK, NEW J \in SUBSET Covered, NEW S, IsFiniteSet(S), NEW k, NEW F, Covers(F, k, J, S),
         NEW L, IsLines(L), \A f \in Field : Sums(L, f) = SumOf(Adds(f), J)
  PROVE  Total(F) = Figures(L)
<1> DEFINE v(f) == [x \in S |-> F[x][f]]
<1>1. ASSUME NEW f \in Field PROVE SumFunction(v(f)) = SumOf(Adds(f), J)
  <2>1. SumsBy(v(f), f, k, J, S) /\ v(f) = [x \in S |-> v(f)[x]]
    BY DEF SumsBy, Covers
  <2> HIDE DEF v
  <2> QED
    BY <2>1, RowFibres
<1>2. Total(F) = [tx |-> SumFunction(v("tx")), wei |-> SumFunction(v("wei")), usd |-> SumFunction(v("usd"))]
  <2>1. DOMAIN F = S
    BY DEF Covers
  <2>2. Total(F) = [tx |-> SumFunction([x \in S |-> F[x].tx]), wei |-> SumFunction([x \in S |-> F[x].wei]),
                    usd |-> SumFunction([x \in S |-> F[x].usd])]
    BY <2>1 DEF Total
  <2>3. /\ [x \in S |-> F[x].tx] = v("tx") /\ [x \in S |-> F[x].wei] = v("wei")
        /\ [x \in S |-> F[x].usd] = v("usd")
    OBVIOUS
  <2> HIDE DEF v
  <2> QED
    BY <2>2, <2>3
<1> HIDE DEF v
<1>3. /\ SumFunction(v("tx")) = Sums(L, "tx") /\ SumFunction(v("wei")) = Sums(L, "wei")
      /\ SumFunction(v("usd")) = Sums(L, "usd")
  BY <1>1 DEF Field
<1> QED
  BY <1>2, <1>3, FiguresAre DEF IsLines

LEMMA FigureIs ==
  ASSUME NEW L, IsFiniteSet(L), NEW f \in Field
  PROVE  Figures(L)[f] = Sums(L, f)
BY FiguresAre DEF Field

\* A list of groups of rows counts each row once.
LEMMA RowGroupsCount ==
  ASSUME RowsOK, NEW I \in SUBSET Covered, NEW column
  PROVE  Txs(RowGroups(I, column)) = Cardinality(I)
<1> DEFINE like(i) == {j \in I : rows[j][column] = rows[i][column]}
           Of(i) == [key |-> rows[i][column], tx |-> Cardinality(like(i)), wei |-> Wei(like(i))]
           G == RowGroups(I, column)
           k == [i \in I |-> Of(i)]
           v == [g \in G |-> g.tx]
<1>1. G = {Of(i) : i \in I}
  BY DEF RowGroups
<1>2. ASSUME NEW i \in I, NEW j \in I PROVE Of(j) = Of(i) <=> j \in like(i)
  <2>1. ASSUME j \in like(i) PROVE like(j) = like(i) /\ rows[j][column] = rows[i][column]
    BY <2>1
  <2>2. ASSUME j \in like(i) PROVE Of(j) = Of(i)
    <3> HIDE DEF like
    <3> QED
      BY <2>1, <2>2
  <2>3. ASSUME Of(j) = Of(i) PROVE j \in like(i)
    <3>1. Of(j).key = Of(i).key
      BY <2>3
    <3>2. rows[j][column] = rows[i][column]
      <4> HIDE DEF like
      <4> QED
        BY <3>1
    <3> QED
      BY <3>2
  <2> QED
    BY <2>2, <2>3
<1>3. \A i \in I : like(i) \in SUBSET Covered /\ Of(i).tx = Cardinality(like(i)) /\ like(i) \in SUBSET I
  OBVIOUS
<1> HIDE DEF Of, like, G
<1>4. k \in [I -> G] /\ \A g \in G : \E i \in I : k[i] = g
  BY <1>1
<1>5. IsFiniteSet(G)
  <2> HIDE DEF k
  <2> QED
    BY <1>4, RowCount, FiniteImage
<1>6. ASSUME NEW g \in G PROVE v[g] = SumOf(Adds("tx"), {i \in I : k[i] = g})
  <2>1. PICK i \in I : g = Of(i)
    BY <1>1
  <2>2. {j \in I : k[j] = g} = like(i)
    BY <1>2, <1>3, <2>1
  <2>3. v[g] = Cardinality(like(i))
    BY <1>3, <2>1
  <2>4. SumOf(Adds("tx"), like(i)) = Cardinality(like(i))
    BY <1>3, RowCount
  <2> QED
    BY <2>2, <2>3, <2>4
<1>7. SumsBy(v, "tx", k, I, G) /\ v = [g \in G |-> v[g]]
  BY <1>4, <1>6 DEF SumsBy
<1>8. Txs(G) = SumFunction(v)
  BY DEF Txs
<1> HIDE DEF v, k
<1>9. SumFunction(v) = SumOf(Adds("tx"), I)
  BY <1>5, <1>7, RowFibres
<1> QED
  BY <1>8, <1>9, RowCount DEF G

LEMMA SlugsFinite == IsFiniteSet(Slugs)
<1> DEFINE k == [c \in Contract |-> ProjectOf[c]]
<1>1. k \in [Contract -> Project] /\ \A p \in Project : \E c \in Contract : k[c] = p
  BY DEF Project
<1> HIDE DEF k
<1>2. IsFiniteSet(Project)
  BY <1>1, DashboardAssumption, FiniteImage
<1> QED
  BY <1>2, DashboardAssumption, FS_Union DEF Slugs

\* What the overview reads.
LEMMA OverviewIs ==
  /\ overview("projects").totals[Lifetime].saved = Figures(InView(project_daily, Lifetime))
  /\ overview("projects").totals[Month].saved = Figures(InView(project_daily, Month))
  /\ overview("projects").board = GroupBy(InView(project_daily, Month), {"slug"})
  /\ overview("projects").daily = GroupBy(InView(project_daily, Month), {"day"})
<1> DEFINE page == overview("projects")
<1>1. /\ page.totals = [w \in {Lifetime, Month} |-> overview_totals(w)]
      /\ page.board = leaderboard_30d /\ page.daily = daily_overview(Month)
  BY DEF overview
<1>2. \A w : overview_totals(w).saved = Figures(InView(project_daily, w))
  BY DEF overview_totals
<1> HIDE DEF page
<1>3. page.totals[Lifetime] = overview_totals(Lifetime) /\ page.totals[Month] = overview_totals(Month)
  BY <1>1
<1> QED
  BY <1>1, <1>2, <1>3 DEF leaderboard_30d, daily_overview, page

\* And the pages of a project, a contract and a function.
LEMMA PagesAre ==
  ASSUME NEW s, NEW c, NEW a
  PROVE  /\ project(s, NoFilter).lifetime = project_totals(s, Lifetime)
         /\ project(s, NoFilter).month = project_totals(s, Month)
         /\ project(s, NoFilter).daily = daily_for_project(s, Quarter)
         /\ project(s, NoFilter).contracts = top_contracts_for_project(s)
         /\ project(s, NoFilter).selectors = top_selectors_for_project(s)
         /\ project(s, NoFilter).txs = recent_txs_for_project(s, NoFilter)
         /\ contract_page(c, NoFilter).lifetime.saved = Figures(OfContract(c, Lifetime))
         /\ contract_page(c, NoFilter).month.saved = Figures(OfContract(c, Month))
         /\ contract_page(c, NoFilter).daily = daily_for_contract(c, Quarter)
         /\ contract_page(c, NoFilter).functions = functions_for_contract(c)
         /\ contract_page(c, NoFilter).txs = recent_txs_for_contract(c, NoFilter)
         /\ function_page(c, a, NoFilter).month = function_totals(c, a, Month)
         /\ function_page(c, a, NoFilter).daily = daily_for_function(c, a, Quarter)
BY DEF project, contract_page, function_page, contract_totals

LEMMA RowsInCovered ==
  ASSUME NEW window PROVE RowsIn(window) \in SUBSET Covered
BY DEF RowsIn

\* The projects' totals add up.
LEMMA ProjectsAddUp ==
  ASSUME Refreshed, NEW window, NEW F, F = [s \in Slugs |-> project_totals(s, window)]
  PROVE  Total(F) = Figures(InView(project_daily, window))
<1> DEFINE J == RowsIn(window)
           k == [i \in J |-> rows[i].slug]
<1>1. RowsOK /\ J \in SUBSET Covered
  BY RowsInCovered DEF Refreshed
<1>2. k \in [J -> Slugs]
  BY <1>1, CoveredRows
<1>3. ASSUME NEW s \in Slugs, NEW f \in Field PROVE F[s][f] = SumOf(Adds(f), {i \in J : k[i] = s})
  <2>1. F[s] = Figures(OfProject(s, window))
    BY DEF project_totals
  <2>2. {i \in J : k[i] = s} = {i \in J : rows[i].slug = s}
    OBVIOUS
  <2>3. IsLines(OfProject(s, window)) /\ Sums(OfProject(s, window), f) = SumOf(Adds(f), {i \in J : rows[i].slug = s})
    BY SlugView
  <2> HIDE DEF J, k
  <2> QED
    BY <2>1, <2>2, <2>3, FigureIs DEF IsLines
<1>4. DOMAIN F = Slugs
  OBVIOUS
<1> HIDE DEF k
<1>5. Covers(F, k, J, Slugs)
  BY <1>2, <1>3, <1>4 DEF Covers
<1> DEFINE L == InView(project_daily, window)
<1>6. IsLines(L) /\ \A f \in Field : Sums(L, f) = SumOf(Adds(f), J)
  BY ProjectView
<1> HIDE DEF J, L
<1>7. Total(F) = Figures(L)
  BY <1>1, <1>5, <1>6, SlugsFinite, TotalOf
<1> QED
  BY <1>7 DEF L

\* The contracts' do.
LEMMA ContractsAddUp ==
  ASSUME Refreshed, NEW window, NEW F, F = [c \in Contract |-> Figures(OfContract(c, window))]
  PROVE  Total(F) = Figures(InView(project_daily, window))
<1> DEFINE J == RowsIn(window)
           k == [i \in J |-> rows[i].to]
<1>1. RowsOK /\ J \in SUBSET Covered
  BY RowsInCovered DEF Refreshed
<1>2. k \in [J -> Contract]
  BY <1>1, CoveredRows
<1>3. ASSUME NEW c \in Contract, NEW f \in Field PROVE F[c][f] = SumOf(Adds(f), {i \in J : k[i] = c})
  <2>1. {i \in J : k[i] = c} = {i \in J : rows[i].to = c}
    OBVIOUS
  <2>2. IsLines(OfContract(c, window)) /\ Sums(OfContract(c, window), f) = SumOf(Adds(f), {i \in J : rows[i].to = c})
    BY ContractView
  <2> HIDE DEF J, k
  <2> QED
    BY <2>1, <2>2, FigureIs DEF IsLines
<1>4. DOMAIN F = Contract
  OBVIOUS
<1> HIDE DEF k
<1>5. Covers(F, k, J, Contract)
  BY <1>2, <1>3, <1>4 DEF Covers
<1> DEFINE L == InView(project_daily, window)
<1>6. IsLines(L) /\ \A f \in Field : Sums(L, f) = SumOf(Adds(f), J)
  BY ProjectView
<1> HIDE DEF J, L
<1>7. Total(F) = Figures(L)
  BY <1>1, <1>5, <1>6, DashboardAssumption, TotalOf
<1> QED
  BY <1>7 DEF L

\* And a contract's functions'.
LEMMA FunctionsAddUp ==
  ASSUME Refreshed, NEW window, NEW c, NEW F, F = [s \in Function |-> function_totals(c, s, window)]
  PROVE  Total(F) = Figures(OfContract(c, window))
<1> DEFINE J == {i \in RowsIn(window) : rows[i].to = c}
           k == [i \in J |-> rows[i].selector]
<1>1. RowsOK /\ J \in SUBSET Covered
  BY RowsInCovered DEF Refreshed
<1>2. k \in [J -> Function]
  BY <1>1, CoveredRows
<1>3. ASSUME NEW s \in Function, NEW f \in Field PROVE F[s][f] = SumOf(Adds(f), {i \in J : k[i] = s})
  <2>1. F[s] = Figures(OfFunction(c, s, window))
    BY DEF function_totals
  <2> DEFINE I == {i \in RowsIn(window) : rows[i].to = c /\ rows[i].selector = s}
  <2>2. {i \in J : k[i] = s} = I
    OBVIOUS
  <2>3. IsLines(OfFunction(c, s, window)) /\ Sums(OfFunction(c, s, window), f) = SumOf(Adds(f), I)
    BY SelectorView
  <2> HIDE DEF J, k, I
  <2> QED
    BY <2>1, <2>2, <2>3, FigureIs DEF IsLines
<1>4. DOMAIN F = Function
  OBVIOUS
<1> HIDE DEF k
<1>5. Covers(F, k, J, Function)
  BY <1>2, <1>3, <1>4 DEF Covers
<1> DEFINE L == OfContract(c, window)
<1>6. IsLines(L) /\ \A f \in Field : Sums(L, f) = SumOf(Adds(f), J)
  BY ContractView
<1> HIDE DEF J, L
<1>7. Total(F) = Figures(L)
  BY <1>1, <1>5, <1>6, DashboardAssumption, TotalOf
<1> QED
  BY <1>7 DEF L

LEMMA GroupFigures ==
  ASSUME NEW L, IsLines(L), NEW columns
  PROVE  Figures(GroupBy(L, columns)) = Figures(L)
<1> DEFINE G == GroupBy(L, columns)
<1>1. IsLines(G) /\ \A f \in Field : Sums(G, f) = Sums(L, f)
  BY GroupSums
<1> HIDE DEF G
<1>2. Figures(G) = Figures(L)
  BY <1>1, FiguresEqual DEF IsLines
<1> QED
  BY <1>2 DEF G

LEMMA RefreshedAddUp ==
  ASSUME Refreshed
  PROVE  PagesAddUp
<1> DEFINE page == overview("projects")
           Lines(w) == InView(project_daily, w)
<1>1. /\ page.totals[Lifetime].saved = Figures(Lines(Lifetime))
      /\ page.totals[Month].saved = Figures(Lines(Month))
      /\ page.board = GroupBy(Lines(Month), {"slug"}) /\ page.daily = GroupBy(Lines(Month), {"day"})
  BY OverviewIs
<1> HIDE DEF page
<1>2. /\ [s \in Slugs |-> project(s, NoFilter).lifetime] = [s \in Slugs |-> project_totals(s, Lifetime)]
      /\ [s \in Slugs |-> project(s, NoFilter).month] = [s \in Slugs |-> project_totals(s, Month)]
  BY PagesAre
<1>3. /\ Total([s \in Slugs |-> project_totals(s, Lifetime)]) = Figures(Lines(Lifetime))
      /\ Total([s \in Slugs |-> project_totals(s, Month)]) = Figures(Lines(Month))
  BY ProjectsAddUp
<1>4. /\ [c \in Contract |-> contract_page(c, NoFilter).lifetime.saved] =
           [c \in Contract |-> Figures(OfContract(c, Lifetime))]
      /\ [c \in Contract |-> contract_page(c, NoFilter).month.saved] =
           [c \in Contract |-> Figures(OfContract(c, Month))]
  BY PagesAre
<1>5. /\ Total([c \in Contract |-> Figures(OfContract(c, Lifetime))]) = Figures(Lines(Lifetime))
      /\ Total([c \in Contract |-> Figures(OfContract(c, Month))]) = Figures(Lines(Month))
  BY ContractsAddUp
<1>6. IsLines(Lines(Month))
  BY ProjectView
<1> HIDE DEF Lines
<1>7. Figures(page.board) = Figures(Lines(Month)) /\ Figures(page.daily) = Figures(Lines(Month))
  BY <1>1, <1>6, GroupFigures
<1>8. ASSUME NEW c \in Contract
      PROVE  /\ Total([s \in Function |-> function_page(c, s, NoFilter).month]) =
                  contract_page(c, NoFilter).month.saved
             /\ Figures(contract_page(c, NoFilter).functions) = contract_page(c, NoFilter).month.saved
  <2>1. [s \in Function |-> function_page(c, s, NoFilter).month] = [s \in Function |-> function_totals(c, s, Month)]
    BY PagesAre
  <2>2. contract_page(c, NoFilter).month.saved = Figures(OfContract(c, Month))
    BY PagesAre
  <2>3. Total([s \in Function |-> function_totals(c, s, Month)]) = Figures(OfContract(c, Month))
    BY FunctionsAddUp
  <2>4. contract_page(c, NoFilter).functions = GroupBy(OfContract(c, Month), {"selector"})
    BY PagesAre DEF functions_for_contract
  <2>5. IsLines(OfContract(c, Month))
    BY ContractView
  <2>6. Figures(GroupBy(OfContract(c, Month), {"selector"})) = Figures(OfContract(c, Month))
    BY <2>5, GroupFigures
  <2> QED
    BY <2>1, <2>2, <2>3, <2>4, <2>6
<1> QED
  BY <1>1, <1>2, <1>3, <1>4, <1>5, <1>7, <1>8 DEF PagesAddUp, page

\* The clock and the floor.
ClockInv == now \in Nat /\ data_floor \in Nat \cup {Nothing}

\* A row is above the floor when its day is, and of a recent time only on a
\* recent day.
LEMMA DaysOfTimes ==
  ASSUME ClockInv, NEW t \in Nat
  PROVE  /\ TimeFloor(t) <=> DayFloor(DayOf(t))
         /\ TimeIn(t, Month) => DayIn(DayOf(t), Month)
         /\ DayIn(DayOf(t), Month) => DayIn(DayOf(t), Quarter)
         /\ DayIn(DayOf(t), Lifetime)
<1> DEFINE d == DayOf(t)
<1>1. d \in Nat /\ 2 * d <= t /\ t <= 2 * d + 1
  BY DEF DayOf
<1>2. TimeFloor(t) <=> DayFloor(d)
  <2>1. CASE data_floor = Nothing
    BY <2>1 DEF TimeFloor, DayFloor
  <2>2. CASE data_floor \in Nat
    <3>1. t >= 2 * data_floor <=> d >= data_floor
      <4> HIDE DEF d
      <4> QED
        BY <1>1, <2>2
    <3> QED
      BY <3>1 DEF TimeFloor, DayFloor
  <2> QED
    BY <2>1, <2>2 DEF ClockInv
<1>3. Month \in Nat /\ Quarter \in Nat /\ Month <= Quarter /\ Nothing # Month /\ Nothing # Quarter /\ now \in Nat
  BY DashboardAssumption DEF ClockInv
<1>4. ASSUME NEW a \in Int, NEW b \in Int, a >= b PROVE DayOf(a) >= DayOf(b) /\ DayOf(a) \in Int
  BY <1>4 DEF DayOf
<1> DEFINE m == now - 2 * Month
           q == now - 2 * Quarter
<1>5. m \in Int /\ q \in Int /\ m >= q
  BY <1>3
<1>6. TimeIn(t, Month) => t >= m
  BY DEF TimeIn
<1>7. DayIn(d, Month) <=> d >= DayOf(m)
  BY <1>3 DEF DayIn, Lifetime
<1>8. DayIn(d, Quarter) <=> d >= DayOf(q)
  BY <1>3 DEF DayIn, Lifetime
<1>9. DayIn(d, Lifetime)
  BY DEF DayIn, Lifetime
<1> HIDE DEF m, q
<1>10. t >= m => d >= DayOf(m)
  BY <1>4, <1>5
<1>11. d >= DayOf(m) => d >= DayOf(q)
  <2>1. DayOf(m) >= DayOf(q) /\ DayOf(m) \in Int /\ DayOf(q) \in Int
    BY <1>4, <1>5 DEF DayOf
  <2> HIDE DEF d
  <2> QED
    BY <1>1, <2>1
<1> QED
  BY <1>2, <1>6, <1>7, <1>8, <1>9, <1>10, <1>11 DEF d

LEMMA WindowsNest ==
  ASSUME RowsOK, ClockInv
  PROVE  /\ RecentRows \in SUBSET RowsIn(Month) /\ RowsIn(Month) \in SUBSET RowsIn(Quarter)
         /\ RowsIn(Quarter) \in SUBSET RowsIn(Lifetime)
         /\ RowsIn(Lifetime) = {i \in Covered : TimeFloor(rows[i].time)}
<1>1. \A i \in Covered : rows[i].time \in Nat
  BY CoveredRows
<1>2. ASSUME NEW i \in Covered
      PROVE  LET t == rows[i].time IN
             /\ TimeFloor(t) <=> DayFloor(DayOf(t))
             /\ TimeIn(t, Month) => DayIn(DayOf(t), Month)
             /\ DayIn(DayOf(t), Month) => DayIn(DayOf(t), Quarter)
             /\ DayIn(DayOf(t), Lifetime)
  BY <1>1, DaysOfTimes
<1> QED
  BY <1>2 DEF RecentRows, RowsIn

\* The lists of transactions, whole.
LEMMA TxsAre ==
  ASSUME RowsOK, ClockInv, NEW s, NEW c
  PROVE  /\ recent_txs_for_project(s, NoFilter) = {i \in RowsIn(Lifetime) : rows[i].slug = s}
         /\ recent_txs_for_contract(c, NoFilter) = {i \in RowsIn(Lifetime) : rows[i].to = c}
<1>1. RowsIn(Lifetime) = {i \in Covered : TimeFloor(rows[i].time)}
  BY WindowsNest
<1>2. \A i : where_clause(NoFilter, i)
  BY DEF where_clause, NoFilter
<1>3. Covered \in SUBSET DOMAIN rows
  BY DEF Covered
<1> QED
  BY <1>1, <1>2, <1>3 DEF recent_txs_for_project, recent_txs_for_contract, TxRows

LEMMA CountsNest ==
  ASSUME RowsOK, NEW I \in SUBSET Covered, NEW J \in SUBSET I
  PROVE  Cardinality(J) <= Cardinality(I)
<1>1. IsFiniteSet(I)
  BY RowCount
<1> QED
  BY <1>1, FS_Subset

\* The lists on a project's page.
LEMMA ProjectLists ==
  ASSUME Refreshed, ClockInv, NEW s
  PROVE  LET Of == project(s, NoFilter) IN
         /\ Cardinality(Of.txs) = Of.lifetime.tx
         /\ Txs(Of.contracts) = Txs(Of.selectors) /\ Txs(Of.contracts) <= Of.month.tx
         /\ Txs(Of.daily) \in Of.month.tx..Of.lifetime.tx
<1> DEFINE I(w) == {i \in RowsIn(w) : rows[i].slug = s}
           R == {i \in RecentRows : rows[i].slug = s}
           Of == project(s, NoFilter)
<1>0. RowsOK
  BY DEF Refreshed
<1>1. /\ \A w : I(w) \in SUBSET Covered
      /\ I(Month) \in SUBSET I(Quarter) /\ I(Quarter) \in SUBSET I(Lifetime)
      /\ R \in SUBSET I(Month) /\ R \in SUBSET Covered
  BY <1>0, WindowsNest, RowsInCovered
<1>2. ASSUME NEW w
      PROVE  IsFiniteSet(OfProject(s, w)) /\ Sums(OfProject(s, w), "tx") = Cardinality(I(w))
  <2>1. IsLines(OfProject(s, w)) /\ Sums(OfProject(s, w), "tx") = SumOf(Adds("tx"), I(w))
    BY SlugView DEF Field
  <2> HIDE DEF I
  <2> QED
    BY <1>0, <1>1, <2>1, RowCount DEF IsLines
<1>3. Of.txs = I(Lifetime)
  BY <1>0, PagesAre, TxsAre
<1>4. /\ Txs(Of.contracts) = Cardinality(R) /\ Txs(Of.selectors) = Cardinality(R)
  <2>1. Of.contracts = RowGroups(R, "to") /\ Of.selectors = RowGroups(R, "selector")
    BY PagesAre DEF top_contracts_for_project, top_selectors_for_project
  <2> HIDE DEF Of, R
  <2> QED
    BY <1>0, <1>1, <2>1, RowGroupsCount
<1>5. Of.lifetime = Figures(OfProject(s, Lifetime)) /\ Of.month = Figures(OfProject(s, Month))
      /\ Of.daily = OfProject(s, Quarter)
  BY PagesAre DEF project_totals, daily_for_project
<1> HIDE DEF I, R, Of
<1>6. \A w : Figures(OfProject(s, w)).tx = Cardinality(I(w)) /\ Txs(OfProject(s, w)) = Cardinality(I(w))
  BY <1>2, FiguresAre
<1>7. /\ Of.lifetime.tx = Cardinality(I(Lifetime)) /\ Of.month.tx = Cardinality(I(Month))
      /\ Txs(Of.daily) = Cardinality(I(Quarter))
  BY <1>5, <1>6
<1>8. /\ Cardinality(R) <= Cardinality(I(Month)) /\ Cardinality(I(Month)) <= Cardinality(I(Quarter))
      /\ Cardinality(I(Quarter)) <= Cardinality(I(Lifetime))
  BY <1>0, <1>1, CountsNest
<1>9. \A w : Cardinality(I(w)) \in Nat
  BY <1>0, <1>1, RowCount
<1>10. Txs(Of.daily) \in Of.month.tx..Of.lifetime.tx
  BY <1>7, <1>8, <1>9
<1>11. Txs(Of.contracts) = Txs(Of.selectors) /\ Txs(Of.contracts) <= Of.month.tx
  BY <1>4, <1>7, <1>8
<1>12. Cardinality(Of.txs) = Of.lifetime.tx
  BY <1>3, <1>7
<1> QED
  BY <1>10, <1>11, <1>12 DEF Of

\* The rows a contract's lines stand for, counted.
LEMMA ContractCount ==
  ASSUME Refreshed, NEW c, NEW w
  PROVE  /\ IsLines(OfContract(c, w))
         /\ Sums(OfContract(c, w), "tx") = Cardinality({i \in RowsIn(w) : rows[i].to = c})
         /\ Figures(OfContract(c, w)).tx = Cardinality({i \in RowsIn(w) : rows[i].to = c})
<1> DEFINE I == {i \in RowsIn(w) : rows[i].to = c}
<1>1. I \in SUBSET Covered /\ RowsOK
  BY RowsInCovered DEF Refreshed
<1>2. IsLines(OfContract(c, w)) /\ Sums(OfContract(c, w), "tx") = SumOf(Adds("tx"), I)
  BY ContractView DEF Field
<1> HIDE DEF I
<1>3. Sums(OfContract(c, w), "tx") = Cardinality(I)
  BY <1>1, <1>2, RowCount
<1>4. Figures(OfContract(c, w)).tx = Cardinality(I)
  BY <1>2, <1>3, FiguresAre DEF IsLines
<1> QED
  BY <1>2, <1>3, <1>4 DEF I

\* The lists on a contract's page, and of unknown contracts.
LEMMA ContractLists ==
  ASSUME Refreshed, ClockInv, NEW c
  PROVE  LET At == contract_page(c, NoFilter) IN
         /\ Txs(At.daily) = SumFunction([s \in Function |-> Txs(function_page(c, s, NoFilter).daily)])
         /\ Cardinality(At.txs) = At.lifetime.saved.tx
         /\ \A g \in unknowns("contracts") : g.key = c => g.tx <= At.month.saved.tx
<1> DEFINE I(w) == {i \in RowsIn(w) : rows[i].to = c}
           At == contract_page(c, NoFilter)
<1>0. RowsOK
  BY DEF Refreshed
<1>1. \A w : I(w) \in SUBSET Covered
  BY RowsInCovered
<1>2. ASSUME NEW w
      PROVE  /\ IsLines(OfContract(c, w)) /\ Sums(OfContract(c, w), "tx") = Cardinality(I(w))
             /\ Figures(OfContract(c, w)).tx = Cardinality(I(w))
  BY ContractCount
<1>3. Cardinality(At.txs) = At.lifetime.saved.tx
  <2>1. At.txs = I(Lifetime) /\ At.lifetime.saved = Figures(OfContract(c, Lifetime))
    BY <1>0, PagesAre, TxsAre
  <2> HIDE DEF I, At
  <2> QED
    BY <1>2, <2>1
<1>4. ASSUME NEW g \in unknowns("contracts"), g.key = c PROVE g.tx <= At.month.saved.tx
  <2> DEFINE R == {i \in RecentRows : rows[i].slug \in Contract}
             like(i) == {j \in R : rows[j]["to"] = rows[i]["to"]}
             G(i) == [key |-> rows[i]["to"], tx |-> Cardinality(like(i)), wei |-> Wei(like(i))]
  <2>1. unknowns("contracts") = RowGroups(R, "to")
    BY DEF unknowns, top_unknowns
  <2>2. RowGroups(R, "to") = {G(i) : i \in R}
    BY DEF RowGroups
  <2>3. PICK i \in R : g = G(i)
    BY <1>4, <2>1, <2>2
  <2>4. g.tx = Cardinality(like(i)) /\ g.key = rows[i].to
    <3> HIDE DEF like
    <3> QED
      BY <2>3
  <2>5. like(i) \in SUBSET I(Month)
    BY <1>0, <1>4, <2>4, WindowsNest
  <2>6. At.month.saved.tx = Cardinality(I(Month))
    <3>1. At.month.saved = Figures(OfContract(c, Month))
      BY PagesAre
    <3> HIDE DEF At, I
    <3> QED
      BY <1>2, <3>1
  <2> HIDE DEF I, like, At
  <2>7. Cardinality(like(i)) <= Cardinality(I(Month))
    BY <1>0, <1>1, <2>5, CountsNest
  <2> QED
    BY <2>4, <2>6, <2>7
<1>5. Txs(At.daily) = SumFunction([s \in Function |-> Txs(function_page(c, s, NoFilter).daily)])
  <2> DEFINE J == I(Quarter)
             v == [s \in Function |-> Txs(function_page(c, s, NoFilter).daily)]
             k == [i \in J |-> rows[i].selector]
             L == OfContract(c, Quarter)
             G == GroupBy(L, {"day"})
  <2>1. At.daily = G
    BY PagesAre DEF daily_for_contract
  <2>2. IsLines(G) /\ Sums(G, "tx") = Sums(L, "tx")
    <3>1. IsLines(L)
      BY <1>2
    <3> HIDE DEF L
    <3> QED
      BY <3>1, GroupSums DEF Field
  <2>3. Txs(At.daily) = Cardinality(J)
    <3>1. Txs(G) = Sums(G, "tx")
      <4> HIDE DEF G
      <4> QED
        BY <2>2, FiguresAre DEF IsLines
    <3>2. Sums(L, "tx") = Cardinality(J)
      BY <1>2
    <3> HIDE DEF G, L, J, At
    <3> QED
      BY <2>1, <2>2, <3>1, <3>2
  <2>4. J \in SUBSET Covered
    BY <1>1
  <2>5. k \in [J -> Function]
    BY <1>0, <2>4, CoveredRows
  <2>6. ASSUME NEW s \in Function PROVE v[s] = SumOf(Adds("tx"), {i \in J : k[i] = s})
    <3> DEFINE F == OfFunction(c, s, Quarter)
               K == {i \in RowsIn(Quarter) : rows[i].to = c /\ rows[i].selector = s}
    <3>1. {i \in J : k[i] = s} = K
      OBVIOUS
    <3>2. IsLines(F) /\ Sums(F, "tx") = SumOf(Adds("tx"), K)
      BY SelectorView DEF Field
    <3>3. function_page(c, s, NoFilter).daily = F
      BY PagesAre DEF daily_for_function
    <3>4. v[s] = Txs(F)
      BY <3>3
    <3> HIDE DEF F, K, v, k, J
    <3>5. Txs(F) = Sums(F, "tx")
      BY <3>2, FiguresAre DEF IsLines
    <3> QED
      BY <3>1, <3>2, <3>4, <3>5
  <2>7. DOMAIN v = Function /\ v = [s \in Function |-> v[s]]
    OBVIOUS
  <2> HIDE DEF J, v, k
  <2>8. SumsBy(v, "tx", k, J, Function)
    BY <2>5, <2>6, <2>7 DEF SumsBy
  <2>9. SumFunction(v) = SumOf(Adds("tx"), J)
    BY <1>0, <2>4, <2>7, <2>8, DashboardAssumption, RowFibres
  <2>10. SumFunction(v) = Cardinality(J)
    BY <1>0, <2>4, <2>9, RowCount
  <2> QED
    BY <2>3, <2>10 DEF v
<1> QED
  BY <1>3, <1>4, <1>5 DEF At

\* The list of selectors nobody has named.
LEMMA SelectorList ==
  ASSUME Refreshed, NEW g \in unknowns("selectors")
  PROVE  g.example \subseteq Contract /\ g.tx <= overview("projects").totals[Month].saved.tx
<1> DEFINE V == InView(function_daily, Month)
           L == {l \in V : l.selector \notin Known}
           Of(s) == {l \in L : l.selector = s}
           Largest(s) == {l \in Of(s) : \A m \in Of(s) : l.wei >= m.wei}
           Example(s) == {l.to : l \in Largest(s)}
           Line(h) == [key |-> h.key.selector, tx |-> h.tx, wei |-> h.wei, usd |-> h.usd,
                       example |-> Example(h.key.selector)]
           all == GroupBy(L, {"selector"})
<1>1. unknowns("selectors") = {Line(h) : h \in all}
  BY DEF unknowns, top_unresolved_selectors
<1>2. IsLines(V) /\ Sums(V, "tx") = SumOf(Adds("tx"), RowsIn(Month))
  BY FunctionView DEF Field
<1>3. L \in SUBSET V
  OBVIOUS
<1>4. \A l \in V : l.to \in Contract
  <2>1. \A l \in V : l \in FunctionDaily
    BY DEF InView, Refreshed
  <2>2. ASSUME NEW l \in FunctionDaily PROVE l.to \in Contract
    <3>1. PICK i \in Covered : l = FunctionLine(i)
      BY FunctionDailyIs DEF Refreshed
    <3> QED
      BY <3>1, CoveredRows DEF FunctionLine, Refreshed
  <2> QED
    BY <2>1, <2>2
<1>5. \A s : Example(s) \subseteq Contract
  BY <1>3, <1>4
<1> HIDE DEF L, Example, V
<1>6. IsLines(L)
  BY <1>2, <1>3, FS_Subset DEF IsLines
<1>7. all = {Group(L, {"selector"}, l) : l \in L}
  BY <1>6, GroupsAre
<1> HIDE DEF all
<1>8. PICK h \in all : g = Line(h)
  BY <1>1
<1>9. PICK l \in L : h = Group(L, {"selector"}, l)
  BY <1>7
<1> DEFINE A == Alike(L, {"selector"}, l)
<1>10. A \in SUBSET V
  BY <1>3 DEF Alike
<1>11. g.tx = Sums(A, "tx") /\ g.example = Example(h.key.selector)
  <2>1. h.tx = Sums(A, "tx")
    BY <1>9 DEF Group
  <2> QED
    BY <1>8, <2>1
<1> HIDE DEF A
<1>12. Sums(A, "tx") <= Sums(V, "tx")
  <2>1. Share(V, "tx") \in [V -> Nat]
    BY <1>2, SharesOK DEF Field
  <2>2. SumOf(Share(V, "tx"), A) <= SumOf(Share(V, "tx"), V)
    BY <1>2, <1>10, <2>1, SumSubset DEF IsLines
  <2>3. SumOf(Share(V, "tx"), A) = Sums(A, "tx")
    BY <1>2, <1>10, SomeSums
  <2> QED
    BY <2>2, <2>3 DEF Sums
<1>13. overview("projects").totals[Month].saved.tx = Sums(V, "tx")
  <2> DEFINE P == InView(project_daily, Month)
  <2>1. overview("projects").totals[Month].saved = Figures(P)
    BY OverviewIs
  <2>2. IsLines(P) /\ Sums(P, "tx") = SumOf(Adds("tx"), RowsIn(Month))
    BY ProjectView DEF Field
  <2> HIDE DEF P
  <2>3. Figures(P).tx = Sums(P, "tx")
    BY <2>2, FiguresAre DEF IsLines
  <2> QED
    BY <1>2, <2>1, <2>2, <2>3
<1> QED
  BY <1>5, <1>11, <1>12, <1>13

LEMMA ClockStep == ClockInv /\ [DashboardNext]_dashVars => ClockInv'
<1> SUFFICES ASSUME ClockInv, [DashboardNext]_dashVars PROVE ClockInv'
  OBVIOUS
<1>1. CASE UNCHANGED <<now, data_floor>>
  BY <1>1 DEF ClockInv
<1>2. CASE HalfDay
  BY <1>2 DEF HalfDay, settings, ClockInv
<1>3. ASSUME NEW d \in Floors, FloorMoves(d) PROVE ClockInv'
  BY <1>3, DashboardAssumption DEF FloorMoves, ClockInv
<1>4. UNCHANGED <<now, data_floor>> \/ HalfDay \/ \E d \in Floors : FloorMoves(d)
  BY DEF DashboardNext, dashVars, RefreshProjectDaily, RefreshFunctionDaily, StoreRow, Relabel,
     blacklist_add, blacklist_remove, orgs_create, orgs_assign, settings
<1> QED
  BY <1>1, <1>2, <1>3, <1>4

\* Over views refreshed from the same rows, every page adds up to the overview
\* and no list claims more than the totals, for any rows, labels, prices, floor
\* and windows.
THEOREM PagesAgree == DashboardSpec => []ViewsAgree
<1>1. DashboardInit => RowsOK /\ ClockInv
  BY DashboardAssumption, EmptySeq DEF DashboardInit, RowsOK, ClockInv
<1>2. ASSUME RowsOK, ClockInv PROVE ViewsAgree
  <2> SUFFICES ASSUME project_daily = ProjectDaily, function_daily = FunctionDaily
               PROVE  PagesAddUp /\ ListsFitTotals
    BY DEF ViewsAgree
  <2>1. Refreshed
    BY <1>2 DEF Refreshed
  <2>2. PagesAddUp
    BY <2>1, RefreshedAddUp
  <2>3. ListsFitTotals
    BY <1>2, <2>1, ProjectLists, ContractLists, SelectorList DEF ListsFitTotals
  <2> QED
    BY <2>2, <2>3
<1> QED
  BY <1>1, <1>2, RowsStep, ClockStep, PTL DEF DashboardSpec
=============================================================================
