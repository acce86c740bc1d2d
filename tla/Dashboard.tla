------------------------------ MODULE Dashboard ------------------------------
(***************************************************************************)
(* The BD dashboard: the two materialized views over analysis, refreshed   *)
(* by separate statements, and the queries that the pages are made of.     *)
(* A query is an operator on the current tables; a page that makes several *)
(* of them reads each at its own moment.                                   *)
(*                                                                         *)
(* Time runs in half-days, so that a window over a timestamp and one over  *)
(* its day differ as they do in SQL.  A row saves wei = its gas saved; a   *)
(* price turns a day's wei into USD.  Averages, medians, names, the order  *)
(* of a list and the LIMIT that cuts it at 10, 20, 25 or 50 are left out,  *)
(* except on the pages of transactions.                                    *)
(***************************************************************************)
EXTENDS Integers, Sequences, FiniteSetsExt, Functions

CONSTANTS
  Contract,      \* contract addresses; a contract is also its own unknown: slug
  Function,      \* function selectors
  ProjectOf,     \* [Contract -> project slug]: the label a contract gets
  Org,           \* organizations
  Nothing,       \* NULL, None
  Fresh,         \* inputs: the rows workers may store
  UsdPerEth,     \* [days -> price]: eth_prices; a day without a price is absent
  Known,         \* selectors 4byte has a name for
  Floors,        \* inputs: data floors (days, or Nothing)
  Hideable,      \* inputs: blacklist entries [address, selector or Nothing]
  Filters,       \* inputs: filters of a transaction list
  Month, Quarter, \* the windows of 30 and 90 days, in days
  PageSize,      \* TX_PAGE_SIZE
  MaxRows,       \* bound: rows of analysis
  MaxNow         \* bound: half-days

Project == {ProjectOf[c] : c \in Contract}

ASSUME DashboardAssumption ==
  /\ Project \cap Contract = {} /\ Nothing \notin Project \cup Contract \cup Function \cup Org
  /\ Fresh \subseteq [to: Contract, selector: Function, time: Nat, saved: Int, skipped: BOOLEAN]
  /\ IsFiniteSet(Contract) /\ IsFiniteSet(Function)
  /\ \A d \in DOMAIN UsdPerEth : UsdPerEth[d] \in Nat
  /\ Floors \subseteq Nat \cup {Nothing}
  /\ Hideable \subseteq [address: Contract, selector: Function \cup {Nothing}]
  /\ Month \in Nat /\ Quarter \in Nat /\ Month <= Quarter /\ Nothing \notin {Month, Quarter}
  /\ PageSize \in Nat \ {0} /\ MaxRows \in Nat

VARIABLES
  rows,               \* analysis: Seq([to, selector, slug, time, saved, skipped])
  project_daily,      \* the views, as sets of rows
  function_daily,
  analysis_exclusion, \* set of [address, selector or Nothing]
  organizations,      \* the brands created
  org_of,             \* projects.org_slug: [Project -> Org or Nothing]
  data_floor,         \* the floor's day, or Nothing
  now                 \* half-days since the first

dashVars == <<rows, project_daily, function_daily, analysis_exclusion,
              organizations, org_of, data_floor, now>>

-----------------------------------------------------------------------------
(* The views. *)

DayOf(t) == t \div 2

\* gas_saved > 0 AND cardinality(skipped_opcodes) = 0
Covered == {i \in DOMAIN rows : rows[i].saved > 0 /\ ~rows[i].skipped}

Wei(I) == SumFunction([i \in I |-> rows[i].saved])
UsdOf(wei, day) == IF day \in DOMAIN UsdPerEth THEN wei * UsdPerEth[day] ELSE 0

ProjectDaily ==
  {LET day == DayOf(rows[i].time)
       I   == {j \in Covered : rows[j].slug = rows[i].slug /\ DayOf(rows[j].time) = day}
   IN [slug |-> rows[i].slug, day |-> day,
       tx |-> Cardinality(I), wei |-> Wei(I), usd |-> UsdOf(Wei(I), day)]
   : i \in Covered}

FunctionDaily ==
  {LET day == DayOf(rows[i].time)
       I   == {j \in Covered : /\ rows[j].to = rows[i].to /\ rows[j].selector = rows[i].selector
                               /\ rows[j].slug = rows[i].slug /\ DayOf(rows[j].time) = day}
   IN [to |-> rows[i].to, selector |-> rows[i].selector, slug |-> rows[i].slug, day |-> day,
       tx |-> Cardinality(I), wei |-> Wei(I), usd |-> UsdOf(Wei(I), day)]
   : i \in Covered}

-----------------------------------------------------------------------------
(* The pieces of a query. *)

\* Window::Lifetime has no interval.
Lifetime == Nothing

\* floor("day"), floor("block_timestamp")
DayFloor(d) == data_floor = Nothing \/ d >= data_floor
TimeFloor(t) == data_floor = Nothing \/ t >= 2 * data_floor

\* day >= (now() - interval)::date, block_timestamp >= now() - interval
DayIn(d, window) == window = Lifetime \/ d >= DayOf(now - 2 * window)
TimeIn(t, days) == t >= now - 2 * days

Figures(L) ==
  [tx  |-> SumFunction([l \in L |-> l.tx]),
   wei |-> SumFunction([l \in L |-> l.wei]),
   usd |-> SumFunction([l \in L |-> l.usd])]

\* GROUP BY columns of the lines; an empty group has no line.
GroupBy(L, columns) ==
  {LET sums == Figures({m \in L : \A c \in columns : m[c] = l[c]})
   IN [key |-> [c \in columns |-> l[c]], tx |-> sums.tx, wei |-> sums.wei, usd |-> sums.usd]
   : l \in L}

InView(view, window) == {l \in view : DayFloor(l.day) /\ DayIn(l.day, window)}

\* The rows of analysis a query over the last 30 days reads.
RecentRows == {i \in Covered : TimeFloor(rows[i].time) /\ TimeIn(rows[i].time, Month)}

RowGroups(I, column) ==
  {LET group == {j \in I : rows[j][column] = rows[i][column]}
   IN [key |-> rows[i][column], tx |-> Cardinality(group), wei |-> Wei(group)] : i \in I}

-----------------------------------------------------------------------------
(* The overview. *)

\* Mutant: one query of the many forgets the data floor.
overview_totals_unfloored(window) ==
  LET L == {l \in project_daily : DayIn(l.day, window)}
  IN [saved |-> Figures(L), projects |-> Cardinality({l.slug : l \in L})]

overview_totals(window) ==
  LET L == InView(project_daily, window)
  IN [saved |-> Figures(L), projects |-> Cardinality({l.slug : l \in L})]

leaderboard_30d == GroupBy(InView(project_daily, Month), {"slug"})

\* Mutant: the join compares selectors alone, and an entry for the whole contract
\* matches none.
ExcludedFunction(to, selector) == [address |-> to, selector |-> selector] \in analysis_exclusion

\* LEFT JOIN analysis_exclusion x ... WHERE x.address IS NULL
Excluded(to, selector) ==
  \E x \in analysis_exclusion : x.address = to /\ x.selector \in {Nothing, selector}

Shown == {l \in InView(function_daily, Month) : ~Excluded(l.to, l.selector)}

leaderboard_functions_30d == GroupBy(Shown, {"to", "selector", "slug"})

leaderboard_contracts_30d ==
  {LET L == {l \in Shown : l.to = g.key.to /\ l.slug = g.key.slug}
   IN [key |-> g.key, tx |-> g.tx, wei |-> g.wei, usd |-> g.usd,
       functions |-> Cardinality({l.selector : l \in L})]
   : g \in GroupBy(Shown, {"to", "slug"})}

daily_overview(days) == GroupBy(InView(project_daily, days), {"day"})

\* organizations JOIN projects JOIN project_daily LEFT JOIN function_daily: a
\* project's day counts once for each of its functions' lines of that day.
OrgJoin(o) ==
  UNION {LET F == {f \in function_daily : f.slug = l.slug /\ f.day = l.day}
         IN {[pd |-> l, fd |-> f] : f \in IF F = {} THEN {Nothing} ELSE F}
         : l \in {m \in InView(project_daily, Month) : m.slug \in Project /\ org_of[m.slug] = o}}

leaderboard_orgs_30d(o) ==
  [projects  |-> Cardinality({j.pd.slug : j \in OrgJoin(o)}),
   contracts |-> Cardinality({j.fd.to : j \in {k \in OrgJoin(o) : k.fd # Nothing}}),
   tx  |-> SumFunction([j \in OrgJoin(o) |-> j.pd.tx]),
   wei |-> SumFunction([j \in OrgJoin(o) |-> j.pd.wei]),
   usd |-> SumFunction([j \in OrgJoin(o) |-> j.pd.usd])]

overview(group) ==
  [totals |-> [w \in {Lifetime, Month} |-> overview_totals(w)],
   board  |-> CASE group = "contracts" -> leaderboard_contracts_30d
                [] group = "projects"  -> leaderboard_30d
                [] group = "orgs"      -> {leaderboard_orgs_30d(o) : o \in Org}
                [] OTHER               -> leaderboard_functions_30d,
   daily  |-> daily_overview(Month)]

-----------------------------------------------------------------------------
(* Pages of transactions, newest first.  Rows of the same block have the    *)
(* same timestamp, and nothing else orders them: two requests may order     *)
(* them differently.                                                        *)

\* Filters: [from, to, min], each a value or Nothing.
where_clause(f, i) ==
  /\ f.from = Nothing \/ rows[i].time >= 2 * f.from
  /\ f.to = Nothing \/ rows[i].time < 2 * f.to
  /\ f.min = Nothing \/ rows[i].saved >= f.min

TxRows(I, f) == {i \in I \cap Covered : TimeFloor(rows[i].time) /\ where_clause(f, i)}

recent_txs_for_project(s, f) == TxRows({i \in DOMAIN rows : rows[i].slug = s}, f)
recent_txs_for_contract(c, f) == TxRows({i \in DOMAIN rows : rows[i].to = c}, f)
recent_txs_for_function(c, s, f) ==
  TxRows({i \in DOMAIN rows : rows[i].to = c /\ rows[i].selector = s}, f)

Newer(I, i) == {j \in I : rows[j].time > rows[i].time}
Tied(I, i) == {j \in I : rows[j].time = rows[i].time}

\* Mutant: pages counted from zero.
OffsetFromZero(page) == page * PageSize

Offset(page) == (page - 1) * PageSize

\* Whether row i may be, and whether it must be, on a page of the list I.
MayShow(I, i, page) ==
  /\ Cardinality(Newer(I, i)) < Offset(page) + PageSize
  /\ Cardinality(Newer(I, i)) + Cardinality(Tied(I, i)) > Offset(page)
MustShow(I, i, page) ==
  /\ Cardinality(Newer(I, i)) >= Offset(page)
  /\ Cardinality(Newer(I, i)) + Cardinality(Tied(I, i)) <= Offset(page) + PageSize

RowsReturned(I, page) == Min({PageSize, Max({0, Cardinality(I) - Offset(page)})})

\* The links the page carries.
paging_view(I, page) ==
  [has_prev |-> page > 1, has_next |-> RowsReturned(I, page) >= PageSize]

-----------------------------------------------------------------------------
(* The drill-downs. *)

OfProject(s, window) == {l \in InView(project_daily, window) : l.slug = s}

project_totals(s, window) == Figures(OfProject(s, window))
daily_for_project(s, days) == OfProject(s, days)

top_contracts_for_project(s) ==
  RowGroups({i \in RecentRows : rows[i].slug = s}, "to")
top_selectors_for_project(s) ==
  RowGroups({i \in RecentRows : rows[i].slug = s}, "selector")

project(s, f) ==
  [lifetime |-> project_totals(s, Lifetime), month |-> project_totals(s, Month),
   daily |-> daily_for_project(s, Quarter), contracts |-> top_contracts_for_project(s),
   selectors |-> top_selectors_for_project(s), txs |-> recent_txs_for_project(s, f)]

OfContract(c, window) == {l \in InView(function_daily, window) : l.to = c}

contract_totals(c, window) ==
  [saved |-> Figures(OfContract(c, window)),
   functions |-> Cardinality({l.selector : l \in OfContract(c, window)})]
functions_for_contract(c) == GroupBy(OfContract(c, Month), {"selector"})
daily_for_contract(c, days) == GroupBy(OfContract(c, days), {"day"})

contract_page(c, f) ==
  [lifetime |-> contract_totals(c, Lifetime),
   month |-> contract_totals(c, Month), daily |-> daily_for_contract(c, Quarter),
   functions |-> functions_for_contract(c), txs |-> recent_txs_for_contract(c, f)]

OfFunction(c, s, window) == {l \in OfContract(c, window) : l.selector = s}

function_totals(c, s, window) == Figures(OfFunction(c, s, window))

\* One line per label the function's rows have had.
daily_for_function(c, s, days) == OfFunction(c, s, days)

function_page(c, s, f) ==
  [lifetime |-> function_totals(c, s, Lifetime),
   month |-> function_totals(c, s, Month), daily |-> daily_for_function(c, s, Quarter),
   txs |-> recent_txs_for_function(c, s, f)]

top_unknowns ==
  RowGroups({i \in RecentRows : rows[i].slug \in Contract}, "to")

\* The example is a contract with the largest line of the selector.
top_unresolved_selectors ==
  LET L == {l \in InView(function_daily, Month) : l.selector \notin Known}
      Of(s) == {l \in L : l.selector = s}
      Largest(s) == {l \in Of(s) : \A m \in Of(s) : l.wei >= m.wei}
  IN {[key |-> g.key.selector, tx |-> g.tx, wei |-> g.wei, usd |-> g.usd,
       example |-> {l.to : l \in Largest(g.key.selector)}]
      : g \in GroupBy(L, {"selector"})}

unknowns(tab) == IF tab = "selectors" THEN top_unresolved_selectors ELSE top_unknowns

\* Unlabelled contracts first seen in the last days, above a sum of savings.
new_high_savings_candidates(days, min_wei) ==
  LET I == {i \in Covered : /\ rows[i].slug \in Contract /\ TimeFloor(rows[i].time)
                            /\ [address |-> rows[i].to, selector |-> Nothing] \notin analysis_exclusion}
  IN {g \in RowGroups(I, "to") :
        /\ \A i \in I : rows[i].to = g.key => TimeIn(rows[i].time, days)
        /\ g.wei >= min_wei}

-----------------------------------------------------------------------------
(* What changes the tables. *)

DashboardInit ==
  /\ rows = <<>> /\ project_daily = {} /\ function_daily = {}
  /\ analysis_exclusion = {} /\ organizations = {} /\ org_of = [p \in Project |-> Nothing]
  /\ data_floor = Nothing /\ now = 2 * Month

views == <<project_daily, function_daily>>
settings == <<analysis_exclusion, organizations, org_of, data_floor>>

Labelled(r, slug) ==
  [to |-> r.to, selector |-> r.selector, slug |-> slug, time |-> r.time,
   saved |-> r.saved, skipped |-> r.skipped]

\* A worker stores an analysis of a recent block under the slug it resolves.
StoreRow(r) ==
  /\ Len(rows) < MaxRows /\ r.time <= now
  /\ rows' = Append(rows, Labelled(r, r.to))
  /\ UNCHANGED <<views, settings, now>>

\* A contract gets its project, and relabel_unknowns moves its unknown rows.
Relabel(c) ==
  /\ rows' = [i \in DOMAIN rows |->
       IF rows[i].slug = c THEN Labelled(rows[i], ProjectOf[c]) ELSE rows[i]]
  /\ UNCHANGED <<views, settings, now>>

\* refresh_rollups: two statements, by the loop, the button or an override; the
\* second is not reached when the first fails.
RefreshProjectDaily ==
  /\ project_daily' = ProjectDaily
  /\ UNCHANGED <<rows, function_daily, settings, now>>

RefreshFunctionDaily ==
  /\ function_daily' = FunctionDaily
  /\ UNCHANGED <<rows, project_daily, settings, now>>

\* A second entry for the same contract and selector replaces the first.
blacklist_add(x) ==
  /\ analysis_exclusion' = analysis_exclusion \cup {x}
  /\ UNCHANGED <<rows, views, organizations, org_of, data_floor, now>>

blacklist_remove(x) ==
  /\ analysis_exclusion' = analysis_exclusion \ {x}
  /\ UNCHANGED <<rows, views, organizations, org_of, data_floor, now>>

orgs_create(o) ==
  /\ organizations' = organizations \cup {o}
  /\ UNCHANGED <<rows, views, analysis_exclusion, org_of, data_floor, now>>

\* The foreign key admits an organization that exists.
orgs_assign(p, o) ==
  /\ o \in organizations \cup {Nothing}
  /\ org_of' = [org_of EXCEPT ![p] = o]
  /\ UNCHANGED <<rows, views, analysis_exclusion, organizations, data_floor, now>>

FloorMoves(d) ==
  /\ data_floor' = d
  /\ UNCHANGED <<rows, views, analysis_exclusion, organizations, org_of, now>>

HalfDay ==
  /\ now < MaxNow /\ now' = now + 1
  /\ UNCHANGED <<rows, views, settings>>

DashboardNext ==
  \/ RefreshProjectDaily \/ RefreshFunctionDaily \/ HalfDay
  \/ \E r \in Fresh : StoreRow(r)
  \/ \E c \in Contract : Relabel(c)
  \/ \E x \in Hideable : blacklist_add(x) \/ blacklist_remove(x)
  \/ \E o \in Org : orgs_create(o)
  \/ \E p \in Project, o \in Org \cup {Nothing} : orgs_assign(p, o)
  \/ \E d \in Floors : FloorMoves(d)

DashboardSpec == DashboardInit /\ [][DashboardNext]_dashVars

-----------------------------------------------------------------------------
(* Properties. *)

Slugs == Project \cup Contract
NoFilter == [from |-> Nothing, to |-> Nothing, min |-> Nothing]

\* The sum of a family of figures.
Total(family) ==
  [tx  |-> SumFunction([x \in DOMAIN family |-> family[x].tx]),
   wei |-> SumFunction([x \in DOMAIN family |-> family[x].wei]),
   usd |-> SumFunction([x \in DOMAIN family |-> family[x].usd])]

Txs(L) == SumFunction([l \in L |-> l.tx])

\* The pages of projects, of contracts and of functions each add up to the
\* overview, and so do its board and its daily points.
PagesAddUp ==
  LET page == overview("projects")
      At(c) == contract_page(c, NoFilter)
  IN /\ Total([s \in Slugs |-> project(s, NoFilter).lifetime]) = page.totals[Lifetime].saved
     /\ Total([s \in Slugs |-> project(s, NoFilter).month]) = page.totals[Month].saved
     /\ Total([c \in Contract |-> At(c).lifetime.saved]) = page.totals[Lifetime].saved
     /\ Total([c \in Contract |-> At(c).month.saved]) = page.totals[Month].saved
     /\ Figures(page.board) = page.totals[Month].saved
     /\ Figures(page.daily) = page.totals[Month].saved
     /\ \A c \in Contract :
          /\ Total([s \in Function |-> function_page(c, s, NoFilter).month]) = At(c).month.saved
          /\ Figures(At(c).functions) = At(c).month.saved

\* The lists of rows against the totals of the views, which are by days.
ListsFitTotals ==
  LET Of(s) == project(s, NoFilter)
      At(c) == contract_page(c, NoFilter)
      In(c, s) == function_page(c, s, NoFilter)
  IN /\ \A s \in Slugs :
          /\ Cardinality(Of(s).txs) = Of(s).lifetime.tx
          /\ Txs(Of(s).contracts) = Txs(Of(s).selectors) /\ Txs(Of(s).contracts) <= Of(s).month.tx
          /\ Txs(Of(s).daily) \in Of(s).month.tx..Of(s).lifetime.tx
     /\ \A c \in Contract :
          /\ Txs(At(c).daily) = SumFunction([s \in Function |-> Txs(In(c, s).daily)])
          /\ Cardinality(At(c).txs) = At(c).lifetime.saved.tx
          /\ \A g \in unknowns("contracts") : g.key = c => g.tx <= At(c).month.saved.tx
     /\ \A g \in unknowns("selectors") :
          g.example \subseteq Contract /\ g.tx <= overview("projects").totals[Month].saved.tx

\* Once both views have been refreshed over the same rows, the pages agree
\* with each other whatever labels, floor and window: projects, contracts and
\* functions each add up to the overview, the daily points to the totals, and
\* a list read from analysis never claims more than the view of its days.
ViewsAgree ==
  (rows # <<>> /\ project_daily = ProjectDaily /\ function_daily = FunctionDaily) =>
    PagesAddUp /\ ListsFitTotals

\* Where the blacklist is applied it is exact, at once and over stale views
\* too: the boards of functions and contracts show no hidden function or
\* contract, and the candidates no hidden contract; a contract's line is the
\* sum of its functions'; and a contract without an entry shows all its
\* figures.  What the other aggregates do is BlacklistEverywhere's question.
BoardsHideExactly ==
  rows # <<>> => \A c \in Contract :
    LET lines == {g \in overview("contracts").board : g.key.to = c}
        parts == {g \in overview("functions").board : g.key.to = c}
        Hidden(s) == [address |-> c, selector |-> s] \in analysis_exclusion
    IN /\ Figures(lines) = Figures(parts)
       /\ \A g \in parts : ~Hidden(g.key.selector)
       /\ Hidden(Nothing) => lines = {}
       /\ Hidden(Nothing) => \A g \in new_high_savings_candidates(Month, 0) : g.key # c
       /\ (\A s \in Function \cup {Nothing} : ~Hidden(s)) =>
            Figures(lines) = contract_totals(c, Month).saved

\* Following "next" from the first page ends at a page without it, by when
\* every row has had its page: a row whose timestamp is its own is on exactly
\* one, however each request orders the rows of one block; the others may be
\* repeated or missed.
PagesShowAll ==
  rows # <<>> => \A c \in Contract, f \in Filters :
    LET I == recent_txs_for_contract(c, f)
        pages == {p \in 1..(MaxRows + 2) :
                    \A q \in 1..(p - 1) : paging_view(I, q).has_next}
    IN /\ ~paging_view(I, Max(pages)).has_next
       /\ \A i \in I :
            /\ \E p \in pages : MayShow(I, i, p)
            /\ Tied(I, i) = {i} =>
                 /\ Cardinality({p \in pages : MayShow(I, i, p)}) = 1
                 /\ \A p \in pages : MayShow(I, i, p) => MustShow(I, i, p)

\* What it rests on: the stored rows.
RowsOK ==
  /\ rows \in Seq([to: Contract, selector: Function, slug: Slugs, time: Nat, saved: Int, skipped: BOOLEAN])
  /\ Len(rows) <= MaxRows

\* "from every BD-visible aggregate": over fresh views, the overview's totals,
\* the board of projects and the unknowns count what the board of functions
\* shows, and a candidate's sum leaves out the functions that are hidden.
\* It does not hold: only three of the queries join the blacklist.
BlacklistEverywhere ==
  (project_daily = ProjectDaily /\ function_daily = FunctionDaily) =>
    LET shown == Figures(overview("functions").board)
        Visible(c) == {i \in Covered : rows[i].to = c /\ ~Excluded(c, rows[i].selector)}
    IN /\ overview("projects").totals[Month].saved = shown
       /\ Figures(overview("projects").board) = shown
       /\ \A g \in unknowns("contracts") : ~Excluded(g.key, Nothing)
       /\ \A g \in new_high_savings_candidates(Month, 0) : g.wei <= Wei(Visible(g.key))

\* "one combined line per brand": an organization's line is the sum of its
\* projects' lines.
OrgTotalsCombine ==
  \A o \in Org :
    LET line == leaderboard_orgs_30d(o)
    IN [tx |-> line.tx, wei |-> line.wei, usd |-> line.usd] =
         Figures({g \in leaderboard_30d : g.key.slug \in Project /\ org_of[g.key.slug] = o})
=============================================================================
