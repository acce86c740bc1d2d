------------------------------ MODULE MCRequests ------------------------------
(***************************************************************************)
(* Small instances of the parts that answer requests: the dashboard's      *)
(* pages, the web process' own state, the analyzer behind its rate limit,  *)
(* the encoding service, the gas estimate, the anvil backend and the two   *)
(* tools.  Their state is disjoint, so a behaviour follows one of them:    *)
(* focus says which.                                                       *)
(***************************************************************************)
EXTENDS Dashboard, Console, Analyzer, Encode, Estimate, Fork, Report

CONSTANTS
  Focus,         \* the parts to follow
  c1, c2, f1, f2, p1, o1, root, u1, u2, a1, a2, a3, a4

VARIABLE focus

requestVars == <<dashVars, consoleVars, rpcVars, encodeVars, estVars, forkVars, rep, focus>>

-----------------------------------------------------------------------------
\* Two contracts of one project; two functions on one day, a row of an earlier
\* day and one with skipped opcodes.
MCProjectOf == c1 :> p1 @@ c2 :> p1
Row(to, s, t, v, k) == [to |-> to, selector |-> s, time |-> t, saved |-> v, skipped |-> k]
MCFresh == {Row(c1, f1, 4, 1, FALSE), Row(c1, f2, 4, 2, FALSE),
            Row(c2, f1, 0, 1, FALSE), Row(c1, f1, 1, 2, TRUE)}
MCUsd == 2 :> 3 @@ 0 :> 1
MCFloors == {Nothing, 2}
MCHideable == {[address |-> c1, selector |-> Nothing], [address |-> c1, selector |-> f1]}
MCFilters == {NoFilter, [from |-> 1, to |-> 3, min |-> 2]}

\* An eligible call, a call with nested callees, and, at another endpoint's
\* block of the same number, a call that fails and one that costs too much.
Job(u, b, api, fails, net, callees, heavy) ==
  [url |-> u, block |-> b, api |-> api, fails |-> fails, net |-> net,
   callees |-> callees, heavy |-> heavy]
MCJobs == {Job(u1, 1, "encode", FALSE, TRUE, {}, FALSE),
           Job(u1, 2, "tree", FALSE, FALSE, {c1, c2}, FALSE),
           Job(u2, 1, "encode", TRUE, FALSE, {}, FALSE),
           Job(u2, 1, "encode", FALSE, FALSE, {}, TRUE)}
MCHeavyJobs == {Job(u1, 1, "encode", FALSE, TRUE, {}, TRUE), Job(u1, 1, "tree", FALSE, TRUE, {}, TRUE)}
MCRegistry == root :> "r1" @@ c1 :> "r1" @@ c2 :> "none"
MCChain == u1 :> 1 @@ u2 :> 100

\* Frames that share a contract, empty frames, frames between two children,
\* and trees whose children do not match their ops; a root and a child with a
\* value.
Frame(t, v, u, c) == [target |-> t, value |-> v, updates |-> u, children |-> c]
OneFrame == <<Frame(a1, FALSE, <<"x">>, <<>>)>>
MCTrees ==
  LET N == NestedOp IN
  {<<Frame(a1, TRUE, <<"x", N, "y", N>>, <<2, 3>>), Frame(a2, FALSE, <<"x">>, <<>>),
     Frame(a1, FALSE, <<"x", "y">>, <<>>)>>,
   <<Frame(a1, FALSE, <<N, N>>, <<2, 3>>), Frame(a2, TRUE, <<"x", N, "y">>, <<4>>),
     Frame(a1, FALSE, <<>>, <<>>), Frame(a3, FALSE, <<"x">>, <<>>)>>,
   OneFrame, <<Frame(a1, FALSE, <<N>>, <<1>>)>>, <<Frame(a1, FALSE, <<N>>, <<>>)>>,
   <<Frame(a1, FALSE, <<"x">>, <<2>>), Frame(a2, FALSE, <<>>, <<>>)>>}
MCAccount == a1 :> "contract" @@ a2 :> "absent" @@ a3 :> "contract" @@ a4 :> "eoa"

\* Two transactions of one contract and one of another, one that failed, one too
\* cheap to keep, a creation, and a single one.
Receipt(to, gas, status, code, extracts) ==
  [to |-> to, gas |-> gas, status |-> status, code |-> code, extracts |-> extracts]
MCBlocks ==
  {<<Receipt(a1, 1, TRUE, TRUE, TRUE), Receipt(a2, 1, TRUE, FALSE, TRUE), Receipt(a1, 1, TRUE, TRUE, TRUE)>>,
   <<Receipt(a1, 1, FALSE, TRUE, TRUE), Receipt(a2, 0, TRUE, TRUE, TRUE), Receipt(NoTarget, 1, TRUE, TRUE, TRUE),
     Receipt(a2, 1, TRUE, TRUE, FALSE), Receipt(a2, 1, TRUE, TRUE, TRUE)>>,
   <<Receipt(a1, 1, TRUE, TRUE, TRUE)>>}

NetCall == CHOOSE in \in WasmInput : in.api = "prestate"

-----------------------------------------------------------------------------
RequestsInit ==
  /\ focus \in Focus
  /\ DashboardInit /\ ConsoleInit /\ AnalyzerInit /\ EncodeInit
  /\ EstimateInit /\ (focus = "estimate" \/ est.tree = OneFrame)
  /\ ForkInit /\ (focus = "fork" \/ (gk.one /\ Len(receipts) = 1 /\ fork = Pristine({a1})))
  /\ ReportInit /\ (focus = "report" \/ rep.input = NetCall)

serviceVars == <<rpcVars, encodeVars, estVars, forkVars, rep>>

OnDashboard == focus = "dashboard" /\ DashboardNext /\ UNCHANGED <<consoleVars, serviceVars>>

\* The three parts of the web process share its clock and its restarts.
OnConsole ==
  /\ focus \in {"sessions", "floor", "diagnose"}
  /\ \/ ClockTick \/ WebRestart
     \/ focus = "sessions" /\ SessionNext
     \/ focus = "floor" /\ FloorNext
     \/ focus = "diagnose" /\ DiagnoseNext
  /\ UNCHANGED <<dashVars, serviceVars>>

OnService ==
  /\ \/ focus = "analyzer" /\ AnalyzerNext /\ UNCHANGED <<encodeVars, estVars, forkVars, rep>>
     \/ focus = "encode" /\ EncodeNext /\ UNCHANGED <<rpcVars, estVars, forkVars, rep>>
     \/ focus = "estimate" /\ EstimateNext /\ UNCHANGED <<rpcVars, encodeVars, forkVars, rep>>
     \/ focus = "fork" /\ ForkNext /\ UNCHANGED <<rpcVars, encodeVars, estVars, rep>>
     \/ focus = "report" /\ ReportNext /\ UNCHANGED <<rpcVars, encodeVars, estVars, forkVars>>
  /\ UNCHANGED <<dashVars, consoleVars>>

RequestsNext == (OnDashboard \/ OnConsole \/ OnService) /\ UNCHANGED focus

RequestsSpec == RequestsInit /\ [][RequestsNext]_requestVars
=============================================================================
