---------------------------- MODULE MCRestClient ----------------------------
(***************************************************************************)
(* Small instances of RestClient, over the endpoint tables.                *)
(***************************************************************************)
EXTENDS RestClient, TLC

V5E == INSTANCE V5Endpoints
Legacy == INSTANCE LegacyEndpoints

AllFunctions == Legacy!BaseFunctions \cup V5E!V5Functions \cup Legacy!DerivativeFunctions
MCServerTime == Legacy!GetServerTime

\* A private function of each handle but Derivative(), whose are public.
FewFunctions == {Legacy!Balance} \cup V5E!Through("v5", {V5E!GetAccountInfo})

\* Both sides of every threshold of JsonText and VerbText.
MCExponents == {-10, -7, -5, -4, 5, 6, 21}

Aligned == {0}
Drifting == {-2, 1}

CONSTANTS c1, c2
Interchangeable == Permutations({c1, c2})

\* The functions before V5 that send a change of one order without a look at
\* whether the caller named it.
MCUnnamed ==
    {Legacy!CancelFuturesOrder, Legacy!CancelFuturesStopOrder, Legacy!ReplaceLinearOrder,
     Legacy!SpotDeleteOrder, Legacy!SpotDeleteOrderFast}
=============================================================================
