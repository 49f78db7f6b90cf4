----------------------------- MODULE MCPipeline -----------------------------
(* Instances of Pipeline: which invocations are made.                      *)
EXTENDS Pipeline

Range(r, from, to) == r.start = from /\ r.end = to

\* A full-fetch interval matters only where the fetch runs.
Meaningful == {r \in Request : r.start <= r.end /\ (r.start > Fetch => ~ r.interval)}

\* Ranges that differ in the requirements they add, meet or leave behind.
MixedRequests ==
  {r \in Meaningful :
     \/ Range(r, Fetch, Reports)
     \/ Range(r, Fetch, Fetch) /\ ~ r.unconditional
     \/ Range(r, Geography, Kmz)
     \/ Range(r, Score, Score) /\ ~ r.unconditional
     \/ Range(r, Kmz, Reports) /\ ~ r.unconditional}

\* The production service and an operator's partial runs of the gated policy.
GatedRequests ==
  {r \in Meaningful : r.gated /\ ~ r.unconditional
                      /\ (Range(r, Fetch, Reports) \/ Range(r, Kmz, Kmz))}

\* The same range with and without a publication threshold.
PolicySwitches ==
  {r \in Meaningful : Range(r, Fetch, Reports) /\ ~ r.interval /\ ~ r.unconditional}

\* Gated runs of the whole range, and of geography to KMZ.
PartialGated ==
  {r \in Meaningful : r.gated /\ ~ r.interval /\ ~ r.unconditional
                      /\ (Range(r, Fetch, Reports) \/ Range(r, Geography, Kmz))}
=============================================================================
