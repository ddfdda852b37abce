--------------------------- MODULE MCNapiRequests ---------------------------
EXTENDS NapiRequests, TLC
\* One binding for each way a request is executed.
MCAsked == {StopEngineAsync, WaitForEngineStateAsync, GetRawFileListAsync}
Contexts == Permutations(Requests)
\* No action reads how a promise was settled, and no property tells apart
\* promises settled in different ways.
Seen == <<vars, binding, stage, [r \in Requests |-> promise[r] = "pending"],
          held, ok, pool, runs, gate, tornDown>>
=============================================================================
