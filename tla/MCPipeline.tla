----------------------------- MODULE MCPipeline -----------------------------
(***************************************************************************)
(* Instances of Pipeline for TLC: the requests of each run.                *)
(***************************************************************************)
EXTENDS Pipeline

CONSTANTS r1, r2, m1, m2

Order == SingleRequest("PLACE_ORDER")

RequestsCuts == {Order, PersistRequest, SingleRequest("RESET"),
                 SingleRequest("SHUTDOWN_SIGNAL"),
                 BinaryRequest("BINARY_DATA_QUERY", 1),
                 BinaryRequest("BINARY_DATA_COMMAND", 2)}
RequestsLive == {Order, PersistRequest, GroupingControlRequest(0),
                 ReplayRequest(1), ReplayRequest(2)}
=============================================================================
