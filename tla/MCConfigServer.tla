--------------------------- MODULE MCConfigServer ---------------------------
(***************************************************************************)
(* ConfigServer for TLC: one string, two transaction contexts, batches of  *)
(* at most two, the two paths of the routes and three that are none.       *)
(***************************************************************************)
EXTENDS ConfigServer

MCStrings     == {"s"}
MCTrxContexts == {"t1", "t2"}
MCPaths       == {"/cert/token", "/trx/logs", "/", "/cert/token/", "/cert"}

=============================================================================
