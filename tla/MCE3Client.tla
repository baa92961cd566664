----------------------------- MODULE MCE3Client -----------------------------
(***************************************************************************)
(* E3Client for TLC: one tenant whose two identifiers differ, two keys,    *)
(* one JSON value besides null, two answers of the service.                *)
(***************************************************************************)
EXTENDS E3Client

MCApiKeys == {"k1", "k2"}
MCDatas == {"x"}
MCAnswers == {"x", "y"}
MCPeers == Certificates
MCContexts == {[team_uuid |-> "team", app_uuid |-> "app"]}

=============================================================================
