----------------------------- MODULE MCCryptoApi -----------------------------
(***************************************************************************)
(* CryptoApi for TLC: two tenants whose identifiers all differ, two keys,  *)
(* two JSON bodies of which one is an AttestationRequest, two answers of   *)
(* the service that are none of the bodies, and a peer of every kind.      *)
(***************************************************************************)
EXTENDS CryptoApi

MCApiKeys == {"k1", "k2"}
MCDatas == {"{}", "[]"}
MCAnswers == {"ct", "pt"}
MCAttestationRequests == {"{}"}
MCPeers == {"Attested", "WebPki", "SelfSigned"}
MCContexts == {[team_uuid |-> "team1", app_uuid |-> "app1"],
               [team_uuid |-> "team2", app_uuid |-> "app2"]}
BothBuilds == BOOLEAN

=============================================================================
