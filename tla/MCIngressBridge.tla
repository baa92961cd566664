-------------------------- MODULE MCIngressBridge --------------------------
(***************************************************************************)
(* IngressBridge for TLC: the segments are a TLS record and bytes that are *)
(* no TLS at all, which the bridge must carry alike.                       *)
(***************************************************************************)
EXTENDS IngressBridge

MCPayloads == {"ClientHello", "garbage"}

=============================================================================
