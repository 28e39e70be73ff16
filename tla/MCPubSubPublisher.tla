------------------------- MODULE MCPubSubPublisher -------------------------
(* The instances of PubSubPublisher that TLC checks.                       *)
EXTENDS PubSubPublisher

(* The default of max_retries.                                             *)
MCMaxRetries == 3
=============================================================================
