----------------------------- MODULE MCMessaging -----------------------------
(* Messaging on small instances: an agent whose connectors take no lock    *)
(* and one with the connectors that do.                                    *)
EXTENDS Messaging

Lockfree == {"api", "config"}
Locking == {"headless", "mqtt"}
=============================================================================
