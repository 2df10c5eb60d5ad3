--------------------------- MODULE MCEventNotifier ---------------------------
(* Two blocks of a transaction and a priority operation, a subscriber who may *)
(* subscribe again once answered, and a restart of the server.                *)
EXTENDS EventNotifier
=============================================================================
