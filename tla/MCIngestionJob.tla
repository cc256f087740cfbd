--------------------------- MODULE MCIngestionJob ---------------------------
(* Small instances of one ingestion job for TLC.                           *)
EXTENDS IngestionJob

CONSTANTS w1, w2
=============================================================================
