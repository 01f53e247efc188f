------------------------------ MODULE MCGscChain ------------------------------
(* The chain of backfill batches alone, over midnight and two whole-window    *)
(* pulls.                                                                     *)
EXTENDS GscIngest

Offsets == <<3, 2>>
=============================================================================
