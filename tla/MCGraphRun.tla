------------------------------ MODULE MCGraphRun ------------------------------
(* A panel on a graph of two tools.                                        *)
EXTENDS GraphRun, TLC
CONSTANTS m, n
=============================================================================
