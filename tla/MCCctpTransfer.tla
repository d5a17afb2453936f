--------------------------- MODULE MCCctpTransfer ---------------------------
(* Each ecosystem as the source: a plain transfer out of Sui, one that is     *)
(* claimed by hand, and a Fast Transfer with a sponsor.                       *)
EXTENDS CctpTransfer, TLC

FarRoutes == {<<"evm", FALSE, TRUE, FALSE>>}
Routes == {<<"sui", FALSE, FALSE, FALSE>>, <<"solana", TRUE, FALSE, TRUE>>} \cup FarRoutes
=============================================================================
