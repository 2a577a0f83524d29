--------------------------- MODULE MCGasEstimate ---------------------------
(***************************************************************************)
(* Requests for GasEstimate: every way a transaction may fail or succeed   *)
(* at limits up to Window, every threshold up to Top, with and without     *)
(* pubdata, too much pubdata and a large overhead.                         *)
(***************************************************************************)
EXTENDS GasEstimate

CONSTANTS Window, Top

Thresholds == {0 .. n : n \in 0 .. Top} \cup {{}}

MCRequests ==
    [fails : SUBSET (0 .. Window) \cup Thresholds, pubdata : {0, 1},
     gas_per_pubdata_byte : {2}, overhead : {1}]
      \cup [fails : Thresholds, pubdata : {1, 2}, gas_per_pubdata_byte : {3},
            overhead : {0, 20}]
=============================================================================
