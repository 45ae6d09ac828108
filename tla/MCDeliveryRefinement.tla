------------------------ MODULE MCDeliveryRefinement ------------------------
(* Instances of DeliveryRefinement for TLC. *)
EXTENDS DeliveryRefinement
=============================================================================
