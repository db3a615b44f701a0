-------------------------- MODULE MCInventoryGauges --------------------------
(* InventoryGauges with two sizes and two power states.                     *)
EXTENDS InventoryGauges

MCProfiles == {<<"small", "running">>, <<"large", "running">>, <<"small", "stopped">>}
=============================================================================
