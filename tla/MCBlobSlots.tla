---------------------------- MODULE MCBlobSlots -----------------------------
(* Slots of two sectors of two units; bodies that end inside a sector, that *)
(* fill the slot, and that are too long for it.                            *)
EXTENDS BlobSlots

CONSTANTS x, y

MCUnits == {x, y}
MCBodies == {<<x, y, x>>, <<y, x, x, y>>, <<x, x, x, x, x>>}

=============================================================================
