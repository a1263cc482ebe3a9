------------------------------ MODULE MCZoneRefs ------------------------------
(* The main loop, which sets the shared reference and empties its trash, and  *)
(* one or two threads of the RPC service; zones of the main loop, and one of  *)
(* the first thread. With three zones of the main loop its trash overflows.   *)
EXTENDS ZoneRefs, TLC

CONSTANTS m, r, s, w, x, y, z
MCOwner == w :> m @@ x :> m @@ y :> m @@ z :> r
MCUses == {[threads |-> {m, r, s}, zones |-> {x, y}, reallocs |-> FALSE],
           [threads |-> {m, r}, zones |-> {w, x, y, z}, reallocs |-> FALSE],
           [threads |-> {m, r}, zones |-> {x, z}, reallocs |-> TRUE]}
=============================================================================
