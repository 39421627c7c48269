--------------------------- MODULE MCWatchpoints ---------------------------
(* A small set of watchpoints for TLC. *)
EXTENDS Watchpoints

Location(address, end, type, owner) ==
  [address |-> address, end |-> end, type |-> type, owner |-> owner]

\* Watchpoint 1; watchpoint 3, with a duplicate of it and a location within
\* watchpoint 2; watchpoint 2, which overlaps watchpoint 1; an access watchpoint.
MCBpLocations ==
  <<Location(0, 4, "hw_write", 1), Location(0, 4, "hw_write", 3),
    Location(2, 6, "hw_write", 2), Location(4, 6, "hw_write", 3),
    Location(8, 10, "hw_access", 4)>>

\* The hypothesis of the theorems about Watchpoints holds here.
ASSUME MCLocationsAssumption == Contiguous
=============================================================================
