---------------------------- MODULE Watchpoints ----------------------------
(***************************************************************************)
(* Hardware watchpoints of a GPU inferior.                                 *)
(*                                                                         *)
(* breakpoint.c keeps the locations of all watchpoints sorted, marks       *)
(* duplicates, and inserts or removes them as watchpoints come and go and  *)
(* as the inferior runs and stops.  Once the ROCm runtime is loaded every  *)
(* insertion and removal has two halves: the debug registers of the host   *)
(* (the Linux target beneath) and the watchpoints of the amd-dbgapi        *)
(* library, recorded in watchpoint_map.  GDB is one thread and the library *)
(* answers at once, so every command is one step.                          *)
(***************************************************************************)
EXTENDS Integers, Sequences, FiniteSets

CONSTANTS
  BpLocations,  \* all_bp_locations, sorted by address: address, end, type, owner
  Reduced,      \* the locations for which the library reduces the range
  HostRegs,     \* debug registers of the host
  GpuRegs       \* watchpoints the GPU supports

ASSUME LocationsAssumption ==
  /\ BpLocations \in Seq([address : Nat, end : Nat,
                          type : {"hw_write", "hw_access"}, owner : Nat])
  /\ Reduced \subseteq DOMAIN BpLocations
  /\ \A l, m \in DOMAIN BpLocations :
       l < m => BpLocations[l].address <= BpLocations[m].address
  /\ {HostRegs, GpuRegs} \subseteq Nat

Locations == DOMAIN BpLocations
Watchpoint == {BpLocations[l].owner : l \in Locations}
Address(l) == BpLocations[l].address
End(l) == BpLocations[l].end
Type(l) == BpLocations[l].type
Owner(l) == BpLocations[l].owner
Region(l) == [address |-> Address(l), end |-> End(l), type |-> Type(l)]

\* No location of the type stands between two that match.
\* update_global_location_list compares a location only with the one before it:
\* duplicates that it cannot see are inserted twice, and Watchpoints leaves out
\* the reference counts of the debug registers.
Contiguous ==
  \A l, m, n \in Locations :
    l < m /\ m < n /\ Region(l) = Region(n) /\ Type(m) = Type(l) => Region(m) = Region(l)

VARIABLES
  enable_state,   \* "none" when the watchpoint does not exist
  running,        \* do threads of the inferior execute?
  runtime_state,  \* amd_dbgapi_inferior_info::runtime_state is LOADED_SUCCESS
  t               \* what the insertions and removals work on:
                  \*   inserted:  bp_location::inserted, the set of those marked so
                  \*   duplicate: bp_location::duplicate, likewise
                  \*   host:      the regions in the debug registers
                  \*   map:       watchpoint_map, a set of its entries
                  \*   gpu:       the library's watchpoints
                  \*   warned:    "Failed to insert existing watchpoint"
                  \*   aborted:   an assertion failed
                  \*   ret:       result of the last target call

vars == <<enable_state, running, runtime_state, t>>

Init ==
  /\ enable_state = [b \in Watchpoint |-> "none"]
  /\ running = FALSE
  /\ runtime_state = FALSE
  /\ t = [inserted |-> {}, duplicate |-> {}, host |-> {}, map |-> {}, gpu |-> {},
          warned |-> {}, aborted |-> FALSE, ret |-> 0]

-----------------------------------------------------------------------------
(* The targets.                                                            *)

\* The next value of t; nobody reads the result of a call after the command.
Become(s) == t' = [s EXCEPT !.ret = 0]

\* Bug: the search for a free debug register does not fail.
HostInsertUnchecked(s, l) == [s EXCEPT !.host = @ \cup {Region(l)}, !.ret = 0]

\* The Linux target: a debug register per region.
HostInsert(s, l) ==
  IF Cardinality(s.host) < HostRegs
  THEN [s EXCEPT !.host = @ \cup {Region(l)}, !.ret = 0]
  ELSE [s EXCEPT !.ret = 1]

HostRemove(s, l) == [s EXCEPT !.host = @ \ {Region(l)}, !.ret = 0]

\* amd_dbgapi_set_watchpoint hands out an id nobody remembers; ids are opaque,
\* so any choice of a fresh one will do.
FreshId(s, l) ==
  LET fresh == {i \in 0..(GpuRegs + 1) :
                  <<Address(l), i>> \notin {e.id : e \in s.map \cup s.gpu}}
  IN <<Address(l), CHOOSE i \in fresh : \A j \in fresh : i <= j>>

\* Bug: the scope_exit that gives the id back is missing.
NotReleased(s, id) == [s EXCEPT !.ret = 1]

\* The scope_exit of insert_one_watchpoint.
Release(s, id) == [s EXCEPT !.gpu = {e \in @ : e.id # id}, !.ret = 1]

\* insert_one_watchpoint: a range the library reduced, or an address that has
\* an entry in watchpoint_map already, makes it give the id back.
InsertOne(s, l) ==
  LET it == [address |-> Address(l), end |-> End(l), id |-> FreshId(s, l)]
      set == [s EXCEPT !.gpu = @ \cup {it}, !.ret = 0]
  IN IF Cardinality(s.gpu) >= GpuRegs THEN [s EXCEPT !.ret = 1]
     ELSE IF l \in Reduced \/ \E e \in s.map : e.address = Address(l)
     THEN Release(set, it.id)
     ELSE [set EXCEPT !.map = @ \cup {it}]

\* Bug: the host half of a failed insertion stays.
KeepHostHalf(s, l) == s

\* "remove the CPU watchpoint before returning an error"
RollBack(s, l) == [HostRemove(s, l) EXCEPT !.ret = 1]

\* amd_dbgapi_target::insert_watchpoint, or the Linux target's if it is not
\* pushed.
InsertWatchpoint(s, l) ==
  LET host == HostInsert(s, l)
      gpu == InsertOne(host, l)
  IN IF runtime_state /\ Type(l) # "hw_write" THEN [s EXCEPT !.ret = 1]
     ELSE IF host.ret # 0 \/ ~runtime_state THEN host
     ELSE IF gpu.ret # 0 THEN RollBack(gpu, l) ELSE gpu

\* The entry before upper_bound (address), if there is one.
Below(s, l) == {e \in s.map : e.address <= Address(l) /\
                  \A f \in s.map : f.address <= Address(l) => f.address <= e.address}

\* Bug: the entry found need not hold the range.
FoundAnyBelow(s, l) == Below(s, l)

\* The entry remove_watchpoint takes for the location's.
Found(s, l) == {e \in Below(s, l) : End(l) <= e.end}

\* amd_dbgapi_target::remove_watchpoint, or the Linux target's.
RemoveWatchpoint(s, l) ==
  LET host == HostRemove(s, l)
      found == Found(s, l)
      ids == {e.id : e \in found}
  IN IF ~runtime_state THEN host
     ELSE IF found = {} THEN [host EXCEPT !.ret = 1]
     ELSE IF Type(l) # "hw_write" THEN [host EXCEPT !.aborted = TRUE]
     ELSE [host EXCEPT !.map = @ \ found,
                       !.gpu = {e \in @ : e.id \notin ids},
                       !.ret = IF ids \subseteq {e.id : e \in s.gpu} THEN 0 ELSE 1]

-----------------------------------------------------------------------------
(* breakpoint.c.                                                           *)

\* insert_bp_location.
InsertBpLocation(s, l) ==
  LET done == InsertWatchpoint(s, l)
  IN IF s.aborted THEN s
     ELSE IF done.ret # 0 THEN done
     ELSE [done EXCEPT !.inserted = @ \cup {l}, !.warned = @ \ {l}]

\* remove_breakpoint_1: the location is marked out whatever the target says.
RemoveBreakpoint(s, l) ==
  IF s.aborted THEN s
  ELSE RemoveWatchpoint([s EXCEPT !.inserted = @ \ {l}, !.warned = @ \ {l}], l)

\* Applies an insertion or a removal to the locations in a set, in order.
ForEach(op(_, _), s, locs) ==
  LET after[l \in 0..Len(BpLocations)] ==
        IF l = 0 THEN s
        ELSE IF l \in locs THEN op(after[l - 1], l) ELSE after[l - 1]
  IN after[Len(BpLocations)]

\* unduplicated_should_be_inserted.
Wanted(state, l) == state[Owner(l)] = "enabled"

ShouldBeInserted(state, s, l) == Wanted(state, l) /\ l \notin s.duplicate

\* A flag of two locations, given by the set of those that have it, exchanged.
Exchanged(S, left, right) ==
  (S \ {left, right}) \cup (IF left \in S THEN {right} ELSE {})
                      \cup (IF right \in S THEN {left} ELSE {})

\* Bug: the flag duplicate stays behind.
SwapInsertedOnly(s, left, right) ==
  [s EXCEPT !.inserted = Exchanged(@, left, right), !.warned = Exchanged(@, left, right)]

\* swap_insertion; a warning goes with the insertion it was about.
SwapInsertion(s, left, right) ==
  [s EXCEPT !.inserted = Exchanged(@, left, right),
            !.duplicate = Exchanged(@, left, right),
            !.warned = Exchanged(@, left, right)]

\* The duplicates that may take over the insertion of a location.
Heirs(state, l) == {m \in Locations : m # l /\ Region(m) = Region(l) /\ Wanted(state, m)}

\* An inserted location that is deleted or no longer wanted hands its insertion
\* to a duplicate, or leaves the target.
HandOver(state, s, l) ==
  IF l \notin s.inserted \/ ShouldBeInserted(state, s, l) THEN s
  ELSE IF Heirs(state, l) # {}
  THEN SwapInsertion(s, l, CHOOSE m \in Heirs(state, l) : \A n \in Heirs(state, l) : m <= n)
  ELSE RemoveBreakpoint(s, l)

\* decref_bp_location: "watch" makes a new location, with clear flags.
Freed(s, l) == [s EXCEPT !.inserted = @ \ {l}, !.duplicate = @ \ {l}]

\* One turn of the first loop of update_global_location_list, for an old
\* location.
Retire(state, s, l) ==
  LET done == HandOver(state, s, l)
  IN IF state[Owner(l)] = "none" /\ ~done.aborted THEN Freed(done, l) ELSE done

\* The wanted location of the same type next before l in the list.
Previous(state, l) ==
  {m \in 1..(l - 1) : /\ Wanted(state, m) /\ Type(m) = Type(l)
                      /\ \A n \in (m + 1)..(l - 1) : Wanted(state, n) => Type(n) # Type(l)}

\* breakpoint_locations_match (loc, *loc_first_p): the location next before l
\* is *loc_first_p or matches it.
MatchesFirst(state, l) == \E m \in Previous(state, l) : Region(m) = Region(l)

\* *loc_first_p, when l matches it.
LocFirst(state, l) ==
  LET firsts == {m \in 1..(l - 1) : /\ Region(m) = Region(l) /\ Wanted(state, m)
                                    /\ ~MatchesFirst(state, m)}
  IN CHOOSE m \in firsts : \A n \in firsts : n <= m

\* One turn of the second loop: a wanted location is first, or is the duplicate
\* of the first, which gets its insertion.
Rescanned(state, s, l) ==
  LET swapped == IF l \in s.inserted THEN SwapInsertion(s, l, LocFirst(state, l)) ELSE s
  IN IF ~Wanted(state, l) THEN s
     ELSE IF MatchesFirst(state, l) THEN [swapped EXCEPT !.duplicate = @ \cup {l}]
     ELSE [s EXCEPT !.duplicate = @ \ {l}]

\* Locations that should be inserted and are not.
Missing(state, s, b) ==
  {l \in Locations : Owner(l) = b /\ ShouldBeInserted(state, s, l) /\ l \notin s.inserted}

\* Bug: only the first location of a watchpoint is looked at.
SomeFailedFirst(state, s) ==
  {b \in Watchpoint : \E l \in Missing(state, s, b) :
                        \A m \in Locations : Owner(m) = b => l <= m}

\* The watchpoints insert_breakpoint_locations could not insert entirely.
SomeFailed(state, s) == {b \in Watchpoint : Missing(state, s, b) # {}}

InsertAll(s, locs) == ForEach(InsertBpLocation, s, locs)
RemoveAll(s, locs) == ForEach(RemoveBreakpoint, s, locs)

\* First loop of insert_breakpoint_locations: insert what is missing.
InsertMissing(state, s) ==
  InsertAll(s, UNION {Missing(state, s, b) : b \in Watchpoint})

\* Its second loop takes out the watchpoints that are only half inserted.
RemoveHalfInserted(state, s) ==
  RemoveAll(s, {l \in s.inserted : Owner(l) \in SomeFailed(state, s)})

\* update_global_location_list up to the insertion, for the watchpoints'
\* new states.
RetireAll(state, s) == ForEach(LAMBDA r, l : Retire(state, r, l), s, Locations)
RescanAll(state, s) == ForEach(LAMBDA r, l : Rescanned(state, r, l), s, Locations)
Rescan(state) == RescanAll(state, RetireAll(state, t))

\* update_global_location_list.
UpdateGlobalLocationList(state, insert) ==
  /\ enable_state' = state
  /\ Become(IF insert THEN RemoveHalfInserted(state, InsertMissing(state, Rescan(state)))
            ELSE Rescan(state))

-----------------------------------------------------------------------------
(* Commands.                                                               *)

With(b, state) == [enable_state EXCEPT ![b] = state]

\* "watch" and "awatch".
SetWatchpoint(b) ==
  /\ ~t.aborted /\ enable_state[b] = "none"
  /\ UpdateGlobalLocationList(With(b, "enabled"), running)
  /\ UNCHANGED <<running, runtime_state>>

\* "enable"
EnableWatchpoint(b) ==
  /\ ~t.aborted /\ enable_state[b] = "disabled"
  /\ UpdateGlobalLocationList(With(b, "enabled"), running)
  /\ UNCHANGED <<running, runtime_state>>

\* "disable"
DisableWatchpoint(b) ==
  /\ ~t.aborted /\ enable_state[b] = "enabled"
  /\ UpdateGlobalLocationList(With(b, "disabled"), FALSE)
  /\ UNCHANGED <<running, runtime_state>>

\* "delete"
DeleteWatchpoint(b) ==
  /\ ~t.aborted /\ enable_state[b] # "none"
  /\ UpdateGlobalLocationList(With(b, "none"), FALSE)
  /\ UNCHANGED <<running, runtime_state>>

\* proceed calls insert_breakpoints, which throws if a watchpoint could not be
\* inserted: the inferior is not resumed.
Proceed ==
  /\ ~t.aborted /\ ~running
  /\ UpdateGlobalLocationList(enable_state, TRUE)
  /\ LET all == InsertMissing(enable_state, Rescan(enable_state))
     IN running' = (SomeFailed(enable_state, all) = {})
  /\ UNCHANGED runtime_state

\* normal_stop, the last thread having stopped: maybe_remove_breakpoints.
NormalStop ==
  /\ ~t.aborted /\ running
  /\ running' = FALSE
  /\ Become(RemoveAll(t, t.inserted))
  /\ UNCHANGED <<enable_state, runtime_state>>

-----------------------------------------------------------------------------
(* The runtime and the process.                                            *)

\* insert_initial_watchpoints takes every hardware watchpoint location there
\* is: enabled or not, inserted or not, of any type.
Initial == {l \in Locations : enable_state[Owner(l)] # "none"}

\* One turn of its loop: a failure is only warned about.
InsertInitial(s, l) ==
  LET done == InsertOne(s, l)
  IN IF done.ret # 0 THEN [done EXCEPT !.warned = @ \cup {l}] ELSE done

InsertInitialAll(s, locs) == ForEach(InsertInitial, s, locs)

\* dbgapi_notifier_handler, for the runtime's LOADED_SUCCESS event.
RuntimeLoaded ==
  /\ ~t.aborted /\ ~runtime_state
  /\ runtime_state' = TRUE
  /\ Become(InsertInitialAll(t, Initial))
  /\ UNCHANGED <<enable_state, running>>

\* process_one_event, for its UNLOADED event: watchpoint_map stays as it is.
\* The library, external, may drop its watchpoints or keep them.
RuntimeUnloaded ==
  /\ ~t.aborted /\ runtime_state
  /\ runtime_state' = FALSE
  /\ \E kept \in {{}, t.gpu} : t' = [t EXCEPT !.gpu = kept, !.warned = {}]
  /\ UNCHANGED <<enable_state, running>>

\* The process is gone and the program run again: breakpoint_init_inferior
\* marks the locations out, detach_amd_dbgapi starts from an empty
\* amd_dbgapi_inferior_info.
MournInferior ==
  /\ ~t.aborted
  /\ t' = [t EXCEPT !.inserted = {}, !.host = {}, !.map = {}, !.gpu = {}, !.warned = {}]
  /\ running' = FALSE
  /\ runtime_state' = FALSE
  /\ UNCHANGED enable_state

\* GDB sits in its internal-error query.
InternalError == t.aborted /\ UNCHANGED vars

Next ==
  \/ \E b \in Watchpoint : \/ SetWatchpoint(b)
                           \/ EnableWatchpoint(b)
                           \/ DisableWatchpoint(b)
                           \/ DeleteWatchpoint(b)
  \/ Proceed
  \/ NormalStop
  \/ RuntimeLoaded
  \/ RuntimeUnloaded
  \/ MournInferior
  \/ InternalError

Spec == Init /\ [][Next]_vars

-----------------------------------------------------------------------------
(* Attributing a stop.                                                     *)

\* Bug: ranges without a common byte are reported all the same.
DataAddressAlways(hit) ==
  {CHOOSE a \in {e.address : e \in hit} : \A e \in hit : e.address <= a}

\* amd_dbgapi_target::stopped_data_address for the entries that triggered: the
\* start of the intersection of their ranges, if it is not empty.
StoppedDataAddress(hit) ==
  {a \in {e.address : e \in hit} : \A e \in hit : e.address <= a /\ a < e.end}

\* watchpoints_triggered: is the watchpoint marked triggered, or unknown?
WatchpointTriggered(b, hit) ==
  \/ StoppedDataAddress(hit) = {}
  \/ \E a \in StoppedDataAddress(hit), l \in Locations :
       Owner(l) = b /\ Address(l) <= a /\ a < End(l)

-----------------------------------------------------------------------------
(* Properties.                                                             *)

TypeOK ==
  /\ enable_state \in [Watchpoint -> {"none", "enabled", "disabled"}]
  /\ {running, runtime_state, t.aborted} \subseteq BOOLEAN
  /\ {t.inserted, t.duplicate, t.warned} \subseteq SUBSET Locations
  /\ t.host \subseteq {Region(l) : l \in Locations}
  /\ Cardinality(t.host) <= HostRegs /\ Cardinality(t.gpu) <= GpuRegs
  /\ t.ret = 0

\* The debug registers of the host hold exactly the regions of the locations
\* GDB believes inserted, whatever half of whatever insertion failed and
\* whichever duplicate took over.
HostMatches == t.host = {Region(l) : l \in t.inserted}

\* Every watchpoint GDB made the library set is in watchpoint_map, and no
\* address is there twice: no GPU watchpoint is leaked.
NoGpuLeak ==
  /\ t.gpu \subseteq t.map
  /\ \A e, f \in t.map : e.address = f.address \/ e.id = f.id => e = f

\* No other location's range lies within that of l.  remove_watchpoint takes the
\* entry that holds the range of a location for the location's own: removing
\* one of which the user was warned that the GPU does not watch it takes away
\* the watchpoint around it.
Undisturbed(l) ==
  \A m \in Locations : Address(l) <= Address(m) /\ End(m) <= End(l) => Region(m) = Region(l)

\* While the runtime is loaded, a location GDB believes inserted is watched on
\* the GPU too, unless the user was warned at the load that it is not, or another
\* location's range lies within its own.
WatchedOnGpu ==
  runtime_state => \A l \in t.inserted \ t.warned :
    Undisturbed(l) => \E e \in t.gpu : e.address = Address(l) /\ e.end = End(l)

\* Disabling or deleting a watchpoint takes no region from another that wants
\* it: a duplicate takes over the insertion, in the debug registers and on the
\* GPU, and keeps it in its own turn of the loop.
HandedOver ==
  [][(\E b \in Watchpoint : DisableWatchpoint(b) \/ DeleteWatchpoint(b)) /\ ~t'.aborted =>
       \A l \in Locations : Wanted(enable_state', l) =>
         /\ Region(l) \in t.host => Region(l) \in t'.host
         /\ Undisturbed(l) =>
              \A e \in t.gpu : e.address = Address(l) /\ e.end = End(l) => e \in t'.gpu]_vars

\* Whatever set of GPU watchpoints triggers at once, every watchpoint with an
\* inserted location among them is considered for the stop.
TriggerAttributed ==
  \A hit \in SUBSET t.gpu : hit # {} =>
    \A l \in t.inserted : (\E e \in hit : e.address = Address(l) /\ e.end = End(l))
                            => WatchpointTriggered(Owner(l), hit)

\* The inferior is not resumed while an enabled watchpoint lacks a location.
ResumedWatched ==
  [][~running /\ running' =>
       \A l \in Locations : Wanted(enable_state', l) =>
         \E m \in t'.inserted : Region(m) = Region(l)]_vars

=============================================================================
