------------------------- MODULE WatchpointsProofs -------------------------
(***************************************************************************)
(* What Watchpoints keeps for every list of locations and every number of  *)
(* debug registers.                                                        *)
(***************************************************************************)
EXTENDS Watchpoints, LoopTheorems, FiniteSetTheorems, TLAPS

(***************************************************************************)
(* The loops over the locations.  Each says: if the pass for location l    *)
(* takes every state of X[l - 1] to one of X[l], the loop takes a state of *)
(* X[0] to one of the last set.                                            *)
(***************************************************************************)

Last == Len(BpLocations)

\* The locations are the numbers up to the last.
LEMMA LocationFacts ==
  /\ Last \in Nat
  /\ Locations = 1..Last
  /\ IsFiniteSet(Locations)
  /\ {HostRegs, GpuRegs} \subseteq Nat
  /\ \A l \in Locations : /\ Address(l) \in Nat /\ End(l) \in Nat
                          /\ Type(l) \in {"hw_write", "hw_access"}
                          /\ Owner(l) \in Watchpoint
  /\ \A l, m \in Locations : l < m => Address(l) <= Address(m)
<1>1. Last \in Nat /\ Locations = 1..Last
  BY LocationsAssumption DEF Last, Locations
<1>2. IsFiniteSet(Locations)
  BY <1>1, FS_Interval
<1>3. \A l \in Locations : BpLocations[l] \in [address : Nat, end : Nat,
                             type : {"hw_write", "hw_access"}, owner : Nat]
  <2> DEFINE Location == [address : Nat, end : Nat,
                          type : {"hw_write", "hw_access"}, owner : Nat]
  <2>1. BpLocations \in Seq(Location)
    BY LocationsAssumption
  <2> HIDE DEF Location
  <2>2. \A l \in Locations : BpLocations[l] \in Location
    BY <2>1 DEF Locations
  <2> QED  BY <2>2 DEF Location
<1> QED
  BY <1>1, <1>2, <1>3, LocationsAssumption
     DEF Locations, Address, End, Type, Owner, Watchpoint

\* The loop of remove_breakpoints, and the one that takes out what is half inserted.
LEMMA RemoveLoop ==
  ASSUME NEW X, NEW s \in X[0], NEW locs,
         \A l \in Locations : \A x \in X[l - 1] : (IF l \in locs THEN RemoveBreakpoint(x, l) ELSE x) \in X[l]
  PROVE  RemoveAll(s, locs) \in X[Last]
<1> DEFINE Turn(x, l) == (IF l \in locs THEN RemoveBreakpoint(x, l) ELSE x)
           pass == [l \in Locations |-> [x \in X[l - 1] |-> Turn(x, l)]]
           Def(f) == [l \in 0..Last |-> IF l = 0 THEN s ELSE (IF l \in locs THEN RemoveBreakpoint(f[l - 1], l) ELSE f[l - 1])]
<1>1. ASSUME NEW l \in 1..Last, NEW x \in X[l - 1]
      PROVE  pass[l][x] = Turn(x, l) /\ Turn(x, l) \in X[l]
  BY LocationFacts
<1> HIDE DEF pass, Turn
<1>2. IsLoop(Last, X, pass, s)
  BY <1>1 DEF IsLoop
<1>3. PICK f : IsRun(Last, X, pass, s, f)
  BY <1>2, LocationFacts, LoopRuns
<1>4. f = Def(f)
  <2>1. \A l \in 0..Last : f[l] = IF l = 0 THEN s ELSE Turn(f[l - 1], l)
    <3>1. \A l \in 0..Last : l = 0 \/ (l \in 1..Last /\ l - 1 \in 0..Last)
      BY LocationFacts
    <3> QED  BY <1>1, <1>3, <3>1 DEF IsRun
  <2>2. f = [l \in 0..Last |-> f[l]]
    BY <1>3 DEF IsRun
  <2> QED  BY <2>1, <2>2 DEF Turn
<1> DEFINE after == CHOOSE g : g = Def(g)
<1>5. after = Def(after)
  <2> HIDE DEF Def
  <2> QED  BY <1>4
<1>6. RemoveAll(s, locs) = after[Last]
  BY LocationFacts DEF RemoveAll, ForEach, Last
<1> HIDE DEF after
<1>7. /\ after[0] = s
      /\ \A l \in 1..Last : after[l] = Turn(after[l - 1], l)
  <2>1. 0 \in 0..Last /\ \A l \in 1..Last : l \in 0..Last /\ l # 0
    BY LocationFacts
  <2> QED  BY <1>5, <2>1 DEF Turn
<1>8. after[Last] \in X[Last]
  <2>1. \A l \in 1..Last :
          after[l - 1] \in X[l - 1] => after[l] = pass[l][after[l - 1]]
    BY <1>1, <1>7
  <2> QED  BY <1>2, <1>7, <2>1, LocationFacts, LoopEnds
<1> QED  BY <1>6, <1>8

\* The loop of insert_breakpoint_locations.
LEMMA InsertLoop ==
  ASSUME NEW X, NEW s \in X[0], NEW locs,
         \A l \in Locations : \A x \in X[l - 1] : (IF l \in locs THEN InsertBpLocation(x, l) ELSE x) \in X[l]
  PROVE  InsertAll(s, locs) \in X[Last]
<1> DEFINE Turn(x, l) == (IF l \in locs THEN InsertBpLocation(x, l) ELSE x)
           pass == [l \in Locations |-> [x \in X[l - 1] |-> Turn(x, l)]]
           Def(f) == [l \in 0..Last |-> IF l = 0 THEN s ELSE (IF l \in locs THEN InsertBpLocation(f[l - 1], l) ELSE f[l - 1])]
<1>1. ASSUME NEW l \in 1..Last, NEW x \in X[l - 1]
      PROVE  pass[l][x] = Turn(x, l) /\ Turn(x, l) \in X[l]
  BY LocationFacts
<1> HIDE DEF pass, Turn
<1>2. IsLoop(Last, X, pass, s)
  BY <1>1 DEF IsLoop
<1>3. PICK f : IsRun(Last, X, pass, s, f)
  BY <1>2, LocationFacts, LoopRuns
<1>4. f = Def(f)
  <2>1. \A l \in 0..Last : f[l] = IF l = 0 THEN s ELSE Turn(f[l - 1], l)
    <3>1. \A l \in 0..Last : l = 0 \/ (l \in 1..Last /\ l - 1 \in 0..Last)
      BY LocationFacts
    <3> QED  BY <1>1, <1>3, <3>1 DEF IsRun
  <2>2. f = [l \in 0..Last |-> f[l]]
    BY <1>3 DEF IsRun
  <2> QED  BY <2>1, <2>2 DEF Turn
<1> DEFINE after == CHOOSE g : g = Def(g)
<1>5. after = Def(after)
  <2> HIDE DEF Def
  <2> QED  BY <1>4
<1>6. InsertAll(s, locs) = after[Last]
  BY LocationFacts DEF InsertAll, ForEach, Last
<1> HIDE DEF after
<1>7. /\ after[0] = s
      /\ \A l \in 1..Last : after[l] = Turn(after[l - 1], l)
  <2>1. 0 \in 0..Last /\ \A l \in 1..Last : l \in 0..Last /\ l # 0
    BY LocationFacts
  <2> QED  BY <1>5, <2>1 DEF Turn
<1>8. after[Last] \in X[Last]
  <2>1. \A l \in 1..Last :
          after[l - 1] \in X[l - 1] => after[l] = pass[l][after[l - 1]]
    BY <1>1, <1>7
  <2> QED  BY <1>2, <1>7, <2>1, LocationFacts, LoopEnds
<1> QED  BY <1>6, <1>8

\* The loop of insert_initial_watchpoints.
LEMMA InitialLoop ==
  ASSUME NEW X, NEW s \in X[0], NEW locs,
         \A l \in Locations : \A x \in X[l - 1] : (IF l \in locs THEN InsertInitial(x, l) ELSE x) \in X[l]
  PROVE  InsertInitialAll(s, locs) \in X[Last]
<1> DEFINE Turn(x, l) == (IF l \in locs THEN InsertInitial(x, l) ELSE x)
           pass == [l \in Locations |-> [x \in X[l - 1] |-> Turn(x, l)]]
           Def(f) == [l \in 0..Last |-> IF l = 0 THEN s ELSE (IF l \in locs THEN InsertInitial(f[l - 1], l) ELSE f[l - 1])]
<1>1. ASSUME NEW l \in 1..Last, NEW x \in X[l - 1]
      PROVE  pass[l][x] = Turn(x, l) /\ Turn(x, l) \in X[l]
  BY LocationFacts
<1> HIDE DEF pass, Turn
<1>2. IsLoop(Last, X, pass, s)
  BY <1>1 DEF IsLoop
<1>3. PICK f : IsRun(Last, X, pass, s, f)
  BY <1>2, LocationFacts, LoopRuns
<1>4. f = Def(f)
  <2>1. \A l \in 0..Last : f[l] = IF l = 0 THEN s ELSE Turn(f[l - 1], l)
    <3>1. \A l \in 0..Last : l = 0 \/ (l \in 1..Last /\ l - 1 \in 0..Last)
      BY LocationFacts
    <3> QED  BY <1>1, <1>3, <3>1 DEF IsRun
  <2>2. f = [l \in 0..Last |-> f[l]]
    BY <1>3 DEF IsRun
  <2> QED  BY <2>1, <2>2 DEF Turn
<1> DEFINE after == CHOOSE g : g = Def(g)
<1>5. after = Def(after)
  <2> HIDE DEF Def
  <2> QED  BY <1>4
<1>6. InsertInitialAll(s, locs) = after[Last]
  BY LocationFacts DEF InsertInitialAll, ForEach, Last
<1> HIDE DEF after
<1>7. /\ after[0] = s
      /\ \A l \in 1..Last : after[l] = Turn(after[l - 1], l)
  <2>1. 0 \in 0..Last /\ \A l \in 1..Last : l \in 0..Last /\ l # 0
    BY LocationFacts
  <2> QED  BY <1>5, <2>1 DEF Turn
<1>8. after[Last] \in X[Last]
  <2>1. \A l \in 1..Last :
          after[l - 1] \in X[l - 1] => after[l] = pass[l][after[l - 1]]
    BY <1>1, <1>7
  <2> QED  BY <1>2, <1>7, <2>1, LocationFacts, LoopEnds
<1> QED  BY <1>6, <1>8

\* The first loop of update_global_location_list.
LEMMA RetireLoop ==
  ASSUME NEW X, NEW state, NEW s \in X[0],
         \A l \in Locations : \A x \in X[l - 1] : Retire(state, x, l) \in X[l]
  PROVE  RetireAll(state, s) \in X[Last]
<1> DEFINE Turn(x, l) == (IF l \in Locations THEN Retire(state, x, l) ELSE x)
           pass == [l \in Locations |-> [x \in X[l - 1] |-> Turn(x, l)]]
           Def(f) == [l \in 0..Last |-> IF l = 0 THEN s ELSE (IF l \in Locations THEN Retire(state, f[l - 1], l) ELSE f[l - 1])]
<1>1. ASSUME NEW l \in 1..Last, NEW x \in X[l - 1]
      PROVE  pass[l][x] = Turn(x, l) /\ Turn(x, l) \in X[l]
  BY LocationFacts
<1> HIDE DEF pass, Turn
<1>2. IsLoop(Last, X, pass, s)
  BY <1>1 DEF IsLoop
<1>3. PICK f : IsRun(Last, X, pass, s, f)
  BY <1>2, LocationFacts, LoopRuns
<1>4. f = Def(f)
  <2>1. \A l \in 0..Last : f[l] = IF l = 0 THEN s ELSE Turn(f[l - 1], l)
    <3>1. \A l \in 0..Last : l = 0 \/ (l \in 1..Last /\ l - 1 \in 0..Last)
      BY LocationFacts
    <3> QED  BY <1>1, <1>3, <3>1 DEF IsRun
  <2>2. f = [l \in 0..Last |-> f[l]]
    BY <1>3 DEF IsRun
  <2> QED  BY <2>1, <2>2 DEF Turn
<1> DEFINE after == CHOOSE g : g = Def(g)
<1>5. after = Def(after)
  <2> HIDE DEF Def
  <2> QED  BY <1>4
<1>6. RetireAll(state, s) = after[Last]
  BY LocationFacts DEF RetireAll, ForEach, Last
<1> HIDE DEF after
<1>7. /\ after[0] = s
      /\ \A l \in 1..Last : after[l] = Turn(after[l - 1], l)
  <2>1. 0 \in 0..Last /\ \A l \in 1..Last : l \in 0..Last /\ l # 0
    BY LocationFacts
  <2> QED  BY <1>5, <2>1 DEF Turn
<1>8. after[Last] \in X[Last]
  <2>1. \A l \in 1..Last :
          after[l - 1] \in X[l - 1] => after[l] = pass[l][after[l - 1]]
    BY <1>1, <1>7
  <2> QED  BY <1>2, <1>7, <2>1, LocationFacts, LoopEnds
<1> QED  BY <1>6, <1>8

\* Its second loop.
LEMMA RescanLoop ==
  ASSUME NEW X, NEW state, NEW s \in X[0],
         \A l \in Locations : \A x \in X[l - 1] : Rescanned(state, x, l) \in X[l]
  PROVE  RescanAll(state, s) \in X[Last]
<1> DEFINE Turn(x, l) == (IF l \in Locations THEN Rescanned(state, x, l) ELSE x)
           pass == [l \in Locations |-> [x \in X[l - 1] |-> Turn(x, l)]]
           Def(f) == [l \in 0..Last |-> IF l = 0 THEN s ELSE (IF l \in Locations THEN Rescanned(state, f[l - 1], l) ELSE f[l - 1])]
<1>1. ASSUME NEW l \in 1..Last, NEW x \in X[l - 1]
      PROVE  pass[l][x] = Turn(x, l) /\ Turn(x, l) \in X[l]
  BY LocationFacts
<1> HIDE DEF pass, Turn
<1>2. IsLoop(Last, X, pass, s)
  BY <1>1 DEF IsLoop
<1>3. PICK f : IsRun(Last, X, pass, s, f)
  BY <1>2, LocationFacts, LoopRuns
<1>4. f = Def(f)
  <2>1. \A l \in 0..Last : f[l] = IF l = 0 THEN s ELSE Turn(f[l - 1], l)
    <3>1. \A l \in 0..Last : l = 0 \/ (l \in 1..Last /\ l - 1 \in 0..Last)
      BY LocationFacts
    <3> QED  BY <1>1, <1>3, <3>1 DEF IsRun
  <2>2. f = [l \in 0..Last |-> f[l]]
    BY <1>3 DEF IsRun
  <2> QED  BY <2>1, <2>2 DEF Turn
<1> DEFINE after == CHOOSE g : g = Def(g)
<1>5. after = Def(after)
  <2> HIDE DEF Def
  <2> QED  BY <1>4
<1>6. RescanAll(state, s) = after[Last]
  BY LocationFacts DEF RescanAll, ForEach, Last
<1> HIDE DEF after
<1>7. /\ after[0] = s
      /\ \A l \in 1..Last : after[l] = Turn(after[l - 1], l)
  <2>1. 0 \in 0..Last /\ \A l \in 1..Last : l \in 0..Last /\ l # 0
    BY LocationFacts
  <2> QED  BY <1>5, <2>1 DEF Turn
<1>8. after[Last] \in X[Last]
  <2>1. \A l \in 1..Last :
          after[l - 1] \in X[l - 1] => after[l] = pass[l][after[l - 1]]
    BY <1>1, <1>7
  <2> QED  BY <1>2, <1>7, <2>1, LocationFacts, LoopEnds
<1> QED  BY <1>6, <1>8

(***************************************************************************)
(* The states the targets and breakpoint.c work on.                        *)
(***************************************************************************)

Entries == [address : Nat, end : Nat, id : Nat \X Nat]

\* What every step of every loop keeps: the fields have their types (Fields);
\* the library's watchpoints are in watchpoint_map, where no address is twice;
\* the registers suffice.
Fields ==
  [inserted : SUBSET Locations, duplicate : SUBSET Locations,
   host : SUBSET {Region(l) : l \in Locations},
   map : SUBSET Entries, gpu : SUBSET Entries, warned : SUBSET Locations,
   aborted : BOOLEAN, ret : {0, 1}]

Base ==
  {s \in Fields :
     /\ s.gpu \subseteq s.map
     /\ \A e \in s.map : e.id[1] = e.address
     /\ \A e, f \in s.map : e.address = f.address => e = f
     /\ IsFiniteSet(s.gpu) /\ Cardinality(s.gpu) <= GpuRegs
     /\ Cardinality(s.host) <= HostRegs}

\* amd_dbgapi_set_watchpoint finds a fresh id.
LEMMA FreshFacts ==
  ASSUME NEW s \in Base, NEW l \in Locations
  PROVE  /\ FreshId(s, l) \in Nat \X Nat
         /\ FreshId(s, l)[1] = Address(l)
         /\ \A e \in s.map : e.id # FreshId(s, l)
<1> DEFINE used == {e.id : e \in s.map \cup s.gpu}
           fresh == {i \in 0..(GpuRegs + 1) : <<Address(l), i>> \notin used}
           i == CHOOSE i \in fresh : \A j \in fresh : i <= j
<1>1. Address(l) \in Nat /\ GpuRegs \in Nat
  BY LocationFacts
<1>2. fresh # {}
  <2>1. 0 \in 0..(GpuRegs + 1) /\ 1 \in 0..(GpuRegs + 1)
    BY <1>1
  <2>2. SUFFICES ASSUME <<Address(l), 0>> \in used, <<Address(l), 1>> \in used
                 PROVE  FALSE
    BY <2>1
  <2>3. PICK e \in s.map : e.id = <<Address(l), 0>>
    BY <2>2 DEF Base
  <2>4. PICK f \in s.map : f.id = <<Address(l), 1>>
    BY <2>2 DEF Base
  <2>5. e.address = f.address
    BY <2>3, <2>4 DEF Base
  <2>6. e = f
    BY <2>5 DEF Base
  <2> QED  BY <2>3, <2>4, <2>6
<1>3. fresh \subseteq Nat
  BY <1>1
<1>4. i \in fresh
  <2> HIDE DEF fresh
  <2> QED  BY <1>2, <1>3, LeastNat
<1>5. i \in Nat /\ <<Address(l), i>> \notin used
  BY <1>3, <1>4
<1>6. FreshId(s, l) = <<Address(l), i>>
  BY DEF FreshId
<1> HIDE DEF i
<1> QED  BY <1>1, <1>5, <1>6

\* insert_one_watchpoint adds an entry for the location, or nothing.
LEMMA InsertOneFacts ==
  ASSUME NEW s \in Base, NEW l \in Locations
  PROVE  LET r == InsertOne(s, l)
         IN /\ r \in Base
            /\ <<r.inserted, r.duplicate, r.host, r.warned, r.aborted>>
                 = <<s.inserted, s.duplicate, s.host, s.warned, s.aborted>>
            /\ r.ret = 0 => /\ s.gpu \subseteq r.gpu
                            /\ \E e \in r.gpu : e.address = Address(l) /\ e.end = End(l)
                            /\ \A e \in s.map : e.address # Address(l)
            /\ r.ret # 0 => r.map = s.map /\ r.gpu = s.gpu
<1> DEFINE it == [address |-> Address(l), end |-> End(l), id |-> FreshId(s, l)]
           set == [s EXCEPT !.gpu = @ \cup {it}, !.ret = 0]
           r == InsertOne(s, l)
<1>1. /\ it \in Entries /\ it.id[1] = it.address /\ it.id = FreshId(s, l)
      /\ it.address = Address(l) /\ it.end = End(l)
  BY FreshFacts, LocationFacts DEF Entries
<1>2. \A e \in s.map : e.id # it.id
  BY <1>1, FreshFacts
<1>3. CASE Cardinality(s.gpu) >= GpuRegs
  <2>1. r = [s EXCEPT !.ret = 1]
    BY <1>3 DEF InsertOne
  <2>2. /\ r \in Fields /\ r.ret = 1 /\ r.map = s.map /\ r.gpu = s.gpu
        /\ <<r.inserted, r.duplicate, r.host, r.warned, r.aborted>>
             = <<s.inserted, s.duplicate, s.host, s.warned, s.aborted>>
    <3> HIDE DEF r
    <3> QED  BY <2>1 DEF Base, Fields
  <2> HIDE DEF r
  <2>3. r \in Base
    BY <2>2 DEF Base
  <2> QED  BY <2>2, <2>3 DEF r
<1>4. CASE /\ ~(Cardinality(s.gpu) >= GpuRegs)
           /\ l \in Reduced \/ \E e \in s.map : e.address = Address(l)
  <2>1. r = Release(set, it.id)
    BY <1>1, <1>4 DEF InsertOne
  <2>2. {e \in s.gpu \cup {it} : e.id # it.id} = s.gpu
    BY <1>2 DEF Base
  <2>3. r = [s EXCEPT !.gpu = {e \in s.gpu \cup {it} : e.id # it.id}, !.ret = 1]
    BY <2>1 DEF Release, Base
  <2>4. r = [s EXCEPT !.gpu = s.gpu, !.ret = 1]
    BY <2>2, <2>3
  <2>5. /\ r \in Fields /\ r.ret = 1 /\ r.map = s.map /\ r.gpu = s.gpu
        /\ <<r.inserted, r.duplicate, r.host, r.warned, r.aborted>>
             = <<s.inserted, s.duplicate, s.host, s.warned, s.aborted>>
    <3> HIDE DEF r
    <3> QED  BY <2>4 DEF Base, Fields
  <2> HIDE DEF r
  <2>6. r \in Base
    BY <2>5 DEF Base
  <2> QED  BY <2>5, <2>6 DEF r
<1>5. CASE /\ ~(Cardinality(s.gpu) >= GpuRegs)
           /\ ~(l \in Reduced \/ \E e \in s.map : e.address = Address(l))
  <2>1. r = [s EXCEPT !.gpu = @ \cup {it}, !.map = @ \cup {it}, !.ret = 0]
    BY <1>1, <1>5 DEF InsertOne, Base
  <2>2. IsFiniteSet(s.gpu \cup {it}) /\ Cardinality(s.gpu \cup {it}) <= GpuRegs
    <3>1. /\ IsFiniteSet(s.gpu) /\ Cardinality(s.gpu) \in Nat
          /\ Cardinality(s.gpu) < GpuRegs /\ GpuRegs \in Nat
      BY <1>5, LocationFacts, FS_CardinalityType DEF Base
    <3>2. /\ IsFiniteSet(s.gpu \cup {it})
          /\ \/ Cardinality(s.gpu \cup {it}) = Cardinality(s.gpu)
             \/ Cardinality(s.gpu \cup {it}) = Cardinality(s.gpu) + 1
      <4> HIDE DEF it
      <4> QED  BY <3>1, FS_AddElement
    <3> QED  BY <3>1, <3>2
  <2> HIDE DEF r, it
  <2>3. /\ r \in Fields /\ r.ret = 0
        /\ r.map = s.map \cup {it} /\ r.gpu = s.gpu \cup {it}
        /\ <<r.inserted, r.duplicate, r.host, r.warned, r.aborted>>
             = <<s.inserted, s.duplicate, s.host, s.warned, s.aborted>>
    BY <1>1, <2>1 DEF Base, Fields
  <2>4. \A e \in s.map : e.address # it.address
    BY <1>1, <1>5
  <2>5. r \in Base
    BY <1>1, <2>2, <2>3, <2>4 DEF Base
  <2> QED  BY <1>1, <2>3, <2>4, <2>5 DEF r
<1> QED  BY <1>3, <1>4, <1>5

\* A subset of the regions is finite.
LEMMA RegionsFinite ==
  ASSUME NEW S, S \subseteq {Region(l) : l \in Locations}
  PROVE  IsFiniteSet(S) /\ Cardinality(S) \in Nat
<1>1. IsFiniteSet({Region(l) : l \in Locations})
  <2> DEFINE T == {Region(l) : l \in Locations}
             f == [l \in Locations |-> Region(l)]
  <2>1. f \in Surjection(Locations, T)
    BY DEF Surjection
  <2> HIDE DEF T, f
  <2>2. IsFiniteSet(T)
    BY <2>1, LocationFacts, FS_Surjection
  <2> QED  BY <2>2 DEF T
<1> QED  BY <1>1, FS_Subset, FS_CardinalityType

\* The debug registers take the region, unless all are in use.
LEMMA HostInsertFacts ==
  ASSUME NEW s \in Base, NEW l \in Locations
  PROVE  LET r == HostInsert(s, l)
         IN /\ r \in Base
            /\ <<r.inserted, r.duplicate, r.map, r.gpu, r.warned, r.aborted>>
                 = <<s.inserted, s.duplicate, s.map, s.gpu, s.warned, s.aborted>>
            /\ r.host = IF r.ret = 0 THEN s.host \cup {Region(l)} ELSE s.host
<1> DEFINE r == HostInsert(s, l)
           b == s.host \cup {Region(l)}
<1>1. CASE Cardinality(s.host) < HostRegs
  <2>1. r = [s EXCEPT !.host = b, !.ret = 0]
    BY <1>1 DEF HostInsert
  <2>2. b \subseteq {Region(m) : m \in Locations}
    BY DEF Base, Fields
  <2>3. Cardinality(b) <= HostRegs
    <3>1. /\ IsFiniteSet(s.host) /\ Cardinality(s.host) \in Nat
          /\ HostRegs \in Nat
      BY LocationFacts, RegionsFinite DEF Base, Fields
    <3>2. \/ Cardinality(b) = Cardinality(s.host)
          \/ Cardinality(b) = Cardinality(s.host) + 1
      BY <3>1, FS_AddElement
    <3> QED  BY <1>1, <3>1, <3>2
  <2>4. /\ r \in Fields /\ r.ret = 0 /\ r.host = b
        /\ <<r.inserted, r.duplicate, r.map, r.gpu, r.warned, r.aborted>>
             = <<s.inserted, s.duplicate, s.map, s.gpu, s.warned, s.aborted>>
    <3> HIDE DEF r, b
    <3> QED  BY <2>1, <2>2 DEF Base, Fields
  <2>5. r \in Base
    <3> HIDE DEF r, b
    <3> QED  BY <2>3, <2>4 DEF Base
  <2> HIDE DEF r
  <2> QED  BY <2>4, <2>5 DEF r
<1>2. CASE ~(Cardinality(s.host) < HostRegs)
  <2>1. r = [s EXCEPT !.ret = 1]
    BY <1>2 DEF HostInsert
  <2> HIDE DEF r
  <2>2. /\ r \in Fields /\ r.ret = 1 /\ r.host = s.host
        /\ <<r.inserted, r.duplicate, r.map, r.gpu, r.warned, r.aborted>>
             = <<s.inserted, s.duplicate, s.map, s.gpu, s.warned, s.aborted>>
    BY <2>1 DEF Base, Fields
  <2>3. r \in Base
    BY <2>2 DEF Base
  <2> QED  BY <2>2, <2>3 DEF r
<1> QED  BY <1>1, <1>2

\* They give it up again.
LEMMA HostRemoveFacts ==
  ASSUME NEW s \in Base, NEW l \in Locations
  PROVE  LET r == HostRemove(s, l)
         IN /\ r \in Base
            /\ <<r.inserted, r.duplicate, r.map, r.gpu, r.warned, r.aborted>>
                 = <<s.inserted, s.duplicate, s.map, s.gpu, s.warned, s.aborted>>
            /\ r.host = s.host \ {Region(l)} /\ r.ret = 0
<1> DEFINE r == HostRemove(s, l)
           b == s.host \ {Region(l)}
<1>1. r = [s EXCEPT !.host = b, !.ret = 0]
  BY DEF HostRemove
<1>2. b \subseteq s.host
  OBVIOUS
<1>3. Cardinality(b) <= HostRegs
  <2>1. /\ IsFiniteSet(s.host) /\ Cardinality(s.host) \in Nat
        /\ Cardinality(b) \in Nat
        /\ HostRegs \in Nat
    BY <1>2, LocationFacts, RegionsFinite DEF Base, Fields
  <2>2. Cardinality(b) <= Cardinality(s.host)
    BY <1>2, <2>1, FS_Subset
  <2> QED  BY <2>1, <2>2 DEF Base
<1> HIDE DEF r
<1>4. /\ r \in Fields /\ r.ret = 0 /\ r.host = b
      /\ <<r.inserted, r.duplicate, r.map, r.gpu, r.warned, r.aborted>>
           = <<s.inserted, s.duplicate, s.map, s.gpu, s.warned, s.aborted>>
  BY <1>1, <1>2 DEF Base, Fields
<1>5. r \in Base
  BY <1>3, <1>4 DEF Base
<1> QED  BY <1>4, <1>5 DEF r

\* What an insertion does that did not succeed, and one that did.
NotInserted(s, r, l) ==
  /\ <<r.inserted, r.duplicate, r.map, r.gpu, r.warned, r.aborted>>
       = <<s.inserted, s.duplicate, s.map, s.gpu, s.warned, s.aborted>>
  /\ r.host = s.host \/ r.host = (s.host \cup {Region(l)}) \ {Region(l)}

GpuInserted(s, r, l) ==
  /\ Type(l) = "hw_write"
  /\ s.gpu \subseteq r.gpu
  /\ \E e \in r.gpu : e.address = Address(l) /\ e.end = End(l)
  /\ \A e \in s.map : e.address # Address(l)

\* insert_watchpoint has done both halves, or, told by its result, none.
LEMMA InsertWatchpointFacts ==
  ASSUME NEW s \in Base, NEW l \in Locations
  PROVE  LET r == InsertWatchpoint(s, l)
         IN /\ r \in Base
            /\ r.ret # 0 => NotInserted(s, r, l)
            /\ r.ret = 0 => /\ <<r.inserted, r.duplicate, r.warned, r.aborted>>
                                 = <<s.inserted, s.duplicate, s.warned, s.aborted>>
                            /\ r.host = s.host \cup {Region(l)}
                            /\ IF runtime_state THEN GpuInserted(s, r, l)
                               ELSE r.map = s.map /\ r.gpu = s.gpu
<1> DEFINE r == InsertWatchpoint(s, l)
           host == HostInsert(s, l)
           gpu == InsertOne(host, l)
<1>1. /\ host \in Base
      /\ <<host.inserted, host.duplicate, host.map, host.gpu, host.warned, host.aborted>>
           = <<s.inserted, s.duplicate, s.map, s.gpu, s.warned, s.aborted>>
      /\ host.host = IF host.ret = 0 THEN s.host \cup {Region(l)} ELSE s.host
  BY HostInsertFacts
<1>2. /\ gpu \in Base
      /\ <<gpu.inserted, gpu.duplicate, gpu.host, gpu.warned, gpu.aborted>>
           = <<host.inserted, host.duplicate, host.host, host.warned, host.aborted>>
      /\ gpu.ret = 0 => /\ host.gpu \subseteq gpu.gpu
                        /\ \E e \in gpu.gpu : e.address = Address(l) /\ e.end = End(l)
                        /\ \A e \in host.map : e.address # Address(l)
      /\ gpu.ret # 0 => gpu.map = host.map /\ gpu.gpu = host.gpu
  <2> HIDE DEF host
  <2> QED  BY <1>1, InsertOneFacts
<1>3. CASE runtime_state /\ Type(l) # "hw_write"
  <2>1. r = [s EXCEPT !.ret = 1]
    BY <1>3 DEF InsertWatchpoint
  <2> HIDE DEF r
  <2>2. /\ r \in Fields /\ r.ret = 1 /\ r.host = s.host
        /\ <<r.inserted, r.duplicate, r.map, r.gpu, r.warned, r.aborted>>
             = <<s.inserted, s.duplicate, s.map, s.gpu, s.warned, s.aborted>>
    BY <2>1 DEF Base, Fields
  <2>3. r \in Base
    BY <2>2 DEF Base
  <2> QED  BY <2>2, <2>3 DEF r, NotInserted
<1>4. CASE ~(runtime_state /\ Type(l) # "hw_write") /\ (host.ret # 0 \/ ~runtime_state)
  <2>1. r = host
    BY <1>4 DEF InsertWatchpoint
  <2> HIDE DEF r, host
  <2> QED  BY <1>1, <1>4, <2>1 DEF r, NotInserted
<1>5. CASE /\ ~(runtime_state /\ Type(l) # "hw_write")
           /\ ~(host.ret # 0 \/ ~runtime_state)
           /\ gpu.ret # 0
  <2> DEFINE back == HostRemove(gpu, l)
  <2>1. /\ back \in Base
        /\ <<back.inserted, back.duplicate, back.map, back.gpu, back.warned, back.aborted>>
             = <<gpu.inserted, gpu.duplicate, gpu.map, gpu.gpu, gpu.warned, gpu.aborted>>
        /\ back.host = gpu.host \ {Region(l)}
    <3> HIDE DEF gpu
    <3> QED  BY <1>2, HostRemoveFacts
  <2>2. r = [back EXCEPT !.ret = 1]
    BY <1>5 DEF InsertWatchpoint, RollBack
  <2> HIDE DEF r, host, gpu, back
  <2>3. /\ r \in Fields /\ r.ret = 1 /\ r.host = back.host
        /\ <<r.inserted, r.duplicate, r.map, r.gpu, r.warned, r.aborted>>
             = <<back.inserted, back.duplicate, back.map, back.gpu, back.warned, back.aborted>>
    BY <2>1, <2>2 DEF Base, Fields
  <2>4. r \in Base
    BY <2>1, <2>3 DEF Base
  <2> QED  BY <1>1, <1>2, <1>5, <2>1, <2>3, <2>4 DEF r, NotInserted
<1>6. CASE /\ ~(runtime_state /\ Type(l) # "hw_write")
           /\ ~(host.ret # 0 \/ ~runtime_state)
           /\ ~(gpu.ret # 0)
  <2>1. r = gpu
    BY <1>6 DEF InsertWatchpoint
  <2> HIDE DEF r, host, gpu
  <2> QED  BY <1>1, <1>2, <1>6, <2>1 DEF r, GpuInserted
<1> QED  BY <1>3, <1>4, <1>5, <1>6

\* insert_bp_location marks the location inserted exactly when it is.
Inserted(s, r, l) ==
  /\ r.inserted = s.inserted \cup {l} /\ r.duplicate = s.duplicate
  /\ r.warned = s.warned \ {l}
  /\ r.aborted = s.aborted
  /\ r.host = s.host \cup {Region(l)}
  /\ IF runtime_state THEN GpuInserted(s, r, l)
     ELSE r.map = s.map /\ r.gpu = s.gpu

LEMMA InsertBpLocationFacts ==
  ASSUME NEW s \in Base, NEW l \in Locations
  PROVE  LET r == InsertBpLocation(s, l)
         IN /\ r \in Base
            /\ s.aborted => r = s
            /\ ~s.aborted => NotInserted(s, r, l) \/ Inserted(s, r, l)
<1> DEFINE r == InsertBpLocation(s, l)
           done == InsertWatchpoint(s, l)
<1>1. /\ done \in Base
      /\ done.ret # 0 => NotInserted(s, done, l)
      /\ done.ret = 0 => /\ <<done.inserted, done.duplicate, done.warned, done.aborted>>
                              = <<s.inserted, s.duplicate, s.warned, s.aborted>>
                         /\ done.host = s.host \cup {Region(l)}
                         /\ IF runtime_state THEN GpuInserted(s, done, l)
                            ELSE done.map = s.map /\ done.gpu = s.gpu
  BY InsertWatchpointFacts
<1> HIDE DEF done
<1>2. CASE s.aborted \/ done.ret # 0
  BY <1>1, <1>2 DEF InsertBpLocation, done
<1>3. CASE ~s.aborted /\ done.ret = 0
  <2>1. r = [done EXCEPT !.inserted = @ \cup {l}, !.warned = @ \ {l}]
    BY <1>3 DEF InsertBpLocation, done
  <2> HIDE DEF r
  <2>2. /\ r \in Fields
        /\ r.inserted = done.inserted \cup {l} /\ r.warned = done.warned \ {l}
        /\ <<r.duplicate, r.host, r.map, r.gpu, r.aborted>>
             = <<done.duplicate, done.host, done.map, done.gpu, done.aborted>>
    BY <1>1, <2>1 DEF Base, Fields
  <2>3. r \in Base
    BY <1>1, <2>2 DEF Base
  <2>4. Inserted(s, r, l)
    BY <1>1, <1>3, <2>2 DEF Inserted, GpuInserted
  <2> QED  BY <1>3, <2>3, <2>4 DEF r
<1> QED  BY <1>2, <1>3

\* What remove_breakpoint_1 does: the host half always goes; on the GPU the
\* entry that was found goes, if any does.
Removed(s, r, l) ==
  /\ r.inserted = s.inserted \ {l} /\ r.duplicate = s.duplicate
  /\ r.warned = s.warned \ {l}
  /\ r.host = s.host \ {Region(l)}
  /\ r.gpu \subseteq s.gpu
  /\ \A e \in s.gpu \ r.gpu : /\ runtime_state /\ Type(l) = "hw_write"
                              /\ e \in Found(s, l)

LEMMA RemoveBreakpointFacts ==
  ASSUME NEW s \in Base, NEW l \in Locations
  PROVE  LET r == RemoveBreakpoint(s, l)
         IN /\ r \in Base
            /\ s.aborted => r = s
            /\ ~s.aborted => Removed(s, r, l)
<1> DEFINE r == RemoveBreakpoint(s, l)
           out == [s EXCEPT !.inserted = @ \ {l}, !.warned = @ \ {l}]
           host == HostRemove(out, l)
           found == Found(out, l)
           ids == {e.id : e \in found}
<1>1. CASE s.aborted
  BY <1>1 DEF RemoveBreakpoint
<1>2. CASE ~s.aborted
  <2>1. /\ out \in Base
        /\ out.inserted = s.inserted \ {l} /\ out.warned = s.warned \ {l}
        /\ <<out.duplicate, out.host, out.map, out.gpu, out.aborted>>
             = <<s.duplicate, s.host, s.map, s.gpu, s.aborted>>
    <3>1. /\ out \in Fields
          /\ out.inserted = s.inserted \ {l} /\ out.warned = s.warned \ {l}
          /\ <<out.duplicate, out.host, out.map, out.gpu, out.aborted>>
               = <<s.duplicate, s.host, s.map, s.gpu, s.aborted>>
      BY DEF Base, Fields
    <3> HIDE DEF out
    <3> QED  BY <3>1 DEF Base
  <2>2. /\ host \in Base
        /\ <<host.inserted, host.duplicate, host.map, host.gpu, host.warned, host.aborted>>
             = <<out.inserted, out.duplicate, out.map, out.gpu, out.warned, out.aborted>>
        /\ host.host = out.host \ {Region(l)}
    <3> HIDE DEF out
    <3> QED  BY <2>1, HostRemoveFacts
  <2>3. r = RemoveWatchpoint(out, l)
    BY <1>2 DEF RemoveBreakpoint
  <2>4. found = Found(s, l) /\ found \subseteq s.map
    <3> HIDE DEF out
    <3> QED  BY <2>1 DEF Found, Below
  <2> HIDE DEF out, host, found
  <2>5. CASE ~runtime_state
    <3>1. r = host
      BY <2>3, <2>5 DEF RemoveWatchpoint, host
    <3> HIDE DEF r
    <3> QED  BY <1>2, <2>1, <2>2, <3>1 DEF Removed, r
  <2>6. CASE runtime_state /\ found = {}
    <3>1. r = [host EXCEPT !.ret = 1]
      BY <2>3, <2>6 DEF RemoveWatchpoint, host, found
    <3> HIDE DEF r
    <3>2. /\ r \in Fields
          /\ <<r.inserted, r.duplicate, r.host, r.map, r.gpu, r.warned, r.aborted>>
               = <<host.inserted, host.duplicate, host.host, host.map, host.gpu, host.warned, host.aborted>>
      BY <2>2, <3>1 DEF Base, Fields
    <3>3. r \in Base
      BY <2>2, <3>2 DEF Base
    <3> QED  BY <1>2, <2>1, <2>2, <3>2, <3>3 DEF Removed, r
  <2>7. CASE runtime_state /\ found # {} /\ Type(l) # "hw_write"
    <3>1. r = [host EXCEPT !.aborted = TRUE]
      BY <2>3, <2>7 DEF RemoveWatchpoint, host, found
    <3> HIDE DEF r
    <3>2. /\ r \in Fields
          /\ <<r.inserted, r.duplicate, r.host, r.map, r.gpu, r.warned>>
               = <<host.inserted, host.duplicate, host.host, host.map, host.gpu, host.warned>>
      BY <2>2, <3>1 DEF Base, Fields
    <3>3. r \in Base
      BY <2>2, <3>2 DEF Base
    <3> QED  BY <1>2, <2>1, <2>2, <3>2, <3>3 DEF Removed, r
  <2>8. CASE runtime_state /\ found # {} /\ Type(l) = "hw_write"
    <3> DEFINE map == host.map \ found
               gpu == {e \in host.gpu : e.id \notin ids}
    <3>1. r = [host EXCEPT !.map = map, !.gpu = gpu,
                           !.ret = IF ids \subseteq {e.id : e \in out.gpu} THEN 0 ELSE 1]
      BY <2>3, <2>8 DEF RemoveWatchpoint, host, found
    <3>2. /\ map \subseteq host.map
          /\ gpu \subseteq host.gpu
          /\ gpu \subseteq map
          /\ IsFiniteSet(gpu) /\ Cardinality(gpu) <= GpuRegs
      <4>1. gpu \subseteq host.gpu /\ map \subseteq host.map /\ gpu \subseteq map
        BY <2>2 DEF Base
      <4>2. /\ IsFiniteSet(host.gpu) /\ Cardinality(host.gpu) <= GpuRegs
            /\ GpuRegs \in Nat /\ Cardinality(host.gpu) \in Nat
        BY <2>2, LocationFacts, FS_CardinalityType DEF Base
      <4>3. IsFiniteSet(gpu) /\ Cardinality(gpu) <= Cardinality(host.gpu)
        <5> HIDE DEF gpu
        <5> QED  BY <4>1, <4>2, FS_Subset
      <4>4. Cardinality(gpu) \in Nat
        <5> HIDE DEF gpu
        <5> QED  BY <4>3, FS_CardinalityType
      <4> HIDE DEF gpu, map
      <4> QED  BY <4>1, <4>2, <4>3, <4>4
    <3>3. \A e \in s.gpu \ gpu : e \in found
      <4>1. ASSUME NEW e \in s.gpu, e \notin gpu PROVE e \in found
        <5>1. PICK f \in found : f.id = e.id
          BY <2>1, <2>2, <4>1
        <5>2. e \in s.map /\ f \in s.map
          BY <2>4 DEF Base
        <5>3. e.address = f.address
          BY <5>1, <5>2 DEF Base
        <5>4. e = f
          BY <5>2, <5>3 DEF Base
        <5> QED  BY <5>4
      <4> QED  BY <4>1
    <3> HIDE DEF r, map, gpu
    <3>4. /\ r \in Fields /\ r.map = map /\ r.gpu = gpu
          /\ <<r.inserted, r.duplicate, r.host, r.warned, r.aborted>>
               = <<host.inserted, host.duplicate, host.host, host.warned, host.aborted>>
      BY <2>2, <3>1, <3>2 DEF Base, Fields
    <3>5. r \in Base
      BY <2>2, <3>2, <3>4 DEF Base
    <3>6. Removed(s, r, l)
      BY <2>1, <2>2, <2>4, <2>8, <3>2, <3>3, <3>4 DEF Removed
    <3> QED  BY <1>2, <3>5, <3>6 DEF r
  <2> QED  BY <2>5, <2>6, <2>7, <2>8
<1> QED  BY <1>1, <1>2

\* swap_insertion touches what GDB believes only.
LEMMA SwapFacts ==
  ASSUME NEW s \in Base, NEW from \in Locations, NEW to \in Locations, from # to
  PROVE  LET r == SwapInsertion(s, from, to)
         IN /\ r \in Base
            /\ <<r.host, r.map, r.gpu, r.aborted>> = <<s.host, s.map, s.gpu, s.aborted>>
            /\ r.inserted = Exchanged(s.inserted, from, to)
            /\ r.duplicate = Exchanged(s.duplicate, from, to)
            /\ r.warned = Exchanged(s.warned, from, to)
<1> DEFINE r == SwapInsertion(s, from, to)
<1>1. \A S \in SUBSET Locations : Exchanged(S, from, to) \subseteq Locations
  BY DEF Exchanged
<1>2. /\ r \in Fields
      /\ <<r.host, r.map, r.gpu, r.aborted>> = <<s.host, s.map, s.gpu, s.aborted>>
      /\ r.inserted = Exchanged(s.inserted, from, to)
      /\ r.duplicate = Exchanged(s.duplicate, from, to)
      /\ r.warned = Exchanged(s.warned, from, to)
  BY <1>1 DEF SwapInsertion, Base, Fields
<1> HIDE DEF r
<1>3. r \in Base
  BY <1>2 DEF Base
<1> QED  BY <1>2, <1>3 DEF r

\* What it makes of a flag.
LEMMA ExchangedFacts ==
  ASSUME NEW S, NEW from, NEW to, from # to
  PROVE  /\ from \in Exchanged(S, from, to) <=> to \in S
         /\ to \in Exchanged(S, from, to) <=> from \in S
         /\ \A n : n # from /\ n # to => (n \in Exchanged(S, from, to) <=> n \in S)
         /\ from \in S /\ to \notin S => Exchanged(S, from, to) = (S \ {from}) \cup {to}
         /\ S = {} => Exchanged(S, from, to) = {}
<1>1. /\ from \in Exchanged(S, from, to) <=> to \in S
      /\ to \in Exchanged(S, from, to) <=> from \in S
      /\ \A n : n # from /\ n # to => (n \in Exchanged(S, from, to) <=> n \in S)
  BY DEF Exchanged
<1> QED  BY <1>1 DEF Exchanged

\* The marks of duplicates are nobody else's business.
LEMMA MarkFacts ==
  ASSUME NEW s \in Base, NEW dup \in SUBSET Locations
  PROVE  LET r == [s EXCEPT !.duplicate = dup]
         IN /\ r \in Base /\ r.duplicate = dup
            /\ <<r.inserted, r.host, r.map, r.gpu, r.warned, r.aborted>>
                 = <<s.inserted, s.host, s.map, s.gpu, s.warned, s.aborted>>
<1> DEFINE r == [s EXCEPT !.duplicate = dup]
<1>1. /\ r \in Fields /\ r.duplicate = dup
      /\ <<r.inserted, r.host, r.map, r.gpu, r.warned, r.aborted>>
           = <<s.inserted, s.host, s.map, s.gpu, s.warned, s.aborted>>
  BY DEF Base, Fields
<1> HIDE DEF r
<1>2. r \in Base
  BY <1>1 DEF Base
<1> QED  BY <1>1, <1>2 DEF r

\* A deleted location loses its flags.
LEMMA FreedFacts ==
  ASSUME NEW s \in Base, NEW l \in Locations
  PROVE  /\ Freed(s, l) \in Base
         /\ l \notin s.inserted =>
              Freed(s, l) = [s EXCEPT !.duplicate = s.duplicate \ {l}]
<1> DEFINE r == Freed(s, l)
<1>1. /\ r \in Fields
      /\ <<r.host, r.map, r.gpu, r.aborted>> = <<s.host, s.map, s.gpu, s.aborted>>
  BY DEF Freed, Base, Fields
<1>2. ASSUME l \notin s.inserted
      PROVE  r = [s EXCEPT !.duplicate = s.duplicate \ {l}]
  <2>1. s.inserted \ {l} = s.inserted
    BY <1>2
  <2>2. r = [s EXCEPT !.inserted = s.inserted \ {l}, !.duplicate = s.duplicate \ {l}]
    BY DEF Freed
  <2>3. r = [s EXCEPT !.inserted = s.inserted, !.duplicate = s.duplicate \ {l}]
    BY <2>1, <2>2
  <2> HIDE DEF r
  <2> QED  BY <2>3 DEF Base, Fields
<1> HIDE DEF r
<1>3. r \in Base
  BY <1>1 DEF Base
<1> QED  BY <1>2, <1>3 DEF r

\* One turn of insert_initial_watchpoints: an entry, or a warning.
LEMMA InsertInitialFacts ==
  ASSUME NEW s \in Base, NEW l \in Locations
  PROVE  LET r == InsertInitial(s, l)
         IN /\ r \in Base
            /\ <<r.inserted, r.duplicate, r.host, r.aborted>>
                 = <<s.inserted, s.duplicate, s.host, s.aborted>>
            /\ \/ /\ r.warned = s.warned \cup {l}
                  /\ r.gpu = s.gpu
               \/ /\ r.warned = s.warned
                  /\ s.gpu \subseteq r.gpu
                  /\ \E e \in r.gpu : e.address = Address(l) /\ e.end = End(l)
                  /\ \A e \in s.map : e.address # Address(l)
<1> DEFINE r == InsertInitial(s, l)
           done == InsertOne(s, l)
<1>1. /\ done \in Base
      /\ <<done.inserted, done.duplicate, done.host, done.warned, done.aborted>>
           = <<s.inserted, s.duplicate, s.host, s.warned, s.aborted>>
      /\ done.ret = 0 => /\ s.gpu \subseteq done.gpu
                         /\ \E e \in done.gpu : e.address = Address(l) /\ e.end = End(l)
                         /\ \A e \in s.map : e.address # Address(l)
      /\ done.ret # 0 => done.map = s.map /\ done.gpu = s.gpu
  BY InsertOneFacts
<1> HIDE DEF done
<1>2. CASE done.ret = 0
  <2>1. r = done
    BY <1>2 DEF InsertInitial, done
  <2> HIDE DEF r
  <2> QED  BY <1>1, <1>2, <2>1 DEF r
<1>3. CASE done.ret # 0
  <2>1. r = [done EXCEPT !.warned = @ \cup {l}]
    BY <1>3 DEF InsertInitial, done
  <2> HIDE DEF r
  <2>2. /\ r \in Fields /\ r.warned = done.warned \cup {l}
        /\ <<r.inserted, r.duplicate, r.host, r.map, r.gpu, r.aborted>>
             = <<done.inserted, done.duplicate, done.host, done.map, done.gpu, done.aborted>>
    BY <1>1, <2>1 DEF Base, Fields
  <2>3. r \in Base
    BY <1>1, <2>2 DEF Base
  <2> QED  BY <1>1, <1>3, <2>2, <2>3 DEF r
<1> QED  BY <1>2, <1>3

(***************************************************************************)
(* Duplicates: who takes over an insertion.                                *)
(***************************************************************************)

\* Every wanted location matches one that is the first of its kind.
LEMMA OriginalExists ==
  ASSUME NEW state, NEW l \in Locations, Wanted(state, l)
  PROVE  \E m \in Locations : /\ m <= l /\ Region(m) = Region(l)
                              /\ Wanted(state, m) /\ ~MatchesFirst(state, m)
<1> DEFINE T == {m \in Locations : m <= l /\ Region(m) = Region(l) /\ Wanted(state, m)}
<1>1. T \subseteq Nat /\ l \in T
  BY LocationFacts
<1>2. PICK m \in T : \A n \in T : m <= n
  <2> HIDE DEF T
  <2> QED  BY <1>1, LeastNat
<1>3. ~MatchesFirst(state, m)
  <2>1. SUFFICES ASSUME NEW n \in Previous(state, m), Region(n) = Region(m)
                 PROVE  FALSE
    BY DEF MatchesFirst
  <2>2. n \in 1..(m - 1) /\ Wanted(state, n)
    BY <2>1 DEF Previous
  <2>3. n \in T /\ n < m
    BY <1>2, <2>1, <2>2, LocationFacts
  <2> QED  BY <1>2, <2>2, <2>3, LocationFacts
<1> QED  BY <1>2, <1>3

\* An old location is left alone, hands its insertion to a wanted match, or is
\* removed.
LEMMA HandOverFacts ==
  ASSUME NEW state, NEW s \in Base, NEW l \in Locations
  PROVE  LET r == HandOver(state, s, l)
         IN \/ /\ r = s
               /\ l \notin s.inserted \/ ShouldBeInserted(state, s, l)
            \/ /\ l \in s.inserted /\ ~ShouldBeInserted(state, s, l)
               /\ Heirs(state, l) = {}
               /\ r = RemoveBreakpoint(s, l)
            \/ /\ l \in s.inserted
               /\ \E m \in Locations : /\ r = SwapInsertion(s, l, m)
                                       /\ m # l /\ Region(m) = Region(l)
                                       /\ Wanted(state, m)
<1>1. CASE l \notin s.inserted \/ ShouldBeInserted(state, s, l)
  BY <1>1 DEF HandOver
<1>2. CASE ~(l \notin s.inserted \/ ShouldBeInserted(state, s, l))
           /\ Heirs(state, l) = {}
  BY <1>2 DEF HandOver
<1>3. CASE ~(l \notin s.inserted \/ ShouldBeInserted(state, s, l))
           /\ Heirs(state, l) # {}
  <2> DEFINE m == CHOOSE m \in Heirs(state, l) : \A n \in Heirs(state, l) : m <= n
  <2>1. Heirs(state, l) \subseteq Nat
    BY LocationFacts DEF Heirs
  <2>2. m \in Heirs(state, l)
    BY <1>3, <2>1, LeastNat
  <2>3. HandOver(state, s, l) = SwapInsertion(s, l, m)
    BY <1>3 DEF HandOver
  <2> HIDE DEF m
  <2>4. m \in Locations /\ m # l /\ Region(m) = Region(l) /\ Wanted(state, m)
    BY <2>2 DEF Heirs
  <2> QED  BY <1>3, <2>3, <2>4
<1> QED  BY <1>1, <1>2, <1>3

\* The first loop does that, and frees the location if it is deleted.
LEMMA RetireFacts ==
  ASSUME NEW state, NEW s, NEW l
  PROVE  LET r == HandOver(state, s, l)
         IN \/ Retire(state, s, l) = r
            \/ /\ Retire(state, s, l) = Freed(r, l)
               /\ ~Wanted(state, l) /\ ~r.aborted
<1> QED  BY DEF Retire, Wanted

\* The first of the matches of a location stands before it.
LEMMA FirstFacts ==
  ASSUME NEW state, NEW l \in Locations, Wanted(state, l), MatchesFirst(state, l)
  PROVE  LET m == LocFirst(state, l)
         IN /\ m \in Locations /\ m < l /\ m # l /\ Region(m) = Region(l)
            /\ Wanted(state, m) /\ ~MatchesFirst(state, m)
<1> DEFINE firsts == {m \in 1..(l - 1) : /\ Region(m) = Region(l) /\ Wanted(state, m)
                                         /\ ~MatchesFirst(state, m)}
           m == CHOOSE m \in firsts : \A n \in firsts : n <= m
<1>1. firsts \subseteq 0..l /\ l \in Nat
  BY LocationFacts
<1>2. firsts # {}
  <2>1. PICK n \in Locations : /\ n <= l /\ Region(n) = Region(l)
                               /\ Wanted(state, n) /\ ~MatchesFirst(state, n)
    BY OriginalExists
  <2>2. n # l
    BY <2>1
  <2>3. n \in firsts
    BY <2>1, <2>2, LocationFacts
  <2> QED  BY <2>3
<1>3. m \in firsts
  <2> HIDE DEF firsts
  <2> QED  BY <1>1, <1>2, GreatestNat
<1>4. LocFirst(state, l) = m
  BY DEF LocFirst
<1> HIDE DEF m
<1>5. m \in Locations /\ m < l /\ m # l
  BY <1>3, LocationFacts
<1> QED  BY <1>3, <1>4, <1>5

\* The second loop marks a location as the first of its kind, or as a duplicate
\* whose insertion the first gets.
LEMMA RescannedFacts ==
  ASSUME NEW state, NEW s \in Base, NEW l \in Locations
  PROVE  LET r == Rescanned(state, s, l)
         IN \/ ~Wanted(state, l) /\ r = s
            \/ /\ Wanted(state, l) /\ ~MatchesFirst(state, l)
               /\ r = [s EXCEPT !.duplicate = s.duplicate \ {l}]
            \/ /\ Wanted(state, l) /\ MatchesFirst(state, l) /\ l \notin s.inserted
               /\ r = [s EXCEPT !.duplicate = s.duplicate \cup {l}]
            \/ /\ Wanted(state, l) /\ MatchesFirst(state, l) /\ l \in s.inserted
               /\ \E m \in Locations :
                    LET x == SwapInsertion(s, l, m)
                    IN /\ r = [x EXCEPT !.duplicate = x.duplicate \cup {l}]
                       /\ m < l /\ m # l /\ Region(m) = Region(l)
                       /\ Wanted(state, m) /\ ~MatchesFirst(state, m)
<1>1. CASE ~Wanted(state, l)
  BY <1>1 DEF Rescanned
<1>2. CASE Wanted(state, l) /\ ~MatchesFirst(state, l)
  BY <1>2 DEF Rescanned
<1>3. CASE Wanted(state, l) /\ MatchesFirst(state, l) /\ l \notin s.inserted
  BY <1>3 DEF Rescanned
<1>4. CASE Wanted(state, l) /\ MatchesFirst(state, l) /\ l \in s.inserted
  <2> DEFINE m == LocFirst(state, l)
             x == SwapInsertion(s, l, m)
  <2>1. /\ m \in Locations /\ m < l /\ m # l /\ Region(m) = Region(l)
        /\ Wanted(state, m) /\ ~MatchesFirst(state, m)
    BY <1>4, FirstFacts
  <2>2. Rescanned(state, s, l) = [x EXCEPT !.duplicate = x.duplicate \cup {l}]
    BY <1>4 DEF Rescanned
  <2> HIDE DEF m
  <2> QED  BY <1>4, <2>1, <2>2
<1> QED  BY <1>1, <1>2, <1>3, <1>4

\* What it does to the marks, whatever the reason.
LEMMA RescannedShape ==
  ASSUME NEW state, NEW s \in Base, NEW l \in Locations
  PROVE  \/ Rescanned(state, s, l) = s
         \/ Rescanned(state, s, l) = [s EXCEPT !.duplicate = s.duplicate \ {l}]
         \/ Rescanned(state, s, l) = [s EXCEPT !.duplicate = s.duplicate \cup {l}]
         \/ \E m \in Locations :
              /\ m # l
              /\ Rescanned(state, s, l)
                   = [SwapInsertion(s, l, m) EXCEPT
                        !.duplicate = SwapInsertion(s, l, m).duplicate \cup {l}]
<1> DEFINE m == LocFirst(state, l)
           x == SwapInsertion(s, l, m)
<1>1. CASE Wanted(state, l) /\ MatchesFirst(state, l) /\ l \in s.inserted
  <2>1. m \in Locations /\ m # l
    BY <1>1, FirstFacts
  <2>2. Rescanned(state, s, l) = [x EXCEPT !.duplicate = x.duplicate \cup {l}]
    BY <1>1 DEF Rescanned
  <2> HIDE DEF m
  <2> QED  BY <2>1, <2>2
<1>2. CASE ~(Wanted(state, l) /\ MatchesFirst(state, l) /\ l \in s.inserted)
  BY <1>2 DEF Rescanned
<1> QED  BY <1>1, <1>2

(***************************************************************************)
(* The type invariant, and that nothing leaks.                             *)
(***************************************************************************)

\* Every loop keeps Base.
LEMMA LoopsKeepBase ==
  ASSUME NEW s \in Base, NEW state, NEW locs
  PROVE  /\ RemoveAll(s, locs) \in Base
         /\ InsertAll(s, locs) \in Base
         /\ InsertInitialAll(s, locs) \in Base
         /\ RetireAll(state, s) \in Base
         /\ RescanAll(state, s) \in Base
<1> DEFINE X == [l \in 0..Last |-> Base]
<1>1. /\ X[0] = Base /\ X[Last] = Base
      /\ \A l \in Locations : X[l - 1] = Base /\ X[l] = Base
  BY LocationFacts
<1> HIDE DEF X
<1>2. ASSUME NEW l \in Locations, NEW x \in Base
      PROVE  /\ RemoveBreakpoint(x, l) \in Base
             /\ InsertBpLocation(x, l) \in Base
             /\ InsertInitial(x, l) \in Base
             /\ Retire(state, x, l) \in Base
             /\ Rescanned(state, x, l) \in Base
  <2>1. RemoveBreakpoint(x, l) \in Base
    BY RemoveBreakpointFacts
  <2>2. InsertBpLocation(x, l) \in Base
    BY InsertBpLocationFacts
  <2>3. InsertInitial(x, l) \in Base
    BY InsertInitialFacts
  <2>4. \A m \in Locations : m # l => SwapInsertion(x, l, m) \in Base
    BY SwapFacts
  <2>5. Retire(state, x, l) \in Base
    <3>1. HandOver(state, x, l) \in Base
      BY <2>1, <2>4, HandOverFacts
    <3> HIDE DEF X
    <3> QED  BY <3>1, RetireFacts, FreedFacts
  <2>6. Rescanned(state, x, l) \in Base
    <3>1. ASSUME NEW y \in Base
          PROVE  /\ [y EXCEPT !.duplicate = y.duplicate \ {l}] \in Base
                 /\ [y EXCEPT !.duplicate = y.duplicate \cup {l}] \in Base
      <4>1. y.duplicate \ {l} \in SUBSET Locations /\ y.duplicate \cup {l} \in SUBSET Locations
        BY DEF Base, Fields
      <4> QED  BY <4>1, MarkFacts
    <3>2. \/ Rescanned(state, x, l) = x
          \/ Rescanned(state, x, l) = [x EXCEPT !.duplicate = x.duplicate \ {l}]
          \/ Rescanned(state, x, l) = [x EXCEPT !.duplicate = x.duplicate \cup {l}]
          \/ \E m \in Locations :
               /\ m # l
               /\ Rescanned(state, x, l)
                    = [SwapInsertion(x, l, m) EXCEPT
                         !.duplicate = SwapInsertion(x, l, m).duplicate \cup {l}]
      BY RescannedShape
    <3> QED  BY <2>4, <3>1, <3>2
  <2> QED  BY <2>1, <2>2, <2>3, <2>5, <2>6
<1>3. RemoveAll(s, locs) \in Base
  BY <1>1, <1>2, RemoveLoop
<1>4. InsertAll(s, locs) \in Base
  BY <1>1, <1>2, InsertLoop
<1>5. InsertInitialAll(s, locs) \in Base
  BY <1>1, <1>2, InitialLoop
<1>6. RetireAll(state, s) \in Base
  BY <1>1, <1>2, RetireLoop
<1>7. RescanAll(state, s) \in Base
  BY <1>1, <1>2, RescanLoop
<1> QED  BY <1>3, <1>4, <1>5, <1>6, <1>7

States == {"none", "enabled", "disabled"}

TypeInv ==
  /\ enable_state \in [Watchpoint -> States]
  /\ running \in BOOLEAN /\ runtime_state \in BOOLEAN
  /\ t \in Base
  /\ t.ret = 0

\* The result of the last call is forgotten.
LEMMA BecomeFacts ==
  ASSUME NEW s \in Base, Become(s)
  PROVE  /\ t' \in Base /\ t'.ret = 0
         /\ <<t'.inserted, t'.duplicate, t'.host, t'.map, t'.gpu, t'.warned, t'.aborted>>
              = <<s.inserted, s.duplicate, s.host, s.map, s.gpu, s.warned, s.aborted>>
<1>1. /\ t' \in Fields /\ t'.ret = 0
      /\ <<t'.inserted, t'.duplicate, t'.host, t'.map, t'.gpu, t'.warned, t'.aborted>>
           = <<s.inserted, s.duplicate, s.host, s.map, s.gpu, s.warned, s.aborted>>
  BY DEF Become, Base, Fields
<1> QED  BY <1>1 DEF Base

\* update_global_location_list keeps the types.
LEMMA UpdateKeepsTypes ==
  ASSUME TypeInv, NEW state \in [Watchpoint -> States], NEW insert,
         UpdateGlobalLocationList(state, insert)
  PROVE  /\ enable_state' \in [Watchpoint -> States]
         /\ t' \in Base /\ t'.ret = 0
<1> DEFINE all == InsertMissing(state, Rescan(state))
           new == IF insert THEN RemoveHalfInserted(state, all) ELSE Rescan(state)
<1>1. Rescan(state) \in Base
  BY LoopsKeepBase DEF Rescan, TypeInv
<1>2. all \in Base
  BY <1>1, LoopsKeepBase DEF InsertMissing
<1>3. RemoveHalfInserted(state, all) \in Base
  BY <1>2, LoopsKeepBase DEF RemoveHalfInserted
<1>4. new \in Base /\ Become(new)
  BY <1>1, <1>3 DEF UpdateGlobalLocationList
<1> HIDE DEF new
<1>5. t' \in Base /\ t'.ret = 0
  BY <1>4, BecomeFacts
<1> QED  BY <1>5 DEF UpdateGlobalLocationList

\* What the process and the runtime take away.
LEMMA TakenAway ==
  ASSUME NEW s \in Base
  PROVE  /\ \A kept \in {{}, s.gpu} : [s EXCEPT !.gpu = kept, !.warned = {}] \in Base
         /\ [s EXCEPT !.inserted = {}, !.host = {}, !.map = {}, !.gpu = {},
                      !.warned = {}] \in Base
<1>1. /\ IsFiniteSet({})
      /\ Cardinality({}) <= HostRegs /\ Cardinality({}) <= GpuRegs
  BY FS_EmptySet, LocationFacts
<1>2. ASSUME NEW kept \in {{}, s.gpu}
      PROVE  [s EXCEPT !.gpu = kept, !.warned = {}] \in Base
  <2> DEFINE r == [s EXCEPT !.gpu = kept, !.warned = {}]
  <2>1. /\ r \in Fields /\ r.gpu = kept
        /\ <<r.host, r.map>> = <<s.host, s.map>>
    BY DEF Base, Fields
  <2>2. kept \subseteq s.map /\ IsFiniteSet(kept) /\ Cardinality(kept) <= GpuRegs
    <3>1. CASE kept = {}
      BY <1>1, <3>1
    <3>2. CASE kept = s.gpu
      BY <3>2 DEF Base
    <3> QED  BY <3>1, <3>2
  <2> HIDE DEF r
  <2>3. r \in Base
    BY <2>1, <2>2 DEF Base
  <2> QED  BY <2>3 DEF r
<1>3. [s EXCEPT !.inserted = {}, !.host = {}, !.map = {}, !.gpu = {}, !.warned = {}]
        \in Base
  <2> DEFINE r == [s EXCEPT !.inserted = {}, !.host = {}, !.map = {}, !.gpu = {},
                            !.warned = {}]
  <2>1. r \in Fields /\ r.gpu = {} /\ r.map = {} /\ r.host = {}
    BY DEF Base, Fields
  <2> HIDE DEF r
  <2>2. /\ Cardinality(r.gpu) <= GpuRegs /\ Cardinality(r.host) <= HostRegs
        /\ IsFiniteSet(r.gpu)
    BY <1>1, <2>1
  <2>3. r \in Base
    BY <2>1, <2>2 DEF Base
  <2> QED  BY <2>3 DEF r
<1> QED  BY <1>2, <1>3

LEMMA TypeInit == Init => TypeInv
<1> SUFFICES ASSUME Init PROVE TypeInv
  OBVIOUS
<1>1. /\ IsFiniteSet({})
      /\ Cardinality({}) <= HostRegs /\ Cardinality({}) <= GpuRegs
  BY FS_EmptySet, LocationFacts
<1>2. /\ t \in Fields /\ t.ret = 0
      /\ t.gpu = {} /\ t.map = {} /\ t.host = {}
  BY DEF Init, Fields
<1>3. t \in Base
  BY <1>1, <1>2 DEF Base
<1> QED  BY <1>2, <1>3 DEF Init, TypeInv, States

LEMMA TypeStep == TypeInv /\ [Next]_vars => TypeInv'
<1> SUFFICES ASSUME TypeInv, [Next]_vars PROVE TypeInv'
  OBVIOUS
<1>1. ASSUME NEW b \in Watchpoint, NEW st \in States, NEW insert,
             UpdateGlobalLocationList(With(b, st), insert),
             UNCHANGED <<running, runtime_state>>
      PROVE  TypeInv'
  <2>1. With(b, st) \in [Watchpoint -> States]
    BY DEF With, TypeInv
  <2> QED  BY <1>1, <2>1, UpdateKeepsTypes DEF TypeInv
<1>2. ASSUME NEW b \in Watchpoint,
             \/ SetWatchpoint(b) \/ EnableWatchpoint(b)
             \/ DisableWatchpoint(b) \/ DeleteWatchpoint(b)
      PROVE  TypeInv'
  BY <1>1, <1>2
     DEF SetWatchpoint, EnableWatchpoint, DisableWatchpoint, DeleteWatchpoint, States
<1>3. CASE Proceed
  <2>1. /\ enable_state' \in [Watchpoint -> States]
        /\ t' \in Base /\ t'.ret = 0
    BY <1>3, UpdateKeepsTypes DEF Proceed, TypeInv
  <2>2. running' \in BOOLEAN /\ runtime_state' = runtime_state
    BY <1>3 DEF Proceed
  <2> QED  BY <2>1, <2>2 DEF TypeInv
<1>4. CASE NormalStop
  <2>1. RemoveAll(t, t.inserted) \in Base
    BY LoopsKeepBase DEF TypeInv
  <2>2. Become(RemoveAll(t, t.inserted))
    BY <1>4 DEF NormalStop
  <2>3. t' \in Base /\ t'.ret = 0
    BY <2>1, <2>2, BecomeFacts
  <2> QED  BY <1>4, <2>3 DEF NormalStop, TypeInv
<1>5. CASE RuntimeLoaded
  <2>1. InsertInitialAll(t, Initial) \in Base
    BY LoopsKeepBase DEF TypeInv
  <2>2. Become(InsertInitialAll(t, Initial))
    BY <1>5 DEF RuntimeLoaded
  <2>3. t' \in Base /\ t'.ret = 0
    BY <2>1, <2>2, BecomeFacts
  <2> QED  BY <1>5, <2>3 DEF RuntimeLoaded, TypeInv
<1>6. CASE RuntimeUnloaded
  <2>1. PICK kept \in {{}, t.gpu} : t' = [t EXCEPT !.gpu = kept, !.warned = {}]
    BY <1>6 DEF RuntimeUnloaded
  <2>2. t' \in Base
    BY <2>1, TakenAway DEF TypeInv
  <2>3. t'.ret = 0
    BY <2>1 DEF TypeInv, Base, Fields
  <2> QED  BY <1>6, <2>2, <2>3 DEF RuntimeUnloaded, TypeInv
<1>7. CASE MournInferior
  <2>1. t' = [t EXCEPT !.inserted = {}, !.host = {}, !.map = {}, !.gpu = {},
                       !.warned = {}]
    BY <1>7 DEF MournInferior
  <2>2. t' \in Base
    BY <2>1, TakenAway DEF TypeInv
  <2>3. t'.ret = 0
    BY <2>1 DEF TypeInv, Base, Fields
  <2> QED  BY <1>7, <2>2, <2>3 DEF MournInferior, TypeInv
<1>8. CASE InternalError \/ UNCHANGED vars
  BY <1>8 DEF InternalError, vars, TypeInv
<1> QED  BY <1>2, <1>3, <1>4, <1>5, <1>6, <1>7, <1>8 DEF Next

LEMMA TypeAlways == Spec => []TypeInv
<1> QED  BY TypeInit, TypeStep, PTL DEF Spec

\* The fields of the state keep their types and neither the debug registers of
\* the host nor the GPU's are overcommitted, for every list of locations and
\* every number of registers, zero included: insert_watchpoint and
\* insert_one_watchpoint give back what they cannot keep.
THEOREM TypeCorrect == Spec => []TypeOK
<1>1. TypeInv => TypeOK
  BY DEF TypeInv, TypeOK, Base, Fields, States
<1> QED  BY <1>1, TypeAlways, PTL

\* Every watchpoint of the library is in watchpoint_map, where neither an
\* address nor an id is twice, over every sequence of insertions, removals,
\* loads and unloads: no GPU watchpoint is leaked.
THEOREM NothingLeaks == Spec => []NoGpuLeak
<1>1. TypeInv => NoGpuLeak
  <2> SUFFICES ASSUME TypeInv PROVE NoGpuLeak
    OBVIOUS
  <2>1. ASSUME NEW e \in t.map, NEW f \in t.map, e.id = f.id PROVE e.address = f.address
    BY <2>1 DEF TypeInv, Base
  <2> QED  BY <2>1 DEF TypeInv, Base, NoGpuLeak
<1> QED  BY <1>1, TypeAlways, PTL

\* stopped_data_address reports an address inside the range of every watchpoint
\* that triggered, or none: watchpoints_triggered considers the owner of every
\* location among them.
THEOREM StopsAreAttributed == Spec => []TriggerAttributed
<1>1. TypeInv => TriggerAttributed
  <2> SUFFICES ASSUME NEW hit \in SUBSET t.gpu, NEW l \in t.inserted, NEW e \in hit,
                      e.address = Address(l), e.end = End(l), TypeInv
               PROVE  WatchpointTriggered(Owner(l), hit)
    BY DEF TriggerAttributed
  <2> QED  BY DEF WatchpointTriggered, StoppedDataAddress, TypeInv, Base, Fields
<1> QED  BY <1>1, TypeAlways, PTL

(***************************************************************************)
(* Resuming.                                                               *)
(***************************************************************************)

\* A loop over no location does nothing.
LEMMA RemoveNone ==
  ASSUME NEW s
  PROVE  RemoveAll(s, {}) = s
<1> DEFINE X == [l \in 0..Last |-> {s}]
<1>1. /\ X[0] = {s} /\ X[Last] = {s}
      /\ \A l \in Locations : X[l - 1] = {s} /\ X[l] = {s}
  BY LocationFacts
<1> HIDE DEF X
<1>2. RemoveAll(s, {}) \in X[Last]
  BY <1>1, RemoveLoop
<1> QED  BY <1>1, <1>2

\* After the second loop the first of its kind is no duplicate, or is inserted.
LEMMA FirstsSettled ==
  ASSUME NEW state, NEW s \in Base
  PROVE  LET r == RescanAll(state, s)
         IN /\ r \in Base
            /\ \A m \in Locations : Wanted(state, m) /\ ~MatchesFirst(state, m)
                 => m \in r.inserted \/ m \notin r.duplicate
<1> DEFINE First(m) == Wanted(state, m) /\ ~MatchesFirst(state, m)
           P(x, l) == \A m \in Locations : m <= l /\ First(m)
                                             => m \in x.inserted \/ m \notin x.duplicate
           X == [l \in 0..Last |-> {x \in Base : P(x, l)}]
<1>1. /\ X[0] = {x \in Base : P(x, 0)}
      /\ X[Last] = {x \in Base : P(x, Last)}
      /\ \A l \in Locations : /\ X[l - 1] = {x \in Base : P(x, l - 1)}
                              /\ X[l] = {x \in Base : P(x, l)}
  BY LocationFacts
<1> HIDE DEF X
<1>2. s \in X[0]
  BY <1>1, LocationFacts
<1>3. ASSUME NEW l \in Locations, NEW x \in X[l - 1]
      PROVE  Rescanned(state, x, l) \in X[l]
  <2> DEFINE r == Rescanned(state, x, l)
  <2>1. x \in Base /\ P(x, l - 1) /\ x.duplicate \subseteq Locations
    BY <1>1, <1>3 DEF Base, Fields
  <2>2. \A m \in Locations : m <= l => m = l \/ m <= l - 1
    BY LocationFacts
  <2> HIDE DEF r
  <2>3. CASE ~Wanted(state, l) /\ r = x
    <3>1. P(r, l)
      BY <2>1, <2>2, <2>3
    <3> QED  BY <1>1, <2>1, <2>3, <3>1 DEF r
  <2>4. CASE First(l) /\ r = [x EXCEPT !.duplicate = x.duplicate \ {l}]
    <3>1. r \in Base /\ r.duplicate = x.duplicate \ {l} /\ r.inserted = x.inserted
      BY <2>1, <2>4, MarkFacts
    <3>2. P(r, l)
      BY <2>1, <2>2, <3>1
    <3> QED  BY <1>1, <3>1, <3>2 DEF r
  <2>5. CASE MatchesFirst(state, l) /\ r = [x EXCEPT !.duplicate = x.duplicate \cup {l}]
    <3>1. r \in Base /\ r.duplicate = x.duplicate \cup {l} /\ r.inserted = x.inserted
      BY <2>1, <2>5, MarkFacts
    <3>2. P(r, l)
      BY <2>1, <2>2, <2>5, <3>1
    <3> QED  BY <1>1, <3>1, <3>2 DEF r
  <2>6. ASSUME NEW m \in Locations, NEW y, y = SwapInsertion(x, l, m), m # l,
               r = [y EXCEPT !.duplicate = y.duplicate \cup {l}],
               l \in x.inserted, MatchesFirst(state, l)
        PROVE  r \in X[l]
    <3>1. /\ y \in Base
          /\ y.inserted = Exchanged(x.inserted, l, m)
          /\ y.duplicate = Exchanged(x.duplicate, l, m)
      BY <2>1, <2>6, SwapFacts
    <3>2. y.duplicate \subseteq Locations
      BY <3>1 DEF Base, Fields
    <3>3. r \in Base /\ r.duplicate = y.duplicate \cup {l} /\ r.inserted = y.inserted
      BY <2>6, <3>1, <3>2, MarkFacts
    <3>4. /\ m \in y.inserted
          /\ \A n \in Locations : n # l /\ n # m =>
               (n \in y.inserted <=> n \in x.inserted) /\ (n \in y.duplicate <=> n \in x.duplicate)
      BY <2>6, <3>1, ExchangedFacts
    <3>5. P(r, l)
      BY <2>1, <2>2, <2>6, <3>3, <3>4
    <3> QED  BY <1>1, <3>3, <3>5
  <2>7. LET z == Rescanned(state, x, l)
        IN \/ ~Wanted(state, l) /\ z = x
           \/ /\ Wanted(state, l) /\ ~MatchesFirst(state, l)
              /\ z = [x EXCEPT !.duplicate = x.duplicate \ {l}]
           \/ /\ Wanted(state, l) /\ MatchesFirst(state, l) /\ l \notin x.inserted
              /\ z = [x EXCEPT !.duplicate = x.duplicate \cup {l}]
           \/ /\ Wanted(state, l) /\ MatchesFirst(state, l) /\ l \in x.inserted
              /\ \E m \in Locations :
                   LET y == SwapInsertion(x, l, m)
                   IN /\ z = [y EXCEPT !.duplicate = y.duplicate \cup {l}]
                      /\ m < l /\ m # l /\ Region(m) = Region(l)
                      /\ Wanted(state, m) /\ ~MatchesFirst(state, m)
    BY <2>1, RescannedFacts
  <2> QED  BY <2>3, <2>4, <2>5, <2>6, <2>7 DEF r
<1>4. RescanAll(state, s) \in X[Last]
  BY <1>2, <1>3, RescanLoop
<1>5. \A m \in Locations : m <= Last
  BY LocationFacts
<1> QED  BY <1>1, <1>4, <1>5

\* insert_breakpoint_locations marks no duplicates, and takes nothing out before
\* it knows what failed.
LEMMA InsertAllFacts ==
  ASSUME NEW s \in Base, NEW locs
  PROVE  LET r == InsertAll(s, locs)
         IN r \in Base /\ r.duplicate = s.duplicate /\ s.inserted \subseteq r.inserted
<1> DEFINE Y == {x \in Base : x.duplicate = s.duplicate /\ s.inserted \subseteq x.inserted}
           X == [l \in 0..Last |-> Y]
<1>1. /\ X[0] = Y /\ X[Last] = Y
      /\ \A l \in Locations : X[l - 1] = Y /\ X[l] = Y
  BY LocationFacts
<1> HIDE DEF X
<1>2. ASSUME NEW l \in Locations, NEW x \in Y PROVE InsertBpLocation(x, l) \in Y
  BY InsertBpLocationFacts DEF NotInserted, Inserted
<1>3. InsertAll(s, locs) \in X[Last]
  <2>1. s \in X[0]
    BY <1>1
  <2> HIDE DEF Y
  <2> QED  BY <1>1, <1>2, <2>1, InsertLoop
<1> QED  BY <1>1, <1>3

\* proceed resumes the inferior only if every enabled watchpoint has all its
\* locations in the target, its own or a duplicate's.
LEMMA ProceedWatches ==
  ASSUME TypeInv, Proceed, running', NEW l \in Locations, Wanted(enable_state', l)
  PROVE  \E m \in t'.inserted : Region(m) = Region(l)
<1> DEFINE scanned == Rescan(enable_state)
           all == InsertMissing(enable_state, scanned)
           half == {m \in all.inserted : Owner(m) \in SomeFailed(enable_state, all)}
<1>1. /\ SomeFailed(enable_state, all) = {}
      /\ enable_state' = enable_state
      /\ Become(RemoveHalfInserted(enable_state, all))
  BY DEF Proceed, UpdateGlobalLocationList
<1>2. /\ scanned \in Base
      /\ \A m \in Locations : Wanted(enable_state, m) /\ ~MatchesFirst(enable_state, m)
           => m \in scanned.inserted \/ m \notin scanned.duplicate
  <2>1. RetireAll(enable_state, t) \in Base
    BY LoopsKeepBase DEF TypeInv
  <2> QED  BY <2>1, FirstsSettled DEF Rescan
<1> HIDE DEF scanned
<1>3. /\ all \in Base /\ all.duplicate = scanned.duplicate
      /\ scanned.inserted \subseteq all.inserted
  BY <1>2, InsertAllFacts DEF InsertMissing
<1> HIDE DEF all
<1>4. RemoveHalfInserted(enable_state, all) = all
  <2>1. half = {}
    BY <1>1
  <2>2. RemoveHalfInserted(enable_state, all) = RemoveAll(all, half)
    BY DEF RemoveHalfInserted
  <2> HIDE DEF half
  <2> QED  BY <2>1, <2>2, RemoveNone
<1>5. t'.inserted = all.inserted
  BY <1>1, <1>3, <1>4, BecomeFacts
<1>6. PICK m \in Locations : /\ Region(m) = Region(l)
                             /\ Wanted(enable_state, m) /\ ~MatchesFirst(enable_state, m)
  BY <1>1, OriginalExists
<1>7. m \in all.inserted
  <2>1. Owner(m) \in Watchpoint
    BY LocationFacts
  <2>2. Missing(enable_state, all, Owner(m)) = {}
    BY <1>1, <2>1 DEF SomeFailed
  <2> QED  BY <1>2, <1>3, <1>6, <2>2 DEF Missing, ShouldBeInserted
<1> QED  BY <1>5, <1>6, <1>7

\* The inferior is not resumed while an enabled watchpoint lacks a location,
\* however many registers there are and whichever insertions fail: proceed
\* stops at the error of insert_breakpoints, and a location that
\* update_global_location_list marked a duplicate has a match that is inserted.
THEOREM ResumesWatched == Spec => ResumedWatched
<1>1. TypeInv /\ [Next]_vars =>
        (~running /\ running' =>
           \A l \in Locations : Wanted(enable_state', l) =>
             \E m \in t'.inserted : Region(m) = Region(l))
  <2> SUFFICES ASSUME TypeInv, [Next]_vars, ~running, running'
               PROVE  \A l \in Locations : Wanted(enable_state', l) =>
                        \E m \in t'.inserted : Region(m) = Region(l)
    OBVIOUS
  <2>1. Proceed
    BY DEF Next, SetWatchpoint, EnableWatchpoint, DisableWatchpoint, DeleteWatchpoint,
           NormalStop, RuntimeLoaded, RuntimeUnloaded, MournInferior, InternalError, vars
  <2> QED  BY <2>1, ProceedWatches
<1> QED  BY <1>1, TypeAlways, PTL DEF Spec, ResumedWatched

(***************************************************************************)
(* The host's debug registers.                                             *)
(***************************************************************************)

\* Of the locations that match at most one is wanted and first of its kind.
LEMMA OriginalUnique ==
  ASSUME Contiguous, NEW state, NEW l \in Locations, NEW m \in Locations,
         Region(l) = Region(m), l < m,
         Wanted(state, l), ~MatchesFirst(state, m)
  PROVE  FALSE
<1> DEFINE T == {n \in 1..(m - 1) : Wanted(state, n) /\ Type(n) = Type(m)}
<1>1. Type(l) = Type(m)
  BY DEF Region
<1>2. l \in T /\ T \subseteq 0..m /\ m \in Nat
  BY <1>1, LocationFacts
<1>3. PICK p \in T : \A n \in T : n <= p
  <2> HIDE DEF T
  <2> QED  BY <1>2, GreatestNat
<1>4. p \in Previous(state, m)
  BY <1>2, <1>3, LocationFacts DEF Previous
<1>5. Region(p) = Region(m)
  <2>1. p = l \/ (l < p /\ p < m /\ p \in Locations)
    BY <1>2, <1>3, LocationFacts
  <2> QED  BY <1>1, <1>3, <2>1 DEF Contiguous
<1> QED  BY <1>4, <1>5 DEF MatchesFirst

\* HostMatches; no region is inserted for two locations: removing one would
\* take it from the other; and what is inserted is no duplicate: the location
\* that takes over an insertion keeps it.
HostSet ==
  {s \in Base : /\ s.host = {Region(l) : l \in s.inserted}
                /\ \A l, m \in s.inserted : Region(l) = Region(m) => l = m
                /\ \A l \in s.inserted : l \notin s.duplicate}

LEMMA HostRemoved ==
  ASSUME NEW s \in HostSet, NEW l \in s.inserted
  PROVE  RemoveBreakpoint(s, l) \in HostSet
<1>1. s \in Base /\ l \in Locations
  BY DEF HostSet, Base, Fields
<1> DEFINE r == RemoveBreakpoint(s, l)
<1>2. r \in Base /\ (s.aborted => r = s) /\ (~s.aborted => Removed(s, r, l))
  BY <1>1, RemoveBreakpointFacts
<1> HIDE DEF r
<1>3. CASE s.aborted
  BY <1>2, <1>3 DEF r
<1>4. CASE ~s.aborted
  <2>1. /\ r.inserted = s.inserted \ {l} /\ r.host = s.host \ {Region(l)}
        /\ r.duplicate = s.duplicate
    BY <1>2, <1>4 DEF Removed
  <2>2. r.host = {Region(m) : m \in r.inserted}
    BY <2>1 DEF HostSet
  <2>3. r \in HostSet
    BY <1>2, <2>1, <2>2 DEF HostSet
  <2> QED  BY <2>3 DEF r
<1> QED  BY <1>3, <1>4

LEMMA HostSwapped ==
  ASSUME NEW s \in HostSet, NEW l \in s.inserted, NEW m \in Locations,
         m # l, Region(m) = Region(l)
  PROVE  LET r == SwapInsertion(s, l, m)
         IN /\ r \in HostSet /\ r.aborted = s.aborted
            /\ m \notin s.inserted
            /\ r.inserted = (s.inserted \ {l}) \cup {m}
<1>1. s \in Base /\ l \in Locations /\ m \notin s.inserted
  BY DEF HostSet, Base, Fields
<1> DEFINE r == SwapInsertion(s, l, m)
<1>2. /\ r \in Base
      /\ <<r.host, r.aborted>> = <<s.host, s.aborted>>
      /\ r.inserted = Exchanged(s.inserted, l, m)
      /\ r.duplicate = Exchanged(s.duplicate, l, m)
  BY <1>1, SwapFacts
<1> HIDE DEF r
<1>3. r.inserted = (s.inserted \ {l}) \cup {m}
  BY <1>1, <1>2, ExchangedFacts
<1>4. r.host = {Region(n) : n \in r.inserted}
  BY <1>2, <1>3 DEF HostSet
<1>5. \A n \in r.inserted : n \notin r.duplicate
  BY <1>2, <1>3, ExchangedFacts DEF HostSet
<1>6. r \in HostSet
  BY <1>2, <1>3, <1>4, <1>5 DEF HostSet
<1> QED  BY <1>1, <1>2, <1>3, <1>6 DEF r

LEMMA HostInserted ==
  ASSUME NEW s \in HostSet, NEW l \in Locations, l \notin s.duplicate,
         \A m \in s.inserted : Region(m) # Region(l)
  PROVE  LET r == InsertBpLocation(s, l)
         IN /\ r \in HostSet /\ r.aborted = s.aborted
            /\ r.inserted = s.inserted \/ r.inserted = s.inserted \cup {l}
            /\ r.duplicate = s.duplicate
<1>1. s \in Base
  BY DEF HostSet
<1> DEFINE r == InsertBpLocation(s, l)
<1>2. /\ r \in Base /\ (s.aborted => r = s)
      /\ ~s.aborted => NotInserted(s, r, l) \/ Inserted(s, r, l)
  BY <1>1, InsertBpLocationFacts
<1> HIDE DEF r
<1>3. CASE r = s
  BY <1>3 DEF r
<1>4. CASE NotInserted(s, r, l)
  <2>1. r.host = s.host
    BY <1>4 DEF NotInserted, HostSet
  <2>2. <<r.inserted, r.duplicate, r.aborted>> = <<s.inserted, s.duplicate, s.aborted>>
    BY <1>4 DEF NotInserted
  <2>3. r \in HostSet
    BY <1>2, <2>1, <2>2 DEF HostSet
  <2> QED  BY <2>2, <2>3 DEF r
<1>5. CASE Inserted(s, r, l)
  <2>1. /\ r.inserted = s.inserted \cup {l} /\ r.host = s.host \cup {Region(l)}
        /\ r.aborted = s.aborted /\ r.duplicate = s.duplicate
    BY <1>5 DEF Inserted
  <2>2. r.host = {Region(m) : m \in r.inserted}
    BY <2>1 DEF HostSet
  <2>3. r \in HostSet
    BY <1>2, <2>1, <2>2 DEF HostSet
  <2> QED  BY <2>1, <2>3 DEF r
<1> QED  BY <1>2, <1>3, <1>4, <1>5

LEMMA HostMarked ==
  ASSUME NEW s \in HostSet, NEW dup \in SUBSET (Locations \ s.inserted)
  PROVE  [s EXCEPT !.duplicate = dup] \in HostSet
<1> DEFINE r == [s EXCEPT !.duplicate = dup]
<1>1. r \in Base /\ r.duplicate = dup /\ r.inserted = s.inserted /\ r.host = s.host
  BY MarkFacts DEF HostSet
<1> HIDE DEF r
<1>2. r \in HostSet
  BY <1>1 DEF HostSet
<1> QED  BY <1>2 DEF r

\* A set of states, with HostMatches, that the steps of breakpoint.c stay in: the
\* removal of an inserted location, the exchange of two that match, the insertion
\* of one that has no match, and the marking of any that are not inserted.
Kept(S) ==
  /\ S \subseteq HostSet
  /\ \A s \in S : [s EXCEPT !.ret = 0] \in S
  /\ \A s \in S : \A dup \in SUBSET (Locations \ s.inserted) :
       [s EXCEPT !.duplicate = dup] \in S
  /\ \A s \in S : \A l \in s.inserted :
       /\ RemoveBreakpoint(s, l) \in S
       /\ \A m \in Locations : m # l /\ Region(m) = Region(l) => SwapInsertion(s, l, m) \in S
  /\ \A s \in S : \A l \in Locations \ s.duplicate :
       (\A m \in s.inserted : Region(m) # Region(l)) => InsertBpLocation(s, l) \in S

LEMMA HostKept == Kept(HostSet)
<1>1. ASSUME NEW s \in HostSet PROVE [s EXCEPT !.ret = 0] \in HostSet
  <2> DEFINE r == [s EXCEPT !.ret = 0]
  <2>1. /\ r \in Fields
        /\ <<r.inserted, r.duplicate, r.host, r.map, r.gpu, r.warned, r.aborted>>
             = <<s.inserted, s.duplicate, s.host, s.map, s.gpu, s.warned, s.aborted>>
    BY DEF HostSet, Base, Fields
  <2> HIDE DEF r
  <2>2. r \in Base
    BY <2>1 DEF HostSet, Base
  <2>3. r \in HostSet
    BY <2>1, <2>2 DEF HostSet
  <2> QED  BY <2>3 DEF r
<1> QED  BY <1>1, HostRemoved, HostSwapped, HostInserted, HostMarked DEF Kept

\* The loops keep every such set.
LEMMA HostRemoveAll ==
  ASSUME NEW S, Kept(S), NEW s \in S, NEW locs \in SUBSET s.inserted
  PROVE  LET r == RemoveAll(s, locs)
         IN /\ r \in S
            /\ r.aborted \/ (~s.aborted /\ r.inserted \subseteq s.inserted)
<1> DEFINE P(x, l) ==
             \/ x.aborted
             \/ /\ ~s.aborted /\ x.inserted \subseteq s.inserted
                /\ \A m \in locs : l < m => m \in x.inserted
           X == [l \in 0..Last |-> {x \in S : P(x, l)}]
<1>1. /\ X[0] = {x \in S : P(x, 0)}
      /\ X[Last] = {x \in S : P(x, Last)}
      /\ \A l \in Locations : /\ X[l - 1] = {x \in S : P(x, l - 1)}
                              /\ X[l] = {x \in S : P(x, l)}
  BY LocationFacts
<1> HIDE DEF X
<1>2. \A x \in S : x \in Base /\ x.inserted \subseteq Locations
  BY DEF Kept, HostSet, Base, Fields
<1>3. s \in X[0] /\ locs \subseteq Locations
  BY <1>1, <1>2
<1>4. ASSUME NEW l \in Locations, NEW x \in X[l - 1]
      PROVE  (IF l \in locs THEN RemoveBreakpoint(x, l) ELSE x) \in X[l]
  <2>1. x \in S /\ P(x, l - 1)
    BY <1>1, <1>4
  <2>2. \A m \in locs : l < m => m # l /\ l - 1 < m
    BY <1>3, LocationFacts
  <2>3. CASE l \notin locs
    <3>1. P(x, l)
      BY <2>1, <2>2
    <3> QED  BY <1>1, <2>1, <2>3, <3>1
  <2>4. CASE l \in locs /\ x.aborted
    <3>1. RemoveBreakpoint(x, l) = x
      BY <2>4 DEF RemoveBreakpoint
    <3> QED  BY <1>1, <2>1, <2>4, <3>1
  <2>5. CASE l \in locs /\ ~x.aborted
    <3> DEFINE r == RemoveBreakpoint(x, l)
    <3>1. l \in x.inserted
      <4>1. l - 1 < l
        BY LocationFacts
      <4> QED  BY <2>1, <2>5, <4>1
    <3>2. r \in S
      BY <2>1, <3>1 DEF Kept
    <3>3. r.inserted = x.inserted \ {l}
      BY <1>2, <2>1, <2>5, RemoveBreakpointFacts DEF Removed
    <3> HIDE DEF r
    <3>4. P(r, l)
      BY <2>1, <2>2, <2>5, <3>3
    <3>5. r \in X[l]
      BY <1>1, <3>2, <3>4
    <3> QED  BY <2>5, <3>5 DEF r
  <2> QED  BY <2>3, <2>4, <2>5
<1>5. RemoveAll(s, locs) \in X[Last]
  BY <1>3, <1>4, RemoveLoop
<1> QED  BY <1>1, <1>5

\* A turn of the first loop keeps every such set, leaves nothing inserted that
\* it has looked at and is not wanted, and inserts nothing that is not.
LEMMA RetireKept ==
  ASSUME NEW S, Kept(S), NEW x \in S, NEW state, NEW l \in Locations
  PROVE  LET r == Retire(state, x, l)
         IN /\ r \in S
            /\ x.aborted => r.aborted
            /\ r.aborted \/ (l \in r.inserted => Wanted(state, l))
            /\ \A m \in r.inserted : m \in x.inserted \/ Wanted(state, m)
<1> DEFINE h == HandOver(state, x, l)
           Good(r) == /\ r \in S
                      /\ x.aborted => r.aborted
                      /\ r.aborted \/ (l \in r.inserted => Wanted(state, l))
                      /\ \A m \in r.inserted : m \in x.inserted \/ Wanted(state, m)
<1>1. S \subseteq HostSet /\ \A y \in S : y \in Base /\ y.inserted \subseteq Locations
  BY DEF Kept, HostSet, Base, Fields
<1>2. Good(h)
  <2>1. \/ /\ h = x
           /\ l \notin x.inserted \/ ShouldBeInserted(state, x, l)
        \/ /\ l \in x.inserted /\ h = RemoveBreakpoint(x, l)
        \/ /\ l \in x.inserted
           /\ \E m \in Locations : /\ h = SwapInsertion(x, l, m)
                                   /\ m # l /\ Region(m) = Region(l)
                                   /\ Wanted(state, m)
    BY <1>1, HandOverFacts
  <2> HIDE DEF h
  <2>2. CASE h = x /\ (l \notin x.inserted \/ ShouldBeInserted(state, x, l))
    BY <2>2 DEF ShouldBeInserted
  <2>3. CASE l \in x.inserted /\ h = RemoveBreakpoint(x, l)
    <3>1. h \in S
      BY <2>3 DEF Kept
    <3>2. x.aborted => h = x
      BY <1>1, <2>3, RemoveBreakpointFacts
    <3>3. ~x.aborted => h.inserted = x.inserted \ {l}
      BY <1>1, <2>3, RemoveBreakpointFacts DEF Removed
    <3> QED  BY <3>1, <3>2, <3>3
  <2>4. ASSUME NEW m \in Locations, l \in x.inserted, h = SwapInsertion(x, l, m),
               m # l, Region(m) = Region(l), Wanted(state, m)
        PROVE  Good(h)
    <3>1. x \in HostSet /\ h \in S
      BY <1>1, <2>4 DEF Kept
    <3>2. h.aborted = x.aborted /\ h.inserted = (x.inserted \ {l}) \cup {m}
      BY <2>4, <3>1, HostSwapped
    <3> QED  BY <2>4, <3>1, <3>2
  <2> QED  BY <2>1, <2>2, <2>3, <2>4
<1>3. CASE Retire(state, x, l) = h
  BY <1>2, <1>3
<1>4. CASE Retire(state, x, l) = Freed(h, l) /\ ~Wanted(state, l) /\ ~h.aborted
  <2> HIDE DEF h
  <2>1. h \in S /\ h \in HostSet /\ h \in Base /\ l \notin h.inserted
    BY <1>1, <1>2, <1>4
  <2> DEFINE r == Freed(h, l)
             dup == h.duplicate \ {l}
  <2>2. dup \in SUBSET (Locations \ h.inserted) /\ dup \in SUBSET Locations
    BY <2>1 DEF HostSet, Base, Fields
  <2>3. r = [h EXCEPT !.duplicate = dup]
    BY <2>1, FreedFacts
  <2> HIDE DEF r, dup
  <2>4. r \in S
    BY <2>1, <2>2, <2>3 DEF Kept
  <2>5. r.inserted = h.inserted /\ r.aborted = h.aborted
    BY <2>1, <2>2, <2>3, MarkFacts
  <2>6. Good(r)
    BY <1>2, <2>4, <2>5
  <2> QED  BY <1>4, <2>6 DEF r
<1> QED  BY <1>3, <1>4, RetireFacts

\* After the first loop what is inserted is wanted.
LEMMA HostRetireAll ==
  ASSUME NEW S, Kept(S), NEW s \in S, NEW state
  PROVE  LET r == RetireAll(state, s)
         IN r \in S /\ (r.aborted \/ \A m \in r.inserted : Wanted(state, m))
<1> DEFINE P(x, l) == x.aborted \/ \A m \in x.inserted : m <= l => Wanted(state, m)
           X == [l \in 0..Last |-> {x \in S : P(x, l)}]
<1>1. /\ X[0] = {x \in S : P(x, 0)}
      /\ X[Last] = {x \in S : P(x, Last)}
      /\ \A l \in Locations : /\ X[l - 1] = {x \in S : P(x, l - 1)}
                              /\ X[l] = {x \in S : P(x, l)}
  BY LocationFacts
<1> HIDE DEF X
<1>2. \A x \in S : x \in Base /\ x.inserted \subseteq Locations
  BY DEF Kept, HostSet, Base, Fields
<1>3. s \in X[0]
  BY <1>1, <1>2, LocationFacts
<1>4. ASSUME NEW l \in Locations, NEW x \in X[l - 1]
      PROVE  Retire(state, x, l) \in X[l]
  <2> DEFINE r == Retire(state, x, l)
  <2>1. x \in S /\ P(x, l - 1)
    BY <1>1, <1>4
  <2>2. \A m \in Locations : m <= l => m = l \/ m <= l - 1
    BY LocationFacts
  <2>3. /\ r \in S
        /\ x.aborted => r.aborted
        /\ r.aborted \/ (l \in r.inserted => Wanted(state, l))
        /\ \A m \in r.inserted : m \in x.inserted \/ Wanted(state, m)
    BY <2>1, RetireKept
  <2> HIDE DEF r
  <2>4. P(r, l)
    BY <1>2, <2>1, <2>2, <2>3
  <2> QED  BY <1>1, <2>3, <2>4 DEF r
<1>5. RetireAll(state, s) \in X[Last]
  BY <1>3, <1>4, RetireLoop
<1>6. \A x \in S : \A m \in x.inserted : m <= Last
  BY <1>2, LocationFacts
<1> QED  BY <1>1, <1>5, <1>6

\* What the second loop leaves: the locations inserted are wanted and first of
\* their kind, the others of their kind are marked.
Firsts(state, s) == \A m \in s.inserted : Wanted(state, m) /\ ~MatchesFirst(state, m)
MarkedTo(state, s, l) ==
  \A m \in Locations : m <= l /\ Wanted(state, m)
                         => (m \in s.duplicate <=> MatchesFirst(state, m))

LEMMA HostRescanAll ==
  ASSUME NEW S, Kept(S), NEW state, NEW s \in S,
         s.aborted \/ \A m \in s.inserted : Wanted(state, m)
  PROVE  LET r == RescanAll(state, s)
         IN /\ r \in S
            /\ r.aborted \/ (Firsts(state, r) /\ MarkedTo(state, r, Last))
<1> DEFINE P(x, l) == \/ x.aborted
                      \/ /\ MarkedTo(state, x, l)
                         /\ \A m \in x.inserted :
                              Wanted(state, m) /\ (m <= l => ~MatchesFirst(state, m))
           X == [l \in 0..Last |-> {x \in S : P(x, l)}]
<1>1. /\ X[0] = {x \in S : P(x, 0)}
      /\ X[Last] = {x \in S : P(x, Last)}
      /\ \A l \in Locations : /\ X[l - 1] = {x \in S : P(x, l - 1)}
                              /\ X[l] = {x \in S : P(x, l)}
  BY LocationFacts
<1> HIDE DEF X
<1>2. \A x \in S : /\ x \in HostSet /\ x \in Base /\ x.inserted \subseteq Locations
                   /\ x.duplicate \subseteq Locations \ x.inserted
  BY DEF Kept, HostSet, Base, Fields
<1>3. s \in X[0]
  BY <1>1, <1>2, LocationFacts DEF MarkedTo
<1>4. ASSUME NEW l \in Locations, NEW x \in X[l - 1]
      PROVE  Rescanned(state, x, l) \in X[l]
  <2> DEFINE r == Rescanned(state, x, l)
  <2>1. x \in S /\ P(x, l - 1)
    BY <1>1, <1>4
  <2>2. \A m \in Locations : m <= l => m = l \/ m <= l - 1
    BY LocationFacts
  <2> HIDE DEF r
  <2>3. CASE ~Wanted(state, l) /\ r = x
    <3>1. P(r, l)
      BY <1>2, <2>1, <2>2, <2>3 DEF MarkedTo
    <3> QED  BY <1>1, <2>1, <2>3, <3>1 DEF r
  <2>4. ASSUME NEW dup \in SUBSET (Locations \ x.inserted),
               r = [x EXCEPT !.duplicate = dup], l \in dup <=> MatchesFirst(state, l),
               \A m \in Locations : m # l => (m \in dup <=> m \in x.duplicate),
               l \in x.inserted => ~MatchesFirst(state, l)
        PROVE  r \in X[l]
    <3>1. r \in S
      BY <2>1, <2>4 DEF Kept
    <3>2. r.duplicate = dup /\ r.inserted = x.inserted /\ r.aborted = x.aborted
      <4>1. dup \in SUBSET Locations
        OBVIOUS
      <4> QED  BY <1>2, <2>1, <2>4, <4>1, MarkFacts
    <3>3. P(r, l)
      BY <1>2, <2>1, <2>2, <2>4, <3>2 DEF MarkedTo
    <3> QED  BY <1>1, <3>1, <3>3
  <2>5. CASE /\ ~MatchesFirst(state, l)
             /\ r = [x EXCEPT !.duplicate = x.duplicate \ {l}]
    <3> DEFINE dup == x.duplicate \ {l}
    <3>1. dup \in SUBSET (Locations \ x.inserted) /\ l \notin dup
      BY <1>2, <2>1
    <3>2. \A m \in Locations : m # l => (m \in dup <=> m \in x.duplicate)
      OBVIOUS
    <3>3. r = [x EXCEPT !.duplicate = dup]
      BY <2>5
    <3> HIDE DEF dup
    <3> QED  BY <2>4, <2>5, <3>1, <3>2, <3>3 DEF r
  <2>6. CASE /\ MatchesFirst(state, l) /\ l \notin x.inserted
             /\ r = [x EXCEPT !.duplicate = x.duplicate \cup {l}]
    <3> DEFINE dup == x.duplicate \cup {l}
    <3>1. dup \in SUBSET (Locations \ x.inserted) /\ l \in dup
      BY <1>2, <2>1, <2>6
    <3>2. \A m \in Locations : m # l => (m \in dup <=> m \in x.duplicate)
      OBVIOUS
    <3>3. r = [x EXCEPT !.duplicate = dup]
      BY <2>6
    <3> HIDE DEF dup
    <3> QED  BY <2>4, <2>6, <3>1, <3>2, <3>3 DEF r
  <2>7. ASSUME NEW m \in Locations, NEW y, y = SwapInsertion(x, l, m),
               r = [y EXCEPT !.duplicate = y.duplicate \cup {l}],
               l \in x.inserted, m < l, m # l, Region(m) = Region(l),
               Wanted(state, m), ~MatchesFirst(state, m), MatchesFirst(state, l)
        PROVE  r \in X[l]
    <3>1. /\ y \in S /\ y.aborted = x.aborted
          /\ y.inserted = (x.inserted \ {l}) \cup {m}
      <4>1. x \in HostSet /\ y \in S
        BY <2>1, <2>7 DEF Kept
      <4> QED  BY <2>7, <4>1, HostSwapped
    <3>2. /\ m \notin y.duplicate
          /\ \A n \in Locations : n # l /\ n # m => (n \in y.duplicate <=> n \in x.duplicate)
      <4>1. y.duplicate = Exchanged(x.duplicate, l, m)
        BY <1>2, <2>1, <2>7, SwapFacts
      <4>2. l \notin x.duplicate
        BY <1>2, <2>1, <2>7
      <4> QED  BY <2>7, <4>1, <4>2, ExchangedFacts
    <3> DEFINE dup == y.duplicate \cup {l}
    <3>3. dup \in SUBSET (Locations \ y.inserted) /\ dup \in SUBSET Locations
      BY <1>2, <2>7, <3>1
    <3>4. /\ l \in dup /\ m \notin dup
          /\ \A n \in Locations : n # l /\ n # m => (n \in dup <=> n \in x.duplicate)
      BY <2>7, <3>2
    <3>5. r = [y EXCEPT !.duplicate = dup]
      BY <2>7
    <3> HIDE DEF dup
    <3>6. r \in S
      BY <3>1, <3>3, <3>5 DEF Kept
    <3>7. r.duplicate = dup /\ r.inserted = y.inserted /\ r.aborted = y.aborted
      BY <1>2, <3>1, <3>3, <3>5, MarkFacts
    <3>8. CASE x.aborted
      BY <1>1, <3>1, <3>6, <3>7, <3>8
    <3>9. CASE ~x.aborted
      <4>1. MarkedTo(state, r, l)
        BY <2>1, <2>2, <2>7, <3>4, <3>7, <3>9 DEF MarkedTo
      <4>2. \A n \in r.inserted : Wanted(state, n) /\ (n <= l => ~MatchesFirst(state, n))
        BY <1>2, <2>1, <2>2, <2>7, <3>1, <3>7, <3>9
      <4> QED  BY <1>1, <3>6, <4>1, <4>2
    <3> QED  BY <3>8, <3>9
  <2>8. LET z == Rescanned(state, x, l)
        IN \/ ~Wanted(state, l) /\ z = x
           \/ /\ Wanted(state, l) /\ ~MatchesFirst(state, l)
              /\ z = [x EXCEPT !.duplicate = x.duplicate \ {l}]
           \/ /\ Wanted(state, l) /\ MatchesFirst(state, l) /\ l \notin x.inserted
              /\ z = [x EXCEPT !.duplicate = x.duplicate \cup {l}]
           \/ /\ Wanted(state, l) /\ MatchesFirst(state, l) /\ l \in x.inserted
              /\ \E m \in Locations :
                   LET y == SwapInsertion(x, l, m)
                   IN /\ z = [y EXCEPT !.duplicate = y.duplicate \cup {l}]
                      /\ m < l /\ m # l /\ Region(m) = Region(l)
                      /\ Wanted(state, m) /\ ~MatchesFirst(state, m)
    BY <1>2, <2>1, RescannedFacts
  <2> QED  BY <2>3, <2>5, <2>6, <2>7, <2>8 DEF r
<1>5. RescanAll(state, s) \in X[Last]
  BY <1>3, <1>4, RescanLoop
<1>6. \A x \in S : \A m \in x.inserted : m <= Last
  BY <1>2, LocationFacts
<1> QED  BY <1>1, <1>5, <1>6 DEF Firsts

\* insert_breakpoint_locations inserts no region twice.
LEMMA HostInsertMissing ==
  ASSUME Contiguous, NEW S, Kept(S), NEW state, NEW s \in S,
         s.aborted \/ (Firsts(state, s) /\ MarkedTo(state, s, Last))
  PROVE  LET r == InsertMissing(state, s)
         IN r \in S /\ (r.aborted \/ Firsts(state, r))
<1> DEFINE locs == UNION {Missing(state, s, b) : b \in Watchpoint}
           P(x, l) == \/ x.aborted
                      \/ /\ ~s.aborted /\ x.duplicate = s.duplicate
                         /\ Firsts(state, x)
                         /\ \A m \in x.inserted : m \in s.inserted \/ m <= l
           X == [l \in 0..Last |-> {x \in S : P(x, l)}]
<1>1. /\ X[0] = {x \in S : P(x, 0)}
      /\ X[Last] = {x \in S : P(x, Last)}
      /\ \A l \in Locations : /\ X[l - 1] = {x \in S : P(x, l - 1)}
                              /\ X[l] = {x \in S : P(x, l)}
  BY LocationFacts
<1> HIDE DEF X
<1>2. s \in X[0]
  BY <1>1
<1>3. \A l \in locs : Wanted(state, l) /\ l \notin s.duplicate /\ l \notin s.inserted
  BY DEF Missing, ShouldBeInserted
<1> HIDE DEF locs
<1>4. \A x \in S : x \in Base /\ x.inserted \subseteq Locations
  BY DEF Kept, HostSet, Base, Fields
<1>5. ASSUME NEW l \in Locations, NEW x \in X[l - 1]
      PROVE  (IF l \in locs THEN InsertBpLocation(x, l) ELSE x) \in X[l]
  <2>1. x \in S /\ P(x, l - 1)
    BY <1>1, <1>5
  <2>2. \A m \in Locations : m <= l - 1 => m <= l /\ m # l
    BY LocationFacts
  <2>3. CASE l \notin locs
    <3>1. P(x, l)
      BY <1>4, <2>1, <2>2
    <3> QED  BY <1>1, <2>1, <2>3, <3>1
  <2>4. CASE l \in locs /\ x.aborted
    <3>1. InsertBpLocation(x, l) = x
      BY <2>4 DEF InsertBpLocation
    <3> QED  BY <1>1, <2>1, <2>4, <3>1
  <2>5. CASE l \in locs /\ ~x.aborted
    <3> DEFINE r == InsertBpLocation(x, l)
    <3>1. l <= Last /\ Wanted(state, l) /\ ~MatchesFirst(state, l) /\ l \notin x.duplicate
      BY <1>3, <2>1, <2>5, LocationFacts DEF MarkedTo
    <3>2. ASSUME NEW m \in x.inserted PROVE Region(m) # Region(l)
      <4>1. m \in Locations /\ m # l
        BY <1>3, <1>4, <2>1, <2>2, <2>5
      <4>2. Wanted(state, m) /\ ~MatchesFirst(state, m)
        BY <2>1, <2>5 DEF Firsts
      <4>3. m < l \/ l < m
        BY <4>1, LocationFacts
      <4> QED  BY <3>1, <4>1, <4>2, <4>3, OriginalUnique
    <3>3. /\ r \in S /\ r.aborted = x.aborted /\ r.duplicate = x.duplicate
          /\ r.inserted = x.inserted \/ r.inserted = x.inserted \cup {l}
      <4>1. x \in HostSet /\ r \in S
        BY <2>1, <3>1, <3>2 DEF Kept
      <4> QED  BY <3>1, <3>2, <4>1, HostInserted
    <3> HIDE DEF r
    <3>4. P(r, l)
      <4>1. l <= l
        BY LocationFacts
      <4> QED  BY <1>4, <2>1, <2>2, <2>5, <3>1, <3>3, <4>1 DEF Firsts
    <3> QED  BY <1>1, <2>5, <3>3, <3>4 DEF r
  <2> QED  BY <2>3, <2>4, <2>5
<1>6. InsertAll(s, locs) \in X[Last]
  BY <1>2, <1>5, InsertLoop
<1> QED  BY <1>1, <1>6 DEF InsertMissing, locs

\* update_global_location_list keeps S.
LEMMA HostUpdate ==
  ASSUME Contiguous, NEW S, Kept(S), t \in S, NEW state, NEW insert,
         UpdateGlobalLocationList(state, insert)
  PROVE  /\ t' \in S
         /\ t'.aborted \/ \A m \in t'.inserted : Wanted(state, m)
<1> DEFINE retired == RetireAll(state, t)
           all == InsertMissing(state, Rescan(state))
           half == {l \in all.inserted : Owner(l) \in SomeFailed(state, all)}
           new == IF insert THEN RemoveHalfInserted(state, all) ELSE Rescan(state)
<1>1. /\ retired \in S
      /\ retired.aborted \/ \A m \in retired.inserted : Wanted(state, m)
  BY HostRetireAll
<1>2. /\ Rescan(state) \in S
      /\ \/ Rescan(state).aborted
         \/ Firsts(state, Rescan(state)) /\ MarkedTo(state, Rescan(state), Last)
  <2> HIDE DEF retired
  <2>1. Rescan(state) = RescanAll(state, retired)
    BY DEF Rescan, retired
  <2> QED  BY <1>1, <2>1, HostRescanAll
<1>3. /\ all \in S
      /\ all.aborted \/ Firsts(state, all)
  BY <1>2, HostInsertMissing
<1>4. /\ RemoveHalfInserted(state, all) \in S
      /\ \/ RemoveHalfInserted(state, all).aborted
         \/ \A m \in RemoveHalfInserted(state, all).inserted : Wanted(state, m)
  <2> HIDE DEF all
  <2>1. half \in SUBSET all.inserted
    OBVIOUS
  <2>2. RemoveHalfInserted(state, all) = RemoveAll(all, half)
    BY DEF RemoveHalfInserted
  <2> HIDE DEF half
  <2>3. LET r == RemoveAll(all, half)
        IN r \in S /\ (r.aborted \/ (~all.aborted /\ r.inserted \subseteq all.inserted))
    BY <1>3, <2>1, HostRemoveAll
  <2> QED  BY <1>3, <2>2, <2>3 DEF Firsts
<1>5. /\ new \in S /\ Become(new)
      /\ new.aborted \/ \A m \in new.inserted : Wanted(state, m)
  BY <1>2, <1>4 DEF UpdateGlobalLocationList, Firsts
<1> HIDE DEF new
<1>6. new \in Base /\ t' \in S
  BY <1>5 DEF Kept, Become, HostSet
<1> QED  BY <1>5, <1>6, BecomeFacts

LEMMA HostStep ==
  ASSUME Contiguous
  PROVE  TypeInv /\ t \in HostSet /\ [Next]_vars => t' \in HostSet
<1> SUFFICES ASSUME TypeInv, t \in HostSet, [Next]_vars PROVE t' \in HostSet
  OBVIOUS
<1>1. ASSUME NEW b \in Watchpoint,
             \/ SetWatchpoint(b) \/ EnableWatchpoint(b)
             \/ DisableWatchpoint(b) \/ DeleteWatchpoint(b)
      PROVE  t' \in HostSet
  BY <1>1, HostKept, HostUpdate
     DEF SetWatchpoint, EnableWatchpoint, DisableWatchpoint, DeleteWatchpoint
<1>2. CASE Proceed
  BY <1>2, HostKept, HostUpdate DEF Proceed
<1>3. CASE NormalStop
  <2>1. RemoveAll(t, t.inserted) \in HostSet
    BY HostKept, HostRemoveAll
  <2>2. Become(RemoveAll(t, t.inserted))
    BY <1>3 DEF NormalStop
  <2> QED  BY <2>1, <2>2, BecomeFacts DEF HostSet
<1>4. CASE RuntimeLoaded
  <2> DEFINE Y == {x \in Base : /\ x.host = t.host /\ x.inserted = t.inserted
                                /\ x.duplicate = t.duplicate}
             X == [l \in 0..Last |-> Y]
             new == InsertInitialAll(t, Initial)
  <2>1. /\ t \in X[0]
        /\ X[Last] = Y /\ \A l \in Locations : X[l - 1] = Y /\ X[l] = Y
    BY LocationFacts DEF TypeInv
  <2> HIDE DEF X
  <2>2. ASSUME NEW l \in Locations, NEW x \in X[l - 1]
        PROVE  (IF l \in Initial THEN InsertInitial(x, l) ELSE x) \in X[l]
    BY <2>1, InsertInitialFacts
  <2>3. new \in X[Last]
    BY <2>1, <2>2, InitialLoop
  <2>4. Become(new)
    BY <1>4 DEF RuntimeLoaded
  <2> HIDE DEF new
  <2>5. /\ t' \in Base /\ t'.host = t.host /\ t'.inserted = t.inserted
        /\ t'.duplicate = t.duplicate
    BY <2>1, <2>3, <2>4, BecomeFacts
  <2> QED  BY <2>5 DEF HostSet
<1>5. CASE RuntimeUnloaded \/ MournInferior
  <2>1. t' \in Base
    BY TypeStep DEF TypeInv
  <2>2. \/ /\ t'.host = t.host /\ t'.inserted = t.inserted
           /\ t'.duplicate = t.duplicate
        \/ t'.host = {} /\ t'.inserted = {}
    BY <1>5 DEF RuntimeUnloaded, MournInferior, TypeInv, Base, Fields
  <2> QED  BY <2>1, <2>2 DEF HostSet
<1>6. CASE InternalError \/ UNCHANGED vars
  BY <1>6 DEF InternalError, vars
<1> QED  BY <1>1, <1>2, <1>3, <1>4, <1>5, <1>6 DEF Next

\* The debug registers of the host hold exactly the regions of the locations
\* GDB believes inserted, whichever half of an insertion fails, whichever
\* duplicate takes over and whatever is removed: given that
\* update_global_location_list can see every duplicate.
THEOREM HostIsInStep ==
  ASSUME Contiguous
  PROVE  Spec => []HostMatches
<1>1. Init => t \in HostSet
  <2> SUFFICES ASSUME Init PROVE t \in HostSet
    OBVIOUS
  <2>1. t \in Base /\ t.host = {} /\ t.inserted = {}
    BY TypeInit DEF TypeInv, Init
  <2> QED  BY <2>1 DEF HostSet
<1>2. TypeInv /\ t \in HostSet /\ [Next]_vars => (t \in HostSet)'
  BY HostStep
<1>3. t \in HostSet => HostMatches
  BY DEF HostSet, HostMatches
<1> QED  BY <1>1, <1>2, <1>3, TypeAlways, PTL DEF Spec

(***************************************************************************)
(* The GPU's watchpoints.                                                  *)
(***************************************************************************)

Served(s, l) == \E e \in s.gpu : e.address = Address(l) /\ e.end = End(l)

\* WatchedOnGpu; no warning is left over from a runtime that is not loaded.
GpuSet ==
  {s \in HostSet : IF runtime_state
                   THEN \A l \in s.inserted \ s.warned : Undisturbed(l) => Served(s, l)
                   ELSE s.warned = {}}

LEMMA GpuRemoved ==
  ASSUME NEW s \in GpuSet, NEW l \in s.inserted
  PROVE  RemoveBreakpoint(s, l) \in GpuSet
<1> DEFINE r == RemoveBreakpoint(s, l)
<1>1. s \in HostSet /\ s \in Base /\ s.inserted \subseteq Locations
  BY DEF GpuSet, HostSet, Base, Fields
<1>2. r \in HostSet /\ (s.aborted => r = s) /\ (~s.aborted => Removed(s, r, l))
  BY <1>1, HostRemoved, RemoveBreakpointFacts
<1> HIDE DEF r
<1>3. CASE s.aborted
  BY <1>2, <1>3 DEF r
<1>4. CASE ~s.aborted /\ ~runtime_state
  <2>1. r.warned = {}
    BY <1>2, <1>4 DEF Removed, GpuSet
  <2>2. r \in GpuSet
    BY <1>2, <1>4, <2>1 DEF GpuSet
  <2> QED  BY <2>2 DEF r
<1>5. CASE ~s.aborted /\ runtime_state
  <2>1. ASSUME NEW m \in r.inserted \ r.warned, Undisturbed(m) PROVE Served(r, m)
    <3>1. m \in s.inserted \ s.warned /\ m # l
      BY <1>2, <1>5, <2>1 DEF Removed
    <3>2. PICK e \in s.gpu : e.address = Address(m) /\ e.end = End(m)
      BY <1>5, <2>1, <3>1 DEF GpuSet, Served
    <3>3. e \in r.gpu
      <4>1. SUFFICES ASSUME e \in Found(s, l) PROVE FALSE
        BY <1>2, <1>5 DEF Removed
      <4>2. Address(m) <= Address(l) /\ End(l) <= End(m)
        BY <3>2, <4>1 DEF Found, Below
      <4>3. Region(l) = Region(m)
        BY <1>1, <2>1, <3>1, <4>2 DEF Undisturbed
      <4> QED  BY <1>1, <3>1, <4>3 DEF HostSet
    <3> QED  BY <3>2, <3>3 DEF Served
  <2>2. r \in GpuSet
    BY <1>2, <1>5, <2>1 DEF GpuSet
  <2> QED  BY <2>2 DEF r
<1> QED  BY <1>3, <1>4, <1>5

LEMMA GpuSwapped ==
  ASSUME NEW s \in GpuSet, NEW l \in s.inserted, NEW m \in Locations,
         m # l, Region(m) = Region(l)
  PROVE  SwapInsertion(s, l, m) \in GpuSet
<1> DEFINE r == SwapInsertion(s, l, m)
<1>1. s \in HostSet /\ s \in Base /\ l \in Locations
  BY DEF GpuSet, HostSet, Base, Fields
<1>2. r \in HostSet /\ r.inserted = (s.inserted \ {l}) \cup {m}
  BY <1>1, HostSwapped
<1>3. /\ <<r.host, r.map, r.gpu, r.aborted>> = <<s.host, s.map, s.gpu, s.aborted>>
      /\ r.warned = Exchanged(s.warned, l, m)
  BY <1>1, SwapFacts
<1> HIDE DEF r
<1>4. CASE ~runtime_state
  <2>1. r.warned = {}
    BY <1>3, <1>4, ExchangedFacts DEF GpuSet
  <2>2. r \in GpuSet
    BY <1>2, <1>4, <2>1 DEF GpuSet
  <2> QED  BY <2>2 DEF r
<1>5. CASE runtime_state
  <2>1. ASSUME NEW n \in r.inserted \ r.warned, Undisturbed(n) PROVE Served(r, n)
    <3>1. CASE n = m
      <4>1. l \in s.inserted \ s.warned
        BY <1>3, <2>1, <3>1, ExchangedFacts
      <4>2. Address(m) = Address(l) /\ End(m) = End(l)
        BY DEF Region
      <4>3. Undisturbed(l)
        BY <2>1, <3>1, <4>2 DEF Undisturbed
      <4>4. Served(s, l)
        BY <1>5, <4>1, <4>3 DEF GpuSet
      <4> QED  BY <1>3, <3>1, <4>2, <4>4 DEF Served
    <3>2. CASE n # m
      <4>1. n \in s.inserted \ s.warned
        <5>1. n # l
          BY <1>2, <2>1, <3>2
        <5> QED  BY <1>2, <1>3, <2>1, <3>2, <5>1, ExchangedFacts
      <4>2. Served(s, n)
        BY <1>5, <2>1, <4>1 DEF GpuSet
      <4> QED  BY <1>3, <4>2 DEF Served
    <3> QED  BY <3>1, <3>2
  <2>2. r \in GpuSet
    BY <1>2, <1>5, <2>1 DEF GpuSet
  <2> QED  BY <2>2 DEF r
<1> QED  BY <1>4, <1>5

LEMMA GpuBpInserted ==
  ASSUME NEW s \in GpuSet, NEW l \in Locations, l \notin s.duplicate,
         \A m \in s.inserted : Region(m) # Region(l)
  PROVE  InsertBpLocation(s, l) \in GpuSet
<1> DEFINE r == InsertBpLocation(s, l)
<1>1. s \in HostSet /\ s \in Base
  BY DEF GpuSet, HostSet
<1>2. r \in HostSet
  BY <1>1, HostInserted
<1>3. /\ s.aborted => r = s
      /\ ~s.aborted => NotInserted(s, r, l) \/ Inserted(s, r, l)
  BY <1>1, InsertBpLocationFacts
<1> HIDE DEF r
<1>4. CASE r = s
  BY <1>4 DEF r
<1>5. CASE NotInserted(s, r, l)
  <2>1. r \in GpuSet
    BY <1>2, <1>5 DEF NotInserted, GpuSet, Served
  <2> QED  BY <2>1 DEF r
<1>6. CASE Inserted(s, r, l)
  <2>1. CASE ~runtime_state
    <3>1. r.warned = {}
      BY <1>6, <2>1 DEF Inserted, GpuSet
    <3>2. r \in GpuSet
      BY <1>2, <2>1, <3>1 DEF GpuSet
    <3> QED  BY <3>2 DEF r
  <2>2. CASE runtime_state
    <3>1. s.gpu \subseteq r.gpu /\ Served(r, l)
      BY <1>6, <2>2 DEF Inserted, GpuInserted, Served
    <3>2. ASSUME NEW m \in r.inserted \ r.warned, m # l, Undisturbed(m)
          PROVE  Served(r, m)
      <4>1. m \in s.inserted \ s.warned
        BY <1>6, <3>2 DEF Inserted
      <4>2. Served(s, m)
        BY <2>2, <3>2, <4>1 DEF GpuSet
      <4> QED  BY <3>1, <4>2 DEF Served
    <3>3. r \in GpuSet
      BY <1>2, <2>2, <3>1, <3>2 DEF GpuSet
    <3> QED  BY <3>3 DEF r
  <2> QED  BY <2>1, <2>2
<1> QED  BY <1>3, <1>4, <1>5, <1>6

LEMMA GpuMarked ==
  ASSUME NEW s \in GpuSet, NEW dup \in SUBSET (Locations \ s.inserted)
  PROVE  [s EXCEPT !.duplicate = dup] \in GpuSet
<1> DEFINE r == [s EXCEPT !.duplicate = dup]
<1>1. s \in HostSet /\ s \in Base /\ dup \in SUBSET Locations
  BY DEF GpuSet, HostSet
<1>2. r \in HostSet /\ <<r.inserted, r.gpu, r.warned>> = <<s.inserted, s.gpu, s.warned>>
  BY <1>1, HostMarked, MarkFacts
<1> HIDE DEF r
<1>3. r \in GpuSet
  BY <1>2 DEF GpuSet, Served
<1> QED  BY <1>3 DEF r

LEMMA GpuKept == Kept(GpuSet)
<1>1. ASSUME NEW s \in GpuSet PROVE [s EXCEPT !.ret = 0] \in GpuSet
  <2> DEFINE r == [s EXCEPT !.ret = 0]
  <2>1. r \in HostSet
    BY HostKept DEF Kept, GpuSet
  <2>2. <<r.inserted, r.duplicate, r.gpu, r.warned>> = <<s.inserted, s.duplicate, s.gpu, s.warned>>
    BY DEF GpuSet, HostSet, Base, Fields
  <2> HIDE DEF r
  <2>3. r \in GpuSet
    BY <2>1, <2>2 DEF GpuSet, Served
  <2> QED  BY <2>3 DEF r
<1>2. GpuSet \subseteq HostSet
  BY DEF GpuSet
<1> QED  BY <1>1, <1>2, GpuRemoved, GpuSwapped, GpuBpInserted, GpuMarked DEF Kept

\* The inductive invariant of WatchedOnGpu: what is inserted is wanted, so that
\* insert_initial_watchpoints meets it.
WatchInv ==
  /\ TypeInv
  /\ t \in GpuSet
  /\ t.aborted \/ \A l \in t.inserted : Wanted(enable_state, l)

\* insert_initial_watchpoints watches what is inserted, or warns.
LEMMA LoadWatches ==
  ASSUME WatchInv, RuntimeLoaded
  PROVE  (t \in GpuSet)' /\ t'.inserted = t.inserted
<1> DEFINE P(x, l) == /\ x.host = t.host /\ x.inserted = t.inserted
                      /\ x.duplicate = t.duplicate
                      /\ \A m \in x.inserted \ x.warned : m <= l => Served(x, m)
           X == [l \in 0..Last |-> {x \in Base : P(x, l)}]
           new == InsertInitialAll(t, Initial)
<1>1. /\ X[0] = {x \in Base : P(x, 0)}
      /\ X[Last] = {x \in Base : P(x, Last)}
      /\ \A l \in Locations : /\ X[l - 1] = {x \in Base : P(x, l - 1)}
                              /\ X[l] = {x \in Base : P(x, l)}
  BY LocationFacts
<1> HIDE DEF X
<1>2. t \in Base /\ t \in HostSet /\ t.inserted \subseteq Locations
  BY DEF WatchInv, GpuSet, HostSet, Base, Fields
<1>3. t \in X[0]
  BY <1>1, <1>2, LocationFacts
<1>4. t.inserted \subseteq Initial
  BY <1>2 DEF Initial, WatchInv, RuntimeLoaded, Wanted
<1>5. ASSUME NEW l \in Locations, NEW x \in X[l - 1]
      PROVE  (IF l \in Initial THEN InsertInitial(x, l) ELSE x) \in X[l]
  <2>1. x \in Base /\ P(x, l - 1)
    BY <1>1, <1>5
  <2>2. \A m \in t.inserted : m <= l => m = l \/ m <= l - 1
    BY <1>2, LocationFacts
  <2>3. CASE l \notin Initial
    <3>1. l \notin x.inserted
      BY <1>4, <2>1, <2>3
    <3>2. P(x, l)
      BY <2>1, <2>2, <3>1
    <3> QED  BY <1>1, <2>1, <2>3, <3>2
  <2>4. CASE l \in Initial
    <3> DEFINE r == InsertInitial(x, l)
    <3>1. /\ r \in Base
          /\ <<r.inserted, r.duplicate, r.host, r.aborted>> = <<x.inserted, x.duplicate, x.host, x.aborted>>
          /\ \/ /\ r.warned = x.warned \cup {l}
                /\ r.gpu = x.gpu
             \/ /\ r.warned = x.warned
                /\ x.gpu \subseteq r.gpu
                /\ Served(r, l)
      BY <2>1, InsertInitialFacts DEF Served
    <3> HIDE DEF r
    <3>2. ASSUME NEW m \in r.inserted \ r.warned, m <= l PROVE Served(r, m)
      <4>1. m = l \/ (m \in x.inserted \ x.warned /\ m <= l - 1)
        BY <2>1, <2>2, <3>1, <3>2
      <4>2. CASE m = l
        BY <3>1, <3>2, <4>2
      <4>3. CASE m \in x.inserted \ x.warned /\ m <= l - 1
        <5>1. Served(x, m)
          BY <2>1, <4>3
        <5> QED  BY <3>1, <5>1 DEF Served
      <4> QED  BY <4>1, <4>2, <4>3
    <3>3. P(r, l)
      BY <2>1, <3>1, <3>2
    <3> QED  BY <1>1, <2>4, <3>1, <3>3 DEF r
  <2> QED  BY <2>3, <2>4
<1>6. new \in X[Last]
  BY <1>3, <1>5, InitialLoop
<1>7. Become(new) /\ runtime_state'
  BY DEF RuntimeLoaded
<1> HIDE DEF new
<1>8. /\ t' \in Base
      /\ <<t'.inserted, t'.duplicate, t'.host, t'.gpu, t'.warned>>
           = <<new.inserted, new.duplicate, new.host, new.gpu, new.warned>>
  BY <1>1, <1>6, <1>7, BecomeFacts
<1>9. /\ new.host = t.host /\ new.inserted = t.inserted /\ new.duplicate = t.duplicate
      /\ \A m \in new.inserted \ new.warned : Served(new, m)
  <2>1. P(new, Last)
    BY <1>1, <1>6
  <2>2. \A m \in t.inserted : m <= Last
    BY <1>2, LocationFacts
  <2> QED  BY <2>1, <2>2
<1>10. t' \in HostSet /\ HostSet' = HostSet
  BY <1>2, <1>8, <1>9 DEF HostSet, Base, Fields, Region, Locations
<1>11. \A m \in t'.inserted \ t'.warned : Served(t', m)
  BY <1>8, <1>9 DEF Served
<1> QED  BY <1>7, <1>8, <1>9, <1>10, <1>11 DEF GpuSet, Served

LEMMA WatchUpdate ==
  ASSUME Contiguous, WatchInv, NEW state, NEW insert,
         UpdateGlobalLocationList(state, insert), runtime_state' = runtime_state
  PROVE  /\ (t \in GpuSet)'
         /\ t'.aborted \/ \A l \in t'.inserted : Wanted(enable_state', l)
<1>1. /\ t' \in GpuSet
      /\ t'.aborted \/ \A m \in t'.inserted : Wanted(state, m)
  BY GpuKept, HostUpdate DEF WatchInv
<1>2. enable_state' = state
  BY DEF UpdateGlobalLocationList
<1>3. (t \in GpuSet)'
  BY <1>1 DEF GpuSet, Served
<1> QED  BY <1>1, <1>2, <1>3

LEMMA WatchStep ==
  ASSUME Contiguous
  PROVE  WatchInv /\ [Next]_vars => WatchInv'
<1> SUFFICES ASSUME WatchInv, [Next]_vars PROVE WatchInv'
  OBVIOUS
<1>1. TypeInv'
  BY TypeStep DEF WatchInv
<1>2. ASSUME NEW b \in Watchpoint,
             \/ SetWatchpoint(b) \/ EnableWatchpoint(b)
             \/ DisableWatchpoint(b) \/ DeleteWatchpoint(b)
      PROVE  WatchInv'
  <2>1. \E state, insert : UpdateGlobalLocationList(state, insert)
    BY <1>2 DEF SetWatchpoint, EnableWatchpoint, DisableWatchpoint, DeleteWatchpoint
  <2>2. runtime_state' = runtime_state
    BY <1>2 DEF SetWatchpoint, EnableWatchpoint, DisableWatchpoint, DeleteWatchpoint
  <2> QED  BY <1>1, <2>1, <2>2, WatchUpdate DEF WatchInv
<1>3. CASE Proceed
  <2>1. UpdateGlobalLocationList(enable_state, TRUE) /\ runtime_state' = runtime_state
    BY <1>3 DEF Proceed
  <2> QED  BY <1>1, <2>1, WatchUpdate DEF WatchInv
<1>4. CASE NormalStop
  <2> DEFINE new == RemoveAll(t, t.inserted)
  <2>1. new \in GpuSet /\ (new.aborted \/ (~t.aborted /\ new.inserted \subseteq t.inserted))
    BY GpuKept, HostRemoveAll DEF WatchInv
  <2>2. /\ Become(new) /\ runtime_state' = runtime_state
        /\ enable_state' = enable_state
    BY <1>4 DEF NormalStop
  <2> HIDE DEF new
  <2>3. t' \in GpuSet
    BY <2>1, <2>2, GpuKept DEF Become, Kept
  <2>4. (t \in GpuSet)'
    BY <2>2, <2>3 DEF GpuSet, Served
  <2>5. t'.aborted = new.aborted /\ t'.inserted = new.inserted
    BY <2>1, <2>2, BecomeFacts DEF GpuSet, HostSet
  <2>6. t'.aborted \/ \A l \in t'.inserted : Wanted(enable_state', l)
    BY <2>1, <2>2, <2>5 DEF WatchInv
  <2> QED  BY <1>1, <2>4, <2>6 DEF WatchInv
<1>5. CASE RuntimeLoaded
  <2>1. (t \in GpuSet)' /\ t'.inserted = t.inserted
    BY <1>5, LoadWatches
  <2>2. enable_state' = enable_state /\ ~t.aborted
    BY <1>5 DEF RuntimeLoaded
  <2> QED  BY <1>1, <2>1, <2>2 DEF WatchInv
<1>6. CASE RuntimeUnloaded \/ MournInferior
  <2>1. t' \in Base
    BY <1>1 DEF TypeInv
  <2>2. /\ t'.warned = {} /\ ~runtime_state'
        /\ enable_state' = enable_state /\ ~t.aborted
        /\ \/ /\ t'.host = t.host /\ t'.inserted = t.inserted
              /\ t'.duplicate = t.duplicate
           \/ t'.host = {} /\ t'.inserted = {}
    BY <1>6 DEF RuntimeUnloaded, MournInferior, WatchInv, TypeInv, Base, Fields
  <2>3. t' \in HostSet
    BY <2>1, <2>2 DEF HostSet, WatchInv, GpuSet
  <2>4. (t \in GpuSet)'
    BY <2>2, <2>3 DEF GpuSet
  <2> QED  BY <1>1, <2>2, <2>4 DEF WatchInv
<1>7. CASE InternalError \/ UNCHANGED vars
  <2>1. UNCHANGED vars
    BY <1>7 DEF InternalError
  <2>2. (t \in GpuSet)'
    BY <2>1 DEF vars, WatchInv, GpuSet, Served
  <2> QED  BY <1>1, <2>1, <2>2 DEF vars, WatchInv
<1> QED  BY <1>2, <1>3, <1>4, <1>5, <1>6, <1>7 DEF Next

\* While the runtime is loaded a location GDB believes inserted is watched on
\* the GPU too, unless the user was warned or another location's range lies
\* within its own: through loads, unloads, failures and exchanges of duplicates,
\* given that update_global_location_list can see every duplicate.
THEOREM GpuWatches ==
  ASSUME Contiguous
  PROVE  Spec => []WatchedOnGpu
<1>1. Init => WatchInv
  <2> SUFFICES ASSUME Init PROVE WatchInv
    OBVIOUS
  <2>1. TypeInv /\ t.host = {} /\ t.inserted = {} /\ t.warned = {} /\ ~runtime_state
    BY TypeInit DEF Init
  <2>2. t \in GpuSet
    BY <2>1 DEF TypeInv, HostSet, GpuSet
  <2> QED  BY <2>1, <2>2 DEF WatchInv
<1>2. WatchInv /\ [Next]_vars => WatchInv'
  BY WatchStep
<1>3. WatchInv => WatchedOnGpu
  BY DEF WatchInv, GpuSet, Served, WatchedOnGpu
<1> QED  BY <1>1, <1>2, <1>3, PTL DEF Spec

(***************************************************************************)
(* Taking over an insertion.                                               *)
(***************************************************************************)

\* What the wanted locations have in the debug registers and on the GPU in s
\* they have in r.
StillThere(state, s, r) ==
  \A l \in Locations : Wanted(state, l) =>
    /\ Region(l) \in s.host => Region(l) \in r.host
    /\ Undisturbed(l) =>
         \A e \in s.gpu : e.address = Address(l) /\ e.end = End(l) => e \in r.gpu

\* Only a location that nobody wants leaves the target in the first loop.
LEMMA RetireStillThere ==
  ASSUME NEW s \in HostSet, NEW state, NEW l \in Locations
  PROVE  StillThere(state, s, Retire(state, s, l))
<1> DEFINE h == HandOver(state, s, l)
<1>1. s \in Base /\ s.inserted \subseteq Locations
  BY DEF HostSet, Base, Fields
<1>2. h \in Base /\ StillThere(state, s, h)
  <2>1. \/ /\ h = s
           /\ l \notin s.inserted \/ ShouldBeInserted(state, s, l)
        \/ /\ l \in s.inserted /\ ~ShouldBeInserted(state, s, l)
           /\ Heirs(state, l) = {}
           /\ h = RemoveBreakpoint(s, l)
        \/ /\ l \in s.inserted
           /\ \E m \in Locations : /\ h = SwapInsertion(s, l, m)
                                   /\ m # l /\ Region(m) = Region(l)
                                   /\ Wanted(state, m)
    BY <1>1, HandOverFacts
  <2> HIDE DEF h
  <2>2. CASE h = s
    BY <1>1, <2>2 DEF StillThere
  <2>3. CASE /\ l \in s.inserted /\ ~ShouldBeInserted(state, s, l)
             /\ Heirs(state, l) = {}
             /\ h = RemoveBreakpoint(s, l)
    <3>1. ASSUME NEW m \in Locations, Wanted(state, m) PROVE Region(m) # Region(l)
      <4>1. m # l
        BY <2>3, <3>1 DEF HostSet, ShouldBeInserted
      <4> QED  BY <2>3, <3>1, <4>1 DEF Heirs
    <3>2. h \in Base /\ (s.aborted => h = s) /\ (~s.aborted => Removed(s, h, l))
      BY <1>1, <2>3, RemoveBreakpointFacts
    <3>3. CASE ~s.aborted
      <4>1. ASSUME NEW m \in Locations, Wanted(state, m), Region(m) \in s.host
            PROVE  Region(m) \in h.host
        BY <3>1, <3>2, <3>3, <4>1 DEF Removed
      <4>2. ASSUME NEW m \in Locations, Wanted(state, m), Undisturbed(m), NEW e \in s.gpu,
                   e.address = Address(m), e.end = End(m), e \notin h.gpu
            PROVE  FALSE
        <5>1. e \in Found(s, l)
          BY <3>2, <3>3, <4>2 DEF Removed
        <5>2. Address(m) <= Address(l) /\ End(l) <= End(m)
          BY <4>2, <5>1 DEF Found, Below
        <5>3. Region(l) = Region(m)
          BY <4>2, <5>2 DEF Undisturbed
        <5> QED  BY <3>1, <4>2, <5>3
      <4> QED  BY <3>2, <4>1, <4>2 DEF StillThere
    <3> QED  BY <1>1, <3>2, <3>3 DEF StillThere
  <2>4. ASSUME NEW m \in Locations, h = SwapInsertion(s, l, m), m # l
        PROVE  h \in Base /\ StillThere(state, s, h)
    <3>1. h \in Base /\ h.host = s.host /\ h.gpu = s.gpu
      BY <1>1, <2>4, SwapFacts
    <3> QED  BY <3>1 DEF StillThere
  <2> QED  BY <2>1, <2>2, <2>3, <2>4
<1> HIDE DEF h
<1>3. Freed(h, l).host = h.host /\ Freed(h, l).gpu = h.gpu
  BY <1>2 DEF Freed, Base, Fields
<1>4. StillThere(state, s, Freed(h, l))
  BY <1>2, <1>3 DEF StillThere
<1> QED  BY <1>2, <1>4, RetireFacts DEF h

\* Neither loop takes anything from a wanted location.
LEMMA RescanStillThere ==
  ASSUME TypeInv, t \in HostSet, NEW state
  PROVE  Rescan(state) \in Base /\ StillThere(state, t, Rescan(state))
<1> DEFINE retired == RetireAll(state, t)
           Y == {x \in HostSet : StillThere(state, t, x)}
           X == [l \in 0..Last |-> Y]
<1>1. /\ X[0] = Y /\ X[Last] = Y
      /\ \A l \in Locations : X[l - 1] = Y /\ X[l] = Y
  BY LocationFacts
<1> HIDE DEF X
<1>2. ASSUME NEW l \in Locations, NEW x \in Y PROVE Retire(state, x, l) \in Y
  <2> DEFINE r == Retire(state, x, l)
  <2>1. r \in HostSet
    BY HostKept, RetireKept
  <2>2. StillThere(state, x, r)
    BY RetireStillThere
  <2> HIDE DEF r
  <2>3. StillThere(state, t, r)
    BY <1>2, <2>2 DEF StillThere
  <2> QED  BY <2>1, <2>3 DEF r
<1>3. retired \in HostSet /\ StillThere(state, t, retired)
  <2>1. t \in X[0]
    BY <1>1 DEF StillThere
  <2> HIDE DEF Y
  <2>2. retired \in X[Last]
    BY <1>1, <1>2, <2>1, RetireLoop
  <2> QED  BY <1>1, <2>2 DEF Y
<1> HIDE DEF retired, Y
<1> DEFINE Z == {x \in Base : x.host = retired.host /\ x.gpu = retired.gpu}
           W == [l \in 0..Last |-> Z]
<1>4. /\ W[0] = Z /\ W[Last] = Z
      /\ \A l \in Locations : W[l - 1] = Z /\ W[l] = Z
  BY LocationFacts
<1> HIDE DEF W
<1>5. ASSUME NEW l \in Locations, NEW x \in Z PROVE Rescanned(state, x, l) \in Z
  <2>1. ASSUME NEW y \in Z
        PROVE  /\ [y EXCEPT !.duplicate = y.duplicate \ {l}] \in Z
               /\ [y EXCEPT !.duplicate = y.duplicate \cup {l}] \in Z
    <3>1. y.duplicate \ {l} \in SUBSET Locations /\ y.duplicate \cup {l} \in SUBSET Locations
      BY DEF Base, Fields
    <3> QED  BY <3>1, MarkFacts
  <2>2. \A m \in Locations : m # l => SwapInsertion(x, l, m) \in Z
    BY SwapFacts
  <2>3. \/ Rescanned(state, x, l) = x
        \/ Rescanned(state, x, l) = [x EXCEPT !.duplicate = x.duplicate \ {l}]
        \/ Rescanned(state, x, l) = [x EXCEPT !.duplicate = x.duplicate \cup {l}]
        \/ \E m \in Locations :
             /\ m # l
             /\ Rescanned(state, x, l)
                  = [SwapInsertion(x, l, m) EXCEPT
                       !.duplicate = SwapInsertion(x, l, m).duplicate \cup {l}]
    <3>1. x \in Base
      OBVIOUS
    <3> HIDE DEF Z
    <3> QED  BY <3>1, RescannedShape
  <2> HIDE DEF Z
  <2> QED  BY <2>1, <2>2, <2>3
<1>6. RescanAll(state, retired) \in Z
  <2>1. retired \in W[0]
    BY <1>3, <1>4 DEF HostSet
  <2> HIDE DEF Z
  <2> QED  BY <1>4, <1>5, <2>1, RescanLoop
<1>7. Rescan(state) = RescanAll(state, retired)
  BY DEF Rescan, retired
<1> QED  BY <1>3, <1>6, <1>7 DEF StillThere

\* Disabling or deleting a watchpoint takes no region from another that wants
\* it, neither from the debug registers nor from the GPU, given that
\* update_global_location_list can see every duplicate: the first loop hands the
\* insertion over together with the mark that the heir is no duplicate, so that
\* the heir keeps it in its own turn.
THEOREM InsertionsAreHandedOver ==
  ASSUME Contiguous
  PROVE  Spec => HandedOver
<1>1. Init => t \in HostSet
  <2> SUFFICES ASSUME Init PROVE t \in HostSet
    OBVIOUS
  <2>1. t \in Base /\ t.host = {} /\ t.inserted = {}
    BY TypeInit DEF TypeInv, Init
  <2> QED  BY <2>1 DEF HostSet
<1>2. TypeInv /\ t \in HostSet /\ [Next]_vars => (t \in HostSet)'
  BY HostStep
<1> DEFINE Step ==
      (\E b \in Watchpoint : DisableWatchpoint(b) \/ DeleteWatchpoint(b)) /\ ~t'.aborted =>
        \A l \in Locations : Wanted(enable_state', l) =>
          /\ Region(l) \in t.host => Region(l) \in t'.host
          /\ Undisturbed(l) =>
               \A e \in t.gpu : e.address = Address(l) /\ e.end = End(l) => e \in t'.gpu
<1>3. TypeInv /\ t \in HostSet /\ [Next]_vars => Step
  <2> SUFFICES ASSUME TypeInv, t \in HostSet, NEW b \in Watchpoint,
                      DisableWatchpoint(b) \/ DeleteWatchpoint(b)
               PROVE  StillThere(enable_state', t, t')
    BY DEF StillThere
  <2>1. PICK state : UpdateGlobalLocationList(state, FALSE)
    BY DEF DisableWatchpoint, DeleteWatchpoint
  <2>2. enable_state' = state /\ Become(Rescan(state))
    BY <2>1 DEF UpdateGlobalLocationList
  <2>3. Rescan(state) \in Base /\ StillThere(state, t, Rescan(state))
    BY RescanStillThere
  <2>4. t'.host = Rescan(state).host /\ t'.gpu = Rescan(state).gpu
    BY <2>2, <2>3, BecomeFacts
  <2> QED  BY <2>2, <2>3, <2>4 DEF StillThere
<1>4. Spec => [](TypeInv /\ t \in HostSet)
  BY <1>1, <1>2, TypeAlways, PTL DEF Spec
<1>5. Spec => [][Step]_vars
  BY <1>3, <1>4, PTL DEF Spec
<1> QED  BY <1>5 DEF HandedOver

=============================================================================
