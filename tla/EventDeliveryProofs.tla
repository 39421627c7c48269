------------------------ MODULE EventDeliveryProofs ------------------------
(***************************************************************************)
(* Proofs about EventDelivery, for any number of inferiors and of events:  *)
(* the descriptors the event loop watches, the async event handler, and    *)
(* the wakeup every event of the library has.                              *)
(***************************************************************************)
EXTENDS EventDelivery, ListTheorems, FiniteSetTheorems, SequenceTheorems, TLAPS

-----------------------------------------------------------------------------
(* The sequences of descriptors.                                           *)

\* InOrder lists every member of a set once.
LEMMA InOrderFacts ==
  ASSUME NEW S \in SUBSET Nat, IsFiniteSet(S)
  PROVE  /\ InOrder(S) \in Seq(S)
         /\ IsInjective(InOrder(S))
         /\ ToSet(InOrder(S)) = S
<1> DEFINE n == Cardinality(S)
           Below(i) == {j \in S : j <= i}
           rank == [i \in S |-> Cardinality(Below(i))]
           q == InOrder(S)
<1>1. n \in Nat
  BY FS_CardinalityType
<1>2. ASSUME NEW i \in S
      PROVE  IsFiniteSet(Below(i)) /\ Cardinality(Below(i)) \in 1..n
  <2>1. Below(i) \in SUBSET S /\ i \in Below(i)
    OBVIOUS
  <2>2. IsFiniteSet(Below(i)) /\ Cardinality(Below(i)) <= n
    BY <2>1, FS_Subset
  <2>3. Cardinality(Below(i)) \in Nat /\ Cardinality(Below(i)) # 0
    BY <2>1, <2>2, FS_CardinalityType, FS_EmptySet
  <2> QED BY <1>1, <2>2, <2>3
<1>3. ASSUME NEW i \in S, NEW k \in S, i < k PROVE rank[i] # rank[k]
  <2>1. \A j \in S : j \in Nat
    OBVIOUS
  <2>2. \A j \in S : j <= i => j <= k
    BY <1>3, <2>1
  <2>3. k <= k /\ ~(k <= i)
    BY <1>3, <2>1
  <2>4. Below(i) \in SUBSET Below(k) /\ k \in Below(k) /\ k \notin Below(i)
    BY <2>2, <2>3
  <2>5. Cardinality(Below(k)) = Cardinality(Below(i)) => Below(k) = Below(i)
    BY <1>2, <2>4, FS_Subset
  <2> QED BY <2>4, <2>5
<1>4. rank \in Injection(S, 1..n)
  <2>1. rank \in [S -> 1..n]
    BY <1>2
  <2>2. ASSUME NEW i \in S, NEW k \in S, rank[i] = rank[k] PROVE i = k
    <3>1. i \in Nat /\ k \in Nat
      OBVIOUS
    <3>2. ~(i < k) /\ ~(k < i)
      BY <1>3, <2>2
    <3> QED BY <3>1, <3>2
  <2> QED BY <2>1, <2>2 DEF Injection, IsInjective
<1>5. IsFiniteSet(1..n) /\ Cardinality(1..n) = n
  BY <1>1, FS_Interval
<1>6. rank \in Surjection(S, 1..n)
  BY <1>4, <1>5, FS_Injection
<1>7. \A k \in 1..n : \E i \in S : Cardinality(Below(i)) = k
  BY <1>6 DEF Surjection
<1>8. q = [k \in 1..n |-> CHOOSE i \in S : Cardinality(Below(i)) = k]
  BY DEF InOrder
<1> HIDE DEF n, Below
<1>9. ASSUME NEW k \in 1..n PROVE q[k] \in S /\ Cardinality(Below(q[k])) = k
  BY <1>7, <1>8
<1> HIDE DEF q
<1>10. q \in [1..n -> S]
  BY <1>8, <1>9
<1>11. q \in Seq(S) /\ DOMAIN q = 1..n /\ Len(q) = n
  BY <1>1, <1>10
<1>12. IsInjective(q)
  BY <1>9, <1>11 DEF IsInjective
<1>13. ASSUME NEW i \in S PROVE \E k \in 1..n : q[k] = i
  <2>1. PICK k \in 1..n : k = Cardinality(Below(i))
    BY <1>2 DEF n, Below
  <2>2. rank[q[k]] = rank[i] /\ q[k] \in S
    BY <1>9, <2>1
  <2> QED BY <1>4, <2>2 DEF Injection, IsInjective
<1>14. ToSet(q) = S
  BY <1>9, <1>11, <1>13 DEF ToSet
<1> QED BY <1>11, <1>12, <1>14 DEF q

\* The descriptors are finitely many numbers.
LEMMA DescriptorFacts ==
  /\ N \in Nat
  /\ \A S : S \subseteq 0..N => S \in SUBSET Nat /\ IsFiniteSet(S)
  /\ IsFiniteSet(0..N) /\ Cardinality(0..N) = N + 1
  /\ Inferiors \subseteq 0..N /\ 0 \in 0..N /\ 0 \notin Inferiors
<1>1. N \in Nat
  BY DeliveryAssumption
<1>2. IsFiniteSet(0..N) /\ Cardinality(0..N) = N + 1
  <2>1. 0 \in Int /\ N \in Int /\ ~(0 > N) /\ N - 0 + 1 = N + 1
    BY <1>1
  <2> QED BY <2>1, FS_Interval
<1>3. ASSUME NEW S, S \subseteq 0..N PROVE S \in SUBSET Nat /\ IsFiniteSet(S)
  <2>1. \A x \in 0..N : x \in Nat
    BY <1>1
  <2> QED BY <1>2, <1>3, <2>1, FS_Subset
<1>4. Inferiors \subseteq 0..N /\ 0 \in 0..N /\ 0 \notin Inferiors
  BY <1>1 DEF Inferiors
<1> QED BY <1>1, <1>2, <1>3, <1>4

\* add_file_handler adds the descriptors that were not watched.
LEMMA AddFacts ==
  ASSUME NEW fds \in Seq(0..N), IsInjective(fds), NEW new \in SUBSET (0..N)
  PROVE  /\ AddFileHandlers(fds, new) \in Seq(0..N)
         /\ IsInjective(AddFileHandlers(fds, new))
         /\ ToSet(AddFileHandlers(fds, new)) = ToSet(fds) \cup new
<1> DEFINE S == new \ ToSet(fds)
<1>1. S \subseteq 0..N
  OBVIOUS
<1>2. S \in SUBSET Nat /\ IsFiniteSet(S)
  BY <1>1, DescriptorFacts
<1>3. /\ InOrder(S) \in Seq(S) /\ IsInjective(InOrder(S))
      /\ ToSet(InOrder(S)) = S
  BY <1>2, InOrderFacts
<1>4. InOrder(S) \in Seq(0..N)
  BY <1>1, <1>3, SeqMonotonic
<1>5. S \cap ToSet(fds) = {} /\ ToSet(fds) \cup S = ToSet(fds) \cup new
  OBVIOUS
<1>6. AddFileHandlers(fds, new) = fds \o InOrder(S)
  BY DEF AddFileHandlers
<1> HIDE DEF S
<1> QED BY <1>3, <1>4, <1>5, <1>6, ConcatFacts

\* delete_file_handler removes the descriptor and no other.
LEMMA DeleteFacts ==
  ASSUME NEW fds \in Seq(0..N), IsInjective(fds), NEW fd
  PROVE  /\ DeleteFileHandler(fds, fd) \in Seq(0..N)
         /\ IsInjective(DeleteFileHandler(fds, fd))
         /\ ToSet(DeleteFileHandler(fds, fd)) = ToSet(fds) \ {fd}
<1>1. CASE fd \notin ToSet(fds)
  BY <1>1 DEF DeleteFileHandler
<1>2. CASE fd \in ToSet(fds)
  <2> DEFINE k == CHOOSE j \in 1..Len(fds) : fds[j] = fd
  <2>1. k \in 1..Len(fds) /\ fds[k] = fd
    BY <1>2, RangeFacts
  <2>2. DeleteFileHandler(fds, fd) = RemoveAt(fds, k)
    BY <1>2 DEF DeleteFileHandler
  <2> HIDE DEF k
  <2> QED BY <2>1, <2>2, RemoveAtFacts
<1> QED BY <1>1, <1>2

\* No more descriptors can be watched than there are.
LEMMA WatchedBound ==
  ASSUME NEW fds \in Seq(0..N), IsInjective(fds)
  PROVE  Len(fds) <= N + 1
<1>1. fds \in [1..Len(fds) -> 0..N] /\ Len(fds) \in Nat
  BY LenProperties
<1>2. fds \in Injection(1..Len(fds), 0..N)
  BY <1>1 DEF Injection, IsInjective
<1>3. Cardinality(1..Len(fds)) = Len(fds)
  <2>1. Cardinality(1..Len(fds)) = IF 1 > Len(fds) THEN 0 ELSE Len(fds) - 1 + 1
    BY <1>1, FS_Interval
  <2> QED BY <1>1, <2>1
<1> QED BY <1>2, <1>3, FS_Injection, DescriptorFacts

\* A fetch polls the attached inferiors, each once.
LEMMA PollsFacts ==
  ASSUME NEW S \in SUBSET Inferiors, NEW s \in Inferiors
  PROVE  LET q == InOrder({i \in S : i >= s}) \o InOrder({i \in S : i < s})
         IN q \in Seq(S) /\ ToSet(q) = S
<1> DEFINE A == {i \in S : i >= s}
           B == {i \in S : i < s}
<1>1. A \in SUBSET Nat /\ B \in SUBSET Nat /\ IsFiniteSet(A) /\ IsFiniteSet(B)
  BY DescriptorFacts
<1>2. A \cup B = S
  <2>1. \A i \in S : i \in Nat /\ s \in Nat
    BY DescriptorFacts
  <2>2. \A i \in S : i >= s \/ i < s
    BY <2>1
  <2> QED BY <2>2
<1> HIDE DEF A, B
<1>3. InOrder(A) \in Seq(S) /\ InOrder(B) \in Seq(S) /\ ToSet(InOrder(A)) = A /\ ToSet(InOrder(B)) = B
  BY <1>1, <1>2, InOrderFacts, SeqMonotonic
<1>4. InOrder(A) \o InOrder(B) \in Seq(S) /\ ToSet(InOrder(A) \o InOrder(B)) = S
  <2> DEFINE s1 == InOrder(A)
             s2 == InOrder(B)
  <2>1. s1 \in Seq(S) /\ s2 \in Seq(S) /\ ToSet(s1) \cup ToSet(s2) = S
    BY <1>2, <1>3
  <2> HIDE DEF s1, s2
  <2>2. s1 \o s2 \in Seq(S) /\ ToSet(s1 \o s2) = ToSet(s1) \cup ToSet(s2)
    BY <2>1, ConcatFacts
  <2> QED BY <2>1, <2>2 DEF s1, s2
<1> QED BY <1>4 DEF A, B

-----------------------------------------------------------------------------
(* The inductive invariant.                                                *)

\* "fds" watches notifiers of "all", and perhaps the Linux target's file.
Watches(fds, all) ==
  fds \in Seq(0..N) /\ IsInjective(fds) /\ ToSet(fds) \subseteq all \cup {LinuxFile}

\* TypeOK, in a form that the steps preserve.
TypeInv ==
  /\ library \in [Inferiors -> Seq(RuntimeStates \cup {"WAVE"})]
  /\ attached \subseteq Inferiors /\ notified \subseteq attached
  /\ Watches(poll_fds, attached)
  /\ next_poll_fds_index \in 0 .. N + 1 /\ event_source_head \in 0..2
  /\ runtime_state \in [Inferiors -> RuntimeStates]
  /\ wave_events \in [Inferiors -> Nat]
  /\ handler \in {"null", "clear", "marked"}
  /\ host \in BOOLEAN /\ resumed \in BOOLEAN /\ async \in BOOLEAN /\ file \in BOOLEAN
  /\ left \in 0..MaxEvents
  /\ polls \in Seq(attached)

\* What the library can hold for an inferior.  With the target pushed: wave
\* events and the unloading of the runtime.  Without it: one runtime event,
\* announced by the notifier.  An inferior that is not attached has no events.
LibraryInv == \A i \in Inferiors :
  /\ Pushed(runtime_state, i) =>
       \A k \in 1..Len(library[i]) : library[i][k] \in {"WAVE", "UNLOADED"}
  /\ ~Pushed(runtime_state, i) =>
       \/ library[i] = <<>>
       \/ /\ i \in notified /\ \E e \in RuntimeStates : library[i] = <<e>>
          /\ runtime_state[i] # "UNLOADED" => library[i] = <<"UNLOADED">>
  /\ i \notin attached =>
       library[i] = <<>> /\ wave_events[i] = 0 /\ ~Pushed(runtime_state, i)

\* The async event handler exists exactly while the Linux target is async and
\* some inferior has the amd-dbgapi target.  While the Linux target is not
\* async, there is no fetch, and no notifier that would mark the handler can
\* be served.
HandlerInv ==
  /\ handler # "null" <=> async /\ AnyPushed(runtime_state)
  /\ polls # <<>> => async
  /\ file => async
  /\ async => LinuxFile \in ToSet(poll_fds)
  /\ ~async => \A i \in notified \cap ToSet(poll_fds) : ~Pushed(runtime_state, i)

\* The notifiers are watched; or the Linux target is not async and they will
\* be by the next target_async (true), since a target is pushed.
WatchInv == attached \subseteq ToSet(poll_fds) \/ (~async /\ AnyPushed(runtime_state))

\* What the end of a fetch does to it.
KeepsWatch ==
  attached \subseteq ToSet(poll_fds) =>
    attached \subseteq ToSet(poll_fds') \/ (~async' /\ AnyPushed(runtime_state'))

\* An event that infrun has not seen is announced.  One in the library: by the
\* notifier, or during a fetch by the poll still to come, or between fetches by
\* the handler's mark or the Linux target's file.  A queued one, which may be of an
\* inferior whose runtime is gone: during a fetch by the polls of the inferiors
\* with the target, which are all still to come, or between fetches likewise.
WakeInv ==
  /\ polls # <<>> =>
       /\ \A i \in attached : library[i] # <<>> => i \in notified \/ i \in ToSet(polls)
       /\ Queues # {} => \A i \in Inferiors : Pushed(runtime_state, i) => i \in ToSet(polls)
  /\ polls = <<>> /\ async /\ resumed =>
       /\ \A i \in attached :
            library[i] # <<>> => i \in notified \/ handler = "marked" \/ file
       /\ Queues # {} /\ AnyPushed(runtime_state) => handler = "marked" \/ file

-----------------------------------------------------------------------------
(* What the parts of the actions do.                                       *)

\* Adding notifiers of attached inferiors, or the Linux target's file.
LEMMA AddWatch ==
  ASSUME NEW all \in SUBSET Inferiors, NEW fds, Watches(fds, all),
         NEW more \in SUBSET Inferiors, all \subseteq more,
         NEW new \in SUBSET (more \cup {LinuxFile})
  PROVE  /\ Watches(AddFileHandlers(fds, new), more)
         /\ ToSet(AddFileHandlers(fds, new)) = ToSet(fds) \cup new
<1>1. new \in SUBSET (0..N) /\ fds \in Seq(0..N) /\ IsInjective(fds)
  BY DescriptorFacts DEF Watches, LinuxFile
<1>2. /\ AddFileHandlers(fds, new) \in Seq(0..N) /\ IsInjective(AddFileHandlers(fds, new))
      /\ ToSet(AddFileHandlers(fds, new)) = ToSet(fds) \cup new
  BY <1>1, AddFacts
<1> QED BY <1>2 DEF Watches

\* Deleting a descriptor.
LEMMA DropWatch ==
  ASSUME NEW all \in SUBSET Inferiors, NEW fds, Watches(fds, all), NEW fd
  PROVE  /\ Watches(DeleteFileHandler(fds, fd), all)
         /\ Watches(DeleteFileHandler(fds, fd), all \ {fd})
         /\ ToSet(DeleteFileHandler(fds, fd)) = ToSet(fds) \ {fd}
<1>1. fds \in Seq(0..N) /\ IsInjective(fds)
  BY DEF Watches
<1>2. /\ DeleteFileHandler(fds, fd) \in Seq(0..N) /\ IsInjective(DeleteFileHandler(fds, fd))
      /\ ToSet(DeleteFileHandler(fds, fd)) = ToSet(fds) \ {fd}
  BY <1>1, DeleteFacts
<1> QED BY <1>2 DEF Watches

\* Watching nothing.
LEMMA NoWatch == ToSet(<<>>) = {} /\ \A all : Watches(<<>>, all)
<1>1. <<>> \in Seq(0..N) /\ DOMAIN <<>> = {}
  OBVIOUS
<1>2. ToSet(<<>>) = {}
  BY DEF ToSet
<1> QED BY <1>1, <1>2 DEF Watches, IsInjective

\* The descriptor that is served is readable and watched.
LEMMA ServeFacts ==
  ASSUME TypeInv, NEW fd, NEW readable, NEW marked, ServeFile(fd, readable, marked)
  PROVE  /\ fd \in readable /\ fd \in ToSet(poll_fds)
         /\ next_poll_fds_index' \in 0 .. N + 1 /\ event_source_head' \in 0..2
<1>1. PICK i \in 0 .. Len(poll_fds) - 1 :
        FoundFirst(i, readable) /\ fd = poll_fds[i + 1] /\ next_poll_fds_index' = i + 1
  BY DEF ServeFile
<1>2. poll_fds \in Seq(0..N) /\ IsInjective(poll_fds)
  BY DEF TypeInv, Watches
<1>3. Len(poll_fds) \in Nat /\ Len(poll_fds) <= N + 1 /\ N \in Nat
  BY <1>2, RangeFacts, WatchedBound, DescriptorFacts
<1>4. i + 1 \in 1..Len(poll_fds) /\ i + 1 \in 0 .. N + 1
  BY <1>3
<1>5. fd \in ToSet(poll_fds)
  BY <1>1, <1>2, <1>4, RangeFacts
<1>6. fd \in readable
  BY <1>1 DEF FoundFirst
<1>7. event_source_head' = (1 + 1) % 3 \/ event_source_head' = event_source_head
  BY DEF ServeFile, PassTurn
<1>8. event_source_head' \in 0..2
  BY <1>7 DEF TypeInv
<1> QED BY <1>1, <1>4, <1>5, <1>6, <1>8

\* target_async (true): the handler is created and marked, and all notifiers
\* watched, if a target is pushed and there was none.
LEMMA AsyncOnFacts ==
  ASSUME NEW state, NEW all \in SUBSET Inferiors, NEW fds, Watches(fds, all),
         AsyncOn(state, all, fds)
  PROVE  /\ Watches(poll_fds', all)
         /\ ToSet(fds) \subseteq ToSet(poll_fds')
         /\ IF AnyPushed(state) /\ handler = "null"
            THEN handler' = "marked" /\ all \subseteq ToSet(poll_fds')
            ELSE handler' = handler /\ poll_fds' = fds
<1>1. CASE AnyPushed(state) /\ handler = "null"
  <2>1. poll_fds' = AddFileHandlers(fds, all) /\ handler' = "marked"
    BY <1>1 DEF AsyncOn
  <2> QED BY <1>1, <2>1, AddWatch
<1>2. CASE ~(AnyPushed(state) /\ handler = "null")
  BY <1>2 DEF AsyncOn
<1> QED BY <1>1, <1>2

\* The end of a fetch, and perhaps target_async (false).
LEMMA ReportFacts ==
  ASSUME TypeInv, NEW state, NEW h, NEW marked \in BOOLEAN, Report(state, h, marked)
  PROVE  /\ polls' = <<>> /\ Watches(poll_fds', attached)
         /\ \/ handler' = h /\ file' = marked /\ UNCHANGED <<poll_fds, async>>
            \/ /\ async' = FALSE /\ file' = FALSE
               /\ IF AnyPushed(state) /\ h # "null"
                  THEN ToSet(poll_fds') = {} /\ handler' = "null"
                  ELSE ToSet(poll_fds') = ToSet(poll_fds) \ {LinuxFile} /\ handler' = h
<1>0. attached \in SUBSET Inferiors /\ Watches(poll_fds, attached)
  BY DEF TypeInv
<1>1. CASE handler' = h /\ file' = marked /\ UNCHANGED <<poll_fds, async>>
  BY <1>0, <1>1 DEF Report
<1>2. CASE AsyncOff(state, h, poll_fds)
  <2>1. CASE AnyPushed(state) /\ h # "null"
    BY <1>2, <2>1, NoWatch DEF Report, AsyncOff
  <2>2. CASE ~(AnyPushed(state) /\ h # "null")
    <3>1. /\ poll_fds' = DeleteFileHandler(poll_fds, LinuxFile) /\ handler' = h
          /\ async' = FALSE /\ file' = FALSE /\ polls' = <<>>
      BY <1>2, <2>2 DEF Report, AsyncOff
    <3>2. /\ Watches(poll_fds', attached)
          /\ ToSet(poll_fds') = ToSet(poll_fds) \ {LinuxFile}
      BY <1>0, <3>1, DropWatch
    <3> QED BY <2>2, <3>1, <3>2
  <2> QED BY <2>1, <2>2
<1> QED BY <1>1, <1>2 DEF Report

\* attach_amd_dbgapi of a new process: its notifier is watched, and the handler
\* created if this is the first pushed target of an async Linux target.
LEMMA AttachFacts ==
  ASSUME TypeInv, NEW i \in Inferiors, i \notin attached, AttachAmdDbgapi(i)
  PROVE  /\ attached' = attached \cup {i} /\ left' \in 0..MaxEvents
         /\ UNCHANGED <<library, notified, wave_events>>
         /\ runtime_state' \in [Inferiors -> RuntimeStates]
         /\ \A j \in Inferiors \ {i} : runtime_state'[j] = runtime_state[j]
         /\ Watches(poll_fds', attached')
         /\ ToSet(poll_fds) \cup {i} \subseteq ToSet(poll_fds')
         /\ IF async /\ Pushed(runtime_state', i) /\ handler = "null"
            THEN handler' = "marked" /\ attached' \subseteq ToSet(poll_fds')
            ELSE handler' = handler /\ ToSet(poll_fds') = ToSet(poll_fds) \cup {i}
<1>1. /\ attached' = attached \cup {i} /\ left' = left - 1 /\ left > 0
      /\ UNCHANGED <<library, notified, wave_events>>
      /\ \E state \in RuntimeStates : runtime_state' = [runtime_state EXCEPT ![i] = state]
  BY DEF AttachAmdDbgapi
<1>2. /\ runtime_state' \in [Inferiors -> RuntimeStates]
      /\ \A j \in Inferiors \ {i} : runtime_state'[j] = runtime_state[j]
  BY <1>1 DEF TypeInv
<1>3. left' \in 0..MaxEvents
  BY <1>1, DeliveryAssumption DEF TypeInv
<1>4. /\ attached \in SUBSET Inferiors /\ attached' \in SUBSET Inferiors /\ attached \subseteq attached'
      /\ Watches(poll_fds, attached) /\ Watches(poll_fds, attached')
  BY <1>1 DEF TypeInv, Watches
<1>5. CASE async /\ Pushed(runtime_state', i) /\ handler = "null"
  <2>1. AsyncOn(runtime_state', attached', poll_fds) /\ AnyPushed(runtime_state')
    BY <1>5 DEF AttachAmdDbgapi, AnyPushed
  <2> QED BY <1>1, <1>2, <1>3, <1>4, <1>5, <2>1, AsyncOnFacts
<1>6. CASE ~(async /\ Pushed(runtime_state', i) /\ handler = "null")
  <2>1. poll_fds' = AddFileHandlers(poll_fds, {i}) /\ handler' = handler
    BY <1>6 DEF AttachAmdDbgapi, Watch
  <2>2. {i} \in SUBSET (attached' \cup {LinuxFile})
    BY <1>1
  <2>3. Watches(poll_fds', attached') /\ ToSet(poll_fds') = ToSet(poll_fds) \cup {i}
    BY <1>4, <2>1, <2>2, AddWatch
  <2> QED BY <1>1, <1>2, <1>3, <1>6, <2>1, <2>3
<1> QED BY <1>5, <1>6

\* detach_amd_dbgapi: nothing is left of the inferior's events, and the handler
\* goes with the last pushed target.
LEMMA DetachInfoFacts ==
  ASSUME TypeInv, HandlerInv, NEW i \in attached, DetachAmdDbgapi(i)
  PROVE  /\ library' \in [Inferiors -> Seq(RuntimeStates \cup {"WAVE"})]
         /\ library'[i] = <<>> /\ runtime_state'[i] = "UNLOADED" /\ wave_events'[i] = 0
         /\ runtime_state' \in [Inferiors -> RuntimeStates]
         /\ wave_events' \in [Inferiors -> Nat]
         /\ notified' = notified \ {i}
         /\ \A j \in Inferiors \ {i} : /\ library'[j] = library[j]
                                       /\ runtime_state'[j] = runtime_state[j]
                                       /\ wave_events'[j] = wave_events[j]
         /\ handler' \in {handler, "null"}
         /\ handler' # "null" <=> async /\ AnyPushed(runtime_state')
         /\ handler' # handler => ~AnyPushed(runtime_state')
<1>1. /\ library' = [library EXCEPT ![i] = <<>>] /\ notified' = notified \ {i}
      /\ runtime_state' = [runtime_state EXCEPT ![i] = "UNLOADED"]
      /\ wave_events' = [wave_events EXCEPT ![i] = 0]
      /\ handler' = IF Pushed(runtime_state, i) THEN Closed(runtime_state', handler) ELSE handler
  BY DEF DetachAmdDbgapi
<1>2. i \in Inferiors
  BY DEF TypeInv
<1>3. /\ library'[i] = <<>> /\ runtime_state'[i] = "UNLOADED" /\ wave_events'[i] = 0
      /\ \A j \in Inferiors \ {i} : /\ library'[j] = library[j]
                                    /\ runtime_state'[j] = runtime_state[j]
                                    /\ wave_events'[j] = wave_events[j]
  BY <1>1, <1>2 DEF TypeInv
<1>4. library' \in [Inferiors -> Seq(RuntimeStates \cup {"WAVE"})]
  <2>1. <<>> \in Seq(RuntimeStates \cup {"WAVE"})
    OBVIOUS
  <2> QED BY <1>1, <2>1 DEF TypeInv
<1>5. runtime_state' \in [Inferiors -> RuntimeStates] /\ wave_events' \in [Inferiors -> Nat]
  BY <1>1 DEF TypeInv, RuntimeStates
<1>6. AnyPushed(runtime_state') => AnyPushed(runtime_state)
  BY <1>3 DEF AnyPushed, Pushed
<1>7. ~Pushed(runtime_state, i) => (AnyPushed(runtime_state) => AnyPushed(runtime_state'))
  BY <1>2, <1>3 DEF AnyPushed, Pushed
<1>8. /\ handler' \in {handler, "null"}
      /\ handler' # "null" <=> async /\ AnyPushed(runtime_state')
      /\ handler' # handler => ~AnyPushed(runtime_state')
  BY <1>1, <1>6, <1>7 DEF Closed, HandlerInv
<1> QED BY <1>1, <1>3, <1>4, <1>5, <1>8

-----------------------------------------------------------------------------
(* Types, the library's queues and the handler.                            *)

BaseInv == TypeInv /\ LibraryInv /\ HandlerInv

\* An assertion has failed: nothing happens any more.
FailedInv ==
  InternalError /\ TypeOK /\ polls = <<>> /\ ~AnyPushed(runtime_state)

\* No action goes on after that.
LEMMA FailedStep == FailedInv /\ [Next]_vars => UNCHANGED vars
<1> SUFFICES ASSUME FailedInv, Next PROVE FALSE
  OBVIOUS
<1>1. handler = "assertion failed" /\ polls = <<>>
  BY DEF FailedInv, InternalError
<1> QED  BY <1>1 DEF Next, LibraryRaises, Attach, Leave, NotifierHandler, StartFetch, HostEvent,
             UserResumes, Poll, AtEventLoop, InternalError

\* The library raises an event of an attached inferior.
LEMMA RaiseBase ==
  ASSUME BaseInv, NEW i \in Inferiors, LibraryRaises(i) PROVE BaseInv'
<1> USE DEF BaseInv
<1>1. PICK e \in MayRaise(i) : library' = [library EXCEPT ![i] = Append(@, e)]
  BY DEF LibraryRaises
<1>2. /\ async /\ i \in attached /\ left > 0 /\ notified' = notified \cup {i} /\ left' = left - 1
      /\ UNCHANGED <<host, resumed, attached, runtime_state, wave_events, poll_fds,
                     next_poll_fds_index, event_source_head, handler, async, file, polls>>
  BY DEF LibraryRaises, info, eventloop, turns
<1>3. e \in RuntimeStates \cup {"WAVE"} /\ library[i] \in Seq(RuntimeStates \cup {"WAVE"})
  BY DEF MayRaise, TypeInv
<1>4. library' \in [Inferiors -> Seq(RuntimeStates \cup {"WAVE"})]
  <2>1. Append(library[i], e) \in Seq(RuntimeStates \cup {"WAVE"})
    BY <1>3
  <2> QED BY <1>1, <2>1 DEF TypeInv
<1>5. TypeInv'
  <2>1. left' \in 0..MaxEvents
    BY <1>2, DeliveryAssumption DEF TypeInv
  <2> QED BY <1>2, <1>4, <2>1 DEF TypeInv
<1>6. HandlerInv'
  BY <1>2 DEF HandlerInv
<1>7. /\ e = "WAVE" => Pushed(runtime_state, i)
      /\ e \notin {"WAVE", "UNLOADED"} => runtime_state[i] = "UNLOADED" /\ library[i] = <<>>
      /\ e = "UNLOADED" => runtime_state[i] # "UNLOADED" /\ "UNLOADED" \notin ToSet(library[i])
  BY DEF MayRaise
<1>8. library'[i] = Append(library[i], e) /\ \A j \in Inferiors \ {i} : library'[j] = library[j]
  BY <1>1 DEF TypeInv
<1>9. ASSUME Pushed(runtime_state, i)
      PROVE  \A k \in 1..Len(library'[i]) : library'[i][k] \in {"WAVE", "UNLOADED"}
  <2>1. e \in {"WAVE", "UNLOADED"}
    BY <1>3, <1>7, <1>9 DEF Pushed
  <2>2. \A k \in 1..Len(library[i]) : library[i][k] \in {"WAVE", "UNLOADED"}
    BY <1>9 DEF LibraryInv
  <2> QED BY <1>3, <1>8, <2>1, <2>2, AppendProperties
<1>10. ASSUME ~Pushed(runtime_state, i)
       PROVE  /\ \E s \in RuntimeStates : library'[i] = <<s>>
              /\ runtime_state[i] # "UNLOADED" => library'[i] = <<"UNLOADED">>
  <2>1. e \in RuntimeStates
    BY <1>3, <1>7, <1>10
  <2>2. library[i] = <<>>
    <3>1. CASE e = "UNLOADED"
      <4>1. library[i] # <<"UNLOADED">>
        BY <1>7, <3>1 DEF ToSet
      <4> QED BY <1>7, <1>10, <3>1, <4>1 DEF LibraryInv
    <3>2. CASE e # "UNLOADED"
      BY <1>7, <1>10, <3>2
    <3> QED BY <3>1, <3>2
  <2>3. library'[i] = <<e>>
    BY <1>8, <2>2
  <2>4. runtime_state[i] # "UNLOADED" => e = "UNLOADED"
    BY <1>7, <1>10
  <2> QED BY <2>1, <2>3, <2>4
<1>11. LibraryInv'
  <2> SUFFICES ASSUME NEW j \in Inferiors
               PROVE  /\ Pushed(runtime_state, j) =>
                           \A k \in 1..Len(library'[j]) : library'[j][k] \in {"WAVE", "UNLOADED"}
                      /\ ~Pushed(runtime_state, j) =>
                           \/ library'[j] = <<>>
                           \/ /\ j \in notified' /\ \E s \in RuntimeStates : library'[j] = <<s>>
                              /\ runtime_state[j] # "UNLOADED" => library'[j] = <<"UNLOADED">>
                      /\ j \notin attached => /\ library'[j] = <<>> /\ wave_events[j] = 0
                                              /\ ~Pushed(runtime_state, j)
    BY <1>2 DEF LibraryInv, Pushed
  <2>1. CASE j = i
    BY <1>2, <1>9, <1>10, <2>1 DEF LibraryInv
  <2>2. CASE j # i
    BY <1>2, <1>8, <2>2 DEF LibraryInv
  <2> QED BY <2>1, <2>2
<1> QED BY <1>5, <1>6, <1>11

\* An inferior that is unchanged keeps its part of LibraryInv, if no notifier
\* of another inferior is read.
LEMMA LibraryKept ==
  ASSUME BaseInv, NEW i \in Inferiors,
         \A j \in Inferiors \ {i} : /\ library'[j] = library[j]
                                    /\ runtime_state'[j] = runtime_state[j]
                                    /\ wave_events'[j] = wave_events[j]
                                    /\ j \in notified => j \in notified'
                                    /\ j \in attached => j \in attached',
         Pushed(runtime_state', i) =>
           \A k \in 1..Len(library'[i]) : library'[i][k] \in {"WAVE", "UNLOADED"},
         ~Pushed(runtime_state', i) => library'[i] = <<>>,
         i \notin attached' => /\ library'[i] = <<>> /\ wave_events'[i] = 0
                              /\ ~Pushed(runtime_state', i)
  PROVE  LibraryInv'
<1> SUFFICES ASSUME NEW j \in Inferiors
             PROVE  /\ Pushed(runtime_state', j) =>
                         \A k \in 1..Len(library'[j]) : library'[j][k] \in {"WAVE", "UNLOADED"}
                    /\ ~Pushed(runtime_state', j) =>
                         \/ library'[j] = <<>>
                         \/ /\ j \in notified' /\ \E e \in RuntimeStates : library'[j] = <<e>>
                            /\ runtime_state'[j] # "UNLOADED" => library'[j] = <<"UNLOADED">>
                    /\ j \notin attached' => /\ library'[j] = <<>> /\ wave_events'[j] = 0
                                             /\ ~Pushed(runtime_state', j)
  BY DEF LibraryInv, Pushed
<1>1. CASE j = i
  BY <1>1
<1>2. CASE j # i
  BY <1>2 DEF BaseInv, LibraryInv, Pushed
<1> QED BY <1>1, <1>2

\* attach_amd_dbgapi, for a new process or for a forked child.
LEMMA AttachBase ==
  ASSUME BaseInv, NEW i \in Inferiors, i \notin attached, AttachAmdDbgapi(i),
         UNCHANGED <<turns, async>>, host' \in BOOLEAN, resumed' \in BOOLEAN,
         file' \in BOOLEAN, file' => async, polls' = <<>>
  PROVE  BaseInv'
<1> USE DEF BaseInv
<1>1. /\ attached' = attached \cup {i} /\ left' \in 0..MaxEvents
      /\ UNCHANGED <<library, notified, wave_events>>
      /\ runtime_state' \in [Inferiors -> RuntimeStates]
      /\ \A j \in Inferiors \ {i} : runtime_state'[j] = runtime_state[j]
      /\ Watches(poll_fds', attached')
      /\ ToSet(poll_fds) \cup {i} \subseteq ToSet(poll_fds')
      /\ IF async /\ Pushed(runtime_state', i) /\ handler = "null"
         THEN handler' = "marked" /\ attached' \subseteq ToSet(poll_fds')
         ELSE handler' = handler /\ ToSet(poll_fds') = ToSet(poll_fds) \cup {i}
  BY AttachFacts
<1>2. polls' \in Seq(attached')
  OBVIOUS
<1>3. TypeInv'
  BY <1>1, <1>2 DEF TypeInv, turns
<1>4. library[i] = <<>> /\ wave_events[i] = 0 /\ ~Pushed(runtime_state, i)
  BY DEF LibraryInv
<1>5. LibraryInv'
  BY <1>1, <1>4, LibraryKept
<1>6. AnyPushed(runtime_state') <=> AnyPushed(runtime_state) \/ Pushed(runtime_state', i)
  BY <1>1, <1>4 DEF AnyPushed, Pushed
<1>7. HandlerInv'
  <2>1. handler' # "null" <=> async' /\ AnyPushed(runtime_state')
    BY <1>1, <1>6 DEF HandlerInv
  <2>2. async' => LinuxFile \in ToSet(poll_fds')
    BY <1>1 DEF HandlerInv
  <2>3. ASSUME ~async', NEW j \in notified' \cap ToSet(poll_fds') PROVE ~Pushed(runtime_state', j)
    <3>1. j \in notified /\ j # i /\ j \in Inferiors /\ j \in ToSet(poll_fds)
      BY <1>1, <2>3 DEF TypeInv
    <3> QED BY <1>1, <2>3, <3>1 DEF HandlerInv, Pushed
  <2> QED BY <2>1, <2>2, <2>3 DEF HandlerInv
<1> QED BY <1>3, <1>5, <1>7

\* The process exits, is killed or is detached.
LEMMA DetachBase ==
  ASSUME BaseInv, NEW i \in attached, Detach(i),
         UNCHANGED <<turns, left>>, host' \in BOOLEAN, resumed' \in BOOLEAN,
         file' \in BOOLEAN, file' => async', polls' = <<>>
  PROVE  BaseInv'
<1> USE DEF BaseInv
<1>1. /\ DetachAmdDbgapi(i) /\ attached' = attached \ {i}
      /\ async' = (async /\ attached' # {})
      /\ poll_fds' = IF attached' = {} THEN <<>> ELSE DeleteFileHandler(poll_fds, i)
  BY DEF Detach, Unwatched
<1>2. /\ library' \in [Inferiors -> Seq(RuntimeStates \cup {"WAVE"})]
      /\ library'[i] = <<>> /\ runtime_state'[i] = "UNLOADED" /\ wave_events'[i] = 0
      /\ runtime_state' \in [Inferiors -> RuntimeStates]
      /\ wave_events' \in [Inferiors -> Nat]
      /\ notified' = notified \ {i}
      /\ \A j \in Inferiors \ {i} : /\ library'[j] = library[j]
                                    /\ runtime_state'[j] = runtime_state[j]
                                    /\ wave_events'[j] = wave_events[j]
      /\ handler' \in {handler, "null"}
      /\ handler' # "null" <=> async /\ AnyPushed(runtime_state')
  BY <1>1, DetachInfoFacts
<1>3. attached \in SUBSET Inferiors /\ Watches(poll_fds, attached) /\ i \in Inferiors
  BY DEF TypeInv
<1>4. /\ Watches(poll_fds', attached')
      /\ ToSet(poll_fds') \subseteq ToSet(poll_fds)
      /\ attached' # {} => ToSet(poll_fds') = ToSet(poll_fds) \ {i}
  <2>1. CASE attached' = {}
    BY <1>1, <2>1, NoWatch
  <2>2. CASE attached' # {}
    BY <1>1, <1>3, <2>2, DropWatch
  <2> QED BY <2>1, <2>2
<1>5. polls' \in Seq(attached') /\ async' \in BOOLEAN
  BY <1>1
<1>6. TypeInv'
  BY <1>1, <1>2, <1>3, <1>4, <1>5 DEF TypeInv, turns
<1>7. ~Pushed(runtime_state', i)
  BY <1>2 DEF Pushed
<1>8. LibraryInv'
  BY <1>1, <1>2, <1>3, <1>7, LibraryKept
<1>9. HandlerInv'
  <2>1. attached' = {} => ~AnyPushed(runtime_state')
    BY <1>8 DEF LibraryInv, AnyPushed, Pushed
  <2>2. handler' # "null" <=> async' /\ AnyPushed(runtime_state')
    BY <1>1, <1>2, <2>1
  <2>3. async' => LinuxFile \in ToSet(poll_fds')
    BY <1>1, <1>3, <1>4, DescriptorFacts DEF HandlerInv, LinuxFile
  <2>4. ASSUME ~async', NEW j \in notified' \cap ToSet(poll_fds') PROVE ~Pushed(runtime_state', j)
    <3>1. j \in notified /\ j # i /\ j \in Inferiors /\ j \in ToSet(poll_fds)
      BY <1>2, <1>4, <2>4 DEF TypeInv
    <3>2. CASE async
      BY <1>1, <2>1, <2>4, <3>1, <3>2 DEF AnyPushed
    <3>3. CASE ~async
      BY <1>2, <3>1, <3>3 DEF HandlerInv, Pushed
    <3> QED BY <3>2, <3>3
  <2> QED BY <2>2, <2>3, <2>4 DEF HandlerInv
<1> QED BY <1>6, <1>8, <1>9

\* A host thread has an event.
LEMMA HostEventBase ==
  ASSUME BaseInv, HostEvent PROVE BaseInv'
<1>1. /\ async /\ host' = TRUE /\ file' = TRUE
      /\ UNCHANGED <<library, notified, resumed, left, attached, runtime_state, wave_events,
                     poll_fds, next_poll_fds_index, event_source_head, handler, async, polls>>
  BY DEF HostEvent, info, turns
<1> QED BY <1>1 DEF BaseInv, TypeInv, LibraryInv, HandlerInv, Pushed, AnyPushed

\* An execution command makes the Linux target async.
LEMMA ResumeBase ==
  ASSUME BaseInv, UserResumes
  PROVE  /\ BaseInv' /\ polls' = <<>> /\ async' = TRUE /\ file' = TRUE
         /\ UNCHANGED <<attached, runtime_state>>
         /\ ToSet(poll_fds) \subseteq ToSet(poll_fds')
         /\ AnyPushed(runtime_state) => attached \subseteq ToSet(poll_fds')
<1> USE DEF BaseInv
<1> DEFINE fds == AddFileHandlers(poll_fds, {LinuxFile})
<1>1. /\ polls = <<>> /\ ~async /\ async' = TRUE /\ file' = TRUE /\ resumed' \in BOOLEAN
      /\ AsyncOn(runtime_state, attached, fds)
      /\ UNCHANGED <<library, notified, host, left, attached, runtime_state, wave_events,
                     next_poll_fds_index, event_source_head, polls>>
  BY DEF UserResumes, AtEventLoop, HostThreads, info, turns
<1>2. attached \in SUBSET Inferiors /\ Watches(poll_fds, attached)
  BY DEF TypeInv
<1>3. Watches(fds, attached) /\ ToSet(fds) = ToSet(poll_fds) \cup {LinuxFile}
  <2>1. {LinuxFile} \in SUBSET (attached \cup {LinuxFile}) /\ attached \subseteq attached
    OBVIOUS
  <2> QED BY <1>2, <2>1, AddWatch
<1> HIDE DEF fds
<1>4. handler = "null"
  BY <1>1 DEF HandlerInv
<1>5. /\ Watches(poll_fds', attached)
      /\ ToSet(fds) \subseteq ToSet(poll_fds')
      /\ IF AnyPushed(runtime_state)
         THEN handler' = "marked" /\ attached \subseteq ToSet(poll_fds')
         ELSE handler' = handler
  BY <1>1, <1>2, <1>3, <1>4, AsyncOnFacts
<1>6. TypeInv'
  BY <1>1, <1>5 DEF TypeInv
<1>7. LibraryInv'
  BY <1>1 DEF LibraryInv, Pushed
<1>8. HandlerInv'
  BY <1>1, <1>3, <1>4, <1>5 DEF HandlerInv
<1> QED BY <1>1, <1>3, <1>5, <1>6, <1>7, <1>8

\* What a notifier's handler does: an inferior with the target leaves its event
\* to wait and marks the handler; one without it pulls its only event.
LEMMA NotifierFacts ==
  ASSUME BaseInv, NEW i \in Inferiors, NotifierHandler(i)
  PROVE  /\ BaseInv' /\ polls = <<>> /\ polls' = <<>> /\ i \in attached
         /\ notified' = notified \ {i}
         /\ UNCHANGED <<attached, wave_events, async, file, resumed>>
         /\ ToSet(poll_fds) \subseteq ToSet(poll_fds')
         /\ \A j \in Inferiors \ {i} : library'[j] = library[j]
         /\ \/ handler' = "marked"
            \/ /\ library'[i] = <<>> /\ handler' = handler
               /\ async /\ AnyPushed(runtime_state') => AnyPushed(runtime_state)
         /\ AnyPushed(runtime_state) => AnyPushed(runtime_state')
<1> USE DEF BaseInv
<1>1. /\ polls = <<>> /\ ServeFile(i, Readable, handler = "marked") /\ notified' = notified \ {i}
      /\ UNCHANGED <<host, resumed, left, attached, wave_events, async, file, polls>>
  BY DEF NotifierHandler, AtEventLoop
<1>2. /\ i \in Readable /\ i \in ToSet(poll_fds)
      /\ next_poll_fds_index' \in 0 .. N + 1 /\ event_source_head' \in 0..2
  BY <1>1, ServeFacts
<1>3. i \in notified /\ i \in attached
  BY <1>2, DescriptorFacts DEF Readable, LinuxFile, TypeInv
<1>4. attached \in SUBSET Inferiors /\ Watches(poll_fds, attached)
  BY DEF TypeInv
<1>5. CASE Pushed(runtime_state, i)
  <2>1. handler' = Mark(handler) /\ UNCHANGED <<library, runtime_state, poll_fds>>
    BY <1>5 DEF NotifierHandler, SignalHandler
  <2>2. async /\ handler # "null"
    BY <1>2, <1>3, <1>5 DEF HandlerInv, AnyPushed
  <2>3. handler' = "marked"
    BY <2>1, <2>2 DEF Mark
  <2>4. TypeInv'
    BY <1>1, <1>2, <2>1, <2>3 DEF TypeInv
  <2>5. LibraryInv'
    BY <1>1, <1>5, <2>1 DEF LibraryInv, Pushed
  <2>6. HandlerInv'
    BY <1>1, <2>1, <2>2, <2>3 DEF HandlerInv
  <2> QED BY <1>1, <1>3, <2>1, <2>3, <2>4, <2>5, <2>6
<1>6. CASE ~Pushed(runtime_state, i)
  <2>1. PullRuntimeEvent(i)
    BY <1>6 DEF NotifierHandler
  <2>2. /\ library' \in [Inferiors -> Seq(RuntimeStates \cup {"WAVE"})] /\ library'[i] = <<>>
        /\ \A j \in Inferiors \ {i} : library'[j] = library[j] /\ runtime_state'[j] = runtime_state[j]
        /\ runtime_state' \in [Inferiors -> RuntimeStates]
    <3>1. CASE library[i] = <<>>
      BY <2>1, <3>1 DEF PullRuntimeEvent, TypeInv
    <3>2. CASE library[i] # <<>>
      <4>1. PICK e \in RuntimeStates : library[i] = <<e>>
        BY <1>6, <3>2 DEF LibraryInv
      <4>2. Tail(library[i]) = <<>> /\ Head(library[i]) = e
            /\ <<>> \in Seq(RuntimeStates \cup {"WAVE"})
        BY <4>1
      <4>3. /\ library' = [library EXCEPT ![i] = Tail(library[i])]
            /\ runtime_state' = [runtime_state EXCEPT ![i] = Head(library[i])]
        BY <2>1, <3>2 DEF PullRuntimeEvent
      <4>4. library' = [library EXCEPT ![i] = <<>>] /\ runtime_state' = [runtime_state EXCEPT ![i] = e]
        BY <4>2, <4>3
      <4> QED BY <4>2, <4>4 DEF TypeInv
    <3> QED BY <3>1, <3>2
  <2>3. /\ AnyPushed(runtime_state) => AnyPushed(runtime_state')
        /\ AnyPushed(runtime_state') => AnyPushed(runtime_state) \/ Pushed(runtime_state', i)
    BY <1>6, <2>2 DEF AnyPushed, Pushed
  <2>4. \/ /\ async /\ Pushed(runtime_state', i)
           /\ AsyncOn(runtime_state', attached, poll_fds)
        \/ /\ ~(async /\ Pushed(runtime_state', i))
           /\ UNCHANGED <<poll_fds, handler>>
    <3>1. CASE library[i] = <<>>
      <4>1. UNCHANGED <<runtime_state, poll_fds, handler>>
        BY <2>1, <3>1 DEF PullRuntimeEvent
      <4> QED BY <1>6, <4>1
    <3>2. CASE library[i] # <<>>
      BY <2>1, <3>2 DEF PullRuntimeEvent
    <3> QED BY <3>1, <3>2
  <2>5. /\ Watches(poll_fds', attached) /\ ToSet(poll_fds) \subseteq ToSet(poll_fds')
        /\ handler' # "null" <=> async /\ AnyPushed(runtime_state')
        /\ handler' \in {handler, "marked"}
        /\ (~async => poll_fds' = poll_fds)
    <3>1. CASE async /\ Pushed(runtime_state', i)
      <4>1. AsyncOn(runtime_state', attached, poll_fds) /\ AnyPushed(runtime_state')
        BY <2>4, <3>1 DEF AnyPushed
      <4>2. /\ Watches(poll_fds', attached) /\ ToSet(poll_fds) \subseteq ToSet(poll_fds')
            /\ IF handler = "null" THEN handler' = "marked" ELSE handler' = handler
        BY <1>4, <4>1, AsyncOnFacts
      <4> QED BY <3>1, <4>1, <4>2
    <3>2. CASE ~(async /\ Pushed(runtime_state', i))
      BY <1>4, <2>3, <2>4, <3>2 DEF HandlerInv
    <3> QED BY <3>1, <3>2
  <2>6. TypeInv'
    BY <1>1, <1>2, <2>2, <2>5 DEF TypeInv
  <2>7. handler' # "marked" => (async /\ AnyPushed(runtime_state') => AnyPushed(runtime_state))
    BY <2>5 DEF HandlerInv
  <2>8. LibraryInv'
    <3>1. \A k \in 1..Len(library'[i]) : library'[i][k] \in {"WAVE", "UNLOADED"}
      BY <2>2
    <3> QED BY <1>1, <1>3, <2>2, <3>1, LibraryKept
  <2>9. HandlerInv'
    <3>1. ASSUME ~async, NEW j \in notified' \cap ToSet(poll_fds') PROVE ~Pushed(runtime_state', j)
      <4>1. j \in notified \cap ToSet(poll_fds) /\ j # i /\ j \in Inferiors
        BY <1>1, <2>5, <3>1 DEF TypeInv
      <4> QED BY <2>2, <3>1, <4>1 DEF HandlerInv, Pushed
    <3> QED BY <1>1, <2>5, <3>1 DEF HandlerInv
  <2> QED BY <1>1, <1>3, <2>2, <2>3, <2>5, <2>6, <2>7, <2>8, <2>9
<1> QED BY <1>5, <1>6

\* A fetch begins; it will poll every attached inferior.
LEMMA FetchFacts ==
  ASSUME BaseInv, NEW s \in Inferiors, StartFetch(s)
  PROVE  /\ BaseInv' /\ ToSet(polls') = attached
         /\ UNCHANGED <<external, info, poll_fds, handler, async, file>>
<1> USE DEF BaseInv
<1>1. /\ polls' = InOrder({i \in attached : i >= s}) \o InOrder({i \in attached : i < s})
      /\ UNCHANGED <<external, info, poll_fds, handler, async, file>>
      /\ \/ ServeFile(LinuxFile, Readable, handler = "marked")
         \/ ServeHandler(Readable, handler = "marked")
  BY DEF StartFetch
<1>2. polls' \in Seq(attached) /\ ToSet(polls') = attached
  <2>1. attached \in SUBSET Inferiors
    BY DEF TypeInv
  <2> QED BY <1>1, <2>1, PollsFacts
<1>3. /\ next_poll_fds_index' \in 0 .. N + 1 /\ event_source_head' \in 0..2 /\ async
  <2>1. CASE ServeFile(LinuxFile, Readable, handler = "marked")
    <3>1. /\ LinuxFile \in Readable
          /\ next_poll_fds_index' \in 0 .. N + 1 /\ event_source_head' \in 0..2
      BY <2>1, ServeFacts
    <3>2. file
      BY <3>1, DescriptorFacts DEF Readable, Watched, LinuxFile
    <3> QED BY <3>1, <3>2 DEF HandlerInv
  <2>2. CASE ServeHandler(Readable, handler = "marked")
    <3>1. handler = "marked" /\ event_source_head' = (2 + 1) % 3 /\ UNCHANGED next_poll_fds_index
      BY <2>2 DEF ServeHandler, PassTurn
    <3>2. event_source_head' \in 0..2
      BY <3>1
    <3> QED BY <3>1, <3>2 DEF HandlerInv, TypeInv
  <2> QED BY <1>1, <2>1, <2>2
<1>4. TypeInv'
  BY <1>1, <1>2, <1>3 DEF TypeInv, external, info
<1>5. LibraryInv' /\ HandlerInv'
  BY <1>1, <1>3 DEF LibraryInv, HandlerInv, Pushed, AnyPushed, external, info
<1> QED BY <1>1, <1>2, <1>4, <1>5

\* After the end of a fetch the handler exists as it should, if it did before
\* target_async (false).
LEMMA ReportHandler ==
  ASSUME BaseInv, async, NEW state, NEW h \in {"null", "clear", "marked"}, NEW marked \in BOOLEAN,
         Report(state, h, marked), state = runtime_state', h # "null" <=> AnyPushed(state)
  PROVE  /\ HandlerInv' /\ handler' \in {"null", "clear", "marked"}
         /\ file' \in BOOLEAN /\ async' \in BOOLEAN
         /\ polls' = <<>> /\ Watches(poll_fds', attached) /\ KeepsWatch
<1> USE DEF BaseInv
<1>1. /\ polls' = <<>> /\ Watches(poll_fds', attached)
      /\ \/ handler' = h /\ file' = marked /\ UNCHANGED <<poll_fds, async>>
         \/ /\ async' = FALSE /\ file' = FALSE
            /\ IF AnyPushed(state) /\ h # "null"
               THEN ToSet(poll_fds') = {} /\ handler' = "null"
               ELSE ToSet(poll_fds') = ToSet(poll_fds) \ {LinuxFile} /\ handler' = h
  BY ReportFacts
<1>2. CASE handler' = h /\ file' = marked /\ UNCHANGED <<poll_fds, async>>
  BY <1>1, <1>2 DEF HandlerInv, TypeInv, KeepsWatch
<1>3. CASE /\ async' = FALSE /\ file' = FALSE
           /\ IF AnyPushed(state) /\ h # "null"
              THEN ToSet(poll_fds') = {} /\ handler' = "null"
              ELSE ToSet(poll_fds') = ToSet(poll_fds) \ {LinuxFile} /\ handler' = h
  <2>1. CASE AnyPushed(state)
    BY <1>1, <1>3, <2>1 DEF HandlerInv, KeepsWatch
  <2>2. CASE ~AnyPushed(state)
    <3>1. handler' = "null"
      BY <1>3, <2>2
    <3>2. ASSUME NEW j \in notified' \cap ToSet(poll_fds') PROVE ~Pushed(runtime_state', j)
      <4>1. j \in Inferiors \/ j = LinuxFile
        BY <1>1 DEF TypeInv, Watches
      <4>2. j # LinuxFile
        BY <1>3, <2>2, <3>2
      <4> QED BY <2>2, <4>1, <4>2 DEF AnyPushed
    <3>3. KeepsWatch
      BY <1>3, <2>2, DescriptorFacts DEF KeepsWatch, TypeInv, LinuxFile
    <3> QED BY <1>1, <1>3, <2>2, <3>1, <3>2, <3>3 DEF HandlerInv
  <2> QED BY <2>1, <2>2
<1> QED BY <1>1, <1>2, <1>3

\* A host thread stops.
LEMMA HostStopBase ==
  ASSUME BaseInv, async, HostStop, UNCHANGED turns, host' \in BOOLEAN, resumed' \in BOOLEAN
  PROVE  BaseInv' /\ KeepsWatch
<1> USE DEF BaseInv
<1>1. /\ Report(runtime_state, handler, TRUE)
      /\ UNCHANGED <<library, notified, left, attached, runtime_state, wave_events>>
  BY DEF HostStop, info
<1>2. handler \in {"null", "clear", "marked"} /\ (handler # "null" <=> AnyPushed(runtime_state))
  BY DEF TypeInv, HandlerInv
<1>3. /\ HandlerInv' /\ handler' \in {"null", "clear", "marked"}
      /\ file' \in BOOLEAN /\ async' \in BOOLEAN /\ polls' = <<>> /\ Watches(poll_fds', attached)
      /\ KeepsWatch
  BY <1>1, <1>2, ReportHandler
<1>4. TypeInv'
  BY <1>1, <1>3 DEF TypeInv, turns
<1>5. LibraryInv'
  BY <1>1 DEF LibraryInv, Pushed
<1> QED BY <1>3, <1>4, <1>5

\* A process execs: the notifier of the new image is watched.
LEMMA ExecBase ==
  ASSUME BaseInv, async, NEW i \in attached, HostExec(i), UNCHANGED turns, host' \in BOOLEAN,
         resumed' \in BOOLEAN
  PROVE  BaseInv' /\ ToSet(poll_fds') = ToSet(poll_fds) \cup {i}
<1> USE DEF BaseInv
<1>1. /\ DetachAmdDbgapi(i) /\ file' = TRUE /\ polls' = <<>>
      /\ poll_fds' = AddFileHandlers(DeleteFileHandler(poll_fds, i), {i})
      /\ UNCHANGED <<attached, async, left>>
  BY DEF HostExec, Unwatched
<1>2. /\ library' \in [Inferiors -> Seq(RuntimeStates \cup {"WAVE"})]
      /\ library'[i] = <<>> /\ runtime_state'[i] = "UNLOADED" /\ wave_events'[i] = 0
      /\ runtime_state' \in [Inferiors -> RuntimeStates]
      /\ wave_events' \in [Inferiors -> Nat]
      /\ notified' = notified \ {i}
      /\ \A j \in Inferiors \ {i} : /\ library'[j] = library[j]
                                    /\ runtime_state'[j] = runtime_state[j]
                                    /\ wave_events'[j] = wave_events[j]
      /\ handler' \in {handler, "null"}
      /\ handler' # "null" <=> async /\ AnyPushed(runtime_state')
  BY <1>1, DetachInfoFacts
<1>3. attached \in SUBSET Inferiors /\ Watches(poll_fds, attached) /\ i \in Inferiors
  BY DEF TypeInv
<1>4. Watches(poll_fds', attached) /\ ToSet(poll_fds') = ToSet(poll_fds) \cup {i}
  <2>1. /\ Watches(DeleteFileHandler(poll_fds, i), attached)
        /\ ToSet(DeleteFileHandler(poll_fds, i)) = ToSet(poll_fds) \ {i}
    BY <1>3, DropWatch
  <2> DEFINE fds == DeleteFileHandler(poll_fds, i)
  <2>2. poll_fds' = AddFileHandlers(fds, {i}) /\ {i} \in SUBSET (attached \cup {LinuxFile})
    BY <1>1
  <2> HIDE DEF fds
  <2>3. Watches(fds, attached) /\ ToSet(fds) = ToSet(poll_fds) \ {i}
    BY <2>1 DEF fds
  <2>4. /\ Watches(AddFileHandlers(fds, {i}), attached)
        /\ ToSet(AddFileHandlers(fds, {i})) = ToSet(fds) \cup {i}
    <3>1. /\ attached \in SUBSET Inferiors /\ Watches(fds, attached)
          /\ attached \subseteq attached /\ {i} \in SUBSET (attached \cup {LinuxFile})
      BY <1>3, <2>2, <2>3
    <3> QED BY ONLY <3>1, AddWatch
  <2> QED BY <2>2, <2>3, <2>4
<1>5. polls' \in Seq(attached')
  BY <1>1
<1>6. TypeInv'
  BY <1>1, <1>2, <1>3, <1>4, <1>5 DEF TypeInv, turns
<1>7. LibraryInv'
  <2>1. ~Pushed(runtime_state', i)
    BY <1>2 DEF Pushed
  <2> QED BY <1>1, <1>2, <1>3, <2>1, LibraryKept
<1>8. HandlerInv'
  BY <1>1, <1>2, <1>4 DEF HandlerInv
<1> QED BY <1>4, <1>6, <1>7, <1>8

\* wait on an inferior without the target.
LEMMA BeneathBase ==
  ASSUME BaseInv, async, polls # <<>>, PollBeneath, UNCHANGED turns
  PROVE  BaseInv' /\ KeepsWatch
<1> USE DEF BaseInv
<1>1. /\ UNCHANGED <<library, notified, host, resumed, left, attached, runtime_state, wave_events>>
      /\ \/ /\ polls' = Tail(polls) /\ file' = FALSE
            /\ UNCHANGED <<poll_fds, handler, async>>
         \/ Report(runtime_state, handler, FALSE)
  BY DEF PollBeneath, external, info
<1>2. LibraryInv'
  BY <1>1 DEF LibraryInv, Pushed
<1>3. CASE polls' = Tail(polls) /\ file' = FALSE /\ UNCHANGED <<poll_fds, handler, async>>
  <2>1. polls' \in Seq(attached)
    BY <1>3 DEF TypeInv
  <2>2. TypeInv'
    BY <1>1, <1>3, <2>1 DEF TypeInv, turns
  <2>3. HandlerInv'
    BY <1>1, <1>3 DEF HandlerInv
  <2>4. KeepsWatch
    BY <1>3 DEF KeepsWatch
  <2> QED BY <1>2, <2>2, <2>3, <2>4
<1>4. CASE Report(runtime_state, handler, FALSE)
  <2>1. handler \in {"null", "clear", "marked"} /\ (handler # "null" <=> AnyPushed(runtime_state))
    BY DEF TypeInv, HandlerInv
  <2>2. /\ HandlerInv' /\ handler' \in {"null", "clear", "marked"}
        /\ file' \in BOOLEAN /\ async' \in BOOLEAN /\ polls' = <<>> /\ Watches(poll_fds', attached)
        /\ KeepsWatch
    BY <1>1, <1>4, <2>1, ReportHandler
  <2>3. TypeInv'
    BY <1>1, <2>2 DEF TypeInv, turns
  <2> QED BY <1>2, <2>2, <2>3
<1> QED BY <1>1, <1>3, <1>4

\* wait returns an event that was queued.
LEMMA ConsumeBase ==
  ASSUME BaseInv, async, NEW i \in Inferiors, Pushed(runtime_state, i), ConsumeOneEvent,
         UNCHANGED turns
  PROVE  BaseInv' /\ KeepsWatch
<1> USE DEF BaseInv
<1>1. PICK j \in Queues : wave_events' = [wave_events EXCEPT ![j] = @ - 1]
  BY DEF ConsumeOneEvent
<1>2. /\ Report(runtime_state, "marked", FALSE)
      /\ UNCHANGED <<library, notified, host, resumed, left, attached, runtime_state>>
  BY DEF ConsumeOneEvent, MoreEvents, Mark, external
<1>3. AnyPushed(runtime_state)
  BY DEF AnyPushed
<1>4. /\ HandlerInv' /\ handler' \in {"null", "clear", "marked"}
      /\ file' \in BOOLEAN /\ async' \in BOOLEAN /\ polls' = <<>> /\ Watches(poll_fds', attached)
      /\ KeepsWatch
  BY <1>2, <1>3, ReportHandler
<1>5. /\ j \in Inferiors /\ wave_events[j] > 0
      /\ wave_events' \in [Inferiors -> Nat]
      /\ \A k \in Inferiors : wave_events[k] = 0 => wave_events'[k] = 0
  <2>1. j \in Inferiors /\ wave_events[j] > 0 /\ wave_events[j] \in Nat
    BY DEF Queues, TypeInv
  <2>2. wave_events[j] - 1 \in Nat
    BY <2>1
  <2> QED BY <1>1, <2>1, <2>2 DEF TypeInv
<1>6. TypeInv'
  BY <1>2, <1>4, <1>5 DEF TypeInv, turns
<1>7. LibraryInv'
  BY <1>2, <1>5 DEF LibraryInv, Pushed
<1> QED BY <1>4, <1>6, <1>7

\* The inductive invariant includes the type invariant.
LEMMA BaseTypes == BaseInv => TypeOK
<1> SUFFICES ASSUME BaseInv PROVE TypeOK
  OBVIOUS
<1>1. poll_fds \in Seq(attached \cup {LinuxFile}) /\ IsInjective(poll_fds)
  BY RangeFacts DEF BaseInv, TypeInv, Watches
<1>2. {host, resumed, async, file} \subseteq BOOLEAN
  BY DEF BaseInv, TypeInv
<1> QED BY <1>1, <1>2 DEF BaseInv, TypeInv, TypeOK

\* What wait finds in the library for an inferior with the target: wave
\* events, of which it returns one, and the unloading of the runtime.  Both, when
\* no other inferior has the target, make an assertion fail.
LEMMA QueueFacts ==
  ASSUME BaseInv, async, polls # <<>>, NEW i \in attached, Pushed(runtime_state, i),
         Queues = {}, ProcessEventQueue(i), UNCHANGED turns
  PROVE  /\ KeepsWatch
         /\ library' = [library EXCEPT ![i] = <<>>]
         /\ UNCHANGED <<notified, host, resumed, left, attached>>
         /\ \/ /\ FailedInv' /\ ~AnyPushed(runtime_state')
               /\ {"WAVE", "UNLOADED"} \subseteq ToSet(library[i])
            \/ BaseInv' /\ polls' = <<>> /\ (handler' = "marked" \/ ~async')
            \/ /\ BaseInv' /\ UNCHANGED wave_events
               /\ \/ polls' = Tail(polls) /\ async'
                  \/ polls' = <<>> /\ ~resumed
<1> USE DEF BaseInv
<1> DEFINE waves == Cardinality({k \in 1..Len(library[i]) : library[i][k] = "WAVE"})
           state == IF "UNLOADED" \in ToSet(library[i])
                    THEN [runtime_state EXCEPT ![i] = "UNLOADED"] ELSE runtime_state
           h == IF state = runtime_state THEN "clear" ELSE Closed(state, "clear")
<1>1. /\ library' = [library EXCEPT ![i] = <<>>] /\ runtime_state' = state
      /\ IF waves > 0
         THEN /\ wave_events' = [wave_events EXCEPT ![i] = waves - 1]
              /\ Report(state, MoreEvents(h), FALSE)
         ELSE /\ UNCHANGED wave_events
              /\ IF resumed \/ AnyPushed(state)
                 THEN /\ polls' = Tail(polls)
                      /\ handler' = h /\ file' = FALSE
                      /\ UNCHANGED <<poll_fds, async>>
                 ELSE Report(state, h, FALSE)
      /\ UNCHANGED <<notified, host, resumed, left, attached>>
  BY DEF ProcessEventQueue
<1>2. i \in Inferiors /\ library[i] \in Seq(RuntimeStates \cup {"WAVE"}) /\ Len(library[i]) \in Nat
  BY DEF TypeInv
<1>3. waves \in Nat
  <2>1. IsFiniteSet(1..Len(library[i]))
    BY <1>2, FS_Interval
  <2> QED BY <2>1, FS_Subset, FS_CardinalityType
<1>4. waves > 0 => "WAVE" \in ToSet(library[i])
  <2> SUFFICES ASSUME "WAVE" \notin ToSet(library[i]) PROVE waves = 0
    BY <1>3
  <2>1. {m \in 1..Len(library[i]) : library[i][m] = "WAVE"} = {}
    BY <1>2, RangeFacts
  <2> QED BY <2>1, FS_EmptySet
<1>5. /\ state \in [Inferiors -> RuntimeStates]
      /\ \A j \in Inferiors \ {i} : state[j] = runtime_state[j]
      /\ state = runtime_state \/ (state[i] = "UNLOADED" /\ "UNLOADED" \in ToSet(library[i]))
  <2>1. runtime_state \in [Inferiors -> RuntimeStates] /\ "UNLOADED" \in RuntimeStates
    BY DEF TypeInv, RuntimeStates
  <2>2. CASE "UNLOADED" \in ToSet(library[i])
    <3>1. state = [runtime_state EXCEPT ![i] = "UNLOADED"]
      BY <2>2
    <3> HIDE DEF state
    <3> QED BY <1>2, <2>1, <2>2, <3>1
  <2>3. CASE "UNLOADED" \notin ToSet(library[i])
    <3>1. state = runtime_state
      BY <2>3
    <3> HIDE DEF state
    <3> QED BY <2>1, <3>1
  <2> QED BY <2>2, <2>3
<1> HIDE DEF state, waves
<1>6. h \in {"null", "clear"} /\ (h # "null" <=> AnyPushed(state))
  BY <1>2 DEF AnyPushed, Closed
<1> HIDE DEF h
<1>7. /\ library' \in [Inferiors -> Seq(RuntimeStates \cup {"WAVE"})] /\ library'[i] = <<>>
      /\ \A j \in Inferiors \ {i} : library'[j] = library[j]
  <2>1. <<>> \in Seq(RuntimeStates \cup {"WAVE"})
    OBVIOUS
  <2> QED BY <1>1, <1>2, <2>1 DEF TypeInv
<1>8. wave_events[i] = 0
  BY <1>2 DEF Queues, TypeInv
<1>9. ASSUME waves > 0
      PROVE  /\ wave_events' = [wave_events EXCEPT ![i] = waves - 1]
             /\ wave_events' \in [Inferiors -> Nat]
             /\ \A j \in Inferiors \ {i} : wave_events'[j] = wave_events[j]
             /\ Report(state, MoreEvents(h), FALSE)
  <2>1. wave_events' = [wave_events EXCEPT ![i] = waves - 1] /\ Report(state, MoreEvents(h), FALSE)
    BY <1>1, <1>9
  <2>2. waves - 1 \in Nat
    BY <1>3, <1>9
  <2> QED BY <1>2, <2>1, <2>2 DEF TypeInv
<1>11. CASE waves > 0 /\ ~AnyPushed(state)
  <2>1. MoreEvents(h) = "assertion failed"
    BY <1>6, <1>11 DEF MoreEvents, Mark
  <2>2. /\ polls' = <<>> /\ handler' = "assertion failed" /\ file' = FALSE
        /\ UNCHANGED <<poll_fds, async>>
    BY <1>9, <1>11, <2>1 DEF Report
  <2>3. "UNLOADED" \in ToSet(library[i])
    BY <1>2, <1>5, <1>11 DEF AnyPushed
  <2>4. polls' \in Seq(attached)
    <3>1. <<>> \in Seq(attached)
      OBVIOUS
    <3> QED BY <2>2, <3>1
  <2>5. FailedInv'
    <3>1. TypeOK
      BY BaseTypes
    <3>2. TypeOK'
      <4>1. {host, resumed, async, file}' \subseteq BOOLEAN
        BY <1>1, <2>2 DEF TypeInv
      <4> QED BY <1>1, <1>5, <1>7, <1>9, <1>11, <2>2, <2>4, <3>1, <4>1 DEF TypeOK, turns
    <3> QED BY <1>1, <1>11, <2>2, <3>2 DEF FailedInv, InternalError
  <2>6. KeepsWatch
    BY <2>2 DEF KeepsWatch
  <2> QED BY <1>1, <1>4, <1>11, <2>3, <2>5, <2>6
<1>12. CASE waves > 0 /\ AnyPushed(state)
  <2>1. MoreEvents(h) = "marked"
    BY <1>6, <1>12 DEF MoreEvents, Mark
  <2>2. Report(state, "marked", FALSE)
    BY <1>9, <1>12, <2>1
  <2>3. /\ HandlerInv' /\ handler' \in {"null", "clear", "marked"}
        /\ file' \in BOOLEAN /\ async' \in BOOLEAN /\ polls' = <<>> /\ Watches(poll_fds', attached)
        /\ KeepsWatch
    BY <1>1, <1>12, <2>2, ReportHandler
  <2>4. handler' = "marked" \/ ~async'
    BY <2>2, ReportFacts
  <2>5. TypeInv'
    BY <1>1, <1>5, <1>7, <1>9, <1>12, <2>3 DEF TypeInv, turns
  <2>6. LibraryInv'
    <3>1. \A k \in 1..Len(library'[i]) : library'[i][k] \in {"WAVE", "UNLOADED"}
      BY <1>7
    <3> QED BY <1>1, <1>2, <1>5, <1>7, <1>9, <1>12, <3>1, LibraryKept
  <2> QED BY <1>1, <2>3, <2>4, <2>5, <2>6
<1>10. CASE ~(waves > 0)
  <2>1. wave_events' = wave_events
    BY <1>1, <1>10
  <2>2. LibraryInv'
    <3>1. \A k \in 1..Len(library'[i]) : library'[i][k] \in {"WAVE", "UNLOADED"}
      BY <1>7
    <3> QED BY <1>1, <1>2, <1>5, <1>7, <1>8, <2>1, <3>1, LibraryKept
  <2>3. CASE resumed \/ AnyPushed(state)
    <3>1. polls' = Tail(polls) /\ handler' = h /\ file' = FALSE /\ UNCHANGED <<poll_fds, async>>
      BY <1>1, <1>10, <2>3
    <3>2. polls' \in Seq(attached)
      BY <3>1 DEF TypeInv
    <3>3. TypeInv'
      BY <1>1, <1>5, <1>6, <1>7, <2>1, <3>1, <3>2 DEF TypeInv, turns
    <3>4. HandlerInv'
      BY <1>1, <1>6, <3>1 DEF HandlerInv
    <3>5. KeepsWatch
      BY <3>1 DEF KeepsWatch
    <3> QED BY <1>1, <2>1, <2>2, <3>1, <3>3, <3>4, <3>5
  <2>4. CASE ~(resumed \/ AnyPushed(state))
    <3>1. Report(state, h, FALSE) /\ ~resumed
      BY <1>1, <1>10, <2>4
    <3>2. /\ HandlerInv' /\ handler' \in {"null", "clear", "marked"}
          /\ file' \in BOOLEAN /\ async' \in BOOLEAN /\ polls' = <<>> /\ Watches(poll_fds', attached)
          /\ KeepsWatch
      BY <1>1, <1>6, <3>1, ReportHandler
    <3>3. TypeInv'
      BY <1>1, <1>5, <1>7, <2>1, <3>2 DEF TypeInv, turns
    <3> QED BY <1>1, <2>1, <2>2, <3>1, <3>2, <3>3
  <2> QED BY <2>3, <2>4
<1> QED BY <1>10, <1>11, <1>12

\* The one way to fail.
Fails ==
  /\ FailedInv' /\ ~AnyPushed(runtime_state') /\ polls # <<>>
  /\ {"WAVE", "UNLOADED"} \subseteq ToSet(library[Head(polls)])

\* Every poll keeps the state well-typed and the handler in step, or fails.
LEMMA PollBase ==
  ASSUME BaseInv, Poll PROVE BaseInv' \/ Fails
<1> USE DEF BaseInv
<1> DEFINE i == Head(polls)
<1>1. polls # <<>> /\ UNCHANGED turns /\ async
  BY DEF Poll, HandlerInv
<1>2. i \in attached /\ i \in Inferiors /\ attached \in SUBSET Inferiors
  BY <1>1 DEF TypeInv
<1> HIDE DEF i
<1>3. CASE PollHost
  <2>1. host' \in BOOLEAN /\ resumed' \in BOOLEAN
    BY <1>3 DEF PollHost, HostThreads
  <2>2. CASE HostStop
    BY <1>1, <2>1, <2>2, HostStopBase
  <2>3. ASSUME NEW j \in attached, HostExit(j) PROVE BaseInv'
    <3>1. Detach(j) /\ file' = async' /\ polls' = <<>> /\ UNCHANGED left
      BY <2>3 DEF HostExit
    <3>2. async' \in BOOLEAN
      BY <3>1 DEF Detach
    <3> QED BY <1>1, <2>1, <3>1, <3>2, DetachBase
  <2>4. ASSUME NEW j \in attached, HostExec(j) PROVE BaseInv'
    BY <1>1, <2>1, <2>4, ExecBase
  <2>5. ASSUME NEW j \in Inferiors \ attached, HostFork(j) PROVE BaseInv'
    <3>1. AttachAmdDbgapi(j) /\ file' = TRUE /\ polls' = <<>> /\ UNCHANGED async
      BY <2>5 DEF HostFork
    <3> QED BY <1>1, <2>1, <3>1, AttachBase
  <2> QED BY <1>3, <2>2, <2>3, <2>4, <2>5 DEF PollHost
<1>4. CASE PollBeneath
  BY <1>1, <1>4, BeneathBase
<1>5. CASE Pushed(runtime_state, i) /\ ConsumeOneEvent
  BY <1>1, <1>2, <1>5, ConsumeBase
<1>6. CASE Pushed(runtime_state, i) /\ Queues = {} /\ ProcessEventQueue(i)
  <2>1. BaseInv' \/ (/\ FailedInv' /\ ~AnyPushed(runtime_state')
                     /\ {"WAVE", "UNLOADED"} \subseteq ToSet(library[i]))
    BY <1>1, <1>2, <1>6, QueueFacts
  <2> QED BY <1>1, <2>1 DEF Fails, i
<1> QED BY <1>3, <1>4, <1>5, <1>6 DEF Poll, i

\* Every step does.
LEMMA BaseStep == BaseInv /\ [Next]_vars => BaseInv' \/ Fails
<1> SUFFICES ASSUME BaseInv, [Next]_vars PROVE BaseInv' \/ Fails
  OBVIOUS
<1>1. ASSUME NEW i \in Inferiors, LibraryRaises(i) PROVE BaseInv'
  BY <1>1, RaiseBase
<1>2. ASSUME NEW i \in Inferiors, Attach(i) PROVE BaseInv'
  <2>1. /\ i \notin attached /\ AttachAmdDbgapi(i) /\ polls = <<>>
        /\ UNCHANGED <<host, resumed, turns, async, file, polls>>
    BY <1>2 DEF Attach, AtEventLoop
  <2>2. host' \in BOOLEAN /\ resumed' \in BOOLEAN /\ file' \in BOOLEAN /\ (file' => async)
    BY <2>1 DEF BaseInv, TypeInv, HandlerInv
  <2> QED BY <2>1, <2>2, AttachBase
<1>3. ASSUME NEW i \in Inferiors, Leave(i) PROVE BaseInv'
  <2>1. /\ i \in attached /\ Detach(i) /\ polls = <<>> /\ file' = (file /\ async')
        /\ host' = (host /\ async') /\ UNCHANGED <<resumed, left, turns, polls>>
    BY <1>3 DEF Leave, AtEventLoop
  <2>2. host' \in BOOLEAN /\ resumed' \in BOOLEAN /\ file' \in BOOLEAN /\ (file' => async')
    BY <2>1 DEF BaseInv, TypeInv
  <2> QED BY <2>1, <2>2, DetachBase
<1>4. ASSUME NEW i \in Inferiors, NotifierHandler(i) PROVE BaseInv'
  BY <1>4, NotifierFacts
<1>5. ASSUME NEW i \in Inferiors, StartFetch(i) PROVE BaseInv'
  BY <1>5, FetchFacts
<1>6. CASE HostEvent
  BY <1>6, HostEventBase
<1>7. CASE UserResumes
  BY <1>7, ResumeBase
<1>8. CASE Poll
  BY <1>8, PollBase
<1>9. CASE UNCHANGED vars
  BY <1>9 DEF BaseInv, TypeInv, LibraryInv, HandlerInv, Pushed, AnyPushed, vars, external, info,
              eventloop, turns
<1> QED BY <1>1, <1>2, <1>3, <1>4, <1>5, <1>6, <1>7, <1>8, <1>9 DEF Next

\* And nothing follows a failure.
LEMMA AlwaysBase ==
  (BaseInv \/ FailedInv) /\ [Next]_vars => (BaseInv \/ FailedInv)'
<1>1. FailedInv /\ UNCHANGED vars => FailedInv'
  BY DEF FailedInv, TypeOK, InternalError, AnyPushed, Pushed, vars, external, info, eventloop, turns
<1> QED BY <1>1, BaseStep, FailedStep DEF Fails

\* The initial state is one.
LEMMA InitBase == Init => BaseInv
<1> SUFFICES ASSUME Init PROVE BaseInv
  OBVIOUS
<1>1. poll_fds = <<>> /\ next_poll_fds_index = 0 /\ event_source_head = 0
  BY DEF Init, InitLoop
<1>2. Watches(poll_fds, attached) /\ ToSet(poll_fds) = {}
  BY <1>1, NoWatch
<1>3. library \in [Inferiors -> Seq(RuntimeStates \cup {"WAVE"})] /\ polls \in Seq(attached)
  BY DEF Init
<1>4. runtime_state \in [Inferiors -> RuntimeStates] /\ wave_events \in [Inferiors -> Nat]
  BY DEF Init, RuntimeStates
<1>5. 0 \in 0 .. N + 1 /\ 0 \in 0..2 /\ left \in 0..MaxEvents
  BY DeliveryAssumption DEF Init
<1>6. host \in BOOLEAN /\ resumed \in BOOLEAN /\ async \in BOOLEAN /\ file \in BOOLEAN
  BY DEF Init
<1>7. TypeInv
  BY <1>1, <1>2, <1>3, <1>4, <1>5, <1>6 DEF Init, TypeInv
<1>8. \A i \in Inferiors : ~Pushed(runtime_state, i)
  BY DEF Init, Pushed
<1>9. LibraryInv
  BY <1>8 DEF Init, LibraryInv
<1>10. HandlerInv
  BY <1>2, <1>8 DEF Init, HandlerInv, AnyPushed
<1> QED BY <1>7, <1>9, <1>10 DEF BaseInv

\* The state stays well-typed: in particular a descriptor is never watched
\* twice, only attached inferiors are, and the index of the next search is
\* within bounds although descriptors move under it.
THEOREM TypeCorrect == Spec => []TypeOK
<1>1. BaseInv \/ FailedInv => TypeOK
  BY BaseTypes DEF FailedInv
<1> QED BY <1>1, InitBase, AlwaysBase, PTL DEF Spec

\* While the target is async and pushed on some inferior the async event handler
\* exists, whatever leaves, execs, forks or unloads its runtime, with or without
\* unread events of its waves.
THEOREM HandlerIsThere == Spec => []HandlerExists
<1>1. BaseInv \/ FailedInv => HandlerExists
  BY DEF BaseInv, TypeInv, HandlerInv, FailedInv, HandlerExists
<1> QED BY <1>1, InitBase, AlwaysBase, PTL DEF Spec

\* The assertion of async_event_handler_mark fails only in wait, when it drains an
\* event of a wave together with the UNLOADED event of the last inferior that has
\* the target.
THEOREM FailsAtUnload == Spec => FailsOnlyAtUnload
<1>1. /\ (BaseInv \/ FailedInv) /\ [Next]_vars
      => [InternalError' /\ ~InternalError =>
            /\ polls # <<>> /\ {"WAVE", "UNLOADED"} \subseteq ToSet(library[Head(polls)])
            /\ ~AnyPushed(runtime_state')]_vars
  <2>1. BaseInv' => ~InternalError'
    BY DEF BaseInv, TypeInv, InternalError
  <2> QED BY <2>1, BaseStep DEF FailedInv, Fails
<1> QED BY <1>1, InitBase, AlwaysBase, PTL DEF Spec, FailsOnlyAtUnload

-----------------------------------------------------------------------------
(* The notifiers are watched.                                              *)

\* attach_amd_dbgapi watches the new notifier, and leaves the others watched.
LEMMA AttachWatch ==
  ASSUME BaseInv, WatchInv, NEW i \in Inferiors, i \notin attached, AttachAmdDbgapi(i),
         UNCHANGED async
  PROVE  WatchInv'
<1>1. /\ attached' = attached \cup {i}
      /\ \A j \in Inferiors \ {i} : runtime_state'[j] = runtime_state[j]
      /\ ToSet(poll_fds) \cup {i} \subseteq ToSet(poll_fds')
  BY AttachFacts DEF BaseInv
<1>2. ~Pushed(runtime_state, i)
  BY DEF BaseInv, LibraryInv
<1>3. AnyPushed(runtime_state) => AnyPushed(runtime_state')
  BY <1>1, <1>2 DEF AnyPushed, Pushed
<1> QED BY <1>1, <1>3 DEF WatchInv

\* A process that leaves while the target is async takes only its own notifier
\* away.
LEMMA DetachWatch ==
  ASSUME BaseInv, WatchInv, async, NEW i \in attached, Detach(i) PROVE WatchInv'
<1>1. /\ attached' = attached \ {i}
      /\ poll_fds' = IF attached' = {} THEN <<>> ELSE DeleteFileHandler(poll_fds, i)
  BY DEF Detach, Unwatched
<1>2. attached \in SUBSET Inferiors /\ Watches(poll_fds, attached)
  BY DEF BaseInv, TypeInv
<1>3. attached' # {} => ToSet(poll_fds') = ToSet(poll_fds) \ {i}
  BY <1>1, <1>2, DropWatch
<1> QED BY <1>1, <1>3 DEF WatchInv

\* Every step keeps the notifiers watched, if no inferior leaves while the
\* target is not async.
LEMMA WatchStep ==
  ASSUME ~LeaveWhileStopped
  PROVE  BaseInv /\ WatchInv /\ [Next]_vars => WatchInv'
<1> SUFFICES ASSUME BaseInv, WatchInv, [Next]_vars PROVE WatchInv'
  OBVIOUS
<1>1. CASE \/ \E i \in Inferiors : LibraryRaises(i) \/ StartFetch(i)
           \/ HostEvent
           \/ UNCHANGED vars
  <2>1. UNCHANGED <<attached, poll_fds, async, runtime_state>>
    BY <1>1, FetchFacts DEF LibraryRaises, HostEvent, StartFetch, vars, info, eventloop
  <2> QED BY <2>1 DEF WatchInv
<1>2. ASSUME NEW i \in Inferiors, Attach(i) PROVE WatchInv'
  BY <1>2, AttachWatch DEF Attach
<1>3. ASSUME NEW i \in Inferiors, Leave(i) PROVE WatchInv'
  BY <1>3, DetachWatch DEF Leave
<1>4. ASSUME NEW i \in Inferiors, NotifierHandler(i) PROVE WatchInv'
  <2>1. /\ UNCHANGED <<attached, async>> /\ ToSet(poll_fds) \subseteq ToSet(poll_fds')
        /\ AnyPushed(runtime_state) => AnyPushed(runtime_state')
    BY <1>4, NotifierFacts
  <2> QED BY <2>1 DEF WatchInv
<1>5. CASE UserResumes
  <2>1. /\ UNCHANGED attached /\ ToSet(poll_fds) \subseteq ToSet(poll_fds')
        /\ AnyPushed(runtime_state) => attached \subseteq ToSet(poll_fds')
    BY <1>5, ResumeBase
  <2> QED BY <2>1 DEF WatchInv
<1>6. CASE Poll
  <2> DEFINE i == Head(polls)
  <2>1. polls # <<>> /\ UNCHANGED turns /\ async
    BY <1>6 DEF Poll, BaseInv, HandlerInv
  <2>2. i \in attached /\ i \in Inferiors /\ attached \subseteq ToSet(poll_fds)
    BY <2>1 DEF BaseInv, TypeInv, WatchInv
  <2> HIDE DEF i
  <2>3. CASE PollHost
    <3>1. host' \in BOOLEAN /\ resumed' \in BOOLEAN
      BY <2>3 DEF PollHost, HostThreads
    <3>2. CASE HostStop
      <4>1. KeepsWatch
        BY <2>1, <3>1, <3>2, HostStopBase
      <4>2. UNCHANGED attached
        BY <3>2 DEF HostStop, info
      <4> QED BY <2>2, <4>1, <4>2 DEF KeepsWatch, WatchInv
    <3>3. ASSUME NEW j \in attached, HostExit(j) PROVE WatchInv'
      BY <2>1, <3>3, DetachWatch DEF HostExit
    <3>4. ASSUME NEW j \in attached, HostExec(j) PROVE WatchInv'
      <4>1. ToSet(poll_fds') = ToSet(poll_fds) \cup {j}
        BY <2>1, <3>1, <3>4, ExecBase
      <4>2. UNCHANGED attached
        BY <3>4 DEF HostExec
      <4> QED BY <2>2, <4>1, <4>2 DEF WatchInv
    <3>5. ASSUME NEW j \in Inferiors \ attached, HostFork(j) PROVE WatchInv'
      BY <3>5, AttachWatch DEF HostFork
    <3> QED BY <2>3, <3>2, <3>3, <3>4, <3>5 DEF PollHost
  <2>4. CASE PollBeneath
    <3>1. KeepsWatch
      BY <2>1, <2>4, BeneathBase
    <3>2. UNCHANGED attached
      BY <2>4 DEF PollBeneath, info
    <3> QED BY <2>2, <3>1, <3>2 DEF KeepsWatch, WatchInv
  <2>5. CASE Pushed(runtime_state, i) /\ ConsumeOneEvent
    <3>1. KeepsWatch
      BY <2>1, <2>2, <2>5, ConsumeBase
    <3>2. UNCHANGED attached
      BY <2>5 DEF ConsumeOneEvent
    <3> QED BY <2>2, <3>1, <3>2 DEF KeepsWatch, WatchInv
  <2>6. CASE Pushed(runtime_state, i) /\ Queues = {} /\ ProcessEventQueue(i)
    <3>1. KeepsWatch /\ UNCHANGED attached
      BY <2>1, <2>2, <2>6, QueueFacts
    <3> QED BY <2>2, <3>1 DEF KeepsWatch, WatchInv
  <2> QED BY <1>6, <2>3, <2>4, <2>5, <2>6 DEF Poll, i
<1> QED BY <1>1, <1>2, <1>3, <1>4, <1>5, <1>6 DEF Next

\* While the Linux target is async, every attached inferior's notifier is
\* watched, its runtime loaded or not, if no inferior leaves while it is not.
THEOREM AllNotifiersWatched ==
  ASSUME ~LeaveWhileStopped
  PROVE  Spec => []NotifiersWatched
<1>1. Init => WatchInv
  BY DEF Init, WatchInv
<1>2. (BaseInv \/ FailedInv) /\ WatchInv => NotifiersWatched
  BY DEF BaseInv, TypeInv, FailedInv, TypeOK, WatchInv, NotifiersWatched, Watched
<1>3. FailedInv /\ WatchInv /\ [Next]_vars => WatchInv'
  BY FailedStep DEF WatchInv, AnyPushed, Pushed, vars, info, eventloop
<1> QED BY <1>1, <1>2, <1>3, InitBase, AlwaysBase, WatchStep, PTL DEF Spec

-----------------------------------------------------------------------------
(* No wakeup is lost.                                                      *)

\* Inferiors of a fetch beyond the one that is polled.
LEMMA TailFacts ==
  ASSUME NEW S, NEW s \in Seq(S), s # <<>>
  PROVE  \A x \in ToSet(s) : x = Head(s) \/ x \in ToSet(Tail(s))
<1> SUFFICES ASSUME NEW x \in ToSet(s), x # Head(s) PROVE x \in ToSet(Tail(s))
  OBVIOUS
<1>1. PICK k \in 1..Len(s) : s[k] = x
  BY RangeFacts
<1>2. Tail(s) \in Seq(S) /\ Len(s) \in Nat /\ Len(Tail(s)) = Len(s) - 1 /\ k # 1
  BY <1>1, RangeFacts
<1>3. k - 1 \in 1..Len(Tail(s)) /\ Tail(s)[k - 1] = s[k]
  BY <1>1, <1>2
<1> QED BY <1>1, <1>2, <1>3, RangeFacts

\* wait goes on to the next inferior: the one it leaves has no event that its
\* notifier does not announce.
LEMMA PollNextWake ==
  ASSUME BaseInv, WakeInv, polls # <<>>, polls' = Tail(polls),
         UNCHANGED <<attached, notified, wave_events>>,
         NEW i, i = Head(polls),
         \A j \in attached \ {i} : library'[j] = library[j],
         \A j \in Inferiors \ {i} : runtime_state'[j] = runtime_state[j],
         library'[i] # <<>> => i \in notified,
         Queues = {} \/ ~Pushed(runtime_state', i)
  PROVE  WakeInv'
<1>1. polls \in Seq(attached)
  BY DEF BaseInv, TypeInv
<1>2. ASSUME NEW j \in attached, library'[j] # <<>>
      PROVE  j \in notified \/ j \in ToSet(Tail(polls))
  <2>1. CASE j = i
    BY <1>2, <2>1
  <2>2. CASE j # i
    <3>1. j \in notified \/ j \in ToSet(polls)
      BY <1>2, <2>2 DEF WakeInv
    <3> QED BY <1>1, <2>2, <3>1, TailFacts
  <2> QED BY <2>1, <2>2
<1>3. ASSUME Queues # {}, NEW j \in Inferiors, Pushed(runtime_state', j)
      PROVE  j \in ToSet(Tail(polls))
  <2>1. j # i /\ Pushed(runtime_state, j)
    BY <1>3 DEF Pushed
  <2>2. j \in ToSet(polls)
    BY <1>3, <2>1 DEF WakeInv
  <2> QED BY <1>1, <2>1, <2>2, TailFacts
<1>4. Tail(polls) = <<>> => ToSet(Tail(polls)) = {}
  BY NoWatch
<1>5. Queues' = Queues
  BY DEF Queues
<1>6. AnyPushed(runtime_state') <=> \E j \in Inferiors : Pushed(runtime_state', j)
  BY DEF AnyPushed
<1> QED BY <1>2, <1>3, <1>4, <1>5, <1>6 DEF WakeInv

\* Every step keeps every event announced.
LEMMA WakeStep == BaseInv /\ WakeInv /\ [Next]_vars => WakeInv' \/ FailedInv'
<1> SUFFICES ASSUME BaseInv, WakeInv, [Next]_vars PROVE WakeInv' \/ FailedInv'
  OBVIOUS
<1>t. library \in [Inferiors -> Seq(RuntimeStates \cup {"WAVE"})] /\ attached \subseteq Inferiors
      /\ wave_events \in [Inferiors -> Nat]
  BY DEF BaseInv, TypeInv
<1>1. ASSUME NEW i \in Inferiors, LibraryRaises(i) PROVE WakeInv'
  <2>1. /\ notified' = notified \cup {i}
        /\ UNCHANGED <<attached, runtime_state, wave_events, resumed, handler, async, file, polls>>
        /\ \A j \in Inferiors \ {i} : library'[j] = library[j]
    BY <1>1, <1>t DEF LibraryRaises, info, eventloop
  <2>2. \A j \in attached' : library'[j] # <<>> => j = i \/ library[j] # <<>>
    BY <1>t, <2>1
  <2>3. Queues' = Queues
    BY <2>1 DEF Queues
  <2> QED BY <2>1, <2>2, <2>3 DEF WakeInv, AnyPushed, Pushed
<1>2. ASSUME NEW i \in Inferiors, Attach(i) PROVE WakeInv'
  <2>1. i \notin attached /\ AttachAmdDbgapi(i) /\ polls = <<>>
        /\ UNCHANGED <<host, resumed, turns, async, file, polls>>
    BY <1>2 DEF Attach, AtEventLoop
  <2>2. /\ attached' = attached \cup {i} /\ UNCHANGED <<library, notified, wave_events>>
        /\ handler' \in {handler, "marked"}
        /\ async /\ Pushed(runtime_state', i) /\ handler = "null" => handler' = "marked"
        /\ \A j \in Inferiors \ {i} : runtime_state'[j] = runtime_state[j]
    BY <2>1, AttachFacts DEF BaseInv
  <2>3. library[i] = <<>> /\ wave_events[i] = 0
    BY <2>1 DEF BaseInv, LibraryInv
  <2>4. Queues' = Queues
    BY <2>2, <2>3 DEF Queues
  <2>5. async /\ AnyPushed(runtime_state') => AnyPushed(runtime_state) \/ handler' = "marked"
    <3>1. AnyPushed(runtime_state') => AnyPushed(runtime_state) \/ Pushed(runtime_state', i)
      BY <2>2 DEF AnyPushed, Pushed
    <3>2. async /\ handler # "null" => AnyPushed(runtime_state)
      BY DEF BaseInv, HandlerInv
    <3> QED BY <2>2, <3>1, <3>2
  <2> QED BY <2>1, <2>2, <2>3, <2>4, <2>5 DEF WakeInv
<1>3. ASSUME NEW i \in Inferiors, Leave(i) PROVE WakeInv'
  <2>1. /\ i \in attached /\ DetachAmdDbgapi(i) /\ polls = <<>> /\ polls' = <<>>
        /\ attached' = attached \ {i} /\ async' = (async /\ attached' # {})
        /\ file' = (file /\ async') /\ UNCHANGED resumed
    BY <1>3 DEF Leave, AtEventLoop, Detach
  <2>2. /\ notified' = notified \ {i}
        /\ runtime_state'[i] = "UNLOADED"
        /\ \A j \in Inferiors \ {i} : /\ library'[j] = library[j]
                                      /\ runtime_state'[j] = runtime_state[j]
                                      /\ wave_events'[j] = wave_events[j]
        /\ handler' # handler => ~AnyPushed(runtime_state')
    BY <2>1, DetachInfoFacts DEF BaseInv
  <2>3. ASSUME async', resumed', NEW j \in attached', library'[j] # <<>>
        PROVE  j \in notified' \/ handler' = "marked" \/ file'
    <3>1. j \in attached /\ j # i /\ j \in Inferiors /\ library[j] # <<>>
      BY <1>t, <2>1, <2>2, <2>3
    <3>2. async /\ resumed
      BY <2>1, <2>3
    <3>3. j \in notified \/ handler = "marked" \/ file
      BY <2>1, <3>1, <3>2 DEF WakeInv
    <3>4. ASSUME handler' # handler PROVE j \in notified
      <4>1. ~Pushed(runtime_state, j)
        BY <2>2, <3>1, <3>4 DEF AnyPushed, Pushed
      <4> QED BY <3>1, <4>1 DEF BaseInv, LibraryInv
    <3> QED BY <2>1, <2>2, <2>3, <3>1, <3>3, <3>4
  <2>4. ASSUME async', resumed', Queues' # {}, AnyPushed(runtime_state')
        PROVE  handler' = "marked" \/ file'
    <3>1. Queues # {} /\ async /\ resumed
      BY <1>t, <2>1, <2>2, <2>4 DEF Queues
    <3>2. AnyPushed(runtime_state) /\ handler' = handler
      BY <2>2, <2>4 DEF AnyPushed, Pushed
    <3> QED BY <2>1, <2>4, <3>1, <3>2 DEF WakeInv
  <2> QED BY <2>1, <2>3, <2>4 DEF WakeInv
<1>4. ASSUME NEW i \in Inferiors, NotifierHandler(i) PROVE WakeInv'
  <2>1. /\ polls = <<>> /\ polls' = <<>> /\ i \in attached
        /\ notified' = notified \ {i}
        /\ UNCHANGED <<attached, wave_events, async, file, resumed>>
        /\ \A j \in Inferiors \ {i} : library'[j] = library[j]
        /\ \/ handler' = "marked"
           \/ /\ library'[i] = <<>> /\ handler' = handler
              /\ async /\ AnyPushed(runtime_state') => AnyPushed(runtime_state)
    BY <1>4, NotifierFacts
  <2>2. CASE handler' = "marked"
    BY <2>1, <2>2 DEF WakeInv
  <2>3. CASE /\ library'[i] = <<>> /\ handler' = handler
             /\ async /\ AnyPushed(runtime_state') => AnyPushed(runtime_state)
    <3>1. \A j \in attached' : library'[j] # <<>> => j # i /\ library[j] # <<>>
      BY <1>t, <2>1, <2>3
    <3>2. Queues' = Queues
      BY <2>1 DEF Queues
    <3> QED BY <2>1, <2>3, <3>1, <3>2 DEF WakeInv
  <2> QED BY <2>1, <2>2, <2>3
<1>5. ASSUME NEW i \in Inferiors, StartFetch(i) PROVE WakeInv'
  <2>1. /\ ToSet(polls') = attached
        /\ UNCHANGED <<attached, library, runtime_state, wave_events>>
    BY <1>5, FetchFacts DEF info, external
  <2>2. polls' = <<>> => attached' = {}
    BY <2>1, NoWatch
  <2>3. \A j \in Inferiors : Pushed(runtime_state, j) => j \in attached
    BY DEF BaseInv, LibraryInv
  <2>4. attached' = {} => Queues' = {}
    BY DEF Queues
  <2>5. \A j \in Inferiors : Pushed(runtime_state', j) => Pushed(runtime_state, j)
    BY <2>1 DEF Pushed
  <2> QED BY <2>1, <2>2, <2>3, <2>4, <2>5 DEF WakeInv
<1>6. CASE HostEvent
  <2>1. /\ file' = TRUE
        /\ UNCHANGED <<library, notified, attached, runtime_state, wave_events, polls>>
    BY <1>6 DEF HostEvent, info
  <2>2. Queues' = Queues
    BY <2>1 DEF Queues
  <2> QED BY <2>1, <2>2 DEF WakeInv, Pushed
<1>7. CASE UserResumes
  <2>1. polls' = <<>> /\ file' = TRUE
    BY <1>7, ResumeBase
  <2> QED BY <2>1 DEF WakeInv
<1>8. CASE Poll
  <2>1. polls # <<>> /\ UNCHANGED turns /\ async
    BY <1>8 DEF Poll, BaseInv, HandlerInv
  <2>2. PICK i \in attached : i = Head(polls) /\ i \in Inferiors
    BY <2>1 DEF BaseInv, TypeInv
  <2>3. CASE PollHost
    <3>1. polls' = <<>> /\ (file' = TRUE \/ ~async')
      <4>1. CASE HostStop
        <5>1. TypeInv /\ Report(runtime_state, handler, TRUE)
          BY <4>1 DEF HostStop, BaseInv
        <5>2. polls' = <<>> /\ (file' = TRUE \/ async' = FALSE)
          BY <5>1, ReportFacts
        <5> QED BY <5>2
      <4>2. ASSUME NEW j \in attached, HostExit(j) PROVE polls' = <<>> /\ (file' = TRUE \/ ~async')
        BY <4>2 DEF HostExit, Detach
      <4>3. ASSUME NEW j \in attached, HostExec(j) PROVE polls' = <<>> /\ file' = TRUE
        BY <4>3 DEF HostExec
      <4>4. ASSUME NEW j \in Inferiors \ attached, HostFork(j) PROVE polls' = <<>> /\ file' = TRUE
        BY <4>4 DEF HostFork
      <4> QED BY <2>3, <4>1, <4>2, <4>3, <4>4 DEF PollHost
    <3> QED BY <3>1 DEF WakeInv
  <2>4. CASE ~Pushed(runtime_state, i) /\ PollBeneath
    <3>1. UNCHANGED <<library, notified, resumed, attached, runtime_state, wave_events>>
      BY <2>4 DEF PollBeneath, external, info
    <3>2. CASE resumed
      <4>1. polls' = Tail(polls)
        BY <2>4, <3>2 DEF PollBeneath
      <4>2. library'[i] # <<>> => i \in notified
        BY <2>2, <2>4, <3>1 DEF BaseInv, LibraryInv
      <4>3. ~Pushed(runtime_state', i)
        BY <2>4, <3>1 DEF Pushed
      <4> QED BY <2>1, <2>2, <3>1, <4>1, <4>2, <4>3, PollNextWake
    <3>3. CASE ~resumed
      <4>1. Report(runtime_state, handler, FALSE)
        BY <2>4, <3>3 DEF PollBeneath
      <4>2. polls' = <<>>
        BY <4>1 DEF Report
      <4> QED BY <3>1, <3>3, <4>2 DEF WakeInv
    <3> QED BY <3>2, <3>3
  <2>5. CASE ConsumeOneEvent
    <3>1. TypeInv /\ Report(runtime_state, "marked", FALSE)
      BY <2>5 DEF ConsumeOneEvent, MoreEvents, Mark, BaseInv
    <3>2. polls' = <<>> /\ (handler' = "marked" \/ async' = FALSE)
      BY <3>1, ReportFacts
    <3> QED BY <3>2 DEF WakeInv
  <2>6. CASE Pushed(runtime_state, i) /\ Queues = {} /\ ProcessEventQueue(i)
    <3>1. /\ library' = [library EXCEPT ![i] = <<>>]
          /\ UNCHANGED <<notified, resumed, attached>>
          /\ \/ FailedInv'
             \/ polls' = <<>> /\ (handler' = "marked" \/ ~async')
             \/ /\ UNCHANGED wave_events
                /\ \/ polls' = Tail(polls)
                   \/ polls' = <<>> /\ ~resumed
      BY <2>1, <2>2, <2>6, QueueFacts
    <3>2. CASE polls' = <<>> /\ (handler' = "marked" \/ ~async' \/ ~resumed)
      BY <3>1, <3>2 DEF WakeInv
    <3>3. CASE UNCHANGED wave_events /\ polls' = Tail(polls)
      <4>1. library'[i] = <<>> /\ \A j \in attached \ {i} : library'[j] = library[j]
        BY <1>t, <2>2, <3>1
      <4>2. \A j \in Inferiors \ {i} : runtime_state'[j] = runtime_state[j]
        BY <2>6 DEF ProcessEventQueue, BaseInv, TypeInv
      <4> QED BY <2>1, <2>2, <2>6, <3>1, <3>3, <4>1, <4>2, PollNextWake
    <3> QED BY <3>1, <3>2, <3>3
  <2> QED BY <1>8, <2>2, <2>3, <2>4, <2>5, <2>6 DEF Poll
<1>9. CASE UNCHANGED vars
  <2>1. Queues' = Queues
    BY <1>9 DEF Queues, vars, info
  <2> QED BY <1>9, <2>1 DEF WakeInv, AnyPushed, Pushed, vars, external, info, eventloop
<1> QED BY <1>1, <1>2, <1>3, <1>4, <1>5, <1>6, <1>7, <1>8, <1>9 DEF Next

\* While a host thread is resumed, every event of an attached inferior, in the
\* library or in wave_events, has something that makes the event loop look at
\* it, if no inferior leaves while the target is not async.
THEOREM NoWakeupLost ==
  ASSUME ~LeaveWhileStopped
  PROVE  Spec => []NoLostWakeupIfResumed
<1>1. Init => WatchInv /\ WakeInv
  BY DEF Init, WatchInv, WakeInv
<1>2. BaseInv /\ WatchInv /\ WakeInv => NoLostWakeupIfResumed
  <2> SUFFICES ASSUME BaseInv, WatchInv, WakeInv, resumed, NEW i \in attached, async,
                      polls = <<>>, HasEvent(i), handler # "marked"
               PROVE  Readable \cap {LinuxFile, i} # {}
    BY DEF NoLostWakeupIfResumed, NoLostWakeup, AtEventLoop, Wakeup
  <2>1. i \in notified \/ file
    BY DEF WakeInv, HasEvent, Queues
  <2>2. i \in Watched /\ LinuxFile \in ToSet(poll_fds)
    BY DEF BaseInv, TypeInv, HandlerInv, WatchInv, Watched
  <2> QED BY <2>1, <2>2 DEF Readable
<1>3. FailedInv => NoLostWakeupIfResumed
  BY DEF FailedInv, NoLostWakeupIfResumed, NoLostWakeup, AtEventLoop
<1>4. FailedInv /\ [Next]_vars => FailedInv'
  BY FailedStep DEF FailedInv, TypeOK, InternalError, AnyPushed, Pushed, vars, external, info,
                    eventloop, turns
<1>5. BaseInv /\ WatchInv /\ WakeInv /\ [Next]_vars
        => (BaseInv /\ WatchInv /\ WakeInv)' \/ FailedInv'
  BY BaseStep, WatchStep, WakeStep DEF Fails
<1> QED BY <1>1, <1>2, <1>3, <1>4, <1>5, InitBase, PTL DEF Spec

=============================================================================
