----------------------------- MODULE EventLoop -----------------------------
(***************************************************************************)
(* GDB's event loop (gdbsupport/event-loop.cc): one call of                *)
(* gdb_do_one_event serves one ready source, the kinds of sources taking   *)
(* turns, and so do the file descriptors among themselves.                 *)
(*                                                                         *)
(* The module keeps the loop's own state and says which source is served;  *)
(* what serving it does is up to the module that extends this one.  Timers *)
(* are a kind of source that is never ready.                               *)
(***************************************************************************)
EXTENDS Integers, Sequences, FiniteSets, SequencesExt

VARIABLES
  poll_fds,             \* gdb_notifier.poll_fds: the descriptors watched
  next_poll_fds_index,  \* where the next search for a readable one begins
  event_source_head     \* the kind of source asked first

turns == <<next_poll_fds_index, event_source_head>>

InitLoop ==
  /\ poll_fds = <<>>
  /\ next_poll_fds_index = 0
  /\ event_source_head = 0

\* The members of a set of numbers, in their order.
InOrder(S) ==
  [k \in 1..Cardinality(S) |-> CHOOSE i \in S : Cardinality({j \in S : j <= i}) = k]

\* add_file_handler of each descriptor of a set, in their order; one that is
\* watched already keeps its place.
AddFileHandlers(fds, new) == fds \o InOrder(new \ ToSet(fds))

\* delete_file_handler.  The index of the next search is left alone, so
\* descriptors move under it.
DeleteFileHandler(fds, fd) ==
  IF fd \in ToSet(fds) THEN RemoveAt(fds, CHOOSE k \in 1..Len(fds) : fds[k] = fd) ELSE fds

\* Bug: every search begins with the first descriptor.
SearchStartFixed == 0

\* Where the search begins, counted from zero: over the end is the start.
SearchStart ==
  IF next_poll_fds_index >= Len(poll_fds) THEN 0 ELSE next_poll_fds_index

\* Of the indices of readable descriptors, the search reaches i first.
FoundFirst(i, readable) ==
  LET indices == {j \in 0 .. Len(poll_fds) - 1 : poll_fds[j + 1] \in readable}
      distance(j) == (j - SearchStart) % Len(poll_fds)
  IN i \in indices /\ \A j \in indices : distance(i) <= distance(j)

\* Kinds of sources: 1 files, 2 asynchronous event handlers
ReadySources(readable, marked) ==
  (IF readable # {} THEN {1} ELSE {}) \cup (IF marked THEN {2} ELSE {})

\* Of the kinds that are ready, the one asked first.
NextSource(ready) ==
  CHOOSE k \in ready : \A j \in ready :
    (k - event_source_head) % 3 <= (j - event_source_head) % 3

\* event_source_head++, modulo the number of sources
PassTurn(k) == event_source_head' = (k + 1) % 3

\* gdb_do_one_event serves descriptor fd, found by its polling, or by the
\* blocking wait it ends in when nothing was ready.
ServeFile(fd, readable, marked) ==
  /\ \E i \in 0 .. Len(poll_fds) - 1 :
       FoundFirst(i, readable) /\ fd = poll_fds[i + 1] /\ next_poll_fds_index' = i + 1
  /\ \/ NextSource(ReadySources(readable, marked)) = 1 /\ PassTurn(1)
     \/ ~marked /\ UNCHANGED event_source_head

\* gdb_do_one_event serves the marked asynchronous event handler.
ServeHandler(readable, marked) ==
  /\ marked
  /\ NextSource(ReadySources(readable, marked)) = 2
  /\ PassTurn(2)
  /\ UNCHANGED next_poll_fds_index

=============================================================================
