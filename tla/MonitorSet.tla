----------------------------- MODULE MonitorSet -----------------------------
(***************************************************************************)
(* The array monitor_fd_set of the two select() servers,                   *)
(* multiplex/server.c and multiplex-routinginfo/routing_server.c, and the  *)
(* five static functions both files define over it, with the same text.    *)
(* The C functions update a global array; here each is an operator from    *)
(* the array before the call to the array after it.                        *)
(***************************************************************************)
EXTENDS Integers

CONSTANT MAX_CLIENT_SUPPORTED    \* the length of the array: 32 in the code

\* main() stores the console and the listening socket before any client.
ASSUME MonitorSetAssumption ==
  MAX_CLIENT_SUPPORTED \in Nat /\ MAX_CLIENT_SUPPORTED >= 2

Slots == 0 .. (MAX_CLIENT_SUPPORTED - 1)
Free  == -1                      \* the content of an unused slot

\* Slot i is the first one, in the order of the loops, that holds fd.
IsFirst(monitor, fd, i) ==
  /\ i \in Slots
  /\ monitor[i] = fd
  /\ \A j \in Slots : j < i => monitor[j] # fd

\* The array with fd written over the first slot that holds old: unchanged
\* when no slot does, which neither C function reports to its caller.
Overwrite(monitor, old, fd) ==
  IF \E i \in Slots : IsFirst(monitor, old, i)
    THEN [monitor EXCEPT ![CHOOSE i \in Slots : IsFirst(monitor, old, i)] = fd]
    ELSE monitor

\* Mutants: no break after the store, no store at all, and a removal that
\* closes the gap in this array only.
AddWithoutBreak(monitor, fd) ==
  [i \in Slots |-> IF monitor[i] = Free THEN fd ELSE monitor[i]]
RemoveNothing(monitor, fd) == monitor
RemoveAndShift(monitor, fd) ==
  LET gap == CHOOSE i \in Slots : IsFirst(monitor, fd, i)
  IN  [i \in Slots |-> IF i < gap THEN monitor[i]
                       ELSE IF i + 1 \in Slots THEN monitor[i + 1] ELSE Free]

init_monitor_fd_set == [i \in Slots |-> Free]
add_monitor_fd_set(monitor, fd)    == Overwrite(monitor, Free, fd)
remove_monitor_fd_set(monitor, fd) == Overwrite(monitor, fd, Free)

Holds(monitor, fd) == \E i \in Slots : monitor[i] = fd

\* The descriptors FD_SET puts into the set that select() gets.
refresh_fd_set(monitor) == {monitor[i] : i \in Slots} \ {Free}

get_max_fd(monitor) ==
  CHOOSE m \in {monitor[i] : i \in Slots} \cup {-1} :
    /\ m >= -1
    /\ \A i \in Slots : monitor[i] <= m

\* Mutant: the largest descriptor itself as the first argument of select().
WatchedBelowMax(monitor) ==
  {fd \in refresh_fd_set(monitor) : fd < get_max_fd(monitor)}

\* select() looks at the descriptors of the set below its first argument.
Watched(monitor) ==
  {fd \in refresh_fd_set(monitor) : fd < get_max_fd(monitor) + 1}

=============================================================================
