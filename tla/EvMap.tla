------------------------------- MODULE EvMap -------------------------------
(***************************************************************************)
(* evmap.c and epoll.c: which events watch a file descriptor, and what the *)
(* kernel is told of it, at once or by a list of changes that is applied   *)
(* before the next wait.  A base is a record; of its fields, this module   *)
(* reads and writes                                                        *)
(*   changelist  TRUE if the list of changes is used,                      *)
(*   count       the number of events for each type, of each descriptor,   *)
(*   list        the events of each descriptor, the last added first,      *)
(*   changes     the list of changes: of each descriptor, one or NoChange, *)
(*   epoll       the kernel's: the types each descriptor is watched for,   *)
(*               {} if it is not registered                                *)
(***************************************************************************)
EXTENDS Integers, Sequences, FiniteSetsExt, SequencesExt

CONSTANTS
  Events,  \* the struct events
  Fds,     \* the file descriptors
  Fd,      \* the descriptor of each event
  What     \* the types each event watches it for; {}: it is a mere timer

Types == {"READ", "WRITE", "CLOSED"}

ASSUME EvMapAssumption ==
  /\ IsFiniteSet(Events) /\ IsFiniteSet(Fds)
  /\ What \in [Events -> SUBSET Types]
  /\ \A e \in Events : What[e] # {} => Fd[e] \in Fds

NoEvents == [t \in Types |-> 0]

\* The descriptor is not on the list of changes.
NoChange == [listed |-> FALSE, old |-> {}, add |-> {}, del |-> {}]

\* Mutant: an epoll_ctl(MOD) of a descriptor that is not registered is not
\* retried as an ADD.
ApplyOnceOnly(watched, ch) ==
  IF ch.add \cup ch.del = {} \/ (ch.old # {} /\ watched = {}) THEN watched
  ELSE ch.add \cup (ch.old \ ch.del)

\* epoll_op_table asks for the types that are watched afterwards.  A MOD of a
\* descriptor that is not registered is retried as an ADD, an ADD of one that is
\* as a MOD, a DEL, when none is left to watch, may find nothing.
ApplyOneChange(watched, ch) ==
  IF ch.add \cup ch.del = {} THEN watched ELSE ch.add \cup (ch.old \ ch.del)

\* epoll_apply_changes() and event_changelist_remove_all_().
ApplyChanges(b) ==
  [b EXCEPT !.changes = [fd \in Fds |-> NoChange],
            !.epoll = [fd \in Fds |-> ApplyOneChange(@[fd], b.changes[fd])]]

\* The change of fd, made where there is none; old is what was watched then.
ChangeOf(b, fd, old) ==
  IF b.changes[fd].listed THEN b.changes[fd]
  ELSE [NoChange EXCEPT !.listed = TRUE, !.old = old]

\* An addition replaces a deletion.
ChangelistAdd(b, fd, old, types) ==
  LET ch == ChangeOf(b, fd, old)
  IN [b EXCEPT !.changes[fd] = [ch EXCEPT !.add = @ \cup types, !.del = @ \ types]]

\* A deletion takes an addition back, and stays if the kernel knows the type.
ChangelistDel(b, fd, old, types) ==
  LET ch == ChangeOf(b, fd, old)
  IN [b EXCEPT !.changes[fd] =
       [ch EXCEPT !.add = @ \ types, !.del = @ \cup (types \cap ch.old)]]

EvselAdd(b, fd, old, types) ==
  IF types = {} THEN b
  ELSE IF b.changelist THEN ChangelistAdd(b, fd, old, types)
  ELSE [b EXCEPT !.epoll[fd] =
         ApplyOneChange(@, [NoChange EXCEPT !.old = old, !.add = types])]

EvselDel(b, fd, old, types) ==
  IF types = {} THEN b
  ELSE IF b.changelist THEN ChangelistDel(b, fd, old, types)
  ELSE [b EXCEPT !.epoll[fd] =
         ApplyOneChange(@, [NoChange EXCEPT !.old = old, !.del = types])]

Watched(b, fd) == {t \in Types : b.count[fd][t] > 0}

\* Mutant: only the first event for a type is counted.
EvmapIoAddFirst(b, e) ==
  LET fd == Fd[e]
      types == {t \in What[e] : b.count[fd][t] = 0}
      added == [b EXCEPT !.count[fd] = [t \in Types |-> IF t \in types THEN 1 ELSE @[t]],
                         !.list[fd] = <<e>> \o @]
  IN EvselAdd(added, fd, Watched(b, fd), types)

EvmapIoAdd(b, e) ==
  LET fd == Fd[e]
      types == {t \in What[e] : b.count[fd][t] = 0}
      added == [b EXCEPT !.count[fd] = [t \in Types |->
                            IF t \in What[e] THEN @[t] + 1 ELSE @[t]],
                         !.list[fd] = <<e>> \o @]
  IN EvselAdd(added, fd, Watched(b, fd), types)

EvmapIoDel(b, e) ==
  LET fd == Fd[e]
      types == {t \in What[e] : b.count[fd][t] = 1}
      deleted == [b EXCEPT !.count[fd] = [t \in Types |->
                              IF t \in What[e] THEN @[t] - 1 ELSE @[t]],
                           !.list[fd] = RemoveFirst(@, e)]
  IN EvselDel(deleted, fd, Watched(b, fd), types)

\* The kernel forgets a descriptor that is closed.
CloseFd(b, fd) == [b EXCEPT !.epoll[fd] = {}]

\* A hangup or an error is reported whatever is watched, as READ and WRITE.
Reported(b, ready, fd) ==
  IF b.epoll[fd] = {} THEN {}
  ELSE IF "HUP" \in ready[fd] THEN {"READ", "WRITE"}
  ELSE ready[fd] \cap b.epoll[fd]
=============================================================================
