-------------------------- MODULE EventLoopProofs --------------------------
(***************************************************************************)
(* The event base of EventLoop, for any events, descriptors, priorities    *)
(* and callbacks that are finalized together: its queues, its counts and   *)
(* what the kernel watches are what the flags of the callbacks say, and no *)
(* callback runs that was deleted or whose memory is freed.                *)
(***************************************************************************)
EXTENDS EventLoop, MinHeapProofs

-----------------------------------------------------------------------------
(* The record.                                                             *)

Changes == [listed : BOOLEAN, old : SUBSET Types, add : SUBSET Types, del : SUBSET Types]
AllFlags == Counted \cup {"FINALIZING"}
Reasons == Types \cup {"TIMEOUT"}

Base ==
  [changelist : BOOLEAN,
   count : [Fds -> [Types -> Int]],
   list : [Fds -> Seq(Events)],
   changes : [Fds -> Changes],
   epoll : [Fds -> SUBSET Types],
   flags : [Callbacks -> SUBSET AllFlags],
   res : [Callbacks -> SUBSET Reasons],
   timeout : [Events -> Int],
   io_timeout : [Events -> Int],
   timeheap : Seq(Events),
   activequeues : [0..NPri - 1 -> Seq(Callbacks)],
   active_later : Seq(Callbacks),
   event_count : Int,
   tv_cache : Int \cup {None},
   running_priority : Int,
   event_continue : BOOLEAN,
   n_deferreds : Int]

Fields ==
  {"changelist", "count", "list", "changes", "epoll", "flags", "res", "timeout",
   "io_timeout", "timeheap", "activequeues", "active_later", "event_count",
   "tv_cache", "running_priority", "event_continue", "n_deferreds"}

\* r is b but for some fields.
Same(b, r, but) == \A f \in Fields \ but : r[f] = b[f]

-----------------------------------------------------------------------------
(* The invariant of a base.                                                *)

With(b, flag) == {c \in Callbacks : flag \in b.flags[c]}
Queued(b, c) == Counted \cap b.flags[c] # {}
Final(b, c) == "FINALIZING" \in b.flags[c]

\* What the flags may be.
Rules(b) ==
  /\ \A d \in Deferreds : "INSERTED" \notin b.flags[d] /\ "TIMEOUT" \notin b.flags[d]
  /\ \A e \in Events : /\ "LATER" \notin b.flags[e]
                       /\ "INSERTED" \in b.flags[e] => What[e] # {}
  /\ \A c \in Callbacks : ~("ACTIVE" \in b.flags[c] /\ "LATER" \in b.flags[c])

Tallied(b) == {p \in Callbacks \X Counted : p[2] \in b.flags[p[1]]}
Tally(b) == b.event_count = Cardinality(Tallied(b))

ActiveIn(b, S) == \A i \in 0..NPri - 1 : Holds(b.activequeues[i], {c \in S : Pri[c] = i})
LaterIn(b, S) == Holds(b.active_later, S)
TimedIn(b, S) == Holds(b.timeheap, S) /\ IsHeap(b.timeheap, b.timeout)

Here(S, fd) == {e \in S : Fd[e] = fd}
Wanting(S, fd, t) == {e \in Here(S, fd) : t \in What[e]}
Mapped(b, S) ==
  \A fd \in Fds : /\ Holds(b.list[fd], Here(S, fd))
                  /\ \A t \in Types : b.count[fd][t] = Cardinality(Wanting(S, fd, t))

\* What the kernel watches a descriptor for is what its events want, or will be
\* after the next changes.
Told(b, fd) ==
  LET ch == b.changes[fd]
  IN IF ch.listed
     THEN /\ b.changelist
          /\ Watched(b, fd) = ch.add \cup (ch.old \ ch.del)
          /\ \/ b.epoll[fd] = ch.old
             \/ b.epoll[fd] = {} /\ ch.old \subseteq ch.add \cup ch.del
     ELSE ch = NoChange /\ b.epoll[fd] = Watched(b, fd)
Kernel(b) == \A fd \in Fds : Told(b, fd)

Good(b) ==
  /\ b \in Base /\ Rules(b) /\ Tally(b) /\ Kernel(b)
  /\ ActiveIn(b, With(b, "ACTIVE"))
  /\ LaterIn(b, With(b, "LATER"))
  /\ TimedIn(b, With(b, "TIMEOUT"))
  /\ Mapped(b, With(b, "INSERTED"))

-----------------------------------------------------------------------------
(* The flags and their count.                                              *)

LEMMA TalliedIs ==
  ASSUME NEW b
  PROVE  {p \in Callbacks \X Counted : Is(b, p[1], p[2])} = Tallied(b)
BY DEF Tallied, Is

LEMMA FiniteCallbacks == IsFiniteSet(Callbacks)
BY EvMapAssumption, EventAssumption, FS_Union DEF Callbacks

LEMMA FiniteTallied ==
  ASSUME NEW b
  PROVE  IsFiniteSet(Tallied(b))
<1>1. IsFiniteSet(Counted)
  <2>1. Counted = ((({} \cup {"INSERTED"}) \cup {"ACTIVE"}) \cup {"LATER"}) \cup {"TIMEOUT"}
    BY DEF Counted
  <2>2. IsFiniteSet({})
    BY FS_EmptySet
  <2>3. IsFiniteSet({} \cup {"INSERTED"})
    BY <2>2, FS_AddElement, Zenon
  <2>4. IsFiniteSet(({} \cup {"INSERTED"}) \cup {"ACTIVE"})
    BY <2>3, FS_AddElement, Zenon
  <2>5. IsFiniteSet((({} \cup {"INSERTED"}) \cup {"ACTIVE"}) \cup {"LATER"})
    BY <2>4, FS_AddElement, Zenon
  <2> QED
    BY <2>1, <2>5, FS_AddElement, Zenon
<1>2. IsFiniteSet(Callbacks \X Counted)
  BY <1>1, FiniteCallbacks, FS_Product
<1>3. Tallied(b) \in SUBSET (Callbacks \X Counted)
  BY DEF Tallied
<1> QED
  BY <1>2, <1>3, FS_Subset

\* r is b with one flag more, or less, of one callback, and the right count.
Raised(b, r, c, flag) ==
  /\ r \in Base /\ Tally(r)
  /\ r.flags = [b.flags EXCEPT ![c] = @ \cup {flag}]
Lowered(b, r, c, flag) ==
  /\ r \in Base /\ Tally(r)
  /\ r.flags = [b.flags EXCEPT ![c] = @ \ {flag}]

LEMMA RaiseIs ==
  ASSUME NEW b \in Base, Tally(b), NEW c \in Callbacks, NEW flag \in Counted,
         flag \notin b.flags[c]
  PROVE  /\ Raised(b, Raise(b, c, flag), c, flag)
         /\ Same(b, Raise(b, c, flag), {"flags", "event_count"})
<1> DEFINE r == Raise(b, c, flag)
           f == [b.flags EXCEPT ![c] = @ \cup {flag}]
<1>1. b.flags \in [Callbacks -> SUBSET AllFlags] /\ b.event_count \in Int
  BY DEF Base
<1>2. f \in [Callbacks -> SUBSET AllFlags]
  BY <1>1 DEF AllFlags
<1>3. r = [b EXCEPT !.flags = f, !.event_count = b.event_count + 1]
  BY DEF Base, Raise
<1>4. r \in Base
  <2> HIDE DEF r, f
  <2>1. b.event_count + 1 \in Int
    BY <1>1
  <2> QED
    BY <1>2, <1>3, <2>1 DEF Base
<1>5. /\ r.flags = f /\ r.event_count = b.event_count + 1
      /\ Same(b, r, {"flags", "event_count"})
  <2> HIDE DEF r, f
  <2> QED
    BY <1>3 DEF Base, Same, Fields
<1>6. Tallied(r) = Tallied(b) \cup {<<c, flag>>} /\ <<c, flag>> \notin Tallied(b)
  <2> HIDE DEF r
  <2> QED
    BY <1>1, <1>5 DEF Tallied
<1>7. Tally(r)
  <2>1. Cardinality(Tallied(b) \cup {<<c, flag>>}) = Cardinality(Tallied(b)) + 1
    BY <1>6, FiniteTallied, FS_AddElement
  <2> QED
    BY <2>1, <1>5, <1>6 DEF Tally
<1> QED
  BY <1>4, <1>5, <1>7 DEF Raised

LEMMA LowerIs ==
  ASSUME NEW b \in Base, Tally(b), NEW c \in Callbacks, NEW flag \in Counted,
         flag \in b.flags[c]
  PROVE  /\ Lowered(b, Lower(b, c, flag), c, flag)
         /\ Same(b, Lower(b, c, flag), {"flags", "event_count"})
<1> DEFINE r == Lower(b, c, flag)
           f == [b.flags EXCEPT ![c] = @ \ {flag}]
<1>1. b.flags \in [Callbacks -> SUBSET AllFlags] /\ b.event_count \in Int
  BY DEF Base
<1>2. f \in [Callbacks -> SUBSET AllFlags]
  BY <1>1 DEF AllFlags
<1>3. r = [b EXCEPT !.flags = f, !.event_count = b.event_count - 1]
  BY DEF Base, Lower
<1>4. r \in Base
  <2> HIDE DEF r, f
  <2>1. b.event_count - 1 \in Int
    BY <1>1
  <2> QED
    BY <1>2, <1>3, <2>1 DEF Base
<1>5. /\ r.flags = f /\ r.event_count = b.event_count - 1
      /\ Same(b, r, {"flags", "event_count"})
  <2> HIDE DEF r, f
  <2> QED
    BY <1>3 DEF Base, Same, Fields
<1>6. Tallied(r) = Tallied(b) \ {<<c, flag>>} /\ <<c, flag>> \in Tallied(b)
  <2> HIDE DEF r
  <2> QED
    BY <1>1, <1>5 DEF Tallied
<1>7. Tally(r)
  <2>1. Cardinality(Tallied(b) \ {<<c, flag>>}) = Cardinality(Tallied(b)) - 1
    BY <1>6, FiniteTallied, FS_RemoveElement
  <2> QED
    BY <2>1, <1>5, <1>6 DEF Tally
<1> QED
  BY <1>4, <1>5, <1>7 DEF Lowered

\* Who has which flag then.
LEMMA RaisedWith ==
  ASSUME NEW b \in Base, NEW r, NEW c \in Callbacks, NEW flag, Raised(b, r, c, flag), NEW g
  PROVE  With(r, g) = IF g = flag THEN With(b, g) \cup {c} ELSE With(b, g)
BY DEF Base, Raised, With

LEMMA LoweredWith ==
  ASSUME NEW b \in Base, NEW r, NEW c \in Callbacks, NEW flag, Lowered(b, r, c, flag), NEW g
  PROVE  With(r, g) = IF g = flag THEN With(b, g) \ {c} ELSE With(b, g)
BY DEF Base, Lowered, With

-----------------------------------------------------------------------------
(* The queues of the active and of the later callbacks.                    *)

\* r is good if b is, and its flags are those of b but for one of c.
Adds(b, r, c, flag) == Good(r) /\ r.flags = [b.flags EXCEPT ![c] = @ \cup {flag}]
Takes(b, r, c, flag) == Good(r) /\ r.flags = [b.flags EXCEPT ![c] = @ \ {flag}]

\* What a step leaves alone stays right.
LEMMA Untouched ==
  ASSUME NEW b, NEW r, NEW but, Same(b, r, but)
  PROVE  /\ {"changelist", "count", "changes", "epoll"} \cap but = {} =>
              (Kernel(b) => Kernel(r))
         /\ {"activequeues"} \cap but = {} => (\A S : ActiveIn(b, S) => ActiveIn(r, S))
         /\ {"active_later"} \cap but = {} => \A S : LaterIn(b, S) => LaterIn(r, S)
         /\ {"timeheap", "timeout"} \cap but = {} => \A S : TimedIn(b, S) => TimedIn(r, S)
         /\ {"list", "count"} \cap but = {} => \A S : Mapped(b, S) => Mapped(r, S)
         /\ {"flags"} \cap but = {} =>
              (r.flags = b.flags /\ Rules(b) => Rules(r))
<1>1. {"changelist", "count", "changes", "epoll"} \cap but = {} => (Kernel(b) => Kernel(r))
  <2> SUFFICES ASSUME {"changelist", "count", "changes", "epoll"} \cap but = {}
               PROVE  Kernel(b) => Kernel(r)
    OBVIOUS
  <2>1. /\ r.changelist = b.changelist /\ r.count = b.count /\ r.changes = b.changes
        /\ r.epoll = b.epoll
    BY DEF Same, Fields
  <2> QED
    BY <2>1 DEF Kernel, Told, Watched
<1>2. {"activequeues"} \cap but = {} => r.activequeues = b.activequeues
  BY DEF Same, Fields
<1>3. {"active_later"} \cap but = {} => r.active_later = b.active_later
  BY DEF Same, Fields
<1>4. {"timeheap", "timeout"} \cap but = {} => r.timeheap = b.timeheap /\ r.timeout = b.timeout
  BY DEF Same, Fields
<1>5. {"list", "count"} \cap but = {} => r.list = b.list /\ r.count = b.count
  BY DEF Same, Fields
<1>6. {"flags"} \cap but = {} => r.flags = b.flags
  BY DEF Same, Fields
<1>7. {"activequeues"} \cap but = {} => (\A S : ActiveIn(b, S) => ActiveIn(r, S))
  BY <1>2 DEF ActiveIn
<1>8. {"active_later"} \cap but = {} => \A S : LaterIn(b, S) => LaterIn(r, S)
  BY <1>3 DEF LaterIn
<1>9. {"timeheap", "timeout"} \cap but = {} => \A S : TimedIn(b, S) => TimedIn(r, S)
  BY <1>4 DEF TimedIn
<1>10. {"list", "count"} \cap but = {} => \A S : Mapped(b, S) => Mapped(r, S)
  BY <1>5 DEF Mapped
<1> QED
  BY <1>1, <1>6, <1>7, <1>8, <1>9, <1>10 DEF Rules

\* The rules for the flags.
MayRaise(b, c, flag) ==
  \/ flag = "ACTIVE" /\ "LATER" \notin b.flags[c]
  \/ flag = "LATER" /\ c \in Deferreds /\ "ACTIVE" \notin b.flags[c]
  \/ flag = "TIMEOUT" /\ c \in Events
  \/ flag = "INSERTED" /\ c \in Events /\ What[c] # {}
  \/ flag = "FINALIZING"

LEMMA RulesRaised ==
  ASSUME NEW b \in Base, Rules(b), NEW c \in Callbacks, NEW flag, MayRaise(b, c, flag),
         NEW r, r.flags = [b.flags EXCEPT ![c] = @ \cup {flag}]
  PROVE  Rules(r)
<1>1. \A x \in Callbacks : r.flags[x] = IF x = c THEN b.flags[x] \cup {flag} ELSE b.flags[x]
  BY DEF Base
<1>2. Events \subseteq Callbacks /\ Deferreds \subseteq Callbacks /\ Events \cap Deferreds = {}
  BY EventAssumption DEF Callbacks
<1>3. ASSUME NEW d \in Deferreds
      PROVE  "INSERTED" \notin r.flags[d] /\ "TIMEOUT" \notin r.flags[d]
  <2>1. "INSERTED" \notin b.flags[d] /\ "TIMEOUT" \notin b.flags[d] /\ d \notin Events
    BY <1>2 DEF Rules
  <2> QED
    BY <2>1, <1>1, <1>2 DEF MayRaise
<1>4. ASSUME NEW e \in Events
      PROVE  "LATER" \notin r.flags[e] /\ ("INSERTED" \in r.flags[e] => What[e] # {})
  <2>1. "LATER" \notin b.flags[e] /\ ("INSERTED" \in b.flags[e] => What[e] # {})
    BY DEF Rules
  <2> QED
    BY <2>1, <1>1, <1>2 DEF MayRaise
<1>5. ASSUME NEW x \in Callbacks PROVE ~("ACTIVE" \in r.flags[x] /\ "LATER" \in r.flags[x])
  <2>1. ~("ACTIVE" \in b.flags[x] /\ "LATER" \in b.flags[x])
    BY DEF Rules
  <2> QED
    BY <2>1, <1>1 DEF MayRaise
<1> QED
  BY <1>3, <1>4, <1>5 DEF Rules

LEMMA RulesLowered ==
  ASSUME NEW b \in Base, Rules(b), NEW c \in Callbacks, NEW flag,
         NEW r, r.flags = [b.flags EXCEPT ![c] = @ \ {flag}]
  PROVE  Rules(r)
<1>1. \A x \in Callbacks : r.flags[x] \subseteq b.flags[x]
  BY DEF Base
<1>2. Events \subseteq Callbacks /\ Deferreds \subseteq Callbacks
  BY DEF Callbacks
<1> QED
  BY <1>1, <1>2 DEF Rules

\* One callback joins the others of its priority, or leaves them.
LEMMA ActiveMore ==
  ASSUME NEW S, S \subseteq Callbacks, NEW b, ActiveIn(b, S), b \in Base,
         NEW c \in Callbacks \ S,
         NEW r, r.activequeues = [b.activequeues EXCEPT ![Pri[c]] = Append(@, c)]
  PROVE  ActiveIn(r, S \cup {c})
<1> SUFFICES ASSUME NEW i \in 0..NPri - 1
             PROVE  Holds(r.activequeues[i], {d \in S \cup {c} : Pri[d] = i})
  BY DEF ActiveIn
<1> DEFINE T == {d \in S : Pri[d] = i}
<1>1. Holds(b.activequeues[i], T)
  BY DEF ActiveIn
<1>2. Pri[c] \in 0..NPri - 1 /\ b.activequeues \in [0..NPri - 1 -> Seq(Callbacks)]
  BY EventAssumption DEF Base
<1>3. CASE Pri[c] = i
  <2>1. r.activequeues[i] = Append(b.activequeues[i], c)
    BY <1>2, <1>3
  <2>2. {d \in S \cup {c} : Pri[d] = i} = T \cup {c} /\ c \notin T
    BY <1>3
  <2> HIDE DEF T
  <2>3. Holds(Append(b.activequeues[i], c), T \cup {c})
    BY <1>1, <2>2, HoldsAppend
  <2> QED
    BY <2>1, <2>2, <2>3
<1>4. CASE Pri[c] # i
  <2>1. r.activequeues[i] = b.activequeues[i]
    BY <1>2, <1>4
  <2>2. {d \in S \cup {c} : Pri[d] = i} = T
    BY <1>4
  <2> QED
    BY <1>1, <2>1, <2>2
<1> QED
  BY <1>3, <1>4

LEMMA ActiveLess ==
  ASSUME NEW S, S \subseteq Callbacks, NEW b, ActiveIn(b, S), b \in Base, NEW c \in S,
         NEW r, r.activequeues = [b.activequeues EXCEPT ![Pri[c]] = RemoveFirst(@, c)]
  PROVE  ActiveIn(r, S \ {c})
<1> SUFFICES ASSUME NEW i \in 0..NPri - 1
             PROVE  Holds(r.activequeues[i], {d \in S \ {c} : Pri[d] = i})
  BY DEF ActiveIn
<1> DEFINE T == {d \in S : Pri[d] = i}
<1>1. Holds(b.activequeues[i], T)
  BY DEF ActiveIn
<1>2. Pri[c] \in 0..NPri - 1 /\ b.activequeues \in [0..NPri - 1 -> Seq(Callbacks)]
  BY EventAssumption DEF Base
<1>3. CASE Pri[c] = i
  <2>1. r.activequeues[i] = RemoveFirst(b.activequeues[i], c)
    BY <1>2, <1>3
  <2>2. {d \in S \ {c} : Pri[d] = i} = T \ {c} /\ c \in T
    BY <1>3
  <2> HIDE DEF T
  <2>3. Holds(RemoveFirst(b.activequeues[i], c), T \ {c})
    BY <1>1, <2>2, HoldsRemove
  <2> QED
    BY <2>1, <2>2, <2>3
<1>4. CASE Pri[c] # i
  <2>1. r.activequeues[i] = b.activequeues[i]
    BY <1>2, <1>4
  <2>2. {d \in S \ {c} : Pri[d] = i} = T
    BY <1>4
  <2> QED
    BY <1>1, <2>1, <2>2
<1> QED
  BY <1>3, <1>4

\* A queue that holds callbacks is a sequence of callbacks.
LEMMA QueueType ==
  ASSUME NEW S, NEW T, S \subseteq T, NEW q, Holds(q, S)
  PROVE  q \in Seq(T)
<1>1. Len(q) \in Nat /\ q \in [1..Len(q) -> S]
  BY SeqIs DEF Holds
<1>2. q \in [1..Len(q) -> T]
  BY <1>1
<1> QED
  BY <1>1, <1>2, ArrayIs

LEMMA ActiveType ==
  ASSUME NEW b, NEW S, S \subseteq Callbacks, ActiveIn(b, S), NEW i \in 0..NPri - 1
  PROVE  b.activequeues[i] \in Seq(Callbacks)
<1>1. {d \in S : Pri[d] = i} \subseteq Callbacks
  OBVIOUS
<1> QED
  BY <1>1, QueueType DEF ActiveIn

\* What else is right after a flag was raised or lowered and the fields but were
\* set, if it was before.
Stays(b, r, flag, but) ==
  /\ Tally(r) /\ Rules(r) /\ Same(b, r, but \cup {"flags", "event_count"})
  /\ {"changelist", "count", "changes", "epoll"} \cap but = {} => Kernel(r)
  /\ {"activequeues"} \cap but = {} /\ flag # "ACTIVE" => ActiveIn(r, With(r, "ACTIVE"))
  /\ {"active_later"} \cap but = {} /\ flag # "LATER" => LaterIn(r, With(r, "LATER"))
  /\ {"timeheap", "timeout"} \cap but = {} /\ flag # "TIMEOUT" =>
       TimedIn(r, With(r, "TIMEOUT"))
  /\ {"list", "count"} \cap but = {} /\ flag # "INSERTED" => Mapped(r, With(r, "INSERTED"))

LEMMA LowerThen ==
  ASSUME NEW b, Good(b), NEW c \in Callbacks, NEW flag \in Counted, flag \in b.flags[c],
         NEW r, NEW but, {"flags", "event_count"} \cap but = {},
         Same(Lower(b, c, flag), r, but)
  PROVE  /\ Stays(b, r, flag, but) /\ r.flags = [b.flags EXCEPT ![c] = @ \ {flag}]
         /\ \A g : With(r, g) = IF g = flag THEN With(b, g) \ {c} ELSE With(b, g)
<1> DEFINE m == Lower(b, c, flag)
<1>1. b \in Base /\ Tally(b) /\ Rules(b) /\ Kernel(b)
  BY DEF Good
<1>2. Lowered(b, m, c, flag) /\ Same(b, m, {"flags", "event_count"}) /\ Same(m, r, but)
  BY <1>1, LowerIs
<1> HIDE DEF m
<1>3. Same(b, r, but \cup {"flags", "event_count"})
  BY <1>2 DEF Same
<1>4. r.flags = m.flags /\ r.event_count = m.event_count
  BY <1>2 DEF Same, Fields
<1>5. Tally(r) /\ r.flags = [b.flags EXCEPT ![c] = @ \ {flag}]
  BY <1>2, <1>4 DEF Lowered, Tally, Tallied
<1>6. Rules(r)
  BY <1>1, <1>5, RulesLowered
<1>7. \A g : With(r, g) = IF g = flag THEN With(b, g) \ {c} ELSE With(b, g)
  BY <1>1, <1>2, <1>4, LoweredWith DEF With
<1>8. /\ ActiveIn(b, With(b, "ACTIVE")) /\ LaterIn(b, With(b, "LATER"))
      /\ TimedIn(b, With(b, "TIMEOUT")) /\ Mapped(b, With(b, "INSERTED"))
  BY DEF Good
<1> DEFINE all == but \cup {"flags", "event_count"}
<1>9. /\ {"changelist", "count", "changes", "epoll"} \cap but = {} =>
           {"changelist", "count", "changes", "epoll"} \cap all = {}
      /\ {"activequeues"} \cap but = {} => {"activequeues"} \cap all = {}
      /\ {"active_later"} \cap but = {} => {"active_later"} \cap all = {}
      /\ {"timeheap", "timeout"} \cap but = {} => {"timeheap", "timeout"} \cap all = {}
      /\ {"list", "count"} \cap but = {} => {"list", "count"} \cap all = {}
  OBVIOUS
<1>10. Same(b, r, all)
  BY <1>3
<1> HIDE DEF all
<1>11. /\ {"changelist", "count", "changes", "epoll"} \cap but = {} => Kernel(r)
       /\ {"activequeues"} \cap but = {} => ActiveIn(r, With(b, "ACTIVE"))
       /\ {"active_later"} \cap but = {} => LaterIn(r, With(b, "LATER"))
       /\ {"timeheap", "timeout"} \cap but = {} => TimedIn(r, With(b, "TIMEOUT"))
       /\ {"list", "count"} \cap but = {} => Mapped(r, With(b, "INSERTED"))
  BY <1>1, <1>8, <1>9, <1>10, Untouched
<1> QED
  BY <1>3, <1>5, <1>6, <1>7, <1>11 DEF Stays

LEMMA RaiseThen ==
  ASSUME NEW b, Good(b), NEW c \in Callbacks, NEW flag \in Counted, flag \notin b.flags[c],
         MayRaise(b, c, flag),
         NEW r, NEW but, {"flags", "event_count"} \cap but = {},
         Same(Raise(b, c, flag), r, but)
  PROVE  /\ Stays(b, r, flag, but) /\ r.flags = [b.flags EXCEPT ![c] = @ \cup {flag}]
         /\ \A g : With(r, g) = IF g = flag THEN With(b, g) \cup {c} ELSE With(b, g)
<1> DEFINE m == Raise(b, c, flag)
<1>1. b \in Base /\ Tally(b) /\ Rules(b) /\ Kernel(b)
  BY DEF Good
<1>2. Raised(b, m, c, flag) /\ Same(b, m, {"flags", "event_count"}) /\ Same(m, r, but)
  BY <1>1, RaiseIs
<1> HIDE DEF m
<1>3. Same(b, r, but \cup {"flags", "event_count"})
  BY <1>2 DEF Same
<1>4. r.flags = m.flags /\ r.event_count = m.event_count
  BY <1>2 DEF Same, Fields
<1>5. Tally(r) /\ r.flags = [b.flags EXCEPT ![c] = @ \cup {flag}]
  BY <1>2, <1>4 DEF Raised, Tally, Tallied
<1>6. Rules(r)
  BY <1>1, <1>5, RulesRaised
<1>7. \A g : With(r, g) = IF g = flag THEN With(b, g) \cup {c} ELSE With(b, g)
  BY <1>1, <1>2, <1>4, RaisedWith DEF With
<1>8. /\ ActiveIn(b, With(b, "ACTIVE")) /\ LaterIn(b, With(b, "LATER"))
      /\ TimedIn(b, With(b, "TIMEOUT")) /\ Mapped(b, With(b, "INSERTED"))
  BY DEF Good
<1> DEFINE all == but \cup {"flags", "event_count"}
<1>9. /\ {"changelist", "count", "changes", "epoll"} \cap but = {} =>
           {"changelist", "count", "changes", "epoll"} \cap all = {}
      /\ {"activequeues"} \cap but = {} => {"activequeues"} \cap all = {}
      /\ {"active_later"} \cap but = {} => {"active_later"} \cap all = {}
      /\ {"timeheap", "timeout"} \cap but = {} => {"timeheap", "timeout"} \cap all = {}
      /\ {"list", "count"} \cap but = {} => {"list", "count"} \cap all = {}
  OBVIOUS
<1>10. Same(b, r, all)
  BY <1>3
<1> HIDE DEF all
<1>11. /\ {"changelist", "count", "changes", "epoll"} \cap but = {} => Kernel(r)
       /\ {"activequeues"} \cap but = {} => ActiveIn(r, With(b, "ACTIVE"))
       /\ {"active_later"} \cap but = {} => LaterIn(r, With(b, "LATER"))
       /\ {"timeheap", "timeout"} \cap but = {} => TimedIn(r, With(b, "TIMEOUT"))
       /\ {"list", "count"} \cap but = {} => Mapped(r, With(b, "INSERTED"))
  BY <1>1, <1>8, <1>9, <1>10, Untouched
<1> QED
  BY <1>3, <1>5, <1>6, <1>7, <1>11 DEF Stays

\* Where the flag is not there, nothing is to do.
LEMMA NoFlag ==
  ASSUME NEW b, Good(b), NEW c \in Callbacks, NEW flag, flag \notin b.flags[c], NEW but
  PROVE  Takes(b, b, c, flag) /\ Same(b, b, but)
<1>1. b.flags \in [Callbacks -> SUBSET AllFlags]
  BY DEF Good, Base
<1>2. b.flags = [b.flags EXCEPT ![c] = @ \ {flag}]
  BY <1>1
<1> QED
  BY <1>2 DEF Takes, Same

LEMMA InsertActiveIs ==
  ASSUME NEW b, Good(b), NEW c \in Callbacks,
         "ACTIVE" \notin b.flags[c], "LATER" \notin b.flags[c]
  PROVE  /\ Adds(b, InsertActive(b, c), c, "ACTIVE")
         /\ Same(b, InsertActive(b, c), {"flags", "event_count", "activequeues"})
<1> DEFINE m == Raise(b, c, "ACTIVE")
           r == InsertActive(b, c)
           q == [b.activequeues EXCEPT ![Pri[c]] = Append(@, c)]
           A == With(b, "ACTIVE")
<1>1. b \in Base /\ Tally(b)
  BY DEF Good
<1>2. m \in Base /\ m.activequeues = b.activequeues
  <2>1. Raised(b, m, c, "ACTIVE") /\ Same(b, m, {"flags", "event_count"})
    BY <1>1, RaiseIs DEF Counted
  <2> QED
    BY <2>1 DEF Raised, Same, Fields
<1>3. r = [m EXCEPT !.activequeues = q]
  BY <1>2 DEF InsertActive, Base
<1>4. q \in [0..NPri - 1 -> Seq(Callbacks)]
  <2>1. Pri[c] \in 0..NPri - 1 /\ b.activequeues \in [0..NPri - 1 -> Seq(Callbacks)]
    BY <1>1, EventAssumption DEF Base
  <2>2. Append(b.activequeues[Pri[c]], c) \in Seq(Callbacks)
    BY <2>1, AppendProperties
  <2> QED
    BY <2>1, <2>2
<1> HIDE DEF r, q
<1>5. r \in Base /\ Same(m, r, {"activequeues"}) /\ r.activequeues = q
  <2> HIDE DEF m
  <2> QED
    BY <1>2, <1>3, <1>4 DEF Base, Same, Fields
<1>6. /\ Stays(b, r, "ACTIVE", {"activequeues"})
      /\ r.flags = [b.flags EXCEPT ![c] = @ \cup {"ACTIVE"}]
      /\ \A g : With(r, g) = IF g = "ACTIVE" THEN With(b, g) \cup {c} ELSE With(b, g)
  <2>1. "ACTIVE" \in Counted /\ {"flags", "event_count"} \cap {"activequeues"} = {}
    BY DEF Counted
  <2> QED
    BY <2>1, <1>5, RaiseThen DEF MayRaise, m
<1>7. ActiveIn(r, With(r, "ACTIVE"))
  <2>1. A \subseteq Callbacks /\ c \notin A /\ ActiveIn(b, A)
    BY DEF With, Good
  <2>2. With(r, "ACTIVE") = A \cup {c}
    BY <1>6
  <2>3. r.activequeues = [b.activequeues EXCEPT ![Pri[c]] = Append(@, c)]
    BY <1>5 DEF q
  <2> HIDE DEF A
  <2>4. c \in Callbacks \ A
    BY <2>1
  <2>5. ActiveIn(r, A \cup {c})
    BY <1>1, <2>1, <2>3, <2>4, ActiveMore
  <2> QED
    BY <2>2, <2>5
<1>8. Good(r)
  BY <1>5, <1>6, <1>7 DEF Stays, Good
<1>9. Same(b, r, {"flags", "event_count", "activequeues"})
  BY <1>6 DEF Stays, Same
<1> QED
  BY <1>6, <1>8, <1>9 DEF Adds, r

LEMMA RemoveActiveIs ==
  ASSUME NEW b, Good(b), NEW c \in Callbacks
  PROVE  /\ Takes(b, RemoveActive(b, c), c, "ACTIVE")
         /\ Same(b, RemoveActive(b, c), {"flags", "event_count", "activequeues", "res"})
<1>0. CASE "ACTIVE" \notin b.flags[c]
  BY <1>0, NoFlag DEF RemoveActive, Is
<1> SUFFICES ASSUME "ACTIVE" \in b.flags[c] PROVE
      /\ Takes(b, RemoveActive(b, c), c, "ACTIVE")
      /\ Same(b, RemoveActive(b, c), {"flags", "event_count", "activequeues", "res"})
  BY <1>0
<1> DEFINE m == Lower(b, c, "ACTIVE")
           r == RemoveActive(b, c)
           q == [b.activequeues EXCEPT ![Pri[c]] = RemoveFirst(@, c)]
           v == [b.res EXCEPT ![c] = {}]
           A == With(b, "ACTIVE")
<1>1. b \in Base /\ Tally(b)
  BY DEF Good
<1>2. m \in Base /\ m.activequeues = b.activequeues /\ m.res = b.res
  <2>1. Lowered(b, m, c, "ACTIVE") /\ Same(b, m, {"flags", "event_count"})
    BY <1>1, LowerIs DEF Counted
  <2> QED
    BY <2>1 DEF Lowered, Same, Fields
<1>3. r = [m EXCEPT !.activequeues = q, !.res = v]
  BY <1>2 DEF RemoveActive, Is, Base
<1>4. A \subseteq Callbacks /\ c \in A /\ ActiveIn(b, A)
  BY DEF With, Good
<1>5. ActiveIn([m EXCEPT !.activequeues = q, !.res = v], A \ {c})
  <2>1. [m EXCEPT !.activequeues = q, !.res = v].activequeues = q
    <3> HIDE DEF m, q, v
    <3> QED
      BY <1>2 DEF Base
  <2> HIDE DEF A
  <2> QED
    BY <1>1, <1>4, <2>1, ActiveLess
<1>6. q \in [0..NPri - 1 -> Seq(Callbacks)] /\ v \in [Callbacks -> SUBSET Reasons]
  <2>1. /\ b.activequeues \in [0..NPri - 1 -> Seq(Callbacks)]
        /\ b.res \in [Callbacks -> SUBSET Reasons]
    BY <1>1 DEF Base
  <2>2. \A i \in 0..NPri - 1 :
          [m EXCEPT !.activequeues = q, !.res = v].activequeues[i] \in Seq(Callbacks)
    <3>1. A \ {c} \subseteq Callbacks
      BY <1>4
    <3> HIDE DEF A, m, q, v
    <3> QED
      BY <1>5, <3>1, ActiveType
  <2>3. [m EXCEPT !.activequeues = q, !.res = v].activequeues = q
    <3> HIDE DEF m, q, v
    <3> QED
      BY <1>2 DEF Base
  <2>4. \A i \in 0..NPri - 1 : q[i] \in Seq(Callbacks)
    <3> HIDE DEF m, q, v
    <3> QED
      BY <2>2, <2>3
  <2> QED
    BY <2>1, <2>4
<1> HIDE DEF r, q, v
<1>7. r \in Base /\ Same(m, r, {"activequeues", "res"})
  <2> HIDE DEF m
  <2> QED
    BY <1>2, <1>3, <1>6 DEF Base, Same, Fields
<1>8. /\ Stays(b, r, "ACTIVE", {"activequeues", "res"})
      /\ r.flags = [b.flags EXCEPT ![c] = @ \ {"ACTIVE"}]
      /\ \A g : With(r, g) = IF g = "ACTIVE" THEN With(b, g) \ {c} ELSE With(b, g)
  <2>1. "ACTIVE" \in Counted /\ {"flags", "event_count"} \cap {"activequeues", "res"} = {}
    BY DEF Counted
  <2> QED
    BY <2>1, <1>7, LowerThen DEF m
<1>9. ActiveIn(r, With(r, "ACTIVE"))
  BY <1>3, <1>5, <1>8
<1>10. Good(r)
  BY <1>7, <1>8, <1>9 DEF Stays, Good
<1>11. Same(b, r, {"flags", "event_count", "activequeues", "res"})
  BY <1>8 DEF Stays, Same
<1> QED
  BY <1>8, <1>10, <1>11 DEF Takes, r

LEMMA InsertLaterIs ==
  ASSUME NEW b, Good(b), NEW c \in Deferreds,
         "ACTIVE" \notin b.flags[c], "LATER" \notin b.flags[c]
  PROVE  /\ Adds(b, InsertLater(b, c), c, "LATER")
         /\ Same(b, InsertLater(b, c), {"flags", "event_count", "active_later"})
<1> DEFINE m == Raise(b, c, "LATER")
           r == InsertLater(b, c)
           q == Append(b.active_later, c)
           L == With(b, "LATER")
<1>1. b \in Base /\ Tally(b) /\ c \in Callbacks
  BY DEF Good, Callbacks
<1>2. m \in Base /\ m.active_later = b.active_later
  <2>1. Raised(b, m, c, "LATER") /\ Same(b, m, {"flags", "event_count"})
    BY <1>1, RaiseIs DEF Counted
  <2> QED
    BY <2>1 DEF Raised, Same, Fields
<1>3. r = [m EXCEPT !.active_later = q]
  BY <1>2 DEF InsertLater, Base
<1>4. q \in Seq(Callbacks)
  <2>1. b.active_later \in Seq(Callbacks)
    BY <1>1 DEF Base
  <2> QED
    BY <1>1, <2>1, AppendProperties
<1>5. Holds(q, L \cup {c})
  <2>1. c \notin L /\ Holds(b.active_later, L)
    BY DEF With, Good, LaterIn
  <2> HIDE DEF L
  <2> QED
    BY <2>1, HoldsAppend
<1> HIDE DEF r, q
<1>6. r \in Base /\ Same(m, r, {"active_later"}) /\ r.active_later = q
  <2> HIDE DEF m
  <2> QED
    BY <1>2, <1>3, <1>4 DEF Base, Same, Fields
<1>7. /\ Stays(b, r, "LATER", {"active_later"})
      /\ r.flags = [b.flags EXCEPT ![c] = @ \cup {"LATER"}]
      /\ \A g : With(r, g) = IF g = "LATER" THEN With(b, g) \cup {c} ELSE With(b, g)
  <2>1. "LATER" \in Counted /\ {"flags", "event_count"} \cap {"active_later"} = {}
    BY DEF Counted
  <2> QED
    BY <2>1, <1>1, <1>6, RaiseThen DEF MayRaise, m
<1>8. LaterIn(r, With(r, "LATER"))
  BY <1>5, <1>6, <1>7 DEF LaterIn
<1>9. Good(r)
  BY <1>6, <1>7, <1>8 DEF Stays, Good
<1>10. Same(b, r, {"flags", "event_count", "active_later"})
  BY <1>7 DEF Stays, Same
<1> QED
  BY <1>7, <1>9, <1>10 DEF Adds, r

LEMMA RemoveLaterIs ==
  ASSUME NEW b, Good(b), NEW c \in Callbacks
  PROVE  /\ Takes(b, RemoveLater(b, c), c, "LATER")
         /\ Same(b, RemoveLater(b, c), {"flags", "event_count", "active_later"})
<1>0. CASE "LATER" \notin b.flags[c]
  BY <1>0, NoFlag DEF RemoveLater, Is
<1> SUFFICES ASSUME "LATER" \in b.flags[c] PROVE
      /\ Takes(b, RemoveLater(b, c), c, "LATER")
      /\ Same(b, RemoveLater(b, c), {"flags", "event_count", "active_later"})
  BY <1>0
<1> DEFINE m == Lower(b, c, "LATER")
           r == RemoveLater(b, c)
           q == RemoveFirst(b.active_later, c)
           L == With(b, "LATER")
<1>1. b \in Base /\ Tally(b)
  BY DEF Good
<1>2. m \in Base /\ m.active_later = b.active_later
  <2>1. Lowered(b, m, c, "LATER") /\ Same(b, m, {"flags", "event_count"})
    BY <1>1, LowerIs DEF Counted
  <2> QED
    BY <2>1 DEF Lowered, Same, Fields
<1>3. r = [m EXCEPT !.active_later = q]
  BY <1>2 DEF RemoveLater, Is, Base
<1>4. Holds(q, L \ {c}) /\ L \ {c} \subseteq Callbacks
  <2>1. c \in L /\ Holds(b.active_later, L) /\ L \subseteq Callbacks
    BY DEF With, Good, LaterIn
  <2> HIDE DEF L
  <2> QED
    BY <2>1, HoldsRemove
<1>5. q \in Seq(Callbacks)
  <2> HIDE DEF q, L
  <2> QED
    BY <1>4, QueueType
<1> HIDE DEF r, q
<1>6. r \in Base /\ Same(m, r, {"active_later"}) /\ r.active_later = q
  <2> HIDE DEF m
  <2> QED
    BY <1>2, <1>3, <1>5 DEF Base, Same, Fields
<1>7. /\ Stays(b, r, "LATER", {"active_later"})
      /\ r.flags = [b.flags EXCEPT ![c] = @ \ {"LATER"}]
      /\ \A g : With(r, g) = IF g = "LATER" THEN With(b, g) \ {c} ELSE With(b, g)
  <2>1. "LATER" \in Counted /\ {"flags", "event_count"} \cap {"active_later"} = {}
    BY DEF Counted
  <2> QED
    BY <2>1, <1>6, LowerThen DEF m
<1>8. LaterIn(r, With(r, "LATER"))
  BY <1>4, <1>6, <1>7 DEF LaterIn
<1>9. Good(r)
  BY <1>6, <1>7, <1>8 DEF Stays, Good
<1>10. Same(b, r, {"flags", "event_count", "active_later"})
  BY <1>7 DEF Stays, Same
<1> QED
  BY <1>7, <1>9, <1>10 DEF Takes, r

-----------------------------------------------------------------------------
(* The timeouts.                                                           *)

LEMMA TimedEvents ==
  ASSUME NEW b, Good(b)
  PROVE  With(b, "TIMEOUT") \in SUBSET Events
BY DEF Good, Rules, With, Callbacks

\* The time of what is not in the heap may be set.
LEMMA HeapOfOthers ==
  ASSUME NEW at \in [Events -> Int], NEW S \in SUBSET Events, NEW heap, Holds(heap, S),
         IsHeap(heap, at), NEW e \in Events \ S, NEW t
  PROVE  IsHeap(heap, [at EXCEPT ![e] = t])
<1>1. Len(heap) \in Nat /\ heap \in [1..Len(heap) -> S]
  BY SeqIs DEF Holds
<1>2. ASSUME NEW k \in 2..Len(heap)
      PROVE  [at EXCEPT ![e] = t][heap[k \div 2]] <= [at EXCEPT ![e] = t][heap[k]]
  <2>1. k \in 1..Len(heap) /\ k \div 2 \in 1..Len(heap)
    BY <1>1, Half
  <2>2. heap[k] \in S /\ heap[k \div 2] \in S
    BY <1>1, <2>1
  <2>3. /\ [at EXCEPT ![e] = t][heap[k]] = at[heap[k]]
        /\ [at EXCEPT ![e] = t][heap[k \div 2]] = at[heap[k \div 2]]
    BY <2>2
  <2> QED
    BY <2>3 DEF IsHeap
<1> QED
  BY <1>2 DEF IsHeap

LEMMA InsertTimeoutIs ==
  ASSUME NEW b, Good(b), NEW e \in Events, "TIMEOUT" \notin b.flags[e], NEW at \in Int
  PROVE  /\ Adds(b, InsertTimeout(b, e, at), e, "TIMEOUT")
         /\ Same(b, InsertTimeout(b, e, at), {"flags", "event_count", "timeout", "timeheap"})
<1> DEFINE m == Raise(b, e, "TIMEOUT")
           r == InsertTimeout(b, e, at)
           times == [b.timeout EXCEPT ![e] = at]
           q == Push(b.timeheap, e, times)
           T == With(b, "TIMEOUT")
<1>1. b \in Base /\ Tally(b) /\ e \in Callbacks
  BY DEF Good, Callbacks
<1>2. m \in Base /\ m.timeheap = b.timeheap /\ m.timeout = b.timeout
  <2>1. Raised(b, m, e, "TIMEOUT") /\ Same(b, m, {"flags", "event_count"})
    BY <1>1, RaiseIs DEF Counted
  <2> QED
    BY <2>1 DEF Raised, Same, Fields
<1>3. r = [m EXCEPT !.timeout = times, !.timeheap = q]
  <2> DEFINE set == [m EXCEPT !.timeout[e] = at]
  <2>1. set = [m EXCEPT !.timeout = times]
    BY <1>2 DEF Base
  <2>2. r = [set EXCEPT !.timeheap = Push(@, e, set.timeout)]
    BY DEF InsertTimeout
  <2> HIDE DEF r, times, m
  <2>3. set.timeout = times /\ set.timeheap = b.timeheap
    BY <2>1, <1>2 DEF Base
  <2>4. r = [set EXCEPT !.timeheap = q]
    <3> HIDE DEF set
    <3>1. r = [set EXCEPT !.timeheap = Push(set.timeheap, e, set.timeout)]
      BY <2>2
    <3> QED
      BY <2>3, <3>1
  <2> HIDE DEF q, set
  <2> QED
    BY <2>1, <2>4, <1>2 DEF Base
<1>4. times \in [Events -> Int]
  BY <1>1 DEF Base
<1>5. /\ Holds(q, T \cup {e}) /\ IsHeap(q, times)
      /\ T \cup {e} \subseteq Events
  <2>1. /\ T \in SUBSET Events /\ e \in Events \ T
        /\ Holds(b.timeheap, T) /\ IsHeap(b.timeheap, b.timeout)
    BY TimedEvents DEF With, Good, TimedIn
  <2> HIDE DEF T
  <2>2. IsHeap(b.timeheap, times)
    BY <1>1, <2>1, HeapOfOthers DEF Base
  <2> HIDE DEF times
  <2> QED
    BY <1>4, <2>1, <2>2, HeapPush
<1>6. q \in Seq(Events)
  <2> HIDE DEF q, T
  <2> QED
    BY <1>5, QueueType
<1> HIDE DEF r, q, times
<1>7. /\ r \in Base /\ Same(m, r, {"timeout", "timeheap"})
      /\ r.timeout = times /\ r.timeheap = q
  <2> HIDE DEF m
  <2> QED
    BY <1>2, <1>3, <1>4, <1>6 DEF Base, Same, Fields
<1>8. /\ Stays(b, r, "TIMEOUT", {"timeout", "timeheap"})
      /\ r.flags = [b.flags EXCEPT ![e] = @ \cup {"TIMEOUT"}]
      /\ \A g : With(r, g) = IF g = "TIMEOUT" THEN With(b, g) \cup {e} ELSE With(b, g)
  <2>1. "TIMEOUT" \in Counted /\ {"flags", "event_count"} \cap {"timeout", "timeheap"} = {}
    BY DEF Counted
  <2> QED
    BY <2>1, <1>1, <1>7, RaiseThen DEF MayRaise, m
<1>9. TimedIn(r, With(r, "TIMEOUT"))
  BY <1>5, <1>7, <1>8 DEF TimedIn
<1>10. Good(r)
  BY <1>7, <1>8, <1>9 DEF Stays, Good
<1>11. Same(b, r, {"flags", "event_count", "timeout", "timeheap"})
  BY <1>8 DEF Stays, Same
<1> QED
  BY <1>8, <1>10, <1>11 DEF Adds, r

LEMMA RemoveTimeoutIs ==
  ASSUME NEW b, Good(b), NEW e \in Events
  PROVE  /\ Takes(b, RemoveTimeout(b, e), e, "TIMEOUT")
         /\ Same(b, RemoveTimeout(b, e), {"flags", "event_count", "timeheap"})
<1>0. e \in Callbacks
  BY DEF Callbacks
<1>00. CASE "TIMEOUT" \notin b.flags[e]
  BY <1>0, <1>00, NoFlag DEF RemoveTimeout, Is
<1> SUFFICES ASSUME "TIMEOUT" \in b.flags[e] PROVE
      /\ Takes(b, RemoveTimeout(b, e), e, "TIMEOUT")
      /\ Same(b, RemoveTimeout(b, e), {"flags", "event_count", "timeheap"})
  BY <1>00
<1> DEFINE m == Lower(b, e, "TIMEOUT")
           r == RemoveTimeout(b, e)
           q == Erase(b.timeheap, e, b.timeout)
           T == With(b, "TIMEOUT")
<1>1. b \in Base /\ Tally(b)
  BY DEF Good
<1>2. m \in Base /\ m.timeheap = b.timeheap /\ m.timeout = b.timeout
  <2>1. Lowered(b, m, e, "TIMEOUT") /\ Same(b, m, {"flags", "event_count"})
    BY <1>0, <1>1, LowerIs DEF Counted
  <2> QED
    BY <2>1 DEF Lowered, Same, Fields
<1>3. r = [m EXCEPT !.timeheap = q]
  <2>1. r = [m EXCEPT !.timeheap = Erase(@, e, b.timeout)]
    BY DEF RemoveTimeout, Is
  <2> HIDE DEF r, m
  <2> QED
    BY <2>1, <1>2 DEF Base
<1>5. /\ Holds(q, T \ {e}) /\ IsHeap(q, b.timeout)
      /\ T \ {e} \subseteq Events
  <2>1. /\ T \in SUBSET Events /\ e \in T /\ Holds(b.timeheap, T)
        /\ IsHeap(b.timeheap, b.timeout) /\ b.timeout \in [Events -> Int]
    BY <1>0, TimedEvents DEF With, Good, TimedIn, Base
  <2> HIDE DEF T
  <2> QED
    BY <2>1, HeapErase
<1>6. q \in Seq(Events)
  <2> HIDE DEF q, T
  <2> QED
    BY <1>5, QueueType
<1> HIDE DEF r, q
<1>7. /\ r \in Base /\ Same(m, r, {"timeheap"}) /\ r.timeheap = q /\ r.timeout = b.timeout
  <2> HIDE DEF m
  <2> QED
    BY <1>2, <1>3, <1>6 DEF Base, Same, Fields
<1>8. /\ Stays(b, r, "TIMEOUT", {"timeheap"})
      /\ r.flags = [b.flags EXCEPT ![e] = @ \ {"TIMEOUT"}]
      /\ \A g : With(r, g) = IF g = "TIMEOUT" THEN With(b, g) \ {e} ELSE With(b, g)
  <2>1. "TIMEOUT" \in Counted /\ {"flags", "event_count"} \cap {"timeheap"} = {}
    BY DEF Counted
  <2> QED
    BY <2>1, <1>0, <1>7, LowerThen DEF m
<1>9. TimedIn(r, With(r, "TIMEOUT"))
  BY <1>5, <1>7, <1>8 DEF TimedIn
<1>10. Good(r)
  BY <1>7, <1>8, <1>9 DEF Stays, Good
<1>11. Same(b, r, {"flags", "event_count", "timeheap"})
  BY <1>8 DEF Stays, Same
<1> QED
  BY <1>8, <1>10, <1>11 DEF Takes, r

-----------------------------------------------------------------------------
(* What the kernel is told.                                                *)

ToldAs(b, fd, watched) ==
  LET ch == b.changes[fd]
  IN IF ch.listed
     THEN /\ b.changelist
          /\ watched = ch.add \cup (ch.old \ ch.del)
          /\ \/ b.epoll[fd] = ch.old
             \/ b.epoll[fd] = {} /\ ch.old \subseteq ch.add \cup ch.del
     ELSE ch = NoChange /\ b.epoll[fd] = watched

LEMMA ToldIs ==
  ASSUME NEW b, NEW fd
  PROVE  Told(b, fd) <=> ToldAs(b, fd, Watched(b, fd))
BY DEF Told, ToldAs

\* r is a, with fd watched for other types.
Tells(a, r, fd, watched) ==
  /\ r \in Base /\ Same(a, r, {"changes", "epoll"}) /\ ToldAs(r, fd, watched)
  /\ \A g \in Fds \ {fd} : r.changes[g] = a.changes[g] /\ r.epoll[g] = a.epoll[g]

LEMMA NewChange ==
  ASSUME NEW a \in Base, NEW fd \in Fds, a.changelist,
         NEW ch \in Changes, ch.listed, NEW old, ToldAs(a, fd, old),
         ch.old = ChangeOf(a, fd, old).old,
         a.changes[fd].listed /\ ch.old \subseteq a.changes[fd].add \cup a.changes[fd].del =>
           ch.old \subseteq ch.add \cup ch.del
  PROVE  Tells(a, [a EXCEPT !.changes[fd] = ch], fd, ch.add \cup (ch.old \ ch.del))
<1> DEFINE c == [a.changes EXCEPT ![fd] = ch]
           r == [a EXCEPT !.changes = c]
<1>1. /\ a.changes \in [Fds -> Changes] /\ a.epoll \in [Fds -> SUBSET Types]
      /\ c \in [Fds -> Changes]
  BY DEF Base
<1>2. [a EXCEPT !.changes[fd] = ch] = r
  BY DEF Base
<1> HIDE DEF c
<1>3. /\ r \in Base /\ Same(a, r, {"changes", "epoll"}) /\ r.changes = c /\ r.epoll = a.epoll
      /\ r.changelist
  BY <1>1 DEF Base, Same, Fields
<1> HIDE DEF r
<1>4. r.changes[fd] = ch /\ \A g \in Fds \ {fd} : r.changes[g] = a.changes[g]
  BY <1>1, <1>3 DEF c
<1>5. \/ r.epoll[fd] = ch.old
      \/ r.epoll[fd] = {} /\ ch.old \subseteq ch.add \cup ch.del
  <2>1. CASE a.changes[fd].listed
    BY <2>1, <1>3 DEF ToldAs, ChangeOf
  <2>2. CASE ~a.changes[fd].listed
    <3>1. a.epoll[fd] = old
      BY <2>2 DEF ToldAs
    <3>2. ch.old = old
      BY <2>2 DEF ChangeOf, NoChange
    <3> QED
      BY <3>1, <3>2, <1>3
  <2> QED
    BY <2>1, <2>2
<1>6. ToldAs(r, fd, ch.add \cup (ch.old \ ch.del))
  BY <1>3, <1>4, <1>5 DEF ToldAs
<1> QED
  BY <1>2, <1>3, <1>4, <1>6 DEF Tells

\* The change there is, or the new one.
LEMMA ChangeOfIs ==
  ASSUME NEW a \in Base, NEW fd \in Fds, NEW old \in SUBSET Types, ToldAs(a, fd, old)
  PROVE  /\ ChangeOf(a, fd, old) \in Changes /\ ChangeOf(a, fd, old).listed
         /\ old = ChangeOf(a, fd, old).add
                    \cup (ChangeOf(a, fd, old).old \ ChangeOf(a, fd, old).del)
         /\ a.changes[fd].listed => ChangeOf(a, fd, old) = a.changes[fd]
<1>1. a.changes[fd] \in Changes
  BY DEF Base
<1>2. CASE a.changes[fd].listed
  BY <1>1, <1>2 DEF ChangeOf, ToldAs
<1>3. CASE ~a.changes[fd].listed
  <2> DEFINE ch == [NoChange EXCEPT !.listed = TRUE, !.old = old]
  <2>1. NoChange \in Changes /\ NoChange.add = {} /\ NoChange.del = {}
    BY DEF NoChange, Changes
  <2>2. ChangeOf(a, fd, old) = ch
    BY <1>3 DEF ChangeOf
  <2>3. ch \in Changes /\ ch.listed /\ ch.add = {} /\ ch.old = old /\ ch.del = {}
    <3> HIDE DEF NoChange
    <3> QED
      BY <2>1 DEF Changes
  <2> HIDE DEF ch
  <2> QED
    BY <1>3, <2>2, <2>3
<1> QED
  BY <1>2, <1>3

\* Without the list of changes the kernel is told at once.
LEMMA ToldAtOnce ==
  ASSUME NEW a \in Base, NEW fd \in Fds, ~a.changelist, NEW old \in SUBSET Types,
         ToldAs(a, fd, old), NEW watched \in SUBSET Types
  PROVE  Tells(a, [a EXCEPT !.epoll[fd] = watched], fd, watched)
<1> DEFINE p == [a.epoll EXCEPT ![fd] = watched]
           r == [a EXCEPT !.epoll = p]
<1>1. a.epoll \in [Fds -> SUBSET Types] /\ p \in [Fds -> SUBSET Types]
  BY DEF Base
<1>2. [a EXCEPT !.epoll[fd] = watched] = r
  BY DEF Base
<1> HIDE DEF p
<1>3. r \in Base /\ Same(a, r, {"changes", "epoll"}) /\ r.changes = a.changes /\ r.epoll = p
  BY <1>1 DEF Base, Same, Fields
<1> HIDE DEF r
<1>4. r.epoll[fd] = watched /\ \A g \in Fds \ {fd} : r.epoll[g] = a.epoll[g]
  BY <1>1, <1>3 DEF p
<1>5. ~a.changes[fd].listed /\ a.changes[fd] = NoChange
  BY DEF ToldAs
<1>6. ToldAs(r, fd, watched)
  BY <1>3, <1>4, <1>5 DEF ToldAs
<1> QED
  BY <1>2, <1>3, <1>4, <1>6 DEF Tells

LEMMA EvselAddIs ==
  ASSUME NEW a \in Base, NEW fd \in Fds, NEW old \in SUBSET Types, ToldAs(a, fd, old),
         NEW types \in SUBSET Types
  PROVE  Tells(a, EvselAdd(a, fd, old, types), fd, old \cup types)
<1>1. CASE types = {}
  BY <1>1 DEF EvselAdd, Tells, Same
<1>2. CASE types # {} /\ a.changelist
  <2> DEFINE co == ChangeOf(a, fd, old)
             ch == [co EXCEPT !.add = @ \cup types, !.del = @ \ types]
  <2>1. /\ co \in Changes /\ co.listed /\ old = co.add \cup (co.old \ co.del)
        /\ a.changes[fd].listed => co = a.changes[fd]
    BY ChangeOfIs
  <2>2. EvselAdd(a, fd, old, types) = [a EXCEPT !.changes[fd] = ch]
    BY <1>2 DEF EvselAdd, ChangelistAdd
  <2> HIDE DEF co
  <2>3. /\ ch \in Changes /\ ch.listed /\ ch.old = co.old /\ ch.add = co.add \cup types
        /\ ch.del = co.del \ types
    BY <2>1 DEF Changes
  <2> HIDE DEF ch
  <2>4. a.changes[fd].listed /\ ch.old \subseteq a.changes[fd].add \cup a.changes[fd].del =>
          ch.old \subseteq ch.add \cup ch.del
    BY <2>1, <2>3
  <2>5. ch.add \cup (ch.old \ ch.del) = old \cup types
    BY <2>1, <2>3
  <2>6. Tells(a, [a EXCEPT !.changes[fd] = ch], fd, ch.add \cup (ch.old \ ch.del))
    BY <1>2, <2>3, <2>4, NewChange DEF co
  <2> QED
    BY <2>2, <2>5, <2>6
<1>3. CASE types # {} /\ ~a.changelist
  <2> DEFINE ch == [NoChange EXCEPT !.old = old, !.add = types]
  <2>1. ch.old = old /\ ch.add = types /\ ch.del = {}
    BY DEF NoChange
  <2>2. EvselAdd(a, fd, old, types) = [a EXCEPT !.epoll[fd] = ApplyOneChange(@, ch)]
    BY <1>3 DEF EvselAdd
  <2> HIDE DEF ch
  <2>3. ApplyOneChange(a.epoll[fd], ch) = old \cup types
    BY <1>3, <2>1 DEF ApplyOneChange
  <2>4. [a EXCEPT !.epoll[fd] = ApplyOneChange(@, ch)] = [a EXCEPT !.epoll[fd] = old \cup types]
    BY <2>3 DEF Base
  <2>5. old \cup types \in SUBSET Types /\ ~a.changelist
    BY <1>3
  <2>6. Tells(a, [a EXCEPT !.epoll[fd] = old \cup types], fd, old \cup types)
    BY <2>5, ToldAtOnce
  <2> QED
    BY <2>2, <2>4, <2>6
<1> QED
  BY <1>1, <1>2, <1>3

LEMMA EvselDelIs ==
  ASSUME NEW a \in Base, NEW fd \in Fds, NEW old \in SUBSET Types, ToldAs(a, fd, old),
         NEW types \in SUBSET old
  PROVE  Tells(a, EvselDel(a, fd, old, types), fd, old \ types)
<1>1. CASE types = {}
  BY <1>1 DEF EvselDel, Tells, Same
<1>2. CASE types # {} /\ a.changelist
  <2> DEFINE co == ChangeOf(a, fd, old)
             ch == [co EXCEPT !.add = @ \ types, !.del = @ \cup (types \cap co.old)]
  <2>1. /\ co \in Changes /\ co.listed /\ old = co.add \cup (co.old \ co.del)
        /\ a.changes[fd].listed => co = a.changes[fd]
    BY ChangeOfIs
  <2>2. EvselDel(a, fd, old, types) = [a EXCEPT !.changes[fd] = ch]
    BY <1>2 DEF EvselDel, ChangelistDel
  <2> HIDE DEF co
  <2>3. /\ ch \in Changes /\ ch.listed /\ ch.old = co.old /\ ch.add = co.add \ types
        /\ ch.del = co.del \cup (types \cap co.old)
    BY <2>1 DEF Changes
  <2> HIDE DEF ch
  <2>4. a.changes[fd].listed /\ ch.old \subseteq a.changes[fd].add \cup a.changes[fd].del =>
          ch.old \subseteq ch.add \cup ch.del
    BY <2>1, <2>3
  <2>5. ch.add \cup (ch.old \ ch.del) = old \ types
    BY <2>1, <2>3
  <2>6. Tells(a, [a EXCEPT !.changes[fd] = ch], fd, ch.add \cup (ch.old \ ch.del))
    BY <1>2, <2>1, <2>3, <2>4, NewChange DEF co
  <2> QED
    BY <2>2, <2>5, <2>6
<1>3. CASE types # {} /\ ~a.changelist
  <2> DEFINE ch == [NoChange EXCEPT !.old = old, !.del = types]
  <2>1. ch.old = old /\ ch.add = {} /\ ch.del = types
    BY DEF NoChange
  <2>2. EvselDel(a, fd, old, types) = [a EXCEPT !.epoll[fd] = ApplyOneChange(@, ch)]
    BY <1>3 DEF EvselDel
  <2> HIDE DEF ch
  <2>3. ApplyOneChange(a.epoll[fd], ch) = old \ types
    BY <1>3, <2>1 DEF ApplyOneChange
  <2>4. [a EXCEPT !.epoll[fd] = ApplyOneChange(@, ch)] = [a EXCEPT !.epoll[fd] = old \ types]
    BY <2>3 DEF Base
  <2>5. old \ types \in SUBSET Types /\ ~a.changelist
    BY <1>3
  <2>6. Tells(a, [a EXCEPT !.epoll[fd] = old \ types], fd, old \ types)
    BY <2>5, ToldAtOnce
  <2> QED
    BY <2>2, <2>4, <2>6
<1> QED
  BY <1>1, <1>2, <1>3

-----------------------------------------------------------------------------
(* The events of a descriptor.                                             *)

LEMMA FiniteWanting ==
  ASSUME NEW S \in SUBSET Events, NEW fd, NEW t
  PROVE  /\ IsFiniteSet(Wanting(S, fd, t)) /\ Cardinality(Wanting(S, fd, t)) \in Nat
         /\ Cardinality(Wanting(S, fd, t)) > 0 <=> \E e \in Here(S, fd) : t \in What[e]
<1>1. Wanting(S, fd, t) \in SUBSET Events
  BY DEF Wanting, Here
<1>2. IsFiniteSet(Wanting(S, fd, t))
  BY <1>1, EvMapAssumption, FS_Subset
<1>3. Cardinality(Wanting(S, fd, t)) \in Nat
  BY <1>2, FS_CardinalityType
<1>4. Cardinality(Wanting(S, fd, t)) = 0 <=> Wanting(S, fd, t) = {}
  BY <1>2, FS_EmptySet
<1>5. Wanting(S, fd, t) # {} <=> \E e \in Here(S, fd) : t \in What[e]
  BY DEF Wanting
<1> QED
  BY <1>2, <1>3, <1>4, <1>5

\* What is watched is what the events want.
LEMMA WatchedIs ==
  ASSUME NEW b, NEW S \in SUBSET Events, Mapped(b, S), NEW fd \in Fds
  PROVE  /\ Watched(b, fd) = UNION {What[e] : e \in Here(S, fd)}
         /\ Watched(b, fd) \in SUBSET Types
         /\ \A t \in Types : b.count[fd][t] \in Nat
<1>1. \A t \in Types : b.count[fd][t] = Cardinality(Wanting(S, fd, t))
  BY DEF Mapped
<1>2. \A t \in Types : /\ b.count[fd][t] \in Nat
                       /\ b.count[fd][t] > 0 <=> \E e \in Here(S, fd) : t \in What[e]
  BY <1>1, FiniteWanting
<1>3. \A e \in Here(S, fd) : What[e] \subseteq Types
  BY EvMapAssumption DEF Here
<1> QED
  BY <1>2, <1>3 DEF Watched

LEMMA MappedMore ==
  ASSUME NEW b, NEW S \in SUBSET Events, Mapped(b, S), b \in Base,
         NEW e \in Events \ S, What[e] # {}, NEW r,
         r.list = [b.list EXCEPT ![Fd[e]] = <<e>> \o @],
         r.count = [b.count EXCEPT ![Fd[e]] = [t \in Types |->
                       IF t \in What[e] THEN @[t] + 1 ELSE @[t]]]
  PROVE  Mapped(r, S \cup {e})
<1> DEFINE T == S \cup {e}
<1>0. /\ Fd[e] \in Fds /\ b.list \in [Fds -> Seq(Events)]
      /\ b.count \in [Fds -> [Types -> Int]]
  BY EvMapAssumption DEF Base
<1>1. ASSUME NEW fd \in Fds PROVE Holds(r.list[fd], Here(T, fd))
  <2>1. Holds(b.list[fd], Here(S, fd))
    BY DEF Mapped
  <2>2. CASE fd = Fd[e]
    <3>1. r.list[fd] = <<e>> \o b.list[fd]
      BY <1>0, <2>2
    <3>2. Here(T, fd) = Here(S, fd) \cup {e} /\ e \notin Here(S, fd)
      BY <2>2 DEF Here
    <3>3. Holds(<<e>> \o b.list[fd], Here(S, fd) \cup {e})
      BY <2>1, <3>2, HoldsPrepend
    <3> QED
      BY <3>1, <3>2, <3>3
  <2>3. CASE fd # Fd[e]
    <3>1. r.list[fd] = b.list[fd] /\ Here(T, fd) = Here(S, fd)
      BY <1>0, <2>3 DEF Here
    <3> QED
      BY <2>1, <3>1
  <2> QED
    BY <2>2, <2>3
<1>2. ASSUME NEW fd \in Fds, NEW t \in Types
      PROVE  r.count[fd][t] = Cardinality(Wanting(T, fd, t))
  <2>1. b.count[fd][t] = Cardinality(Wanting(S, fd, t)) /\ IsFiniteSet(Wanting(S, fd, t))
    BY FiniteWanting DEF Mapped
  <2>2. CASE fd = Fd[e] /\ t \in What[e]
    <3>1. r.count[fd][t] = b.count[fd][t] + 1
      BY <1>0, <2>2
    <3>2. Wanting(T, fd, t) = Wanting(S, fd, t) \cup {e} /\ e \notin Wanting(S, fd, t)
      BY <2>2 DEF Wanting, Here
    <3>3. Cardinality(Wanting(S, fd, t) \cup {e}) = Cardinality(Wanting(S, fd, t)) + 1
      BY <2>1, <3>2, FS_AddElement
    <3> QED
      BY <2>1, <3>1, <3>2, <3>3
  <2>3. CASE ~(fd = Fd[e] /\ t \in What[e])
    <3>1. r.count[fd][t] = b.count[fd][t]
      BY <1>0, <2>3
    <3>2. Wanting(T, fd, t) = Wanting(S, fd, t)
      BY <2>3 DEF Wanting, Here
    <3> QED
      BY <2>1, <3>1, <3>2
  <2> QED
    BY <2>2, <2>3
<1> QED
  BY <1>1, <1>2 DEF Mapped

LEMMA MappedLess ==
  ASSUME NEW b, NEW S \in SUBSET Events, Mapped(b, S), b \in Base,
         NEW e \in S, What[e] # {}, NEW r,
         r.list = [b.list EXCEPT ![Fd[e]] = RemoveFirst(@, e)],
         r.count = [b.count EXCEPT ![Fd[e]] = [t \in Types |->
                       IF t \in What[e] THEN @[t] - 1 ELSE @[t]]]
  PROVE  Mapped(r, S \ {e})
<1> DEFINE T == S \ {e}
<1>0. /\ Fd[e] \in Fds /\ b.list \in [Fds -> Seq(Events)]
      /\ b.count \in [Fds -> [Types -> Int]]
  BY EvMapAssumption DEF Base
<1>1. ASSUME NEW fd \in Fds PROVE Holds(r.list[fd], Here(T, fd))
  <2>1. Holds(b.list[fd], Here(S, fd))
    BY DEF Mapped
  <2>2. CASE fd = Fd[e]
    <3>1. r.list[fd] = RemoveFirst(b.list[fd], e)
      BY <1>0, <2>2
    <3>2. Here(T, fd) = Here(S, fd) \ {e} /\ e \in Here(S, fd)
      BY <2>2 DEF Here
    <3>3. Holds(RemoveFirst(b.list[fd], e), Here(S, fd) \ {e})
      BY <2>1, <3>2, HoldsRemove
    <3> QED
      BY <3>1, <3>2, <3>3
  <2>3. CASE fd # Fd[e]
    <3>1. r.list[fd] = b.list[fd] /\ Here(T, fd) = Here(S, fd)
      BY <1>0, <2>3 DEF Here
    <3> QED
      BY <2>1, <3>1
  <2> QED
    BY <2>2, <2>3
<1>2. ASSUME NEW fd \in Fds, NEW t \in Types
      PROVE  r.count[fd][t] = Cardinality(Wanting(T, fd, t))
  <2>1. b.count[fd][t] = Cardinality(Wanting(S, fd, t)) /\ IsFiniteSet(Wanting(S, fd, t))
    BY FiniteWanting DEF Mapped
  <2>2. CASE fd = Fd[e] /\ t \in What[e]
    <3>1. r.count[fd][t] = b.count[fd][t] - 1
      BY <1>0, <2>2
    <3>2. Wanting(T, fd, t) = Wanting(S, fd, t) \ {e} /\ e \in Wanting(S, fd, t)
      BY <2>2 DEF Wanting, Here
    <3>3. Cardinality(Wanting(S, fd, t) \ {e}) = Cardinality(Wanting(S, fd, t)) - 1
      BY <2>1, <3>2, FS_RemoveElement
    <3> QED
      BY <2>1, <3>1, <3>2, <3>3
  <2>3. CASE ~(fd = Fd[e] /\ t \in What[e])
    <3>1. r.count[fd][t] = b.count[fd][t]
      BY <1>0, <2>3
    <3>2. Wanting(T, fd, t) = Wanting(S, fd, t)
      BY <2>3 DEF Wanting, Here
    <3> QED
      BY <2>1, <3>1, <3>2
  <2> QED
    BY <2>2, <2>3
<1> QED
  BY <1>1, <1>2 DEF Mapped

\* A descriptor is told of, the others stay as they are.
LEMMA KernelTold ==
  ASSUME NEW b, Kernel(b), NEW a, Same(b, a, {"count", "list"}), NEW fd \in Fds,
         NEW r, NEW watched, Tells(a, r, fd, watched),
         Watched(r, fd) = watched,
         \A g \in Fds \ {fd} : r.count[g] = b.count[g]
  PROVE  Kernel(r)
<1> SUFFICES ASSUME NEW g \in Fds PROVE Told(r, g)
  BY DEF Kernel
<1>1. CASE g = fd
  BY <1>1, ToldIs DEF Tells
<1>2. CASE g # fd
  <2>1. Told(b, g)
    BY DEF Kernel
  <2>2. r.changes[g] = b.changes[g] /\ r.epoll[g] = b.epoll[g] /\ r.changelist = b.changelist
    BY <1>2 DEF Tells, Same, Fields
  <2>3. Watched(r, g) = Watched(b, g)
    BY <1>2 DEF Watched
  <2> QED
    BY <2>1, <2>2, <2>3 DEF Told
<1> QED
  BY <1>1, <1>2

LEMMA EvmapIoAddIs ==
  ASSUME NEW b \in Base, Kernel(b), NEW S \in SUBSET Events, Mapped(b, S),
         NEW e \in Events \ S, What[e] # {}
  PROVE  /\ EvmapIoAdd(b, e) \in Base /\ Kernel(EvmapIoAdd(b, e))
         /\ Mapped(EvmapIoAdd(b, e), S \cup {e})
         /\ Same(b, EvmapIoAdd(b, e), {"count", "list", "changes", "epoll"})
<1> DEFINE fd == Fd[e]
           types == {t \in What[e] : b.count[fd][t] = 0}
           c == [b.count EXCEPT ![fd] = [t \in Types |->
                   IF t \in What[e] THEN @[t] + 1 ELSE @[t]]]
           l == [b.list EXCEPT ![fd] = <<e>> \o @]
           a == [b EXCEPT !.count = c, !.list = l]
           r == EvmapIoAdd(b, e)
<1>1. /\ fd \in Fds /\ b.count \in [Fds -> [Types -> Int]] /\ b.list \in [Fds -> Seq(Events)]
      /\ What[e] \subseteq Types
  BY EvMapAssumption DEF Base
<1>2. r = EvselAdd(a, fd, Watched(b, fd), types)
  <2>1. a = [b EXCEPT !.count[fd] = [t \in Types |->
                         IF t \in What[e] THEN @[t] + 1 ELSE @[t]],
                      !.list[fd] = <<e>> \o @]
    BY DEF Base
  <2> QED
    BY <2>1 DEF EvmapIoAdd
<1>3. c \in [Fds -> [Types -> Int]]
  BY <1>1
<1>4. l \in [Fds -> Seq(Events)]
  <2>1. <<e>> \o b.list[fd] \in Seq(Events)
    BY <1>1, ConcatProperties
  <2> QED
    BY <1>1, <2>1
<1>5. \A t \in Types :
        /\ b.count[fd][t] \in Nat
        /\ c[fd][t] = IF t \in What[e] THEN b.count[fd][t] + 1 ELSE b.count[fd][t]
  BY <1>1, WatchedIs
<1>6. \A g \in Fds \ {fd} : c[g] = b.count[g]
  BY <1>1
<1> HIDE DEF c, l, r
<1>7. /\ a \in Base /\ Same(b, a, {"count", "list"}) /\ a.count = c /\ a.list = l
      /\ a.changes = b.changes /\ a.epoll = b.epoll /\ a.changelist = b.changelist
  BY <1>3, <1>4 DEF Base, Same, Fields
<1> HIDE DEF a
<1>8. ToldAs(a, fd, Watched(b, fd)) /\ Watched(b, fd) \in SUBSET Types
  <2>1. Told(b, fd)
    BY <1>1 DEF Kernel
  <2>2. Watched(b, fd) \in SUBSET Types
    BY <1>1, WatchedIs
  <2> QED
    BY <1>7, <2>1, <2>2 DEF Told, ToldAs
<1>9. Tells(a, r, fd, Watched(b, fd) \cup types)
  <2>1. types \in SUBSET Types
    BY <1>1
  <2> HIDE DEF types
  <2> QED
    BY <1>1, <1>2, <1>7, <1>8, <2>1, EvselAddIs
<1>10. r \in Base /\ r.count = c /\ r.list = l /\ Same(b, r, {"count", "list", "changes", "epoll"})
  BY <1>7, <1>9 DEF Tells, Same, Fields
<1>11. Watched(r, fd) = Watched(b, fd) \cup types
  BY <1>1, <1>5, <1>10 DEF Watched
<1>12. Kernel(r)
  <2>1. \A g \in Fds \ {fd} : r.count[g] = b.count[g]
    BY <1>6, <1>10
  <2> HIDE DEF types, fd
  <2> QED
    BY <1>1, <1>7, <1>9, <1>11, <2>1, KernelTold
<1>13. Mapped(r, S \cup {e})
  BY <1>10, MappedMore DEF c, l
<1> QED
  BY <1>10, <1>12, <1>13 DEF r

LEMMA EvmapIoDelIs ==
  ASSUME NEW b \in Base, Kernel(b), NEW S \in SUBSET Events, Mapped(b, S),
         NEW e \in S, What[e] # {}
  PROVE  /\ EvmapIoDel(b, e) \in Base /\ Kernel(EvmapIoDel(b, e))
         /\ Mapped(EvmapIoDel(b, e), S \ {e})
         /\ Same(b, EvmapIoDel(b, e), {"count", "list", "changes", "epoll"})
<1> DEFINE fd == Fd[e]
           types == {t \in What[e] : b.count[fd][t] = 1}
           c == [b.count EXCEPT ![fd] = [t \in Types |->
                   IF t \in What[e] THEN @[t] - 1 ELSE @[t]]]
           l == [b.list EXCEPT ![fd] = RemoveFirst(@, e)]
           a == [b EXCEPT !.count = c, !.list = l]
           r == EvmapIoDel(b, e)
<1>1. /\ fd \in Fds /\ b.count \in [Fds -> [Types -> Int]] /\ b.list \in [Fds -> Seq(Events)]
      /\ What[e] \subseteq Types
  BY EvMapAssumption DEF Base
<1>2. r = EvselDel(a, fd, Watched(b, fd), types)
  <2>1. a = [b EXCEPT !.count[fd] = [t \in Types |->
                         IF t \in What[e] THEN @[t] - 1 ELSE @[t]],
                      !.list[fd] = RemoveFirst(@, e)]
    BY DEF Base
  <2> QED
    BY <2>1 DEF EvmapIoDel
<1>3. c \in [Fds -> [Types -> Int]]
  BY <1>1
<1>4. l \in [Fds -> Seq(Events)]
  <2>1. Holds(b.list[fd], Here(S, fd)) /\ e \in Here(S, fd) /\ Here(S, fd) \ {e} \subseteq Events
    BY <1>1 DEF Mapped, Here
  <2>2. Holds(RemoveFirst(b.list[fd], e), Here(S, fd) \ {e})
    BY <2>1, HoldsRemove
  <2>3. RemoveFirst(b.list[fd], e) \in Seq(Events)
    BY <2>1, <2>2, QueueType
  <2> QED
    BY <1>1, <2>3
<1>5. \A t \in Types : /\ b.count[fd][t] \in Nat
                       /\ c[fd][t] = IF t \in What[e] THEN b.count[fd][t] - 1 ELSE b.count[fd][t]
                       /\ t \in What[e] => b.count[fd][t] > 0
  <2>1. Watched(b, fd) = UNION {What[f] : f \in Here(S, fd)} /\ e \in Here(S, fd)
    BY <1>1, WatchedIs DEF Here
  <2>2. \A t \in What[e] : t \in Watched(b, fd)
    BY <2>1
  <2>3. \A t \in Types : b.count[fd][t] \in Nat
    BY <1>1, WatchedIs
  <2> QED
    BY <1>1, <2>2, <2>3 DEF Watched
<1>6. \A g \in Fds \ {fd} : c[g] = b.count[g]
  BY <1>1
<1> HIDE DEF c, l, r
<1>7. /\ a \in Base /\ Same(b, a, {"count", "list"}) /\ a.count = c /\ a.list = l
      /\ a.changes = b.changes /\ a.epoll = b.epoll /\ a.changelist = b.changelist
  BY <1>3, <1>4 DEF Base, Same, Fields
<1> HIDE DEF a
<1>8. ToldAs(a, fd, Watched(b, fd)) /\ Watched(b, fd) \in SUBSET Types
  <2>1. Told(b, fd)
    BY <1>1 DEF Kernel
  <2>2. Watched(b, fd) \in SUBSET Types
    BY <1>1, WatchedIs
  <2> QED
    BY <1>7, <2>1, <2>2 DEF Told, ToldAs
<1>9. Tells(a, r, fd, Watched(b, fd) \ types)
  <2>1. types \in SUBSET Watched(b, fd)
    BY <1>1, <1>5 DEF Watched
  <2> HIDE DEF types
  <2> QED
    BY <1>1, <1>2, <1>7, <1>8, <2>1, EvselDelIs
<1>10. r \in Base /\ r.count = c /\ r.list = l /\ Same(b, r, {"count", "list", "changes", "epoll"})
  BY <1>7, <1>9 DEF Tells, Same, Fields
<1>11. Watched(r, fd) = Watched(b, fd) \ types
  BY <1>1, <1>5, <1>10 DEF Watched
<1>12. Kernel(r)
  <2>1. \A g \in Fds \ {fd} : r.count[g] = b.count[g]
    BY <1>6, <1>10
  <2> HIDE DEF types, fd
  <2> QED
    BY <1>1, <1>7, <1>9, <1>11, <2>1, KernelTold
<1>13. Mapped(r, S \ {e})
  BY <1>10, MappedLess DEF c, l
<1> QED
  BY <1>10, <1>12, <1>13 DEF r

-----------------------------------------------------------------------------
(* Adding, deleting and activating.                                        *)

\* r is good, and differs from b in the flags of c, to which some of up may be
\* added, and not in what only the loop sets.
Works(b, r, c, up) ==
  /\ Good(r)
  /\ \A d \in Callbacks \ {c} : r.flags[d] = b.flags[d]
  /\ r.flags[c] \subseteq b.flags[c] \cup up
  /\ Final(b, c) => Final(r, c)
  /\ r.running_priority = b.running_priority
  /\ r.tv_cache = b.tv_cache /\ r.event_continue = b.event_continue

LoopFields == {"running_priority", "tv_cache", "event_continue"}

LEMMA WorksNot ==
  ASSUME NEW b, Good(b), NEW c, NEW up
  PROVE  Works(b, b, c, up)
BY DEF Works

LEMMA WorksTwice ==
  ASSUME NEW b, NEW m, NEW r, NEW c, NEW up, Works(b, m, c, up), Works(m, r, c, up)
  PROVE  Works(b, r, c, up)
BY DEF Works

LEMMA AddsWorks ==
  ASSUME NEW b, Good(b), NEW r, NEW c \in Callbacks, NEW flag, Adds(b, r, c, flag),
         NEW but, Same(b, r, but), but \cap LoopFields = {}, NEW up, flag \in up
  PROVE  Works(b, r, c, up)
<1>1. b.flags \in [Callbacks -> SUBSET AllFlags]
  BY DEF Good, Base
<1>2. r.flags = [b.flags EXCEPT ![c] = @ \cup {flag}] /\ Good(r)
  BY DEF Adds
<1>3. /\ r.running_priority = b.running_priority /\ r.tv_cache = b.tv_cache
      /\ r.event_continue = b.event_continue
  BY DEF Same, Fields, LoopFields
<1> QED
  BY <1>1, <1>2, <1>3 DEF Works, Final

LEMMA TakesWorks ==
  ASSUME NEW b, Good(b), NEW r, NEW c \in Callbacks, NEW flag \in Counted,
         Takes(b, r, c, flag),
         NEW but, Same(b, r, but), but \cap LoopFields = {}, NEW up
  PROVE  Works(b, r, c, up)
<1>1. b.flags \in [Callbacks -> SUBSET AllFlags] /\ flag # "FINALIZING"
  BY DEF Good, Base, Counted
<1>2. r.flags = [b.flags EXCEPT ![c] = @ \ {flag}] /\ Good(r)
  BY DEF Takes
<1>3. /\ r.running_priority = b.running_priority /\ r.tv_cache = b.tv_cache
      /\ r.event_continue = b.event_continue
  BY DEF Same, Fields, LoopFields
<1> QED
  BY <1>1, <1>2, <1>3 DEF Works, Final

LEMMA RemoveActiveWorks ==
  ASSUME NEW b, Good(b), NEW c \in Callbacks, NEW up
  PROVE  /\ Works(b, RemoveActive(b, c), c, up)
         /\ RemoveActive(b, c).flags = [b.flags EXCEPT ![c] = @ \ {"ACTIVE"}]
<1>1. /\ "ACTIVE" \in Counted
      /\ {"flags", "event_count", "activequeues", "res"} \cap LoopFields = {}
  BY DEF Counted, LoopFields
<1> QED
  BY <1>1, RemoveActiveIs, TakesWorks DEF Takes

LEMMA RemoveLaterWorks ==
  ASSUME NEW b, Good(b), NEW c \in Callbacks, NEW up
  PROVE  /\ Works(b, RemoveLater(b, c), c, up)
         /\ RemoveLater(b, c).flags = [b.flags EXCEPT ![c] = @ \ {"LATER"}]
<1>1. "LATER" \in Counted /\ {"flags", "event_count", "active_later"} \cap LoopFields = {}
  BY DEF Counted, LoopFields
<1> QED
  BY <1>1, RemoveLaterIs, TakesWorks DEF Takes

LEMMA RemoveTimeoutWorks ==
  ASSUME NEW b, Good(b), NEW e \in Events, NEW up
  PROVE  /\ Works(b, RemoveTimeout(b, e), e, up)
         /\ RemoveTimeout(b, e).flags = [b.flags EXCEPT ![e] = @ \ {"TIMEOUT"}]
<1>1. /\ "TIMEOUT" \in Counted /\ e \in Callbacks
      /\ {"flags", "event_count", "timeheap"} \cap LoopFields = {}
  BY DEF Counted, LoopFields, Callbacks
<1> QED
  BY <1>1, RemoveTimeoutIs, TakesWorks DEF Takes

LEMMA InsertTimeoutWorks ==
  ASSUME NEW b, Good(b), NEW e \in Events, "TIMEOUT" \notin b.flags[e], NEW at \in Int,
         NEW up, "TIMEOUT" \in up
  PROVE  Works(b, InsertTimeout(b, e, at), e, up)
<1>1. /\ e \in Callbacks
      /\ {"flags", "event_count", "timeout", "timeheap"} \cap LoopFields = {}
  BY DEF LoopFields, Callbacks
<1> QED
  BY <1>1, InsertTimeoutIs, AddsWorks

LEMMA CallbackActivateWorks ==
  ASSUME NEW b, Good(b), NEW c \in Callbacks
  PROVE  /\ Works(b, CallbackActivate(b, c), c, {"ACTIVE"})
         /\ ~Final(b, c) => "ACTIVE" \in CallbackActivate(b, c).flags[c]
<1>1. CASE Is(b, c, "FINALIZING") \/ Is(b, c, "ACTIVE")
  BY <1>1, WorksNot DEF CallbackActivate, Is, Final
<1>2. CASE ~(Is(b, c, "FINALIZING") \/ Is(b, c, "ACTIVE"))
  <2> DEFINE m == RemoveLater(b, c)
             r == InsertActive(m, c)
  <2>1. Works(b, m, c, {"ACTIVE"}) /\ m.flags = [b.flags EXCEPT ![c] = @ \ {"LATER"}]
    BY RemoveLaterWorks
  <2>2. Good(m) /\ "ACTIVE" \notin m.flags[c] /\ "LATER" \notin m.flags[c]
    BY <1>2, <2>1 DEF Works, Is, Good, Base
  <2> HIDE DEF m
  <2>3. Adds(m, r, c, "ACTIVE") /\ Same(m, r, {"flags", "event_count", "activequeues"})
    BY <2>2, InsertActiveIs
  <2>4. {"flags", "event_count", "activequeues"} \cap LoopFields = {} /\ "ACTIVE" \in {"ACTIVE"}
    BY DEF LoopFields
  <2> HIDE DEF r
  <2>5. Works(m, r, c, {"ACTIVE"})
    BY <2>2, <2>3, <2>4, AddsWorks
  <2>6. "ACTIVE" \in r.flags[c]
    BY <2>2, <2>3 DEF Adds, Good, Base
  <2>7. CallbackActivate(b, c) = r
    BY <1>2 DEF CallbackActivate, m, r
  <2> QED
    BY <2>1, <2>5, <2>6, <2>7, WorksTwice
<1> QED
  BY <1>1, <1>2

\* The fields no queue and no flag depends on.
Free == {"res", "io_timeout", "tv_cache", "running_priority", "event_continue", "n_deferreds"}

LEMMA GoodStill ==
  ASSUME NEW b, Good(b), NEW r \in Base, Same(b, r, Free)
  PROVE  Good(r) /\ r.flags = b.flags
<1>1. r.flags = b.flags /\ r.event_count = b.event_count
  BY DEF Same, Fields, Free
<1>2. \A g : With(r, g) = With(b, g)
  BY <1>1 DEF With
<1>3. Tally(r) /\ Rules(r)
  BY <1>1 DEF Good, Tally, Tallied, Rules
<1>4. /\ {"changelist", "count", "changes", "epoll"} \cap Free = {}
      /\ {"activequeues"} \cap Free = {} /\ {"active_later"} \cap Free = {}
      /\ {"timeheap", "timeout"} \cap Free = {} /\ {"list", "count"} \cap Free = {}
  BY DEF Free
<1>5. /\ Kernel(b) /\ ActiveIn(b, With(b, "ACTIVE")) /\ LaterIn(b, With(b, "LATER"))
      /\ TimedIn(b, With(b, "TIMEOUT")) /\ Mapped(b, With(b, "INSERTED"))
  BY DEF Good
<1>6. /\ Kernel(r) /\ ActiveIn(r, With(b, "ACTIVE")) /\ LaterIn(r, With(b, "LATER"))
      /\ TimedIn(r, With(b, "TIMEOUT")) /\ Mapped(r, With(b, "INSERTED"))
  BY <1>4, <1>5, Untouched
<1> QED
  BY <1>1, <1>2, <1>3, <1>6 DEF Good

\* Setting them.
LEMMA SetFree ==
  ASSUME NEW b, Good(b)
  PROVE  /\ \A v \in [Callbacks -> SUBSET Reasons] :
              /\ [b EXCEPT !.res = v] \in Base /\ Same(b, [b EXCEPT !.res = v], Free)
              /\ Same(b, [b EXCEPT !.res = v], {"res"})
         /\ \A v \in [Events -> Int] :
              /\ [b EXCEPT !.io_timeout = v] \in Base
              /\ Same(b, [b EXCEPT !.io_timeout = v], {"io_timeout"})
         /\ \A v \in Int :
              /\ [b EXCEPT !.n_deferreds = v] \in Base
              /\ Same(b, [b EXCEPT !.n_deferreds = v], {"n_deferreds"})
BY DEF Good, Base, Same, Fields, Free

LEMMA AddIoWorks ==
  ASSUME NEW b, Good(b), NEW e \in Events, NEW up, "INSERTED" \in up
  PROVE  /\ Works(b, AddIo(b, e), e, up)
         /\ "TIMEOUT" \in AddIo(b, e).flags[e] => "TIMEOUT" \in b.flags[e]
<1>1. CASE What[e] = {} \/ Pending(b, e)
  BY <1>1, WorksNot DEF AddIo
<1>2. CASE ~(What[e] = {} \/ Pending(b, e))
  <2> DEFINE S == With(b, "INSERTED")
             m == EvmapIoAdd(b, e)
             r == Raise(m, e, "INSERTED")
  <2>1. /\ b \in Base /\ Tally(b) /\ Kernel(b) /\ Rules(b) /\ Mapped(b, S) /\ e \in Callbacks
        /\ S \in SUBSET Events /\ e \in Events \ S /\ What[e] # {}
        /\ "INSERTED" \notin b.flags[e]
    BY <1>2 DEF Good, Callbacks, With, Rules, Pending, Is
  <2>2. /\ m \in Base /\ Kernel(m) /\ Mapped(m, S \cup {e})
        /\ Same(b, m, {"count", "list", "changes", "epoll"})
    <3> HIDE DEF S
    <3> QED
      BY <2>1, EvmapIoAddIs
  <2> HIDE DEF m
  <2>3. m.flags = b.flags /\ m.event_count = b.event_count
    BY <2>2 DEF Same, Fields
  <2>4. Tally(m)
    BY <2>1, <2>3 DEF Tally, Tallied
  <2>5. Raised(m, r, e, "INSERTED") /\ Same(m, r, {"flags", "event_count"})
    BY <2>1, <2>2, <2>3, <2>4, RaiseIs DEF Counted
  <2> HIDE DEF r
  <2>6. r \in Base /\ Tally(r) /\ r.flags = [b.flags EXCEPT ![e] = @ \cup {"INSERTED"}]
    BY <2>3, <2>5 DEF Raised
  <2>7. Rules(r)
    BY <2>1, <2>6, RulesRaised DEF MayRaise
  <2>8. \A g : With(r, g) = IF g = "INSERTED" THEN With(b, g) \cup {e} ELSE With(b, g)
    BY <2>1, <2>6 DEF With, Base
  <2>9. Kernel(r) /\ Mapped(r, S \cup {e})
    <3>1. /\ {"changelist", "count", "changes", "epoll"} \cap {"flags", "event_count"} = {}
          /\ {"list", "count"} \cap {"flags", "event_count"} = {}
      OBVIOUS
    <3> QED
      BY <2>2, <2>5, <3>1, Untouched
  <2> DEFINE but == {"count", "list", "changes", "epoll", "flags", "event_count"}
  <2>10. Same(b, r, but)
    BY <2>2, <2>5 DEF Same
  <2>11. /\ ActiveIn(r, With(b, "ACTIVE")) /\ LaterIn(r, With(b, "LATER"))
         /\ TimedIn(r, With(b, "TIMEOUT"))
    <3>1. /\ {"activequeues"} \cap but = {} /\ {"active_later"} \cap but = {}
          /\ {"timeheap", "timeout"} \cap but = {}
      OBVIOUS
    <3>2. /\ ActiveIn(b, With(b, "ACTIVE")) /\ LaterIn(b, With(b, "LATER"))
          /\ TimedIn(b, With(b, "TIMEOUT"))
      BY DEF Good
    <3> HIDE DEF but
    <3> QED
      BY <2>10, <3>1, <3>2, Untouched
  <2>12. Good(r)
    BY <2>6, <2>7, <2>8, <2>9, <2>11 DEF Good
  <2>13. Adds(b, r, e, "INSERTED") /\ but \cap LoopFields = {}
    BY <2>6, <2>12 DEF Adds, LoopFields
  <2>14. Works(b, r, e, up)
    <3> HIDE DEF but
    <3> QED
      BY <2>1, <2>10, <2>13, AddsWorks
  <2>15. AddIo(b, e) = r
    BY <1>2 DEF AddIo, r, m
  <2>16. "TIMEOUT" \in r.flags[e] => "TIMEOUT" \in b.flags[e]
    BY <2>1, <2>6 DEF Base
  <2> QED
    BY <2>14, <2>15, <2>16
<1> QED
  BY <1>1, <1>2

LEMMA AddTimeoutWorks ==
  ASSUME NEW b, Good(b), NEW e \in Events, NEW at \in Int, NEW up, "TIMEOUT" \in up
  PROVE  Works(b, AddTimeout(b, e, at), e, up)
<1> DEFINE removed == RemoveTimeout(b, e)
           quiet == IF "TIMEOUT" \in b.res[e] THEN RemoveActive(removed, e) ELSE removed
<1>0. e \in Callbacks
  BY DEF Callbacks
<1>1. Works(b, removed, e, up) /\ removed.flags = [b.flags EXCEPT ![e] = @ \ {"TIMEOUT"}]
  BY RemoveTimeoutWorks
<1> HIDE DEF removed
<1>2. Good(removed) /\ "TIMEOUT" \notin removed.flags[e]
  BY <1>0, <1>1 DEF Works, Good, Base
<1>3. Works(removed, quiet, e, up) /\ "TIMEOUT" \notin quiet.flags[e]
  <2>1. /\ Works(removed, RemoveActive(removed, e), e, up)
        /\ RemoveActive(removed, e).flags = [removed.flags EXCEPT ![e] = @ \ {"ACTIVE"}]
    BY <1>0, <1>2, RemoveActiveWorks
  <2>2. "TIMEOUT" \notin RemoveActive(removed, e).flags[e]
    BY <1>0, <1>2, <2>1 DEF Good, Base
  <2> QED
    BY <1>2, <2>1, <2>2, WorksNot
<1> HIDE DEF quiet
<1>4. Works(quiet, InsertTimeout(quiet, e, at), e, up)
  BY <1>3, InsertTimeoutWorks DEF Works
<1>5. AddTimeout(b, e, at) = InsertTimeout(quiet, e, at)
  BY DEF AddTimeout, quiet, removed
<1> QED
  BY <1>1, <1>3, <1>4, <1>5, WorksTwice

LEMMA EventAddWorks ==
  ASSUME NEW b, Good(b), NEW e \in Events, NEW tv \in Delays[e] \cup {None}
  PROVE  /\ Works(b, EventAdd(b, e, tv), e, {"INSERTED", "TIMEOUT"})
         /\ Final(b, e) => EventAdd(b, e, tv) = b
<1> DEFINE up == {"INSERTED", "TIMEOUT"}
           added == AddIo(b, e)
           remembers == IF e \in Persist THEN [added EXCEPT !.io_timeout[e] = tv] ELSE added
<1>1. CASE Is(b, e, "FINALIZING")
  BY <1>1, WorksNot DEF EventAdd
<1>2. CASE ~Is(b, e, "FINALIZING") /\ tv = None
  BY <1>2, AddIoWorks DEF EventAdd, Final, Is
<1>3. CASE ~Is(b, e, "FINALIZING") /\ tv # None
  <2>1. tv \in Int /\ Now(b) \in Int
    BY <1>3, EventAssumption DEF Now, Good, Base
  <2>2. Works(b, added, e, up)
    BY AddIoWorks
  <2> HIDE DEF added
  <2>3. Works(added, remembers, e, up)
    <3>1. CASE e \in Persist
      <4> DEFINE v == [added.io_timeout EXCEPT ![e] = tv]
      <4>1. Good(added) /\ added \in Base /\ v \in [Events -> Int]
        BY <2>1, <2>2 DEF Works, Good, Base
      <4>2. [added EXCEPT !.io_timeout[e] = tv] = [added EXCEPT !.io_timeout = v]
        BY <4>1 DEF Base
      <4> HIDE DEF v
      <4> DEFINE r == [added EXCEPT !.io_timeout = v]
      <4>3. r \in Base /\ Same(added, r, {"io_timeout"})
        BY <4>1, SetFree
      <4> HIDE DEF r
      <4>4. Good(r) /\ r.flags = added.flags
        <5>1. Same(added, r, Free)
          BY <4>3 DEF Same, Free
        <5> QED
          BY <4>1, <4>3, <5>1, GoodStill
      <4>5. Works(added, r, e, up)
        BY <4>3, <4>4 DEF Works, Same, Fields, Final
      <4> QED
        BY <3>1, <4>2, <4>5 DEF r
    <3>2. CASE e \notin Persist
      BY <2>2, <3>2, WorksNot DEF Works
    <3> QED
      BY <3>1, <3>2
  <2> HIDE DEF remembers
  <2>4. Works(remembers, AddTimeout(remembers, e, Now(b) + tv), e, up)
    <3>1. Good(remembers) /\ Now(b) + tv \in Int /\ "TIMEOUT" \in up
      BY <2>1, <2>3 DEF Works
    <3> QED
      BY <3>1, AddTimeoutWorks
  <2>5. EventAdd(b, e, tv) = AddTimeout(remembers, e, Now(b) + tv)
    BY <1>3 DEF EventAdd, remembers, added
  <2>6. Works(b, EventAdd(b, e, tv), e, up)
    BY <2>2, <2>3, <2>4, <2>5, WorksTwice
  <2> QED
    BY <1>3, <2>6 DEF Final, Is
<1> QED
  BY <1>1, <1>2, <1>3

\* An event off the map.
LEMMA UninsertWorks ==
  ASSUME NEW b, Good(b), NEW e \in Events, "INSERTED" \in b.flags[e], NEW up
  PROVE  /\ Works(b, EvmapIoDel(Lower(b, e, "INSERTED"), e), e, up)
         /\ EvmapIoDel(Lower(b, e, "INSERTED"), e).flags
              = [b.flags EXCEPT ![e] = @ \ {"INSERTED"}]
<1> DEFINE S == With(b, "INSERTED")
           m == Lower(b, e, "INSERTED")
           r == EvmapIoDel(m, e)
<1>1. /\ b \in Base /\ Tally(b) /\ Kernel(b) /\ Rules(b) /\ Mapped(b, S) /\ e \in Callbacks
      /\ S \in SUBSET Events /\ e \in S /\ What[e] # {}
  BY DEF Good, Callbacks, With, Rules
<1>2. Lowered(b, m, e, "INSERTED") /\ Same(b, m, {"flags", "event_count"})
  BY <1>1, LowerIs DEF Counted
<1> HIDE DEF m
<1>3. m \in Base /\ Tally(m) /\ m.flags = [b.flags EXCEPT ![e] = @ \ {"INSERTED"}]
  BY <1>2 DEF Lowered
<1>4. Kernel(m) /\ Mapped(m, S)
  <2>1. /\ {"changelist", "count", "changes", "epoll"} \cap {"flags", "event_count"} = {}
        /\ {"list", "count"} \cap {"flags", "event_count"} = {}
    OBVIOUS
  <2> QED
    BY <1>1, <1>2, <2>1, Untouched
<1>5. /\ r \in Base /\ Kernel(r) /\ Mapped(r, S \ {e})
      /\ Same(m, r, {"count", "list", "changes", "epoll"})
  <2> HIDE DEF S, r
  <2> QED
    BY <1>1, <1>3, <1>4, EvmapIoDelIs DEF r
<1> HIDE DEF r
<1>6. r.flags = m.flags /\ r.event_count = m.event_count
  BY <1>5 DEF Same, Fields
<1>7. Tally(r) /\ Rules(r)
  <2>1. Tally(r)
    BY <1>3, <1>6 DEF Tally, Tallied
  <2> QED
    BY <1>1, <1>3, <1>6, <2>1, RulesLowered
<1>8. \A g : With(r, g) = IF g = "INSERTED" THEN With(b, g) \ {e} ELSE With(b, g)
  BY <1>1, <1>3, <1>6 DEF With, Base
<1> DEFINE but == {"count", "list", "changes", "epoll", "flags", "event_count"}
<1>9. Same(b, r, but)
  BY <1>2, <1>5 DEF Same
<1>10. /\ ActiveIn(r, With(b, "ACTIVE")) /\ LaterIn(r, With(b, "LATER"))
       /\ TimedIn(r, With(b, "TIMEOUT"))
  <2>1. /\ {"activequeues"} \cap but = {} /\ {"active_later"} \cap but = {}
        /\ {"timeheap", "timeout"} \cap but = {}
    OBVIOUS
  <2>2. /\ ActiveIn(b, With(b, "ACTIVE")) /\ LaterIn(b, With(b, "LATER"))
        /\ TimedIn(b, With(b, "TIMEOUT"))
    BY DEF Good
  <2> HIDE DEF but
  <2> QED
    BY <1>9, <2>1, <2>2, Untouched
<1>11. Good(r)
  BY <1>5, <1>7, <1>8, <1>10 DEF Good
<1>12. Takes(b, r, e, "INSERTED") /\ but \cap LoopFields = {} /\ "INSERTED" \in Counted
  BY <1>3, <1>6, <1>11 DEF Takes, LoopFields, Counted
<1>13. Works(b, r, e, up)
  <2> HIDE DEF but
  <2> QED
    BY <1>1, <1>9, <1>12, TakesWorks
<1> QED
  BY <1>3, <1>6, <1>13 DEF r, m

\* What is deleted is on no queue.
LEMMA EventDelWorks ==
  ASSUME NEW b, Good(b), NEW c \in Callbacks
  PROVE  /\ Works(b, EventDel(b, c), c, {})
         /\ ~Final(b, c) => ~Queued(EventDel(b, c), c)
         /\ Final(b, c) => EventDel(b, c) = b
<1>1. CASE Is(b, c, "FINALIZING")
  BY <1>1, WorksNot DEF EventDel, Is, Final
<1>2. CASE ~Is(b, c, "FINALIZING") /\ c \in Deferreds
  <2> DEFINE m == RemoveLater(b, c)
             r == RemoveActive(m, c)
  <2>1. Works(b, m, c, {}) /\ m.flags = [b.flags EXCEPT ![c] = @ \ {"LATER"}]
    BY RemoveLaterWorks
  <2> HIDE DEF m
  <2>2. Good(m)
    BY <2>1 DEF Works
  <2>3. Works(m, r, c, {}) /\ r.flags = [m.flags EXCEPT ![c] = @ \ {"ACTIVE"}]
    BY <2>2, RemoveActiveWorks
  <2>4. EventDel(b, c) = r
    BY <1>2 DEF EventDel, r, m
  <2> HIDE DEF r
  <2>5. b.flags \in [Callbacks -> SUBSET AllFlags] /\ m.flags \in [Callbacks -> SUBSET AllFlags]
    BY <2>2 DEF Good, Base
  <2>6. "INSERTED" \notin b.flags[c] /\ "TIMEOUT" \notin b.flags[c]
    BY <1>2 DEF Good, Rules
  <2>7. r.flags[c] = (b.flags[c] \ {"LATER"}) \ {"ACTIVE"}
    BY <2>1, <2>3, <2>5
  <2>8. ~Queued(r, c)
    BY <2>6, <2>7 DEF Queued, Counted
  <2>9. Works(b, r, c, {})
    BY <2>1, <2>3, WorksTwice
  <2> QED
    BY <1>2, <2>4, <2>8, <2>9 DEF Final, Is
<1>3. CASE ~Is(b, c, "FINALIZING") /\ c \notin Deferreds
  <2> DEFINE m == RemoveTimeout(b, c)
             q == RemoveActive(m, c)
             d == EvmapIoDel(Lower(q, c, "INSERTED"), c)
             r == IF Is(b, c, "INSERTED") THEN d ELSE q
  <2>0. c \in Events
    BY <1>3 DEF Callbacks
  <2>1. Works(b, m, c, {}) /\ m.flags = [b.flags EXCEPT ![c] = @ \ {"TIMEOUT"}]
    BY <2>0, RemoveTimeoutWorks
  <2> HIDE DEF m
  <2>2. Good(m)
    BY <2>1 DEF Works
  <2>3. Works(m, q, c, {}) /\ q.flags = [m.flags EXCEPT ![c] = @ \ {"ACTIVE"}]
    BY <2>2, RemoveActiveWorks
  <2> HIDE DEF q
  <2>4. Good(q)
    BY <2>3 DEF Works
  <2>5. Works(q, r, c, {}) /\ r.flags = [q.flags EXCEPT ![c] = @ \ {"INSERTED"}]
    <3>0. "INSERTED" \in q.flags[c] <=> "INSERTED" \in b.flags[c]
      BY <2>1, <2>2, <2>3 DEF Good, Base
    <3>1. CASE Is(b, c, "INSERTED")
      <4>1. "INSERTED" \in q.flags[c]
        BY <3>0, <3>1 DEF Is
      <4>2. Works(q, d, c, {}) /\ d.flags = [q.flags EXCEPT ![c] = @ \ {"INSERTED"}]
        BY <2>0, <2>4, <4>1, UninsertWorks
      <4> QED
        BY <3>1, <4>2
    <3>2. CASE ~Is(b, c, "INSERTED")
      BY <2>4, <3>0, <3>2, WorksNot, NoFlag DEF Takes, Is
    <3> QED
      BY <3>1, <3>2
  <2>6. EventDel(b, c) = r
    BY <1>3 DEF EventDel, r, q, m
  <2> HIDE DEF r
  <2>7. /\ b.flags \in [Callbacks -> SUBSET AllFlags] /\ m.flags \in [Callbacks -> SUBSET AllFlags]
        /\ q.flags \in [Callbacks -> SUBSET AllFlags]
    BY <2>2, <2>4 DEF Good, Base
  <2>8. "LATER" \notin b.flags[c]
    BY <2>0 DEF Good, Rules
  <2>9. r.flags[c] = ((b.flags[c] \ {"TIMEOUT"}) \ {"ACTIVE"}) \ {"INSERTED"}
    BY <2>1, <2>3, <2>5, <2>7
  <2>10. ~Queued(r, c)
    BY <2>8, <2>9 DEF Queued, Counted
  <2>11. Works(b, r, c, {})
    BY <2>1, <2>3, <2>5, WorksTwice
  <2> QED
    BY <1>3, <2>6, <2>10, <2>11 DEF Final, Is
<1> QED
  BY <1>1, <1>2, <1>3

\* r is good, and of its callbacks only e may have been activated, which the loop
\* is told of if it goes before the running one.
Activates(b, r, e) ==
  /\ Good(r)
  /\ \A d \in Callbacks \ {e} : r.flags[d] = b.flags[d]
  /\ r.flags[e] \subseteq b.flags[e] \cup {"ACTIVE"}
  /\ Final(b, e) => r = b
  /\ r.running_priority = b.running_priority
  /\ b.event_continue => r.event_continue
  /\ "ACTIVE" \in r.flags[e] =>
       "ACTIVE" \in b.flags[e] \/ r.event_continue \/ Pri[e] >= b.running_priority

LEMMA EventActiveWorks ==
  ASSUME NEW b, Good(b), NEW e \in Events, NEW res \in SUBSET Reasons
  PROVE  Activates(b, EventActive(b, e, res), e)
<1>0. b \in Base /\ e \in Callbacks /\ b.res \in [Callbacks -> SUBSET Reasons]
  BY DEF Good, Base, Callbacks
<1>1. CASE Is(b, e, "FINALIZING")
  BY <1>1 DEF EventActive, Activates, Is
<1>2. CASE ~Is(b, e, "FINALIZING") /\ Is(b, e, "ACTIVE")
  <2> DEFINE v == [b.res EXCEPT ![e] = @ \cup res]
             r == [b EXCEPT !.res = v]
  <2>1. v \in [Callbacks -> SUBSET Reasons]
    BY <1>0
  <2>2. EventActive(b, e, res) = r
    BY <1>0, <1>2 DEF EventActive, Base
  <2> HIDE DEF v
  <2>3. r \in Base /\ Same(b, r, Free) /\ Same(b, r, {"res"})
    BY <2>1, SetFree
  <2> HIDE DEF r
  <2>4. Good(r) /\ r.flags = b.flags
    BY <2>3, GoodStill
  <2> QED
    BY <1>2, <2>2, <2>3, <2>4 DEF Activates, Same, Fields, Final, Is
<1>3. CASE ~Is(b, e, "FINALIZING") /\ ~Is(b, e, "ACTIVE")
  <2> DEFINE v == [b.res EXCEPT ![e] = res]
             more == b.event_continue \/ Pri[e] < b.running_priority
             m == [b EXCEPT !.res = v, !.event_continue = more]
             r == CallbackActivate(m, e)
  <2>1. v \in [Callbacks -> SUBSET Reasons] /\ more \in BOOLEAN
    BY <1>0
  <2>2. EventActive(b, e, res) = r
    <3>1. m = [b EXCEPT !.res[e] = res,
                        !.event_continue = @ \/ Pri[e] < b.running_priority]
      BY <1>0 DEF Base
    <3> QED
      BY <1>3, <3>1 DEF EventActive
  <2> HIDE DEF v, more
  <2>3. /\ m \in Base /\ Same(b, m, Free) /\ m.event_continue = more
        /\ m.running_priority = b.running_priority
    BY <1>0, <2>1 DEF Base, Same, Fields, Free
  <2> HIDE DEF m, r
  <2>4. Good(m) /\ m.flags = b.flags
    BY <2>3, GoodStill
  <2>5. Works(m, r, e, {"ACTIVE"})
    BY <1>0, <2>4, CallbackActivateWorks DEF r
  <2>6. /\ Good(r) /\ \A d \in Callbacks \ {e} : r.flags[d] = b.flags[d]
        /\ r.flags[e] \subseteq b.flags[e] \cup {"ACTIVE"}
        /\ r.running_priority = b.running_priority /\ r.event_continue = more
    BY <2>3, <2>4, <2>5 DEF Works
  <2>7. b.event_continue => more
    BY DEF more
  <2>8. more \/ Pri[e] >= b.running_priority
    <3>1. Pri[e] \in Int /\ b.running_priority \in Int
      BY <1>0, EventAssumption DEF Base
    <3> QED
      BY <3>1 DEF more
  <2> QED
    BY <1>3, <2>2, <2>6, <2>7, <2>8 DEF Activates, Final, Is
<1> QED
  BY <1>1, <1>2, <1>3

LEMMA DeferredScheduleWorks ==
  ASSUME NEW b, Good(b), NEW d \in Deferreds
  PROVE  Works(b, DeferredSchedule(b, d), d, {"ACTIVE", "LATER"})
<1> DEFINE up == {"ACTIVE", "LATER"}
           s == CallbackActivate(b, d)
<1>0. d \in Callbacks
  BY DEF Callbacks
<1>1. CASE b.n_deferreds > MaxDeferreds /\ d \in Active(b)
  BY <1>1, WorksNot DEF DeferredSchedule
<1>2. CASE b.n_deferreds > MaxDeferreds /\ d \notin Active(b)
  <2> DEFINE but == {"flags", "event_count", "active_later"}
  <2>1. "ACTIVE" \notin b.flags[d] /\ "LATER" \notin b.flags[d]
    BY <1>0, <1>2 DEF Active, Is
  <2>2. Adds(b, InsertLater(b, d), d, "LATER") /\ Same(b, InsertLater(b, d), but)
    BY <2>1, InsertLaterIs
  <2>3. but \cap LoopFields = {} /\ "LATER" \in up
    BY DEF LoopFields
  <2> HIDE DEF but
  <2>4. Works(b, InsertLater(b, d), d, up)
    BY <1>0, <2>2, <2>3, AddsWorks
  <2> QED
    BY <1>2, <2>4 DEF DeferredSchedule
<1>3. CASE ~(b.n_deferreds > MaxDeferreds)
  <2>1. Works(b, s, d, {"ACTIVE"})
    BY <1>0, CallbackActivateWorks
  <2>2. Works(b, s, d, up)
    BY <2>1 DEF Works
  <2>3. CASE d \in Active(b)
    BY <1>3, <2>2, <2>3 DEF DeferredSchedule
  <2>4. CASE d \notin Active(b)
    <3> HIDE DEF s
    <3> DEFINE r == [s EXCEPT !.n_deferreds = s.n_deferreds + 1]
    <3>1. Good(s) /\ s.n_deferreds + 1 \in Int
      BY <2>2 DEF Works, Good, Base
    <3>2. r \in Base /\ Same(s, r, {"n_deferreds"})
      BY <3>1, SetFree
    <3>3. DeferredSchedule(b, d) = r
      BY <1>3, <2>4 DEF DeferredSchedule, s
    <3> HIDE DEF r
    <3>4. Good(r) /\ r.flags = s.flags
      <4>1. Same(s, r, Free)
        BY <3>2 DEF Same, Free
      <4> QED
        BY <3>1, <3>2, <4>1, GoodStill
    <3>5. Works(s, r, d, up)
      BY <3>2, <3>4 DEF Works, Same, Fields, Final
    <3> QED
      BY <2>2, <3>3, <3>5, WorksTwice
  <2> QED
    BY <2>3, <2>4
<1> QED
  BY <1>1, <1>2, <1>3

-----------------------------------------------------------------------------
(* Finalizing.                                                             *)

\* The flag of the one that runs the finalizer is not counted.
LEMMA FinalGood ==
  ASSUME NEW b, Good(b), NEW c \in Callbacks
  PROVE  /\ Good([b EXCEPT !.flags[c] = @ \cup {"FINALIZING"}])
         /\ [b EXCEPT !.flags[c] = @ \cup {"FINALIZING"}].flags
              = [b.flags EXCEPT ![c] = @ \cup {"FINALIZING"}]
         /\ Same(b, [b EXCEPT !.flags[c] = @ \cup {"FINALIZING"}], {"flags"})
<1> DEFINE f == [b.flags EXCEPT ![c] = @ \cup {"FINALIZING"}]
           r == [b EXCEPT !.flags = f]
<1>1. /\ b \in Base /\ b.flags \in [Callbacks -> SUBSET AllFlags]
      /\ f \in [Callbacks -> SUBSET AllFlags]
  BY DEF Good, Base, AllFlags
<1>2. [b EXCEPT !.flags[c] = @ \cup {"FINALIZING"}] = r
  BY <1>1 DEF Base
<1> HIDE DEF f
<1>3. r \in Base /\ r.flags = f /\ Same(b, r, {"flags"})
  BY <1>1 DEF Base, Same, Fields
<1> HIDE DEF r
<1>4. \A d \in Callbacks, g \in Counted : g \in r.flags[d] <=> g \in b.flags[d]
  BY <1>1, <1>3 DEF f, Counted
<1>5. Tallied(r) = Tallied(b)
  BY <1>4 DEF Tallied
<1>6. Tally(r)
  <2>1. r.event_count = b.event_count
    BY <1>3 DEF Same, Fields
  <2> QED
    BY <1>5, <2>1 DEF Tally, Good
<1>7. Rules(r)
  BY <1>1, <1>3, RulesRaised DEF MayRaise, Good, f
<1>8. \A g \in Counted : With(r, g) = With(b, g)
  BY <1>4 DEF With
<1>9. /\ With(r, "ACTIVE") = With(b, "ACTIVE") /\ With(r, "LATER") = With(b, "LATER")
      /\ With(r, "TIMEOUT") = With(b, "TIMEOUT") /\ With(r, "INSERTED") = With(b, "INSERTED")
  BY <1>8 DEF Counted
<1>10. /\ Kernel(r) /\ ActiveIn(r, With(b, "ACTIVE")) /\ LaterIn(r, With(b, "LATER"))
       /\ TimedIn(r, With(b, "TIMEOUT")) /\ Mapped(r, With(b, "INSERTED"))
  <2>1. /\ {"changelist", "count", "changes", "epoll"} \cap {"flags"} = {}
        /\ {"activequeues"} \cap {"flags"} = {} /\ {"active_later"} \cap {"flags"} = {}
        /\ {"timeheap", "timeout"} \cap {"flags"} = {} /\ {"list", "count"} \cap {"flags"} = {}
    OBVIOUS
  <2>2. /\ Kernel(b) /\ ActiveIn(b, With(b, "ACTIVE")) /\ LaterIn(b, With(b, "LATER"))
        /\ TimedIn(b, With(b, "TIMEOUT")) /\ Mapped(b, With(b, "INSERTED"))
    BY DEF Good
  <2> QED
    BY <1>3, <2>1, <2>2, Untouched
<1>11. Good(r)
  BY <1>3, <1>6, <1>7, <1>9, <1>10 DEF Good
<1> QED
  BY <1>2, <1>3, <1>11 DEF f

\* It is on no queue but that of the active callbacks.
LEMMA CallbackFinalizeWorks ==
  ASSUME NEW b, Good(b), NEW c \in Callbacks, ~Final(b, c), NEW r, r = CallbackFinalize(b, c)
  PROVE  /\ Good(r) /\ \A d \in Callbacks \ {c} : r.flags[d] = b.flags[d]
         /\ Final(r, c) /\ Counted \cap r.flags[c] \subseteq {"ACTIVE"}
         /\ r.running_priority = b.running_priority
         /\ r.event_continue = b.event_continue
<1> DEFINE m == EventDel(b, c)
           q == CallbackActivate(m, c)
<1>1. Works(b, m, c, {}) /\ ~Queued(m, c)
  BY EventDelWorks
<1> HIDE DEF m
<1>2. Works(m, q, c, {"ACTIVE"})
  BY <1>1, CallbackActivateWorks DEF Works
<1>3. r = [q EXCEPT !.flags[c] = @ \cup {"FINALIZING"}]
  BY DEF CallbackFinalize, q, m
<1> HIDE DEF q
<1>4. /\ Good(r) /\ r.flags = [q.flags EXCEPT ![c] = @ \cup {"FINALIZING"}]
      /\ Same(q, r, {"flags"})
  BY <1>2, <1>3, FinalGood DEF Works
<1>5. q.flags \in [Callbacks -> SUBSET AllFlags]
  BY <1>2 DEF Works, Good, Base
<1>6. /\ r.flags[c] = q.flags[c] \cup {"FINALIZING"}
      /\ \A d \in Callbacks \ {c} : r.flags[d] = q.flags[d]
  BY <1>4, <1>5
<1>7. Counted \cap q.flags[c] \subseteq {"ACTIVE"} /\ "FINALIZING" \notin Counted
  BY <1>1, <1>2 DEF Works, Queued, Counted
<1>8. /\ r.running_priority = q.running_priority /\ r.event_continue = q.event_continue
  BY <1>4 DEF Same, Fields
<1> QED
  BY <1>1, <1>2, <1>4, <1>6, <1>7, <1>8 DEF Works, Final

\* The callbacks that are cancelled, one after the other: k of them.
Cancelled(b, r, running, k) ==
  /\ Good(r)
  /\ \A c \in Callbacks : ~Final(r, c) /\ r.flags[c] \subseteq b.flags[c]
  /\ \A c \in Callbacks \ ToSet(Together) : r.flags[c] = b.flags[c]
  /\ r.running_priority = b.running_priority
  /\ r.event_continue = b.event_continue
  /\ \A j \in 1..k : Together[j] # running => ~Queued(r, Together[j])

AllCancelled(b, running) ==
  FoldLeft(LAMBDA r, c : IF c = running THEN r ELSE EventDel(r, c), b, Together)

LEMMA CancelAll ==
  ASSUME NEW b, Good(b), \A c \in Callbacks : ~Final(b, c), NEW running
  PROVE  Cancelled(b, AllCancelled(b, running), running, Len(Together))
<1> DEFINE n == Len(Together)
           q == Together
           op(r, c) == IF c = running THEN r ELSE EventDel(r, c)
           U == {r \in Base : Cancelled(b, r, running, 0)}
           H == [k \in 1..n |-> [r \in U |-> op(r, q[k])]]
           P == [k \in 0..n |-> {r \in U : Cancelled(b, r, running, k)}]
           Eq(g) == g = [t \in SUBSET DOMAIN q |->
                           IF t = {} THEN b ELSE op(g[t \ {Max(t)}], q[Max(t)])]
           f == CHOOSE g : Eq(g)
<1>1. /\ n \in Nat /\ DOMAIN q = 1..n /\ q \in [1..n -> Callbacks]
      /\ \A k \in 1..n : q[k] \in Callbacks /\ q[k] \in ToSet(Together)
  BY EventAssumption, SeqIs DEF ToSet
<1>2. b \in U
  BY DEF Cancelled, Good
<1>3. ASSUME NEW r \in U, NEW k \in 1..n
      PROVE  /\ op(r, q[k]) \in U
             /\ q[k] # running => ~Queued(op(r, q[k]), q[k])
             /\ \A c \in Callbacks : op(r, q[k]).flags[c] \subseteq r.flags[c]
  <2>1. CASE q[k] = running
    BY <2>1
  <2>2. CASE q[k] # running
    <3> DEFINE d == EventDel(r, q[k])
    <3>1. q[k] \in Callbacks /\ q[k] \in ToSet(Together) /\ Cancelled(b, r, running, 0)
      BY <1>1
    <3>2. Works(r, d, q[k], {}) /\ ~Queued(d, q[k]) /\ d.flags[q[k]] \subseteq r.flags[q[k]]
      BY <3>1, EventDelWorks DEF Cancelled, Works
    <3> HIDE DEF d
    <3>3. d \in Base /\ \A c \in Callbacks : d.flags[c] \subseteq r.flags[c]
      BY <3>2 DEF Works, Good
    <3>4. Cancelled(b, d, running, 0)
      BY <3>1, <3>2, <3>3 DEF Cancelled, Works, Final
    <3> QED
      BY <2>2, <3>2, <3>3, <3>4 DEF d
  <2> QED
    BY <2>1, <2>2
<1> HIDE DEF n, q, op, U
<1>4. \E g : Eq(g)
  <2>1. H \in [1..n -> [U -> U]]
    BY <1>3
  <2> HIDE DEF H
  <2>2. PICK g \in [SUBSET (1..n) -> U] : IsFold(g, n, b, H)
    <3>1. n \in Nat
      BY <1>1
    <3> QED
      BY <1>2, <2>1, <3>1, FoldExists
  <2>3. ASSUME NEW t \in SUBSET (1..n), t # {}
        PROVE  H[Max(t)][g[t \ {Max(t)}]] = op(g[t \ {Max(t)}], q[Max(t)])
    <3>1. Max(t) \in 1..n
      BY <1>1, <2>3, Greatest
    <3>2. g[t \ {Max(t)}] \in U
      BY <2>2
    <3> QED
      BY <3>1, <3>2 DEF H
  <2>4. Eq(g)
    BY <1>1, <2>2, <2>3 DEF IsFold
  <2> HIDE DEF Eq
  <2> QED
    BY <2>4
<1>5. Eq(f)
  <2> HIDE DEF Eq
  <2> QED
    BY <1>4 DEF f
<1>6. AllCancelled(b, running) = f[1..n]
  <2>1. AllCancelled(b, running) = f[DOMAIN Together]
    BY DEF AllCancelled, FoldLeft, MapThenFoldSet, f, q, op
  <2> QED
    BY <2>1, <1>1 DEF q
<1> HIDE DEF f
<1>7. f[{}] \in P[0]
  BY <1>1, <1>2, <1>5 DEF U
<1>8. ASSUME NEW k \in 1..n, f[1..(k - 1)] \in P[k - 1]
      PROVE  f[1..k] \in P[k]
  <2> DEFINE r == f[1..(k - 1)]
  <2>1. f[1..k] = op(r, q[k])
    <3>1. n \in Nat /\ DOMAIN q = 1..n
      BY <1>1
    <3>2. /\ 1..k \in SUBSET (1..n) /\ 1..k # {}
          /\ Max(1..k) = k /\ (1..k) \ {Max(1..k)} = 1..(k - 1)
      BY <3>1, Prefix
    <3> QED
      BY <1>5, <3>1, <3>2
  <2>2. k - 1 \in 0..n /\ r \in U /\ Cancelled(b, r, running, k - 1)
    BY <1>1, <1>8
  <2> HIDE DEF r
  <2>3. op(r, q[k]) \in U /\ Cancelled(b, op(r, q[k]), running, 0)
    BY <1>3, <2>2 DEF U
  <2>4. ASSUME NEW j \in 1..k, q[j] # running PROVE ~Queued(op(r, q[k]), q[j])
    <3>1. CASE j = k
      BY <1>3, <2>2, <2>4, <3>1
    <3>2. CASE j # k
      <4>1. j \in 1..(k - 1) /\ j \in 1..n
        BY <1>1, <3>2
      <4>2. ~Queued(r, q[j]) /\ q[j] \in Callbacks
        BY <1>1, <2>2, <2>4, <4>1 DEF Cancelled, q
      <4> QED
        BY <1>3, <2>2, <4>2 DEF Queued
    <3> QED
      BY <3>1, <3>2
  <2>5. Cancelled(b, op(r, q[k]), running, k)
    BY <2>3, <2>4 DEF Cancelled, q
  <2> QED
    BY <1>1, <2>1, <2>3, <2>5
<1>9. f[1..n] \in P[n]
  <2> HIDE DEF P
  <2> QED
    BY <1>1, <1>7, <1>8, FoldSteps
<1>10. Cancelled(b, f[1..n], running, n)
  <2>1. n \in 0..n
    BY <1>1
  <2> QED
    BY <1>9, <2>1
<1> QED
  BY <1>6, <1>10 DEF n

\* All of them are off the queues but one, that runs the finalizer.
LEMMA FinalizeManyWorks ==
  ASSUME NEW b, Good(b), \A c \in Callbacks : ~Final(b, c), NEW running, Together # <<>>,
         NEW r, r = FinalizeMany(b, running)
  PROVE  \E target \in ToSet(Together) :
           /\ Good(r) /\ target \in Callbacks
           /\ target = running \/ target = Together[1]
           /\ \A c \in Callbacks : Final(r, c) <=> c = target
           /\ \A c \in ToSet(Together) \ {target} : ~Queued(r, c)
           /\ Counted \cap r.flags[target] \subseteq {"ACTIVE"}
           /\ \A c \in Callbacks \ ToSet(Together) : r.flags[c] = b.flags[c]
           /\ \A c \in Callbacks \ {target} : r.flags[c] \subseteq b.flags[c]
           /\ r.running_priority = b.running_priority
           /\ r.event_continue = b.event_continue
<1> DEFINE n == Len(Together)
           m == AllCancelled(b, running)
           target == IF running \in ToSet(Together) THEN running ELSE Together[1]
<1>1. /\ n \in Nat /\ DOMAIN Together = 1..n /\ n # 0
      /\ ToSet(Together) \subseteq Callbacks
      /\ ToSet(Together) = {Together[j] : j \in 1..n}
  BY EventAssumption, SeqIs, EmptySeq DEF ToSet
<1>2. /\ target \in ToSet(Together) /\ target \in Callbacks
      /\ target = running \/ target = Together[1]
  BY <1>1
<1>3. Cancelled(b, m, running, n)
  BY CancelAll
<1> HIDE DEF m
<1>4. r = CallbackFinalize(m, target)
  BY DEF FinalizeMany, AllCancelled, m
<1>5. \A c \in ToSet(Together) \ {target} : ~Queued(m, c)
  BY <1>1, <1>3 DEF Cancelled
<1> HIDE DEF target
<1>6. /\ Good(r) /\ \A d \in Callbacks \ {target} : r.flags[d] = m.flags[d]
      /\ Final(r, target) /\ Counted \cap r.flags[target] \subseteq {"ACTIVE"}
      /\ r.running_priority = m.running_priority
      /\ r.event_continue = m.event_continue
  <2>1. Good(m) /\ ~Final(m, target)
    BY <1>2, <1>3 DEF Cancelled
  <2> QED
    BY <1>2, <1>4, <2>1, CallbackFinalizeWorks
<1>7. \A c \in Callbacks : Final(r, c) <=> c = target
  BY <1>3, <1>6 DEF Cancelled, Final
<1>8. \A c \in ToSet(Together) \ {target} : ~Queued(r, c)
  BY <1>1, <1>5, <1>6 DEF Queued
<1>9. \A c \in Callbacks \ {target} : r.flags[c] \subseteq b.flags[c]
  BY <1>3, <1>6 DEF Cancelled
<1>10. \A c \in Callbacks \ ToSet(Together) : r.flags[c] = b.flags[c]
  BY <1>2, <1>3, <1>6 DEF Cancelled
<1> QED
  BY <1>2, <1>3, <1>6, <1>7, <1>8, <1>9, <1>10 DEF Cancelled

-----------------------------------------------------------------------------
(* What becomes ready, or is late.                                         *)

\* r is good, what is finalized stays as it is, and what is queued was.
Serves(b, r) ==
  /\ Good(r)
  /\ \A c \in Callbacks : /\ Final(r, c) <=> Final(b, c)
                          /\ Final(b, c) => r.flags[c] = b.flags[c]
                          /\ Queued(r, c) => Queued(b, c)

LEMMA ServesNot ==
  ASSUME NEW b, Good(b)
  PROVE  Serves(b, b)
BY DEF Serves

LEMMA ServesOn ==
  ASSUME NEW b, NEW m, NEW r, Serves(b, m), Serves(m, r)
  PROVE  Serves(b, r)
BY DEF Serves

LEMMA ServesActivated ==
  ASSUME NEW b, NEW r, NEW e \in Events, Queued(b, e), Activates(b, r, e)
  PROVE  Serves(b, r)
<1>1. e \in Callbacks
  BY DEF Callbacks
<1>2. ~Final(b, e) => ~Final(r, e)
  BY DEF Activates, Final
<1> QED
  BY <1>1, <1>2 DEF Activates, Serves, Final, Queued

LEMMA IoActiveServes ==
  ASSUME NEW b, Good(b), NEW fd \in Fds, ready \in [Fds -> SUBSET (Types \cup {"HUP"})]
  PROVE  Serves(b, IoActive(b, fd))
<1> DEFINE q == b.list[fd]
           n == Len(q)
           types(e) == What[e] \cap Reported(b, ready, fd)
           op(r, e) == IF types(e) = {} THEN r ELSE EventActive(r, e, types(e))
           U == {r \in Base : Serves(b, r)}
           H == [k \in 1..n |-> [r \in U |-> op(r, q[k])]]
           P == [k \in 0..n |-> U]
           Eq(g) == g = [t \in SUBSET DOMAIN q |->
                           IF t = {} THEN b ELSE op(g[t \ {Max(t)}], q[Max(t)])]
           f == CHOOSE g : Eq(g)
<1>1. /\ n \in Nat /\ DOMAIN q = 1..n
      /\ \A k \in 1..n : q[k] \in Events /\ Queued(b, q[k])
  <2>1. Holds(q, Here(With(b, "INSERTED"), fd)) /\ Rules(b)
    BY DEF Good, Mapped
  <2>2. q \in Seq(Here(With(b, "INSERTED"), fd))
    BY <2>1 DEF Holds
  <2> HIDE DEF q
  <2>3. n \in Nat /\ DOMAIN q = 1..n /\ \A k \in 1..n : q[k] \in Here(With(b, "INSERTED"), fd)
    BY <2>2, SeqIs
  <2>4. \A e \in Here(With(b, "INSERTED"), fd) : e \in Events /\ Queued(b, e)
    BY <2>1 DEF Here, With, Queued, Counted, Rules, Callbacks
  <2> QED
    BY <2>3, <2>4
<1>2. b \in U
  BY ServesNot DEF Good
<1>3. ASSUME NEW r \in U, NEW k \in 1..n PROVE op(r, q[k]) \in U
  <2>1. q[k] \in Events /\ Queued(b, q[k]) /\ Good(r) /\ Serves(b, r)
    BY <1>1 DEF Serves
  <2> HIDE DEF q
  <2>2. types(q[k]) \in SUBSET Reasons
    <3>1. What[q[k]] \subseteq Types
      BY <2>1, EvMapAssumption
    <3> QED
      BY <3>1 DEF Reasons
  <2>3. CASE types(q[k]) = {}
    BY <2>3
  <2>4. CASE types(q[k]) # {}
    <3> DEFINE s == EventActive(r, q[k], types(q[k]))
    <3>1. Activates(r, s, q[k])
      BY <2>1, <2>2, EventActiveWorks
    <3> HIDE DEF s
    <3>2. s \in Base /\ Good(s)
      BY <3>1 DEF Activates, Good
    <3>3. Serves(b, s)
      <4>1. q[k] \in Callbacks /\ ~Final(r, q[k]) => ~Final(s, q[k])
        BY <2>1, <3>1 DEF Activates, Final, Callbacks
      <4> QED
        BY <2>1, <3>1, <4>1 DEF Activates, Serves, Final, Queued
    <3> QED
      BY <2>4, <3>2, <3>3 DEF s
  <2> QED
    BY <2>3, <2>4
<1> HIDE DEF q, n, types, op, U
<1>4. \E g : Eq(g)
  <2>1. H \in [1..n -> [U -> U]]
    BY <1>3
  <2> HIDE DEF H
  <2>2. PICK g \in [SUBSET (1..n) -> U] : IsFold(g, n, b, H)
    <3>1. n \in Nat
      BY <1>1
    <3> QED
      BY <1>2, <2>1, <3>1, FoldExists
  <2>3. ASSUME NEW t \in SUBSET (1..n), t # {}
        PROVE  H[Max(t)][g[t \ {Max(t)}]] = op(g[t \ {Max(t)}], q[Max(t)])
    <3>1. Max(t) \in 1..n
      BY <1>1, <2>3, Greatest
    <3>2. g[t \ {Max(t)}] \in U
      BY <2>2
    <3> QED
      BY <3>1, <3>2 DEF H
  <2>4. Eq(g)
    BY <1>1, <2>2, <2>3 DEF IsFold
  <2> HIDE DEF Eq
  <2> QED
    BY <2>4
<1>5. Eq(f)
  <2> HIDE DEF Eq
  <2> QED
    BY <1>4 DEF f
<1>6. IoActive(b, fd) = f[1..n]
  <2>1. IoActive(b, fd) = f[DOMAIN b.list[fd]]
    BY DEF IoActive, FoldLeft, MapThenFoldSet, f, q, op, types
  <2> QED
    BY <2>1, <1>1 DEF q
<1> HIDE DEF f
<1>7. f[{}] \in P[0]
  BY <1>1, <1>2, <1>5
<1>8. ASSUME NEW k \in 1..n, f[1..(k - 1)] \in P[k - 1] PROVE f[1..k] \in P[k]
  <2>1. f[1..k] = op(f[1..(k - 1)], q[k])
    <3>1. n \in Nat /\ DOMAIN q = 1..n
      BY <1>1
    <3>2. /\ 1..k \in SUBSET (1..n) /\ 1..k # {}
          /\ Max(1..k) = k /\ (1..k) \ {Max(1..k)} = 1..(k - 1)
      BY <3>1, Prefix
    <3> QED
      BY <1>5, <3>1, <3>2
  <2>2. f[1..(k - 1)] \in U /\ k \in 0..n
    BY <1>1, <1>8
  <2> QED
    BY <1>3, <2>1, <2>2
<1>9. f[1..n] \in P[n]
  <2> HIDE DEF P
  <2> QED
    BY <1>1, <1>7, <1>8, FoldSteps
<1>10. f[1..n] \in U
  <2>1. n \in 0..n
    BY <1>1
  <2> QED
    BY <1>9, <2>1
<1> QED
  BY <1>6, <1>10 DEF U

\* All that are ready, one after the other.
LEMMA AllReadyServes ==
  ASSUME NEW b, Good(b), ready \in [Fds -> SUBSET (Types \cup {"HUP"})], NEW fds \in Seq(Fds)
  PROVE  Serves(b, FoldLeft(IoActive, b, fds))
<1> DEFINE n == Len(fds)
           U == {r \in Base : Serves(b, r)}
           H == [k \in 1..n |-> [r \in U |-> IoActive(r, fds[k])]]
           P == [k \in 0..n |-> U]
           Eq(g) == g = [t \in SUBSET DOMAIN fds |->
                           IF t = {} THEN b ELSE IoActive(g[t \ {Max(t)}], fds[Max(t)])]
           f == CHOOSE g : Eq(g)
<1>1. n \in Nat /\ DOMAIN fds = 1..n /\ \A k \in 1..n : fds[k] \in Fds
  BY SeqIs
<1>2. b \in U
  BY ServesNot DEF Good
<1>3. ASSUME NEW r \in U, NEW k \in 1..n PROVE IoActive(r, fds[k]) \in U
  <2>1. Good(r) /\ Serves(b, r) /\ fds[k] \in Fds
    BY <1>1 DEF Serves
  <2>2. Serves(r, IoActive(r, fds[k]))
    BY <2>1, IoActiveServes
  <2>3. Serves(b, IoActive(r, fds[k])) /\ IoActive(r, fds[k]) \in Base
    BY <2>1, <2>2, ServesOn DEF Serves, Good
  <2> QED
    BY <2>3
<1> HIDE DEF n, U
<1>4. \E g : Eq(g)
  <2>1. H \in [1..n -> [U -> U]]
    BY <1>3
  <2> HIDE DEF H
  <2>2. PICK g \in [SUBSET (1..n) -> U] : IsFold(g, n, b, H)
    <3>1. n \in Nat
      BY <1>1
    <3> QED
      BY <1>2, <2>1, <3>1, FoldExists
  <2>3. ASSUME NEW t \in SUBSET (1..n), t # {}
        PROVE  H[Max(t)][g[t \ {Max(t)}]] = IoActive(g[t \ {Max(t)}], fds[Max(t)])
    <3>1. Max(t) \in 1..n
      BY <1>1, <2>3, Greatest
    <3>2. g[t \ {Max(t)}] \in U
      BY <2>2
    <3> QED
      BY <3>1, <3>2 DEF H
  <2>4. Eq(g)
    BY <1>1, <2>2, <2>3 DEF IsFold
  <2> HIDE DEF Eq
  <2> QED
    BY <2>4
<1>5. Eq(f)
  <2> HIDE DEF Eq
  <2> QED
    BY <1>4 DEF f
<1>6. FoldLeft(IoActive, b, fds) = f[1..n]
  <2>1. FoldLeft(IoActive, b, fds) = f[DOMAIN fds]
    BY DEF FoldLeft, MapThenFoldSet, f
  <2> QED
    BY <2>1, <1>1
<1> HIDE DEF f
<1>7. f[{}] \in P[0]
  BY <1>1, <1>2, <1>5
<1>8. ASSUME NEW k \in 1..n, f[1..(k - 1)] \in P[k - 1] PROVE f[1..k] \in P[k]
  <2>1. f[1..k] = IoActive(f[1..(k - 1)], fds[k])
    <3>1. n \in Nat /\ DOMAIN fds = 1..n
      BY <1>1
    <3>2. /\ 1..k \in SUBSET (1..n) /\ 1..k # {}
          /\ Max(1..k) = k /\ (1..k) \ {Max(1..k)} = 1..(k - 1)
      BY <3>1, Prefix
    <3> QED
      BY <1>5, <3>1, <3>2
  <2>2. f[1..(k - 1)] \in U /\ k \in 0..n
    BY <1>1, <1>8
  <2> QED
    BY <1>3, <2>1, <2>2
<1>9. f[1..n] \in P[n]
  <2> HIDE DEF P
  <2> QED
    BY <1>1, <1>7, <1>8, FoldSteps
<1>10. f[1..n] \in U
  <2>1. n \in 0..n
    BY <1>1
  <2> QED
    BY <1>9, <2>1
<1> QED
  BY <1>6, <1>10 DEF U

\* The earliest, if its time has come.
ServeLate(r) ==
  IF r.timeheap = <<>> \/ r.timeout[r.timeheap[1]] > 0 THEN r
  ELSE EventActive(EventDel(r, r.timeheap[1]), r.timeheap[1], {"TIMEOUT"})

LEMMA LateServes ==
  ASSUME NEW r, Good(r)
  PROVE  Serves(r, ServeLate(r))
<1>1. CASE r.timeheap = <<>> \/ r.timeout[r.timeheap[1]] > 0
  BY <1>1, ServesNot DEF ServeLate
<1>2. CASE ~(r.timeheap = <<>> \/ r.timeout[r.timeheap[1]] > 0)
  <2> DEFINE e == r.timeheap[1]
             d == EventDel(r, e)
             s == EventActive(d, e, {"TIMEOUT"})
  <2>1. e \in Events /\ e \in Callbacks /\ Queued(r, e)
    <3>1. e \in With(r, "TIMEOUT")
      BY <1>2, HoldsFirst DEF Good, TimedIn
    <3>2. With(r, "TIMEOUT") \subseteq Events
      BY TimedEvents
    <3> QED
      BY <3>1, <3>2 DEF With, Queued, Counted, Callbacks
  <2> HIDE DEF e
  <2>2. Works(r, d, e, {}) /\ (Final(r, e) => d = r)
    BY <2>1, EventDelWorks
  <2> HIDE DEF d
  <2>3. Activates(d, s, e)
    <3>1. {"TIMEOUT"} \in SUBSET Reasons
      BY DEF Reasons
    <3> QED
      BY <2>1, <2>2, <3>1, EventActiveWorks DEF Works
  <2>4. ServeLate(r) = s
    BY <1>2 DEF ServeLate, s, d, e
  <2> HIDE DEF s
  <2>5. Final(r, e) <=> Final(s, e)
    BY <2>2, <2>3 DEF Works, Activates, Final
  <2>6. Final(r, e) => s = r
    BY <2>2, <2>3 DEF Activates
  <2>7. \A c \in Callbacks \ {e} : s.flags[c] = r.flags[c]
    BY <2>2, <2>3 DEF Works, Activates
  <2>8. Good(s)
    BY <2>3 DEF Activates
  <2> QED
    BY <2>1, <2>4, <2>5, <2>6, <2>7, <2>8 DEF Serves, Final, Queued
<1> QED
  BY <1>1, <1>2

LEMMA TimeoutProcessServes ==
  ASSUME NEW b, Good(b)
  PROVE  Serves(b, TimeoutProcess(b))
<1> DEFINE q == b.timeheap
           n == Len(q)
           U == {r \in Base : Serves(b, r)}
           H == [k \in 1..n |-> [r \in U |-> ServeLate(r)]]
           P == [k \in 0..n |-> U]
           Eq(g) == g = [t \in SUBSET DOMAIN q |->
                           IF t = {} THEN b ELSE ServeLate(g[t \ {Max(t)}])]
           f == CHOOSE g : Eq(g)
<1>1. n \in Nat /\ DOMAIN q = 1..n
  <2>1. q \in Seq(Events)
    BY DEF Good, Base
  <2> QED
    BY <2>1, SeqIs
<1>2. b \in U
  BY ServesNot DEF Good
<1>3. ASSUME NEW r \in U PROVE ServeLate(r) \in U
  <2>1. Good(r) /\ Serves(b, r)
    BY DEF Serves
  <2>2. Serves(r, ServeLate(r))
    BY <2>1, LateServes
  <2>3. Serves(b, ServeLate(r)) /\ ServeLate(r) \in Base
    BY <2>1, <2>2, ServesOn DEF Serves, Good
  <2> QED
    BY <2>3
<1> HIDE DEF n, q, U
<1>4. \E g : Eq(g)
  <2>1. H \in [1..n -> [U -> U]]
    BY <1>3
  <2> HIDE DEF H
  <2>2. PICK g \in [SUBSET (1..n) -> U] : IsFold(g, n, b, H)
    <3>1. n \in Nat
      BY <1>1
    <3> QED
      BY <1>2, <2>1, <3>1, FoldExists
  <2>3. ASSUME NEW t \in SUBSET (1..n), t # {}
        PROVE  H[Max(t)][g[t \ {Max(t)}]] = ServeLate(g[t \ {Max(t)}])
    <3>1. Max(t) \in 1..n
      BY <1>1, <2>3, Greatest
    <3>2. g[t \ {Max(t)}] \in U
      BY <2>2
    <3> QED
      BY <3>1, <3>2 DEF H
  <2>4. Eq(g)
    BY <1>1, <2>2, <2>3 DEF IsFold
  <2> HIDE DEF Eq
  <2> QED
    BY <2>4
<1>5. Eq(f)
  <2> HIDE DEF Eq
  <2> QED
    BY <1>4 DEF f
<1>6. TimeoutProcess(b) = f[1..n]
  <2>1. TimeoutProcess(b) = f[DOMAIN b.timeheap]
    BY DEF TimeoutProcess, ServeLate, FoldLeft, MapThenFoldSet, f, q
  <2> QED
    BY <2>1, <1>1 DEF q
<1> HIDE DEF f
<1>7. f[{}] \in P[0]
  BY <1>1, <1>2, <1>5
<1>8. ASSUME NEW k \in 1..n, f[1..(k - 1)] \in P[k - 1] PROVE f[1..k] \in P[k]
  <2>1. f[1..k] = ServeLate(f[1..(k - 1)])
    <3>1. n \in Nat /\ DOMAIN q = 1..n
      BY <1>1
    <3>2. /\ 1..k \in SUBSET (1..n) /\ 1..k # {}
          /\ Max(1..k) = k /\ (1..k) \ {Max(1..k)} = 1..(k - 1)
      BY <3>1, Prefix
    <3> QED
      BY <1>5, <3>1, <3>2
  <2>2. f[1..(k - 1)] \in U /\ k \in 0..n
    BY <1>1, <1>8
  <2> QED
    BY <1>3, <2>1, <2>2
<1>9. f[1..n] \in P[n]
  <2> HIDE DEF P
  <2> QED
    BY <1>1, <1>7, <1>8, FoldSteps
<1>10. f[1..n] \in U
  <2>1. n \in 0..n
    BY <1>1
  <2> QED
    BY <1>9, <2>1
<1> QED
  BY <1>6, <1>10 DEF U

-----------------------------------------------------------------------------
(* What was put off joins the others.                                      *)

LEMMA RemoveFirstType ==
  ASSUME NEW D, NEW q \in Seq(D), NEW x
  PROVE  RemoveFirst(q, x) \in Seq(D)
<1>1. CASE \E k \in 1..Len(q) : q[k] = x
  BY <1>1, RemoveFirstIs
<1>2. CASE ~\E k \in 1..Len(q) : q[k] = x
  BY <1>2 DEF RemoveFirst
<1> QED
  BY <1>1, <1>2

LEMMA RaiseType ==
  ASSUME NEW b \in Base, NEW c \in Callbacks, NEW flag \in Counted
  PROVE  /\ Raise(b, c, flag) \in Base
         /\ Raise(b, c, flag).activequeues = b.activequeues
<1> DEFINE r == Raise(b, c, flag)
           f == [b.flags EXCEPT ![c] = @ \cup {flag}]
<1>1. b.flags \in [Callbacks -> SUBSET AllFlags] /\ b.event_count \in Int
  BY DEF Base
<1>2. f \in [Callbacks -> SUBSET AllFlags] /\ b.event_count + 1 \in Int
  BY <1>1 DEF AllFlags
<1>3. r = [b EXCEPT !.flags = f, !.event_count = b.event_count + 1]
  BY DEF Base, Raise
<1> HIDE DEF r, f
<1>4. r \in Base /\ r.activequeues = b.activequeues
  BY <1>2, <1>3 DEF Base
<1> QED
  BY <1>4 DEF r

LEMMA LowerType ==
  ASSUME NEW b \in Base, NEW c \in Callbacks, NEW flag
  PROVE  /\ Lower(b, c, flag) \in Base
         /\ Lower(b, c, flag).active_later = b.active_later
<1> DEFINE r == Lower(b, c, flag)
           f == [b.flags EXCEPT ![c] = @ \ {flag}]
<1>1. b.flags \in [Callbacks -> SUBSET AllFlags] /\ b.event_count \in Int
  BY DEF Base
<1>2. f \in [Callbacks -> SUBSET AllFlags] /\ b.event_count - 1 \in Int
  BY <1>1
<1>3. r = [b EXCEPT !.flags = f, !.event_count = b.event_count - 1]
  BY DEF Base, Lower
<1> HIDE DEF r, f
<1>4. r \in Base /\ r.active_later = b.active_later
  BY <1>2, <1>3 DEF Base
<1> QED
  BY <1>4 DEF r

\* One of them.
Join(r, c) ==
  [InsertActive(RemoveLater(r, c), c) EXCEPT
     !.n_deferreds = IF c \in Deferreds THEN @ + 1 ELSE @]

LEMMA JoinType ==
  ASSUME NEW r \in Base, NEW c \in Callbacks
  PROVE  Join(r, c) \in Base
<1> DEFINE m == RemoveLater(r, c)
           s == InsertActive(m, c)
           n == IF c \in Deferreds THEN s.n_deferreds + 1 ELSE s.n_deferreds
<1>1. m \in Base
  <2>1. CASE "LATER" \notin r.flags[c]
    BY <2>1 DEF RemoveLater, Is
  <2>2. CASE "LATER" \in r.flags[c]
    <3> DEFINE l == Lower(r, c, "LATER")
               q == RemoveFirst(r.active_later, c)
    <3>1. l \in Base /\ l.active_later = r.active_later
      BY LowerType
    <3>2. m = [l EXCEPT !.active_later = q]
      BY <2>2, <3>1 DEF RemoveLater, Is, Base
    <3>3. q \in Seq(Callbacks)
      <4>1. r.active_later \in Seq(Callbacks)
        BY DEF Base
      <4> QED
        BY <4>1, RemoveFirstType
    <3> HIDE DEF m, l, q
    <3> QED
      BY <3>1, <3>2, <3>3 DEF Base
  <2> QED
    BY <2>1, <2>2
<1> HIDE DEF m
<1>2. s \in Base
  <2> DEFINE l == Raise(m, c, "ACTIVE")
             q == [m.activequeues EXCEPT ![Pri[c]] = Append(@, c)]
  <2>1. l \in Base /\ l.activequeues = m.activequeues
    BY <1>1, RaiseType DEF Counted
  <2>2. s = [l EXCEPT !.activequeues = q]
    BY <2>1 DEF InsertActive, Base
  <2>3. q \in [0..NPri - 1 -> Seq(Callbacks)]
    <3>1. Pri[c] \in 0..NPri - 1 /\ m.activequeues \in [0..NPri - 1 -> Seq(Callbacks)]
      BY <1>1, EventAssumption DEF Base
    <3>2. Append(m.activequeues[Pri[c]], c) \in Seq(Callbacks)
      BY <3>1, AppendProperties
    <3> QED
      BY <3>1, <3>2
  <2> HIDE DEF s, l, q
  <2> QED
    BY <2>1, <2>2, <2>3 DEF Base
<1> HIDE DEF s
<1>3. Join(r, c) = [s EXCEPT !.n_deferreds = n]
  BY <1>2 DEF Join, s, m, Base
<1>4. n \in Int
  BY <1>2 DEF Base
<1> HIDE DEF n
<1> QED
  BY <1>2, <1>3, <1>4 DEF Base

\* It is active and not put off any more, and the rest stays as it is.
Joins(r, s, c) ==
  /\ Good(s)
  /\ s.flags = [r.flags EXCEPT ![c] = (@ \ {"LATER"}) \cup {"ACTIVE"}]

LEMMA JoinWorks ==
  ASSUME NEW r, Good(r), NEW c \in Callbacks, "LATER" \in r.flags[c]
  PROVE  Joins(r, Join(r, c), c)
<1> DEFINE m == RemoveLater(r, c)
           s == InsertActive(m, c)
           n == IF c \in Deferreds THEN s.n_deferreds + 1 ELSE s.n_deferreds
<1>1. r \in Base /\ "ACTIVE" \notin r.flags[c] /\ r.flags \in [Callbacks -> SUBSET AllFlags]
  BY DEF Good, Rules, Base
<1>2. Good(m) /\ m.flags = [r.flags EXCEPT ![c] = @ \ {"LATER"}]
  BY RemoveLaterIs DEF Takes
<1> HIDE DEF m
<1>3. "ACTIVE" \notin m.flags[c] /\ "LATER" \notin m.flags[c]
  BY <1>1, <1>2
<1>4. Good(s) /\ s.flags = [m.flags EXCEPT ![c] = @ \cup {"ACTIVE"}]
  BY <1>2, <1>3, InsertActiveIs DEF Adds
<1> HIDE DEF s
<1>5. Join(r, c) = [s EXCEPT !.n_deferreds = n]
  BY <1>4 DEF Join, s, m, Good, Base
<1>6. n \in Int
  BY <1>4 DEF Good, Base
<1> HIDE DEF n
<1>7. Good(Join(r, c)) /\ Join(r, c).flags = s.flags
  <2>1. [s EXCEPT !.n_deferreds = n] \in Base /\ Same(s, [s EXCEPT !.n_deferreds = n], Free)
    BY <1>4, <1>6 DEF Good, Base, Same, Fields, Free
  <2> QED
    BY <1>4, <1>5, <2>1, GoodStill
<1>8. s.flags = [r.flags EXCEPT ![c] = (@ \ {"LATER"}) \cup {"ACTIVE"}]
  BY <1>1, <1>2, <1>4
<1> QED
  BY <1>7, <1>8 DEF Joins

\* The first k of those that were put off have joined.
Joined(b, r, k) ==
  /\ Good(r)
  /\ \A c \in Callbacks : r.flags[c] = IF \E j \in 1..k : b.active_later[j] = c
                                      THEN (b.flags[c] \ {"LATER"}) \cup {"ACTIVE"}
                                      ELSE b.flags[c]

LEMMA JoinedMore ==
  ASSUME NEW b, Good(b), NEW k \in 1..Len(b.active_later), NEW r, Joined(b, r, k - 1)
  PROVE  Joined(b, Join(r, b.active_later[k]), k)
<1> DEFINE q == b.active_later
           n == Len(q)
           s == Join(r, q[k])
<1>1. Holds(q, With(b, "LATER"))
  BY DEF Good, LaterIn
<1>2. /\ n \in Nat /\ \A j \in 1..n : q[j] \in With(b, "LATER")
      /\ \A i, j \in 1..n : q[i] = q[j] => i = j
  <2> HIDE DEF q
  <2> QED
    BY <1>1, SeqIs DEF Holds, Each
<1>3. q[k] \in Callbacks /\ "LATER" \in b.flags[q[k]]
  BY <1>2 DEF With
<1>4. \A j \in 1..(k - 1) : q[j] # q[k]
  <2>1. \A j \in 1..(k - 1) : j \in 1..n /\ j # k
    BY <1>2
  <2> QED
    BY <1>2, <2>1
<1>5. r.flags[q[k]] = b.flags[q[k]]
  BY <1>3, <1>4 DEF Joined
<1>6. Joins(r, s, q[k])
  BY <1>3, <1>5, JoinWorks DEF Joined
<1> HIDE DEF s, q
<1>7. Good(s) /\ \A c \in Callbacks \ {q[k]} : s.flags[c] = r.flags[c]
  BY <1>6 DEF Joins, Joined, Good, Base
<1>8. s.flags[q[k]] = (b.flags[q[k]] \ {"LATER"}) \cup {"ACTIVE"}
  <2>1. r.flags \in [Callbacks -> SUBSET AllFlags]
    BY DEF Joined, Good, Base
  <2> QED
    BY <1>3, <1>5, <1>6, <2>1 DEF Joins
<1>9. \A j \in 1..k : j \in 1..(k - 1) \/ j = k
  BY <1>2
<1>10. \A j \in 1..(k - 1) : j \in 1..k
  BY <1>2
<1>11. k \in 1..k
  BY <1>2
<1>12. ASSUME NEW c \in Callbacks
       PROVE  s.flags[c] = IF \E j \in 1..k : q[j] = c
                           THEN (b.flags[c] \ {"LATER"}) \cup {"ACTIVE"}
                           ELSE b.flags[c]
  <2>1. CASE c = q[k]
    BY <2>1, <1>8, <1>11
  <2>2. CASE c # q[k]
    <3>1. (\E j \in 1..k : q[j] = c) <=> \E j \in 1..(k - 1) : q[j] = c
      BY <2>2, <1>9, <1>10
    <3>2. s.flags[c] = r.flags[c]
      BY <2>2, <1>7
    <3> QED
      BY <3>1, <3>2 DEF Joined, q
  <2> QED
    BY <2>1, <2>2
<1> QED
  BY <1>7, <1>12 DEF Joined, s, q

LEMMA AllJoin ==
  ASSUME NEW b, Good(b)
  PROVE  Joined(b, MakeLaterActive(b), Len(b.active_later))
<1> DEFINE q == b.active_later
           n == Len(q)
           U == Base
           H == [k \in 1..n |-> [r \in U |-> Join(r, q[k])]]
           P == [k \in 0..n |-> {r \in U : Joined(b, r, k)}]
           Eq(g) == g = [t \in SUBSET DOMAIN q |->
                           IF t = {} THEN b ELSE Join(g[t \ {Max(t)}], q[Max(t)])]
           f == CHOOSE g : Eq(g)
<1>1. n \in Nat /\ DOMAIN q = 1..n /\ \A k \in 1..n : q[k] \in Callbacks
  <2>1. q \in Seq(Callbacks)
    BY DEF Good, Base
  <2> QED
    BY <2>1, SeqIs
<1>2. b \in U
  BY DEF Good
<1>3. \A r \in U : \A k \in 1..n : Join(r, q[k]) \in U
  BY <1>1, JoinType
<1> HIDE DEF n, q, U
<1>4. \E g : Eq(g)
  <2>1. H \in [1..n -> [U -> U]]
    BY <1>3
  <2> HIDE DEF H
  <2>2. PICK g \in [SUBSET (1..n) -> U] : IsFold(g, n, b, H)
    <3>1. n \in Nat
      BY <1>1
    <3> QED
      BY <1>2, <2>1, <3>1, FoldExists
  <2>3. ASSUME NEW t \in SUBSET (1..n), t # {}
        PROVE  H[Max(t)][g[t \ {Max(t)}]] = Join(g[t \ {Max(t)}], q[Max(t)])
    <3>1. Max(t) \in 1..n
      BY <1>1, <2>3, Greatest
    <3>2. g[t \ {Max(t)}] \in U
      BY <2>2
    <3> QED
      BY <3>1, <3>2 DEF H
  <2>4. Eq(g)
    BY <1>1, <2>2, <2>3 DEF IsFold
  <2> HIDE DEF Eq
  <2> QED
    BY <2>4
<1>5. Eq(f)
  <2> HIDE DEF Eq
  <2> QED
    BY <1>4 DEF f
<1>6. MakeLaterActive(b) = f[1..n]
  <2>1. MakeLaterActive(b) = f[DOMAIN b.active_later]
    BY DEF MakeLaterActive, Join, FoldLeft, MapThenFoldSet, f, q
  <2> QED
    BY <2>1, <1>1 DEF q
<1> HIDE DEF f
<1>7. f[{}] \in P[0]
  <2>1. f[{}] = b /\ 0 \in 0..n
    BY <1>1, <1>5
  <2>2. Joined(b, b, 0)
    BY DEF Joined
  <2> QED
    BY <1>2, <2>1, <2>2
<1>8. ASSUME NEW k \in 1..n, f[1..(k - 1)] \in P[k - 1] PROVE f[1..k] \in P[k]
  <2> DEFINE r == f[1..(k - 1)]
  <2>1. f[1..k] = Join(r, q[k])
    <3>1. n \in Nat /\ DOMAIN q = 1..n
      BY <1>1
    <3>2. /\ 1..k \in SUBSET (1..n) /\ 1..k # {}
          /\ Max(1..k) = k /\ (1..k) \ {Max(1..k)} = 1..(k - 1)
      BY <3>1, Prefix
    <3> QED
      BY <1>5, <3>1, <3>2
  <2>2. k - 1 \in 0..n /\ k \in 0..n /\ r \in U /\ Joined(b, r, k - 1)
    BY <1>1, <1>8
  <2> HIDE DEF r
  <2>3. Joined(b, Join(r, q[k]), k)
    BY <2>2, JoinedMore DEF n, q
  <2> QED
    BY <1>3, <2>1, <2>2, <2>3
<1>9. f[1..n] \in P[n]
  <2> HIDE DEF P
  <2> QED
    BY <1>1, <1>7, <1>8, FoldSteps
<1>10. Joined(b, f[1..n], n)
  <2>1. n \in 0..n
    BY <1>1
  <2> QED
    BY <1>9, <2>1
<1> QED
  BY <1>6, <1>10 DEF n, q
-----------------------------------------------------------------------------
(* What the loop and the kernel do with the base.                          *)

\* A base that differs in what no queue depends on, and whose kernel is told.
LEMMA GoodTold ==
  ASSUME NEW b, Good(b), NEW r \in Base, Same(b, r, {"changes", "epoll"}), Kernel(r)
  PROVE  Good(r) /\ r.flags = b.flags
<1> DEFINE but == {"changes", "epoll"}
<1>1. r.flags = b.flags /\ r.event_count = b.event_count
  BY DEF Same, Fields
<1>2. \A g : With(r, g) = With(b, g)
  BY <1>1 DEF With
<1>3. Tally(r) /\ Rules(r)
  BY <1>1 DEF Good, Tally, Tallied, Rules
<1>4. /\ {"activequeues"} \cap but = {} /\ {"active_later"} \cap but = {}
      /\ {"timeheap", "timeout"} \cap but = {} /\ {"list", "count"} \cap but = {}
  OBVIOUS
<1>5. /\ ActiveIn(b, With(b, "ACTIVE")) /\ LaterIn(b, With(b, "LATER"))
      /\ TimedIn(b, With(b, "TIMEOUT")) /\ Mapped(b, With(b, "INSERTED"))
  BY DEF Good
<1> HIDE DEF but
<1>6. Same(b, r, but)
  BY DEF but
<1>7. /\ ActiveIn(r, With(b, "ACTIVE")) /\ LaterIn(r, With(b, "LATER"))
      /\ TimedIn(r, With(b, "TIMEOUT")) /\ Mapped(r, With(b, "INSERTED"))
  BY <1>4, <1>5, <1>6, Untouched
<1> QED
  BY <1>1, <1>2, <1>3, <1>7 DEF Good

LEMMA SameWatched ==
  ASSUME NEW b, NEW r, Same(b, r, {"changes", "epoll"}), NEW fd
  PROVE  Watched(r, fd) = Watched(b, fd)
BY DEF Same, Fields, Watched

\* Who is in the map is an event.
LEMMA InsertedEvents ==
  ASSUME NEW b, Good(b)
  PROVE  With(b, "INSERTED") \in SUBSET Events
BY DEF Good, Rules, With, Callbacks

\* After the changes the kernel watches what the events want.
LEMMA ApplyChangesWorks ==
  ASSUME NEW b, Good(b)
  PROVE  /\ Good(ApplyChanges(b)) /\ ApplyChanges(b).flags = b.flags
         /\ \A fd \in Fds : ApplyChanges(b).epoll[fd] = Watched(ApplyChanges(b), fd)
<1> DEFINE r == ApplyChanges(b)
           v == [fd \in Fds |-> NoChange]
           w == [fd \in Fds |-> ApplyOneChange(b.epoll[fd], b.changes[fd])]
<1>1. /\ b \in Base /\ b.changes \in [Fds -> Changes] /\ b.epoll \in [Fds -> SUBSET Types]
      /\ Kernel(b)
  BY DEF Good, Base
<1>2. r = [b EXCEPT !.changes = v, !.epoll = w]
  BY <1>1 DEF ApplyChanges, Base
<1>3. v \in [Fds -> Changes]
  BY DEF Changes, NoChange
<1>4. \A fd \in Fds : w[fd] \in SUBSET Types
  BY <1>1 DEF ApplyOneChange, Changes
<1>5. w \in [Fds -> SUBSET Types]
  BY <1>4
<1>6. \A fd \in Fds : v[fd] = NoChange /\ w[fd] = ApplyOneChange(b.epoll[fd], b.changes[fd])
  OBVIOUS
<1> HIDE DEF r, v, w
<1>7. r \in Base /\ Same(b, r, {"changes", "epoll"}) /\ r.changes = v /\ r.epoll = w
  BY <1>1, <1>2, <1>3, <1>5 DEF Base, Same, Fields
<1>8. ASSUME NEW fd \in Fds PROVE w[fd] = Watched(b, fd)
  <2>1. Told(b, fd) /\ w[fd] = ApplyOneChange(b.epoll[fd], b.changes[fd])
    BY <1>1, <1>6 DEF Kernel
  <2>2. CASE b.changes[fd].listed
    BY <2>1, <2>2 DEF Told, ApplyOneChange
  <2>3. CASE ~b.changes[fd].listed
    BY <2>1, <2>3 DEF Told, ApplyOneChange, NoChange
  <2> QED
    BY <2>2, <2>3
<1>9. \A fd \in Fds : r.epoll[fd] = Watched(r, fd)
  BY <1>7, <1>8, SameWatched
<1>10. Kernel(r)
  BY <1>6, <1>7, <1>9 DEF Kernel, Told, NoChange
<1> QED
  BY <1>7, <1>9, <1>10, GoodTold DEF r

\* A descriptor that no event watches may be closed.
LEMMA CloseFdWorks ==
  ASSUME NEW b, Good(b), NEW fd \in Fds, Here(With(b, "INSERTED"), fd) = {}
  PROVE  /\ Good(CloseFd(b, fd)) /\ CloseFd(b, fd).flags = b.flags
         /\ CloseFd(b, fd).running_priority = b.running_priority
         /\ CloseFd(b, fd).event_continue = b.event_continue
<1> DEFINE r == CloseFd(b, fd)
           w == [b.epoll EXCEPT ![fd] = {}]
<1>1. b \in Base /\ b.epoll \in [Fds -> SUBSET Types] /\ Kernel(b)
  BY DEF Good, Base
<1>2. r = [b EXCEPT !.epoll = w]
  BY <1>1 DEF CloseFd, Base
<1>3. w \in [Fds -> SUBSET Types]
  BY <1>1
<1>4. w[fd] = {} /\ \A g \in Fds \ {fd} : w[g] = b.epoll[g]
  BY <1>1
<1> HIDE DEF r, w
<1>5. /\ r \in Base /\ Same(b, r, {"changes", "epoll"}) /\ r.epoll = w
      /\ r.changes = b.changes /\ r.changelist = b.changelist
      /\ r.running_priority = b.running_priority /\ r.event_continue = b.event_continue
  BY <1>1, <1>2, <1>3 DEF Base, Same, Fields
<1>6. Watched(b, fd) = {}
  <2>1. Mapped(b, With(b, "INSERTED"))
    BY DEF Good
  <2>2. Watched(b, fd) = UNION {What[e] : e \in Here(With(b, "INSERTED"), fd)}
    BY <2>1, InsertedEvents, WatchedIs
  <2> QED
    BY <2>2
<1>7. \A g : Watched(r, g) = Watched(b, g)
  BY <1>5, SameWatched
<1>8. ASSUME NEW g \in Fds PROVE Told(r, g)
  <2>1. Told(b, g)
    BY <1>1 DEF Kernel
  <2>2. CASE g = fd
    BY <2>1, <2>2, <1>4, <1>5, <1>6, <1>7 DEF Told
  <2>3. CASE g # fd
    BY <2>1, <2>3, <1>4, <1>5, <1>7 DEF Told
  <2> QED
    BY <2>2, <2>3
<1>9. Kernel(r)
  BY <1>8 DEF Kernel
<1> QED
  BY <1>5, <1>9, GoodTold DEF r

\* What the program set for the next timeout of a persistent event.
LEMMA RescheduleWorks ==
  ASSUME NEW b, Good(b), NEW e \in Events, NEW res
  PROVE  Works(b, Reschedule(b, e, res), e, {"INSERTED", "TIMEOUT"})
<1> DEFINE up == {"INSERTED", "TIMEOUT"}
           from == IF "TIMEOUT" \in res THEN b.timeout[e] ELSE Now(b)
           run_at == from + b.io_timeout[e]
           at == IF run_at < Now(b) THEN Now(b) + b.io_timeout[e] ELSE run_at
           m == AddIo(b, e)
<1>1. /\ b.timeout[e] \in Int /\ b.io_timeout[e] \in Int
      /\ b.tv_cache \in Int \cup {None}
  BY DEF Good, Base
<1>2. Now(b) \in Int
  BY <1>1 DEF Now
<1>3. from \in Int
  BY <1>1, <1>2
<1> HIDE DEF from
<1>4. at \in Int
  BY <1>1, <1>2, <1>3
<1>5. Reschedule(b, e, res) = IF b.io_timeout[e] = 0 THEN b ELSE AddTimeout(m, e, at)
  BY DEF Reschedule, from
<1> HIDE DEF at
<1>6. Works(b, m, e, up)
  BY AddIoWorks
<1> HIDE DEF m
<1>7. Works(m, AddTimeout(m, e, at), e, up)
  BY <1>4, <1>6, AddTimeoutWorks DEF Works
<1> HIDE DEF up
<1>8. Works(b, AddTimeout(m, e, at), e, up) /\ Works(b, b, e, up)
  BY <1>6, <1>7, WorksTwice, WorksNot
<1> QED
  BY <1>5, <1>8 DEF up

\* event_remove_timer().
LEMMA RemoveTimerWorks ==
  ASSUME NEW b, Good(b), NEW e \in Events
  PROVE  Works(b, [RemoveTimeout(b, e) EXCEPT !.io_timeout[e] = 0], e, {})
<1> DEFINE m == RemoveTimeout(b, e)
           v == [m.io_timeout EXCEPT ![e] = 0]
           r == [m EXCEPT !.io_timeout = v]
<1>1. Works(b, m, e, {})
  BY RemoveTimeoutWorks
<1> HIDE DEF m
<1>2. Good(m) /\ v \in [Events -> Int]
  BY <1>1 DEF Works, Good, Base
<1>3. [m EXCEPT !.io_timeout[e] = 0] = r
  BY <1>2 DEF Good, Base
<1> HIDE DEF v
<1>4. r \in Base /\ Same(m, r, {"io_timeout"})
  BY <1>2, SetFree
<1> HIDE DEF r
<1>5. /\ Same(m, r, Free) /\ r.running_priority = m.running_priority
      /\ r.tv_cache = m.tv_cache /\ r.event_continue = m.event_continue
  BY <1>4 DEF Same, Free, Fields
<1>6. Good(r) /\ r.flags = m.flags
  BY <1>2, <1>4, <1>5, GoodStill
<1>7. Works(b, r, e, {})
  BY <1>1, <1>5, <1>6 DEF Works, Final
<1> QED
  BY <1>3, <1>7 DEF m

\* Time passes for all that wait for it, so the heap stays one.
Aged(b) ==
  [b EXCEPT !.timeout = [e \in Events |-> Earlier(@[e])],
            !.tv_cache = IF @ = None THEN @ ELSE @ - 1]

LEMMA AgedGood ==
  ASSUME NEW b, Good(b), \A e \in With(b, "TIMEOUT") : b.timeout[e] > -MaxLate
  PROVE  /\ Good(Aged(b)) /\ Aged(b).flags = b.flags
         /\ Same(b, Aged(b), {"timeout", "tv_cache"})
<1> DEFINE v == [e \in Events |-> Earlier(b.timeout[e])]
           w == IF b.tv_cache = None THEN b.tv_cache ELSE b.tv_cache - 1
           r == Aged(b)
           but == {"timeout", "tv_cache"}
<1>1. /\ b \in Base /\ b.timeout \in [Events -> Int] /\ b.tv_cache \in Int \cup {None}
      /\ MaxLate \in Nat
  BY EventAssumption DEF Good, Base
<1>2. r = [b EXCEPT !.timeout = v, !.tv_cache = w]
  BY <1>1 DEF Aged, Base
<1>3. v \in [Events -> Int] /\ w \in Int \cup {None}
  <2>1. \A e \in Events : b.timeout[e] \in Int /\ Earlier(b.timeout[e]) \in Int
    BY <1>1 DEF Earlier
  <2> QED
    BY <1>1, <2>1
<1>4. ASSUME NEW i \in With(b, "TIMEOUT"), NEW j \in With(b, "TIMEOUT"),
             b.timeout[i] <= b.timeout[j]
      PROVE  v[i] <= v[j]
  <2>1. i \in Events /\ j \in Events
    BY TimedEvents
  <2>2. v[i] = b.timeout[i] - 1 /\ v[j] = b.timeout[j] - 1
    BY <2>1 DEF Earlier
  <2> HIDE DEF v
  <2> QED
    BY <1>1, <1>4, <2>1, <2>2
<1> HIDE DEF r, v, w
<1>5. r \in Base /\ Same(b, r, but) /\ r.timeout = v
  BY <1>1, <1>2, <1>3 DEF Base, Same, Fields
<1>6. r.flags = b.flags /\ r.event_count = b.event_count /\ r.timeheap = b.timeheap
  BY <1>5 DEF Same, Fields
<1>7. \A g : With(r, g) = With(b, g)
  BY <1>6 DEF With
<1>8. Tally(r) /\ Rules(r)
  BY <1>6 DEF Good, Tally, Tallied, Rules
<1>9. /\ {"changelist", "count", "changes", "epoll"} \cap but = {}
      /\ {"activequeues"} \cap but = {} /\ {"active_later"} \cap but = {}
      /\ {"list", "count"} \cap but = {}
  OBVIOUS
<1>10. /\ Kernel(b) /\ ActiveIn(b, With(b, "ACTIVE")) /\ LaterIn(b, With(b, "LATER"))
       /\ Mapped(b, With(b, "INSERTED"))
  BY DEF Good
<1> HIDE DEF but
<1>11. /\ Kernel(r) /\ ActiveIn(r, With(b, "ACTIVE")) /\ LaterIn(r, With(b, "LATER"))
       /\ Mapped(r, With(b, "INSERTED"))
  BY <1>5, <1>9, <1>10, Untouched
<1>12. TimedIn(r, With(b, "TIMEOUT"))
  <2>1. Holds(b.timeheap, With(b, "TIMEOUT")) /\ IsHeap(b.timeheap, b.timeout)
    BY DEF Good, TimedIn
  <2>2. /\ Len(b.timeheap) \in Nat
        /\ \A k \in 1..Len(b.timeheap) : b.timeheap[k] \in With(b, "TIMEOUT")
    BY <2>1, SeqIs DEF Holds
  <2>3. ASSUME NEW k \in 2..Len(b.timeheap)
        PROVE  v[b.timeheap[k \div 2]] <= v[b.timeheap[k]]
    <3>1. k \in Nat /\ k >= 2 /\ k <= Len(b.timeheap)
      BY <2>2
    <3>2. k \div 2 \in Nat /\ k \div 2 >= 1 /\ k \div 2 < k
      BY <3>1, Half
    <3>3. k \in 1..Len(b.timeheap) /\ k \div 2 \in 1..Len(b.timeheap)
      BY <2>2, <3>1, <3>2
    <3>4. b.timeout[b.timeheap[k \div 2]] <= b.timeout[b.timeheap[k]]
      BY <2>1 DEF IsHeap
    <3> QED
      BY <1>4, <2>2, <3>3, <3>4
  <2> QED
    BY <1>5, <1>6, <2>1, <2>3 DEF TimedIn, IsHeap
<1>13. Good(r)
  BY <1>5, <1>7, <1>8, <1>11, <1>12 DEF Good
<1> QED
  BY <1>5, <1>6, <1>13 DEF r, but

\* The fields only the loop sets.
LEMMA LoopSets ==
  ASSUME NEW b, Good(b), NEW r \in Base, NEW but, Same(b, r, but), but \subseteq Free
  PROVE  Good(r) /\ r.flags = b.flags
<1>1. Same(b, r, Free)
  BY DEF Same
<1> QED
  BY <1>1, GoodStill

\* The loop runs the callbacks of the most urgent priority that has any.
LEMMA UrgentIs ==
  ASSUME NEW b, Good(b)
  PROVE  \/ Urgent(b) = -1
         \/ /\ Urgent(b) \in 0..NPri - 1 /\ b.activequeues[Urgent(b)] # <<>>
            /\ \A c \in With(b, "ACTIVE") : Urgent(b) <= Pri[c]
<1> DEFINE T == {i \in 0..NPri - 1 : b.activequeues[i] # <<>>}
<1>1. CASE T = {}
  BY <1>1 DEF Urgent
<1>2. CASE T # {}
  <2>1. T \subseteq Nat
    OBVIOUS
  <2>2. Urgent(b) = Min(T)
    BY <1>2 DEF Urgent
  <2>3. ASSUME NEW c \in With(b, "ACTIVE") PROVE Pri[c] \in T
    <3>1. Pri[c] \in 0..NPri - 1
      BY EventAssumption DEF With
    <3>2. Holds(b.activequeues[Pri[c]], {d \in With(b, "ACTIVE") : Pri[d] = Pri[c]})
      BY <3>1 DEF Good, ActiveIn
    <3>3. b.activequeues[Pri[c]] # <<>>
      BY <3>2, HoldsFirst
    <3> QED
      BY <3>1, <3>3
  <2>4. T \subseteq 0..NPri - 1 /\ \A i \in T : b.activequeues[i] # <<>>
    OBVIOUS
  <2> HIDE DEF T
  <2>5. PICK m \in T : \A k \in T : m <= k
    BY <1>2, <2>1, Least
  <2>6. Min(T) \in T /\ \A k \in T : Min(T) <= k
    BY <2>5 DEF Min
  <2> QED
    BY <2>2, <2>3, <2>4, <2>6
<1> QED
  BY <1>1, <1>2

-----------------------------------------------------------------------------
(* The invariant of the system.                                            *)

TypeOK ==
  /\ loop \in {"idle", "top", "wait", "process", "callback"}
  /\ current \in Callbacks \cup {None}
  /\ ready \in [Fds -> SUBSET (Types \cup {"HUP"})]
  /\ open \subseteq Fds
  /\ asked \subseteq Callbacks
  /\ finalizer \in {"none", "pending", "run"}

\* What is on a queue was asked for, or is the one that runs the finalizer.
Asked == \A c \in Callbacks : Queued(base, c) /\ ~Final(base, c) => c \in asked

\* One of the callbacks that are finalized together runs the finalizer, and is
\* on no queue but the one of the active ones, until then.
Finalizing ==
  /\ \A c \in Callbacks : Final(base, c) =>
       /\ finalizer # "none" /\ c \in ToSet(Together)
       /\ Counted \cap base.flags[c] \subseteq {"ACTIVE"}
       /\ finalizer = "run" => ~Queued(base, c)
  /\ \A c, d \in Callbacks : Final(base, c) /\ Final(base, d) => c = d
  /\ finalizer # "none" => asked \cap ToSet(Together) = {}
  /\ finalizer = "run" => current \notin ToSet(Together)

\* What was told before the wait stays true.
Informed == loop = "wait" => \A fd \in Fds : base.epoll[fd] = Watched(base, fd)

\* The callback that runs is of the priority the loop is at.
Running ==
  /\ loop \in {"process", "callback"} => base.running_priority \in 0..NPri - 1
  /\ loop = "process" => base.activequeues[base.running_priority] # <<>>
  /\ current # None => loop = "callback" /\ Pri[current] = base.running_priority

Inv == TypeOK /\ Good(base) /\ Asked /\ Finalizing /\ Informed /\ Running

\* The loop knows of each active event that goes before those it runs.
UrgentRuns ==
  loop = "process" \/ (loop = "callback" /\ ~base.event_continue) =>
    \A e \in Events : "ACTIVE" \in base.flags[e] => base.running_priority <= Pri[e]

-----------------------------------------------------------------------------
(* The first state.                                                        *)

LEMMA InitGood ==
  ASSUME Init
  PROVE  Good(base)
<1>1. /\ base.flags = [c \in Callbacks |-> {}] /\ base.event_count = 0
      /\ base.activequeues = [i \in 0..NPri - 1 |-> <<>>] /\ base.active_later = <<>>
      /\ base.timeheap = <<>> /\ base.list = [f \in Fds |-> <<>>]
      /\ base.count = [f \in Fds |-> NoEvents] /\ base.epoll = [f \in Fds |-> {}]
      /\ base.changes = [f \in Fds |-> NoChange]
  BY DEF Init
<1>2. base \in Base
  <2>1. NoEvents \in [Types -> Int] /\ NoChange \in Changes /\ MaxLate \in Nat
    BY EventAssumption DEF NoEvents, NoChange, Changes
  <2>2. /\ [f \in Fds |-> NoEvents] \in [Fds -> [Types -> Int]]
        /\ [f \in Fds |-> NoChange] \in [Fds -> Changes]
        /\ [e \in Events |-> -MaxLate] \in [Events -> Int]
        /\ [f \in Fds |-> <<>>] \in [Fds -> Seq(Events)]
        /\ [i \in 0..NPri - 1 |-> <<>>] \in [0..NPri - 1 -> Seq(Callbacks)]
    BY <2>1, EmptySeq
  <2> QED
    BY <2>2, EmptySeq DEF Init, Base
<1>3. \A flag : With(base, flag) = {}
  BY <1>1 DEF With
<1>4. Rules(base)
  BY <1>1 DEF Rules, Callbacks
<1>5. Tally(base)
  <2>1. Tallied(base) = {}
    BY <1>1 DEF Tallied
  <2> QED
    BY <1>1, <2>1, FS_EmptySet DEF Tally
<1>6. Kernel(base)
  <2>1. \A fd \in Fds : Watched(base, fd) = {}
    BY <1>1 DEF Watched, NoEvents
  <2> QED
    BY <1>1, <2>1 DEF Kernel, Told, NoChange
<1>7. \A S : S = {} => Holds(<<>>, S)
  BY HoldsNothing
<1>8. ActiveIn(base, {}) /\ LaterIn(base, {}) /\ TimedIn(base, {})
  <2>1. \A at : IsHeap(<<>>, at)
    BY EmptySeq DEF IsHeap
  <2> QED
    BY <1>1, <1>7, <2>1 DEF ActiveIn, LaterIn, TimedIn
<1>9. Mapped(base, {})
  <2>1. \A fd \in Fds : Here({}, fd) = {} /\ \A t \in Types : Wanting({}, fd, t) = {}
    BY DEF Here, Wanting
  <2>2. Cardinality({}) = 0
    BY FS_EmptySet
  <2>3. ASSUME NEW fd \in Fds
        PROVE  /\ Holds(base.list[fd], Here({}, fd))
               /\ \A t \in Types : base.count[fd][t] = Cardinality(Wanting({}, fd, t))
    <3>1. base.list[fd] = <<>> /\ base.count[fd] = NoEvents
      BY <1>1
    <3>2. Holds(base.list[fd], Here({}, fd))
      BY <1>7, <2>1, <3>1
    <3>3. \A t \in Types : base.count[fd][t] = 0
      BY <3>1 DEF NoEvents
    <3> QED
      BY <2>1, <2>2, <3>2, <3>3
  <2> QED
    BY <2>3 DEF Mapped
<1> QED
  BY <1>2, <1>3, <1>4, <1>5, <1>6, <1>8, <1>9 DEF Good

LEMMA InitInv == Init => Inv /\ UrgentRuns
<1> SUFFICES ASSUME Init PROVE Inv /\ UrgentRuns
  OBVIOUS
<1>1. base.flags = [c \in Callbacks |-> {}]
  BY DEF Init
<1>2. TypeOK /\ Informed /\ Running /\ UrgentRuns
  BY DEF Init, TypeOK, Informed, Running, UrgentRuns
<1>3. Asked /\ Finalizing
  BY <1>1, EventAssumption DEF Init, Asked, Finalizing, Queued, Final
<1> QED
  BY <1>2, <1>3, InitGood DEF Inv

-----------------------------------------------------------------------------
(* The steps.                                                              *)

\* A call of the program for one callback, that may be used.
Calls(c) ==
  /\ Good(base') /\ Usable(c)
  /\ \A d \in Callbacks \ {c} : base'.flags[d] = base.flags[d]
  /\ base'.flags[c] \subseteq base.flags[c] \cup Counted
  /\ base'.running_priority = base.running_priority
  /\ asked' \subseteq asked \cup {c} /\ asked \ {c} \subseteq asked'
  /\ Queued(base', c) => c \in asked'
  /\ InProgram
  /\ UNCHANGED <<loop, current, ready, open, finalizer>>

LEMMA CallsKeep ==
  ASSUME Inv, NEW c \in Callbacks, Calls(c)
  PROVE  Inv'
<1>1. ~Final(base, c) /\ ~Final(base', c)
  BY DEF Inv, Finalizing, Usable, Calls, Final, Counted
<1>2. TypeOK'
  BY DEF Inv, TypeOK, Calls
<1>3. Asked'
  <2> SUFFICES ASSUME NEW d \in Callbacks, Queued(base', d), ~Final(base', d)
               PROVE  d \in asked'
    BY DEF Asked
  <2>1. CASE d = c
    BY <2>1 DEF Calls
  <2>2. CASE d # c
    BY <2>2 DEF Inv, Asked, Queued, Final, Calls
  <2> QED
    BY <2>1, <2>2
<1>4. Finalizing'
  <2>1. \A d \in Callbacks : Final(base', d) =>
          d # c /\ Final(base, d) /\ base'.flags[d] = base.flags[d]
    BY <1>1 DEF Calls, Final
  <2>2. finalizer' # "none" => asked' \cap ToSet(Together) = {}
    BY DEF Inv, Finalizing, Calls, Usable
  <2> QED
    BY <2>1, <2>2 DEF Inv, Finalizing, Calls, Queued
<1>5. Informed'
  BY DEF Informed, Calls, InProgram
<1>6. Running'
  BY DEF Inv, Running, Calls, InProgram
<1> QED
  BY <1>2, <1>3, <1>4, <1>5, <1>6 DEF Inv, Calls

\* Steps that ask for nothing and delete nothing.
LEMMA ServesKeeps ==
  ASSUME Inv, Serves(base, base'), current' \in {current, None},
         UNCHANGED <<asked, finalizer>>
  PROVE  Good(base)' /\ Asked' /\ Finalizing'
<1>1. Good(base)'
  BY DEF Serves
<1>2. Asked'
  BY DEF Inv, Asked, Serves
<1>3. Finalizing'
  <2>1. None \notin ToSet(Together)
    <3>1. ToSet(Together) \subseteq Callbacks
      BY EventAssumption, SeqIs DEF ToSet
    <3> QED
      BY <3>1, EventAssumption
  <2> QED
    BY <2>1 DEF Inv, Finalizing, Serves, Queued
<1> QED
  BY <1>1, <1>2, <1>3

\* Urgency: no event becomes active that the loop should know of and does not.
Quiet(c) ==
  /\ loop' = loop /\ base'.running_priority = base.running_priority
  /\ base.event_continue => base'.event_continue
  /\ \A e \in Events \ {c} : "ACTIVE" \in base'.flags[e] => "ACTIVE" \in base.flags[e]
  /\ c \in Events /\ "ACTIVE" \in base'.flags[c] =>
       \/ "ACTIVE" \in base.flags[c] \/ base'.event_continue
       \/ Pri[c] >= base.running_priority

LEMMA QuietKeeps ==
  ASSUME Inv, InProgram, NEW c, Quiet(c)
  PROVE  UrgentRuns => UrgentRuns'
<1> SUFFICES ASSUME UrgentRuns, loop = "callback", ~base'.event_continue,
                    NEW e \in Events, "ACTIVE" \in base'.flags[e]
             PROVE  base.running_priority <= Pri[e]
  BY DEF UrgentRuns, Quiet, InProgram
<1>1. ~base.event_continue
  BY DEF Quiet
<1>2. CASE "ACTIVE" \in base.flags[e]
  BY <1>1, <1>2 DEF UrgentRuns
<1>3. CASE "ACTIVE" \notin base.flags[e]
  <2>1. e = c /\ Pri[e] >= base.running_priority
    BY <1>3 DEF Quiet
  <2>2. base.running_priority \in 0..NPri - 1 /\ Pri[e] \in 0..NPri - 1
    BY EventAssumption DEF Inv, Running, Callbacks
  <2> QED
    BY <2>1, <2>2
<1> QED
  BY <1>2, <1>3

\* A call that only a callback's own functions make.
LEMMA WorksCalls ==
  ASSUME Inv, NEW c \in Callbacks, Works(base, base', c, {"INSERTED", "TIMEOUT"}), Usable(c),
         InProgram, UNCHANGED <<loop, current, ready, open, finalizer>>,
         asked' \subseteq asked \cup {c}, asked \ {c} \subseteq asked',
         Queued(base', c) => c \in asked'
  PROVE  Calls(c) /\ Quiet(c)
<1>1. Calls(c)
  BY DEF Works, Calls, Counted
<1>2. Quiet(c)
  BY DEF Works, Quiet, Callbacks
<1> QED
  BY <1>1, <1>2

LEMMA WorksLess ==
  ASSUME NEW b, NEW r, NEW c, NEW up, Works(b, r, c, {}), up = {"INSERTED", "TIMEOUT"}
  PROVE  Works(b, r, c, up)
BY DEF Works

LEMMA AddKeeps ==
  ASSUME Inv, NEW e \in Events, Add(e)
  PROVE  Inv' /\ (UrgentRuns => UrgentRuns')
<1>1. PICK tv \in Delays[e] \cup {None} : Call(EventAdd(base, e, tv))
  BY DEF Add
<1>2. e \in Callbacks /\ Good(base)
  BY DEF Callbacks, Inv
<1>3. Works(base, base', e, {"INSERTED", "TIMEOUT"})
  BY <1>1, <1>2, EventAddWorks DEF Call
<1>4. Calls(e) /\ Quiet(e)
  BY <1>1, <1>2, <1>3, WorksCalls DEF Add, Call
<1> QED
  BY <1>1, <1>2, <1>4, CallsKeep, QuietKeeps DEF Call

LEMMA DelKeeps ==
  ASSUME Inv, NEW c \in Callbacks, Del(c)
  PROVE  Inv' /\ (UrgentRuns => UrgentRuns')
<1>1. Good(base) /\ ~Final(base, c) /\ base' = EventDel(base, c)
  BY DEF Inv, Finalizing, Usable, Del, Call
<1>2. Works(base, base', c, {}) /\ ~Queued(base', c)
  BY <1>1, EventDelWorks
<1>3. Works(base, base', c, {"INSERTED", "TIMEOUT"})
  BY <1>2, WorksLess
<1>4. Calls(c) /\ Quiet(c)
  BY <1>2, <1>3, WorksCalls DEF Del, Call
<1> QED
  BY <1>4, CallsKeep, QuietKeeps DEF Del, Call

LEMMA RemoveTimerKeeps ==
  ASSUME Inv, NEW e \in Events, RemoveTimer(e)
  PROVE  Inv' /\ (UrgentRuns => UrgentRuns')
<1>1. e \in Callbacks /\ Good(base) /\ ~Final(base, e)
  BY DEF Callbacks, Inv, Finalizing, Usable, RemoveTimer
<1>2. Works(base, base', e, {})
  BY <1>1, RemoveTimerWorks DEF RemoveTimer, Call
<1>3. Works(base, base', e, {"INSERTED", "TIMEOUT"})
  BY <1>2, WorksLess
<1>4. Queued(base', e) => e \in asked
  BY <1>1, <1>2 DEF Inv, Asked, Works, Queued
<1>5. Calls(e) /\ Quiet(e)
  BY <1>1, <1>3, <1>4, WorksCalls DEF RemoveTimer, Call
<1> QED
  BY <1>1, <1>5, CallsKeep, QuietKeeps DEF RemoveTimer, Call

LEMMA ActivateKeeps ==
  ASSUME Inv, NEW e \in Events, Activate(e)
  PROVE  Inv' /\ (UrgentRuns => UrgentRuns')
<1>1. e \in Callbacks /\ Good(base)
  BY DEF Callbacks, Inv
<1>2. {"WRITE"} \in SUBSET Reasons
  BY DEF Reasons, Types
<1>3. Activates(base, base', e)
  BY <1>1, <1>2, EventActiveWorks DEF Activate, Call
<1>4. Calls(e)
  BY <1>3 DEF Activates, Calls, Activate, Call, Counted
<1>5. Quiet(e)
  BY <1>3 DEF Activates, Quiet, Activate, Call, Callbacks
<1> QED
  BY <1>1, <1>4, <1>5, CallsKeep, QuietKeeps DEF Activate, Call

LEMMA ScheduleKeeps ==
  ASSUME Inv, NEW d \in Deferreds, Schedule(d)
  PROVE  Inv' /\ (UrgentRuns => UrgentRuns')
<1>1. d \in Callbacks /\ d \notin Events /\ Good(base)
  BY EventAssumption DEF Callbacks, Inv
<1>2. Works(base, base', d, {"ACTIVE", "LATER"})
  BY <1>1, DeferredScheduleWorks DEF Schedule, Call
<1>3. Calls(d)
  BY <1>2 DEF Works, Calls, Schedule, Call, Counted
<1>4. Quiet(d)
  BY <1>1, <1>2 DEF Works, Quiet, Schedule, Call, Callbacks
<1> QED
  BY <1>1, <1>3, <1>4, CallsKeep, QuietKeeps DEF Schedule, Call

\* The callback that runs the finalizer goes before no event that is active.
FirstIsLast ==
  Together # <<>> /\ Together[1] \in Events => Pri[Together[1]] = NPri - 1

LEMMA FinalizeKeeps ==
  ASSUME Inv, Finalize
  PROVE  Inv' /\ (FirstIsLast /\ UrgentRuns => UrgentRuns')
<1>1. Good(base) /\ \A c \in Callbacks : ~Final(base, c)
  BY DEF Inv, Finalizing, Finalize
<1>2. base' = FinalizeMany(base, current) /\ Together # <<>>
  BY DEF Finalize, Call
<1>3. PICK target \in ToSet(Together) :
           /\ Good(base') /\ target \in Callbacks
           /\ target = current \/ target = Together[1]
           /\ \A c \in Callbacks : Final(base', c) <=> c = target
           /\ \A c \in ToSet(Together) \ {target} : ~Queued(base', c)
           /\ Counted \cap base'.flags[target] \subseteq {"ACTIVE"}
           /\ \A c \in Callbacks \ ToSet(Together) : base'.flags[c] = base.flags[c]
           /\ \A c \in Callbacks \ {target} : base'.flags[c] \subseteq base.flags[c]
           /\ base'.running_priority = base.running_priority
           /\ base'.event_continue = base.event_continue
  BY <1>1, <1>2, FinalizeManyWorks
<1>4. /\ InProgram /\ UNCHANGED <<loop, current, ready, open>> /\ finalizer' = "pending"
      /\ asked' = asked \ ToSet(Together)
  BY DEF Finalize, Call
<1>5. TypeOK' /\ Informed'
  BY <1>4 DEF Inv, TypeOK, Informed, InProgram
<1>6. Asked'
  <2> SUFFICES ASSUME NEW c \in Callbacks, Queued(base', c), ~Final(base', c)
               PROVE  c \in asked'
    BY DEF Asked
  <2>1. c \notin ToSet(Together) /\ base'.flags[c] = base.flags[c]
    BY <1>3
  <2> QED
    BY <1>1, <1>4, <2>1 DEF Inv, Asked, Queued
<1>7. Finalizing'
  BY <1>3, <1>4 DEF Finalizing
<1>8. Running'
  BY <1>3, <1>4 DEF Inv, Running, InProgram
<1>9. ASSUME FirstIsLast, UrgentRuns PROVE UrgentRuns'
  <2>1. InProgram
    BY <1>4
  <2>2. ASSUME loop = "callback", target \in Events PROVE Pri[target] >= base.running_priority
    <3>1. base.running_priority \in 0..NPri - 1 /\ Pri[target] \in 0..NPri - 1
      BY <1>3, <2>2, EventAssumption DEF Inv, Running
    <3>2. CASE target = current
      BY <1>3, <3>1, <3>2, EventAssumption DEF Inv, Running
    <3>3. CASE target = Together[1]
      BY <1>2, <1>9, <2>2, <3>1, <3>3 DEF FirstIsLast
    <3> QED
      BY <1>3, <3>2, <3>3
  <2>3. CASE loop = "callback"
    <3>1. Quiet(target)
      BY <1>3, <1>4, <2>2, <2>3 DEF Quiet, Callbacks
    <3> QED
      BY <1>9, <2>1, <3>1, QuietKeeps
  <2>4. CASE loop # "callback"
    BY <1>4, <2>4 DEF UrgentRuns, InProgram
  <2> QED
    BY <2>3, <2>4
<1> QED
  BY <1>3, <1>5, <1>6, <1>7, <1>8, <1>9 DEF Inv

\* A base with the same flags serves what it served.
LEMMA SameFlagsServe ==
  ASSUME Good(base'), base'.flags = base.flags
  PROVE  Serves(base, base')
BY DEF Serves, Final, Queued

LEMMA CloseKeeps ==
  ASSUME Inv, NEW fd \in Fds, Close(fd)
  PROVE  Inv' /\ (UrgentRuns => UrgentRuns')
<1>1. /\ Good(base) /\ base' = CloseFd(base, fd) /\ InProgram
      /\ UNCHANGED <<loop, current, deadline, asked, finalizer>>
  BY DEF Inv, Close
<1>2. Here(With(base, "INSERTED"), fd) = {}
  <2>1. ASSUME NEW e \in Here(With(base, "INSERTED"), fd) PROVE FALSE
    <3>1. e \in Events /\ e \in Callbacks /\ "INSERTED" \in base.flags[e] /\ Fd[e] = fd
      BY <1>1, <2>1, InsertedEvents DEF Here, With
    <3>2. Queued(base, e)
      BY <3>1 DEF Queued, Counted
    <3>3. ~Final(base, e)
      BY <3>1 DEF Inv, Finalizing, Counted
    <3>4. e \in asked
      BY <3>1, <3>2, <3>3 DEF Inv, Asked
    <3> QED
      BY <3>1, <3>4 DEF Close
  <2> QED
    BY <2>1
<1>3. /\ Good(base') /\ base'.flags = base.flags
      /\ base'.running_priority = base.running_priority
      /\ base'.event_continue = base.event_continue
  BY <1>1, <1>2, CloseFdWorks
<1>4. Good(base)' /\ Asked' /\ Finalizing'
  BY <1>1, <1>3, SameFlagsServe, ServesKeeps
<1>5. TypeOK'
  BY <1>1 DEF Inv, TypeOK, Close
<1>6. Informed' /\ Running'
  BY <1>1, <1>3 DEF Inv, Informed, Running, InProgram
<1>7. UrgentRuns => UrgentRuns'
  BY <1>1, <1>3 DEF UrgentRuns, InProgram
<1> QED
  BY <1>4, <1>5, <1>6, <1>7 DEF Inv

\* Steps of the kernel, and what leaves the base and the loop alone.
LEMMA BaseStays ==
  ASSUME Inv, UNCHANGED <<base, loop, current, asked, finalizer>>,
         open' \subseteq Fds, ready' \in [Fds -> SUBSET (Types \cup {"HUP"})]
  PROVE  Inv' /\ (UrgentRuns => UrgentRuns')
BY DEF Inv, UrgentRuns, TypeOK, Asked, Finalizing, Informed, Running

LEMMA OutsideKeeps ==
  ASSUME Inv, NEW fd \in Fds, Open(fd) \/ Drain(fd) \/ BecomesReady(fd)
  PROVE  Inv' /\ (UrgentRuns => UrgentRuns')
<1>1. TypeOK
  BY DEF Inv
<1>2. CASE Open(fd)
  BY <1>1, <1>2, BaseStays DEF Open, Call, TypeOK
<1>3. CASE Drain(fd)
  <2>1. ready' \in [Fds -> SUBSET (Types \cup {"HUP"})]
    BY <1>1, <1>3 DEF TypeOK, Drain
  <2> QED
    BY <1>1, <1>3, <2>1, BaseStays DEF Drain, TypeOK
<1>4. CASE BecomesReady(fd)
  <2>1. UNION Range(What) \subseteq Types
    BY EvMapAssumption DEF Range
  <2>2. ready' \in [Fds -> SUBSET (Types \cup {"HUP"})]
    BY <1>1, <1>4, <2>1 DEF TypeOK, BecomesReady
  <2> QED
    BY <1>1, <1>4, <2>2, BaseStays DEF BecomesReady, TypeOK
<1> QED
  BY <1>2, <1>3, <1>4

LEMMA TickKeeps ==
  ASSUME Inv, Tick
  PROVE  Inv' /\ (UrgentRuns => UrgentRuns')
<1>1. /\ Good(base) /\ base' = Aged(base) /\ loop \in {"wait", "callback"}
      /\ UNCHANGED <<loop, current, ready, open, asked, finalizer>>
  BY DEF Inv, Tick, Aged
<1>2. \A e \in With(base, "TIMEOUT") : base.timeout[e] > -MaxLate
  BY <1>1, TimedEvents DEF Tick, TimesInUse, With, Is
<1>3. Good(base') /\ base'.flags = base.flags /\ Same(base, base', {"timeout", "tv_cache"})
  BY <1>1, <1>2, AgedGood
<1>4. /\ base'.running_priority = base.running_priority
      /\ base'.event_continue = base.event_continue
      /\ base'.epoll = base.epoll /\ base'.count = base.count
      /\ base'.activequeues = base.activequeues
  BY <1>3 DEF Same, Fields
<1>5. Good(base)' /\ Asked' /\ Finalizing'
  BY <1>1, <1>3, SameFlagsServe, ServesKeeps
<1>6. TypeOK'
  BY <1>1 DEF Inv, TypeOK
<1>7. Informed' /\ Running'
  BY <1>1, <1>4 DEF Inv, Informed, Running, Watched
<1>8. UrgentRuns => UrgentRuns'
  BY <1>1, <1>3, <1>4 DEF UrgentRuns
<1> QED
  BY <1>5, <1>6, <1>7, <1>8 DEF Inv

\* The loop sets what only it sets, and is not among the callbacks then.
LEMMA DispatchKeeps ==
  ASSUME Inv, Dispatch
  PROVE  Inv' /\ UrgentRuns'
<1> DEFINE r == [base EXCEPT !.tv_cache = None]
<1>1. /\ Good(base) /\ base' = r /\ loop = "idle" /\ loop' = "top"
      /\ UNCHANGED <<current, ready, open, asked, finalizer>>
  BY DEF Inv, Dispatch
<1>2. r \in Base /\ Same(base, r, {"tv_cache"}) /\ {"tv_cache"} \subseteq Free
  BY <1>1 DEF Good, Base, Same, Fields, Free
<1>3. Good(r) /\ r.flags = base.flags
  BY <1>1, <1>2, LoopSets
<1> HIDE DEF r
<1>4. Good(base)' /\ Asked' /\ Finalizing'
  BY <1>1, <1>3, SameFlagsServe, ServesKeeps
<1>5. TypeOK' /\ Informed' /\ Running' /\ UrgentRuns'
  BY <1>1 DEF Inv, TypeOK, Informed, Running, UrgentRuns
<1> QED
  BY <1>4, <1>5 DEF Inv

\* A turn begins.
LEMMA TurnGood ==
  ASSUME Inv
  PROVE  /\ Good(Turn) /\ Turn.flags = base.flags
         /\ Same(base, Turn, {"event_continue", "n_deferreds"})
<1> DEFINE but == {"event_continue", "n_deferreds"}
<1>1. Good(base)
  BY DEF Inv
<1>2. Turn = [base EXCEPT !.event_continue = FALSE, !.n_deferreds = 0]
  BY DEF Turn
<1>3. base \in Base /\ FALSE \in BOOLEAN /\ 0 \in Int
  BY <1>1 DEF Good
<1>4. Turn \in Base
  BY <1>2, <1>3 DEF Base
<1>5. Same(base, Turn, but)
  BY <1>2, <1>3 DEF Base, Same, Fields
<1>6. but \subseteq Free
  BY DEF Free
<1> HIDE DEF but
<1> QED
  BY <1>1, <1>4, <1>5, <1>6, LoopSets DEF but

LEMMA EndsKeeps ==
  ASSUME Inv, Ends
  PROVE  Inv' /\ UrgentRuns'
<1> DEFINE r == [Turn EXCEPT !.tv_cache = None]
<1>1. /\ base' = r /\ loop = "top" /\ loop' = "idle"
      /\ UNCHANGED <<current, ready, open, asked, finalizer>>
  BY DEF Ends
<1>2. Good(Turn) /\ Turn.flags = base.flags
  BY TurnGood
<1>3. r \in Base /\ Same(Turn, r, {"tv_cache"}) /\ {"tv_cache"} \subseteq Free
  BY <1>2 DEF Good, Base, Same, Fields, Free
<1>4. Good(r) /\ r.flags = base.flags
  BY <1>2, <1>3, LoopSets
<1> HIDE DEF r
<1>5. Good(base)' /\ Asked' /\ Finalizing'
  BY <1>1, <1>4, SameFlagsServe, ServesKeeps
<1>6. TypeOK' /\ Informed' /\ Running' /\ UrgentRuns'
  BY <1>1 DEF Inv, TypeOK, Informed, Running, UrgentRuns
<1> QED
  BY <1>5, <1>6 DEF Inv

\* Those that were put off are active, and the kernel is told.
LEMMA WaitsKeeps ==
  ASSUME Inv, Waits
  PROVE  Inv' /\ UrgentRuns'
<1> DEFINE j == MakeLaterActive(Turn)
           s == [j EXCEPT !.tv_cache = None]
<1>1. /\ base' = ApplyChanges(s) /\ loop = "top" /\ loop' = "wait"
      /\ UNCHANGED <<current, ready, open, asked, finalizer>>
  BY DEF Waits
<1>2. Good(Turn) /\ Turn.flags = base.flags
  BY TurnGood
<1>3. Joined(Turn, j, Len(Turn.active_later))
  BY <1>2, AllJoin
<1> HIDE DEF j
<1>4. Good(j)
  BY <1>3 DEF Joined
<1>5. s \in Base /\ Same(j, s, {"tv_cache"}) /\ {"tv_cache"} \subseteq Free
  BY <1>4 DEF Good, Base, Same, Fields, Free
<1>6. Good(s) /\ s.flags = j.flags
  BY <1>4, <1>5, LoopSets
<1> HIDE DEF s
<1>7. /\ Good(base') /\ base'.flags = j.flags
      /\ \A fd \in Fds : base'.epoll[fd] = Watched(base', fd)
  BY <1>1, <1>6, ApplyChangesWorks
<1>8. \A k \in 1..Len(Turn.active_later) : "LATER" \in base.flags[Turn.active_later[k]]
  <2>1. Holds(Turn.active_later, With(Turn, "LATER"))
    BY <1>2 DEF Good, LaterIn
  <2>2. \A k \in 1..Len(Turn.active_later) : Turn.active_later[k] \in With(Turn, "LATER")
    BY <2>1, HoldsFirst
  <2> QED
    BY <1>2, <2>2 DEF With
<1>9. ASSUME NEW c \in Callbacks
      PROVE  /\ Final(base', c) <=> Final(base, c)
             /\ Final(base, c) => base'.flags[c] = base.flags[c]
             /\ Queued(base', c) => Queued(base, c)
  <2>1. CASE \E k \in 1..Len(Turn.active_later) : Turn.active_later[k] = c
    <3>1. "LATER" \in base.flags[c]
      BY <1>8, <2>1
    <3>2. base'.flags[c] = (base.flags[c] \ {"LATER"}) \cup {"ACTIVE"}
      BY <1>2, <1>3, <1>7, <2>1 DEF Joined
    <3>3. ~Final(base, c)
      BY <3>1 DEF Inv, Finalizing, Counted
    <3> QED
      BY <3>1, <3>2, <3>3 DEF Final, Queued, Counted
  <2>2. CASE ~\E k \in 1..Len(Turn.active_later) : Turn.active_later[k] = c
    <3>1. base'.flags[c] = base.flags[c]
      BY <1>2, <1>3, <1>7, <2>2 DEF Joined
    <3> QED
      BY <3>1 DEF Final, Queued
  <2> QED
    BY <2>1, <2>2
<1>10. Serves(base, base')
  BY <1>7, <1>9 DEF Serves
<1>11. Good(base)' /\ Asked' /\ Finalizing'
  BY <1>1, <1>10, ServesKeeps
<1>12. TypeOK' /\ Informed' /\ Running' /\ UrgentRuns'
  BY <1>1, <1>7 DEF Inv, TypeOK, Informed, Running, UrgentRuns
<1> QED
  BY <1>11, <1>12 DEF Inv

LEMMA ReturnsKeeps ==
  ASSUME Inv, Returns
  PROVE  Inv' /\ UrgentRuns'
<1>1. PICK fds \in SetToSeqs(ReadyFds) :
        LET cached == [FoldLeft(IoActive, base, fds) EXCEPT !.tv_cache = 0]
            late == TimeoutProcess(cached)
        IN /\ base' = [late EXCEPT !.running_priority = Urgent(late)]
           /\ loop' = IF Urgent(late) = -1 THEN "top" ELSE "process"
  BY DEF Returns
<1> DEFINE io == FoldLeft(IoActive, base, fds)
           cached == [io EXCEPT !.tv_cache = 0]
           late == TimeoutProcess(cached)
           r == [late EXCEPT !.running_priority = Urgent(late)]
<1>2. /\ Good(base) /\ loop = "wait" /\ UNCHANGED <<current, ready, open, asked, finalizer>>
      /\ ready \in [Fds -> SUBSET (Types \cup {"HUP"})] /\ open \subseteq Fds
  BY DEF Inv, TypeOK, Returns
<1>3. base' = r /\ loop' = IF Urgent(late) = -1 THEN "top" ELSE "process"
  BY <1>1
<1>4. fds \in Seq(Fds)
  <2>1. ReadyFds \subseteq Fds
    BY <1>2 DEF ReadyFds
  <2>2. fds \in [1..Cardinality(ReadyFds) -> ReadyFds]
    BY <1>1 DEF SetToSeqs
  <2>3. Cardinality(ReadyFds) \in Nat
    BY <2>1, EvMapAssumption, FS_Subset, FS_CardinalityType
  <2>4. fds \in [1..Cardinality(ReadyFds) -> Fds]
    BY <2>1, <2>2
  <2> QED
    BY <2>3, <2>4, ArrayIs
<1>5. Serves(base, io)
  BY <1>2, <1>4, AllReadyServes
<1> HIDE DEF io
<1>6. Serves(io, cached)
  <2>1. Good(io)
    BY <1>5 DEF Serves
  <2>2. io \in Base /\ 0 \in Int \cup {None} /\ {"tv_cache"} \subseteq Free
    BY <2>1 DEF Good, Free
  <2>3. cached \in Base
    BY <2>2 DEF Base
  <2>4. Same(io, cached, {"tv_cache"})
    BY <2>2 DEF Base, Same, Fields
  <2>5. Good(cached) /\ cached.flags = io.flags
    BY <2>1, <2>2, <2>3, <2>4, LoopSets
  <2> HIDE DEF cached
  <2> QED
    BY <2>5 DEF Serves, Final, Queued
<1> HIDE DEF cached
<1>7. Serves(cached, late)
  BY <1>6, TimeoutProcessServes DEF Serves
<1> HIDE DEF late
<1>8. Good(late)
  BY <1>7 DEF Serves
<1>9. \/ Urgent(late) = -1
      \/ /\ Urgent(late) \in 0..NPri - 1 /\ late.activequeues[Urgent(late)] # <<>>
         /\ \A c \in With(late, "ACTIVE") : Urgent(late) <= Pri[c]
  BY <1>8, UrgentIs
<1>10. Urgent(late) \in Int
  BY <1>9, EventAssumption
<1>11. /\ r \in Base /\ Same(late, r, {"running_priority"}) /\ {"running_priority"} \subseteq Free
       /\ r.running_priority = Urgent(late) /\ r.activequeues = late.activequeues
  BY <1>8, <1>10 DEF Good, Base, Same, Fields, Free
<1> HIDE DEF r
<1>12. Good(r) /\ r.flags = late.flags
  BY <1>8, <1>11, LoopSets
<1>13. Serves(base, base')
  <2>1. Serves(late, r)
    BY <1>12 DEF Serves, Final, Queued
  <2> QED
    BY <1>3, <1>5, <1>6, <1>7, <2>1, ServesOn
<1>14. Good(base)' /\ Asked' /\ Finalizing'
  BY <1>2, <1>13, ServesKeeps
<1>15. TypeOK' /\ Informed'
  BY <1>2, <1>3 DEF Inv, TypeOK, Informed
<1>16. current = None
  BY <1>2 DEF Inv, Running
<1>17. Running'
  BY <1>2, <1>3, <1>9, <1>11, <1>16 DEF Running
<1>18. UrgentRuns'
  BY <1>3, <1>9, <1>11, <1>12 DEF UrgentRuns, With, Callbacks
<1> QED
  BY <1>14, <1>15, <1>17, <1>18 DEF Inv

\* The callback that runs next: it is active, and of the priority the loop is at.
Following == Head(base.activequeues[base.running_priority])

LEMMA FirstIs ==
  ASSUME Inv, loop = "process"
  PROVE  /\ Following \in Callbacks /\ "ACTIVE" \in base.flags[Following] /\ Queued(base, Following)
         /\ Pri[Following] = base.running_priority
<1> DEFINE i == base.running_priority
           S == {c \in With(base, "ACTIVE") : Pri[c] = i}
<1>1. i \in 0..NPri - 1 /\ base.activequeues[i] # <<>> /\ Holds(base.activequeues[i], S)
  BY DEF Inv, Running, Good, ActiveIn
<1>2. Following \in S
  <2> HIDE DEF S
  <2> QED
    BY <1>1, HoldsFirst DEF Following
<1> QED
  BY <1>2 DEF With, Queued, Counted

\* What running it makes of the base and of what was asked for.
LEMMA RunsWorks ==
  ASSUME Inv, Runs
  PROVE  /\ Works(base, base', Following, {"INSERTED", "TIMEOUT"})
         /\ asked' \subseteq asked /\ asked \ {Following} \subseteq asked'
         /\ IF Final(base, Following)
            THEN /\ current' = None /\ finalizer' = "run"
                 /\ base'.flags = [base.flags EXCEPT ![Following] = @ \ {"ACTIVE"}]
            ELSE /\ current' = Following /\ UNCHANGED finalizer
                 /\ Queued(base', Following) => Following \in asked'
<1> DEFINE c == Following
           up == {"INSERTED", "TIMEOUT"}
           stays == c \in Persist \/ c \in Deferreds \/ Final(base, c)
           taken == IF stays THEN RemoveActive(base, c) ELSE EventDel(base, c)
<1>1. /\ base' = IF c \in Persist /\ ~Final(base, c) THEN Reschedule(taken, c, base.res[c])
                 ELSE taken
      /\ current' = IF Final(base, c) THEN None ELSE c
      /\ finalizer' = IF Final(base, c) THEN "run" ELSE finalizer
      /\ asked' = IF stays /\ c \notin Deferreds THEN asked ELSE asked \ {c}
      /\ loop = "process"
  BY DEF Runs, Following, Final, Is
<1>2. /\ c \in Callbacks /\ "ACTIVE" \in base.flags[c] /\ Queued(base, c) /\ Good(base)
      /\ base.flags \in [Callbacks -> SUBSET AllFlags]
  BY <1>1, FirstIs DEF Inv, Good, Base
<1> HIDE DEF c
<1>3. /\ Works(base, RemoveActive(base, c), c, up)
      /\ RemoveActive(base, c).flags = [base.flags EXCEPT ![c] = @ \ {"ACTIVE"}]
  BY <1>2, RemoveActiveWorks
<1>4. asked' \subseteq asked /\ asked \ {c} \subseteq asked'
  BY <1>1
<1>5. CASE Final(base, c)
  BY <1>1, <1>3, <1>4, <1>5 DEF c
<1>6. CASE ~Final(base, c)
  <2>1. c \in asked
    BY <1>2, <1>6 DEF Inv, Asked
  <2>2. CASE c \in Persist
    <3>1. c \in Events /\ c \notin Deferreds
      BY <2>2, EventAssumption
    <3>2. base' = Reschedule(RemoveActive(base, c), c, base.res[c]) /\ asked' = asked
      BY <1>1, <1>6, <2>2, <3>1
    <3>3. Works(RemoveActive(base, c), base', c, up)
      <4>1. Good(RemoveActive(base, c))
        BY <1>3 DEF Works
      <4> QED
        BY <3>1, <3>2, <4>1, RescheduleWorks
    <3>4. Works(base, base', c, up)
      BY <1>3, <3>3, WorksTwice
    <3> QED
      BY <1>1, <1>4, <1>6, <2>1, <3>2, <3>4 DEF c
  <2>3. CASE c \in Deferreds
    <3>1. c \notin Persist
      BY <2>3, EventAssumption
    <3>2. base' = RemoveActive(base, c)
      BY <1>1, <1>6, <2>3, <3>1
    <3>3. /\ "INSERTED" \notin base.flags[c] /\ "TIMEOUT" \notin base.flags[c]
          /\ "LATER" \notin base.flags[c]
      BY <1>2, <2>3 DEF Good, Rules
    <3>4. ~Queued(base', c)
      BY <1>2, <1>3, <3>2, <3>3 DEF Queued, Counted
    <3> QED
      BY <1>1, <1>3, <1>4, <1>6, <3>2, <3>4 DEF c
  <2>4. CASE c \notin Persist /\ c \notin Deferreds
    <3>1. base' = EventDel(base, c)
      BY <1>1, <1>6, <2>4
    <3>2. Works(base, base', c, {}) /\ ~Queued(base', c)
      BY <1>2, <1>6, <3>1, EventDelWorks
    <3>3. Works(base, base', c, up)
      BY <3>2, WorksLess
    <3> QED
      BY <1>1, <1>4, <1>6, <3>2, <3>3 DEF c
  <2> QED
    BY <2>2, <2>3, <2>4
<1> QED
  BY <1>5, <1>6 DEF c

LEMMA RunsKeeps ==
  ASSUME Inv, Runs
  PROVE  Inv' /\ (UrgentRuns => UrgentRuns')
<1> DEFINE c == Following
           up == {"INSERTED", "TIMEOUT"}
<1>1. /\ loop = "process" /\ loop' = "callback" /\ UNCHANGED <<deadline, ready, open>>
      /\ Good(base) /\ base.flags \in [Callbacks -> SUBSET AllFlags]
  BY DEF Runs, Inv, Good, Base
<1>2. /\ c \in Callbacks /\ "ACTIVE" \in base.flags[c] /\ Queued(base, c)
      /\ Pri[c] = base.running_priority
  BY <1>1, FirstIs
<1>3. /\ Works(base, base', c, up)
      /\ asked' \subseteq asked /\ asked \ {c} \subseteq asked'
      /\ IF Final(base, c)
         THEN /\ current' = None /\ finalizer' = "run"
              /\ base'.flags = [base.flags EXCEPT ![c] = @ \ {"ACTIVE"}]
         ELSE /\ current' = c /\ UNCHANGED finalizer
              /\ Queued(base', c) => c \in asked'
  BY RunsWorks
<1> HIDE DEF c
<1>4. Final(base', c) <=> Final(base, c)
  BY <1>3 DEF Works, Final
<1>5. \A d \in Callbacks \ {c} : base'.flags[d] = base.flags[d]
  BY <1>3 DEF Works
<1>6. TypeOK'
  BY <1>1, <1>2, <1>3 DEF Inv, TypeOK
<1>7. Asked'
  <2> SUFFICES ASSUME NEW d \in Callbacks, Queued(base', d), ~Final(base', d)
               PROVE  d \in asked'
    BY DEF Asked
  <2>1. CASE d = c
    BY <1>3, <1>4, <2>1
  <2>2. CASE d # c
    BY <1>3, <1>5, <2>2 DEF Inv, Asked, Queued, Final
  <2> QED
    BY <2>1, <2>2
<1>8. None \notin ToSet(Together)
  <2>1. ToSet(Together) \subseteq Callbacks
    BY EventAssumption, SeqIs DEF ToSet
  <2> QED
    BY <2>1, EventAssumption
<1>9. Finalizing'
  <2>1. CASE Final(base, c)
    <3>1. /\ finalizer # "none" /\ c \in ToSet(Together)
          /\ Counted \cap base.flags[c] \subseteq {"ACTIVE"}
          /\ asked \cap ToSet(Together) = {}
      BY <1>2, <2>1 DEF Inv, Finalizing
    <3>2. base'.flags[c] = base.flags[c] \ {"ACTIVE"}
      BY <1>1, <1>2, <1>3, <2>1
    <3>3. ~Queued(base', c)
      BY <3>1, <3>2 DEF Queued
    <3>4. \A d \in Callbacks : Final(base', d) => d = c
      BY <1>2, <1>5, <2>1 DEF Inv, Finalizing, Final
    <3>5. asked' \cap ToSet(Together) = {}
      BY <1>3, <3>1
    <3> QED
      BY <1>3, <1>8, <2>1, <3>1, <3>3, <3>4, <3>5 DEF Finalizing, Queued
  <2>2. CASE ~Final(base, c)
    <3>1. \A d \in Callbacks : Final(base', d) =>
            Final(base, d) /\ base'.flags[d] = base.flags[d]
      BY <1>4, <1>5, <2>2 DEF Final
    <3>2. c \in asked
      BY <1>2, <2>2 DEF Inv, Asked
    <3>3. current' = c /\ finalizer' = finalizer
      BY <1>3, <2>2
    <3>4. finalizer # "none" => asked' \cap ToSet(Together) = {} /\ c \notin ToSet(Together)
      BY <1>3, <3>2 DEF Inv, Finalizing
    <3> QED
      BY <3>1, <3>3, <3>4 DEF Inv, Finalizing, Queued
  <2> QED
    BY <2>1, <2>2
<1>10. /\ base'.running_priority = base.running_priority
       /\ base'.event_continue = base.event_continue /\ Good(base')
  BY <1>3 DEF Works
<1>11. Informed'
  BY <1>1 DEF Informed
<1>12. Running'
  BY <1>1, <1>2, <1>3, <1>10 DEF Inv, Running
<1>13. UrgentRuns => UrgentRuns'
  <2>1. \A e \in Events : "ACTIVE" \in base'.flags[e] => "ACTIVE" \in base.flags[e]
    BY <1>3, <1>5 DEF Works, Callbacks
  <2> QED
    BY <1>1, <1>10, <2>1 DEF UrgentRuns
<1> QED
  BY <1>6, <1>7, <1>9, <1>10, <1>11, <1>12, <1>13 DEF Inv

LEMMA DoneKeeps ==
  ASSUME Inv, Done
  PROVE  Inv' /\ (UrgentRuns => UrgentRuns')
<1> DEFINE more == ~base.event_continue /\ base.activequeues[base.running_priority] # <<>>
           r == [base EXCEPT !.running_priority = -1]
<1>1. /\ loop = "callback" /\ current' = None
      /\ loop' = IF more THEN "process" ELSE "top"
      /\ base' = IF more THEN base ELSE r
      /\ UNCHANGED <<deadline, ready, open, asked, finalizer>>
      /\ Good(base)
  BY DEF Done, Inv
<1>2. base \in Base /\ -1 \in Int /\ {"running_priority"} \subseteq Free
  BY <1>1 DEF Good, Free
<1>3. Good(r) /\ r.flags = base.flags
  <2>1. r \in Base
    BY <1>2 DEF Base
  <2>2. Same(base, r, {"running_priority"})
    BY <1>2 DEF Base, Same, Fields
  <2> HIDE DEF r
  <2> QED
    BY <1>1, <1>2, <2>1, <2>2, LoopSets
<1> HIDE DEF r
<1>4. Good(base') /\ base'.flags = base.flags
  BY <1>1, <1>3
<1>5. Good(base)' /\ Asked' /\ Finalizing'
  BY <1>1, <1>4, SameFlagsServe, ServesKeeps
<1>6. TypeOK' /\ Informed' /\ Running' /\ (UrgentRuns => UrgentRuns')
  BY <1>1 DEF Inv, TypeOK, Informed, Running, UrgentRuns
<1> QED
  BY <1>5, <1>6 DEF Inv

-----------------------------------------------------------------------------
(* The theorems.                                                           *)

LEMMA StutterKeeps ==
  ASSUME Inv, UNCHANGED vars
  PROVE  Inv' /\ (UrgentRuns => UrgentRuns')
BY BaseStays DEF vars, Inv, TypeOK

\* Every step keeps the invariant.  Finalize does not tell the loop of the callback
\* that it activates; the others keep the urgent events first.
LEMMA StepKeeps ==
  ASSUME Inv, [Next]_vars
  PROVE  Inv' /\ (FirstIsLast /\ UrgentRuns => UrgentRuns')
<1>1. CASE \E e \in Events : Add(e) \/ RemoveTimer(e) \/ Activate(e)
  BY <1>1, AddKeeps, RemoveTimerKeeps, ActivateKeeps
<1>2. CASE \E c \in Callbacks : Del(c)
  BY <1>2, DelKeeps
<1>3. CASE \E d \in Deferreds : Schedule(d)
  BY <1>3, ScheduleKeeps
<1>4. CASE \E fd \in Fds : Close(fd) \/ Open(fd) \/ Drain(fd) \/ BecomesReady(fd)
  BY <1>4, CloseKeeps, OutsideKeeps
<1>5. CASE Finalize
  BY <1>5, FinalizeKeeps
<1>6. CASE Tick
  BY <1>6, TickKeeps
<1>7. CASE Dispatch
  BY <1>7, DispatchKeeps
<1>8. CASE LoopNext
  BY <1>8, EndsKeeps, WaitsKeeps, ReturnsKeeps, RunsKeeps, DoneKeeps DEF LoopNext
<1>9. CASE UNCHANGED vars
  BY <1>9, StutterKeeps
<1> QED
  BY <1>1, <1>2, <1>3, <1>4, <1>5, <1>6, <1>7, <1>8, <1>9 DEF Next

LEMMA Invariance == Spec => []Inv
<1>1. Init => Inv
  BY InitInv
<1>2. Inv /\ [Next]_vars => Inv'
  BY StepKeeps
<1> QED
  BY <1>1, <1>2, PTL DEF Spec

\* event_queue_insert_*() and event_queue_remove_*(), the heap and the counts of
\* evmap: whatever is called, in whatever order, each queue holds the callbacks
\* whose flags say so, each once; the heap has the earliest timeout on top, and
\* event_count and the counts of each descriptor are right.
THEOREM QueuesAsFlagged == Spec => []Bookkeeping
<1>1. Inv => Bookkeeping
  <2> SUFFICES ASSUME Inv PROVE Bookkeeping
    OBVIOUS
  <2>1. /\ Good(base) /\ base \in Base /\ Tally(base)
        /\ ActiveIn(base, With(base, "ACTIVE")) /\ LaterIn(base, With(base, "LATER"))
        /\ TimedIn(base, With(base, "TIMEOUT")) /\ Mapped(base, With(base, "INSERTED"))
        /\ loop \in {"idle", "top", "wait", "process", "callback"}
    BY DEF Inv, TypeOK, Good
  <2>2. base.flags \in [Callbacks -> SUBSET (Counted \cup {"FINALIZING"})]
    BY <2>1 DEF Base, AllFlags
  <2>3. base.event_count = Cardinality({p \in Callbacks \X Counted : Is(base, p[1], p[2])})
    BY <2>1, TalliedIs DEF Tally
  <2>4. \A flag : Flagged(flag) = With(base, flag)
    BY DEF Flagged, With, Is
  <2>5. \A q, S : Holds(q, S) => Lists(q, S)
    BY HoldsCount DEF Lists
  <2>6. ASSUME NEW i \in 0..NPri - 1
        PROVE  Lists(base.activequeues[i], {c \in Flagged("ACTIVE") : Pri[c] = i})
    BY <2>1, <2>4, <2>5 DEF ActiveIn
  <2>7. Lists(base.active_later, Flagged("LATER"))
    BY <2>1, <2>4, <2>5 DEF LaterIn
  <2>8. Lists(base.timeheap, Flagged("TIMEOUT")) /\ IsHeap(base.timeheap, base.timeout)
    BY <2>1, <2>4, <2>5 DEF TimedIn
  <2>9. ASSUME NEW fd \in Fds
        PROVE  LET here == {e \in Flagged("INSERTED") : Fd[e] = fd}
               IN /\ Lists(base.list[fd], here)
                  /\ \A t \in Types :
                       base.count[fd][t] = Cardinality({e \in here : t \in What[e]})
    BY <2>1, <2>4, <2>5 DEF Mapped, Here, Wanting
  <2> QED
    BY <2>1, <2>2, <2>3, <2>6, <2>7, <2>8, <2>9 DEF Bookkeeping
<1> QED
  BY <1>1, Invariance, PTL

\* epoll_dispatch() with or without the list of changes: while it waits, each
\* descriptor is watched for what its events want and for nothing else, however
\* often it was closed, opened and used again.
THEOREM KernelWatchesWhatIsWanted == Spec => []KernelWatches
<1>1. Inv => KernelWatches
  <2> SUFFICES ASSUME Inv, loop = "wait", NEW fd \in Fds
               PROVE  base.epoll[fd]
                        = UNION {What[e] : e \in {f \in Flagged("INSERTED") : Fd[f] = fd}}
    BY DEF KernelWatches
  <2>1. Good(base) /\ Mapped(base, With(base, "INSERTED")) /\ base.epoll[fd] = Watched(base, fd)
    BY DEF Inv, Good, Informed
  <2>2. Watched(base, fd) = UNION {What[e] : e \in Here(With(base, "INSERTED"), fd)}
    BY <2>1, InsertedEvents, WatchedIs
  <2>3. Here(With(base, "INSERTED"), fd) = {f \in Flagged("INSERTED") : Fd[f] = fd}
    BY DEF Here, With, Flagged, Is
  <2> QED
    BY <2>1, <2>2, <2>3
<1> QED
  BY <1>1, Invariance, PTL

\* event_del(): a callback that was deleted is on no queue until it is added,
\* activated or scheduled again, but for the one that runs the finalizer.
THEOREM DeletedIsOffTheQueues == Spec => []DeletedStaysQuiet
<1>1. Inv => DeletedStaysQuiet
  <2> SUFFICES ASSUME Inv, NEW c \in Callbacks \ asked, Counted \cap base.flags[c] # {}
               PROVE  finalizer = "pending" /\ c \in ToSet(Together)
    BY DEF DeletedStaysQuiet
  <2>1. Final(base, c)
    BY DEF Inv, Asked, Queued
  <2> QED
    BY <2>1 DEF Inv, TypeOK, Finalizing, Queued
<1> QED
  BY <1>1, Invariance, PTL

\* event_callback_finalize_many_(): the finalizer, which frees the callbacks, runs
\* when none of them is on a queue, once, and none of them runs afterwards.
THEOREM FreedAfterTheLastUse == Spec => NothingAfterFinalizer
<1> DEFINE Step ==
      /\ finalizer' = "run" => \A c \in ToSet(Together) : Counted \cap base'.flags[c] = {}
      /\ finalizer = "run" => finalizer' = "run" /\ current' \notin ToSet(Together)
<1>1. Inv /\ Inv' /\ [Next]_vars => [Step]_vars
  <2> SUFFICES ASSUME Inv, Inv', Next PROVE Step
    OBVIOUS
  <2>1. ASSUME finalizer' = "run", NEW c \in ToSet(Together)
        PROVE  Counted \cap base'.flags[c] = {}
    <3>1. c \in Callbacks
      BY EventAssumption, SeqIs DEF ToSet
    <3>2. asked' \cap ToSet(Together) = {}
      BY <2>1 DEF Inv, Finalizing
    <3>3. Queued(base', c) => Final(base', c)
      BY <3>1, <3>2 DEF Inv, Asked
    <3>4. ~Queued(base', c)
      BY <2>1, <3>1, <3>3 DEF Inv, Finalizing
    <3> QED
      BY <3>4 DEF Queued
  <2>2. finalizer = "run" => finalizer' = "run"
    BY DEF Next, Add, RemoveTimer, Activate, Del, Schedule, Close, Open, Drain, BecomesReady,
           Finalize, Tick, Dispatch, LoopNext, Ends, Waits, Returns, Runs, Done
  <2>3. finalizer' = "run" => current' \notin ToSet(Together)
    BY DEF Inv, Finalizing
  <2> QED
    BY <2>1, <2>2, <2>3
<1>2. [Step]_vars => [Step]_vars
  OBVIOUS
<1> QED
  BY <1>1, Invariance, PTL DEF Spec, NothingAfterFinalizer

\* event_process_active(): no event runs while one of a more urgent priority is
\* active, if the callback that event_callback_finalize_many_() activates is of the
\* last priority: the loop is told of every other.
THEOREM UrgentGoFirst == ASSUME FirstIsLast PROVE Spec => UrgentFirst
<1>1. Init => Inv /\ UrgentRuns
  BY InitInv
<1>2. Inv /\ UrgentRuns /\ [Next]_vars => (Inv /\ UrgentRuns)'
  BY StepKeeps
<1>3. Inv /\ UrgentRuns /\ [Next]_vars =>
        [loop = "process" /\ loop' = "callback" =>
           \A e \in Events : Is(base, e, "ACTIVE") => Pri[e] >= base.running_priority]_vars
  <2> SUFFICES ASSUME Inv, UrgentRuns, loop = "process", NEW e \in Events,
                      Is(base, e, "ACTIVE")
               PROVE  Pri[e] >= base.running_priority
    OBVIOUS
  <2>1. base.running_priority <= Pri[e]
    BY DEF UrgentRuns, Is
  <2>2. base.running_priority \in 0..NPri - 1 /\ Pri[e] \in 0..NPri - 1
    BY EventAssumption DEF Inv, Running, Callbacks
  <2> QED
    BY <2>1, <2>2
<1> QED
  BY <1>1, <1>2, <1>3, PTL DEF Spec, UrgentFirst
=============================================================================
