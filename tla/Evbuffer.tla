------------------------------ MODULE Evbuffer ------------------------------
(***************************************************************************)
(* buffer.c: a string of bytes kept in a list of chains.  A chain is a     *)
(* piece of memory of cap bytes: the first skip ("misalign") are free, then*)
(* come the bytes of data ("off" is their number), then free space.  Of a  *)
(* buffer,                                                                 *)
(*   chains  is the list from first to last,                               *)
(*   with    is last_with_datap: i points at the pointer to the chain i,   *)
(*   total   is total_len,                                                 *)
(*   added, deleted are n_add_for_cb and n_del_for_cb,                     *)
(*   told    is the length that its callback reckons from what it is told. *)
(* A buffer here has a callback, which is not deferred, and chains of its  *)
(* own memory: none is pinned, referenced or a piece of a file.            *)
(***************************************************************************)
EXTENDS Integers, Sequences, FiniteSetsExt, SequencesExt

CONSTANTS
  Buffers,      \* the struct evbuffers
  MinSize,      \* MIN_BUFFER_SIZE, the memory of the smallest chain
  MaxAuto,      \* EVBUFFER_CHAIN_MAX_AUTO_SIZE
  MaxRealign,   \* MAX_TO_REALIGN_IN_EXPAND
  MaxCopy,      \* MAX_TO_COPY_IN_EXPAND
  ReadVecs,     \* NUM_READ_IOVEC
  WriteVecs,    \* NUM_WRITE_IOVEC
  MaxBytes,     \* bound: the bytes in all buffers
  MaxSize,      \* bound: the bytes that one call adds or asks for
  MaxChains,    \* bound: the chains of a buffer
  Careful       \* the calls that the caller keeps off when they would go wrong

\* The calls that some callers are more careful with than the code asks them to be.
Delicate == {"prepend", "remove_buffer", "prepend_buffer"}

ASSUME EvbufferAssumption ==
  /\ {MinSize, MaxAuto, MaxRealign, MaxCopy, WriteVecs, MaxBytes, MaxSize, MaxChains}
       \subseteq Nat \ {0}
  /\ ReadVecs \in Nat \ {0, 1}
  /\ Careful \subseteq Delicate

VARIABLES
  bufs,   \* the struct evbuffers
  bytes   \* history: the string that each should hold

vars == <<bufs, bytes>>

---------------------------------------------------------------------------
(* Chains.                                                                 *)

\* The memory malloc() is asked for is doubled until it is enough.
Memory(size) ==
  LET double[n \in Nat] == IF n >= size THEN n ELSE double[2 * n]
  IN double[MinSize]

\* evbuffer_chain_new().
ChainNew(size) == [cap |-> Memory(size), skip |-> 0, data |-> <<>>]

Off(c) == Len(c.data)

\* Mutant: the misalignment is taken for space.
SpaceAround(c) == c.cap - Off(c)

\* CHAIN_SPACE_LEN().
Space(c) == c.cap - c.skip - Off(c)
IsEmpty(c) == c.data = <<>>

Align(c) == [c EXCEPT !.skip = 0]
ShouldRealign(c, n) ==
  /\ c.cap - Off(c) >= n
  /\ Off(c) < c.cap \div 2
  /\ Off(c) <= MaxRealign

Filled(c, data) == [c EXCEPT !.data = @ \o data]
Shortened(c, n) == [c EXCEPT !.skip = @ + n, !.data = SubSeq(@, n + 1, Len(@))]

Drop(s, n) == SubSeq(s, n + 1, Len(s))
Total(ns) == FoldLeft(+, 0, ns)
LengthOf(cs) == Total([i \in DOMAIN cs |-> Off(cs[i])])
Content(b) == FlattenSeq([i \in DOMAIN b.chains |-> b.chains[i].data])

---------------------------------------------------------------------------
(* Buffers.  mem says whether malloc() finds memory; an operation that     *)
(* fails leaves the buffer as it is, or as the code leaves it.             *)

\* evbuffer_new() and evbuffer_add_cb().
New == [chains |-> <<>>, with |-> 1, total |-> 0, added |-> 0, deleted |-> 0, told |-> 0]

\* ZERO_CHAIN().
Zeroed(b) == [b EXCEPT !.chains = <<>>, !.with = 1, !.total = 0]

\* Mutant: the counts are not cleared.
InvokeOnly(b) == [b EXCEPT !.told = @ + b.added - b.deleted]

\* evbuffer_run_callbacks().
Invoke(b) == [b EXCEPT !.told = @ + b.added - b.deleted, !.added = 0, !.deleted = 0]

Counted(b, n) == [b EXCEPT !.total = @ + n, !.added = @ + n]

\* Mutant: the last chain with data is freed too.
FreeFromLast(b) ==
  LET empty == {i \in b.with..Len(b.chains) : i > b.with \/ IsEmpty(b.chains[i])}
  IN IF empty = {} THEN b.chains ELSE SubSeq(b.chains, 1, b.with - 1)

\* evbuffer_free_trailing_empty_chains(): the chains that are left.
FreeTrailing(b) ==
  LET empty == {i \in b.with..Len(b.chains) : IsEmpty(b.chains[i])}
  IN IF empty = {} THEN b.chains ELSE SubSeq(b.chains, 1, Min(empty) - 1)

\* evbuffer_chain_insert().
ChainInsert(b, c) ==
  LET kept == FreeTrailing(b)
  IN [b EXCEPT !.chains = Append(kept, c),
               !.with = IF b.chains # <<>> /\ ~IsEmpty(c) THEN Len(kept) + 1 ELSE @,
               !.total = @ + Off(c)]

\* A list without chains gets one for n bytes.
Begun(b, n) == IF b.chains = <<>> THEN ChainInsert(b, ChainNew(n)) ELSE b

\* There is no memory for a chain that is needed.
AddFails(b, n, mem) ==
  /\ ~mem
  /\ b.chains # <<>> => LET c == b.chains[b.with] IN Space(c) < n /\ ~ShouldRealign(c, n)

\* evbuffer_add().
Add(b, data, mem) ==
  LET n == Len(data)
      begun == Begun(b, n)
      c == begun.chains[begun.with]
      InPlace(d) == Counted([begun EXCEPT !.chains[begun.with] = Filled(d, data)], n)
      remain == Space(c)
      larger == IF c.cap <= MaxAuto \div 2 THEN 2 * c.cap ELSE c.cap
      tmp == Filled(ChainNew(Max({n, larger})), Drop(data, remain))
      Split == Counted([begun EXCEPT !.chains[begun.with] =
                          Filled(c, SubSeq(data, 1, remain))], remain)
  IN IF AddFails(b, n, mem) THEN b
     ELSE IF remain >= n THEN Invoke(InPlace(c))
     ELSE IF ShouldRealign(c, n) THEN Invoke(InPlace(Align(c)))
     ELSE Invoke([ChainInsert(Split, tmp) EXCEPT !.added = @ + Off(tmp)])

\* The room before the data of the first chain.
Room(c) == IF IsEmpty(c) THEN c.cap ELSE c.skip

PrependFails(b, n, mem) == ~mem /\ (b.chains # <<>> => Room(Head(b.chains)) < n)

\* evbuffer_prepend(): what does not fit before the data of the first chain
\* goes to a new one; when there is no memory for that, the rest stays.
Prepend(b, data, mem) ==
  LET n == Len(data)
      begun == Begun(b, n)
      room == Room(Head(begun.chains))
      fits == Min({n, room})
      first == [Head(begun.chains) EXCEPT !.skip = room - fits, !.data = Drop(data, n - fits) \o @]
      some == Counted([begun EXCEPT !.chains[1] = first], fits)
      rest == n - fits
      new == ChainNew(rest)
      tmp == [new EXCEPT !.skip = new.cap - rest, !.data = SubSeq(data, 1, rest)]
  IN IF b.chains = <<>> /\ ~mem THEN b
     ELSE IF rest = 0 THEN Invoke(some)
     ELSE IF ~mem THEN some
     ELSE Invoke(Counted([some EXCEPT !.chains = <<tmp>> \o @, !.with = @ + 1], rest))

\* The number of chains, from the first of cs, that n bytes cover.
Covered(cs, n) == Max({k \in 0..Len(cs) : LengthOf(SubSeq(cs, 1, k)) <= n})

\* evbuffer_drain(): a pointer into a freed chain is set to the start.
Drain(b, len) ==
  LET n == Min({len, b.total})
      gone == Covered(b.chains, n)
      left == Drop(b.chains, gone)
      rest == n - LengthOf(SubSeq(b.chains, 1, gone))
      short == [b EXCEPT !.chains = <<Shortened(Head(left), rest)>> \o Tail(left),
                         !.with = IF @ <= gone + 1 THEN 1 ELSE @ - gone,
                         !.total = @ - n]
  IN IF b.total = 0 THEN b
     ELSE Invoke([IF n = b.total THEN Zeroed(b) ELSE short EXCEPT !.deleted = @ + n])

\* evbuffer_pullup(): the first n bytes come to be in the first chain.
Pullup(b, n, mem) ==
  LET first == Head(b.chains)
      inPlace == first.cap - first.skip >= n
      tmp == IF inPlace THEN first ELSE ChainNew(n)
      from == IF inPlace THEN 1 ELSE 0
      others == Drop(b.chains, from)
      need == n - Off(tmp)
      gone == Covered(others, need)
      rest == need - LengthOf(SubSeq(others, 1, gone))
      kept == Drop(others, gone)
      left == IF kept = <<>> THEN <<>> ELSE <<Shortened(Head(kept), rest)>> \o Tail(kept)
      last == from + gone
  IN IF n = 0 \/ n > b.total \/ Off(first) >= n \/ (~inPlace /\ ~mem) THEN b
     ELSE [b EXCEPT
            !.chains = <<[tmp EXCEPT !.data = SubSeq(Content(b), 1, n)]>> \o left,
            !.with = IF @ \in from + 1..last THEN 1
                     ELSE IF @ = last + 1 THEN IF left # <<>> /\ ~IsEmpty(Head(left)) THEN 2 ELSE 1
                     ELSE @ - last + 1]

\* evbuffer_expand_fast_(): the space is in up to n chains, which are realigned
\* on the way if they are empty.
ExpandFast(b, size, n, mem) ==
  LET last == Len(b.chains)
      At(i) == IF IsEmpty(b.chains[i]) THEN Align(b.chains[i]) ELSE b.chains[i]
      Avail(i) == Total([j \in 1..i - b.with + 1 |-> Space(At(b.with + j - 1))])
      Used(i) == Cardinality({j \in b.with..i : Space(At(j)) > 0})
      end == {i \in b.with..last : Avail(i) >= size \/ Used(i) = n}
      stop == IF end = {} THEN last ELSE Min(end)
      walked == [b EXCEPT !.chains = [i \in 1..last |-> IF i \in b.with..stop THEN At(i) ELSE @[i]]]
      nuked == SubSeq(walked.chains, 1, IF IsEmpty(b.chains[b.with]) THEN 0 ELSE b.with)
      more == IF nuked = <<>> THEN size ELSE size - Space(walked.chains[b.with])
  IN IF b.chains = <<>> THEN IF mem THEN ChainInsert(b, ChainNew(size)) ELSE b
     ELSE IF Avail(stop) >= size THEN walked
     ELSE IF Used(stop) < n
       THEN IF mem THEN [walked EXCEPT !.chains = Append(@, ChainNew(size - Avail(stop)))]
            ELSE walked
     ELSE [walked EXCEPT !.chains = IF mem THEN Append(nuked, ChainNew(more)) ELSE nuked]

\* Whether evbuffer_expand_fast_() has found the space: it has, or is -1.
Expanded(b, size) ==
  Total([i \in 1..Len(b.chains) - b.with + 1 |-> Space(b.chains[b.with + i - 1])]) >= size

\* The first chain with space, of evbuffer_read_setup_vecs_().
FirstWithSpace(b) == IF Space(b.chains[b.with]) = 0 THEN b.with + 1 ELSE b.with


\* readv() into the chains from there on, and what evbuffer_read() adds to them.
ReadInto(b, data) ==
  LET first == FirstWithSpace(b)
      Before(i) == Total([j \in 1..i - first |-> Space(b.chains[first + j - 1])])
      Part(i) == SubSeq(data, Before(i) + 1, Min({Before(i) + Space(b.chains[i]), Len(data)}))
      last == Min({i \in first..Len(b.chains) : Before(i) + Space(b.chains[i]) >= Len(data)})
  IN Invoke(Counted([b EXCEPT
       !.chains = [i \in DOMAIN @ |-> IF i \in first..last THEN Filled(@[i], Part(i)) ELSE @[i]],
       !.with = last], Len(data)))

\* evbuffer_expand_singlechain(): space for n bytes in one chain, which is used
\* as it is, realigned, replaced, made larger, or added.
ExpandSingle(b, n, mem) ==
  LET at == IF b.chains # <<>> /\ Space(b.chains[b.with]) = 0 THEN b.with + 1 ELSE b.with
      c == b.chains[at]
      Insert == IF mem THEN ChainInsert(b, ChainNew(n)) ELSE b
  IN IF at > Len(b.chains) THEN Insert
     ELSE IF Space(c) >= n THEN b
     ELSE IF IsEmpty(c) THEN Insert
     ELSE IF ShouldRealign(c, n) THEN [b EXCEPT !.chains[at] = Align(c)]
     ELSE IF Space(c) < c.cap \div 8 \/ Off(c) > MaxCopy
       THEN IF at < Len(b.chains) /\ Space(b.chains[at + 1]) >= n THEN b ELSE Insert
     ELSE IF mem THEN [b EXCEPT !.chains[at] = Filled(ChainNew(Off(c) + n), c.data)]
     ELSE b

---------------------------------------------------------------------------
(* Two buffers, as a function B.                                           *)

\* evbuffer_add_buffer(): COPY_CHAIN() or APPEND_CHAIN(), and ZERO_CHAIN().
AddBuffer(B, out, in) ==
  LET o == B[out]
      i == B[in]
      kept == IF o.total = 0 THEN <<>> ELSE FreeTrailing(o)
  IN IF i.total = 0 THEN B
     ELSE [B EXCEPT
            ![in] = Invoke([Zeroed(i) EXCEPT !.deleted = @ + i.total]),
            ![out] = Invoke(Counted([o EXCEPT !.chains = kept \o i.chains,
                                              !.with = Len(kept) + i.with], i.total))]

\* evbuffer_prepend_buffer(): COPY_CHAIN() or PREPEND_CHAIN().
PrependBuffer(B, out, in) ==
  LET o == B[out]
      i == B[in]
      after == IF o.total = 0 THEN <<>> ELSE o.chains
  IN IF i.total = 0 THEN B
     ELSE [B EXCEPT
            ![in] = Invoke([Zeroed(i) EXCEPT !.deleted = @ + i.total]),
            ![out] = Invoke(Counted([o EXCEPT
                       !.chains = i.chains \o after,
                       !.with = IF after = <<>> THEN i.with ELSE Len(i.chains) + @], i.total))]

\* Mutant: the pointer stays.
Stay(b) == b

\* advance_last_with_data().
Advance(b) ==
  LET stops == {i \in b.with..Len(b.chains) : i = Len(b.chains) \/ IsEmpty(b.chains[i + 1])}
  IN IF stops = {} THEN b ELSE [b EXCEPT !.with = Min(stops)]

\* evbuffer_remove_buffer(): whole chains are moved, the rest is copied by
\* evbuffer_add(), whose result is not looked at.
RemoveBuffer(B, src, dst, n, mem) ==
  LET s == B[src]
      d == B[dst]
      gone == Covered(s.chains, n)
      nread == LengthOf(SubSeq(s.chains, 1, gone))
      left == Drop(s.chains, gone)
      moved == Counted(Advance([d EXCEPT !.chains = FreeTrailing(d) \o SubSeq(s.chains, 1, gone)]), nread)
      copied == SubSeq(Head(left).data, 1, n - nread)
      to == Add(IF nread > 0 THEN moved ELSE d, copied, mem)
      short == [s EXCEPT !.chains = <<Shortened(Head(left), n - nread)>> \o Tail(left),
                         !.with = IF @ \in 2..gone + 1 THEN 1 ELSE @ - gone,
                         !.total = @ - n,
                         !.deleted = @ + n]
  IN IF n >= s.total THEN AddBuffer(B, dst, src)
     ELSE [B EXCEPT ![src] = Invoke(short), ![dst] = Invoke(to)]

---------------------------------------------------------------------------
(* The calls.                                                              *)

Init ==
  /\ bufs = [x \in Buffers |-> New]
  /\ bytes = [x \in Buffers |-> <<>>]

Used == UNION {ToSet(bytes[x]) : x \in Buffers}

\* n bytes that no buffer holds.
Fresh(n) == CHOOSE s \in [1..n -> (1..MaxBytes) \ Used] : \A i \in 1..n - 1 : s[i] < s[i + 1]
Sizes == 1..Min({MaxSize, MaxBytes - Cardinality(Used)})

\* A careful caller does not call evbuffer_prepend() and evbuffer_remove_buffer()
\* when memory is short, nor evbuffer_prepend_buffer() with a buffer that ends in
\* an empty chain.
MemoryFor(call) == IF call \in Careful THEN {TRUE} ELSE BOOLEAN
EndsEmpty(b) == IF b.chains = <<>> THEN FALSE ELSE IsEmpty(Last(b.chains))
Usable(x) == ~("prepend_buffer" \in Careful /\ EndsEmpty(bufs[x]))

Becomes(x, b, s) ==
  /\ Len(b.chains) <= MaxChains
  /\ bufs' = [bufs EXCEPT ![x] = b]
  /\ bytes' = [bytes EXCEPT ![x] = s]

evbuffer_add(x) ==
  \E n \in Sizes, mem \in BOOLEAN :
    Becomes(x, Add(bufs[x], Fresh(n), mem),
            IF AddFails(bufs[x], n, mem) THEN bytes[x] ELSE bytes[x] \o Fresh(n))

evbuffer_prepend(x) ==
  \E n \in Sizes, mem \in MemoryFor("prepend") :
    Becomes(x, Prepend(bufs[x], Fresh(n), mem),
            IF PrependFails(bufs[x], n, mem) THEN bytes[x] ELSE Fresh(n) \o bytes[x])

evbuffer_drain(x) ==
  \E n \in 1..MaxBytes : Becomes(x, Drain(bufs[x], n), Drop(bytes[x], n))

evbuffer_pullup(x) ==
  \E n \in 1..Len(bytes[x]), mem \in BOOLEAN :
    Becomes(x, Pullup(bufs[x], n, mem), bytes[x])

evbuffer_expand(x) ==
  \E n \in 1..MaxSize, mem \in BOOLEAN :
    Becomes(x, ExpandSingle(bufs[x], n, mem), bytes[x])

\* The socket gives no byte (it is at its end, or readv() fails), or some.
evbuffer_read(x) ==
  \E howmuch \in 1..MaxSize, n \in {0} \cup Sizes, mem \in BOOLEAN :
    LET room == ExpandFast(bufs[x], howmuch, ReadVecs, mem)
    IN /\ n <= howmuch
       /\ IF n > 0 /\ Expanded(room, howmuch)
          THEN Becomes(x, ReadInto(room, Fresh(n)), bytes[x] \o Fresh(n))
          ELSE Becomes(x, room, bytes[x])

\* writev() of the first chains; the socket takes as many bytes as it likes.
evbuffer_write(x) ==
  \E n \in 1..LengthOf(SubSeq(bufs[x].chains, 1, Min({WriteVecs, Len(bufs[x].chains)}))) :
    Becomes(x, Drain(bufs[x], n), Drop(bytes[x], n))

Become(B, s) ==
  /\ \A x \in Buffers : Len(B[x].chains) <= MaxChains
  /\ bufs' = B
  /\ bytes' = s

evbuffer_add_buffer(out, in) ==
  Become(AddBuffer(bufs, out, in),
         [bytes EXCEPT ![out] = @ \o bytes[in], ![in] = <<>>])

evbuffer_prepend_buffer(out, in) ==
  /\ Usable(in)
  /\ Become(PrependBuffer(bufs, out, in),
            [bytes EXCEPT ![out] = bytes[in] \o @, ![in] = <<>>])

evbuffer_remove_buffer(src, dst) ==
  \E n \in 1..MaxSize, mem \in MemoryFor("remove_buffer") :
    Become(RemoveBuffer(bufs, src, dst, n, mem),
           [bytes EXCEPT ![src] = Drop(@, n), ![dst] = @ \o SubSeq(bytes[src], 1, Min({n, Len(bytes[src])}))])

Next ==
  \/ \E x \in Buffers :
       \/ evbuffer_add(x) \/ evbuffer_prepend(x) \/ evbuffer_drain(x) \/ evbuffer_pullup(x)
       \/ evbuffer_expand(x) \/ evbuffer_read(x) \/ evbuffer_write(x)
  \/ \E x \in Buffers : \E y \in Buffers \ {x} :
       \/ evbuffer_add_buffer(x, y) \/ evbuffer_prepend_buffer(x, y) \/ evbuffer_remove_buffer(x, y)

Spec == Init /\ [][Next]_vars

---------------------------------------------------------------------------

\* No chain holds more than its memory: memcpy() stays within it.
ChainsFit ==
  \A x \in Buffers : \A i \in DOMAIN bufs[x].chains :
    LET c == bufs[x].chains[i] IN c.skip >= 0 /\ c.skip + Off(c) <= c.cap

\* last_with_datap is where evbuffer-internal.h:85-98 says: it points at the
\* last chain that has any data in it; if there is none, at the first pointer.
LastWithData ==
  \A x \in Buffers :
    LET full == {i \in DOMAIN bufs[x].chains : ~IsEmpty(bufs[x].chains[i])}
    IN bufs[x].with = IF full = {} THEN 1 ELSE Max(full)

\* The chains of a buffer hold the bytes that were added to it and not taken
\* from it, each once and in order, whatever calls failed for want of memory but
\* two: an evbuffer_remove_buffer() that finds none loses bytes, an
\* evbuffer_prepend() adds a part of them, and a Careful caller gives them memory.
SameBytes == \A x \in Buffers : Content(bufs[x]) = bytes[x]

\* What a callback has been told of bytes added and deleted adds up to the
\* length of the buffer, which is that of its chains, whatever calls failed but
\* those two: of the part that a failing evbuffer_prepend() adds it is told nothing.
LengthsAgree ==
  \A x \in Buffers :
    /\ bufs[x].total = LengthOf(bufs[x].chains)
    /\ bufs[x].told = bufs[x].total
=============================================================================
