---------------------------------- MODULE Tx ----------------------------------
(***************************************************************************)
(* The transactions of libpmemobj (tx.c) in one lane, on the persistent    *)
(* vectors of its undo logs (pvector.c), the allocator's operations        *)
(* (pmalloc.c, memops.c) and their redo log (redo.c), with a crash at any  *)
(* point and the recovery of the lane when the pool is opened.             *)
(*                                                                         *)
(* A call puts the functions it runs on todo, a stack; each action runs    *)
(* the function on its top.  A store that is persisted at once is one      *)
(* step.  Only the words of the program stay unflushed for longer, so      *)
(* those have the set of values a crash may leave of them.                 *)
(***************************************************************************)
EXTENDS Integers, Sequences, FiniteSets, SequencesExt

CONSTANTS
    Roots,                \* words of the root object
    Heap,                 \* blocks of the heap
    Values,               \* of a word of the program, among them 0
    RootValue,            \* what the constructor of the root object left in its words
    MAX_CACHED_RANGES, MAX_CACHED_RANGE_SIZE,
    PVECTOR_INIT_SIZE, PVECTOR_MAX_ARRAYS,
    FailingInserts,       \* bound: of what the tree may find no memory for a node
    Programs,             \* bound: sequences of calls
    MaxDepth, MaxCrashes  \* bounds, on the nesting of transactions and on crashes

ASSUME TxAssumption ==
    /\ Roots \in Nat \ {0} /\ Heap \in Nat \ {0}
    /\ {0, RootValue} \subseteq Values
    /\ FailingInserts \subseteq {"range", "object"}
    /\ {MAX_CACHED_RANGES, MAX_CACHED_RANGE_SIZE} \subseteq Nat \ {0}
    /\ {PVECTOR_INIT_SIZE, PVECTOR_MAX_ARRAYS, MaxDepth} \subseteq Nat \ {0}
    /\ MaxCrashes \in Nat
    /\ Programs \subseteq Seq({"begin", "add", "store", "alloc", "realloc", "free",
                               "commit", "abort"})

VARIABLES
    \* on media
    heap,         \* [bitmap, arrays, vec]: allocated blocks and undo log vectors
    redo,         \* the redo log of the lane, empty without a finish flag
    content,      \* what was constructed in a block
    undo_entry_offset,
    state,        \* TX_STATE_NONE or TX_STATE_COMMITTED
    durable,      \* values a crash may leave in a word
    \* run-time state
    word,         \* words of the program as loads find them
    nvalues,      \* of the contexts of the vectors, NoContext before pvector_init
    ranges,       \* the tree of ranges, as pairs of an offset and a size
    cache_slot, stage,
    depth,        \* of tx_entries
    last_errnum, todo,
    \* bounds
    program, crashes

media == <<heap, redo, content, undo_entry_offset, state>>
words == <<durable, word>>
tx == <<stage, depth, last_errnum>>
tree == <<ranges, cache_slot>>
bounds == <<program, crashes>>
vars == <<media, words, nvalues, tree, tx, todo, bounds>>

Blocks == 1 .. Heap
Skip == Heap + 1                      \* TX_SKIP_ENTRY_VALUE
Undo == {"alloc", "set", "free", "cache"}
NoContext == -1
Address(b) == Roots + 2 * b
Words == 1 .. Roots \cup {Address(b) : b \in Blocks}
Span(offset, size) == offset .. offset + size - 1

-----------------------------------------------------------------------------
(* pvector.c: array k holds the indices First(k) .. First(k + 1) - 1       *)

First(k) == PVECTOR_INIT_SIZE * (2 ^ k - 1)
Indices == 0 .. First(PVECTOR_MAX_ARRAYS) - 1
Arrays == 0 .. PVECTOR_MAX_ARRAYS - 1
Embedded == Heap + 1                  \* offset of the first array
ArrayOf(n) == CHOOSE k \in 0 .. PVECTOR_MAX_ARRAYS : First(k) <= n /\ n < First(k + 1)

\* Number of arrays pvector_init finds, and of values in the last of them
narrays(h, u) ==
    CHOOSE n \in 0 .. PVECTOR_MAX_ARRAYS :
        /\ n \in Arrays => h.arrays[u][n] = 0
        /\ \A k \in 0 .. n - 1 : h.arrays[u][k] # 0
LastValues(h, u) ==
    LET k == narrays(h, u) - 1
    IN CHOOSE c \in 0 .. First(k + 1) - First(k) :
           /\ First(k) + c < First(k + 1) => h.vec[u][First(k) + c] = 0
           /\ \A j \in First(k) .. First(k) + c - 1 : h.vec[u][j] # 0
Count(h, u) ==
    IF narrays(h, u) = 0 THEN 0 ELSE First(narrays(h, u) - 1) + LastValues(h, u)

pvector_last(u) == IF nvalues[u] = 0 THEN 0 ELSE heap.vec[u][nvalues[u] - 1]
pvector_first(u) == IF nvalues[u] = 0 THEN 0 ELSE heap.vec[u][0]

-----------------------------------------------------------------------------
(* Functions on the stack, and the stores of a redo log                    *)

PushBack(u) == [fn |-> "pvector_push_back", u |-> u]
PopBack(u, cb) == [fn |-> "pvector_pop_back", u |-> u, cb |-> cb]
Popped(u) == [fn |-> "popped", u |-> u]
ClearUndoLog(u, free) == [fn |-> "tx_clear_undo_log", u |-> u, free |-> free]
Pmalloc(u, k, made) == [fn |-> "pmalloc_construct", u |-> u, k |-> k, made |-> made]
Pfree(to) == [fn |-> "pfree", to |-> to]
Call(fn) == [fn |-> fn]

Bit(b) == [kind |-> "bit", b |-> b]
Entry(u, n) == [kind |-> "entry", u |-> u, n |-> n]
Array(u, k) == [kind |-> "array", u |-> u, n |-> k]
Put(to, value) == [to |-> to, value |-> value]

Stored(h, e) ==
    CASE e.to.kind = "bit" -> [h EXCEPT !.bitmap[e.to.b] = e.value]
      [] e.to.kind = "entry" -> [h EXCEPT !.vec[e.to.u][e.to.n] = e.value]
      [] e.to.kind = "array" -> [h EXCEPT !.arrays[e.to.u][e.to.n] = e.value]
Applied(h, log) == FoldLeft(Stored, h, log)

Running(fn) == todo # <<>> /\ Head(todo).fn = fn
Return == todo' = Tail(todo)
Then(fns) == todo' = fns \o Tail(todo)

Empty == [offset |-> 0, size |-> 0, data |-> [n \in 1 .. MAX_CACHED_RANGE_SIZE |-> 0]]
EmptyCache == [kind |-> "cache", ranges |-> [n \in 1 .. MAX_CACHED_RANGES |-> Empty]]
Nothing == -1     \* what an object is initialized from, if not from the word of another
Zero == 0
Object == [kind |-> "object", ranges |-> <<>>]

-----------------------------------------------------------------------------
\* A pool that was just created, with its root object
Init ==
    /\ heap = [bitmap |-> [b \in Blocks |-> FALSE],
               arrays |-> [u \in Undo |-> [k \in Arrays |-> 0]],
               vec |-> [u \in Undo |-> [n \in Indices |-> 0]]]
    /\ redo = <<>>
    /\ content = [b \in Blocks |-> Object]
    /\ undo_entry_offset = [b \in Blocks |-> 0]
    /\ state = "none"
    /\ word = [x \in Words |-> IF x \in 1 .. Roots THEN RootValue ELSE 0]
    /\ durable = [x \in Words |-> {word[x]}]
    /\ nvalues = [u \in Undo |-> NoContext]
    /\ ranges = {} /\ cache_slot = 0
    /\ stage = "none" /\ depth = 0 /\ last_errnum = FALSE
    /\ todo = <<>>
    /\ program \in Programs /\ crashes = 0

-----------------------------------------------------------------------------
(* redo.c, memops.c, pmalloc.c                                             *)

\* The stores of an operation are logged by one persist of the finish flag;
\* until they are all persisted and the flag is cleared, a crash may leave any
\* of them in place.
operation_process(log, rest) ==
    /\ redo' = log
    /\ todo' = <<Call("redo_log_process")>> \o rest

redo_log_process ==
    /\ Running("redo_log_process")
    /\ heap' = Applied(heap, redo)
    /\ redo' = <<>>
    /\ Return
    /\ UNCHANGED <<content, undo_entry_offset, state, words, nvalues, tree, tx, bounds>>

\* What a constructor makes of a block: a zeroed vector array or range cache, a
\* snapshot of a range, or an object with its header
Constructed(b, made) ==
    CASE made.kind = "snapshot" ->
           [kind |-> "snapshot",
            ranges |-> <<[offset |-> made.offset, size |-> made.size,
                          data |-> [n \in 1 .. made.size |-> word[made.offset + n - 1]]]>>]
      [] made.kind = "cache" -> EmptyCache
      [] made.kind = "array" -> [kind |-> "array", ranges |-> <<>>]
      [] made.kind = "object" -> Object

\* The words a constructor stores in an object, without a flush
Initialized(b, made) ==
    LET Stores(v) == /\ word' = [word EXCEPT ![Address(b)] = v]
                     /\ durable' = [durable EXCEPT ![Address(b)] = @ \cup {v}]
    IN IF made.kind # "object" \/ made.from = Nothing THEN UNCHANGED words
       ELSE Stores(IF made.from = Zero THEN 0 ELSE word[made.from])

\* tx_alloc_common does not look at what pmalloc_construct returns but at the entry,
\* which is not zero if an earlier transaction left something in it.
pmalloc_construct ==
    /\ Running("pmalloc_construct")
    /\ LET call == Head(todo)
           n == nvalues[call.u] - 1
           unnoticed == /\ call.made.kind = "object" /\ call.made.from \in {Nothing, Zero}
                        /\ heap.vec[call.u][n] # 0
           to == IF call.made.kind = "array" THEN Array(call.u, call.k) ELSE Entry(call.u, n)
           free == {b \in Blocks : ~heap.bitmap[b]}
       IN \/ /\ free = {}           \* ENOMEM
             /\ todo' = CASE call.made.kind = "array" -> <<Call("abort")>>
                          [] unnoticed -> Tail(todo)
                          [] OTHER -> <<PopBack(call.u, "none"), Call("abort")>>
             /\ UNCHANGED <<heap, redo, content, undo_entry_offset, words, cache_slot>>
          \/ \E b \in free :
             /\ \A c \in free : b <= c        \* blocks of a size are taken in order
             /\ content' = [content EXCEPT ![b] = Constructed(b, call.made)]
             /\ Initialized(b, call.made)
             /\ undo_entry_offset' = [undo_entry_offset EXCEPT ![b] =
                                         IF call.made.kind = "object" THEN n + 1 ELSE @]
             /\ heap' = IF call.made.kind = "array"
                        THEN [heap EXCEPT !.vec[call.u] = [j \in Indices |->
                                 IF ArrayOf(j) = call.k THEN 0 ELSE @[j]]]
                        ELSE heap
             /\ operation_process(<<Put(Bit(b), TRUE), Put(to, b)>>, Tail(todo))
             /\ cache_slot' = IF call.made.kind = "cache" THEN 0 ELSE cache_slot
    /\ UNCHANGED <<state, nvalues, ranges, tx, bounds>>

\* Mutant: the block is freed and its offset is left to be cleared apart.
pfree_block_only ==
    /\ Running("pfree")
    /\ LET to == Head(todo).to
           off == IF to.kind = "entry" THEN heap.vec[to.u][to.n] ELSE heap.arrays[to.u][to.n]
       IN operation_process(<<Put(Bit(off), FALSE)>>, Tail(todo))
    /\ UNCHANGED <<heap, content, undo_entry_offset, state, words, nvalues, tree, tx, bounds>>

pfree ==
    /\ Running("pfree")
    /\ LET to == Head(todo).to
           off == IF to.kind = "entry" THEN heap.vec[to.u][to.n] ELSE heap.arrays[to.u][to.n]
       IN operation_process(<<Put(Bit(off), FALSE), Put(to, 0)>>, Tail(todo))
    /\ UNCHANGED <<heap, content, undo_entry_offset, state, words, nvalues, tree, tx, bounds>>

-----------------------------------------------------------------------------
(* pvector.c                                                               *)

pvector_init ==
    /\ Running("pvector_init")
    /\ LET u == Head(todo).u
           k == narrays(heap, u) - 1
       IN /\ nvalues' = [nvalues EXCEPT ![u] = Count(heap, u)]
          /\ Then(IF k > 0 /\ LastValues(heap, u) = 0 THEN <<Pfree(Array(u, k))>> ELSE <<>>)
    /\ UNCHANGED <<media, words, tree, tx, bounds>>

pvector_push_back ==
    /\ Running("pvector_push_back")
    /\ LET u == Head(todo).u
           k == ArrayOf(nvalues[u])
       IN \/ /\ k \notin Arrays
             /\ todo' = <<Call("abort")>>
             /\ UNCHANGED <<heap, nvalues>>
          \/ /\ k = 0 /\ heap.arrays[u][0] = 0
             /\ heap' = [heap EXCEPT !.arrays[u][0] = Embedded]
             /\ UNCHANGED <<nvalues, todo>>
          \/ /\ k \in Arrays \ {0} /\ heap.arrays[u][k] = 0
             /\ todo' = <<Pmalloc(u, k, [kind |-> "array"])>> \o todo
             /\ UNCHANGED <<heap, nvalues>>
          \/ /\ k \in Arrays /\ heap.arrays[u][k] # 0
             /\ nvalues' = [nvalues EXCEPT ![u] = @ + 1]
             /\ Return
             /\ UNCHANGED heap
    /\ UNCHANGED <<redo, content, undo_entry_offset, state, words, tree, tx, bounds>>

\* With the callbacks tx_clear_vec_entry, tx_free_vec_entry and none
pvector_pop_back ==
    /\ Running("pvector_pop_back")
    /\ LET u == Head(todo).u
           n == nvalues[u] - 1
       IN CASE Head(todo).cb = "clear" ->
                 heap' = [heap EXCEPT !.vec[u][n] = 0] /\ Then(<<Popped(u)>>)
            [] Head(todo).cb = "free" ->
                 UNCHANGED heap /\ Then(<<Pfree(Entry(u, n)), Popped(u)>>)
            [] Head(todo).cb = "none" ->
                 UNCHANGED heap /\ Then(<<Popped(u)>>)
    /\ UNCHANGED <<redo, content, undo_entry_offset, state, words, nvalues, tree, tx, bounds>>

popped ==
    /\ Running("popped")
    /\ LET u == Head(todo).u
           n == nvalues[u] - 1
           k == ArrayOf(n)
       IN /\ nvalues' = [nvalues EXCEPT ![u] = n]
          /\ Then(IF n = First(k) /\ k # 0 THEN <<Pfree(Array(u, k))>> ELSE <<>>)
    /\ UNCHANGED <<media, words, tree, tx, bounds>>

\* Mutant: an entry to be skipped is left in the log.
tx_clear_undo_log_stuck ==
    /\ Running("tx_clear_undo_log")
    /\ LET u == Head(todo).u
           cb == IF ~Head(todo).free THEN "clear" ELSE "free"
       IN CASE pvector_last(u) = 0 -> Return
            [] pvector_last(u) = Skip -> UNCHANGED todo
            [] OTHER -> todo' = <<PopBack(u, cb)>> \o todo
    /\ UNCHANGED <<media, words, nvalues, tree, tx, bounds>>

tx_clear_undo_log ==
    /\ Running("tx_clear_undo_log")
    /\ LET u == Head(todo).u
           val == pvector_last(u)
           cb == IF val = Skip \/ ~Head(todo).free THEN "clear" ELSE "free"
       IN IF val = 0 THEN Return ELSE todo' = <<PopBack(u, cb)>> \o todo
    /\ UNCHANGED <<media, words, nvalues, tree, tx, bounds>>

-----------------------------------------------------------------------------
(* tx.c: snapshots                                                         *)

AddCommon(offset, size, spoint) ==
    [fn |-> "pmemobj_tx_add_common", offset |-> offset, size |-> size, spoint |-> spoint]
AddRange(offset, size) == [fn |-> "add_range", offset |-> offset, size |-> size]
InsertRange(offset, size) == [fn |-> "ctree_insert", offset |-> offset, size |-> size]

\* The range with the largest offset up to a point, <<0, 0>> without one
ctree_find_le(point) ==
    LET before == {r \in ranges : r[1] <= point}
    IN IF before = {} THEN <<0, 0>>
       ELSE CHOOSE r \in before : \A q \in before : q[1] <= r[1]

\* Mutant: a range that reaches in from the left is not taken into account.
add_common_from_offset ==
    /\ Running("pmemobj_tx_add_common")
    /\ LET call == Head(todo)
           apoint == call.spoint + 1
           found == ctree_find_le(call.spoint)
           end == found[1] + found[2]
           again == <<AddCommon(call.offset, call.size, found[1] - 1)>>
       IN CASE call.spoint < call.offset -> Return
            [] call.spoint >= call.offset /\ found[1] < call.offset ->
                 Then(<<AddRange(call.offset, apoint - call.offset)>>)
            [] call.spoint >= call.offset /\ found[1] >= call.offset ->
                 Then(IF end >= apoint THEN again ELSE <<AddRange(end, apoint - end)>> \o again)
    /\ UNCHANGED <<media, words, nvalues, tree, tx, bounds>>

\* One round of the loop: snapshots what lies between the point the search
\* starts from and the end of the range found below it.
pmemobj_tx_add_common ==
    /\ Running("pmemobj_tx_add_common")
    /\ LET call == Head(todo)
           apoint == call.spoint + 1
           found == ctree_find_le(call.spoint)
           end == found[1] + found[2]
           left == IF end > call.offset THEN end ELSE call.offset
           again == <<AddCommon(call.offset, call.size, found[1] - 1)>>
       IN CASE call.spoint < call.offset -> Return
            [] call.spoint >= call.offset /\ found[1] < call.offset ->
                 Then(IF apoint <= left THEN <<>> ELSE <<AddRange(left, apoint - left)>>)
            [] call.spoint >= call.offset /\ found[1] >= call.offset ->
                 Then(IF end >= apoint THEN again ELSE <<AddRange(end, apoint - end)>> \o again)
    /\ UNCHANGED <<media, words, nvalues, tree, tx, bounds>>

\* Mutant: a range cache is taken to have room.
add_range_no_room ==
    /\ Running("add_range")
    /\ LET call == Head(todo)
           large == <<PushBack("set"),
                      Pmalloc("set", 0, [kind |-> "snapshot", offset |-> call.offset,
                                         size |-> call.size])>>
           cache == <<PushBack("cache"), Pmalloc("cache", 0, [kind |-> "cache"])>>
           small == <<[call EXCEPT !.fn = "pmemobj_tx_add_small"]>>
       IN Then((IF call.size > MAX_CACHED_RANGE_SIZE THEN large
                ELSE IF pvector_last("cache") = 0 THEN cache \o small ELSE small)
               \o <<InsertRange(call.offset, call.size)>>)
    /\ UNCHANGED <<media, words, nvalues, tree, tx, bounds>>

\* pmemobj_tx_add_large, or pmemobj_tx_add_small with pmemobj_tx_get_range_cache
add_range ==
    /\ Running("add_range")
    /\ LET call == Head(todo)
           last == pvector_last("cache")
           full == last = 0 \/ content[last].ranges[MAX_CACHED_RANGES].offset # 0
           large == <<PushBack("set"),
                      Pmalloc("set", 0, [kind |-> "snapshot", offset |-> call.offset,
                                         size |-> call.size])>>
           cache == <<PushBack("cache"), Pmalloc("cache", 0, [kind |-> "cache"])>>
           small == <<[call EXCEPT !.fn = "pmemobj_tx_add_small"]>>
       IN Then((IF call.size > MAX_CACHED_RANGE_SIZE THEN large
                ELSE IF full THEN cache \o small ELSE small)
               \o <<InsertRange(call.offset, call.size)>>)
    /\ UNCHANGED <<media, words, nvalues, tree, tx, bounds>>

SetRange(offset, size, left) ==
    [fn |-> "set_range", offset |-> offset, size |-> size, left |-> left]

\* Takes the next slot of the cache.
pmemobj_tx_add_small ==
    /\ Running("pmemobj_tx_add_small")
    /\ cache_slot' = cache_slot + 1
    /\ Then(<<SetRange(Head(todo).offset, Head(todo).size, {"data", "size", "offset"})>>)
    /\ UNCHANGED <<media, words, nvalues, ranges, tx, bounds>>

\* Mutant: the data is not persisted before the size and the offset are stored.
ReachesMediaAtOnce(left) == left

\* Which of the fields left to store may reach the media next: the data is
\* persisted first, the size and the offset are then persisted together.
ReachesMedia(left) == IF "data" \in left THEN {"data"} ELSE left

set_range ==
    /\ Running("set_range")
    /\ LET call == Head(todo)
           b == pvector_last("cache")
           data == [n \in 1 .. MAX_CACHED_RANGE_SIZE |->
                       IF n <= call.size THEN word[call.offset + n - 1]
                       ELSE content[b].ranges[cache_slot].data[n]]
       IN \E field \in ReachesMedia(call.left) :
             /\ content' = [content EXCEPT ![b].ranges[cache_slot][field] =
                               IF field = "data" THEN data ELSE call[field]]
             /\ Then(IF call.left = {field} THEN <<>>
                     ELSE <<SetRange(call.offset, call.size, call.left \ {field})>>)
    /\ UNCHANGED <<heap, redo, undo_entry_offset, state, words, nvalues, tree, tx, bounds>>

\* An offset of 0 stands for the object just allocated.
InsertedAt(call) ==
    IF call.offset = 0 THEN Address(pvector_last("alloc")) ELSE call.offset

\* Without memory for a node the transaction aborts.  The entry of an object that
\* was just allocated is popped before that, with no callback to free the object.
err_oom(what) ==
    (IF what = "object" THEN <<PopBack("alloc", "none")>> ELSE <<>>) \o <<Call("abort")>>

ctree_insert ==
    /\ Running("ctree_insert")
    /\ LET call == Head(todo)
           what == IF call.offset = 0 THEN "object" ELSE "range"
       IN \/ /\ ranges' = ranges \cup {<<InsertedAt(call), call.size>>}
             /\ Return
          \/ /\ what \in FailingInserts
             /\ todo' = err_oom(what)
             /\ UNCHANGED ranges
    /\ UNCHANGED <<media, words, nvalues, cache_slot, tx, bounds>>

-----------------------------------------------------------------------------
(* tx.c: commit and abort                                                  *)

\* The ranges of a cache up to the first that is not set
InUse(slots) ==
    LET unset == {n \in DOMAIN slots : slots[n].offset = 0 \/ slots[n].size = 0}
    IN SubSeq(slots, 1, CHOOSE n \in 0 .. Len(slots) :
                            (n < Len(slots) => n + 1 \in unset) /\ unset \cap 1 .. n = {})

\* The ranges tx_foreach_set visits in vectors of count[u] values
Snapshots(h, count) ==
    FlattenSeq([n \in 1 .. count["set"] |-> content[h.vec["set"][n - 1]].ranges])
    \o FlattenSeq([n \in 1 .. count["cache"] |-> InUse(content[h.vec["cache"][n - 1]].ranges)])

Restored(f, range) ==
    [x \in Words |-> IF x \in Span(range.offset, range.size)
                     THEN range.data[x - range.offset + 1] ELSE f[x]]
Persisted(xs) == durable' = [x \in Words |-> IF x \in xs THEN {word'[x]} ELSE durable[x]]

tx_abort == <<Call("tx_abort_set"), ClearUndoLog("cache", TRUE), ClearUndoLog("set", TRUE),
              ClearUndoLog("alloc", TRUE), ClearUndoLog("free", FALSE)>>

tx_abort_set ==
    /\ Running("tx_abort_set")
    /\ Then([n \in DOMAIN Snapshots(heap, nvalues) |->
                [fn |-> "tx_restore_range", range |-> Snapshots(heap, nvalues)[n]]])
    /\ UNCHANGED <<media, words, nvalues, tree, tx, bounds>>

tx_restore_range ==
    /\ Running("tx_restore_range")
    /\ LET range == Head(todo).range
       IN /\ word' = Restored(word, range)
          /\ Persisted(Span(range.offset, range.size))
    /\ Return
    /\ UNCHANGED <<media, nvalues, tree, tx, bounds>>

\* Objects allocated by the transaction and not freed by it
Allocated == {heap.vec["alloc"][n] : n \in 0 .. nvalues["alloc"] - 1} \ {Skip}

\* Mutant: the objects allocated by the transaction are not flushed.
pre_commit_set_only ==
    /\ Running("tx_pre_commit")
    /\ undo_entry_offset' = [b \in Blocks |-> IF b \in Allocated THEN 0 ELSE undo_entry_offset[b]]
    /\ UNCHANGED word
    /\ Persisted(UNION {Span(r.offset, r.size) : r \in ToSet(Snapshots(heap, nvalues))})
    /\ Return
    /\ UNCHANGED <<heap, redo, content, state, nvalues, tree, tx, bounds>>

tx_pre_commit ==
    /\ Running("tx_pre_commit")
    /\ undo_entry_offset' = [b \in Blocks |-> IF b \in Allocated THEN 0 ELSE undo_entry_offset[b]]
    /\ UNCHANGED word
    /\ Persisted({Address(b) : b \in Allocated}
                 \cup UNION {Span(r.offset, r.size) :
                             r \in ToSet(Snapshots(heap, nvalues))})
    /\ Return
    /\ UNCHANGED <<heap, redo, content, state, nvalues, tree, tx, bounds>>

\* At the end of a commit, with the stage pmemobj_tx_commit goes on to
tx_set_state ==
    /\ Running("tx_set_state")
    /\ state' = Head(todo).to
    /\ stage' = IF Head(todo).to = "none" /\ depth > 0 THEN "oncommit" ELSE stage
    /\ Return
    /\ UNCHANGED <<heap, redo, content, undo_entry_offset, words, nvalues, tree,
                   depth, last_errnum, bounds>>

SetState(to) == [fn |-> "tx_set_state", to |-> to]
PostCommitSet(zero_all) == [fn |-> "tx_post_commit_set", zero_all |-> zero_all]
tx_post_commit(recovery) ==
    <<PostCommitSet(recovery), ClearUndoLog("set", TRUE), ClearUndoLog("alloc", FALSE),
      ClearUndoLog("free", TRUE), SetState("none")>>

\* Mutant: a commit with more than one cache zeroes the first like the last.
post_commit_slots ==
    /\ Running("tx_post_commit_set")
    /\ LET first == pvector_first("cache")
       IN IF pvector_last("cache") # first
          THEN /\ Then(<<PopBack("cache", "free"), PostCommitSet(FALSE)>>)
               /\ UNCHANGED content
          ELSE /\ Return
               /\ content' = IF first = 0 THEN content
                             ELSE [content EXCEPT ![first].ranges = [n \in DOMAIN @ |->
                                      IF n <= cache_slot THEN Empty ELSE @[n]]]
    /\ UNCHANGED <<heap, redo, undo_entry_offset, state, words, nvalues, tree, tx, bounds>>

\* All range caches but the first are freed, the first is zeroed and kept.
tx_post_commit_set ==
    /\ Running("tx_post_commit_set")
    /\ LET first == pvector_first("cache")
           zeroed == IF Head(todo).zero_all THEN MAX_CACHED_RANGES ELSE cache_slot
       IN IF pvector_last("cache") # first
          THEN /\ Then(<<PopBack("cache", "free"), PostCommitSet(TRUE)>>)
               /\ UNCHANGED content
          ELSE /\ Return
               /\ content' = IF first = 0 THEN content
                             ELSE [content EXCEPT ![first].ranges = [n \in DOMAIN @ |->
                                      IF n <= zeroed THEN Empty ELSE @[n]]]
    /\ UNCHANGED <<heap, redo, undo_entry_offset, state, words, nvalues, tree, tx, bounds>>

-----------------------------------------------------------------------------
(* tx.c: calls                                                             *)

\* The next call of the program, which leaves out the rest of a transaction that
\* has ended before its time
Called(call) ==
    /\ todo = <<>>
    /\ \E n \in DOMAIN program :
          /\ n = 1 \/ (call = "begin" /\ depth = 0)
          /\ program[n] = call
          /\ program' = SubSeq(program, n + 1, Len(program))
    /\ UNCHANGED crashes

\* Objects the program can use
Freed == {heap.vec["free"][n] : n \in 0 .. nvalues["free"] - 1}
Objects == {b \in Blocks : heap.bitmap[b] /\ content[b].kind = "object"} \ Freed

tx_rebuild_undo_runtime ==
    [n \in 1 .. 4 |-> [fn |-> "pvector_init", u |-> <<"alloc", "set", "free", "cache">>[n]]]

pmemobj_tx_begin ==
    /\ Called("begin")
    /\ last_errnum' = FALSE
    /\ stage' = "work"
    /\ depth' = depth + 1
    /\ \/ /\ stage = "none" /\ depth = 0
          /\ ranges' = {} /\ cache_slot' = 0
          /\ todo' = IF nvalues["alloc"] = NoContext THEN tx_rebuild_undo_runtime ELSE <<>>
       \/ /\ stage = "work" /\ depth < MaxDepth
          /\ UNCHANGED <<tree, todo>>
    /\ UNCHANGED <<media, words, nvalues>>

\* A program adds ranges of the root object, or an object as a whole.
pmemobj_tx_add_range_direct(offset, size) ==
    /\ Called("add") /\ stage = "work"
    /\ \/ Span(offset, size) \subseteq 1 .. Roots
       \/ size = 1 /\ \E b \in Objects : offset = Address(b)
    /\ todo' = <<AddCommon(offset, size, offset + size - 1)>>
    /\ UNCHANGED <<media, words, nvalues, tree, tx>>

pmemobj_tx_add_range(b) ==
    /\ Called("add") /\ stage = "work"
    /\ b \in Objects
    /\ todo' = IF undo_entry_offset[b] = 0
               THEN <<AddCommon(Address(b), 1, Address(b))>> ELSE <<>>
    /\ UNCHANGED <<media, words, nvalues, tree, tx>>

\* A program stores to what it added or allocated.
Store(x, v) ==
    /\ Called("store") /\ stage = "work"
    /\ \E r \in ranges : x \in Span(r[1], r[2])
    /\ word' = [word EXCEPT ![x] = v]
    /\ durable' = [durable EXCEPT ![x] = @ \cup {v}]
    /\ UNCHANGED <<media, nvalues, tree, tx, todo>>

\* tx_alloc_common and tx_alloc_copy_common
tx_alloc(from) ==
    <<PushBack("alloc"), Pmalloc("alloc", 0, [kind |-> "object", from |-> from]),
      InsertRange(0, 1)>>

\* from Nothing by pmemobj_tx_alloc, from Zero by pmemobj_tx_zalloc
pmemobj_tx_alloc(from) ==
    /\ Called("alloc") /\ stage = "work"
    /\ todo' = tx_alloc(from)
    /\ UNCHANGED <<media, words, nvalues, tree, tx>>

pmemobj_tx_realloc(b) ==
    /\ Called("realloc") /\ stage = "work"
    /\ b \in Objects
    /\ todo' = tx_alloc(Address(b)) \o <<[fn |-> "tx_free", b |-> b]>>
    /\ UNCHANGED <<media, words, nvalues, tree, tx>>

pmemobj_tx_free(b) ==
    /\ Called("free") /\ stage = "work"
    /\ b \in Objects
    /\ todo' = <<[fn |-> "tx_free", b |-> b]>>
    /\ UNCHANGED <<media, words, nvalues, tree, tx>>

\* An object of this transaction leaves its log at once, by an entry that the
\* processing of the log skips.
tx_free ==
    /\ Running("tx_free")
    /\ LET b == Head(todo).b
       IN \/ /\ undo_entry_offset[b] = 0
             /\ Then(<<PushBack("free"), [fn |-> "set_free_entry", b |-> b]>>)
             /\ UNCHANGED <<redo, ranges>>
          \/ /\ undo_entry_offset[b] # 0
             /\ ranges' = {r \in ranges : r[1] # Address(b)}
             /\ operation_process(<<Put(Entry("alloc", undo_entry_offset[b] - 1), Skip),
                                    Put(Bit(b), FALSE)>>, Tail(todo))
    /\ UNCHANGED <<heap, content, undo_entry_offset, state, words, nvalues, cache_slot, tx, bounds>>

set_free_entry ==
    /\ Running("set_free_entry")
    /\ heap' = [heap EXCEPT !.vec["free"][nvalues["free"] - 1] = Head(todo).b]
    /\ Return
    /\ UNCHANGED <<redo, content, undo_entry_offset, state, words, nvalues, tree, tx, bounds>>

pmemobj_tx_commit ==
    /\ Called("commit") /\ stage = "work"
    /\ \/ /\ depth = 1
          /\ todo' = <<Call("tx_pre_commit"), SetState("committed")>> \o tx_post_commit(FALSE)
          /\ UNCHANGED stage
       \/ /\ depth > 1
          /\ stage' = "oncommit"
          /\ UNCHANGED todo
    /\ UNCHANGED <<media, words, nvalues, tree, depth, last_errnum>>

Aborted ==
    /\ stage = "work"
    /\ stage' = "onabort"
    /\ last_errnum' = TRUE
    /\ todo' = IF depth = 1 THEN tx_abort ELSE <<>>
    /\ UNCHANGED <<media, words, nvalues, tree, depth>>

pmemobj_tx_abort == Called("abort") /\ Aborted

\* A function that fails aborts the transaction.
pmemobj_tx_abort_err == Running("abort") /\ Aborted /\ UNCHANGED bounds

\* In the stage of work pmemobj_tx_process is pmemobj_tx_commit.
pmemobj_tx_process ==
    /\ todo = <<>> /\ depth > 0
    /\ \/ stage \in {"onabort", "oncommit"} /\ stage' = "finally"
       \/ stage = "finally" /\ stage' = "none"
    /\ UNCHANGED <<media, words, nvalues, tree, depth, last_errnum, todo, bounds>>

\* The end of an inner transaction that aborted aborts the one around it.
pmemobj_tx_end ==
    /\ todo = <<>> /\ depth > 0
    /\ stage # "work"
    /\ depth' = depth - 1
    /\ \/ /\ depth = 1
          /\ ranges' = {} /\ cache_slot' = 0
          /\ stage' = "none"
          /\ UNCHANGED todo
       \/ /\ depth > 1
          /\ stage' = IF last_errnum THEN "onabort" ELSE "work"
          /\ todo' = IF last_errnum /\ depth = 2 THEN tx_abort ELSE <<>>
          /\ UNCHANGED tree
    /\ UNCHANGED <<media, words, nvalues, last_errnum, bounds>>

-----------------------------------------------------------------------------
(* A crash, and lane_recover_and_section_boot when the pool is opened      *)

Crash ==
    /\ crashes < MaxCrashes
    /\ crashes' = crashes + 1
    /\ \E done \in SUBSET ToSet(redo) :
          heap' = Applied(heap, SelectSeq(redo, LAMBDA e : e \in done))
    /\ word' \in {f \in [Words -> Values] : \A x \in Words : f[x] \in durable[x]}
    /\ durable' = [x \in Words |-> {word'[x]}]
    /\ nvalues' = [u \in Undo |-> NoContext]
    /\ ranges' = {} /\ cache_slot' = 0
    /\ stage' = "none" /\ depth' = 0 /\ last_errnum' = FALSE
    /\ todo' = <<Call("redo_log_recover"), Call("lane_transaction_recovery")>>
    /\ UNCHANGED <<redo, content, undo_entry_offset, state, program>>

redo_log_recover ==
    /\ Running("redo_log_recover")
    /\ Then(IF redo = <<>> THEN <<>> ELSE <<Call("redo_log_process")>>)
    /\ UNCHANGED <<media, words, nvalues, tree, tx, bounds>>

lane_transaction_recovery ==
    /\ Running("lane_transaction_recovery")
    /\ Then(tx_rebuild_undo_runtime
            \o (IF state = "committed" THEN tx_post_commit(TRUE) ELSE tx_abort)
            \o <<Call("tx_destroy_undo_runtime")>>)
    /\ UNCHANGED <<media, words, nvalues, tree, tx, bounds>>

tx_destroy_undo_runtime ==
    /\ Running("tx_destroy_undo_runtime")
    /\ nvalues' = [u \in Undo |-> NoContext]
    /\ Return
    /\ UNCHANGED <<media, words, tree, tx, bounds>>

-----------------------------------------------------------------------------
\* A function on the stack
Step ==
    \/ redo_log_process \/ pmalloc_construct \/ pfree
    \/ pvector_init \/ pvector_push_back \/ pvector_pop_back \/ popped \/ tx_clear_undo_log
    \/ pmemobj_tx_add_common \/ add_range \/ pmemobj_tx_add_small \/ set_range \/ ctree_insert
    \/ tx_abort_set \/ tx_restore_range \/ tx_pre_commit \/ tx_set_state \/ tx_post_commit_set
    \/ tx_free \/ set_free_entry \/ pmemobj_tx_abort_err
    \/ redo_log_recover \/ lane_transaction_recovery \/ tx_destroy_undo_runtime

Next ==
    \/ Step
    \/ pmemobj_tx_begin \/ pmemobj_tx_commit \/ pmemobj_tx_abort
    \/ pmemobj_tx_process \/ pmemobj_tx_end
    \/ \E offset \in Words, size \in 1 .. Roots : pmemobj_tx_add_range_direct(offset, size)
    \/ \E x \in Words, v \in Values : Store(x, v)
    \/ \E from \in {Nothing, Zero} : pmemobj_tx_alloc(from)
    \/ \E b \in Blocks : pmemobj_tx_add_range(b) \/ pmemobj_tx_realloc(b) \/ pmemobj_tx_free(b)
    \/ Crash

Spec == Init /\ [][Next]_vars
FairSpec == Spec /\ WF_vars(Step)    \* a thread in a call goes on

-----------------------------------------------------------------------------
(* What a crash now would leave after the recovery                         *)

Effective == Applied(heap, redo)
Counts(h) == [u \in Undo |-> Count(h, u)]
AllObjects(h) == {b \in Blocks : h.bitmap[b] /\ content[b].kind = "object"}
RootsAnd(objects) == 1 .. Roots \cup {Address(b) : b \in objects}

\* F(x), with x evaluated once
With(x, F(_)) == CHOOSE y \in {F(z) : z \in {x}} : TRUE

\* The values the undo logs give back, if the transaction did not commit
NoValue == -1
GivenBack(h) ==
    IF state = "committed" THEN [x \in Words |-> NoValue]
    ELSE With(Snapshots(h, Counts(h)),
              LAMBDA logged : FoldLeft(Restored, [x \in Words |-> NoValue], logged))

Survivors(h) ==
    LET undone == IF state = "committed" THEN "free" ELSE "alloc"
    IN AllObjects(h) \ {h.vec[undone][n] : n \in 0 .. Count(h, undone) - 1}

\* The values each word of the root object and of the surviving objects may have
Recovered ==
    With(Effective, LAMBDA h : With(GivenBack(h), LAMBDA back :
        [x \in RootsAnd(Survivors(h)) |->
            IF back[x] = NoValue THEN durable[x] ELSE {back[x]}]))

store == With(Recovered, LAMBDA found : [x \in DOMAIN found |-> CHOOSE v \in found[x] : TRUE])

\* While an abort or a recovery runs, the program does not see its words.
view ==
    IF todo # <<>> /\ (depth = 0 \/ stage = "onabort") THEN store
    ELSE With(Effective, LAMBDA h :
        [x \in RootsAnd(AllObjects(h) \ {h.vec["free"][n] : n \in 0 .. nvalues["free"] - 1})
            |-> word[x]])

phase ==
    CASE depth = 0 -> "none"
      [] depth = 1 /\ (stage # "work" \/ state = "committed") -> "done"
      [] OTHER -> "work"

Promise == INSTANCE TransactionalStore WITH Addresses <- Words

-----------------------------------------------------------------------------
(* Properties                                                              *)

Undone == {0, Skip} \cup Blocks

\* The type of every variable.
TypeOK ==
    /\ heap \in [bitmap : [Blocks -> BOOLEAN],
                 arrays : [Undo -> [Arrays -> {0, Embedded} \cup Blocks]],
                 vec : [Undo -> [Indices -> Undone]]]
    /\ Len(redo) \in {0, 2}
    /\ \A b \in Blocks : content[b].kind \in {"object", "array", "cache", "snapshot"}
    /\ undo_entry_offset \in [Blocks -> 0 .. First(PVECTOR_MAX_ARRAYS)]
    /\ state \in {"none", "committed"}
    /\ word \in [Words -> Values] /\ durable \in [Words -> SUBSET Values]
    /\ \A x \in Words : word[x] \in durable[x]
    /\ nvalues \in [Undo -> {NoContext} \cup 0 .. First(PVECTOR_MAX_ARRAYS)]
    /\ ranges \subseteq Words \X (1 .. Roots)
    /\ cache_slot \in 0 .. MAX_CACHED_RANGES
    /\ stage \in {"none", "work", "oncommit", "onabort", "finally"}
    /\ depth \in 0 .. MaxDepth /\ last_errnum \in BOOLEAN
    /\ crashes \in 0 .. MaxCrashes

\* Whenever the system stops, the recovery leaves one possible value in each word
\* of the root object and of every object that survives: whatever the transaction
\* changed and did not snapshot, or committed, was flushed (tx_pre_commit before
\* tx_set_state, the restores of tx_abort before the logs are cleared).
RecoveryExact == \A possible \in Range(Recovered) : Cardinality(possible) = 1

\* The transactions of tx.c are atomic, through aborts, failed allocations, nested
\* transactions and crashes, also during recovery: what a recovery would leave
\* changes only when the outermost transaction sets TX_STATE_COMMITTED, to what the
\* program saw then, and an abort or a recovery gives the program back that store.
AtomicTransactions == Promise!Spec

\* Every block the heap holds as allocated is an object or is referred to by exactly
\* one undo log entry or vector array, and nothing refers to a free block: no
\* interruption of palloc_operation, pvector_push_back or tx_clear_undo_log leaks a
\* block or lets one be freed twice.
HeapAccounted ==
    LET h == Effective
        counts == Counts(h)
        logged(u) == {n \in Indices : n < counts[u] /\ h.vec[u][n] # Skip}
        blocks(u) == {h.vec[u][n] : n \in logged(u)}
        arrays == {r \in Undo \X Arrays : h.arrays[r[1]][r[2]] \in Blocks}
        arrayblocks == {h.arrays[r[1]][r[2]] : r \in arrays}
        allocated(kind) == {b \in Blocks : h.bitmap[b] /\ content[b].kind = kind}
    IN /\ blocks("set") = allocated("snapshot")
       /\ blocks("cache") = allocated("cache")
       /\ arrayblocks = allocated("array")
       /\ blocks("alloc") \cup blocks("free") \subseteq allocated("object")
       /\ blocks("alloc") \cap blocks("free") = {}
       /\ \A u \in Undo : Cardinality(blocks(u)) = Cardinality(logged(u))
       /\ Cardinality(arrayblocks) = Cardinality(arrays)

\* When no transaction is at work the undo logs are clear, as the comment of
\* pmemobj_tx_end says: on media there is no state and no entry but one range cache,
\* all of whose slots are zeroed.
LogsClear ==
    todo = <<>> /\ phase # "work" =>
        /\ state = "none"
        /\ \A u \in Undo : Count(heap, u) <= IF u = "cache" THEN 1 ELSE 0
        /\ Count(heap, "cache") = 1 => content[heap.vec["cache"][0]] = EmptyCache
        /\ \A u \in Undo, k \in Arrays \ {0} : heap.arrays[u][k] = 0

\* pmemobj_tx_add_common snapshots no byte twice in a transaction: the ranges in the
\* tree are disjoint and none is inserted at the offset of another, which would be
\* the fatal "invalid state of ranges tree"; the cache slot it takes exists.  An
\* object that pmemobj_tx_free takes for one of this transaction is in the tree,
\* without the fatal "TX undo state mismatch".
RangesDisjoint ==
    /\ \A r, q \in ranges : r # q => Span(r[1], r[2]) \cap Span(q[1], q[2]) = {}
    /\ Running("ctree_insert") => \A r \in ranges : r[1] # InsertedAt(Head(todo))
    /\ Running("pmemobj_tx_add_small") => cache_slot < MAX_CACHED_RANGES
    /\ Running("tx_free") /\ undo_entry_offset[Head(todo).b] # 0 =>
          \E r \in ranges : r[1] = Address(Head(todo).b)

\* Every call and every recovery ends: the loops of tx_clear_undo_log,
\* tx_post_commit_set and pmemobj_tx_add_common come to their ends, whatever entries,
\* skipped ones too, the logs hold.
CallsReturn == []<>(todo = <<>>)
=============================================================================
