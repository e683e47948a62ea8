-------------------------------- MODULE Btt --------------------------------
(***************************************************************************)
(* The block translation table of libpmemblk (nvml/src/libpmemblk/btt.c)   *)
(* under the lanes of blk.c: one arena, concurrent callers, crashes at any *)
(* point and the recovery done when the pool is opened again.              *)
(*                                                                         *)
(* A store of at most eight bytes is one step.  A block is written and     *)
(* read in two.  Taking a mutex and the reads right after it are one step. *)
(* Only a map entry can be read by others before it is drained, so only    *)
(* the map has both a durable and a visible copy.                          *)
(***************************************************************************)
EXTENDS Integers, Sequences, FiniteSets

CONSTANTS
    Threads, Values, Zero, Error, NoRequest, NotYet,  \* as in BlockDevice
    Torn,           \* contents of a block that is partly written
    Nobody,         \* holder of a free mutex
    external_nlba,  \* blocks the caller sees
    nfree,          \* flog entries, free blocks and map locks
    nlane,          \* lanes in use, at most nfree
    BTT_MAP_LOCK_ALIGN,
    Workloads,      \* bound: sequences of requests, one of which is called
    MaxCrashes      \* bound

ASSUME BttAssumption ==
    /\ nfree \in Nat \ {0}
    /\ external_nlba \in Nat /\ external_nlba >= nfree
    /\ nlane \in 1 .. nfree
    /\ BTT_MAP_LOCK_ALIGN \in Nat \ {0}
    /\ MaxCrashes \in Nat
    /\ Nobody \notin Threads
    /\ {Zero, Error, NotYet, Torn} \cap Values = {}
    /\ Zero # Error /\ Torn \notin {Zero, Error} /\ NotYet \notin {Zero, Error, Torn}

VARIABLES
    \* on media
    is_zeroed,      \* the pool was created on zeroed space
    info,           \* a valid info block is written
    map,            \* durable map entries
    flog,           \* the pair of flog entries of each lane
    data,           \* internal blocks
    mapped,         \* map entries as loads find them, ahead of map until drained
    \* run-time state of the arena
    laidout, flags, layout_write_mutex,
    current, next,  \* flogs[lane].flog and flogs[lane].next
    rtt, map_locks,
    \* run-time state of the pool
    pool,           \* "closed", "opening" or "open"
    flognum,        \* next flog pair to load while opening
    next_lane, locks,
    \* callers
    pc, request, lane, entry, old_entry, i, buf,
    \* bounds
    workload, crashes

media == <<is_zeroed, info, map, flog, data, mapped>>
flogs == <<current, next>>
layout == <<laidout, flags, layout_write_mutex>>
opening == <<pool, flognum>>
lanes == <<next_lane, locks>>
locals == <<request, lane, entry, old_entry, i, buf>>
bounds == <<workload, crashes>>
vars == <<media, layout, flogs, rtt, map_locks, opening, lanes,
          pc, locals, bounds>>

Lbas == 0 .. external_nlba - 1
Lanes == 0 .. nfree - 1
Blocks == 0 .. external_nlba + nfree - 1
Entries == [block : Blocks, flag : {"initial", "zero", "error", "normal"}]
Flogs == [lba : Lbas, old_map : Entries, new_map : Entries, seq : 0 .. 3]
Requests ==
    [op : {"read"}, lba : Lbas, val : {NotYet}]
    \cup [op : {"write"}, lba : Lbas, val : Values]
    \cup [op : {"set_zero"}, lba : Lbas, val : {Zero}]
    \cup [op : {"set_error"}, lba : Lbas, val : {Error}]

ASSUME WorkloadAssumption == Workloads \subseteq Seq(Requests) /\ NoRequest \notin Requests

Unmapped == [block |-> 0, flag |-> "initial"]
NoRead == [block |-> 0, flag |-> "error"]       \* BTT_MAP_ENTRY_ERROR in the rtt
Normal(b) == [block |-> b, flag |-> "normal"]
Zflog == [lba |-> 0, old_map |-> Unmapped, new_map |-> Unmapped, seq |-> 0]

map_entry_is_zero_or_initial(e) == e.flag \in {"zero", "initial"}

\* An initial entry stands for the block of its own number.
Resolved(e, x) == IF e.flag = "initial" THEN Normal(x) ELSE e

\* Mutant: sequence numbers count on past 3.
NseqCounting == [s \in 0 .. 3 |-> s + 1]

Nseq == [s \in 0 .. 3 |-> CASE s = 0 -> 0 [] s = 1 -> 2 [] s = 2 -> 3 [] s = 3 -> 1]

\* Mutant: a pair is ordered by the values of its sequence numbers.
flog_get_highest(pair) ==
    IF pair[0].seq = pair[1].seq THEN 2 ELSE IF pair[0].seq < pair[1].seq THEN 1 ELSE 0

\* Index of the current entry of a pair; 2 when there is none.
btt_flog_get_valid(pair) ==
    IF pair[0].seq = pair[1].seq THEN 2
    ELSE IF pair[0].seq = 0 THEN 1
    ELSE IF pair[1].seq = 0 THEN 0
    ELSE IF Nseq[pair[0].seq] = pair[1].seq THEN 1 ELSE 0

map_lock_num(x) == ((x * 4) \div BTT_MAP_LOCK_ALIGN) % nfree

\* The flog entry a lane starts with
InitialFlog(l) ==
    LET free == [block |-> external_nlba + l, flag |-> "zero"]
    IN [lba |-> l, old_map |-> free, new_map |-> free, seq |-> 1]

-----------------------------------------------------------------------------
\* A pool that was just created and opened: no layout yet
Init ==
    /\ is_zeroed \in BOOLEAN
    /\ info = FALSE
    /\ map = [x \in Lbas |-> IF is_zeroed THEN Unmapped ELSE Normal(0)]
    /\ flog = [l \in Lanes |-> [k \in 0 .. 1 |-> Zflog]]
    /\ data = [b \in Blocks |-> Torn]
    /\ mapped = map
    /\ laidout = FALSE /\ flags = FALSE /\ layout_write_mutex = Nobody
    /\ current = [l \in Lanes |-> Zflog]
    /\ next = [l \in Lanes |-> 0]
    /\ rtt = [l \in Lanes |-> NoRead]
    /\ map_locks = [l \in Lanes |-> Nobody]
    /\ pool = "open" /\ flognum = 0
    /\ next_lane = 0
    /\ locks = [l \in Lanes |-> Nobody]
    /\ pc = [t \in Threads |-> "idle"]
    /\ request = [t \in Threads |-> NoRequest]
    /\ lane = [t \in Threads |-> 0]
    /\ entry = [t \in Threads |-> Unmapped]
    /\ old_entry = [t \in Threads |-> Unmapped]
    /\ i = [t \in Threads |-> 0]
    /\ buf = [t \in Threads |-> NotYet]
    /\ workload \in Workloads /\ crashes = 0

Goto(t, to) == pc' = [pc EXCEPT ![t] = to]
At(t, label) == pool = "open" /\ pc[t] = label

-----------------------------------------------------------------------------
(* blk.c: a request takes a lane, runs in btt.c and drops the lane.        *)

\* pmemblk_read, _write, _set_zero, _set_error up to the choice of a lane
Call(t) ==
    /\ At(t, "idle")
    /\ workload # <<>>
    /\ workload' = Tail(workload)
    /\ request' = [request EXCEPT ![t] = Head(workload)]
    /\ lane' = [lane EXCEPT ![t] = next_lane]
    /\ next_lane' = (next_lane + 1) % nlane
    /\ buf' = [buf EXCEPT ![t] = NotYet]
    /\ Goto(t, "lane_enter")
    /\ UNCHANGED <<media, layout, flogs, rtt, map_locks, opening, locks,
                   entry, old_entry, i, crashes>>

lane_exit(t) ==
    /\ At(t, "lane_exit")
    /\ locks' = [locks EXCEPT ![lane[t]] = Nobody]
    /\ request' = [request EXCEPT ![t] = NoRequest]
    /\ Goto(t, "idle")
    /\ UNCHANGED <<media, layout, flogs, rtt, map_locks, opening, next_lane,
                   lane, entry, old_entry, i, buf, bounds>>

-----------------------------------------------------------------------------
(* btt_read                                                                *)

\* The top of the loop of btt_read, on entry e
ReadWith(t, e) ==
    /\ entry' = [entry EXCEPT ![t] = e]
    /\ IF e.flag = "normal" THEN buf' = buf /\ Goto(t, "set_rtt")
       ELSE /\ buf' = [buf EXCEPT ![t] = IF e.flag = "error" THEN Error ELSE Zero]
            /\ Goto(t, "lane_exit")

\* The lane is taken; btt_read tests laidout and reads the entry.
EnterRead(t) ==
    /\ ReadWith(t, IF laidout THEN mapped[request[t].lba] ELSE Unmapped)
    /\ i' = i

SetRtt(t) ==
    /\ At(t, "set_rtt")
    /\ rtt' = [rtt EXCEPT ![lane[t]] = entry[t]]
    /\ Goto(t, "reread")
    /\ UNCHANGED <<media, layout, flogs, map_locks, opening, lanes,
                   locals, bounds>>

Reread(t) ==
    /\ At(t, "reread")
    /\ LET latest == mapped[request[t].lba]
       IN IF entry[t] = latest THEN Goto(t, "read_begin") /\ UNCHANGED <<entry, buf>>
                               ELSE ReadWith(t, latest)
    /\ UNCHANGED <<media, layout, flogs, rtt, map_locks, opening, lanes,
                   request, lane, old_entry, i, bounds>>

\* The block is copied in two parts; parts of different contents are torn.
ReadBegin(t) ==
    /\ At(t, "read_begin")
    /\ buf' = [buf EXCEPT ![t] = data[entry[t].block]]
    /\ Goto(t, "read_end")
    /\ UNCHANGED <<media, layout, flogs, rtt, map_locks, opening, lanes,
                   request, lane, entry, old_entry, i, bounds>>

ReadEnd(t) ==
    /\ At(t, "read_end")
    /\ buf' = [buf EXCEPT ![t] = IF data[entry[t].block] = @ THEN @ ELSE Torn]
    /\ rtt' = [rtt EXCEPT ![lane[t]] = NoRead]
    /\ Goto(t, "lane_exit")
    /\ UNCHANGED <<media, layout, flogs, map_locks, opening, lanes,
                   request, lane, entry, old_entry, i, bounds>>

-----------------------------------------------------------------------------
(* btt_write and map_entry_setf, up to the choice of a block               *)

\* The arena is in no error state: a write scans the rtt for its free block,
\* the setting of a flag goes to the map at once.
Start(t) ==
    IF flags THEN Goto(t, "lane_exit") /\ UNCHANGED <<entry, i>>
    ELSE IF request[t].op = "write"
    THEN /\ entry' = [entry EXCEPT ![t] = Normal(current[lane[t]].old_map.block)]
         /\ i' = [i EXCEPT ![t] = 0]
         /\ Goto(t, "scan")
    ELSE Goto(t, "map_lock") /\ UNCHANGED <<entry, i>>

\* The lane is taken and laidout tested; before there is a layout a block
\* need not be zeroed.
EnterChange(t) ==
    /\ IF laidout THEN Start(t)
       ELSE /\ Goto(t, IF request[t].op = "set_zero" THEN "lane_exit" ELSE "layout_lock")
            /\ UNCHANGED <<entry, i>>
    /\ buf' = buf

lane_enter(t) ==
    /\ At(t, "lane_enter")
    /\ locks[lane[t]] = Nobody
    /\ locks' = [locks EXCEPT ![lane[t]] = t]
    /\ IF request[t].op = "read" THEN EnterRead(t) ELSE EnterChange(t)
    /\ UNCHANGED <<media, layout, flogs, rtt, map_locks, opening, next_lane,
                   request, lane, old_entry, bounds>>

LayoutLock(t) ==
    /\ At(t, "layout_lock")
    /\ layout_write_mutex = Nobody
    /\ IF laidout THEN layout_write_mutex' = Nobody /\ Start(t)
       ELSE layout_write_mutex' = t /\ Goto(t, "zero_map") /\ UNCHANGED <<entry, i>>
    /\ UNCHANGED <<media, laidout, flags, flogs, rtt, map_locks, opening, lanes,
                   request, lane, old_entry, buf, bounds>>

\* write_layout(1)
ZeroMap(t) ==
    /\ At(t, "zero_map")
    /\ map' = IF is_zeroed THEN map ELSE [x \in Lbas |-> Unmapped]
    /\ mapped' = map'
    /\ Goto(t, "write_flogs")
    /\ UNCHANGED <<is_zeroed, info, flog, data, layout, flogs, rtt, map_locks, opening,
                   lanes, locals, bounds>>

WriteFlogs(t) ==
    /\ At(t, "write_flogs")
    /\ flog' = [l \in Lanes |-> [k \in 0 .. 1 |-> IF k = 0 THEN InitialFlog(l) ELSE Zflog]]
    /\ Goto(t, "write_info")
    /\ UNCHANGED <<is_zeroed, info, map, data, mapped, layout, flogs, rtt, map_locks,
                   opening, lanes, locals, bounds>>

WriteInfo(t) ==
    /\ At(t, "write_info")
    /\ info' = TRUE
    /\ Goto(t, "read_arenas")
    /\ UNCHANGED <<is_zeroed, map, flog, data, mapped, layout, flogs, rtt, map_locks,
                   opening, lanes, locals, bounds>>

\* The run-time flog of lane l that read_flog_pair loads from the media
Loaded(l) ==
    LET k == btt_flog_get_valid(flog[l]) IN IF k = 2 THEN Zflog ELSE flog[l][k]
LoadedNext(l) ==
    LET k == btt_flog_get_valid(flog[l]) IN IF k = 2 THEN 0 ELSE 1 - k

\* read_arenas after write_layout: the new flogs need no recovery.
ReadArenas(t) ==
    /\ At(t, "read_arenas")
    /\ current' = [l \in Lanes |-> Loaded(l)]
    /\ next' = [l \in Lanes |-> LoadedNext(l)]
    /\ flags' = \E l \in Lanes : btt_flog_get_valid(flog[l]) = 2
    /\ rtt' = [l \in Lanes |-> NoRead]
    /\ map_locks' = [l \in Lanes |-> Nobody]
    /\ laidout' = TRUE
    /\ layout_write_mutex' = Nobody
    /\ Goto(t, "start")
    /\ UNCHANGED <<media, opening, lanes, locals, bounds>>

StartLaidOut(t) ==
    /\ At(t, "start")
    /\ Start(t)
    /\ UNCHANGED <<media, layout, flogs, rtt, map_locks, opening, lanes,
                   request, lane, old_entry, buf, bounds>>

-----------------------------------------------------------------------------
(* btt_write and map_entry_setf, on a laid-out arena                       *)

\* Mutant: the write does not wait for reads of its free block.
ScanNothing(t) ==
    /\ At(t, "scan")
    /\ Goto(t, "write_begin")
    /\ UNCHANGED <<media, layout, flogs, rtt, map_locks, opening, lanes, locals, bounds>>

\* Wait until lane i reads no longer from the free block, lane by lane.
Scan(t) ==
    /\ At(t, "scan")
    /\ rtt[i[t]] # entry[t]
    /\ IF i[t] + 1 < nlane THEN i' = [i EXCEPT ![t] = @ + 1] /\ pc' = pc
                           ELSE i' = i /\ Goto(t, "write_begin")
    /\ UNCHANGED <<media, layout, flogs, rtt, map_locks, opening, lanes,
                   request, lane, entry, old_entry, buf, bounds>>

\* nswrite of the block
WriteBegin(t) ==
    /\ At(t, "write_begin")
    /\ data' = [data EXCEPT ![entry[t].block] = Torn]
    /\ Goto(t, "write_end")
    /\ UNCHANGED <<is_zeroed, info, map, flog, mapped, layout, flogs, rtt, map_locks,
                   opening, lanes, locals, bounds>>

WriteEnd(t) ==
    /\ At(t, "write_end")
    /\ data' = [data EXCEPT ![entry[t].block] = request[t].val]
    /\ Goto(t, "map_lock")
    /\ UNCHANGED <<is_zeroed, info, map, flog, mapped, layout, flogs, rtt, map_locks,
                   opening, lanes, locals, bounds>>

\* map_lock; a block that is zero already needs no zeroing (map_abort).
MapLock(t) ==
    LET lock == map_lock_num(request[t].lba)
        old == Resolved(mapped[request[t].lba], request[t].lba)
        op == request[t].op
        abort == op = "set_zero" /\ map_entry_is_zero_or_initial(old)
    IN /\ At(t, "map_lock")
       /\ map_locks[lock] = Nobody
       /\ map_locks' = IF abort THEN map_locks ELSE [map_locks EXCEPT ![lock] = t]
       /\ old_entry' = [old_entry EXCEPT ![t] = old]
       /\ entry' = [entry EXCEPT ![t] =
                       CASE op = "set_zero" -> [block |-> old.block, flag |-> "zero"]
                         [] op = "set_error" -> [block |-> old.block, flag |-> "error"]
                         [] OTHER -> @]
       /\ Goto(t, IF abort THEN "lane_exit" ELSE IF op = "write" THEN "flog_old" ELSE "map_store")
       /\ UNCHANGED <<media, layout, flogs, rtt, opening, lanes, request, lane, i, buf, bounds>>

\* flog_update: lba and old_map, eight bytes of the entry not in use
FlogOld(t) ==
    LET l == lane[t] IN
    /\ At(t, "flog_old")
    /\ flog' = [flog EXCEPT ![l][next[l]].lba = request[t].lba,
                            ![l][next[l]].old_map = old_entry[t]]
    /\ Goto(t, "flog_new")
    /\ UNCHANGED <<is_zeroed, info, map, data, mapped, layout, flogs, rtt, map_locks,
                   opening, lanes, locals, bounds>>

\* Mutant: the next update goes to the entry that is now current.
FlogNewSameSlot(t) ==
    LET l == lane[t]
        seq == Nseq[current[l].seq]
    IN /\ At(t, "flog_new")
       /\ flog' = [flog EXCEPT ![l][next[l]].new_map = entry[t], ![l][next[l]].seq = seq]
       /\ current' = [current EXCEPT ![l] = flog'[l][next[l]]]
       /\ Goto(t, "map_store")
       /\ UNCHANGED <<is_zeroed, info, map, data, mapped, layout, next, rtt, map_locks,
                      opening, lanes, locals, bounds>>

\* flog_update: new_map and seq, which make the entry current
FlogNew(t) ==
    LET l == lane[t]
        seq == Nseq[current[l].seq]
    IN /\ At(t, "flog_new")
       /\ flog' = [flog EXCEPT ![l][next[l]].new_map = entry[t], ![l][next[l]].seq = seq]
       /\ current' = [current EXCEPT ![l] =
                         [lba |-> request[t].lba, old_map |-> old_entry[t],
                          new_map |-> entry[t], seq |-> seq]]
       /\ next' = [next EXCEPT ![l] = 1 - @]
       /\ Goto(t, "map_store")
       /\ UNCHANGED <<is_zeroed, info, map, data, mapped, layout, rtt, map_locks,
                      opening, lanes, locals, bounds>>

\* map_unlock: the store of the entry, then its drain and the mutex
MapStore(t) ==
    /\ At(t, "map_store")
    /\ mapped' = [mapped EXCEPT ![request[t].lba] = entry[t]]
    /\ Goto(t, "map_unlock")
    /\ UNCHANGED <<is_zeroed, info, map, flog, data, layout, flogs, rtt, map_locks,
                   opening, lanes, locals, bounds>>

MapUnlock(t) ==
    /\ At(t, "map_unlock")
    /\ map' = [map EXCEPT ![request[t].lba] = mapped[request[t].lba]]
    /\ map_locks' = [map_locks EXCEPT ![map_lock_num(request[t].lba)] = Nobody]
    /\ Goto(t, "lane_exit")
    /\ UNCHANGED <<is_zeroed, info, flog, data, mapped, layout, flogs, rtt,
                   opening, lanes, locals, bounds>>

-----------------------------------------------------------------------------
(* Crash, close, and the opening of the pool                               *)

RuntimeGone ==
    /\ laidout' = FALSE /\ flags' = FALSE /\ layout_write_mutex' = Nobody
    /\ current' = [l \in Lanes |-> Zflog]
    /\ next' = [l \in Lanes |-> 0]
    /\ rtt' = [l \in Lanes |-> NoRead]
    /\ map_locks' = [l \in Lanes |-> Nobody]
    /\ pool' = "closed" /\ flognum' = 0
    /\ next_lane' = 0
    /\ locks' = [l \in Lanes |-> Nobody]
    /\ pc' = [t \in Threads |-> "idle"]
    /\ request' = [t \in Threads |-> NoRequest]
    /\ lane' = [t \in Threads |-> 0]
    /\ entry' = [t \in Threads |-> Unmapped]
    /\ old_entry' = [t \in Threads |-> Unmapped]
    /\ i' = [t \in Threads |-> 0]
    /\ buf' = [t \in Threads |-> NotYet]

\* An entry of the map that was stored and not drained may be on media or not.
Crash ==
    /\ pool # "closed"
    /\ crashes < MaxCrashes
    /\ crashes' = crashes + 1
    /\ \E S \in SUBSET {x \in Lbas : mapped[x] # map[x]} :
          map' = [x \in Lbas |-> IF x \in S THEN mapped[x] ELSE map[x]]
    /\ mapped' = map'
    /\ RuntimeGone
    /\ UNCHANGED <<is_zeroed, info, flog, data, workload>>

\* pmemblk_close, btt_fini
Close ==
    /\ pool = "open"
    /\ \A t \in Threads : pc[t] = "idle"
    /\ RuntimeGone
    /\ UNCHANGED <<media, bounds>>

\* pmemblk_runtime_init, btt_init and read_layout up to read_arenas
Open ==
    /\ pool = "closed"
    /\ pool' = IF info THEN "opening" ELSE "open"
    /\ UNCHANGED <<media, layout, flogs, rtt, map_locks, flognum, lanes, pc, locals, bounds>>

\* An update of the flog entry f that did not reach the map
Incomplete(f) ==
    /\ f.old_map # f.new_map
    /\ f.new_map # Resolved(map[f.lba], f.lba)
    /\ f.old_map = Resolved(map[f.lba], f.lba)

\* Mutant: opening loads the flogs and completes no update.
ReadFlogsOnly ==
    /\ pool = "opening"
    /\ current' = [current EXCEPT ![flognum] = Loaded(flognum)]
    /\ next' = [next EXCEPT ![flognum] = LoadedNext(flognum)]
    /\ flags' = flags
    /\ flognum' = flognum + 1
    /\ pool' = IF flognum' = nfree THEN "open" ELSE pool
    /\ laidout' = (flognum' = nfree)
    /\ UNCHANGED <<media, rtt, map_locks, layout_write_mutex, lanes, pc, locals, bounds>>

\* read_flogs, one pair at a time; after the last the arena is laid out.
ReadFlogPair ==
    LET f == Loaded(flognum) IN
    /\ pool = "opening"
    /\ current' = [current EXCEPT ![flognum] = f]
    /\ next' = [next EXCEPT ![flognum] = LoadedNext(flognum)]
    /\ flags' = (flags \/ btt_flog_get_valid(flog[flognum]) = 2)
    /\ map' = IF Incomplete(f) THEN [map EXCEPT ![f.lba] = f.new_map] ELSE map
    /\ mapped' = map'
    /\ flognum' = flognum + 1
    /\ pool' = IF flognum' = nfree THEN "open" ELSE pool
    /\ laidout' = (flognum' = nfree)
    /\ UNCHANGED <<is_zeroed, info, flog, data, layout_write_mutex, rtt, map_locks,
                   lanes, pc, locals, bounds>>

-----------------------------------------------------------------------------
Step(t) ==
    \/ lane_enter(t) \/ lane_exit(t)
    \/ SetRtt(t) \/ Reread(t) \/ ReadBegin(t) \/ ReadEnd(t)
    \/ LayoutLock(t) \/ ZeroMap(t) \/ WriteFlogs(t) \/ WriteInfo(t) \/ ReadArenas(t)
    \/ StartLaidOut(t) \/ Scan(t) \/ WriteBegin(t) \/ WriteEnd(t)
    \/ MapLock(t) \/ FlogOld(t) \/ FlogNew(t) \/ MapStore(t) \/ MapUnlock(t)

Next ==
    \/ \E t \in Threads : Call(t) \/ Step(t)
    \/ Crash \/ Close \/ Open \/ ReadFlogPair

Spec == Init /\ [][Next]_vars

\* Threads that run: every step of a request that stays possible is taken.
FairSpec == Spec /\ \A t \in Threads : WF_vars(Step(t))

-----------------------------------------------------------------------------
(* The pool as a block device.                                             *)

\* Contents that entry e of block x stands for
Contents(e, x) ==
    CASE e.flag = "error" -> Error
      [] e.flag = "normal" -> data[e.block]
      [] OTHER -> Zero

\* The entry of x once every flog has been read back
Recovered(x) ==
    LET pending == {l \in Lanes : Loaded(l).lba = x /\ Incomplete(Loaded(l))}
    IN IF pending = {} THEN map[x] ELSE Loaded(CHOOSE l \in pending : TRUE).new_map

kept == [x \in Lbas |-> IF info THEN Contents(Recovered(x), x) ELSE Zero]
seen ==
    [x \in Lbas |->
        IF pool # "open" THEN kept[x]
        ELSE IF laidout THEN Contents(mapped[x], x) ELSE Zero]

\* What a request in progress has already changed
effects ==
    [t \in Threads |->
        IF request[t] = NoRequest \/ request[t].op = "read" THEN {}
        ELSE (IF pc[t] \in {"map_unlock", "lane_exit"} THEN {"seen"} ELSE {})
             \cup (IF \/ pc[t] = "lane_exit"
                      \/ request[t].op = "write" /\ pc[t] \in {"map_store", "map_unlock"}
                   THEN {"kept"} ELSE {})]

\* The answer of a read is fixed once it has found its entry unchanged.
result ==
    [t \in Threads |->
        IF request[t] = NoRequest \/ request[t].op # "read" THEN NotYet
        ELSE IF pc[t] \in {"read_begin", "read_end"} THEN data[entry[t].block]
        ELSE IF pc[t] = "lane_exit" THEN buf[t] ELSE NotYet]

Device == INSTANCE BlockDevice

-----------------------------------------------------------------------------
(* Properties.                                                             *)

\* The type of every variable.
TypeOK ==
    /\ is_zeroed \in BOOLEAN /\ info \in BOOLEAN
    /\ map \in [Lbas -> Entries] /\ mapped \in [Lbas -> Entries]
    /\ flog \in [Lanes -> [0 .. 1 -> Flogs]]
    /\ data \in [Blocks -> Values \cup {Torn}]
    /\ laidout \in BOOLEAN /\ flags \in BOOLEAN
    /\ layout_write_mutex \in Threads \cup {Nobody}
    /\ current \in [Lanes -> Flogs] /\ next \in [Lanes -> 0 .. 1]
    /\ rtt \in [Lanes -> Entries]
    /\ map_locks \in [Lanes -> Threads \cup {Nobody}]
    /\ pool \in {"closed", "opening", "open"} /\ flognum \in 0 .. nfree
    /\ next_lane \in 0 .. nlane - 1
    /\ locks \in [Lanes -> Threads \cup {Nobody}]
    /\ pc \in [Threads -> {"idle", "lane_enter", "lane_exit", "set_rtt", "reread",
          "read_begin", "read_end", "layout_lock", "zero_map", "write_flogs",
          "write_info", "read_arenas", "start", "scan", "write_begin", "write_end",
          "map_lock", "flog_old", "flog_new", "map_store", "map_unlock"}]
    /\ request \in [Threads -> Requests \cup {NoRequest}]
    /\ lane \in [Threads -> 0 .. nlane - 1]
    /\ entry \in [Threads -> Entries] /\ old_entry \in [Threads -> Entries]
    /\ i \in [Threads -> 0 .. nlane - 1]
    /\ buf \in [Threads -> Values \cup {Zero, Error, NotYet, Torn}]
    /\ workload \in Seq(Requests) /\ crashes \in 0 .. MaxCrashes

\* The block that lane l has free: the old block of its last update, or the
\* new one as long as that update has not reached the map.
FreeBlock(l) ==
    LET f == Loaded(l) IN
    IF Incomplete(f) THEN f.new_map.block ELSE f.old_map.block

\* btt_check: on media, every internal block is either mapped once or free
\* in one lane, at any point where the pool could crash.
BlocksAccounted ==
    info =>
      /\ \A x, y \in Lbas : x # y =>
            Resolved(map[x], x).block # Resolved(map[y], y).block
      /\ \A l, m \in Lanes : l # m => FreeBlock(l) # FreeBlock(m)
      /\ \A x \in Lbas, l \in Lanes : Resolved(map[x], x).block # FreeBlock(l)

\* read_flog_pair always finds a current entry, so that no crash leaves an
\* arena in the error state, in which it refuses every write.
FlogsReadable ==
    /\ info => \A l \in Lanes : btt_flog_get_valid(flog[l]) # 2
    /\ ~flags

\* A block is never written while it is mapped or while another thread is
\* copying it out.
WritesUnread ==
    \A t \in Threads : pc[t] \in {"write_begin", "write_end"} =>
        /\ \A x \in Lbas : Resolved(mapped[x], x).block # entry[t].block
        /\ \A u \in Threads : pc[u] \in {"read_begin", "read_end"} =>
              entry[u].block # entry[t].block

\* The pool is an atomic block device that keeps what returned requests wrote.
AtomicDevice == Device!Spec

\* Every request returns.
RequestsReturn == \A t \in Threads : pc[t] # "idle" ~> pc[t] = "idle"

=============================================================================
