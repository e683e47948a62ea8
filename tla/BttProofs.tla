----------------------------- MODULE BttProofs -----------------------------
(***************************************************************************)
(* The block translation table, for any number of threads, lanes, blocks   *)
(* and crashes, and any requests: the media account for every block at     *)
(* every point, the flogs can always be read, and no block is written      *)
(* while it is mapped or read.  BttInvariant has the inductive invariant   *)
(* and its parts about types, locks, the layout and the flogs.             *)
(***************************************************************************)
EXTENDS BttInvariant

-----------------------------------------------------------------------------
(* The blocks                                                              *)

\* A block's accounts depend only on the map and what is loaded from the flogs.
LEMMA AccountsFrame ==
    ASSUME Accounts, UNCHANGED <<info, map>>,
           \A l \in Lanes : Loaded(l)' = Loaded(l)
    PROVE  Accounts'
<1>1. \A l \in Lanes : Incomplete(Loaded(l))' = Incomplete(Loaded(l))
    BY Zenon DEF Incomplete
<1>2. \A l \in Lanes : FreeBlock(l)' = FreeBlock(l)
    BY <1>1, Zenon DEF FreeBlock
<1>3. BlocksAccounted'
    BY <1>2, Zenon DEF Accounts, BlocksAccounted
<1> QED
    BY <1>1, <1>3, Zenon DEF Accounts

\* The step is no more than the completion of updates: an entry of the map changes to
\* what an incomplete update says, or in its flag alone.
Completes ==
    \A y \in Lbas :
        \/ map'[y] = map[y]
        \/ /\ Resolved(map'[y], y).block = Resolved(map[y], y).block
           /\ \A l \in Lanes : Loaded(l).lba = y => ~Incomplete(Loaded(l))
        \/ \E l \in Lanes : /\ Loaded(l).lba = y /\ Incomplete(Loaded(l))
                            /\ Resolved(map'[y], y) = Loaded(l).new_map

\* Completion trades the mapped block of an update for the free block of its lane, and
\* makes no update incomplete.
LEMMA Completed ==
    ASSUME TypeOK, Accounts, info, UNCHANGED <<info, flog>>, Completes
    PROVE  /\ Accounts'
           /\ \A l \in Lanes : Incomplete(Loaded(l))' => Incomplete(Loaded(l))
           /\ \A l \in Lanes : Resolved(map'[Loaded(l).lba], Loaded(l).lba) = Loaded(l).new_map
                                  => ~Incomplete(Loaded(l))'
<1> DEFINE blk(y) == Resolved(map[y], y).block
           nblk(y) == Resolved(map'[y], y).block
           free(l) == FreeBlock(l)
           nfre(l) == FreeBlock(l)'
           inc(l) == Incomplete(Loaded(l))
           ninc(l) == Incomplete(Loaded(l))'
           moved(l) == inc(l) /\ ~ninc(l)
           lba(l) == Loaded(l).lba
<1>0. \A l \in Lanes : Loaded(l)' = Loaded(l) /\ lba(l) \in Lbas
    BY LoadedTypes, Zenon DEF Loaded, TypeOK, Flogs
<1>1. /\ \A x, y \in Lbas : x # y => blk(x) # blk(y)
      /\ \A l, m \in Lanes : l # m => free(l) # free(m)
      /\ \A x \in Lbas, l \in Lanes : blk(x) # free(l)
    BY Zenon DEF Accounts, BlocksAccounted
<1>2. \A l, m \in Lanes : lba(l) = lba(m) /\ inc(l) /\ inc(m) => l = m
    BY Zenon DEF Accounts
<1>3. \A l \in Lanes :
        /\ inc(l) => /\ free(l) = Loaded(l).new_map.block
                     /\ blk(lba(l)) = Loaded(l).old_map.block
        /\ ~inc(l) => free(l) = Loaded(l).old_map.block
    BY Zenon DEF FreeBlock, Incomplete
<1>4. \A l \in Lanes :
        /\ ninc(l) => /\ nfre(l) = Loaded(l).new_map.block
                      /\ nblk(lba(l)) = Loaded(l).old_map.block
                      /\ Resolved(map'[lba(l)], lba(l)) # Loaded(l).new_map
        /\ ~ninc(l) => nfre(l) = Loaded(l).old_map.block
    BY <1>0, Zenon DEF FreeBlock, Incomplete
<1>5. \A l \in Lanes : map'[lba(l)] = map[lba(l)] => (ninc(l) <=> inc(l))
    BY <1>0, Zenon DEF Incomplete
<1>6. \A y \in Lbas :
        \/ map'[y] = map[y]
        \/ nblk(y) = blk(y) /\ \A l \in Lanes : lba(l) = y => ~inc(l)
        \/ \E l \in Lanes : /\ lba(l) = y /\ inc(l)
                            /\ Resolved(map'[y], y) = Loaded(l).new_map
    BY Zenon DEF Completes
<1>7. \A y \in Lbas : map'[y] = map[y] => nblk(y) = blk(y)
    OBVIOUS
<1>8. \A y \in Lbas, l \in Lanes :
          Resolved(map'[y], y) = Loaded(l).new_map => nblk(y) = Loaded(l).new_map.block
    OBVIOUS
<1> HIDE DEF blk, nblk, free, nfre, inc, ninc, lba
<1>11. ASSUME NEW l \in Lanes, ninc(l), ~inc(l) PROVE FALSE
    <2> DEFINE y == lba(l)
    <2>0. y \in Lbas
        BY <1>0, Zenon
    <2>1. CASE map'[y] = map[y]
        BY <1>5, <1>11, <2>1, Zenon
    <2>2. CASE nblk(y) = blk(y)
        BY <1>1, <1>3, <1>4, <1>11, <2>0, <2>2, SMTT(30)
    <2>3. ASSUME NEW m \in Lanes, lba(m) = y, inc(m), Resolved(map'[y], y) = Loaded(m).new_map
          PROVE  FALSE
        <3>1. nblk(y) = free(m) /\ nblk(y) = Loaded(l).old_map.block /\ m # l
            BY <1>3, <1>4, <1>8, <1>11, <2>0, <2>3, Zenon
        <3> QED
            BY <1>1, <1>3, <1>11, <3>1, Zenon
    <2> QED
        BY <1>6, <2>0, <2>1, <2>2, <2>3, Zenon
<1>12. ASSUME NEW l \in Lanes, moved(l)
       PROVE  nblk(lba(l)) = free(l) /\ nfre(l) = blk(lba(l))
    <2> DEFINE y == lba(l)
    <2>0. y \in Lbas
        BY <1>0, Zenon
    <2>1. map'[y] # map[y]
        BY <1>5, <1>12, Zenon
    <2>2. PICK m \in Lanes : lba(m) = y /\ inc(m) /\ Resolved(map'[y], y) = Loaded(m).new_map
        BY <1>6, <1>12, <2>0, <2>1, Zenon
    <2>3. m = l
        BY <1>2, <1>12, <2>2, Zenon
    <2> QED
        BY <1>3, <1>4, <1>8, <1>12, <2>0, <2>2, <2>3, Zenon
<1>13. \A l \in Lanes : ~moved(l) => nfre(l) = free(l)
    BY <1>3, <1>4, <1>11, Zenon
<1>14. ASSUME NEW y \in Lbas, nblk(y) # blk(y)
       PROVE  \E l \in Lanes : moved(l) /\ lba(l) = y
    <2>1. PICK m \in Lanes : lba(m) = y /\ inc(m) /\ Resolved(map'[y], y) = Loaded(m).new_map
        BY <1>6, <1>7, <1>14, Zenon
    <2> QED
        BY <1>4, <2>1, Zenon
<1> HIDE DEF moved
<1>20. \A x, y \in Lbas : x # y => nblk(x) # nblk(y)
    BY <1>1, <1>12, <1>14, SMTT(30)
<1>21. \A l, m \in Lanes : l # m => nfre(l) # nfre(m)
    <2>1. \A l \in Lanes : moved(l) => inc(l)
        BY Zenon DEF moved
    <2> QED
        BY <1>0, <1>1, <1>2, <1>12, <1>13, <2>1, SMTT(30)
<1>22. \A x \in Lbas, l \in Lanes : nblk(x) # nfre(l)
    <2> TAKE x \in Lbas, l \in Lanes
    <2>1. CASE moved(l)
        <3>1. CASE x = lba(l)
            BY <1>0, <1>1, <1>12, <2>1, <3>1, Zenon
        <3>2. CASE x # lba(l)
            BY <1>0, <1>1, <1>12, <1>14, <2>1, <3>2, SMTT(30)
        <3> QED
            BY <3>1, <3>2, Zenon
    <2>2. CASE ~moved(l)
        BY <1>1, <1>12, <1>13, <1>14, <2>2, SMTT(30)
    <2> QED
        BY <2>1, <2>2, Zenon
<1>23. BlocksAccounted'
    BY <1>20, <1>21, <1>22, Zenon DEF BlocksAccounted, nblk, nfre
<1>24. \A l \in Lanes : Incomplete(Loaded(l))' => Incomplete(Loaded(l))
    BY <1>11, Zenon DEF inc, ninc
<1>25. \A l \in Lanes : Resolved(map'[Loaded(l).lba], Loaded(l).lba) = Loaded(l).new_map
                            => ~Incomplete(Loaded(l))'
    BY <1>4, Zenon DEF ninc, lba
<1> QED
    BY <1>0, <1>23, <1>24, <1>25, Zenon DEF Accounts

\* A lane is used by one thread, and a map entry is locked by one.
LEMMA Exclusion ==
    ASSUME Control, NEW t \in Threads, NEW u \in Threads
    PROVE  /\ pc[t] \notin {"idle", "lane_enter"} /\ pc[u] \notin {"idle", "lane_enter"}
                 /\ lane[t] = lane[u] => t = u
           /\ pc[t] \in MapHeld /\ pc[u] \in MapHeld /\ request[t].lba = request[u].lba
                 => t = u
BY ZenonT(60) DEF Control

\* A thread that changes block x has a lane, a request and a laid-out arena.
LEMMA ChangerTypes ==
    ASSUME TypeOK, Control, LayoutOnce, NEW t \in Threads, pc[t] \in Changing
    PROVE  /\ request[t] \in Requests /\ request[t].lba \in Lbas
           /\ request[t].op \in {"write", "set_zero", "set_error"}
           /\ lane[t] \in Lanes /\ laidout /\ info
           /\ Loaded(lane[t]) \in Flogs /\ entry[t] \in Entries
<1>1. pc[t] # "idle" /\ request[t].op # "read" /\ laidout
    BY Zenon DEF Control, Changing, ForWrites, MapHeld
<1>2. request[t] \in Requests
    BY <1>1, Zenon DEF Control
<1>3. request[t].lba \in Lbas /\ request[t].op \in {"write", "set_zero", "set_error"}
    BY <1>1, <1>2, Zenon DEF Requests
<1>4. lane[t] \in Lanes /\ entry[t] \in Entries
    BY LanesInUse, Zenon DEF TypeOK
<1>5. Loaded(lane[t]) \in Flogs
    BY <1>4, LoadedTypes, Zenon DEF TypeOK
<1>6. info
    BY <1>1, Zenon DEF LayoutOnce
<1> QED
    BY <1>1, <1>2, <1>3, <1>4, <1>5, <1>6, Zenon

\* Before its own update the lane of a thread has none that is incomplete, and a
\* write's block is the free block of its lane.
LEMMA LaneFree ==
    ASSUME TypeOK, Control, LayoutOnce, InProgress, NEW t \in Threads,
           pc[t] \in ForWrites \cup {"map_lock"}, request[t].op = "write"
    PROVE  ~Incomplete(Loaded(lane[t])) /\ entry[t] = Normal(FreeBlock(lane[t]))
<1>1. pc[t] \in Changing /\ pc[t] \notin Storing /\ pc[t] \notin {"idle", "lane_enter"}
    BY Zenon DEF Changing, ForWrites, Storing
<1>2. lane[t] \in Lanes /\ laidout
    BY <1>1, ChangerTypes, Zenon
<1>3. ASSUME NEW u \in Threads, pc[u] \in Storing, lane[u] = lane[t] PROVE FALSE
    BY <1>1, <1>3, Exclusion, Zenon DEF Storing
<1>4. ~Incomplete(Loaded(lane[t]))
    BY <1>2, <1>3, Zenon DEF InProgress, Changer
<1>5. entry[t] = Normal(Loaded(lane[t]).old_map.block)
    BY Zenon DEF InProgress, Changer
<1> QED
    BY <1>4, <1>5, Zenon DEF FreeBlock

\* From the update of the flog until the map is drained a write is an incomplete update,
\* of the only thread that holds the map entry.
LEMMA StoringWrite ==
    ASSUME TypeOK, Control, LayoutOnce, InProgress, NEW t \in Threads,
           pc[t] \in Storing, request[t].op = "write"
    PROVE  Incomplete(Loaded(lane[t])) /\ FreeBlock(lane[t]) = entry[t].block
<1>1. pc[t] \in MapHeld
    BY Zenon DEF Storing, MapHeld
<1>2. old_entry[t] = Resolved(map[request[t].lba], request[t].lba)
    BY <1>1, Zenon DEF InProgress, Changer
<1>3. /\ Loaded(lane[t]).lba = request[t].lba
      /\ Loaded(lane[t]).old_map = old_entry[t]
      /\ Loaded(lane[t]).new_map = entry[t]
      /\ old_entry[t].block # entry[t].block
    BY Zenon DEF InProgress, Changer
<1>4. Incomplete(Loaded(lane[t]))
    BY <1>2, <1>3, Zenon DEF Incomplete
<1> QED
    BY <1>3, <1>4, Zenon DEF FreeBlock

\* While the entry of y is held and its lane has no incomplete write, no lane has an
\* incomplete update of y.
LEMMA HeldAlone ==
    ASSUME TypeOK, Control, LayoutOnce, InProgress, NEW t \in Threads, pc[t] \in MapHeld,
           NEW l \in Lanes, Loaded(l).lba = request[t].lba, Incomplete(Loaded(l))
    PROVE  pc[t] \in Storing /\ request[t].op = "write" /\ lane[t] = l
<1>1. laidout
    BY ChangerTypes, Zenon DEF Changing
<1>2. PICK u \in Threads : pc[u] \in Storing /\ request[u].op = "write" /\ lane[u] = l
                           /\ request[u].lba = Loaded(l).lba
    BY <1>1, Zenon DEF InProgress, Changer
<1>3. u = t
    BY <1>2, Exclusion, Zenon DEF Storing, MapHeld
<1> QED
    BY <1>2, <1>3, Zenon

\* Draining the entries S of the map completes updates.
LEMMA Drained ==
    ASSUME TypeOK, Control, LayoutOnce, InProgress, NEW S \in SUBSET Lbas,
           map' = [x \in Lbas |-> IF x \in S THEN mapped[x] ELSE map[x]]
    PROVE  Completes
<1> SUFFICES ASSUME NEW y \in Lbas, map'[y] # map[y]
             PROVE  \/ /\ Resolved(map'[y], y).block = Resolved(map[y], y).block
                       /\ \A l \in Lanes : Loaded(l).lba = y => ~Incomplete(Loaded(l))
                    \/ \E l \in Lanes : /\ Loaded(l).lba = y /\ Incomplete(Loaded(l))
                                        /\ Resolved(map'[y], y) = Loaded(l).new_map
    BY Zenon DEF Completes
<1>1. map'[y] = mapped[y] /\ mapped[y] # map[y]
    OBVIOUS
<1>2. PICK t \in Threads : pc[t] = "map_unlock" /\ request[t].lba = y
    BY <1>1, Zenon DEF InProgress, Changer
<1>3. map'[y] = entry[t] /\ pc[t] \in Storing /\ pc[t] \in MapHeld
    BY <1>1, <1>2, Zenon DEF InProgress, Changer, Storing, MapHeld
<1>4. lane[t] \in Lanes
    BY <1>3, ChangerTypes, Zenon DEF Changing
<1>5. CASE request[t].op = "write"
    <2>1. Loaded(lane[t]).lba = y /\ Loaded(lane[t]).new_map = entry[t] /\ entry[t].flag = "normal"
        BY <1>2, <1>3, <1>5, Zenon DEF InProgress, Changer
    <2>2. Incomplete(Loaded(lane[t]))
        BY <1>3, <1>5, StoringWrite, Zenon
    <2>3. Resolved(map'[y], y) = entry[t]
        BY <1>3, <2>1, Zenon DEF Resolved
    <2> QED
        BY <1>4, <2>1, <2>2, <2>3, Zenon
<1>6. CASE request[t].op # "write"
    <2>1. entry[t].block = old_entry[t].block /\ entry[t].flag # "initial"
        BY <1>3, <1>6, Zenon DEF InProgress, Changer
    <2>2. old_entry[t] = Resolved(map[y], y)
        BY <1>2, <1>3, Zenon DEF InProgress, Changer
    <2>3. Resolved(map'[y], y) = entry[t]
        BY <1>3, <2>1, Zenon DEF Resolved
    <2>4. \A l \in Lanes : Loaded(l).lba = y => ~Incomplete(Loaded(l))
        BY <1>2, <1>3, <1>6, HeldAlone, Zenon
    <2> QED
        BY <2>1, <2>2, <2>3, <2>4, Zenon
<1> QED
    BY <1>5, <1>6, Zenon

\* Reading a pair back completes its update.
LEMMA ReadBack ==
    ASSUME TypeOK, LayoutOnce, Accounts, ReadFlogPair
    PROVE  /\ Completes /\ info /\ flognum \in Lanes
           /\ Incomplete(Loaded(flognum)) =>
                 Resolved(map'[Loaded(flognum).lba], Loaded(flognum).lba) = Loaded(flognum).new_map
<1>1. info /\ flognum \in Lanes
    <2>1. info /\ flognum < nfree /\ flognum \in 0 .. nfree
        BY Zenon DEF ReadFlogPair, LayoutOnce, TypeOK
    <2> QED
        BY <2>1, Sizes, SMTT(30) DEF Lanes
<1>2. PICK f \in Flogs : f = Loaded(flognum)
    BY <1>1, LoadedTypes, Zenon DEF TypeOK
<1>3. f.new_map.flag # "initial" /\ f.lba \in Lbas
    BY <1>1, <1>2, Zenon DEF Accounts, Flogs
<1>4. map' = IF Incomplete(f) THEN [map EXCEPT ![f.lba] = f.new_map] ELSE map
    BY <1>2, Zenon DEF ReadFlogPair
<1>5. DOMAIN map = Lbas
    BY Zenon DEF TypeOK
<1>6. Incomplete(f) => Resolved(map'[f.lba], f.lba) = f.new_map
    BY <1>3, <1>4, <1>5, Zenon DEF Resolved
<1>7. \A y \in Lbas : map'[y] = map[y] \/ (Incomplete(f) /\ y = f.lba)
    BY <1>4, <1>5, Zenon
<1>8. Completes
    BY <1>1, <1>2, <1>6, <1>7, Zenon DEF Completes
<1> QED
    BY <1>1, <1>2, <1>6, <1>8, Zenon

\* A new arena has an identity map, and the blocks past it are free.
LEMMA InitAccounts == Init => Accounts
BY Zenon DEF Init, Accounts, BlocksAccounted

JustLaidOut ==
    /\ \A x \in Lbas : map[x] = Unmapped
    /\ \A l \in Lanes : flog[l] = [k \in 0 .. 1 |-> IF k = 0 THEN InitialFlog(l) ELSE Zflog]
NothingIncomplete == \A l \in Lanes : ~Incomplete(Loaded(l))

\* A fresh layout gives each lane a free block of its own and no incomplete update.
LEMMA LaidOutAccounts == JustLaidOut => Accounts /\ NothingIncomplete
<1> SUFFICES ASSUME JustLaidOut PROVE Accounts /\ NothingIncomplete
    OBVIOUS
<1>1. ASSUME NEW l \in Lanes
      PROVE  /\ Loaded(l).lba = l /\ Loaded(l).old_map = Loaded(l).new_map
             /\ Loaded(l).old_map.block = external_nlba + l
             /\ Loaded(l).new_map.flag = "zero"
    <2>1. flog[l] = [k \in 0 .. 1 |-> IF k = 0 THEN InitialFlog(l) ELSE Zflog]
        BY Zenon DEF JustLaidOut
    <2>2. flog[l][0] = InitialFlog(l) /\ flog[l][1] = Zflog
        BY <2>1, SMTT(30)
    <2>3. btt_flog_get_valid(flog[l]) = 0
        BY <2>2, SMTT(30) DEF btt_flog_get_valid, InitialFlog, Zflog
    <2>4. Loaded(l) = InitialFlog(l)
        BY <2>2, <2>3, SMTT(30) DEF Loaded
    <2> QED
        BY <2>4, SMTT(30) DEF InitialFlog
<1>2. \A l \in Lanes : ~Incomplete(Loaded(l))
    BY <1>1, Zenon DEF Incomplete
<1>3. \A l \in Lanes : FreeBlock(l) = external_nlba + l
    BY <1>1, <1>2, Zenon DEF FreeBlock
<1>4. \A x \in Lbas : Resolved(map[x], x).block = x
    BY SMTT(30) DEF Resolved, Unmapped, Normal, JustLaidOut
<1>5. BlocksAccounted
    BY <1>3, <1>4, Sizes, SMTT(30) DEF BlocksAccounted, Lbas, Lanes
<1> QED
    BY <1>1, <1>2, <1>5, Zenon DEF Accounts, NothingIncomplete

\* What FlogNew makes current is an update to the free block of the lane.
LEMMA UpdateMade ==
    ASSUME TypeOK, Control, LayoutOnce, FlogsCurrent, Accounts, InProgress,
           NEW t \in Threads, FlogNew(t)
    PROVE  /\ lane[t] \in Lanes /\ request[t].lba \in Lbas /\ info
           /\ Loaded(lane[t])'.lba = request[t].lba
           /\ Loaded(lane[t])'.old_map = old_entry[t]
           /\ Loaded(lane[t])'.new_map = entry[t]
           /\ entry[t] = Normal(FreeBlock(lane[t]))
           /\ old_entry[t] = Resolved(map[request[t].lba], request[t].lba)
           /\ old_entry[t].block # entry[t].block
           /\ FreeBlock(lane[t])' = FreeBlock(lane[t])
           /\ \A l \in Lanes : l # lane[t] => Loaded(l)' = Loaded(l)
<1>1. pc[t] = "flog_new" /\ map' = map /\ lane' = lane
    BY Zenon DEF FlogNew, At, locals
<1>2. pc[t] \in Changing /\ pc[t] \in ForWrites /\ pc[t] \in MapHeld
    BY <1>1, Zenon DEF Changing, ForWrites, MapHeld
<1>3. lane[t] \in Lanes /\ request[t].lba \in Lbas /\ info /\ request[t].op = "write"
    BY <1>2, ChangerTypes, Zenon DEF Control
<1>4. Loaded(lane[t])' = [lba |-> request[t].lba, old_map |-> old_entry[t],
                          new_map |-> entry[t], seq |-> Nseq[Loaded(lane[t]).seq]]
    BY FlogNewLoads, Zenon
<1>5. entry[t] = Normal(FreeBlock(lane[t]))
    BY <1>2, <1>3, LaneFree, Zenon
<1>6. old_entry[t] = Resolved(map[request[t].lba], request[t].lba)
    BY <1>2, Zenon DEF InProgress, Changer
<1>7. old_entry[t].block # entry[t].block
    BY <1>3, <1>5, <1>6, SMTT(30) DEF Accounts, BlocksAccounted, Normal
<1>8. FreeBlock(lane[t])' = FreeBlock(lane[t])
    <2>1. PICK m \in Lanes : m = lane[t]
        BY <1>3, Zenon
    <2>2. /\ Loaded(m)'.lba = request[t].lba /\ Loaded(m)'.old_map = old_entry[t]
          /\ Loaded(m)'.new_map = entry[t]
        BY <1>1, <1>4, <2>1, SMTT(30)
    <2>3. Incomplete(Loaded(m))'
        BY <1>1, <1>6, <1>7, <2>2, Zenon DEF Incomplete
    <2>4. FreeBlock(m)' = entry[t].block
        BY <2>2, <2>3, Zenon DEF FreeBlock
    <2> QED
        BY <1>1, <1>5, <2>1, <2>4, SMTT(30) DEF Normal
<1>9. \A l \in Lanes : l # lane[t] => Loaded(l)' = Loaded(l)
    BY FlogNewLoads, Zenon
<1> QED
    BY <1>3, <1>4, <1>5, <1>6, <1>7, <1>8, <1>9, SMTT(30)

\* Every step keeps the blocks accounted for.
LEMMA NextAccounts ==
    ASSUME TypeOK, Control, LayoutOnce, FlogsCurrent, Accounts, InProgress, [Next]_vars
    PROVE  Accounts'
<1> USE DEF media, layout, opening, lanes, flogs, locals, bounds
<1>1. ASSUME UNCHANGED <<info, map, flog>> PROVE Accounts'
    <2>1. \A l \in Lanes : Loaded(l)' = Loaded(l)
        BY <1>1, Zenon DEF Loaded
    <2> QED
        BY <1>1, <2>1, AccountsFrame, Zenon
<1>2. ASSUME ~info' PROVE Accounts'
    BY <1>2, Zenon DEF Accounts, BlocksAccounted
<1>3. ASSUME NEW t \in Threads, ZeroMap(t) \/ WriteFlogs(t) PROVE Accounts'
    <2>1. ~info'
        BY <1>3, Zenon DEF ZeroMap, WriteFlogs, At, LayoutOnce, LayingOut
    <2> QED
        BY <1>2, <2>1, Zenon
<1>4. ASSUME NEW t \in Threads, WriteInfo(t) PROVE Accounts'
    <2>1. JustLaidOut'
        BY <1>4, Zenon DEF WriteInfo, At, LayoutOnce, LayingOut, JustLaidOut
    <2> QED
        BY <2>1, LaidOutAccounts, PTL
<1>5. ASSUME NEW t \in Threads, FlogOld(t) PROVE Accounts'
    <2>1. UNCHANGED <<info, map>>
        BY <1>5, Zenon DEF FlogOld
    <2> QED
        BY <1>5, <2>1, FlogOldLoads, AccountsFrame, Zenon
<1>6. ASSUME NEW t \in Threads, FlogNew(t) PROVE Accounts'
    <2>0. PICK m \in Lanes : m = lane[t]
        BY <1>6, UpdateMade, Zenon
    <2>1. UNCHANGED <<info, map, lane>> /\ pc[t] = "flog_new"
        BY <1>6, Zenon DEF FlogNew, At
    <2>2. \A l \in Lanes : l # m => Loaded(l)' = Loaded(l)
        BY <1>6, <2>0, UpdateMade, Zenon
    <2>3. \A l \in Lanes : l # m => Incomplete(Loaded(l))' = Incomplete(Loaded(l))
        BY <2>1, <2>2, Zenon DEF Incomplete
    <2>4. \A l \in Lanes : l # m => FreeBlock(l)' = FreeBlock(l)
        BY <2>2, <2>3, Zenon DEF FreeBlock
    <2>5. FreeBlock(m)' = FreeBlock(m)
        BY <1>6, <2>0, <2>1, UpdateMade, Zenon
    <2>6. BlocksAccounted'
        BY <2>1, <2>4, <2>5, Zenon DEF Accounts, BlocksAccounted
    <2>7. /\ Loaded(m)'.lba = request[t].lba /\ Loaded(m)'.old_map = old_entry[t]
          /\ Loaded(m)'.new_map = entry[t] /\ old_entry[t].block # entry[t].block
        BY <1>6, <2>0, <2>1, UpdateMade, Zenon
    <2>11. entry[t].flag = "normal" /\ info
        <3>1. entry[t] = Normal(FreeBlock(lane[t])) /\ info
            BY <1>6, UpdateMade, Zenon
        <3>2. entry[t].flag = "normal"
            BY <3>1, SMTT(30) DEF Normal
        <3> QED
            BY <3>1, <3>2, Zenon
    <2>8. ASSUME NEW l \in Lanes, Loaded(l).lba = request[t].lba, Incomplete(Loaded(l))
          PROVE  FALSE
        BY <2>1, <2>8, HeldAlone, Zenon DEF MapHeld, Storing
    <2>9. \A l, k \in Lanes :
             (Loaded(l).lba = Loaded(k).lba /\ Incomplete(Loaded(l)) /\ Incomplete(Loaded(k)))'
                 => l = k
        BY <2>2, <2>3, <2>7, <2>8, <2>11, SMTT(30) DEF Accounts
    <2>10. \A l \in Lanes : /\ Loaded(l)'.old_map = Loaded(l)'.new_map
                                 \/ Loaded(l)'.old_map.block # Loaded(l)'.new_map.block
                            /\ Loaded(l)'.new_map.flag # "initial"
        BY <2>2, <2>7, <2>11, Zenon DEF Accounts
    <2> QED
        BY <2>6, <2>9, <2>10, Zenon DEF Accounts
<1>7. ASSUME NEW t \in Threads, MapUnlock(t) PROVE Accounts'
    <2>1. pc[t] = "map_unlock" /\ UNCHANGED <<info, flog>>
          /\ map' = [map EXCEPT ![request[t].lba] = mapped[request[t].lba]]
        BY <1>7, Zenon DEF MapUnlock, At
    <2>2. request[t].lba \in Lbas /\ info
        BY <2>1, ChangerTypes, Zenon DEF Changing, MapHeld
    <2>3. map' = [x \in Lbas |-> IF x \in {request[t].lba} THEN mapped[x] ELSE map[x]]
        BY <2>1, Zenon DEF TypeOK
    <2>4. Completes
        BY <2>2, <2>3, Drained, Zenon
    <2> QED
        BY <2>1, <2>2, <2>4, Completed, Zenon
<1>8. CASE Crash
    <2>1. UNCHANGED <<info, flog>>
        BY <1>8, Zenon DEF Crash
    <2>2. PICK S \in SUBSET {x \in Lbas : mapped[x] # map[x]} :
              map' = [x \in Lbas |-> IF x \in S THEN mapped[x] ELSE map[x]]
        BY <1>8, Zenon DEF Crash
    <2>3. Completes
        BY <2>2, Drained, Zenon
    <2>4. CASE info
        BY <2>1, <2>3, <2>4, Completed, Zenon
    <2>5. CASE ~info
        BY <1>2, <2>1, <2>5, Zenon
    <2> QED
        BY <2>4, <2>5, Zenon
<1>9. CASE ReadFlogPair
    <2>1. UNCHANGED <<info, flog>>
        BY <1>9, Zenon DEF ReadFlogPair
    <2> QED
        BY <1>9, <2>1, ReadBack, Completed, Zenon
<1>10. ASSUME NEW t \in Threads,
              \/ Call(t) \/ lane_enter(t) \/ lane_exit(t)
              \/ SetRtt(t) \/ Reread(t) \/ ReadBegin(t) \/ ReadEnd(t)
              \/ LayoutLock(t) \/ ReadArenas(t) \/ StartLaidOut(t)
       PROVE  Accounts'
    <2>1. UNCHANGED <<info, map, flog>>
        BY <1>10, Zenon DEF Call, lane_enter, lane_exit, SetRtt, Reread, ReadBegin, ReadEnd,
                     LayoutLock, ReadArenas, StartLaidOut
    <2> QED
        BY <1>1, <2>1, Zenon
<1>11. ASSUME NEW t \in Threads,
              Scan(t) \/ WriteBegin(t) \/ WriteEnd(t) \/ MapLock(t) \/ MapStore(t)
       PROVE  Accounts'
    <2>1. UNCHANGED <<info, map, flog>>
        BY <1>11, Zenon DEF Scan, WriteBegin, WriteEnd, MapLock, MapStore
    <2> QED
        BY <1>1, <2>1, Zenon
<1>12. CASE Close \/ Open \/ UNCHANGED vars
    <2>1. UNCHANGED <<info, map, flog>>
        BY <1>12, Zenon DEF Close, Open, vars
    <2> QED
        BY <1>1, <2>1, Zenon
<1> QED
    BY <1>3, <1>4, <1>5, <1>6, <1>7, <1>8, <1>9, <1>10, <1>11, <1>12, Zenon DEF Next, Step

-----------------------------------------------------------------------------
(* Updates in progress                                                     *)

\* No update is in progress at the start.
LEMMA InitProgress == Init => InProgress
BY Zenon DEF Init, InProgress, Changer, Storing, MapHeld, ForWrites

\* The thread does the same change, at the same point or a later one.
SameChange(u) ==
    /\ request'[u] = request[u] /\ lane'[u] = lane[u]
    /\ entry'[u] = entry[u] /\ old_entry'[u] = old_entry[u]

\* A step that leaves the media and all threads with a map entry alone.
LEMMA ProgressFrame ==
    ASSUME InProgress, UNCHANGED <<laidout, pool, flognum, map, mapped, flog>>,
           \A u \in Threads : pc[u] \in Storing => pc'[u] = pc[u] /\ SameChange(u),
           \A u \in Threads : pc'[u] \in MapHeld => pc'[u] = pc[u] /\ SameChange(u),
           \A u \in Threads :
              pc'[u] \in ForWrites \cup {"map_lock"} /\ request'[u].op = "write" =>
                  entry'[u] = Normal(Loaded(lane'[u]).old_map.block)
    PROVE  InProgress'
<1>1. \A l : Loaded(l)' = Loaded(l)
    BY Zenon DEF Loaded
<1>0. \A u \in Threads : Loaded(lane[u])' = Loaded(lane'[u])
    BY Zenon DEF Loaded
<1>2. \A l : Incomplete(Loaded(l))' = Incomplete(Loaded(l))
    BY <1>1, Zenon DEF Incomplete
<1>3. laidout' => \A l \in Lanes : Incomplete(Loaded(l))' =>
          \E t \in Threads : pc'[t] \in Storing /\ request'[t].op = "write" /\ lane'[t] = l
                             /\ request'[t].lba = Loaded(l)'.lba
    BY <1>1, <1>2, SMTT(30) DEF InProgress, Changer, SameChange
<1>4. pool' = "opening" => \A l \in Lanes : l < flognum' => ~Incomplete(Loaded(l))'
    BY <1>2, Zenon DEF InProgress, Changer
<1>5. \A x \in Lbas : mapped'[x] # map'[x] =>
          \E t \in Threads : pc'[t] = "map_unlock" /\ request'[t].lba = x
    BY SMTT(30) DEF InProgress, Changer, SameChange, Storing
<1>6. ASSUME NEW u \in Threads PROVE Changer(u)'
    <2>1. pc'[u] \in MapHeld => pc'[u] = pc[u] /\ SameChange(u)
        OBVIOUS
    <2>2. pc'[u] \in Storing => pc'[u] = pc[u] /\ SameChange(u)
        BY <2>1, Zenon DEF Storing, MapHeld
    <2>3. pc'[u] = "map_unlock" => pc'[u] = pc[u] /\ SameChange(u)
        BY <2>1, Zenon DEF MapHeld
    <2>4. Changer(u)
        BY Zenon DEF InProgress
    <2> QED
        BY <1>0, <2>1, <2>2, <2>3, <2>4, ZenonT(30) DEF Changer, SameChange
<1> QED
    BY <1>3, <1>4, <1>5, <1>6, Zenon DEF InProgress

\* What MapLock finds and chooses.
LEMMA MapLocked ==
    ASSUME TypeOK, Control, LayoutOnce, InProgress, NEW t \in Threads, MapLock(t)
    PROVE  /\ old_entry'[t] = Resolved(map[request[t].lba], request[t].lba)
           /\ request[t].op = "write" => pc'[t] = "flog_old" /\ entry'[t] = entry[t]
           /\ request[t].op # "write" =>
                 /\ pc'[t] \in {"lane_exit", "map_store"}
                 /\ entry'[t].block = old_entry'[t].block /\ entry'[t].flag # "initial"
           /\ pc'[t] = "map_store" =>
                 entry'[t].flag = IF request[t].op = "set_zero" THEN "zero" ELSE "error"
           /\ pc'[t] = "lane_exit" =>
                 request[t].op = "set_zero" /\ mapped[request[t].lba].flag = "zero"
<1> DEFINE x == request[t].lba
           old == Resolved(mapped[x], x)
           abort == request[t].op = "set_zero" /\ map_entry_is_zero_or_initial(old)
           new == CASE request[t].op = "set_zero" -> [block |-> old.block, flag |-> "zero"]
                    [] request[t].op = "set_error" -> [block |-> old.block, flag |-> "error"]
                    [] OTHER -> entry[t]
<1>0. DOMAIN entry = Threads /\ DOMAIN old_entry = Threads /\ DOMAIN pc = Threads
    BY Zenon DEF TypeOK
<1>1. /\ pc[t] = "map_lock" /\ map_locks[map_lock_num(x)] = Nobody
      /\ old_entry' = [old_entry EXCEPT ![t] = old]
      /\ entry' = [entry EXCEPT ![t] = new]
      /\ pc' = [pc EXCEPT ![t] = IF abort THEN "lane_exit"
                                 ELSE IF request[t].op = "write" THEN "flog_old" ELSE "map_store"]
    BY Zenon DEF MapLock, At, Goto
<1>2. x \in Lbas /\ request[t].op \in {"write", "set_zero", "set_error"}
    BY <1>1, ChangerTypes, Zenon DEF Changing
<1>3. ASSUME NEW u \in Threads, pc[u] = "map_unlock", request[u].lba = x PROVE FALSE
    <2>1. map_locks[map_lock_num(x)] = u
        BY <1>3, Zenon DEF Control, MapHeld
    <2> QED
        BY <1>1, <2>1, Sizes, Zenon
<1>4. mapped[x] = map[x]
    BY <1>2, <1>3, SMTT(30) DEF InProgress, Changer
<1>5. request[t].op = "write" => new = entry[t]
    OBVIOUS
<1>6. request[t].op = "set_zero" => new = [block |-> old.block, flag |-> "zero"]
    OBVIOUS
<1>7. request[t].op = "set_error" => new = [block |-> old.block, flag |-> "error"]
    OBVIOUS
<1>8. old_entry'[t] = old /\ entry'[t] = new
    BY <1>0, <1>1, Zenon
<1> HIDE DEF new
<1>9. old_entry'[t] = Resolved(map[x], x)
    BY <1>4, <1>8, Zenon
<1> HIDE DEF old
<1>10. request[t].op # "write" => new.block = old.block /\ new.flag # "initial"
    BY <1>2, <1>6, <1>7, SMTT(30)
<1>14. request[t].op # "write" =>
           new.flag = IF request[t].op = "set_zero" THEN "zero" ELSE "error"
    BY <1>2, <1>6, <1>7, SMTT(30)
<1>15. abort => request[t].op = "set_zero" /\ mapped[x].flag = "zero"
    BY Zenon DEF old, map_entry_is_zero_or_initial, Resolved, Normal
<1> HIDE DEF x
<1>11. pc'[t] \in {"lane_exit", "map_store", "flog_old"}
    BY <1>0, <1>1, Zenon
<1>12. request[t].op = "write" => pc'[t] = "flog_old"
    BY <1>0, <1>1, Zenon
<1>13. request[t].op # "write" => pc'[t] # "flog_old"
    BY <1>0, <1>1, Zenon
<1>16. pc'[t] = "lane_exit" => abort
    BY <1>0, <1>1, Zenon
<1> QED
    BY <1>5, <1>8, <1>9, <1>10, <1>11, <1>12, <1>13, <1>14, <1>15, <1>16, Zenon DEF x

\* map_lock reads the entry that the update will replace.
LEMMA MapLockProgress ==
    ASSUME TypeOK, Control, LayoutOnce, InProgress, NEW t \in Threads, MapLock(t)
    PROVE  InProgress'
<1> DEFINE x == request[t].lba
<1>1. /\ pc[t] = "map_lock" /\ UNCHANGED <<laidout, pool, flognum, map, mapped, flog, request, lane>>
      /\ \A u \in Threads : u # t => pc'[u] = pc[u] /\ SameChange(u)
    BY Zenon DEF MapLock, At, Goto, media, layout, opening, SameChange, TypeOK
<1>2. \A l : Loaded(l)' = Loaded(l)
    BY <1>1, Zenon DEF Loaded
<1>0. \A u \in Threads : Loaded(lane[u])' = Loaded(lane[u])
    BY <1>1, Zenon DEF Loaded
<1>3. \A l : Incomplete(Loaded(l))' = Incomplete(Loaded(l))
    BY <1>1, <1>2, Zenon DEF Incomplete
<1>4. laidout' => \A l \in Lanes : Incomplete(Loaded(l))' =>
          \E u \in Threads : pc'[u] \in Storing /\ request'[u].op = "write" /\ lane'[u] = l
                             /\ request'[u].lba = Loaded(l)'.lba
    BY <1>1, <1>2, <1>3, SMTT(30) DEF InProgress, Changer, Storing
<1>5. pool' = "opening" => \A l \in Lanes : l < flognum' => ~Incomplete(Loaded(l))'
    BY <1>1, <1>3, Zenon DEF InProgress
<1>6. \A y \in Lbas : mapped'[y] # map'[y] =>
          \E u \in Threads : pc'[u] = "map_unlock" /\ request'[u].lba = y
    BY <1>1, SMTT(30) DEF InProgress
<1>7. ASSUME NEW u \in Threads PROVE Changer(u)'
    <2>1. CASE u # t
        BY <1>0, <1>1, <2>1, SMTT(30) DEF InProgress, Changer, SameChange
    <2>2. CASE u = t /\ request[t].op = "write"
        <3>1. /\ old_entry'[t] = Resolved(map[x], x) /\ pc'[t] = "flog_old"
              /\ entry'[t] = entry[t]
            BY <2>2, MapLocked, Zenon
        <3>2. entry[t] = Normal(Loaded(lane[t]).old_map.block)
            BY <1>1, <2>2, Zenon DEF InProgress, Changer
        <3> QED
            BY <1>0, <1>1, <2>2, <3>1, <3>2, Zenon DEF Storing, Changer
    <2>3. CASE u = t /\ request[t].op # "write"
        <3>1. /\ old_entry'[t] = Resolved(map[x], x)
              /\ pc'[t] \in {"lane_exit", "map_store"}
              /\ entry'[t].block = old_entry'[t].block /\ entry'[t].flag # "initial"
            BY <2>3, MapLocked, Zenon
        <3> QED
            BY <1>1, <2>3, <3>1, Zenon DEF Storing, ForWrites, Changer
    <2> QED
        BY <2>1, <2>2, <2>3, Zenon
<1> QED
    BY <1>4, <1>5, <1>6, <1>7, Zenon DEF InProgress

\* Storing to the flog's other half starts an update that is not visible yet.
LEMMA FlogOldProgress ==
    ASSUME TypeOK, Control, LayoutOnce, FlogsCurrent, InProgress, NEW t \in Threads, FlogOld(t)
    PROVE  InProgress'
<1>1. /\ pc[t] = "flog_old" /\ pc'[t] = "flog_new"
      /\ UNCHANGED <<laidout, pool, flognum, map, mapped, request, lane, entry, old_entry>>
      /\ \A u \in Threads : u # t => pc'[u] = pc[u]
    BY Zenon DEF FlogOld, At, Goto, media, layout, opening, locals, TypeOK
<1>2. \A l \in Lanes : Loaded(l)' = Loaded(l)
    BY FlogOldLoads, Zenon
<1>3. \A u \in Threads : Loaded(lane[u])' = Loaded(lane[u])
    <2> TAKE u \in Threads
    <2>1. PICK m \in Lanes : m = lane[u]
        BY LanesInUse, Zenon DEF TypeOK
    <2> QED
        BY <1>1, <1>2, <2>1, Zenon
<1>4. \A l \in Lanes : Incomplete(Loaded(l))' = Incomplete(Loaded(l))
    BY <1>1, <1>2, Zenon DEF Incomplete
<1>5. laidout' => \A l \in Lanes : Incomplete(Loaded(l))' =>
          \E u \in Threads : pc'[u] \in Storing /\ request'[u].op = "write" /\ lane'[u] = l
                             /\ request'[u].lba = Loaded(l)'.lba
    BY <1>1, <1>2, <1>4, SMTT(30) DEF InProgress, Storing
<1>6. pool' = "opening" => \A l \in Lanes : l < flognum' => ~Incomplete(Loaded(l))'
    BY <1>1, <1>4, Zenon DEF InProgress
<1>7. \A y \in Lbas : mapped'[y] # map'[y] =>
          \E u \in Threads : pc'[u] = "map_unlock" /\ request'[u].lba = y
    BY <1>1, SMTT(30) DEF InProgress
<1>8. \A u \in Threads : Changer(u)'
    BY <1>1, <1>3, SMTT(30) DEF InProgress, Changer, Storing, MapHeld, ForWrites
<1> QED
    BY <1>5, <1>6, <1>7, <1>8, Zenon DEF InProgress

\* Storing the sequence number makes the flog entry the current one.
LEMMA FlogNewProgress ==
    ASSUME TypeOK, Control, LayoutOnce, FlogsCurrent, Accounts, InProgress,
           NEW t \in Threads, FlogNew(t)
    PROVE  InProgress'
<1>1. /\ pc[t] = "flog_new" /\ pc'[t] = "map_store" /\ pool = "open"
      /\ UNCHANGED <<laidout, pool, flognum, map, mapped, request, lane, entry, old_entry>>
      /\ \A u \in Threads : u # t => pc'[u] = pc[u]
    BY Zenon DEF FlogNew, At, Goto, media, layout, opening, locals, TypeOK
<1>2. PICK m \in Lanes : m = lane[t]
    BY UpdateMade, Zenon
<1>3. request[t].op = "write"
    BY <1>1, Zenon DEF Control, ForWrites
<1>4. \A l \in Lanes : l # m => Loaded(l)' = Loaded(l)
    BY <1>2, UpdateMade, Zenon
<1>5. \A l \in Lanes : l # m => Incomplete(Loaded(l))' = Incomplete(Loaded(l))
    BY <1>1, <1>4, Zenon DEF Incomplete
<1>6. /\ Loaded(m)'.lba = request[t].lba /\ Loaded(m)'.old_map = old_entry[t]
      /\ Loaded(m)'.new_map = entry[t]
    BY <1>1, <1>2, UpdateMade, Zenon
<1>7. laidout' => \A l \in Lanes : Incomplete(Loaded(l))' =>
          \E u \in Threads : pc'[u] \in Storing /\ request'[u].op = "write" /\ lane'[u] = l
                             /\ request'[u].lba = Loaded(l)'.lba
    <2> SUFFICES ASSUME laidout, NEW l \in Lanes, Incomplete(Loaded(l))'
                 PROVE  \E u \in Threads : pc'[u] \in Storing /\ request'[u].op = "write"
                              /\ lane'[u] = l /\ request'[u].lba = Loaded(l)'.lba
        BY <1>1, Zenon
    <2>1. CASE l = m
        BY <1>1, <1>2, <1>3, <1>6, <2>1, Zenon DEF Storing
    <2>2. CASE l # m
        <3>1. PICK u \in Threads : pc[u] \in Storing /\ request[u].op = "write" /\ lane[u] = l
                                   /\ request[u].lba = Loaded(l).lba
            BY <1>5, <2>2, Zenon DEF InProgress
        <3> QED
            BY <1>1, <1>2, <1>4, <2>2, <3>1, Zenon
    <2> QED
        BY <2>1, <2>2, Zenon
<1>8. \A y \in Lbas : mapped'[y] # map'[y] =>
          \E u \in Threads : pc'[u] = "map_unlock" /\ request'[u].lba = y
    BY <1>1, SMTT(30) DEF InProgress
<1>9. ASSUME NEW u \in Threads, u # t PROVE Changer(u)'
    <2>1. PICK k \in Lanes : k = lane[u]
        BY LanesInUse, Zenon DEF TypeOK
    <2>2. pc[u] \notin {"idle", "lane_enter"} => k # m
        BY <1>1, <1>2, <1>9, <2>1, Exclusion, Zenon
    <2>3. pc[u] \in Storing \cup ForWrites \cup {"map_lock"} =>
              Loaded(lane[u])' = Loaded(lane[u])
        BY <1>1, <1>4, <2>1, <2>2, Zenon DEF Storing, ForWrites
    <2>4. Changer(u)
        BY Zenon DEF InProgress
    <2> QED
        BY <1>1, <1>9, <2>3, <2>4, ZenonT(30) DEF Changer
<1>10. Changer(t)'
    <2>1. Loaded(lane[t])' = Loaded(m)'
        BY <1>1, <1>2, Zenon
    <2>2. /\ old_entry[t] = Resolved(map[request[t].lba], request[t].lba)
          /\ old_entry[t].block # entry[t].block
        BY UpdateMade, Zenon
    <2>3. entry[t].flag = "normal"
        <3>1. entry[t] = Normal(FreeBlock(lane[t]))
            BY UpdateMade, Zenon
        <3> QED
            BY <3>1, SMTT(30) DEF Normal
    <2> QED
        BY <1>1, <1>3, <1>6, <2>1, <2>2, <2>3, Zenon DEF Changer, ForWrites
<1> QED
    BY <1>1, <1>7, <1>8, <1>9, <1>10, Zenon DEF InProgress

\* The store to the map completes the update in the visible state.
LEMMA MapStoreProgress ==
    ASSUME TypeOK, Control, LayoutOnce, InProgress, NEW t \in Threads, MapStore(t)
    PROVE  InProgress'
<1>1. /\ pc[t] = "map_store" /\ pc'[t] = "map_unlock"
      /\ UNCHANGED <<laidout, pool, flognum, map, flog, request, lane, entry, old_entry>>
      /\ \A u \in Threads : u # t => pc'[u] = pc[u]
    BY Zenon DEF MapStore, At, Goto, media, layout, opening, locals, TypeOK
<1>2. request[t].lba \in Lbas
    BY <1>1, ChangerTypes, Zenon DEF Changing, MapHeld
<1>3. /\ mapped'[request[t].lba] = entry[t]
      /\ \A y \in Lbas : y # request[t].lba => mapped'[y] = mapped[y]
    BY <1>2, Zenon DEF MapStore, TypeOK
<1>4. /\ \A l \in Lanes : Loaded(l)' = Loaded(l)
      /\ \A u \in Threads : Loaded(lane[u])' = Loaded(lane[u])
    BY <1>1, Zenon DEF Loaded
<1>5. \A l \in Lanes : Incomplete(Loaded(l))' = Incomplete(Loaded(l))
    BY <1>1, <1>4, Zenon DEF Incomplete
<1>6. laidout' => \A l \in Lanes : Incomplete(Loaded(l))' =>
          \E u \in Threads : pc'[u] \in Storing /\ request'[u].op = "write" /\ lane'[u] = l
                             /\ request'[u].lba = Loaded(l)'.lba
    <2>1. \A u \in Threads : pc[u] \in Storing => pc'[u] \in Storing
        BY <1>1, Zenon DEF Storing
    <2> QED
        BY <1>1, <1>4, <1>5, <2>1, SMTT(30) DEF InProgress
<1>7. pool' = "opening" => \A l \in Lanes : l < flognum' => ~Incomplete(Loaded(l))'
    BY <1>1, <1>5, Zenon DEF InProgress
<1>8. \A y \in Lbas : mapped'[y] # map'[y] =>
          \E u \in Threads : pc'[u] = "map_unlock" /\ request'[u].lba = y
    BY <1>1, <1>3, SMTT(30) DEF InProgress
<1>9. ASSUME NEW u \in Threads, u # t PROVE Changer(u)'
    <2>1. pc[u] = "map_unlock" =>
              request[u].lba \in Lbas /\ request[u].lba # request[t].lba
        BY <1>1, <1>9, Exclusion, ChangerTypes, Zenon DEF Changing, MapHeld
    <2>2. pc[u] = "map_unlock" => mapped'[request[u].lba] = mapped[request[u].lba]
        BY <1>3, <2>1, Zenon
    <2>3. Changer(u)
        BY Zenon DEF InProgress
    <2>4. pc'[u] = pc[u] /\ Loaded(lane[u])' = Loaded(lane[u])
        BY <1>1, <1>4, <1>9, Zenon
    <2>5. pc[u] = "map_unlock" => mapped'[request[u].lba] = entry[u]
        BY <2>2, <2>3, Zenon DEF Changer
    <2> QED
        BY <1>1, <2>3, <2>4, <2>5, ZenonT(30) DEF Changer
<1>10. Changer(t)'
    BY <1>1, <1>3, <1>4, SMTT(30) DEF InProgress, Changer, MapHeld, Storing, ForWrites
<1> QED
    BY <1>6, <1>7, <1>8, <1>9, <1>10, Zenon DEF InProgress

\* The unlock comes after the map entry is durable.
LEMMA MapUnlockProgress ==
    ASSUME TypeOK, Control, LayoutOnce, Accounts, InProgress, NEW t \in Threads, MapUnlock(t)
    PROVE  InProgress'
<1> DEFINE x == request[t].lba
<1>1. /\ pc[t] = "map_unlock" /\ pc'[t] = "lane_exit" /\ pool = "open"
      /\ UNCHANGED <<info, laidout, pool, flognum, mapped, flog, request, lane, entry, old_entry>>
      /\ map' = [map EXCEPT ![x] = mapped[x]]
      /\ \A u \in Threads : u # t => pc'[u] = pc[u]
    BY Zenon DEF MapUnlock, At, Goto, media, layout, opening, locals, TypeOK
<1>2. x \in Lbas /\ info /\ lane[t] \in Lanes
    BY <1>1, ChangerTypes, Zenon DEF Changing, MapHeld
<1>3. map' = [y \in Lbas |-> IF y \in {x} THEN mapped[y] ELSE map[y]]
    BY <1>1, Zenon DEF TypeOK
<1>4. Completes
    BY <1>2, <1>3, Drained, Zenon
<1>5. map'[x] = mapped[x] /\ \A y \in Lbas : y # x => map'[y] = map[y]
    BY <1>2, <1>3, Zenon
<1>6. \A l \in Lanes : Incomplete(Loaded(l))' => Incomplete(Loaded(l))
    BY <1>1, <1>2, <1>4, Completed, Zenon
<1>7. \A l \in Lanes : Resolved(map'[Loaded(l).lba], Loaded(l).lba) = Loaded(l).new_map
                          => ~Incomplete(Loaded(l))'
    BY <1>1, <1>2, <1>4, Completed, Zenon
<1>8. /\ \A l \in Lanes : Loaded(l)' = Loaded(l)
      /\ \A u \in Threads : Loaded(lane[u])' = Loaded(lane[u])
    BY <1>1, Zenon DEF Loaded
<1>9. request[t].op = "write" =>
          Resolved(map'[Loaded(lane[t]).lba], Loaded(lane[t]).lba) = Loaded(lane[t]).new_map
    <2>1. Changer(t)
        BY Zenon DEF InProgress
    <2> QED
        BY <1>1, <1>5, <2>1, SMTT(30) DEF Changer, Storing, Resolved
<1>10. laidout' => \A l \in Lanes : Incomplete(Loaded(l))' =>
          \E u \in Threads : pc'[u] \in Storing /\ request'[u].op = "write" /\ lane'[u] = l
                             /\ request'[u].lba = Loaded(l)'.lba
    <2> SUFFICES ASSUME laidout, NEW l \in Lanes, Incomplete(Loaded(l))'
                 PROVE  \E u \in Threads : pc'[u] \in Storing /\ request'[u].op = "write"
                              /\ lane'[u] = l /\ request'[u].lba = Loaded(l)'.lba
        BY <1>1, Zenon
    <2>1. PICK u \in Threads : pc[u] \in Storing /\ request[u].op = "write" /\ lane[u] = l
                               /\ request[u].lba = Loaded(l).lba
        BY <1>6, Zenon DEF InProgress
    <2>2. u # t
        BY <1>7, <1>9, <2>1, Zenon
    <2> QED
        BY <1>1, <1>8, <2>1, <2>2, Zenon
<1>11. \A y \in Lbas : mapped'[y] # map'[y] =>
          \E u \in Threads : pc'[u] = "map_unlock" /\ request'[u].lba = y
    <2> SUFFICES ASSUME NEW y \in Lbas, mapped'[y] # map'[y]
                 PROVE  \E u \in Threads : pc'[u] = "map_unlock" /\ request'[u].lba = y
        OBVIOUS
    <2>1. y # x /\ mapped[y] # map[y]
        BY <1>1, <1>5, Zenon
    <2>2. PICK u \in Threads : pc[u] = "map_unlock" /\ request[u].lba = y
        BY <2>1, Zenon DEF InProgress
    <2>3. pc'[u] = pc[u] /\ request'[u] = request[u]
        BY <1>1, <2>1, <2>2, Zenon
    <2> QED
        BY <2>2, <2>3, Zenon
<1>12. ASSUME NEW u \in Threads, u # t PROVE Changer(u)'
    <2>1. pc[u] \in MapHeld => request[u].lba \in Lbas /\ request[u].lba # x
        BY <1>1, <1>12, Exclusion, ChangerTypes, Zenon DEF Changing, MapHeld
    <2>2. pc[u] \in MapHeld => map'[request[u].lba] = map[request[u].lba]
        BY <1>5, <2>1, Zenon
    <2>3. Changer(u)
        BY Zenon DEF InProgress
    <2> QED
        BY <1>1, <1>8, <1>12, <2>2, <2>3, ZenonT(30) DEF Changer
<1>13. Changer(t)'
    BY <1>1, Zenon DEF Changer, MapHeld, Storing, ForWrites
<1> QED
    BY <1>1, <1>10, <1>11, <1>12, <1>13, Zenon DEF InProgress

\* Nothing is in progress in a pool that is not open.
LEMMA IdleProgress ==
    ASSUME \A u \in Threads : pc'[u] = "idle", mapped' = map',
           laidout' \/ pool' = "opening" => \A l \in Lanes : l < flognum' => ~Incomplete(Loaded(l))',
           laidout' => \A l \in Lanes : l < flognum'
    PROVE  InProgress'
<1>1. \A u \in Threads : Changer(u)'
    BY Zenon DEF Changer, MapHeld, Storing, ForWrites
<1> QED
    BY <1>1, Zenon DEF InProgress

\* A step of a thread that leaves the media alone and neither has nor takes a map entry.
LEMMA ThreadFrame ==
    ASSUME InProgress, NEW t \in Threads,
           UNCHANGED <<laidout, pool, flognum, map, mapped, flog>>,
           \A u \in Threads : u # t => pc'[u] = pc[u] /\ SameChange(u),
           pc[t] \notin Storing, pc'[t] \notin MapHeld,
           pc'[t] \in ForWrites \cup {"map_lock"} /\ request'[t].op = "write" =>
               entry'[t] = Normal(Loaded(lane'[t]).old_map.block)
    PROVE  InProgress'
<1>1. \A u \in Threads : pc[u] \in Storing => pc'[u] = pc[u] /\ SameChange(u)
    OBVIOUS
<1>2. \A u \in Threads : pc'[u] \in MapHeld => pc'[u] = pc[u] /\ SameChange(u)
    OBVIOUS
<1>3. ASSUME NEW u \in Threads, pc'[u] \in ForWrites \cup {"map_lock"}, request'[u].op = "write"
      PROVE  entry'[u] = Normal(Loaded(lane'[u]).old_map.block)
    <2>1. CASE u = t
        BY <1>3, <2>1, Zenon
    <2>2. CASE u # t
        <3>1. Changer(u) /\ pc'[u] = pc[u] /\ SameChange(u)
            BY <2>2, Zenon DEF InProgress
        <3> QED
            BY <1>3, <3>1, Zenon DEF Changer, SameChange
    <2> QED
        BY <2>1, <2>2, Zenon
<1> QED
    BY <1>1, <1>2, <1>3, ProgressFrame, Zenon

\* A write starts with the free block of its lane.
LEMMA StartProgress ==
    ASSUME TypeOK, FlogsCurrent, InProgress, laidout, NEW t \in Threads, Start(t),
           pc[t] \notin Storing,
           UNCHANGED <<laidout, pool, flognum, map, mapped, flog, request, lane, old_entry>>
    PROVE  InProgress'
<1>0. lane[t] \in Lanes
    BY LanesInUse, Zenon DEF TypeOK
<1>1. \A u \in Threads : u # t => pc'[u] = pc[u] /\ SameChange(u)
    BY Zenon DEF Start, Goto, SameChange, TypeOK
<1>2. pc'[t] \in {"scan", "map_lock", "lane_exit"}
    BY Zenon DEF Start, Goto, TypeOK
<1>3. pc'[t] # "lane_exit" /\ request[t].op = "write" =>
          entry'[t] = Normal(Loaded(lane[t]).old_map.block)
    <2>1. current[lane[t]] = Loaded(lane[t])
        BY <1>0, Zenon DEF FlogsCurrent
    <2> QED
        BY <2>1, SMTT(30) DEF Start, Goto, TypeOK
<1>4. pc'[t] \notin MapHeld
    BY <1>2, Zenon DEF MapHeld
<1>5. pc'[t] \in ForWrites \cup {"map_lock"} => pc'[t] # "lane_exit"
    BY Zenon DEF ForWrites
<1> QED
    BY <1>1, <1>3, <1>4, <1>5, ThreadFrame, Zenon

\* Every step keeps account of the updates in progress.
LEMMA NextProgress ==
    ASSUME TypeOK, Control, LayoutOnce, FlogsCurrent, Accounts, InProgress, [Next]_vars
    PROVE  InProgress'
<1>0. /\ DOMAIN pc = Threads /\ DOMAIN lane = Threads /\ DOMAIN request = Threads
      /\ DOMAIN entry = Threads /\ DOMAIN old_entry = Threads
    BY Zenon DEF TypeOK
<1> USE DEF media, layout, opening, lanes, flogs, locals, bounds
<1>1. ASSUME NEW t \in Threads, Call(t) \/ lane_exit(t) PROVE InProgress'
    <2>1. /\ UNCHANGED <<laidout, pool, flognum, map, mapped, flog>>
          /\ \A u \in Threads : u # t => pc'[u] = pc[u] /\ SameChange(u)
        BY <1>0, <1>1, Zenon DEF Call, lane_exit, Goto, SameChange
    <2>2. pc[t] \in {"idle", "lane_exit"} /\ pc'[t] \in {"idle", "lane_enter"}
        BY <1>0, <1>1, Zenon DEF Call, lane_exit, Goto, At
    <2> QED
        BY <2>1, <2>2, ThreadFrame, Zenon DEF Storing, MapHeld, ForWrites
<1>2. ASSUME NEW t \in Threads, lane_enter(t) PROVE InProgress'
    <2>1. /\ UNCHANGED <<laidout, pool, flognum, map, mapped, flog, request, lane, old_entry>>
          /\ pc[t] = "lane_enter"
        BY <1>2, Zenon DEF lane_enter, At
    <2>2. CASE request[t].op = "read"
        <3>1. \A u \in Threads : u # t => pc'[u] = pc[u] /\ SameChange(u)
            BY <1>0, <1>2, <2>2, Zenon DEF lane_enter, EnterRead, ReadWith, Goto, SameChange
        <3>2. pc'[t] \in {"set_rtt", "lane_exit"}
            BY <1>0, <1>2, <2>2, Zenon DEF lane_enter, EnterRead, ReadWith, Goto
        <3> QED
            BY <2>1, <3>1, <3>2, ThreadFrame, Zenon DEF Storing, MapHeld, ForWrites
    <2>3. CASE request[t].op # "read" /\ laidout
        <3>1. Start(t)
            BY <1>2, <2>3, Zenon DEF lane_enter, EnterChange
        <3> QED
            BY <2>1, <2>3, <3>1, StartProgress, Zenon DEF Storing
    <2>4. CASE request[t].op # "read" /\ ~laidout
        <3>1. \A u \in Threads : u # t => pc'[u] = pc[u] /\ SameChange(u)
            BY <1>0, <1>2, <2>4, Zenon DEF lane_enter, EnterChange, Goto, SameChange
        <3>2. pc'[t] \in {"layout_lock", "lane_exit"}
            BY <1>0, <1>2, <2>4, Zenon DEF lane_enter, EnterChange, Goto
        <3> QED
            BY <2>1, <3>1, <3>2, ThreadFrame, Zenon DEF Storing, MapHeld, ForWrites
    <2> QED
        BY <2>2, <2>3, <2>4, Zenon
<1>3. ASSUME NEW t \in Threads, SetRtt(t) \/ Reread(t) \/ ReadBegin(t) \/ ReadEnd(t)
      PROVE InProgress'
    <2>1. /\ UNCHANGED <<laidout, pool, flognum, map, mapped, flog>>
          /\ \A u \in Threads : u # t => pc'[u] = pc[u] /\ SameChange(u)
        BY <1>0, <1>3, Zenon DEF SetRtt, Reread, ReadBegin, ReadEnd, ReadWith, Goto, SameChange
    <2>2. pc[t] \in Reading /\ pc'[t] \in Reading \cup {"lane_exit"}
        BY <1>0, <1>3, Zenon DEF SetRtt, Reread, ReadBegin, ReadEnd, ReadWith, Goto, At, Reading
    <2> QED
        BY <2>1, <2>2, ThreadFrame, Zenon DEF Storing, MapHeld, ForWrites, Reading
<1>4. ASSUME NEW t \in Threads, LayoutLock(t) \/ StartLaidOut(t) PROVE InProgress'
    <2>1. /\ UNCHANGED <<laidout, pool, flognum, map, mapped, flog, request, lane, old_entry>>
          /\ pc[t] \in {"layout_lock", "start"}
        BY <1>4, Zenon DEF LayoutLock, StartLaidOut, At
    <2>2. CASE LayoutLock(t) /\ ~laidout
        <3>1. \A u \in Threads : u # t => pc'[u] = pc[u] /\ SameChange(u)
            BY <1>0, <2>2, Zenon DEF LayoutLock, Goto, SameChange
        <3>2. pc'[t] = "zero_map"
            BY <1>0, <2>2, Zenon DEF LayoutLock, Goto
        <3> QED
            BY <2>1, <3>1, <3>2, ThreadFrame, Zenon DEF Storing, MapHeld, ForWrites
    <2>3. CASE Start(t) /\ laidout
        BY <2>1, <2>3, StartProgress, Zenon DEF Storing
    <2>4. CASE StartLaidOut(t)
        <3>1. laidout
            BY <2>4, Zenon DEF StartLaidOut, At, Control, Changing
        <3>2. Start(t)
            BY <2>4, Zenon DEF StartLaidOut
        <3> QED
            BY <2>3, <3>1, <3>2, Zenon
    <2>5. LayoutLock(t) /\ laidout => Start(t)
        BY Zenon DEF LayoutLock
    <2> QED
        BY <1>4, <2>2, <2>3, <2>4, <2>5, Zenon
<1>5. ASSUME NEW t \in Threads, ZeroMap(t) \/ WriteFlogs(t) \/ WriteInfo(t) \/ ReadArenas(t)
      PROVE InProgress'
    <2>1. pc[t] \in LayingOut /\ pool = "open" /\ pool' = pool
        BY <1>5, Zenon DEF ZeroMap, WriteFlogs, WriteInfo, ReadArenas, At, LayingOut
    <2>2. ~laidout
        BY <2>1, Zenon DEF LayoutOnce
    <2>3. \A u \in Threads : pc[u] \notin Changing
        BY <2>2, Zenon DEF Control
    <2>4. \A u \in Threads : pc'[u] \notin Changing \ {"start"}
        BY <1>0, <1>5, <2>3, Zenon DEF ZeroMap, WriteFlogs, WriteInfo, ReadArenas, Goto, Changing,
                               ForWrites, MapHeld
    <2>5. \A u \in Threads : Changer(u)'
        BY <2>4, Zenon DEF Changer, Changing, ForWrites, MapHeld, Storing
    <2>6. \A y \in Lbas : mapped[y] = map[y]
        BY <2>3, SMTT(30) DEF InProgress, Changing, MapHeld
    <2>7. \A y \in Lbas : mapped'[y] = map'[y]
        BY <1>5, <2>6, Zenon DEF ZeroMap, WriteFlogs, WriteInfo, ReadArenas
    <2>8. CASE ReadArenas(t)
        <3>1. JustLaidOut'
            BY <2>8, Zenon DEF ReadArenas, At, LayoutOnce, LayingOut, JustLaidOut
        <3>2. NothingIncomplete'
            BY <3>1, LaidOutAccounts, PTL
        <3> QED
            BY <2>1, <2>5, <2>7, <3>2, Zenon DEF InProgress, NothingIncomplete
    <2>9. CASE ~ReadArenas(t)
        <3>1. ~laidout'
            BY <1>5, <2>2, <2>9, Zenon DEF ZeroMap, WriteFlogs, WriteInfo
        <3> QED
            BY <2>1, <2>5, <2>7, <3>1, Zenon DEF InProgress
    <2> QED
        BY <2>8, <2>9, Zenon
<1>6. ASSUME NEW t \in Threads, Scan(t) \/ WriteBegin(t) \/ WriteEnd(t) PROVE InProgress'
    <2>1. /\ UNCHANGED <<laidout, pool, flognum, map, mapped, flog, request, lane, entry, old_entry>>
          /\ \A u \in Threads : u # t => pc'[u] = pc[u]
        BY <1>0, <1>6, Zenon DEF Scan, WriteBegin, WriteEnd, Goto
    <2>2. /\ pc[t] \in {"scan", "write_begin", "write_end"}
          /\ pc'[t] \in {"scan", "write_begin", "write_end", "map_lock"}
        BY <1>0, <1>6, Zenon DEF Scan, WriteBegin, WriteEnd, Goto, At
    <2>3. request[t].op = "write" => entry[t] = Normal(Loaded(lane[t]).old_map.block)
        BY <2>2, Zenon DEF InProgress, Changer, ForWrites
    <2> QED
        BY <2>1, <2>2, <2>3, ThreadFrame, Zenon DEF Storing, MapHeld, SameChange
<1>7. ASSUME NEW t \in Threads, MapLock(t) \/ FlogOld(t) \/ FlogNew(t) PROVE InProgress'
    BY <1>7, MapLockProgress, FlogOldProgress, FlogNewProgress, Zenon
<1>8. ASSUME NEW t \in Threads, MapStore(t) \/ MapUnlock(t) PROVE InProgress'
    BY <1>8, MapStoreProgress, MapUnlockProgress, Zenon
<1>9. CASE Crash \/ Close
    <2>1. (\A u \in Threads : pc'[u] = "idle") /\ laidout' = FALSE /\ pool' = "closed"
        BY <1>9, Zenon DEF Crash, Close, RuntimeGone
    <2>2. \A y \in Lbas : mapped'[y] = map'[y]
        BY <1>9, SMTT(30) DEF Crash, Close, InProgress
    <2>3. \A u \in Threads : Changer(u)'
        BY <2>1, Zenon DEF Changer, MapHeld, Storing, ForWrites
    <2> QED
        BY <2>1, <2>2, <2>3, Zenon DEF InProgress
<1>10. CASE Open
    <2>1. /\ pool = "closed" /\ UNCHANGED <<laidout, flognum, map, mapped, pc>>
        BY <1>10, Zenon DEF Open
    <2>2. flognum = 0 /\ ~laidout /\ \A u \in Threads : pc[u] = "idle"
        BY <2>1, Zenon DEF LayoutOnce, Control
    <2>3. \A u \in Threads : Changer(u)'
        BY <2>1, <2>2, Zenon DEF Changer, MapHeld, Storing, ForWrites
    <2>4. \A y \in Lbas : mapped'[y] = map'[y]
        BY <2>1, <2>2, Zenon DEF InProgress
    <2>5. \A l \in Lanes : ~(l < flognum')
        BY <2>1, <2>2, Sizes, SMTT(30) DEF Lanes
    <2> QED
        BY <2>1, <2>2, <2>3, <2>4, <2>5, Zenon DEF InProgress
<1>11. CASE ReadFlogPair
    <2>1. /\ pool = "opening" /\ flognum' = flognum + 1 /\ mapped' = map' /\ pc' = pc
          /\ laidout' = (flognum' = nfree) /\ UNCHANGED <<info, flog>>
        BY <1>11, Zenon DEF ReadFlogPair
    <2>2. Completes /\ info /\ flognum \in Lanes
        BY <1>11, ReadBack, Zenon
    <2>3. \A l \in Lanes : Incomplete(Loaded(l))' => Incomplete(Loaded(l))
        BY <2>1, <2>2, Completed, Zenon
    <2>4. PICK m \in Lanes : m = flognum
        BY <2>2, Zenon
    <2>5. ~Incomplete(Loaded(m))'
        BY <1>11, <2>1, <2>2, <2>3, <2>4, ReadBack, Completed, Zenon
    <2>6. \A l \in Lanes : l < flognum + 1 => l < flognum \/ l = m
        BY <2>2, <2>4, Sizes, SMTT(30) DEF Lanes
    <2>7. \A l \in Lanes : l < flognum' => ~Incomplete(Loaded(l))'
        BY <2>1, <2>3, <2>5, <2>6, Zenon DEF InProgress
    <2>8. laidout' => flognum' = nfree
        BY <2>1, Zenon
    <2>9. laidout' => \A l \in Lanes : l < flognum'
        BY <2>8, Sizes, SMTT(30) DEF Lanes
    <2>10. \A u \in Threads : pc'[u] = "idle"
        BY <2>1, Zenon DEF Control
    <2> QED
        BY <2>1, <2>7, <2>9, <2>10, IdleProgress, Zenon
<1>12. CASE UNCHANGED vars
    <2>1. \A u \in Threads : SameChange(u) /\ pc'[u] = pc[u]
        BY <1>12, Zenon DEF vars, SameChange
    <2>2. UNCHANGED <<laidout, pool, flognum, map, mapped, flog>>
        BY <1>12, Zenon DEF vars
    <2>3. ASSUME NEW u \in Threads, pc'[u] \in ForWrites \cup {"map_lock"},
                 request'[u].op = "write"
          PROVE  entry'[u] = Normal(Loaded(lane'[u]).old_map.block)
        <3>1. Changer(u) /\ pc'[u] = pc[u] /\ SameChange(u)
            BY <2>1, Zenon DEF InProgress
        <3> QED
            BY <2>3, <3>1, Zenon DEF Changer, SameChange
    <2> QED
        BY <2>1, <2>2, <2>3, ProgressFrame, Zenon
<1> QED
    BY <1>1, <1>2, <1>3, <1>4, <1>5, <1>6, <1>7, <1>8, <1>9, <1>10, <1>11, <1>12, Zenon DEF Next, Step

-----------------------------------------------------------------------------
(* Reads and the writes of free blocks                                     *)

BlockWriters == {"scan", "write_begin", "write_end"}

\* The block a write fills is not mapped for anyone.
LEMMA NotMapped ==
    ASSUME TypeOK, Control, LayoutOnce, Accounts, InProgress, NEW t \in Threads,
           pc[t] \in BlockWriters, NEW x \in Lbas
    PROVE  Resolved(mapped[x], x).block # entry[t].block
<1>1. pc[t] \in ForWrites /\ pc[t] \in Changing /\ pc[t] \notin {"idle", "lane_enter"}
    BY Zenon DEF BlockWriters, ForWrites, Changing
<1>2. request[t].op = "write" /\ lane[t] \in Lanes /\ info
    BY <1>1, ChangerTypes, Zenon DEF Control
<1>3. entry[t] = Normal(FreeBlock(lane[t]))
    BY <1>1, <1>2, LaneFree, Zenon
<1>4. entry[t].block = FreeBlock(lane[t])
    BY <1>3, SMTT(30) DEF Normal
<1>5. Resolved(map[x], x).block # FreeBlock(lane[t])
    BY <1>2, Zenon DEF Accounts, BlocksAccounted
<1>6. CASE mapped[x] = map[x]
    BY <1>4, <1>5, <1>6, Zenon
<1>7. CASE mapped[x] # map[x]
    <2>1. PICK u \in Threads : pc[u] = "map_unlock" /\ request[u].lba = x
        BY <1>7, Zenon DEF InProgress
    <2>2. pc[u] \in Storing /\ pc[u] \in Changing /\ pc[u] \in MapHeld
        BY <2>1, Zenon DEF Storing, Changing, MapHeld
    <2>3. mapped[x] = entry[u] /\ lane[u] \in Lanes
        BY <2>1, <2>2, ChangerTypes, Zenon DEF InProgress, Changer
    <2>4. entry[u].flag # "initial"
        BY <2>2, Zenon DEF InProgress, Changer
    <2>5. Resolved(mapped[x], x) = entry[u]
        BY <2>3, <2>4, Zenon DEF Resolved
    <2>6. CASE request[u].op = "write"
        <3>1. FreeBlock(lane[u]) = entry[u].block
            BY <2>2, <2>6, StoringWrite, Zenon
        <3>2. lane[u] # lane[t]
            BY <1>1, <2>1, Exclusion, Zenon DEF BlockWriters
        <3> QED
            BY <1>2, <1>4, <2>3, <2>5, <3>1, <3>2, Zenon DEF Accounts, BlocksAccounted
    <2>7. CASE request[u].op # "write"
        <3>1. entry[u].block = Resolved(map[x], x).block
            <4>1. Changer(u)
                BY Zenon DEF InProgress
            <4> QED
                BY <2>1, <2>2, <2>7, <4>1, SMTT(30) DEF Changer
        <3> QED
            BY <1>4, <1>5, <2>5, <3>1, Zenon
    <2> QED
        BY <2>6, <2>7, Zenon
<1> QED
    BY <1>6, <1>7, Zenon

\* No read is tracked at the start.
LEMMA InitTracking == Init => Tracking
BY Zenon DEF Init, Tracking, Reading

\* A step in which no thread gets on with a read, and writes stay as they are or start.
LEMMA TrackFrame ==
    ASSUME TypeOK, Tracking, UNCHANGED rtt,
           \A u \in Threads : pc'[u] \in Reading =>
               pc'[u] = pc[u] /\ entry'[u] = entry[u] /\ lane'[u] = lane[u],
           \A t \in Threads : pc'[t] \in BlockWriters =>
               \/ pc'[t] = "scan" /\ i'[t] = 0
               \/ /\ pc[t] \in BlockWriters /\ (pc[t] = "scan" => pc'[t] = "scan")
                  /\ i'[t] = i[t] /\ entry'[t] = entry[t]
    PROVE  Tracking'
<1>1. \A u \in Threads : pc'[u] \in Reading => entry'[u].flag = "normal"
    BY Zenon DEF Tracking
<1>2. \A u \in Threads : pc'[u] \in Reading \ {"set_rtt"} => rtt'[lane'[u]] = entry'[u]
    BY SMTT(30) DEF Tracking
<1>3. ASSUME NEW t \in Threads, NEW u \in Threads, pc'[t] \in BlockWriters,
             pc'[u] \in {"read_begin", "read_end"}, entry'[u].block = entry'[t].block
      PROVE  pc'[t] = "scan" /\ i'[t] <= lane'[u]
    <2>1. pc[u] = pc'[u] /\ entry'[u] = entry[u] /\ lane'[u] = lane[u]
        BY <1>3, Zenon DEF Reading
    <2>2. lane[u] \in Nat
        BY Sizes, SMTT(30) DEF TypeOK
    <2>3. CASE pc'[t] = "scan" /\ i'[t] = 0
        BY <2>1, <2>2, <2>3, SMTT(30)
    <2>4. CASE /\ pc[t] \in BlockWriters /\ (pc[t] = "scan" => pc'[t] = "scan")
               /\ i'[t] = i[t] /\ entry'[t] = entry[t]
        BY <1>3, <2>1, <2>4, SMTT(30) DEF Tracking, BlockWriters
    <2> QED
        BY <1>3, <2>3, <2>4, Zenon
<1> QED
    BY <1>1, <1>2, <1>3, Zenon DEF Tracking, BlockWriters

\* A thread that starts a change scans from lane 0.
LEMMA StartTracking ==
    ASSUME TypeOK, Tracking, NEW t \in Threads, Start(t), UNCHANGED <<rtt, lane>>
    PROVE  Tracking'
<1>1. /\ pc'[t] \in {"scan", "map_lock", "lane_exit"} /\ (pc'[t] = "scan" => i'[t] = 0)
      /\ \A u \in Threads : u # t => pc'[u] = pc[u] /\ entry'[u] = entry[u] /\ i'[u] = i[u]
    BY Zenon DEF Start, Goto, TypeOK
<1> QED
    BY <1>1, TrackFrame, Zenon DEF Reading, BlockWriters

\* A read announces its block in the rtt, and goes on when it is still mapped.
LEMMA ReadTracking ==
    ASSUME TypeOK, Control, LayoutOnce, Accounts, InProgress, Tracking, NEW t \in Threads,
           SetRtt(t) \/ Reread(t) \/ ReadBegin(t) \/ ReadEnd(t)
    PROVE  Tracking'
<1>0. /\ DOMAIN pc = Threads /\ DOMAIN entry = Threads /\ DOMAIN rtt = Lanes
      /\ lane[t] \in Lanes
    BY LanesInUse, Zenon DEF TypeOK
<1>1. /\ UNCHANGED <<lane, i>> /\ pc[t] \in Reading
      /\ \A u \in Threads : u # t => pc'[u] = pc[u] /\ entry'[u] = entry[u]
    BY <1>0, Zenon DEF SetRtt, Reread, ReadBegin, ReadEnd, ReadWith, Goto, At, locals, Reading
<1>2. pc'[t] \in Reading \cup {"lane_exit"}
    BY <1>0, Zenon DEF SetRtt, Reread, ReadBegin, ReadEnd, ReadWith, Goto, At, Reading
<1>3. \A u \in Threads : u # t /\ pc[u] \in Reading => rtt'[lane[u]] = rtt[lane[u]]
    <2> SUFFICES ASSUME NEW u \in Threads, u # t, pc[u] \in Reading
                 PROVE  rtt'[lane[u]] = rtt[lane[u]]
        OBVIOUS
    <2>1. lane[u] # lane[t] /\ lane[u] \in Lanes
        BY <1>1, Exclusion, LanesInUse, Zenon DEF Reading, TypeOK
    <2> QED
        BY <1>0, <2>1, Zenon DEF SetRtt, Reread, ReadBegin, ReadEnd
<1>4. pc'[t] \in Reading => entry'[t].flag = "normal"
    BY <1>0, <1>1, Zenon DEF SetRtt, Reread, ReadBegin, ReadEnd, ReadWith, Goto, At, locals, Tracking, Reading
<1>5. pc'[t] \in Reading \ {"set_rtt"} => rtt'[lane[t]] = entry'[t]
    BY <1>0, <1>1, SMTT(30) DEF SetRtt, Reread, ReadBegin, ReadEnd, ReadWith, Goto, At, locals, Tracking, Reading
<1>6. ASSUME NEW w \in Threads, pc'[w] \in BlockWriters,
             pc'[t] \in {"read_begin", "read_end"}, entry'[t].block = entry'[w].block
      PROVE  pc'[w] = "scan" /\ i'[w] <= lane'[t]
    <2>1. w # t /\ pc'[w] = pc[w] /\ entry'[w] = entry[w]
        BY <1>1, <1>2, <1>6, Zenon DEF BlockWriters, Reading
    <2>2. CASE pc[t] = "read_begin"
        <3>1. entry'[t] = entry[t]
            BY <2>2, Zenon DEF SetRtt, Reread, ReadBegin, ReadEnd, At
        <3> QED
            BY <1>1, <1>6, <2>1, <2>2, <3>1, Zenon DEF Tracking, BlockWriters
    <2>3. CASE pc[t] # "read_begin"
        <3>1. Reread(t) /\ pc'[t] = "read_begin"
            <4>1. ~SetRtt(t) /\ ~ReadBegin(t) /\ ~ReadEnd(t)
                BY <1>0, <1>6, <2>3, Zenon DEF SetRtt, ReadBegin, ReadEnd, Goto, At
            <4>2. Reread(t)
                BY <4>1, Zenon
            <4>3. Reread(t) => pc'[t] # "read_end"
                BY <1>0, Zenon DEF Reread, ReadWith, Goto
            <4> QED
                BY <1>6, <4>2, <4>3, Zenon
        <3>2. /\ pc[t] = "reread" /\ entry'[t] = entry[t]
              /\ entry[t] = mapped[request[t].lba]
            BY <1>0, <3>1, Zenon DEF Reread, ReadWith, Goto, At
        <3>3. request[t].lba \in Lbas
            BY <3>2, Zenon DEF Control, Requests
        <3>4. Resolved(mapped[request[t].lba], request[t].lba) = entry[t]
            BY <1>1, <3>2, Zenon DEF Tracking, Resolved
        <3> QED
            BY <1>6, <2>1, <3>2, <3>3, <3>4, NotMapped, Zenon
    <2> QED
        BY <2>2, <2>3, Zenon
<1>7. \A u \in Threads : pc'[u] \in Reading => entry'[u].flag = "normal"
    BY <1>1, <1>4, Zenon DEF Tracking
<1>8. \A u \in Threads : pc'[u] \in Reading \ {"set_rtt"} => rtt'[lane'[u]] = entry'[u]
    BY <1>1, <1>3, <1>5, Zenon DEF Tracking
<1>9. ASSUME NEW w \in Threads, NEW u \in Threads, u # t, pc'[w] \in BlockWriters,
             pc'[u] \in {"read_begin", "read_end"}, entry'[u].block = entry'[w].block
      PROVE  pc'[w] = "scan" /\ i'[w] <= lane'[u]
    <2>1. w # t
        BY <1>2, <1>9, Zenon DEF BlockWriters, Reading
    <2> QED
        BY <1>1, <1>9, <2>1, Zenon DEF Tracking, BlockWriters
<1> QED
    BY <1>6, <1>7, <1>8, <1>9, Zenon DEF Tracking, BlockWriters

\* A scan passes a lane that does not read its block.
LEMMA ScanTracking ==
    ASSUME TypeOK, Control, InProgress, Tracking, NEW t \in Threads, Scan(t)
    PROVE  Tracking'
<1>0. DOMAIN pc = Threads /\ DOMAIN i = Threads /\ i[t] \in 0 .. nlane - 1
    BY Zenon DEF TypeOK
<1>1. /\ UNCHANGED <<rtt, entry, lane>> /\ pc[t] = "scan" /\ rtt[i[t]] # entry[t]
      /\ \A u \in Threads : u # t => pc'[u] = pc[u] /\ i'[u] = i[u]
      /\ IF i[t] + 1 < nlane THEN i'[t] = i[t] + 1 /\ pc'[t] = "scan"
                             ELSE i'[t] = i[t] /\ pc'[t] = "write_begin"
    BY <1>0, Zenon DEF Scan, At, Goto
<1>2. entry[t].flag = "normal" /\ entry[t] \in Entries
    <2>1. request[t].op = "write"
        BY <1>1, Zenon DEF Control, ForWrites
    <2>2. entry[t] = Normal(Loaded(lane[t]).old_map.block)
        BY <1>1, <2>1, Zenon DEF InProgress, Changer, ForWrites
    <2>3. entry[t].flag = "normal"
        BY <2>2, SMTT(30) DEF Normal
    <2> QED
        BY <2>3, Zenon DEF TypeOK
<1>3. ASSUME NEW u \in Threads, pc'[u] \in {"read_begin", "read_end"},
             entry[u].block = entry[t].block
      PROVE  pc'[t] = "scan" /\ i'[t] <= lane[u]
    <2>1. u # t /\ pc[u] = pc'[u]
        BY <1>1, <1>3, Zenon
    <2>2. i[t] <= lane[u] /\ rtt[lane[u]] = entry[u] /\ entry[u].flag = "normal"
        BY <1>1, <1>3, <2>1, Zenon DEF Tracking, Reading
    <2>3. entry[u] = entry[t]
        <3>1. entry[u] \in Entries
            BY Zenon DEF TypeOK
        <3> QED
            BY <1>2, <1>3, <2>2, <3>1, SMTT(30) DEF Entries
    <2>4. lane[u] # i[t] /\ lane[u] \in 0 .. nlane - 1
        BY <1>1, <2>2, <2>3, Zenon DEF TypeOK
    <2> QED
        BY <1>0, <1>1, <2>2, <2>4, Sizes, SMTT(30)
<1>4. \A u \in Threads : pc'[u] \in Reading => pc'[u] = pc[u]
    BY <1>1, Zenon DEF Reading
<1>5. ASSUME NEW w \in Threads, NEW u \in Threads, pc'[w] \in BlockWriters,
             pc'[u] \in {"read_begin", "read_end"}, entry'[u].block = entry'[w].block
      PROVE  pc'[w] = "scan" /\ i'[w] <= lane'[u]
    <2>1. CASE w = t
        BY <1>1, <1>3, <1>5, <2>1, Zenon
    <2>2. CASE w # t
        BY <1>1, <1>4, <1>5, <2>2, Zenon DEF Tracking, BlockWriters, Reading
    <2> QED
        BY <2>1, <2>2, Zenon
<1> QED
    BY <1>1, <1>4, <1>5, Zenon DEF Tracking, BlockWriters

\* Every step keeps track of the reads.
LEMMA NextTracking ==
    ASSUME TypeOK, Control, LayoutOnce, FlogsCurrent, Accounts, InProgress, Tracking, [Next]_vars
    PROVE  Tracking'
<1>0. /\ DOMAIN pc = Threads /\ DOMAIN lane = Threads /\ DOMAIN entry = Threads
    BY Zenon DEF TypeOK
<1> USE DEF media, layout, opening, lanes, flogs, locals, bounds
\* A thread t that neither reads nor fills a block after the step
<1>1. ASSUME NEW t \in Threads, UNCHANGED <<rtt, i>>,
             \A u \in Threads : u # t => pc'[u] = pc[u] /\ entry'[u] = entry[u] /\ lane'[u] = lane[u],
             pc'[t] \notin Reading \cup BlockWriters
      PROVE  Tracking'
    BY <1>1, TrackFrame, Zenon
<1>2. ASSUME NEW t \in Threads, Call(t) \/ lane_exit(t) PROVE Tracking'
    <2>1. /\ UNCHANGED <<rtt, i, entry>> /\ pc'[t] \in {"idle", "lane_enter"}
          /\ \A u \in Threads : u # t => pc'[u] = pc[u] /\ lane'[u] = lane[u]
        BY <1>0, <1>2, Zenon DEF Call, lane_exit, Goto
    <2> QED
        BY <1>1, <2>1, Zenon DEF Reading, BlockWriters
<1>3. ASSUME NEW t \in Threads, lane_enter(t) PROVE Tracking'
    <2>1. UNCHANGED <<rtt, lane>> /\ pc[t] = "lane_enter"
        BY <1>3, Zenon DEF lane_enter, At
    <2>2. CASE request[t].op = "read"
        <3>1. /\ UNCHANGED i
              /\ \A u \in Threads : u # t => pc'[u] = pc[u] /\ entry'[u] = entry[u]
              /\ pc'[t] # "lane_exit" => pc'[t] = "set_rtt" /\ entry'[t].flag = "normal"
            BY <1>0, <1>3, <2>2, Zenon DEF lane_enter, EnterRead, ReadWith, Goto
        <3>2. \A u \in Threads : pc'[u] \in Reading => entry'[u].flag = "normal"
            BY <3>1, Zenon DEF Tracking, Reading
        <3>3. \A u \in Threads : pc'[u] \in Reading \ {"set_rtt"} =>
                  rtt'[lane'[u]] = entry'[u]
            BY <2>1, <3>1, Zenon DEF Tracking, Reading
        <3>4. \A w, u \in Threads :
                 /\ pc'[w] \in {"scan", "write_begin", "write_end"}
                 /\ pc'[u] \in {"read_begin", "read_end"}
                 /\ entry'[u].block = entry'[w].block
                 => pc'[w] = "scan" /\ i'[w] <= lane'[u]
            BY <2>1, <3>1, SMTT(30) DEF Tracking
        <3> QED
            BY <3>2, <3>3, <3>4, Zenon DEF Tracking
    <2>3. CASE request[t].op # "read" /\ laidout
        <3>1. Start(t)
            BY <1>3, <2>3, Zenon DEF lane_enter, EnterChange
        <3> QED
            BY <2>1, <3>1, StartTracking, Zenon
    <2>4. CASE request[t].op # "read" /\ ~laidout
        <3>1. /\ UNCHANGED <<i, entry>> /\ pc'[t] \in {"layout_lock", "lane_exit"}
              /\ \A u \in Threads : u # t => pc'[u] = pc[u]
            BY <1>0, <1>3, <2>4, Zenon DEF lane_enter, EnterChange, Goto
        <3> QED
            BY <1>1, <2>1, <3>1, Zenon DEF Reading, BlockWriters
    <2> QED
        BY <2>2, <2>3, <2>4, Zenon
<1>4. ASSUME NEW t \in Threads, SetRtt(t) \/ Reread(t) \/ ReadBegin(t) \/ ReadEnd(t)
      PROVE Tracking'
    BY <1>4, ReadTracking, Zenon
<1>5. ASSUME NEW t \in Threads, LayoutLock(t) \/ StartLaidOut(t) PROVE Tracking'
    <2>1. UNCHANGED <<rtt, lane>>
        BY <1>5, Zenon DEF LayoutLock, StartLaidOut
    <2>2. CASE Start(t)
        BY <2>1, <2>2, StartTracking, Zenon
    <2>3. CASE ~Start(t)
        <3>1. /\ UNCHANGED <<i, entry>> /\ pc'[t] = "zero_map"
              /\ \A u \in Threads : u # t => pc'[u] = pc[u]
            BY <1>0, <1>5, <2>3, Zenon DEF LayoutLock, StartLaidOut, Goto
        <3> QED
            BY <1>1, <2>1, <3>1, Zenon DEF Reading, BlockWriters
    <2> QED
        BY <2>2, <2>3, Zenon
<1>6. ASSUME NEW t \in Threads, ZeroMap(t) \/ WriteFlogs(t) \/ WriteInfo(t) PROVE Tracking'
    <2>1. /\ UNCHANGED <<rtt, i, entry, lane>>
          /\ pc'[t] \in {"write_flogs", "write_info", "read_arenas"}
          /\ \A u \in Threads : u # t => pc'[u] = pc[u]
        BY <1>0, <1>6, Zenon DEF ZeroMap, WriteFlogs, WriteInfo, Goto
    <2> QED
        BY <1>1, <2>1, Zenon DEF Reading, BlockWriters
<1>7. ASSUME NEW t \in Threads, ReadArenas(t) PROVE Tracking'
    <2>1. /\ pc[t] = "read_arenas" /\ pc' = [pc EXCEPT ![t] = "start"]
        BY <1>7, Zenon DEF ReadArenas, At, Goto
    <2>2. ~laidout
        BY <2>1, Zenon DEF LayoutOnce, LayingOut
    <2>3. \A u \in Threads : pc'[u] \notin Reading
        BY <1>0, <2>1, <2>2, Zenon DEF Control, Reading
    <2> QED
        BY <2>3, Zenon DEF Tracking, Reading
<1>8. ASSUME NEW t \in Threads, Scan(t) PROVE Tracking'
    BY <1>8, ScanTracking, Zenon
<1>9. ASSUME NEW t \in Threads, WriteBegin(t) \/ WriteEnd(t) PROVE Tracking'
    <2>1. /\ UNCHANGED <<rtt, i, entry, lane>>
          /\ pc[t] \in {"write_begin", "write_end"} /\ pc'[t] \in {"write_end", "map_lock"}
          /\ \A u \in Threads : u # t => pc'[u] = pc[u]
        BY <1>0, <1>9, Zenon DEF WriteBegin, WriteEnd, Goto, At
    <2> QED
        BY <2>1, TrackFrame, Zenon DEF Reading, BlockWriters
<1>10. ASSUME NEW t \in Threads,
              MapLock(t) \/ FlogOld(t) \/ FlogNew(t) \/ MapStore(t) \/ MapUnlock(t)
       PROVE Tracking'
    <2>1. /\ UNCHANGED <<rtt, i, lane>> /\ pc'[t] \in MapHeld \cup {"lane_exit"}
          /\ \A u \in Threads : u # t => pc'[u] = pc[u] /\ entry'[u] = entry[u]
        BY <1>0, <1>10, Zenon DEF MapLock, FlogOld, FlogNew, MapStore, MapUnlock, Goto, MapHeld
    <2> QED
        BY <1>1, <2>1, Zenon DEF Reading, BlockWriters, MapHeld
<1>11. CASE Crash \/ Close
    <2>1. \A u \in Threads : pc'[u] = "idle"
        BY <1>11, Zenon DEF Crash, Close, RuntimeGone
    <2> QED
        BY <2>1, Zenon DEF Tracking, Reading
<1>12. CASE Open \/ ReadFlogPair \/ UNCHANGED vars
    <2>1. UNCHANGED <<rtt, i, entry, lane, pc>>
        BY <1>12, Zenon DEF Open, ReadFlogPair, vars
    <2> QED
        BY <2>1, TrackFrame, Zenon
<1> QED
    BY <1>2, <1>3, <1>4, <1>5, <1>6, <1>7, <1>8, <1>9, <1>10, <1>11, <1>12, Zenon DEF Next, Step

-----------------------------------------------------------------------------
(* The theorems                                                            *)

\* The invariant holds initially and every step keeps it.
LEMMA BttInvariance == Spec => []BttInv
<1>1. Init => BttInv
    BY InitTypeOK, InitControl, InitLayout, InitFlogs, InitAccounts, InitProgress, InitTracking, Zenon
    DEF BttInv
<1>2. BttInv /\ [Next]_vars => BttInv'
    <2> SUFFICES ASSUME BttInv, [Next]_vars PROVE BttInv'
        OBVIOUS
    <2>1. TypeOK /\ Control /\ LayoutOnce /\ FlogsCurrent /\ Accounts /\ InProgress /\ Tracking
        BY Zenon DEF BttInv
    <2>2. TypeOK' /\ Control' /\ LayoutOnce' /\ FlogsCurrent'
        BY <2>1, NextTypeOK, NextControl, NextLayout, NextFlogs, Zenon
    <2>3. Accounts' /\ InProgress' /\ Tracking'
        BY <2>1, NextAccounts, NextProgress, NextTracking, Zenon
    <2> QED
        BY <2>2, <2>3, Zenon DEF BttInv
<1> QED
    BY <1>1, <1>2, PTL DEF Spec

\* Every variable of btt.c's arena and of its callers keeps its type, whatever the
\* threads, the requests and the crashes.
THEOREM BttTypeCorrect == Spec => []TypeOK
<1>1. BttInv => TypeOK
    BY Zenon DEF BttInv
<1> QED
    BY <1>1, BttInvariance, PTL

\* At any point where the pool may crash the map and the flogs on media account for every
\* internal block exactly once, so that recovery never gives a block to two owners.
THEOREM AlwaysAccounted == Spec => []BlocksAccounted
<1>1. BttInv => BlocksAccounted
    BY Zenon DEF BttInv, Accounts
<1> QED
    BY <1>1, BttInvariance, PTL

\* The two-part flog_update always leaves a pair from which read_flog_pair finds the
\* current entry: no arena is ever put in the error state.
THEOREM FlogsAlwaysReadable == Spec => []FlogsReadable
<1>1. BttInv => FlogsReadable
    <2> SUFFICES ASSUME BttInv PROVE FlogsReadable
        OBVIOUS
    <2>1. TypeOK /\ FlogsCurrent
        BY Zenon DEF BttInv
    <2>2. info => \A l \in Lanes : btt_flog_get_valid(flog[l]) # 2
        BY <2>1, LoadedCurrent, SMTT(30)
    <2>3. ~flags
        BY <2>1, Zenon DEF FlogsCurrent
    <2> QED
        BY <2>2, <2>3, Zenon DEF FlogsReadable
<1> QED
    BY <1>1, BttInvariance, PTL

\* The rtt and its scan keep every write off the blocks that are mapped or being read.
THEOREM NoWriteWhileRead == Spec => []WritesUnread
<1>1. BttInv => WritesUnread
    <2> SUFFICES ASSUME BttInv, NEW t \in Threads, pc[t] \in {"write_begin", "write_end"}
                 PROVE  /\ \A x \in Lbas : Resolved(mapped[x], x).block # entry[t].block
                        /\ \A u \in Threads : pc[u] \in {"read_begin", "read_end"} =>
                              entry[u].block # entry[t].block
        BY Zenon DEF WritesUnread
    <2>1. \A x \in Lbas : Resolved(mapped[x], x).block # entry[t].block
        BY NotMapped, Zenon DEF BttInv, BlockWriters
    <2>2. \A u \in Threads : pc[u] \in {"read_begin", "read_end"} =>
              entry[u].block # entry[t].block
        BY Zenon DEF BttInv, Tracking
    <2> QED
        BY <2>1, <2>2, Zenon
<1> QED
    BY <1>1, BttInvariance, PTL
=============================================================================
