---------------------------- MODULE BttInvariant ----------------------------
(***************************************************************************)
(* The inductive invariant of the block translation table, and the proofs  *)
(* of its parts about types, locks, the layout and the flogs, for any      *)
(* number of threads, lanes, blocks and crashes, and any requests.         *)
(***************************************************************************)
EXTENDS Btt, TLAPS

Reading == {"set_rtt", "reread", "read_begin", "read_end"}
LayingOut == {"zero_map", "write_flogs", "write_info", "read_arenas"}
ForWrites == {"scan", "write_begin", "write_end", "flog_old", "flog_new"}
MapHeld == {"flog_old", "flog_new", "map_store", "map_unlock"}
Changing == ForWrites \cup MapHeld \cup {"start", "map_lock"}
Storing == {"map_store", "map_unlock"}

\* Who holds what, and which requests reach which point of the code.
Control ==
    /\ \A t \in Threads : pc[t] # "idle" => request[t] \in Requests
    /\ \A t \in Threads : pc[t] \notin {"idle", "lane_enter"} => locks[lane[t]] = t
    /\ \A t \in Threads : pc[t] \in MapHeld =>
          map_locks[map_lock_num(request[t].lba)] = t
    /\ \A t \in Threads : pc[t] \in LayingOut => layout_write_mutex = t
    /\ \A t \in Threads : pc[t] \in ForWrites => request[t].op = "write"
    /\ \A t \in Threads : pc[t] \in Changing \cup LayingOut \cup {"layout_lock"} =>
          request[t].op # "read"
    /\ \A t \in Threads : pc[t] \in Changing \cup Reading => laidout
    /\ pool # "open" => \A t \in Threads : pc[t] = "idle"

\* The layout is written once: an info block is valid only over a map and flogs that
\* are written, and an arena is in use only when its info block is valid.
LayoutOnce ==
    /\ laidout => info /\ pool = "open"
    /\ pool = "opening" => info /\ flognum < nfree
    /\ pool = "closed" => flognum = 0
    /\ pool = "open" /\ info /\ ~laidout => \E t \in Threads : pc[t] = "read_arenas"
    /\ ~info => mapped = map /\ (is_zeroed => \A x \in Lbas : map[x] = Unmapped)
    /\ \A t \in Threads : pc[t] \in LayingOut =>
          /\ ~laidout
          /\ info <=> pc[t] = "read_arenas"
          /\ pc[t] # "zero_map" => \A x \in Lbas : map[x] = Unmapped
          /\ pc[t] \in {"write_info", "read_arenas"} => \A l \in Lanes :
                flog[l] = [k \in 0 .. 1 |-> IF k = 0 THEN InitialFlog(l) ELSE Zflog]

\* Each pair has a current entry, and the run-time flogs are the current entries.
FlogsCurrent ==
    /\ info => \A l \in Lanes : flog[l][0].seq # flog[l][1].seq
    /\ ~flags
    /\ laidout => \A l \in Lanes : current[l] = Loaded(l) /\ next[l] = LoadedNext(l)
    /\ pool = "opening" => \A l \in Lanes : l < flognum =>
          current[l] = Loaded(l) /\ next[l] = LoadedNext(l)
    /\ \A t \in Threads : pc[t] = "flog_new" =>
          LET f == flog[lane[t]][next[lane[t]]] IN
          f.lba = request[t].lba /\ f.old_map = old_entry[t]

\* On media: the blocks are accounted for, an update replaces a block by another, and
\* no two updates of a block are both still to be completed.
Accounts ==
    /\ BlocksAccounted
    /\ info => \A l \in Lanes :
          LET f == Loaded(l) IN
          /\ f.old_map = f.new_map \/ f.old_map.block # f.new_map.block
          /\ f.new_map.flag # "initial"
    /\ info => \A l, m \in Lanes :
          Loaded(l).lba = Loaded(m).lba /\ Incomplete(Loaded(l)) /\ Incomplete(Loaded(m))
              => l = m

\* What a thread knows of the block it changes: what its lock and its lane protect.
Changer(t) ==
    /\ pc[t] \in MapHeld => old_entry[t] = Resolved(map[request[t].lba], request[t].lba)
    /\ pc[t] = "map_unlock" => mapped[request[t].lba] = entry[t]
    /\ pc[t] \in Storing /\ request[t].op = "write" =>
          /\ Loaded(lane[t]).lba = request[t].lba
          /\ Loaded(lane[t]).old_map = old_entry[t]
          /\ Loaded(lane[t]).new_map = entry[t]
          /\ old_entry[t].block # entry[t].block
          /\ entry[t].flag = "normal"
    /\ pc[t] \in Storing /\ request[t].op # "write" =>
          entry[t].block = old_entry[t].block /\ entry[t].flag # "initial"
    /\ pc[t] \in ForWrites \cup {"map_lock"} /\ request[t].op = "write" =>
          entry[t] = Normal(Loaded(lane[t]).old_map.block)

\* In a running pool an update that is not complete is that of a thread about to
\* complete it, which holds the lock of the map entry.
InProgress ==
    /\ laidout => \A l \in Lanes : Incomplete(Loaded(l)) =>
          \E t \in Threads : pc[t] \in Storing /\ request[t].op = "write" /\ lane[t] = l
                             /\ request[t].lba = Loaded(l).lba
    /\ pool = "opening" => \A l \in Lanes : l < flognum => ~Incomplete(Loaded(l))
    /\ \A x \in Lbas : mapped[x] # map[x] =>
          \E t \in Threads : pc[t] = "map_unlock" /\ request[t].lba = x
    /\ \A t \in Threads : Changer(t)

\* A thread announces the block it reads, and a write has looked at the lanes below i
\* for readers of its free block.
Tracking ==
    /\ \A u \in Threads : pc[u] \in Reading => entry[u].flag = "normal"
    /\ \A u \in Threads : pc[u] \in Reading \ {"set_rtt"} => rtt[lane[u]] = entry[u]
    /\ \A t, u \in Threads :
          /\ pc[t] \in {"scan", "write_begin", "write_end"}
          /\ pc[u] \in {"read_begin", "read_end"}
          /\ entry[u].block = entry[t].block
          => pc[t] = "scan" /\ i[t] <= lane[u]

BttInv ==
    TypeOK /\ Control /\ LayoutOnce /\ FlogsCurrent /\ Accounts /\ InProgress /\ Tracking

-----------------------------------------------------------------------------
(* Constants, entries and flog pairs                                       *)

\* What the proofs use of the sizes of an arena.
LEMMA Sizes ==
    /\ nfree \in Nat /\ nfree > 0
    /\ external_nlba \in Nat /\ external_nlba >= nfree
    /\ nlane \in Nat /\ nlane > 0 /\ nlane <= nfree
    /\ MaxCrashes \in Nat /\ Nobody \notin Threads
BY BttAssumption, SMTT(30)

\* A thread's lane is a lane of the arena.
LEMMA LanesInUse == \A l \in 0 .. nlane - 1 : l \in Lanes
BY Sizes, SMTT(30) DEF Lanes

\* The lock of a map entry is one of the map locks.
LEMMA MapLockExists == \A x \in Lbas : map_lock_num(x) \in Lanes
<1> TAKE x \in Lbas
<1> DEFINE q == (x * 4) \div BTT_MAP_LOCK_ALIGN
<1>1. q \in Int
    BY Sizes, BttAssumption, SMTT(30) DEF Lbas
<1>2. q % nfree \in 0 .. nfree - 1
    <2> HIDE DEF q
    <2> QED BY <1>1, Sizes, SMTT(30)
<1> QED
    BY <1>2, Zenon DEF map_lock_num, Lanes

\* The entries and flogs that the code makes are well-formed.
LEMMA EntryTypes ==
    /\ Unmapped \in Entries /\ NoRead \in Entries /\ Zflog \in Flogs
    /\ \A b \in Blocks : Normal(b) \in Entries
    /\ \A x \in Lbas : x \in Blocks
    /\ \A e \in Entries, x \in Lbas : Resolved(e, x) \in Entries
    /\ \A e \in Entries : e.block \in Blocks
    /\ \A l \in Lanes : InitialFlog(l) \in Flogs
<1> USE Sizes DEF Blocks, Lbas, Lanes, Entries, Flogs, Unmapped, NoRead, Zflog, Normal
<1>1. Unmapped \in Entries /\ NoRead \in Entries
    OBVIOUS
<1>2. Zflog \in Flogs
    BY <1>1, SMTT(30)
<1>3. \A b \in Blocks : Normal(b) \in Entries
    OBVIOUS
<1>4. \A x \in Lbas : x \in Blocks
    OBVIOUS
<1>5. \A e \in Entries, x \in Lbas : Resolved(e, x) \in Entries
    BY SMTT(30) DEF Resolved
<1>6. \A e \in Entries : e.block \in Blocks
    OBVIOUS
<1>7. \A l \in Lanes : InitialFlog(l) \in Flogs
    BY SMTT(30) DEF InitialFlog
<1> QED
    BY <1>1, <1>2, <1>3, <1>4, <1>5, <1>6, <1>7, Zenon

\* What is loaded from a pair is a flog, and next is one of its two places.
LEMMA LoadedTypes ==
    ASSUME flog \in [Lanes -> [0 .. 1 -> Flogs]], NEW l \in Lanes
    PROVE  Loaded(l) \in Flogs /\ LoadedNext(l) \in 0 .. 1
<1>1. btt_flog_get_valid(flog[l]) \in 0 .. 2
    BY SMTT(30) DEF btt_flog_get_valid
<1> QED
    BY <1>1, EntryTypes, SMTT(30) DEF Loaded, LoadedNext

-----------------------------------------------------------------------------
(* Types                                                                   *)

\* The variables have their types at the start.
LEMMA InitTypeOK == Init => TypeOK
<1> SUFFICES ASSUME Init PROVE TypeOK
    OBVIOUS
<1>1. Normal(0) \in Entries
    BY Sizes, EntryTypes, SMTT(30) DEF Blocks
<1>2. map \in [Lbas -> Entries] /\ mapped \in [Lbas -> Entries]
    BY <1>1, EntryTypes, Zenon DEF Init
<1>3. workload \in Seq(Requests)
    BY WorkloadAssumption, Zenon DEF Init
<1>4. /\ flog \in [Lanes -> [0 .. 1 -> Flogs]] /\ data \in [Blocks -> Values \cup {Torn}]
      /\ current \in [Lanes -> Flogs] /\ next \in [Lanes -> 0 .. 1]
    BY EntryTypes, SMTT(30) DEF Init
<1>5. /\ rtt \in [Lanes -> Entries] /\ map_locks \in [Lanes -> Threads \cup {Nobody}]
      /\ locks \in [Lanes -> Threads \cup {Nobody}]
      /\ flognum \in 0 .. nfree /\ next_lane \in 0 .. nlane - 1
    BY Sizes, EntryTypes, SMTT(30) DEF Init
<1>6. /\ lane \in [Threads -> 0 .. nlane - 1] /\ i \in [Threads -> 0 .. nlane - 1]
      /\ entry \in [Threads -> Entries] /\ old_entry \in [Threads -> Entries]
      /\ crashes \in 0 .. MaxCrashes
    BY Sizes, EntryTypes, SMTT(30) DEF Init
<1> QED
    BY <1>2, <1>3, <1>4, <1>5, <1>6, Zenon DEF Init, TypeOK

\* The run-time state of a closed pool is well-typed.
LEMMA GoneTypes ==
    ASSUME RuntimeGone
    PROVE  /\ current' \in [Lanes -> Flogs] /\ next' \in [Lanes -> 0 .. 1]
           /\ rtt' \in [Lanes -> Entries] /\ map_locks' \in [Lanes -> Threads \cup {Nobody}]
           /\ locks' \in [Lanes -> Threads \cup {Nobody}]
           /\ flognum' \in 0 .. nfree /\ next_lane' \in 0 .. nlane - 1
           /\ lane' \in [Threads -> 0 .. nlane - 1] /\ i' \in [Threads -> 0 .. nlane - 1]
           /\ entry' \in [Threads -> Entries] /\ old_entry' \in [Threads -> Entries]
           /\ laidout' = FALSE /\ flags' = FALSE /\ layout_write_mutex' = Nobody /\ pool' = "closed"
           /\ pc' = [t \in Threads |-> "idle"]
           /\ request' = [t \in Threads |-> NoRequest]
           /\ request' \in [Threads -> Requests \cup {NoRequest}]
           /\ buf' \in [Threads -> Values \cup {Zero, Error, NotYet, Torn}]
<1>1. current' \in [Lanes -> Flogs] /\ next' \in [Lanes -> 0 .. 1]
    BY EntryTypes, SMTT(30) DEF RuntimeGone
<1>2. /\ rtt' \in [Lanes -> Entries] /\ map_locks' \in [Lanes -> Threads \cup {Nobody}]
      /\ locks' \in [Lanes -> Threads \cup {Nobody}]
      /\ flognum' \in 0 .. nfree /\ next_lane' \in 0 .. nlane - 1
    BY Sizes, EntryTypes, SMTT(30) DEF RuntimeGone
<1>3. /\ lane' \in [Threads -> 0 .. nlane - 1] /\ i' \in [Threads -> 0 .. nlane - 1]
      /\ entry' \in [Threads -> Entries] /\ old_entry' \in [Threads -> Entries]
    BY Sizes, EntryTypes, SMTT(30) DEF RuntimeGone
<1>4. laidout' = FALSE /\ flags' = FALSE /\ layout_write_mutex' = Nobody /\ pool' = "closed"
    BY Zenon DEF RuntimeGone
<1>5. /\ pc' = [t \in Threads |-> "idle"] /\ request' = [t \in Threads |-> NoRequest]
      /\ request' \in [Threads -> Requests \cup {NoRequest}]
      /\ buf' \in [Threads -> Values \cup {Zero, Error, NotYet, Torn}]
    BY Zenon DEF RuntimeGone
<1> QED
    BY <1>1, <1>2, <1>3, <1>4, <1>5, Zenon

\* The top of the loop of btt_read keeps the types.
LEMMA ReadWithTypes ==
    ASSUME TypeOK, NEW t \in Threads, NEW e \in Entries, ReadWith(t, e)
    PROVE  /\ entry' \in [Threads -> Entries]
           /\ buf' \in [Threads -> Values \cup {Zero, Error, NotYet, Torn}]
           /\ pc' = [pc EXCEPT ![t] = "set_rtt"] \/ pc' = [pc EXCEPT ![t] = "lane_exit"]
BY Zenon DEF TypeOK, ReadWith, Goto

\* So does the start of a change.
LEMMA StartTypes ==
    ASSUME TypeOK, NEW t \in Threads, Start(t)
    PROVE  /\ entry' \in [Threads -> Entries]
           /\ i' \in [Threads -> 0 .. nlane - 1]
           /\ \E to \in {"scan", "map_lock", "lane_exit"} : pc' = [pc EXCEPT ![t] = to]
<1>1. Normal(current[lane[t]].old_map.block) \in Entries
    <2>1. current[lane[t]] \in Flogs
        BY LanesInUse, Zenon DEF TypeOK
    <2>2. current[lane[t]].old_map \in Entries
        BY <2>1, Zenon DEF Flogs
    <2> QED BY <2>2, EntryTypes, Zenon
<1>2. 0 \in 0 .. nlane - 1
    BY Sizes, SMTT(30)
<1>3. pc' = [pc EXCEPT ![t] = "scan"] \/ pc' = [pc EXCEPT ![t] = "map_lock"]
        \/ pc' = [pc EXCEPT ![t] = "lane_exit"]
    BY Zenon DEF Start, Goto
<1>4. entry' \in [Threads -> Entries] /\ i' \in [Threads -> 0 .. nlane - 1]
    BY <1>1, <1>2, Zenon DEF Start, TypeOK
<1> QED
    BY <1>3, <1>4, Zenon

\* Every step keeps the types.
LEMMA NextTypeOK ==
    ASSUME TypeOK, Control, LayoutOnce, [Next]_vars
    PROVE  TypeOK'
<1> USE DEF media, flogs, layout, opening, lanes, locals, bounds
<1>1. ASSUME NEW t \in Threads, Call(t) PROVE TypeOK'
    <2>1. Head(workload) \in Requests /\ Tail(workload) \in Seq(Requests)
        BY <1>1, SMTT(30) DEF TypeOK, Call
    <2>2. next_lane \in 0 .. nlane - 1 /\ (next_lane + 1) % nlane \in 0 .. nlane - 1
        BY Sizes, SMTT(30) DEF TypeOK
    <2> QED
        BY <1>1, <2>1, <2>2, Zenon DEF TypeOK, Call, Goto
<1>2. ASSUME NEW t \in Threads, lane_enter(t) PROVE TypeOK'
    <2>1. request[t] \in Requests
        BY <1>2, Zenon DEF lane_enter, At, Control
    <2>2. request[t].lba \in Lbas
        BY <2>1, Zenon DEF Requests
    <2>3. lane[t] \in Lanes
        BY LanesInUse, Zenon DEF TypeOK
    <2>4. /\ entry' \in [Threads -> Entries]
          /\ buf' \in [Threads -> Values \cup {Zero, Error, NotYet, Torn}]
          /\ i' \in [Threads -> 0 .. nlane - 1]
          /\ \E to \in {"set_rtt", "layout_lock", "scan", "map_lock", "lane_exit"} :
                pc' = [pc EXCEPT ![t] = to]
        <3>1. CASE EnterRead(t)
            <4>1. (IF laidout THEN mapped[request[t].lba] ELSE Unmapped) \in Entries
                BY <2>2, EntryTypes, Zenon DEF TypeOK
            <4> QED
                BY <3>1, <4>1, ReadWithTypes, Zenon DEF EnterRead, TypeOK
        <3>2. CASE EnterChange(t)
            <4>1. CASE Start(t)
                BY <3>2, <4>1, StartTypes, Zenon DEF EnterChange, TypeOK
            <4>2. CASE ~laidout
                BY <3>2, <4>2, Zenon DEF EnterChange, TypeOK, Goto
            <4> QED
                BY <3>2, <4>1, <4>2, Zenon DEF EnterChange
        <3> QED
            BY <1>2, <3>1, <3>2, Zenon DEF lane_enter
    <2> QED
        BY <1>2, <2>3, <2>4, SMTT(30) DEF TypeOK, lane_enter
<1>3. ASSUME NEW t \in Threads, lane_exit(t) PROVE TypeOK'
    BY <1>3, Zenon DEF TypeOK, lane_exit, Goto
<1>4. ASSUME NEW t \in Threads, SetRtt(t) PROVE TypeOK'
    BY <1>4, Zenon DEF TypeOK, SetRtt, Goto
<1>5. ASSUME NEW t \in Threads, Reread(t) PROVE TypeOK'
    <2>1. request[t] \in Requests
        BY <1>5, Zenon DEF Reread, At, Control
    <2>2. mapped[request[t].lba] \in Entries
        BY <2>1, Zenon DEF Requests, TypeOK
    <2>3. /\ entry' \in [Threads -> Entries]
          /\ buf' \in [Threads -> Values \cup {Zero, Error, NotYet, Torn}]
          /\ \E to \in {"set_rtt", "read_begin", "lane_exit"} : pc' = [pc EXCEPT ![t] = to]
        <3>1. CASE ReadWith(t, mapped[request[t].lba])
            BY <2>2, <3>1, ReadWithTypes, Zenon
        <3>2. CASE Goto(t, "read_begin") /\ UNCHANGED <<entry, buf>>
            BY <3>2, Zenon DEF Goto, TypeOK
        <3> QED
            BY <1>5, <3>1, <3>2, Zenon DEF Reread
    <2> QED
        BY <1>5, <2>3, SMTT(30) DEF TypeOK, Reread
<1>6. ASSUME NEW t \in Threads, ReadBegin(t) \/ ReadEnd(t) PROVE TypeOK'
    <2>1. entry[t].block \in Blocks
        BY EntryTypes, Zenon DEF TypeOK
    <2>2. data[entry[t].block] \in Values \cup {Torn}
        BY <2>1, Zenon DEF TypeOK
    <2>3. CASE ReadBegin(t)
        BY <2>2, <2>3, SMTT(30) DEF TypeOK, ReadBegin, Goto
    <2>4. CASE ReadEnd(t)
        BY <2>2, <2>4, EntryTypes, ZenonT(30) DEF TypeOK, ReadEnd, Goto
    <2> QED
        BY <1>6, <2>3, <2>4, Zenon
<1>7. ASSUME NEW t \in Threads, LayoutLock(t) PROVE TypeOK'
    <2>1. CASE Start(t)
        BY <1>7, <2>1, StartTypes, ZenonT(60) DEF TypeOK, LayoutLock
    <2>2. CASE ~laidout
        BY <1>7, <2>2, Zenon DEF TypeOK, LayoutLock, Goto
    <2> QED
        BY <1>7, <2>1, <2>2, Zenon DEF LayoutLock
<1>8. ASSUME NEW t \in Threads, ZeroMap(t) PROVE TypeOK'
    BY <1>8, EntryTypes, Zenon DEF TypeOK, ZeroMap, Goto
<1>9. ASSUME NEW t \in Threads, WriteFlogs(t) PROVE TypeOK'
    <2>1. flog' \in [Lanes -> [0 .. 1 -> Flogs]]
        BY <1>9, EntryTypes, Zenon DEF WriteFlogs
    <2> QED
        BY <1>9, <2>1, Zenon DEF TypeOK, WriteFlogs, Goto
<1>10. ASSUME NEW t \in Threads, WriteInfo(t) PROVE TypeOK'
    BY <1>10, Zenon DEF TypeOK, WriteInfo, Goto
<1>11. ASSUME NEW t \in Threads, ReadArenas(t) PROVE TypeOK'
    <2>1. current' \in [Lanes -> Flogs] /\ next' \in [Lanes -> 0 .. 1]
        BY <1>11, LoadedTypes, Zenon DEF ReadArenas, TypeOK
    <2>2. flags' \in BOOLEAN
        BY <1>11, Zenon DEF ReadArenas
    <2> QED
        BY <1>11, <2>1, <2>2, EntryTypes, Zenon DEF TypeOK, ReadArenas, Goto
<1>12. ASSUME NEW t \in Threads, StartLaidOut(t) PROVE TypeOK'
    BY <1>12, StartTypes, ZenonT(30) DEF TypeOK, StartLaidOut
<1>13. ASSUME NEW t \in Threads, Scan(t) PROVE TypeOK'
    <2>1. i' \in [Threads -> 0 .. nlane - 1]
        <3>1. CASE i[t] + 1 < nlane
            <4>1. i[t] + 1 \in 0 .. nlane - 1
                BY <3>1, Sizes, SMTT(30) DEF TypeOK
            <4> QED
                BY <1>13, <3>1, <4>1, Zenon DEF Scan, TypeOK
        <3>2. CASE ~(i[t] + 1 < nlane)
            BY <1>13, <3>2, Zenon DEF Scan, TypeOK
        <3> QED
            BY <3>1, <3>2, Zenon
    <2> QED
        BY <1>13, <2>1, Zenon DEF TypeOK, Scan, Goto
<1>14. ASSUME NEW t \in Threads, WriteBegin(t) PROVE TypeOK'
    BY <1>14, Zenon DEF TypeOK, WriteBegin, Goto
<1>15. ASSUME NEW t \in Threads, WriteEnd(t) PROVE TypeOK'
    <2>1. request[t] \in Requests /\ request[t].op = "write"
        BY <1>15, Zenon DEF WriteEnd, At, Control, ForWrites
    <2>2. request[t].val \in Values
        BY <2>1, Zenon DEF Requests
    <2> QED
        BY <1>15, <2>2, Zenon DEF TypeOK, WriteEnd, Goto
<1>16. ASSUME NEW t \in Threads, MapLock(t) PROVE TypeOK'
    <2> DEFINE old == Resolved(mapped[request[t].lba], request[t].lba)
    <2>1. request[t] \in Requests
        BY <1>16, Zenon DEF MapLock, At, Control
    <2>2. request[t].lba \in Lbas
        BY <2>1, Zenon DEF Requests
    <2>3. old \in Entries
        BY <2>2, EntryTypes, Zenon DEF TypeOK
    <2>4. [block |-> old.block, flag |-> "zero"] \in Entries
             /\ [block |-> old.block, flag |-> "error"] \in Entries
        BY <2>3, Zenon DEF Entries
    <2>5. map_lock_num(request[t].lba) \in Lanes
        BY <2>2, MapLockExists, Zenon
    <2> HIDE DEF old
    <2>6. old_entry' \in [Threads -> Entries] /\ entry' \in [Threads -> Entries]
        BY <1>16, <2>3, <2>4, Zenon DEF MapLock, TypeOK, old
    <2>7. map_locks' \in [Lanes -> Threads \cup {Nobody}]
        BY <1>16, <2>5, Zenon DEF MapLock, TypeOK
    <2>8. \E to \in {"lane_exit", "flog_old", "map_store"} : pc' = [pc EXCEPT ![t] = to]
        BY <1>16, Zenon DEF MapLock, Goto
    <2> QED
        BY <1>16, <2>6, <2>7, <2>8, SMTT(30) DEF TypeOK, MapLock
<1>17. ASSUME NEW t \in Threads, FlogOld(t) PROVE TypeOK'
    <2>1. request[t] \in Requests /\ request[t].lba \in Lbas
        BY <1>17, Zenon DEF FlogOld, At, Control, Requests
    <2>2. lane[t] \in Lanes /\ next[lane[t]] \in 0 .. 1
        BY LanesInUse, Zenon DEF TypeOK
    <2>3. flog' \in [Lanes -> [0 .. 1 -> Flogs]]
        <3> DEFINE pair == flog[lane[t]]
                   changed == [pair[next[lane[t]]] EXCEPT !.lba = request[t].lba,
                                                          !.old_map = old_entry[t]]
        <3>1. pair \in [0 .. 1 -> Flogs] /\ old_entry[t] \in Entries
            BY <2>2, Zenon DEF TypeOK
        <3>2. changed \in Flogs
            BY <2>1, <2>2, <3>1, Zenon DEF Flogs
        <3>3. [pair EXCEPT ![next[lane[t]]] = changed] \in [0 .. 1 -> Flogs]
            BY <3>1, <3>2, Zenon
        <3>4. flog' = [flog EXCEPT ![lane[t]] = [pair EXCEPT ![next[lane[t]]] = changed]]
            BY <1>17, <2>2, <3>1, Zenon DEF FlogOld, TypeOK
        <3> HIDE DEF pair, changed
        <3> QED
            BY <2>2, <3>3, <3>4, Zenon DEF TypeOK
    <2> QED
        BY <1>17, <2>3, Zenon DEF TypeOK, FlogOld, Goto
<1>18. ASSUME NEW t \in Threads, FlogNew(t) PROVE TypeOK'
    <2>1. request[t] \in Requests /\ request[t].lba \in Lbas
        BY <1>18, Zenon DEF FlogNew, At, Control, Requests
    <2>2. lane[t] \in Lanes /\ next[lane[t]] \in 0 .. 1
        BY LanesInUse, Zenon DEF TypeOK
    <2>3. Nseq[current[lane[t]].seq] \in 0 .. 3
        BY <2>2, SMTT(30) DEF TypeOK, Flogs, Nseq
    <2>4. flog' \in [Lanes -> [0 .. 1 -> Flogs]]
        <3> DEFINE pair == flog[lane[t]]
                   changed == [pair[next[lane[t]]] EXCEPT !.new_map = entry[t],
                                                !.seq = Nseq[current[lane[t]].seq]]
        <3>1. pair \in [0 .. 1 -> Flogs] /\ entry[t] \in Entries
            BY <2>2, Zenon DEF TypeOK
        <3>2. changed \in Flogs
            BY <2>2, <2>3, <3>1, Zenon DEF Flogs
        <3>3. [pair EXCEPT ![next[lane[t]]] = changed] \in [0 .. 1 -> Flogs]
            BY <3>1, <3>2, Zenon
        <3>4. flog' = [flog EXCEPT ![lane[t]] = [pair EXCEPT ![next[lane[t]]] = changed]]
            BY <1>18, <2>2, <3>1, Zenon DEF FlogNew, TypeOK
        <3> HIDE DEF pair, changed
        <3> QED
            BY <2>2, <3>3, <3>4, Zenon DEF TypeOK
    <2>5. current' \in [Lanes -> Flogs]
        BY <1>18, <2>1, <2>2, <2>3, Zenon DEF FlogNew, TypeOK, Flogs
    <2>6. next' \in [Lanes -> 0 .. 1]
        BY <1>18, <2>2, SMTT(30) DEF FlogNew, TypeOK
    <2> QED
        BY <1>18, <2>4, <2>5, <2>6, Zenon DEF TypeOK, FlogNew, Goto
<1>19. ASSUME NEW t \in Threads, MapStore(t) \/ MapUnlock(t) PROVE TypeOK'
    <2>1. request[t] \in Requests /\ request[t].lba \in Lbas
        BY <1>19, Zenon DEF MapStore, MapUnlock, At, Control, Requests
    <2>2. CASE MapStore(t)
        BY <2>1, <2>2, Zenon DEF TypeOK, MapStore, Goto
    <2>3. CASE MapUnlock(t)
        BY <2>1, <2>3, Zenon DEF TypeOK, MapUnlock, Goto
    <2> QED
        BY <1>19, <2>2, <2>3, Zenon
<1>20. CASE Crash
    <2>1. map' \in [Lbas -> Entries] /\ mapped' = map'
        BY <1>20, Zenon DEF Crash, TypeOK
    <2>2. crashes' \in 0 .. MaxCrashes
        BY <1>20, Sizes, SMTT(30) DEF Crash, TypeOK
    <2>3. RuntimeGone
        BY <1>20, Zenon DEF Crash
    <2>4. UNCHANGED <<is_zeroed, info, flog, data, workload>>
        BY <1>20, Zenon DEF Crash
    <2>5. pc' \in [Threads -> {"idle"}]
        BY <2>3, GoneTypes, Zenon
    <2> QED
        BY <2>1, <2>2, <2>3, <2>4, <2>5, GoneTypes, Zenon DEF TypeOK
<1>21. CASE Close
    <2>1. RuntimeGone
        BY <1>21, Zenon DEF Close
    <2>2. UNCHANGED <<is_zeroed, info, map, flog, data, mapped, workload, crashes>>
        BY <1>21, Zenon DEF Close
    <2>3. pc' \in [Threads -> {"idle"}]
        BY <2>1, GoneTypes, Zenon
    <2> QED
        BY <2>1, <2>2, <2>3, GoneTypes, Zenon DEF TypeOK
<1>22. CASE Open
    BY <1>22, Zenon DEF TypeOK, Open
<1>23. CASE ReadFlogPair
    <2>1. flognum \in Lanes /\ flognum + 1 \in 0 .. nfree
        BY <1>23, Sizes, SMTT(30) DEF ReadFlogPair, LayoutOnce, TypeOK, Lanes
    <2>2. Loaded(flognum) \in Flogs /\ LoadedNext(flognum) \in 0 .. 1
        BY <2>1, LoadedTypes, Zenon DEF TypeOK
    <2>3. Loaded(flognum).lba \in Lbas /\ Loaded(flognum).new_map \in Entries
        BY <2>2, Zenon DEF Flogs
    <2>4. map' \in [Lbas -> Entries] /\ mapped' = map'
        BY <1>23, <2>3, Zenon DEF ReadFlogPair, TypeOK
    <2>5. current' \in [Lanes -> Flogs] /\ next' \in [Lanes -> 0 .. 1]
        BY <1>23, <2>1, <2>2, Zenon DEF ReadFlogPair, TypeOK
    <2>6. flags' \in BOOLEAN /\ laidout' \in BOOLEAN
        BY <1>23, Zenon DEF ReadFlogPair
    <2> QED
        BY <1>23, <2>1, <2>4, <2>5, <2>6, Zenon DEF TypeOK, ReadFlogPair
<1>24. CASE UNCHANGED vars
    BY <1>24, Zenon DEF TypeOK, vars
<1> QED
    BY <1>1, <1>2, <1>3, <1>4, <1>5, <1>6, <1>7, <1>8, <1>9, <1>10, <1>11, <1>12, <1>13,
       <1>14, <1>15, <1>16, <1>17, <1>18, <1>19, <1>20, <1>21, <1>22, <1>23, <1>24, Zenon
       DEF Next, Step

-----------------------------------------------------------------------------
(* Who holds what                                                          *)

\* No thread is in a call at the start.
LEMMA InitControl == Init => Control
BY SMTT(30) DEF Init, Control, MapHeld, LayingOut, ForWrites, Changing, Reading

\* A thread that starts a change on a laid-out arena is in control of its lane.
LEMMA StartControl ==
    ASSUME TypeOK, NEW t \in Threads, Start(t)
    PROVE  \/ pc' = [pc EXCEPT ![t] = "scan"] /\ request[t].op = "write"
           \/ pc' = [pc EXCEPT ![t] = "map_lock"]
           \/ pc' = [pc EXCEPT ![t] = "lane_exit"]
BY Zenon DEF Start, Goto

\* Every step keeps the control.
LEMMA NextControl ==
    ASSUME TypeOK, Control, LayoutOnce, [Next]_vars
    PROVE  Control'
<1> USE DEF MapHeld, LayingOut, ForWrites, Changing, Reading
<1>0. DOMAIN pc = Threads /\ DOMAIN lane = Threads /\ DOMAIN request = Threads
    BY Zenon DEF TypeOK
<1>1. ASSUME NEW t \in Threads, Call(t) PROVE Control'
    <2>1. Head(workload) \in Requests
        BY <1>1, SMTT(30) DEF TypeOK, Call
    <2>2. pc' = [pc EXCEPT ![t] = "lane_enter"] /\ pool = "open" /\ pool' = pool
        BY <1>1, Zenon DEF Call, Goto, At, opening
    <2> QED
        BY <1>0, <1>1, <2>1, <2>2, SMTT(30) DEF Control, Call, layout
<1>2. ASSUME NEW t \in Threads, lane_enter(t) PROVE Control'
    <2>1. /\ pool = "open" /\ pool' = pool /\ pc[t] = "lane_enter"
          /\ UNCHANGED <<laidout, layout_write_mutex, map_locks, request, lane>>
        BY <1>2, Zenon DEF lane_enter, At, opening, layout
    <2>2. locks[lane[t]] = Nobody /\ locks' = [locks EXCEPT ![lane[t]] = t]
        BY <1>2, Zenon DEF lane_enter
    <2>3. lane[t] \in Lanes /\ locks \in [Lanes -> Threads \cup {Nobody}]
        BY LanesInUse, Zenon DEF TypeOK
    <2>4. \/ pc' = [pc EXCEPT ![t] = "set_rtt"] /\ laidout
          \/ pc' = [pc EXCEPT ![t] = "lane_exit"]
          \/ pc' = [pc EXCEPT ![t] = "layout_lock"] /\ request[t].op # "read"
          \/ pc' = [pc EXCEPT ![t] = "scan"] /\ laidout /\ request[t].op = "write"
          \/ pc' = [pc EXCEPT ![t] = "map_lock"] /\ laidout /\ request[t].op # "read"
        <3>1. CASE request[t].op = "read"
            BY <1>2, <3>1, Zenon DEF lane_enter, EnterRead, ReadWith, Goto, Unmapped
        <3>2. CASE request[t].op # "read"
            BY <1>2, <3>2, StartControl, Zenon DEF lane_enter, EnterChange, Goto
        <3> QED
            BY <3>1, <3>2, Zenon
    <2> QED
        BY <1>0, <2>1, <2>2, <2>3, <2>4, Sizes, SMTT(30) DEF Control
<1>3. ASSUME NEW t \in Threads, lane_exit(t) PROVE Control'
    <2>1. /\ pc[t] = "lane_exit" /\ pc' = [pc EXCEPT ![t] = "idle"] /\ pool' = pool
          /\ UNCHANGED <<laidout, layout_write_mutex, map_locks, lane>> /\ pool = "open"
          /\ request' = [request EXCEPT ![t] = NoRequest]
          /\ locks' = [locks EXCEPT ![lane[t]] = Nobody]
        BY <1>3, Zenon DEF lane_exit, At, Goto, opening, layout
    <2>2. locks \in [Lanes -> Threads \cup {Nobody}] /\ lane[t] \in Lanes
        BY LanesInUse, Zenon DEF TypeOK
    <2> QED
        BY <1>0, <2>1, <2>2, Sizes, SMTT(30) DEF Control
<1>4. ASSUME NEW t \in Threads, SetRtt(t) \/ Reread(t) \/ ReadBegin(t) \/ ReadEnd(t)
      PROVE Control'
    <2>1. /\ pc[t] \in Reading /\ pool = "open" /\ pool' = pool
          /\ \E to \in Reading \cup {"lane_exit"} : pc' = [pc EXCEPT ![t] = to]
          /\ UNCHANGED <<laidout, layout_write_mutex, map_locks, locks, lane, request>>
        BY <1>4, Zenon DEF SetRtt, Reread, ReadBegin, ReadEnd, ReadWith, At, Goto, opening, layout,
                    lanes, locals
    <2> QED
        BY <1>0, <2>1, Zenon DEF Control
<1>5. ASSUME NEW t \in Threads, LayoutLock(t) PROVE Control'
    <2>1. /\ pc[t] = "layout_lock" /\ pool = "open" /\ pool' = pool
          /\ layout_write_mutex = Nobody
          /\ UNCHANGED <<laidout, map_locks, locks, lane, request>>
        BY <1>5, Zenon DEF LayoutLock, At, opening, lanes
    <2>2. \/ pc' = [pc EXCEPT ![t] = "scan"] /\ laidout /\ request[t].op = "write"
          \/ pc' = [pc EXCEPT ![t] = "map_lock"] /\ laidout
          \/ pc' = [pc EXCEPT ![t] = "lane_exit"] /\ laidout
          \/ pc' = [pc EXCEPT ![t] = "zero_map"] /\ layout_write_mutex' = t
        BY <1>5, StartControl, Zenon DEF LayoutLock, Goto
    <2> QED
        BY <1>0, <2>1, <2>2, Sizes, SMTT(30) DEF Control
<1>6. ASSUME NEW t \in Threads, ZeroMap(t) \/ WriteFlogs(t) \/ WriteInfo(t) PROVE Control'
    <2>1. /\ pc[t] \in LayingOut /\ pool = "open" /\ pool' = pool
          /\ \E to \in LayingOut : pc' = [pc EXCEPT ![t] = to]
          /\ UNCHANGED <<laidout, layout_write_mutex, map_locks, locks, lane, request>>
        BY <1>6, Zenon DEF ZeroMap, WriteFlogs, WriteInfo, At, Goto, opening, layout, lanes, locals
    <2> QED
        BY <1>0, <2>1, Zenon DEF Control
<1>7. ASSUME NEW t \in Threads, ReadArenas(t) PROVE Control'
    <2>1. /\ pc[t] = "read_arenas" /\ pool = "open" /\ pool' = pool
          /\ pc' = [pc EXCEPT ![t] = "start"] /\ laidout' = TRUE
          /\ UNCHANGED <<locks, lane, request>>
        BY <1>7, Zenon DEF ReadArenas, At, Goto, opening, lanes, locals
    <2>2. ~laidout /\ \A u \in Threads : pc[u] \notin MapHeld
        BY <2>1, Zenon DEF LayoutOnce, Control
    <2>3. \A u \in Threads : pc[u] \in LayingOut => u = t
        BY <2>1, Zenon DEF Control
    <2>4. request[t].op # "read"
        BY <2>1, Zenon DEF Control
    <2> QED
        BY <1>0, <2>1, <2>2, <2>3, <2>4, SMTT(30) DEF Control
<1>8. ASSUME NEW t \in Threads, StartLaidOut(t) PROVE Control'
    <2>1. /\ pc[t] = "start" /\ pool = "open" /\ pool' = pool
          /\ UNCHANGED <<laidout, layout_write_mutex, map_locks, locks, lane, request>>
        BY <1>8, Zenon DEF StartLaidOut, At, opening, lanes, layout
    <2>2. \/ pc' = [pc EXCEPT ![t] = "scan"] /\ request[t].op = "write"
          \/ pc' = [pc EXCEPT ![t] = "map_lock"]
          \/ pc' = [pc EXCEPT ![t] = "lane_exit"]
        BY <1>8, StartControl, Zenon DEF StartLaidOut
    <2> QED
        BY <1>0, <2>1, <2>2, SMTT(30) DEF Control
<1>9. ASSUME NEW t \in Threads, Scan(t) \/ WriteBegin(t) \/ WriteEnd(t) PROVE Control'
    <2>1. /\ pc[t] \in {"scan", "write_begin", "write_end"} /\ pool = "open" /\ pool' = pool
          /\ pc' = pc \/ \E to \in {"write_begin", "write_end", "map_lock"} :
                             pc' = [pc EXCEPT ![t] = to]
          /\ UNCHANGED <<laidout, layout_write_mutex, map_locks, locks, lane, request>>
        BY <1>9, Zenon DEF Scan, WriteBegin, WriteEnd, At, Goto, opening, layout, lanes, locals
    <2> QED
        BY <1>0, <2>1, SMTT(30) DEF Control
<1>10. ASSUME NEW t \in Threads, MapLock(t) PROVE Control'
    <2> DEFINE lock == map_lock_num(request[t].lba)
    <2>1. /\ pc[t] = "map_lock" /\ pool = "open" /\ pool' = pool
          /\ map_locks[lock] = Nobody
          /\ UNCHANGED <<laidout, layout_write_mutex, locks, lane, request>>
        BY <1>10, Zenon DEF MapLock, At, opening, layout, lanes
    <2>2. \/ pc' = [pc EXCEPT ![t] = "lane_exit"] /\ map_locks' = map_locks
          \/ /\ pc' = [pc EXCEPT ![t] = "flog_old"] /\ request[t].op = "write"
             /\ map_locks' = [map_locks EXCEPT ![lock] = t]
          \/ /\ pc' = [pc EXCEPT ![t] = "map_store"]
             /\ map_locks' = [map_locks EXCEPT ![lock] = t]
        BY <1>10, Zenon DEF MapLock, Goto
    <2>3. request[t].lba \in Lbas
        BY <2>1, Zenon DEF Control, Requests
    <2>4. lock \in Lanes /\ map_locks \in [Lanes -> Threads \cup {Nobody}]
        BY <2>3, MapLockExists, Zenon DEF TypeOK
    <2> HIDE DEF lock
    <2>5. \A u \in Threads : pc'[u] \in MapHeld =>
              map_locks'[map_lock_num(request'[u].lba)] = u
        <3> SUFFICES ASSUME NEW u \in Threads, pc'[u] \in MapHeld
                     PROVE  map_locks'[map_lock_num(request[u].lba)] = u
            BY <2>1, Zenon
        <3>1. CASE u = t
            BY <1>0, <2>2, <2>4, <3>1, Zenon DEF lock
        <3>2. CASE u # t
            <4>1. pc[u] \in MapHeld
                BY <1>0, <2>2, <3>2, Zenon
            <4>2. map_locks[map_lock_num(request[u].lba)] = u
                BY <4>1, Zenon DEF Control
            <4>3. map_lock_num(request[u].lba) # lock
                BY <2>1, <4>2, Sizes, Zenon
            <4>4. request[u].lba \in Lbas
                BY <4>1, Zenon DEF Control, Requests
            <4> QED
                BY <2>2, <2>4, <4>2, <4>3, <4>4, MapLockExists, Zenon
        <3> QED
            BY <3>1, <3>2, Zenon
    <2> QED
        BY <1>0, <2>1, <2>2, <2>5, SMTT(30) DEF Control
<1>11. ASSUME NEW t \in Threads, FlogOld(t) \/ FlogNew(t) \/ MapStore(t) PROVE Control'
    <2>1. /\ pc[t] \in {"flog_old", "flog_new", "map_store"} /\ pool = "open" /\ pool' = pool
          /\ \/ pc[t] = "flog_old" /\ pc' = [pc EXCEPT ![t] = "flog_new"]
             \/ \E to \in {"map_store", "map_unlock"} : pc' = [pc EXCEPT ![t] = to]
          /\ UNCHANGED <<laidout, layout_write_mutex, map_locks, locks, lane, request>>
        BY <1>11, Zenon DEF FlogOld, FlogNew, MapStore, At, Goto, opening, layout, lanes, locals
    <2> QED
        BY <1>0, <2>1, SMTT(30) DEF Control
<1>12. ASSUME NEW t \in Threads, MapUnlock(t) PROVE Control'
    <2>1. /\ pc[t] = "map_unlock" /\ pool = "open" /\ pool' = pool
          /\ pc' = [pc EXCEPT ![t] = "lane_exit"]
          /\ map_locks' = [map_locks EXCEPT ![map_lock_num(request[t].lba)] = Nobody]
          /\ UNCHANGED <<laidout, layout_write_mutex, locks, lane, request>>
        BY <1>12, Zenon DEF MapUnlock, At, Goto, opening, layout, lanes, locals
    <2>2. map_locks[map_lock_num(request[t].lba)] = t
        BY <2>1, Zenon DEF Control
    <2>3. DOMAIN map_locks = Lanes
        BY Zenon DEF TypeOK
    <2>4. \A u \in Threads : pc'[u] \in MapHeld =>
              map_locks'[map_lock_num(request'[u].lba)] = u
        BY <1>0, <2>1, <2>2, SMTT(30) DEF Control
    <2> QED
        BY <1>0, <2>1, <2>4, SMTT(30) DEF Control
<1>13. CASE Crash \/ Close
    <2>1. \A u \in Threads : pc'[u] = "idle"
        BY <1>13, Zenon DEF Crash, Close, RuntimeGone
    <2> QED
        BY <2>1, Zenon DEF Control
<1>14. CASE Open \/ ReadFlogPair
    <2>1. \A u \in Threads : pc'[u] = "idle"
        BY <1>14, Zenon DEF Control, Open, ReadFlogPair
    <2> QED
        BY <2>1, Zenon DEF Control
<1>15. CASE UNCHANGED vars
    BY <1>15, Zenon DEF Control, vars, opening, layout, lanes, locals
<1> QED
    BY <1>1, <1>2, <1>3, <1>4, <1>5, <1>6, <1>7, <1>8, <1>9, <1>10, <1>11, <1>12, <1>13,
       <1>14, <1>15, Zenon DEF Next, Step

-----------------------------------------------------------------------------
(* The layout                                                              *)

\* A new pool has no layout.
LEMMA InitLayout == Init => LayoutOnce
BY SMTT(30) DEF Init, LayoutOnce, LayingOut

\* A step of a thread that neither lays out the arena nor changes it.
LEMMA LayoutFrame ==
    ASSUME TypeOK, LayoutOnce, NEW t \in Threads, NEW to,
           pc' = [pc EXCEPT ![t] = to],
           pc[t] \notin LayingOut, to \notin LayingOut,
           UNCHANGED <<laidout, info, pool, flognum, is_zeroed>>,
           laidout \/ UNCHANGED <<map, mapped, flog>>
    PROVE  LayoutOnce'
<1>1. \A u \in Threads : pc'[u] \in LayingOut => pc[u] = pc'[u]
    BY Zenon DEF TypeOK
<1>2. pool = "open" /\ info /\ ~laidout => \E u \in Threads : pc'[u] = "read_arenas"
    BY Zenon DEF LayoutOnce, TypeOK, LayingOut
<1>3. ASSUME laidout PROVE LayoutOnce'
    BY <1>1, <1>2, <1>3, Zenon DEF LayoutOnce
<1>4. ASSUME UNCHANGED <<map, mapped, flog>> PROVE LayoutOnce'
    BY <1>1, <1>2, <1>4, Zenon DEF LayoutOnce
<1> QED
    BY <1>3, <1>4, Zenon

\* Every step keeps the layout.
LEMMA NextLayout ==
    ASSUME TypeOK, Control, LayoutOnce, [Next]_vars
    PROVE  LayoutOnce'
<1>0. DOMAIN pc = Threads
    BY Zenon DEF TypeOK
<1> USE DEF media, layout, opening, lanes, flogs, locals, bounds
<1>1. ASSUME NEW t \in Threads, Call(t) \/ lane_exit(t) PROVE LayoutOnce'
    <2>1. /\ pc[t] \in {"idle", "lane_exit"}
          /\ \E to \in {"lane_enter", "idle"} : pc' = [pc EXCEPT ![t] = to]
          /\ UNCHANGED <<media, layout, opening>>
        BY <1>1, Zenon DEF Call, lane_exit, Goto, At
    <2> QED
        BY <2>1, LayoutFrame, Zenon DEF LayingOut
<1>2. ASSUME NEW t \in Threads, lane_enter(t) PROVE LayoutOnce'
    <2>1. pc[t] = "lane_enter" /\ UNCHANGED <<media, layout, opening>>
        BY <1>2, Zenon DEF lane_enter, At
    <2>2. \E to \in {"set_rtt", "lane_exit", "layout_lock", "scan", "map_lock"} :
              pc' = [pc EXCEPT ![t] = to]
        BY <1>2, StartControl, Zenon DEF lane_enter, EnterRead, EnterChange, ReadWith, Goto
    <2> QED
        BY <2>1, <2>2, LayoutFrame, Zenon DEF LayingOut
<1>3. ASSUME NEW t \in Threads, SetRtt(t) \/ Reread(t) \/ ReadBegin(t) \/ ReadEnd(t)
      PROVE LayoutOnce'
    <2>1. /\ pc[t] \in Reading /\ UNCHANGED <<media, layout, opening>>
          /\ \E to \in Reading \cup {"lane_exit"} : pc' = [pc EXCEPT ![t] = to]
        BY <1>3, Zenon DEF SetRtt, Reread, ReadBegin, ReadEnd, ReadWith, At, Goto, Reading
    <2> QED
        BY <2>1, LayoutFrame, Zenon DEF LayingOut, Reading
<1>4. ASSUME NEW t \in Threads, LayoutLock(t) PROVE LayoutOnce'
    <2>1. /\ pc[t] = "layout_lock" /\ layout_write_mutex = Nobody /\ pool = "open"
          /\ UNCHANGED <<media, laidout, opening>>
        BY <1>4, Zenon DEF LayoutLock, At
    <2>2. CASE laidout
        <3>1. \E to \in {"lane_exit", "scan", "map_lock"} : pc' = [pc EXCEPT ![t] = to]
            BY <1>4, <2>2, StartControl, Zenon DEF LayoutLock
        <3> QED
            BY <2>1, <3>1, LayoutFrame, Zenon DEF LayingOut
    <2>3. CASE ~laidout
        <3>1. \A u \in Threads : pc[u] \notin LayingOut
            BY <2>1, Sizes, Zenon DEF Control
        <3>2. ~info
            BY <2>1, <2>3, <3>1, Zenon DEF LayoutOnce, LayingOut
        <3>3. pc' = [pc EXCEPT ![t] = "zero_map"]
            BY <1>4, <2>3, Zenon DEF LayoutLock, Goto
        <3>4. \A u \in Threads : pc'[u] \in LayingOut => pc'[u] = "zero_map"
            BY <1>0, <3>1, <3>3, Zenon
        <3> QED
            BY <2>1, <2>3, <3>2, <3>4, Zenon DEF LayoutOnce
    <2> QED
        BY <2>2, <2>3, Zenon
<1>5. ASSUME NEW t \in Threads, ZeroMap(t) \/ WriteFlogs(t) \/ WriteInfo(t) \/ ReadArenas(t)
      PROVE LayoutOnce'
    <2>1. pc[t] \in LayingOut /\ pool = "open" /\ pool' = pool
        BY <1>5, Zenon DEF ZeroMap, WriteFlogs, WriteInfo, ReadArenas, At, LayingOut
    <2>2. \A u \in Threads : pc[u] \in LayingOut => u = t
        BY <2>1, Zenon DEF Control
    <2>3. CASE ZeroMap(t)
        <3>1. /\ pc[t] = "zero_map" /\ pc' = [pc EXCEPT ![t] = "write_flogs"]
              /\ UNCHANGED <<is_zeroed, info, flog, laidout, pool, flognum>>
              /\ mapped' = map'
              /\ map' = IF is_zeroed THEN map ELSE [x \in Lbas |-> Unmapped]
            BY <2>3, Zenon DEF ZeroMap, At, Goto
        <3>2. ~laidout /\ ~info
            BY <2>1, <3>1, Zenon DEF LayoutOnce
        <3>3. \A x \in Lbas : map'[x] = Unmapped
            BY <3>1, <3>2, Zenon DEF LayoutOnce
        <3>4. \A u \in Threads : pc'[u] \in LayingOut => pc'[u] = "write_flogs"
            BY <1>0, <2>2, <3>1, Zenon
        <3> QED
            BY <2>1, <3>1, <3>2, <3>3, <3>4, Zenon DEF LayoutOnce
    <2>4. CASE WriteFlogs(t)
        <3>1. /\ pc[t] = "write_flogs" /\ pc' = [pc EXCEPT ![t] = "write_info"]
              /\ UNCHANGED <<is_zeroed, info, map, mapped, laidout, pool, flognum>>
              /\ flog' = [l \in Lanes |->
                             [k \in 0 .. 1 |-> IF k = 0 THEN InitialFlog(l) ELSE Zflog]]
            BY <2>4, Zenon DEF WriteFlogs, At, Goto
        <3>2. ~laidout /\ ~info /\ \A x \in Lbas : map[x] = Unmapped
            BY <2>1, <3>1, Zenon DEF LayoutOnce
        <3>3. \A l \in Lanes :
                  flog'[l] = [k \in 0 .. 1 |-> IF k = 0 THEN InitialFlog(l) ELSE Zflog]
            BY <3>1, Zenon
        <3>4. \A u \in Threads : pc'[u] \in LayingOut => pc'[u] = "write_info"
            BY <1>0, <2>2, <3>1, Zenon
        <3> QED
            BY <2>1, <3>1, <3>2, <3>3, <3>4, Zenon DEF LayoutOnce
    <2>5. CASE WriteInfo(t)
        <3>1. /\ pc[t] = "write_info" /\ pc' = [pc EXCEPT ![t] = "read_arenas"]
              /\ UNCHANGED <<is_zeroed, map, mapped, flog, laidout, pool, flognum>>
              /\ info' = TRUE
            BY <2>5, Zenon DEF WriteInfo, At, Goto
        <3>2. \A u \in Threads : pc'[u] \in LayingOut => pc'[u] = "read_arenas" /\ u = t
            BY <1>0, <2>2, <3>1, Zenon
        <3>3. pc'[t] = "read_arenas"
            BY <1>0, <3>1, Zenon
        <3> QED
            BY <2>1, <3>1, <3>2, <3>3, Zenon DEF LayoutOnce
    <2>6. CASE ReadArenas(t)
        <3>1. /\ pc[t] = "read_arenas" /\ pc' = [pc EXCEPT ![t] = "start"]
              /\ UNCHANGED <<media, opening>> /\ laidout' = TRUE
            BY <2>6, Zenon DEF ReadArenas, At, Goto
        <3>2. \A u \in Threads : pc'[u] \notin LayingOut
            BY <1>0, <2>2, <3>1, Zenon DEF LayingOut
        <3>3. info
            BY <2>1, <3>1, Zenon DEF LayoutOnce
        <3> QED
            BY <2>1, <3>1, <3>2, <3>3, Zenon DEF LayoutOnce
    <2> QED
        BY <1>5, <2>3, <2>4, <2>5, <2>6, Zenon
<1>6. ASSUME NEW t \in Threads, StartLaidOut(t) PROVE LayoutOnce'
    <2>1. pc[t] = "start" /\ UNCHANGED <<media, layout, opening>>
        BY <1>6, Zenon DEF StartLaidOut, At
    <2>2. \E to \in {"lane_exit", "scan", "map_lock"} : pc' = [pc EXCEPT ![t] = to]
        BY <1>6, StartControl, Zenon DEF StartLaidOut
    <2> QED
        BY <2>1, <2>2, LayoutFrame, Zenon DEF LayingOut
<1>7. ASSUME NEW t \in Threads, Scan(t) PROVE LayoutOnce'
    <2>1. pc[t] = "scan" /\ UNCHANGED <<media, layout, opening>>
        BY <1>7, Zenon DEF Scan, At
    <2>2. pc' = [pc EXCEPT ![t] = "scan"] \/ pc' = [pc EXCEPT ![t] = "write_begin"]
        <3>1. pc' = pc \/ pc' = [pc EXCEPT ![t] = "write_begin"]
            BY <1>7, Zenon DEF Scan, Goto
        <3> QED
            BY <2>1, <3>1, Zenon DEF TypeOK
    <2> QED
        BY <2>1, <2>2, LayoutFrame, Zenon DEF LayingOut
<1>8. ASSUME NEW t \in Threads,
             WriteBegin(t) \/ WriteEnd(t) \/ MapLock(t) \/ FlogOld(t) \/ FlogNew(t)
                \/ MapStore(t) \/ MapUnlock(t)
      PROVE LayoutOnce'
    <2>1. /\ pc[t] \in Changing
          /\ UNCHANGED <<laidout, info, pool, flognum, is_zeroed>>
        BY <1>8, Zenon DEF WriteBegin, WriteEnd, MapLock, FlogOld, FlogNew, MapStore, MapUnlock, At,
                    Changing, ForWrites, MapHeld
    <2>2. \E to \in Changing \cup {"lane_exit"} : pc' = [pc EXCEPT ![t] = to]
        BY <1>8, Zenon DEF WriteBegin, WriteEnd, MapLock, FlogOld, FlogNew, MapStore, MapUnlock, Goto,
                    Changing, ForWrites, MapHeld
    <2>3. laidout
        BY <2>1, Zenon DEF Control
    <2> QED
        BY <2>1, <2>2, <2>3, LayoutFrame, Zenon DEF LayingOut, Changing, ForWrites, MapHeld
<1>9. CASE Crash
    <2>1. /\ \A u \in Threads : pc'[u] = "idle"
          /\ laidout' = FALSE /\ pool' = "closed" /\ flognum' = 0 /\ mapped' = map'
          /\ UNCHANGED <<is_zeroed, info, flog>>
        BY <1>9, Zenon DEF Crash, RuntimeGone
    <2>2. ~info => map' = map
        <3> SUFFICES ASSUME ~info PROVE map' = map
            OBVIOUS
        <3>1. mapped = map
            BY Zenon DEF LayoutOnce
        <3>2. PICK S \in SUBSET {x \in Lbas : mapped[x] # map[x]} :
                  map' = [x \in Lbas |-> IF x \in S THEN mapped[x] ELSE map[x]]
            BY <1>9, Zenon DEF Crash
        <3>3. map' = [x \in Lbas |-> map[x]]
            BY <3>1, <3>2, Zenon
        <3> QED
            BY <3>3, Zenon DEF TypeOK
    <2> QED
        BY <2>1, <2>2, Zenon DEF LayoutOnce, LayingOut
<1>10. CASE Close
    <2>1. /\ \A u \in Threads : pc'[u] = "idle"
          /\ laidout' = FALSE /\ pool' = "closed" /\ flognum' = 0
          /\ UNCHANGED media
        BY <1>10, Zenon DEF Close, RuntimeGone
    <2> QED
        BY <2>1, Zenon DEF LayoutOnce, LayingOut
<1>11. CASE Open
    <2>1. /\ pool = "closed" /\ pool' = IF info THEN "opening" ELSE "open"
          /\ UNCHANGED <<media, layout, flognum, pc>>
        BY <1>11, Zenon DEF Open
    <2> QED
        BY <2>1, Sizes, Zenon DEF LayoutOnce
<1>12. CASE ReadFlogPair
    <2>1. /\ pool = "opening" /\ flognum' = flognum + 1
          /\ pool' = IF flognum' = nfree THEN "open" ELSE pool
          /\ laidout' = (flognum' = nfree)
          /\ UNCHANGED <<is_zeroed, info, flog, pc>>
        BY <1>12, Zenon DEF ReadFlogPair
    <2>2. info /\ flognum < nfree /\ flognum \in Nat
        BY <2>1, SMTT(30) DEF LayoutOnce, TypeOK
    <2>3. \A u \in Threads : pc'[u] = "idle"
        BY <2>1, Zenon DEF Control
    <2>4. \/ laidout' /\ pool' = "open"
          \/ ~laidout' /\ pool' = "opening" /\ flognum' < nfree
        <3>1. CASE flognum' = nfree
            BY <2>1, <3>1, Zenon
        <3>2. CASE flognum' # nfree
            <4>1. flognum' < nfree
                BY <2>1, <2>2, <3>2, Sizes, SMTT(30)
            <4>2. pool' = "opening" /\ laidout' = FALSE
                BY <2>1, <3>2, Zenon
            <4> QED
                BY <4>1, <4>2, Zenon
        <3> QED
            BY <3>1, <3>2, Zenon
    <2> QED
        BY <2>1, <2>2, <2>3, <2>4, Zenon DEF LayoutOnce, LayingOut
<1>13. CASE UNCHANGED vars
    BY <1>13, Zenon DEF LayoutOnce, vars
<1> QED
    BY <1>1, <1>2, <1>3, <1>4, <1>5, <1>6, <1>7, <1>8, <1>9, <1>10, <1>11, <1>12, <1>13, Zenon
       DEF Next, Step

-----------------------------------------------------------------------------
(* The flogs                                                               *)

\* A pair with different sequence numbers has a current entry, btt_flog_get_valid
\* finds it, and its sequence number is not 0.
LEMMA PairReadable ==
    ASSUME NEW p \in [0 .. 1 -> Flogs], p[0].seq # p[1].seq
    PROVE  /\ btt_flog_get_valid(p) \in 0 .. 1
           /\ p[btt_flog_get_valid(p)].seq \in 1 .. 3
BY SMTT(30) DEF btt_flog_get_valid, Flogs, Nseq

\* The entry that is not current can be changed, its sequence number excepted.
LEMMA PairPrepared ==
    ASSUME NEW p \in [0 .. 1 -> Flogs], NEW q \in [0 .. 1 -> Flogs], NEW k \in 0 .. 1,
           p[0].seq # p[1].seq, k = btt_flog_get_valid(p),
           q[k] = p[k], q[1 - k].seq = p[1 - k].seq
    PROVE  q[0].seq # q[1].seq /\ btt_flog_get_valid(q) = k
<1>1. q[0].seq = p[0].seq /\ q[1].seq = p[1].seq
    BY SMTT(30) DEF Flogs
<1> QED
    BY <1>1, Zenon DEF btt_flog_get_valid

\* With the next sequence number the other entry becomes the current one.
LEMMA PairAdvanced ==
    ASSUME NEW p \in [0 .. 1 -> Flogs], NEW q \in [0 .. 1 -> Flogs], NEW k \in 0 .. 1,
           p[0].seq # p[1].seq, k = btt_flog_get_valid(p),
           q[k] = p[k], q[1 - k].seq = Nseq[p[k].seq]
    PROVE  q[0].seq # q[1].seq /\ btt_flog_get_valid(q) = 1 - k
<1>1. p[k].seq \in 1 .. 3 /\ q[k].seq = p[k].seq
    BY PairReadable, Zenon
<1>2. Nseq[1] = 2 /\ Nseq[2] = 3 /\ Nseq[3] = 1
    BY SMTT(30) DEF Nseq
<1>3. CASE k = 0
    BY <1>1, <1>2, <1>3, SMTT(30) DEF btt_flog_get_valid
<1>4. CASE k = 1
    BY <1>1, <1>2, <1>4, SMTT(30) DEF btt_flog_get_valid
<1> QED
    BY <1>3, <1>4, SMTT(30)

\* A flog is given by its fields.
LEMMA FlogFields ==
    ASSUME NEW f \in Flogs, NEW g \in Flogs, f.lba = g.lba, f.old_map = g.old_map,
           f.new_map = g.new_map, f.seq = g.seq
    PROVE  f = g
BY SMTT(30) DEF Flogs

\* What is loaded from a pair is its current entry.
LEMMA LoadedCurrent ==
    ASSUME TypeOK, FlogsCurrent, info, NEW l \in Lanes
    PROVE  /\ btt_flog_get_valid(flog[l]) \in 0 .. 1
           /\ Loaded(l) = flog[l][btt_flog_get_valid(flog[l])]
           /\ LoadedNext(l) = 1 - btt_flog_get_valid(flog[l])
           /\ Loaded(l).seq \in 1 .. 3
<1>1. flog[l] \in [0 .. 1 -> Flogs] /\ flog[l][0].seq # flog[l][1].seq
    BY Zenon DEF TypeOK, FlogsCurrent
<1> QED
    BY <1>1, PairReadable, SMTT(30) DEF Loaded, LoadedNext

\* FlogOld leaves what is loaded alone.
LEMMA FlogOldLoads ==
    ASSUME TypeOK, Control, LayoutOnce, FlogsCurrent, NEW t \in Threads, FlogOld(t)
    PROVE  /\ \A l \in Lanes : Loaded(l)' = Loaded(l) /\ LoadedNext(l)' = LoadedNext(l)
           /\ \A l \in Lanes : flog'[l][0].seq # flog'[l][1].seq
<1>0. PICK m \in Lanes : m = lane[t]
    BY LanesInUse, Zenon DEF TypeOK
<1> DEFINE k == btt_flog_get_valid(flog[m])
<1>1. pc[t] = "flog_old" /\ laidout /\ info
    BY Zenon DEF FlogOld, At, Control, Changing, ForWrites, LayoutOnce
<1>3. k \in 0 .. 1 /\ next[m] = 1 - k
    BY <1>1, LoadedCurrent, Zenon DEF FlogsCurrent
<1>4. flog[m] \in [0 .. 1 -> Flogs] /\ flog[m][0].seq # flog[m][1].seq
    BY <1>1, Zenon DEF TypeOK, FlogsCurrent
<1>5. flog'[m] = [flog[m] EXCEPT ![1 - k].lba = request[t].lba,
                                 ![1 - k].old_map = old_entry[t]]
    BY <1>0, <1>3, <1>4, Zenon DEF FlogOld, TypeOK
<1>6. request[t].lba \in Lbas /\ old_entry[t] \in Entries
    BY <1>1, Zenon DEF Control, Requests, TypeOK
<1> HIDE DEF k
<1>7. /\ flog'[m] \in [0 .. 1 -> Flogs] /\ flog'[m][k] = flog[m][k]
      /\ flog'[m][1 - k].seq = flog[m][1 - k].seq
    BY <1>3, <1>4, <1>5, <1>6, SMTT(30) DEF Flogs
<1>8. flog'[m][0].seq # flog'[m][1].seq /\ btt_flog_get_valid(flog'[m]) = k
    BY <1>3, <1>4, <1>7, PairPrepared, Zenon DEF k
<1>9. \A l \in Lanes : l # m => flog'[l] = flog[l]
    BY <1>0, Zenon DEF FlogOld, TypeOK
<1>10. Loaded(m)' = Loaded(m) /\ LoadedNext(m)' = LoadedNext(m)
    BY <1>3, <1>7, <1>8, Zenon DEF Loaded, LoadedNext, k
<1>11. \A l \in Lanes : l # m => Loaded(l)' = Loaded(l) /\ LoadedNext(l)' = LoadedNext(l)
    BY <1>9, Zenon DEF Loaded, LoadedNext
<1> QED
    BY <1>1, <1>8, <1>9, <1>10, <1>11, Zenon DEF FlogsCurrent

\* FlogNew makes the entry of the update current, in the lane of the thread.
LEMMA FlogNewLoads ==
    ASSUME TypeOK, Control, LayoutOnce, FlogsCurrent, NEW t \in Threads, FlogNew(t)
    PROVE  /\ Loaded(lane[t])' = [lba |-> request[t].lba, old_map |-> old_entry[t],
                                  new_map |-> entry[t], seq |-> Nseq[Loaded(lane[t]).seq]]
           /\ LoadedNext(lane[t])' = 1 - LoadedNext(lane[t])
           /\ \A l \in Lanes : l # lane[t] =>
                 flog'[l] = flog[l] /\ Loaded(l)' = Loaded(l) /\ LoadedNext(l)' = LoadedNext(l)
           /\ \A l \in Lanes : flog'[l][0].seq # flog'[l][1].seq
<1>0. PICK m \in Lanes : m = lane[t]
    BY LanesInUse, Zenon DEF TypeOK
<1> DEFINE k == btt_flog_get_valid(flog[m])
           seq == Nseq[Loaded(m).seq]
<1>1. pc[t] = "flog_new" /\ laidout /\ info
    BY Zenon DEF FlogNew, At, Control, Changing, ForWrites, LayoutOnce
<1>3. k \in 0 .. 1 /\ next[m] = 1 - k /\ Loaded(m) = flog[m][k] /\ current[m] = Loaded(m)
        /\ Loaded(m).seq \in 1 .. 3 /\ LoadedNext(m) = 1 - k
    BY <1>1, LoadedCurrent, Zenon DEF FlogsCurrent
<1>4. flog[m] \in [0 .. 1 -> Flogs] /\ flog[m][0].seq # flog[m][1].seq
    BY <1>1, Zenon DEF TypeOK, FlogsCurrent
<1>5. flog'[m] = [flog[m] EXCEPT ![1 - k].new_map = entry[t], ![1 - k].seq = seq]
    BY <1>0, <1>3, <1>4, Zenon DEF FlogNew, TypeOK
<1>6. entry[t] \in Entries /\ seq \in 0 .. 3
    BY <1>3, SMTT(30) DEF TypeOK, Nseq
<1>7. flog[m][1 - k].lba = request[t].lba /\ flog[m][1 - k].old_map = old_entry[t]
    BY <1>0, <1>1, <1>3, Zenon DEF FlogsCurrent
<1> HIDE DEF k, seq
<1>8. /\ flog'[m] \in [0 .. 1 -> Flogs] /\ flog'[m][k] = flog[m][k]
      /\ flog'[m][1 - k] = [lba |-> request[t].lba, old_map |-> old_entry[t],
                            new_map |-> entry[t], seq |-> seq]
    <2> DEFINE r == flog[m][1 - k]
    <2>1. r \in Flogs /\ flog[m][k] \in Flogs
        BY <1>3, <1>4, SMTT(30)
    <2>2. [r EXCEPT !.new_map = entry[t], !.seq = seq] \in Flogs
        BY <1>6, <2>1, Zenon DEF Flogs
    <2>3. [r EXCEPT !.new_map = entry[t], !.seq = seq] =
             [lba |-> request[t].lba, old_map |-> old_entry[t], new_map |-> entry[t], seq |-> seq]
        <3> DEFINE f == [r EXCEPT !.new_map = entry[t], !.seq = seq]
                   g == [lba |-> r.lba, old_map |-> r.old_map, new_map |-> entry[t],
                         seq |-> seq]
        <3>1. g \in Flogs
            BY <1>6, <2>1, Zenon DEF Flogs
        <3>2. f.lba = g.lba /\ f.old_map = g.old_map /\ f.new_map = g.new_map /\ f.seq = g.seq
            BY <2>1, Zenon DEF Flogs
        <3> HIDE DEF f, g
        <3>3. f = g
            BY <2>2, <3>1, <3>2, FlogFields, Zenon DEF f
        <3> QED
            BY <1>7, <3>3, Zenon DEF f, g
    <2>4. flog'[m] = [flog[m] EXCEPT ![1 - k] = [r EXCEPT !.new_map = entry[t], !.seq = seq]]
        BY <1>3, <1>4, <1>5, Zenon
    <2> QED
        BY <1>3, <1>4, <2>2, <2>3, <2>4, SMTT(30)
<1>9. flog'[m][0].seq # flog'[m][1].seq /\ btt_flog_get_valid(flog'[m]) = 1 - k
    <2>1. flog'[m][1 - k].seq = Nseq[flog[m][k].seq]
        BY <1>3, <1>8, SMTT(30) DEF seq
    <2> QED
        BY <1>3, <1>4, <1>8, <2>1, PairAdvanced, Zenon DEF k
<1>10. \A l \in Lanes : l # m => flog'[l] = flog[l]
    BY <1>0, Zenon DEF FlogNew, TypeOK
<1>11. Loaded(m)' = flog'[m][1 - k] /\ LoadedNext(m)' = 1 - LoadedNext(m)
    BY <1>3, <1>9, SMTT(30) DEF Loaded, LoadedNext
<1>12. \A l \in Lanes : l # m => Loaded(l)' = Loaded(l) /\ LoadedNext(l)' = LoadedNext(l)
    BY <1>10, Zenon DEF Loaded, LoadedNext
<1>13. \A l \in Lanes : flog'[l][0].seq # flog'[l][1].seq
    BY <1>1, <1>9, <1>10, Zenon DEF FlogsCurrent
<1>14. lane' = lane
    BY Zenon DEF FlogNew, locals
<1> QED
    BY <1>0, <1>8, <1>10, <1>11, <1>12, <1>13, <1>14, Zenon DEF seq

\* The arena of a new pool is in no error state.
LEMMA InitFlogs == Init => FlogsCurrent
BY Zenon DEF Init, FlogsCurrent

\* A step that leaves the flogs alone, and brings no thread to the second part of
\* flog_update.
LEMMA FlogFrame ==
    ASSUME FlogsCurrent, UNCHANGED <<info, flags, laidout, pool, flognum, flog, current, next>>,
           \A u \in Threads : pc'[u] = "flog_new" =>
               /\ pc[u] = "flog_new" /\ lane'[u] = lane[u]
               /\ request'[u] = request[u] /\ old_entry'[u] = old_entry[u]
    PROVE  FlogsCurrent'
<1>1. \A l \in Lanes : Loaded(l)' = Loaded(l) /\ LoadedNext(l)' = LoadedNext(l)
    BY Zenon DEF Loaded, LoadedNext
<1> QED
    BY <1>1, Zenon DEF FlogsCurrent

\* Every step keeps the flogs current.
LEMMA NextFlogs ==
    ASSUME TypeOK, Control, LayoutOnce, FlogsCurrent, [Next]_vars
    PROVE  FlogsCurrent'
<1>0. DOMAIN pc = Threads /\ DOMAIN lane = Threads /\ DOMAIN request = Threads
        /\ DOMAIN old_entry = Threads
    BY Zenon DEF TypeOK
<1> USE DEF media, layout, opening, lanes, flogs, locals, bounds
<1>1. ASSUME NEW t \in Threads, Call(t) \/ lane_exit(t) PROVE FlogsCurrent'
    <2>1. /\ \E to \in {"lane_enter", "idle"} : pc' = [pc EXCEPT ![t] = to]
          /\ UNCHANGED <<media, layout, opening, flogs, old_entry>>
          /\ \A u \in Threads : u # t => lane'[u] = lane[u] /\ request'[u] = request[u]
        BY <1>0, <1>1, Zenon DEF Call, lane_exit, Goto
    <2> QED
        BY <1>0, <2>1, FlogFrame, Zenon
<1>2. ASSUME NEW t \in Threads, lane_enter(t) PROVE FlogsCurrent'
    <2>1. UNCHANGED <<media, layout, opening, flogs, request, lane, old_entry>>
        BY <1>2, Zenon DEF lane_enter
    <2>2. \E to \in {"set_rtt", "lane_exit", "layout_lock", "scan", "map_lock"} :
              pc' = [pc EXCEPT ![t] = to]
        BY <1>2, StartControl, Zenon DEF lane_enter, EnterRead, EnterChange, ReadWith, Goto
    <2> QED
        BY <1>0, <2>1, <2>2, FlogFrame, Zenon
<1>3. ASSUME NEW t \in Threads, SetRtt(t) \/ Reread(t) \/ ReadBegin(t) \/ ReadEnd(t)
      PROVE FlogsCurrent'
    <2>1. /\ UNCHANGED <<media, layout, opening, flogs, request, lane, old_entry>>
          /\ \E to \in Reading \cup {"lane_exit"} : pc' = [pc EXCEPT ![t] = to]
        BY <1>3, Zenon DEF SetRtt, Reread, ReadBegin, ReadEnd, ReadWith, Goto, Reading
    <2> QED
        BY <1>0, <2>1, FlogFrame, Zenon DEF Reading
<1>4. ASSUME NEW t \in Threads, LayoutLock(t) \/ StartLaidOut(t) PROVE FlogsCurrent'
    <2>1. UNCHANGED <<media, laidout, flags, opening, flogs, request, lane, old_entry>>
        BY <1>4, Zenon DEF LayoutLock, StartLaidOut
    <2>2. \E to \in {"lane_exit", "scan", "map_lock", "zero_map"} :
              pc' = [pc EXCEPT ![t] = to]
        BY <1>4, StartControl, Zenon DEF LayoutLock, StartLaidOut, Goto
    <2> QED
        BY <1>0, <2>1, <2>2, FlogFrame, Zenon
<1>5. ASSUME NEW t \in Threads, ZeroMap(t) PROVE FlogsCurrent'
    <2>1. /\ UNCHANGED <<info, flog, layout, opening, flogs, request, lane, old_entry>>
          /\ pc' = [pc EXCEPT ![t] = "write_flogs"]
        BY <1>5, Zenon DEF ZeroMap, Goto
    <2> QED
        BY <1>0, <2>1, FlogFrame, Zenon
<1>6. ASSUME NEW t \in Threads, WriteFlogs(t) \/ WriteInfo(t) PROVE FlogsCurrent'
    <2>1. /\ UNCHANGED <<layout, opening, flogs, request, lane, old_entry>> /\ pool = "open"
          /\ \E to \in {"write_info", "read_arenas"} : pc' = [pc EXCEPT ![t] = to]
          /\ pc[t] \in {"write_flogs", "write_info"}
        BY <1>6, Zenon DEF WriteFlogs, WriteInfo, Goto, At
    <2>2. ~laidout
        BY <2>1, Zenon DEF LayoutOnce, LayingOut
    <2>3. \A u \in Threads : pc'[u] # "flog_new"
        BY <1>0, <2>1, <2>2, Zenon DEF Control, Changing, ForWrites
    <2>4. info' => \A l \in Lanes : flog'[l][0].seq # flog'[l][1].seq
        <3>1. CASE WriteFlogs(t)
            BY <2>1, <3>1, Zenon DEF WriteFlogs, LayoutOnce, LayingOut, At
        <3>2. CASE WriteInfo(t)
            <4>1. flog' = flog /\ \A l \in Lanes :
                      flog[l] = [k \in 0 .. 1 |-> IF k = 0 THEN InitialFlog(l) ELSE Zflog]
                BY <3>2, Zenon DEF WriteInfo, At, LayoutOnce, LayingOut
            <4>2. ASSUME NEW l \in Lanes PROVE flog[l][0].seq # flog[l][1].seq
                <5>0. flog[l] = [k \in 0 .. 1 |-> IF k = 0 THEN InitialFlog(l) ELSE Zflog]
                    BY <4>1, Zenon
                <5>1. flog[l][0] = InitialFlog(l) /\ flog[l][1] = Zflog
                    BY <5>0, SMTT(30)
                <5> QED
                    BY <5>1, SMTT(30) DEF InitialFlog, Zflog
            <4> QED
                BY <4>1, <4>2, Zenon
        <3> QED
            BY <1>6, <3>1, <3>2, Zenon
    <2> QED
        BY <2>1, <2>2, <2>3, <2>4, Zenon DEF FlogsCurrent
<1>7. ASSUME NEW t \in Threads, ReadArenas(t) PROVE FlogsCurrent'
    <2>1. /\ UNCHANGED <<media, opening, request, lane, old_entry>> /\ pool = "open"
          /\ pc[t] = "read_arenas" /\ pc' = [pc EXCEPT ![t] = "start"]
          /\ current' = [l \in Lanes |-> Loaded(l)]
          /\ next' = [l \in Lanes |-> LoadedNext(l)]
          /\ flags' = \E l \in Lanes : btt_flog_get_valid(flog[l]) = 2
        BY <1>7, Zenon DEF ReadArenas, At, Goto
    <2>2. info
        BY <2>1, Zenon DEF LayoutOnce, LayingOut
    <2>3. \A l \in Lanes : btt_flog_get_valid(flog[l]) # 2
        BY <2>2, LoadedCurrent, SMTT(30)
    <2>4. \A l \in Lanes : Loaded(l)' = Loaded(l) /\ LoadedNext(l)' = LoadedNext(l)
        BY <2>1, Zenon DEF Loaded, LoadedNext
    <2>5. ~flags'
        BY <2>1, <2>3, Zenon
    <2>6. \A u \in Threads : pc'[u] = "flog_new" => pc[u] = "flog_new"
        BY <1>0, <2>1, Zenon
    <2>7. \A u \in Threads : pc'[u] # "flog_new"
        BY <2>1, <2>6, Zenon DEF LayoutOnce, LayingOut, Control, Changing, ForWrites
    <2> QED
        BY <2>1, <2>4, <2>5, <2>7, Zenon DEF FlogsCurrent
<1>8. ASSUME NEW t \in Threads, Scan(t) \/ WriteBegin(t) \/ WriteEnd(t) PROVE FlogsCurrent'
    <2>1. /\ UNCHANGED <<info, flog, layout, opening, flogs, request, lane, old_entry>>
          /\ pc' = pc \/ \E to \in {"write_begin", "write_end", "map_lock"} :
                             pc' = [pc EXCEPT ![t] = to]
        BY <1>8, Zenon DEF Scan, WriteBegin, WriteEnd, Goto
    <2> QED
        BY <1>0, <2>1, FlogFrame, Zenon
<1>9. ASSUME NEW t \in Threads, MapLock(t) PROVE FlogsCurrent'
    <2>1. /\ UNCHANGED <<media, layout, opening, flogs, request, lane>>
          /\ \E to \in {"lane_exit", "flog_old", "map_store"} : pc' = [pc EXCEPT ![t] = to]
          /\ \A u \in Threads : u # t => old_entry'[u] = old_entry[u]
        BY <1>0, <1>9, Zenon DEF MapLock, Goto
    <2> QED
        BY <1>0, <2>1, FlogFrame, Zenon
<1>10. ASSUME NEW t \in Threads, FlogOld(t) PROVE FlogsCurrent'
    <2>1. /\ UNCHANGED <<info, layout, opening, flogs, request, lane, old_entry>> /\ pool = "open"
          /\ pc[t] = "flog_old" /\ pc' = [pc EXCEPT ![t] = "flog_new"]
        BY <1>10, Zenon DEF FlogOld, At, Goto
    <2>2. /\ \A l \in Lanes : Loaded(l)' = Loaded(l) /\ LoadedNext(l)' = LoadedNext(l)
          /\ \A l \in Lanes : flog'[l][0].seq # flog'[l][1].seq
        BY <1>10, FlogOldLoads, Zenon
    <2>3. lane[t] \in Lanes /\ next[lane[t]] \in 0 .. 1
        BY LanesInUse, Zenon DEF TypeOK
    <2>4. /\ flog'[lane[t]][next[lane[t]]].lba = request[t].lba
          /\ flog'[lane[t]][next[lane[t]]].old_map = old_entry[t]
        <3> DEFINE r == flog[lane[t]][next[lane[t]]]
        <3>1. flog[lane[t]] \in [0 .. 1 -> Flogs] /\ r \in Flogs
            BY <2>3, SMTT(30) DEF TypeOK
        <3>2. flog'[lane[t]][next[lane[t]]]
                 = [r EXCEPT !.lba = request[t].lba, !.old_map = old_entry[t]]
            BY <1>10, <2>3, <3>1, Zenon DEF FlogOld, TypeOK
        <3> QED
            BY <3>1, <3>2, Zenon DEF Flogs
    <2>5. ASSUME NEW u \in Threads, pc'[u] = "flog_new"
          PROVE  /\ flog'[lane'[u]][next'[lane'[u]]].lba = request'[u].lba
                 /\ flog'[lane'[u]][next'[lane'[u]]].old_map = old_entry'[u]
        <3>1. CASE u = t
            BY <2>1, <2>4, <3>1, Zenon
        <3>2. CASE u # t
            <4>1. pc[u] = "flog_new"
                BY <1>0, <2>1, <2>5, <3>2, Zenon
            <4>2. lane[u] # lane[t] /\ lane[u] \in Lanes
                BY <2>1, <3>2, <4>1, LanesInUse, ZenonT(30) DEF Control, TypeOK
            <4>3. flog'[lane[u]] = flog[lane[u]]
                BY <1>10, <2>3, <4>2, Zenon DEF FlogOld, TypeOK
            <4> QED
                BY <2>1, <4>1, <4>3, Zenon DEF FlogsCurrent
        <3> QED
            BY <3>1, <3>2, Zenon
    <2>6. laidout' => \A l \in Lanes : current'[l] = Loaded(l)' /\ next'[l] = LoadedNext(l)'
        BY <2>1, <2>2, Zenon DEF FlogsCurrent, layout, flogs
    <2>7. ~flags' /\ pool' # "opening"
        BY <2>1, Zenon DEF FlogsCurrent, layout, opening
    <2> QED
        BY <2>2, <2>5, <2>6, <2>7, Zenon DEF FlogsCurrent
<1>11. ASSUME NEW t \in Threads, FlogNew(t) PROVE FlogsCurrent'
    <2>1. /\ UNCHANGED <<info, layout, opening, request, lane, old_entry>> /\ pool = "open"
          /\ pc[t] = "flog_new" /\ pc' = [pc EXCEPT ![t] = "map_store"]
          /\ current' = [current EXCEPT ![lane[t]] =
                 [lba |-> request[t].lba, old_map |-> old_entry[t], new_map |-> entry[t],
                  seq |-> Nseq[current[lane[t]].seq]]]
          /\ next' = [next EXCEPT ![lane[t]] = 1 - next[lane[t]]]
        BY <1>11, Zenon DEF FlogNew, At, Goto
    <2>2. lane[t] \in Lanes /\ DOMAIN current = Lanes /\ DOMAIN next = Lanes
        BY LanesInUse, Zenon DEF TypeOK
    <2>3. laidout
        BY <2>1, Zenon DEF Control, Changing, ForWrites
    <2>4. current[lane[t]] = Loaded(lane[t]) /\ next[lane[t]] = LoadedNext(lane[t])
        BY <2>2, <2>3, Zenon DEF FlogsCurrent
    <2>5. current'[lane[t]] = Loaded(lane[t])' /\ next'[lane[t]] = LoadedNext(lane[t])'
        BY <1>11, <2>1, <2>2, <2>4, FlogNewLoads, Zenon
    <2>6. \A l \in Lanes : l # lane[t] =>
              /\ flog'[l] = flog[l]
              /\ current'[l] = Loaded(l)' /\ next'[l] = LoadedNext(l)'
              /\ next'[l] = next[l]
        BY <1>11, <2>1, <2>2, <2>3, FlogNewLoads, ZenonT(30) DEF FlogsCurrent
    <2>7. ASSUME NEW l \in Lanes
          PROVE  current'[l] = Loaded(l)' /\ next'[l] = LoadedNext(l)'
        BY <2>1, <2>5, <2>6, Zenon
    <2>8. ASSUME NEW u \in Threads, pc'[u] = "flog_new"
          PROVE  /\ flog'[lane'[u]][next'[lane'[u]]].lba = request'[u].lba
                 /\ flog'[lane'[u]][next'[lane'[u]]].old_map = old_entry'[u]
        <3>1. pc[u] = "flog_new" /\ u # t
            BY <1>0, <2>1, <2>8, Zenon
        <3>2. lane[u] # lane[t] /\ lane[u] \in Lanes
            BY <2>1, <3>1, LanesInUse, Zenon DEF Control, TypeOK
        <3>3. /\ flog[lane[u]][next[lane[u]]].lba = request[u].lba
              /\ flog[lane[u]][next[lane[u]]].old_map = old_entry[u]
            BY <3>1, Zenon DEF FlogsCurrent
        <3>4. flog'[lane[u]] = flog[lane[u]] /\ next'[lane[u]] = next[lane[u]]
            BY <2>6, <3>2, Zenon
        <3> QED
            BY <2>1, <3>3, <3>4, Zenon
    <2>9. \A l \in Lanes : flog'[l][0].seq # flog'[l][1].seq
        BY <1>11, FlogNewLoads, Zenon
    <2> QED
        BY <2>1, <2>7, <2>8, <2>9, Zenon DEF FlogsCurrent
<1>12. ASSUME NEW t \in Threads, MapStore(t) \/ MapUnlock(t) PROVE FlogsCurrent'
    <2>1. /\ UNCHANGED <<info, flog, layout, opening, flogs, request, lane, old_entry>>
          /\ \E to \in {"map_unlock", "lane_exit"} : pc' = [pc EXCEPT ![t] = to]
        BY <1>12, Zenon DEF MapStore, MapUnlock, Goto
    <2> QED
        BY <1>0, <2>1, FlogFrame, Zenon
<1>13. CASE Crash \/ Close
    <2>1. /\ \A u \in Threads : pc'[u] = "idle"
          /\ laidout' = FALSE /\ flags' = FALSE /\ pool' = "closed"
          /\ UNCHANGED <<info, flog>>
        BY <1>13, Zenon DEF Crash, Close, RuntimeGone
    <2> QED
        BY <2>1, Zenon DEF FlogsCurrent
<1>14. CASE Open
    <2>1. /\ pool = "closed" /\ UNCHANGED <<media, layout, flogs, flognum, pc, locals>>
        BY <1>14, Zenon DEF Open
    <2>2. flognum = 0 /\ ~laidout
        BY <2>1, Zenon DEF LayoutOnce
    <2>3. \A u \in Threads : pc[u] # "flog_new"
        BY <2>1, Zenon DEF Control
    <2>4. \A l \in Lanes : ~(l < flognum)
        BY <2>2, Sizes, SMT DEF Lanes
    <2> QED
        BY <2>1, <2>2, <2>3, <2>4, Zenon DEF FlogsCurrent, media, layout, flogs, locals
<1>15. CASE ReadFlogPair
    <2>1. /\ pool = "opening" /\ flognum' = flognum + 1
          /\ laidout' = (flognum' = nfree)
          /\ current' = [current EXCEPT ![flognum] = Loaded(flognum)]
          /\ next' = [next EXCEPT ![flognum] = LoadedNext(flognum)]
          /\ flags' = (flags \/ btt_flog_get_valid(flog[flognum]) = 2)
          /\ UNCHANGED <<info, flog, pc>>
        BY <1>15, Zenon DEF ReadFlogPair
    <2>2. info /\ flognum \in Lanes
        <3>1. info /\ flognum < nfree /\ flognum \in 0 .. nfree
            BY <2>1, Zenon DEF LayoutOnce, TypeOK
        <3> QED
            BY <3>1, Sizes, SMTT(30) DEF Lanes
    <2>3. ~flags'
        <3>1. btt_flog_get_valid(flog[flognum]) # 2
            BY <2>2, LoadedCurrent, SMTT(30)
        <3> QED
            BY <2>1, <3>1, Zenon DEF FlogsCurrent
    <2>4. \A l \in Lanes : Loaded(l)' = Loaded(l) /\ LoadedNext(l)' = LoadedNext(l)
        BY <2>1, Zenon DEF Loaded, LoadedNext
    <2>5. \A l \in Lanes : l < flognum' => current'[l] = Loaded(l) /\ next'[l] = LoadedNext(l)
        <3> SUFFICES ASSUME NEW l \in Lanes, l < flognum + 1
                     PROVE  current'[l] = Loaded(l) /\ next'[l] = LoadedNext(l)
            BY <2>1, Zenon
        <3>1. CASE l = flognum
            BY <2>1, <3>1, Zenon DEF TypeOK
        <3>2. CASE l # flognum
            <4>1. l < flognum
                BY <2>2, <3>2, Sizes, SMTT(30) DEF Lanes
            <4> QED
                BY <2>1, <2>2, <3>2, <4>1, Zenon DEF TypeOK, FlogsCurrent
        <3> QED
            BY <3>1, <3>2, Zenon
    <2>6. laidout' => \A l \in Lanes : l < flognum'
        <3>1. laidout' => flognum' = nfree
            BY <2>1, Zenon
        <3> QED
            BY <3>1, Sizes, SMTT(30) DEF Lanes
    <2>7. \A u \in Threads : pc'[u] = "idle"
        BY <2>1, Zenon DEF Control
    <2> QED
        BY <2>1, <2>2, <2>3, <2>4, <2>5, <2>6, <2>7, ZenonT(30) DEF FlogsCurrent
<1>16. CASE UNCHANGED vars
    BY <1>16, FlogFrame, Zenon DEF vars
<1> QED
    BY <1>1, <1>2, <1>3, <1>4, <1>5, <1>6, <1>7, <1>8, <1>9, <1>10, <1>11, <1>12, <1>13,
       <1>14, <1>15, <1>16, Zenon DEF Next, Step
=============================================================================
