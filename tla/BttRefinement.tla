--------------------------- MODULE BttRefinement ---------------------------
(***************************************************************************)
(* The block translation table implements the block device: its initial    *)
(* states are initial states of the device, and every step is a step of    *)
(* the device or leaves what the device shows unchanged.                   *)
(***************************************************************************)
EXTENDS BttProofs

\* What the answer of a request rests on: a write has filled its block before it locks
\* the map entry, and a read has a consistent copy of a block.
Answer(t) ==
    /\ pc[t] = "idle" => request[t] = NoRequest
    /\ pc[t] \in Reading => request[t].op = "read"
    /\ pc[t] \in MapHeld \cup {"map_lock"} /\ request[t].op = "write" =>
          data[entry[t].block] = request[t].val
    /\ pc[t] \in Storing /\ request[t].op # "write" =>
          entry[t].flag = IF request[t].op = "set_zero" THEN "zero" ELSE "error"
    /\ pc[t] = "read_end" => buf[t] = data[entry[t].block]
    /\ pc[t] = "lane_exit" /\ request[t].op = "read" => buf[t] # NotYet

Answers == \A t \in Threads : Answer(t)

DeviceInv == BttInv /\ Answers

\* The rest of the invariant, as the lemmas of BttProofs use it.
LEMMA InvParts ==
    ASSUME BttInv
    PROVE  TypeOK /\ Control /\ LayoutOnce /\ FlogsCurrent /\ Accounts /\ InProgress /\ Tracking
BY Zenon DEF BttInv

\* The markers of a caller are no contents of a block.
LEMMA Markers ==
    /\ NotYet \notin Values \cup {Torn, Zero, Error} /\ NoRequest \notin Requests
BY BttAssumption, WorkloadAssumption, Zenon

-----------------------------------------------------------------------------
(* Answers                                                                 *)

\* The initial state has no requests.
LEMMA InitAnswers == Init => Answers
BY Zenon DEF Init, Answers, Answer, Reading, MapHeld, Storing

\* A step of t that leaves the blocks alone.
LEMMA OthersAnswer ==
    ASSUME Answers, NEW t \in Threads, Answer(t)', UNCHANGED data,
           \A u \in Threads : u # t =>
               /\ pc'[u] = pc[u] /\ request'[u] = request[u]
               /\ entry'[u] = entry[u] /\ buf'[u] = buf[u]
    PROVE  Answers'
<1> SUFFICES ASSUME NEW u \in Threads, u # t PROVE Answer(u)'
    BY Zenon DEF Answers
<1> QED
    BY SMTT(30) DEF Answers, Answer

\* A write fills no block that another write has filled or a read copies.
LEMMA FillsOwnBlock ==
    ASSUME BttInv, NEW t \in Threads, pc[t] \in {"write_begin", "write_end"},
           NEW u \in Threads, u # t
    PROVE  /\ pc[u] \in MapHeld \cup {"map_lock"} /\ request[u].op = "write" =>
                 entry[u].block # entry[t].block
           /\ pc[u] \in {"read_begin", "read_end"} => entry[u].block # entry[t].block
<1>0. TypeOK /\ Control /\ LayoutOnce /\ FlogsCurrent /\ Accounts /\ InProgress /\ Tracking
    BY InvParts, Zenon
<1>1. /\ pc[t] \in ForWrites /\ pc[t] \in Changing
      /\ pc[t] \notin {"idle", "lane_enter"} /\ request[t].op = "write"
    BY <1>0, Zenon DEF ForWrites, Changing, Control
<1>5. entry[t] = Normal(FreeBlock(lane[t])) /\ lane[t] \in Lanes /\ info
    BY <1>0, <1>1, LaneFree, ChangerTypes, Zenon
<1>2. entry[t].block = FreeBlock(lane[t]) /\ lane[t] \in Lanes /\ info
    BY <1>5, SMTT(30) DEF Normal
<1>3. ASSUME pc[u] \in MapHeld \cup {"map_lock"}, request[u].op = "write"
      PROVE  entry[u].block # entry[t].block
    <2>1. pc[u] \in Changing /\ pc[u] \notin {"idle", "lane_enter"}
        BY <1>3, Zenon DEF Changing, MapHeld
    <2>2. lane[u] \in Lanes /\ lane[u] # lane[t]
        BY <1>0, <1>1, <2>1, ChangerTypes, Exclusion, Zenon
    <2>3. entry[u].block = FreeBlock(lane[u])
        <3>1. CASE pc[u] \in Storing
            BY <1>0, <1>3, <3>1, StoringWrite, Zenon
        <3>2. CASE pc[u] \notin Storing
            <4>1. pc[u] \in ForWrites \cup {"map_lock"}
                BY <1>3, <3>2, Zenon DEF ForWrites, MapHeld, Storing
            <4>2. entry[u] = Normal(FreeBlock(lane[u]))
                BY <1>0, <1>3, <4>1, LaneFree, Zenon
            <4> QED
                BY <4>2, SMTT(30) DEF Normal
        <3> QED
            BY <3>1, <3>2, Zenon
    <2> QED
        BY <1>0, <1>2, <2>2, <2>3, Zenon DEF Accounts, BlocksAccounted
<1>4. pc[u] \in {"read_begin", "read_end"} => entry[u].block # entry[t].block
    BY <1>0, Zenon DEF Tracking
<1> QED
    BY <1>3, <1>4, Zenon

\* Every step keeps the answers right.
LEMMA NextAnswers ==
    ASSUME BttInv, Answers, [Next]_vars
    PROVE  Answers'
<1>0. TypeOK /\ Control /\ LayoutOnce /\ FlogsCurrent /\ Accounts /\ InProgress /\ Tracking
    BY InvParts, Zenon
<1>1. /\ DOMAIN pc = Threads /\ DOMAIN request = Threads /\ DOMAIN entry = Threads
      /\ DOMAIN buf = Threads
    BY <1>0, Zenon DEF TypeOK
<1> USE DEF media, layout, opening, lanes, flogs, locals, bounds
<1>2. ASSUME NEW t \in Threads, Call(t) \/ lane_exit(t) PROVE Answers'
    <2>1. /\ UNCHANGED <<data, entry>>
          /\ \A u \in Threads : u # t =>
                 pc'[u] = pc[u] /\ request'[u] = request[u] /\ buf'[u] = buf[u]
        BY <1>1, <1>2, Zenon DEF Call, lane_exit, Goto
    <2>2. pc'[t] = "lane_enter" \/ (pc'[t] = "idle" /\ request'[t] = NoRequest)
        BY <1>1, <1>2, Zenon DEF Call, lane_exit, Goto
    <2>3. Answer(t)'
        BY <2>2, Zenon DEF Answer, Reading, MapHeld, Storing
    <2> QED
        BY <2>1, <2>3, OthersAnswer, Zenon
<1>3. ASSUME NEW t \in Threads, lane_enter(t) PROVE Answers'
    <2>1. UNCHANGED <<data, request>>
        BY <1>3, Zenon DEF lane_enter
    <2>2. CASE request[t].op = "read"
        <3>1. /\ \A u \in Threads : u # t =>
                    pc'[u] = pc[u] /\ entry'[u] = entry[u] /\ buf'[u] = buf[u]
              /\ \/ pc'[t] = "set_rtt"
                 \/ pc'[t] = "lane_exit" /\ buf'[t] \in {Zero, Error}
            BY <1>1, <1>3, <2>2, Zenon DEF lane_enter, EnterRead, ReadWith, Goto
        <3>2. Answer(t)'
            BY <2>1, <2>2, <3>1, Markers, Zenon DEF Answer, Reading, MapHeld, Storing
        <3> QED
            BY <2>1, <3>1, <3>2, OthersAnswer, Zenon
    <2>3. CASE request[t].op # "read"
        <3>1. /\ \A u \in Threads : u # t =>
                    pc'[u] = pc[u] /\ entry'[u] = entry[u] /\ buf'[u] = buf[u]
              /\ pc'[t] \in {"scan", "lane_exit", "layout_lock", "map_lock"}
              /\ pc'[t] = "map_lock" => request[t].op # "write"
            BY <1>1, <1>3, <2>3, Zenon DEF lane_enter, EnterChange, Start, Goto
        <3>2. Answer(t)'
            BY <2>1, <2>3, <3>1, Zenon DEF Answer, Reading, MapHeld, Storing
        <3> QED
            BY <2>1, <3>1, <3>2, OthersAnswer, Zenon
    <2> QED
        BY <2>2, <2>3, Zenon
<1>4. ASSUME NEW t \in Threads, SetRtt(t) \/ Reread(t) \/ ReadBegin(t) \/ ReadEnd(t)
      PROVE  Answers'
    <2>1. /\ UNCHANGED <<data, request>> /\ pc[t] \in Reading
          /\ \A u \in Threads : u # t =>
                 pc'[u] = pc[u] /\ entry'[u] = entry[u] /\ buf'[u] = buf[u]
        BY <1>1, <1>4, Zenon DEF SetRtt, Reread, ReadBegin, ReadEnd, ReadWith, Goto, At, Reading
    <2>2. pc'[t] \in Reading \cup {"lane_exit"}
        BY <1>1, <1>4, Zenon DEF SetRtt, Reread, ReadBegin, ReadEnd, ReadWith, Goto, At, Reading
    <2>3. request[t].op = "read"
        BY <2>1, Zenon DEF Answers, Answer
    <2>4. pc'[t] = "read_end" => buf'[t] = data'[entry'[t].block]
        BY <1>1, <1>4, Zenon DEF SetRtt, Reread, ReadBegin, ReadEnd, ReadWith, Goto, At
    <2>5. pc'[t] = "lane_exit" => buf'[t] # NotYet
        <3>1. data[entry[t].block] \in Values \cup {Torn}
            BY <1>0, EntryTypes, Zenon DEF TypeOK
        <3> QED
            BY <1>1, <1>4, <3>1, Markers, Zenon
            DEF SetRtt, Reread, ReadBegin, ReadEnd, ReadWith, Goto, At
    <2>6. Answer(t)'
        BY <2>1, <2>2, <2>3, <2>4, <2>5, Zenon DEF Answer, Reading, MapHeld, Storing
    <2> QED
        BY <2>1, <2>6, OthersAnswer, Zenon
<1>5. ASSUME NEW t \in Threads, LayoutLock(t) \/ StartLaidOut(t) PROVE Answers'
    <2>1. /\ UNCHANGED <<data, request, buf>> /\ pc[t] \in {"layout_lock", "start"}
          /\ \A u \in Threads : u # t => pc'[u] = pc[u] /\ entry'[u] = entry[u]
        BY <1>1, <1>5, Zenon DEF LayoutLock, StartLaidOut, Start, Goto, At
    <2>2. /\ pc'[t] \in {"scan", "lane_exit", "zero_map", "map_lock"}
          /\ pc'[t] = "map_lock" => request[t].op # "write"
        BY <1>1, <1>5, Zenon DEF LayoutLock, StartLaidOut, Start, Goto
    <2>3. request[t].op # "read"
        BY <1>0, <2>1, Zenon DEF Control, Changing
    <2>4. Answer(t)'
        BY <2>1, <2>2, <2>3, Zenon DEF Answer, Reading, MapHeld, Storing
    <2> QED
        BY <2>1, <2>4, OthersAnswer, Zenon
<1>6. ASSUME NEW t \in Threads,
             ZeroMap(t) \/ WriteFlogs(t) \/ WriteInfo(t) \/ ReadArenas(t) \/ Scan(t)
      PROVE  Answers'
    <2>1. /\ UNCHANGED <<data, request, buf, entry>>
          /\ \A u \in Threads : u # t => pc'[u] = pc[u]
          /\ pc'[t] \in {"write_flogs", "write_info", "read_arenas", "start", "scan", "write_begin"}
        BY <1>1, <1>6, Zenon DEF ZeroMap, WriteFlogs, WriteInfo, ReadArenas, Scan, Goto, At
    <2>2. Answer(t)'
        BY <2>1, Zenon DEF Answer, Reading, MapHeld, Storing
    <2> QED
        BY <2>1, <2>2, OthersAnswer, Zenon
<1>7. ASSUME NEW t \in Threads, WriteBegin(t) \/ WriteEnd(t) PROVE Answers'
    <2>1. /\ UNCHANGED <<request, buf, entry>> /\ pc[t] \in {"write_begin", "write_end"}
          /\ \A u \in Threads : u # t => pc'[u] = pc[u]
          /\ \E v : data' = [data EXCEPT ![entry[t].block] = v]
          /\ pc'[t] = "write_end"
                \/ (pc'[t] = "map_lock" /\ data' = [data EXCEPT ![entry[t].block] = request[t].val])
        BY <1>1, <1>7, Zenon DEF WriteBegin, WriteEnd, Goto, At
    <2>2. entry[t].block \in Blocks /\ DOMAIN data = Blocks
        BY <1>0, EntryTypes, Zenon DEF TypeOK
    <2>3. Answer(t)'
        BY <2>1, <2>2, Zenon DEF Answer, Reading, MapHeld, Storing
    <2>4. ASSUME NEW u \in Threads, u # t PROVE Answer(u)'
        <3>1. entry[u].block # entry[t].block => data'[entry[u].block] = data[entry[u].block]
            <4>1. entry[u].block \in Blocks
                BY <1>0, EntryTypes, Zenon DEF TypeOK
            <4> QED
                BY <2>1, <2>2, <4>1, Zenon
        <3>2. /\ pc[u] \in MapHeld \cup {"map_lock"} /\ request[u].op = "write" =>
                    entry[u].block # entry[t].block
              /\ pc[u] \in {"read_begin", "read_end"} => entry[u].block # entry[t].block
            BY <2>1, <2>4, FillsOwnBlock, Zenon
        <3>3. Answer(u)
            BY Zenon DEF Answers
        <3> QED
            BY <2>1, <2>4, <3>1, <3>2, <3>3, Zenon DEF Answer
    <2> QED
        BY <2>3, <2>4, Zenon DEF Answers
<1>8. ASSUME NEW t \in Threads, MapLock(t) PROVE Answers'
    <2>1. /\ UNCHANGED <<data, request, buf>> /\ pc[t] = "map_lock"
          /\ \A u \in Threads : u # t => pc'[u] = pc[u] /\ entry'[u] = entry[u]
        BY <1>1, <1>8, Zenon DEF MapLock, Goto, At
    <2>2. /\ request[t].op = "write" => pc'[t] = "flog_old" /\ entry'[t] = entry[t]
          /\ request[t].op # "write" => pc'[t] \in {"lane_exit", "map_store"}
          /\ pc'[t] = "map_store" =>
                entry'[t].flag = IF request[t].op = "set_zero" THEN "zero" ELSE "error"
          /\ pc'[t] = "lane_exit" => request[t].op = "set_zero"
        BY <1>0, <1>8, MapLocked, Zenon
    <2>3. Answer(t)
        BY Zenon DEF Answers
    <2>4. Answer(t)'
        BY <2>1, <2>2, <2>3, Zenon DEF Answer, Reading, MapHeld, Storing
    <2> QED
        BY <2>1, <2>4, OthersAnswer, Zenon
<1>9. ASSUME NEW t \in Threads, FlogOld(t) \/ FlogNew(t) \/ MapStore(t) \/ MapUnlock(t)
      PROVE  Answers'
    <2>1. /\ UNCHANGED <<data, request, buf, entry>> /\ pc[t] \in MapHeld
          /\ \A u \in Threads : u # t => pc'[u] = pc[u]
          /\ pc'[t] \in MapHeld \cup {"lane_exit"}
          /\ pc'[t] \in Storing => pc[t] \in Storing \/ pc[t] = "flog_new"
        BY <1>1, <1>9, Zenon DEF FlogOld, FlogNew, MapStore, MapUnlock, Goto, At, MapHeld, Storing
    <2>2. request[t].op # "read" /\ (pc[t] = "flog_new" => request[t].op = "write")
        BY <1>0, <2>1, Zenon DEF Control, Changing, ForWrites
    <2>3. Answer(t)
        BY Zenon DEF Answers
    <2>4. Answer(t)'
        BY <2>1, <2>2, <2>3, Zenon DEF Answer, Reading, MapHeld
    <2> QED
        BY <2>1, <2>4, OthersAnswer, Zenon
<1>10. CASE Crash \/ Close
    <2>1. \A u \in Threads : pc'[u] = "idle" /\ request'[u] = NoRequest
        BY <1>10, SMTT(30) DEF Crash, Close, RuntimeGone
    <2> QED
        BY <2>1, Zenon DEF Answers, Answer, Reading, MapHeld, Storing
<1>11. CASE Open \/ ReadFlogPair \/ UNCHANGED vars
    <2>1. UNCHANGED <<data, pc, request, entry, buf>>
        BY <1>11, Zenon DEF Open, ReadFlogPair, vars
    <2> QED
        BY <2>1, Zenon DEF Answers, Answer
<1> QED
    BY <1>2, <1>3, <1>4, <1>5, <1>6, <1>7, <1>8, <1>9, <1>10, <1>11, Zenon DEF Next, Step

\* The invariant the refinement needs.
LEMMA DeviceInvariance == Spec => []DeviceInv
<1>1. Init => Answers
    BY InitAnswers, Zenon
<1>2. BttInv /\ Answers /\ [Next]_vars => Answers'
    BY NextAnswers, Zenon
<1> QED
    BY <1>1, <1>2, BttInvariance, PTL DEF Spec, DeviceInv

-----------------------------------------------------------------------------
(* The contents that are seen and kept                                     *)

\* Lane l has an update of block x that did not reach the map.
Pending(l, x) == Loaded(l).lba = x /\ Incomplete(Loaded(l))

\* seen and kept, entry by entry.
Views ==
    /\ seen = [x \in Lbas |-> seen[x]] /\ kept = [x \in Lbas |-> kept[x]]
    /\ \A x \in Lbas :
          /\ ~info => kept[x] = Zero
          /\ info /\ (\A l \in Lanes : ~Pending(l, x)) => kept[x] = Contents(map[x], x)
          /\ info => \A l \in Lanes :
                Pending(l, x) => kept[x] = Contents(Loaded(l).new_map, x)
          /\ pool # "open" => seen[x] = kept[x]
          /\ pool = "open" /\ laidout => seen[x] = Contents(mapped[x], x)
          /\ pool = "open" /\ ~laidout => seen[x] = Zero

\* Recovery has at most one update of a block to complete.
LEMMA ViewsRight == BttInv => Views
<1> SUFFICES ASSUME BttInv PROVE Views
    OBVIOUS
<1>1. /\ seen = [x \in Lbas |-> seen[x]] /\ kept = [x \in Lbas |-> kept[x]]
    BY Zenon DEF seen, kept
<1>2. ASSUME NEW x \in Lbas
      PROVE  /\ pool # "open" => seen[x] = kept[x]
             /\ pool = "open" /\ laidout => seen[x] = Contents(mapped[x], x)
             /\ pool = "open" /\ ~laidout => seen[x] = Zero
    BY <1>2, Zenon DEF seen
<1>3. ASSUME NEW x \in Lbas
      PROVE  /\ ~info => kept[x] = Zero
             /\ info => kept[x] = Contents(Recovered(x), x)
    BY <1>3, Zenon DEF kept
<1>4. ASSUME NEW x \in Lbas, \A l \in Lanes : ~Pending(l, x)
      PROVE  Recovered(x) = map[x]
    BY <1>4, Zenon DEF Recovered, Pending
<1>5. ASSUME NEW x \in Lbas, NEW l \in Lanes, Pending(l, x), info
      PROVE  Recovered(x) = Loaded(l).new_map
    <2> DEFINE pending == {m \in Lanes : Loaded(m).lba = x /\ Incomplete(Loaded(m))}
               c == CHOOSE m \in pending : TRUE
    <2>1. l \in pending
        BY <1>5, Zenon DEF Pending
    <2>2. c \in pending
        BY <2>1, Zenon
    <2>3. Accounts
        BY Zenon DEF BttInv
    <2>4. Recovered(x) = Loaded(c).new_map
        BY <2>1, Zenon DEF Recovered
    <2> HIDE DEF c
    <2>5. c = l
        BY <1>5, <2>1, <2>2, <2>3, Zenon DEF Accounts
    <2> QED
        BY <2>4, <2>5, Zenon
<1> QED
    BY <1>1, <1>2, <1>3, <1>4, <1>5, Zenon DEF Views

\* The views that two states agree on, block by block.
LEMMA ViewsEqual ==
    ASSUME Views, Views'
    PROVE  /\ (\A x \in Lbas : seen'[x] = seen[x]) => seen' = seen
           /\ (\A x \in Lbas : kept'[x] = kept[x]) => kept' = kept
BY Zenon DEF Views

\* The same view when the map entry, the flogs and the entry's block stay the same.
LEMMA KeptSame ==
    ASSUME Views, Views', NEW x \in Lbas, UNCHANGED info, map'[x] = map[x],
           \A l \in Lanes : Loaded(l)' = Loaded(l),
           info /\ (\A l \in Lanes : ~Pending(l, x)) => Contents(map[x], x)' = Contents(map[x], x),
           info => \A l \in Lanes : Pending(l, x) =>
               Contents(Loaded(l).new_map, x)' = Contents(Loaded(l).new_map, x)
    PROVE  kept'[x] = kept[x]
<1>1. \A l \in Lanes : Pending(l, x)' = Pending(l, x)
    BY Zenon DEF Pending, Incomplete
<1>2. CASE ~info
    BY <1>2, Zenon DEF Views
<1>3. CASE info /\ \A l \in Lanes : ~Pending(l, x)
    BY <1>1, <1>3, SMTT(30) DEF Views
<1>4. CASE info /\ \E l \in Lanes : Pending(l, x)
    BY <1>1, <1>4, SMTT(30) DEF Views
<1> QED
    BY <1>2, <1>3, <1>4, Zenon

\* A step that changes nothing the views are made of.
LEMMA ViewsSame ==
    ASSUME Views, Views', UNCHANGED <<info, map, flog, data, mapped, laidout, pool>>
    PROVE  seen' = seen /\ kept' = kept
<1>1. \A l \in Lanes : Loaded(l)' = Loaded(l)
    BY Zenon DEF Loaded
<1>2. ASSUME NEW x \in Lbas PROVE kept'[x] = kept[x]
    <2>1. Contents(map[x], x)' = Contents(map[x], x)
        BY Zenon DEF Contents
    <2>2. \A l \in Lanes : Contents(Loaded(l).new_map, x)' = Contents(Loaded(l).new_map, x)
        BY <1>1, Zenon DEF Contents
    <2> QED
        BY <1>1, <1>2, <2>1, <2>2, KeptSame, Zenon
<1>3. ASSUME NEW x \in Lbas PROVE seen'[x] = seen[x]
    <2>1. Contents(mapped[x], x)' = Contents(mapped[x], x)
        BY Zenon DEF Contents
    <2> QED
        BY <1>2, <1>3, <2>1, SMTT(30) DEF Views
<1> QED
    BY <1>2, <1>3, ViewsEqual, Zenon

-----------------------------------------------------------------------------
(* The callers                                                             *)

\* A step of t leaves the effects and results of the other callers alone.
LEMMA OtherCallers ==
    ASSUME NEW t \in Threads,
           \A u \in Threads : u # t =>
               /\ pc'[u] = pc[u] /\ request'[u] = request[u]
               /\ entry'[u] = entry[u] /\ buf'[u] = buf[u]
               /\ pc[u] \in {"read_begin", "read_end"} =>
                     data'[entry[u].block] = data[entry[u].block]
    PROVE  /\ effects' = [effects EXCEPT ![t] = effects'[t]]
           /\ result' = [result EXCEPT ![t] = result'[t]]
           /\ effects'[t] = effects[t] => effects' = effects
           /\ result'[t] = result[t] => result' = result
<1>1. ASSUME NEW u \in Threads, u # t PROVE effects'[u] = effects[u]
    BY <1>1, Zenon DEF effects
<1>2. ASSUME NEW u \in Threads, u # t PROVE result'[u] = result[u]
    BY <1>2, SMTT(30) DEF result
<1>3. /\ effects = [u \in Threads |-> effects[u]] /\ effects' = [u \in Threads |-> effects'[u]]
      /\ result = [u \in Threads |-> result[u]] /\ result' = [u \in Threads |-> result'[u]]
    BY Zenon DEF effects, result
<1> QED
    BY <1>1, <1>2, <1>3, Zenon

\* The effects and the result of a request, by where it is.
Caller(t) ==
    /\ request[t] = NoRequest => effects[t] = {} /\ result[t] = NotYet
    /\ request[t] # NoRequest /\ request[t].op = "read" =>
          /\ effects[t] = {}
          /\ pc[t] \in {"read_begin", "read_end"} => result[t] = data[entry[t].block]
          /\ pc[t] = "lane_exit" => result[t] = buf[t]
          /\ pc[t] \notin {"read_begin", "read_end", "lane_exit"} => result[t] = NotYet
    /\ request[t] # NoRequest /\ request[t].op # "read" =>
          /\ result[t] = NotYet
          /\ pc[t] = "lane_exit" => effects[t] = {"seen", "kept"}
          /\ pc[t] = "map_unlock" =>
                effects[t] = IF request[t].op = "write" THEN {"seen", "kept"} ELSE {"seen"}
          /\ pc[t] = "map_store" =>
                effects[t] = IF request[t].op = "write" THEN {"kept"} ELSE {}
          /\ pc[t] \notin {"lane_exit", "map_unlock", "map_store"} => effects[t] = {}

Callers == \A t \in Threads : Caller(t)

\* That is what effects and result say.
LEMMA CallersRight == BttInv => Callers
<1> SUFFICES ASSUME NEW t \in Threads PROVE Caller(t)
    BY Zenon DEF Callers
<1>1. effects[t] = IF request[t] = NoRequest \/ request[t].op = "read" THEN {}
        ELSE (IF pc[t] \in {"map_unlock", "lane_exit"} THEN {"seen"} ELSE {})
             \cup (IF \/ pc[t] = "lane_exit"
                      \/ request[t].op = "write" /\ pc[t] \in {"map_store", "map_unlock"}
                   THEN {"kept"} ELSE {})
    BY Zenon DEF effects
<1>2. result[t] = IF request[t] = NoRequest \/ request[t].op # "read" THEN NotYet
        ELSE IF pc[t] \in {"read_begin", "read_end"} THEN data[entry[t].block]
        ELSE IF pc[t] = "lane_exit" THEN buf[t] ELSE NotYet
    BY Zenon DEF result
<1> QED
    BY <1>1, <1>2, Zenon DEF Caller

-----------------------------------------------------------------------------
(* Every step is a step of the device or none                              *)

\* The invariant before and after a step, with what it says of the device.
Around == DeviceInv /\ Views /\ Callers

\* A request is called and returns.
LEMMA CallMaps ==
    ASSUME Around, Around', NEW t \in Threads, Call(t)
    PROVE  Device!Call(t)
<1> USE DEF media, layout, opening, lanes, flogs, locals, bounds
<1>1. /\ pc[t] = "idle" /\ request[t] = NoRequest
      /\ DOMAIN pc = Threads /\ DOMAIN request = Threads /\ DOMAIN buf = Threads
    BY Zenon DEF Call, At, Around, DeviceInv, BttInv, TypeOK, Answers, Answer
<1>2. Head(workload) \in Requests
    BY SMTT(30) DEF Call, Around, DeviceInv, BttInv, TypeOK
<1>3. /\ request' = [request EXCEPT ![t] = Head(workload)] /\ UNCHANGED entry
      /\ pc' = [pc EXCEPT ![t] = "lane_enter"] /\ buf' = [buf EXCEPT ![t] = NotYet]
      /\ UNCHANGED <<info, map, flog, data, mapped, laidout, pool>>
    BY Zenon DEF Call, Goto
<1>4. seen' = seen /\ kept' = kept
    BY <1>3, ViewsSame, Zenon DEF Around
<1>6. effects'[t] = effects[t] /\ result'[t] = result[t]
    <2>1. pc'[t] = "lane_enter" /\ request'[t] # NoRequest
        BY <1>1, <1>2, <1>3, Markers, Zenon
    <2> QED
        BY <1>1, <2>1, ZenonT(30) DEF Around, Callers, Caller
<1>7. effects' = effects /\ result' = result
    BY <1>1, <1>3, <1>6, OtherCallers, Zenon
<1>8. Requests = Device!Requests
    BY Zenon DEF Requests, Device!Requests
<1> QED
    BY <1>1, <1>2, <1>3, <1>4, <1>7, <1>8, Zenon DEF Device!Call

\* The end of a request is the device's return.
LEMMA ReturnMaps ==
    ASSUME Around, Around', NEW t \in Threads, lane_exit(t)
    PROVE  Device!Return(t)
<1> USE DEF media, layout, opening, lanes, flogs, locals, bounds
<1>1. /\ pc[t] = "lane_exit" /\ request[t] \in Requests
      /\ DOMAIN pc = Threads /\ DOMAIN request = Threads
    BY Zenon DEF lane_exit, At, Around, DeviceInv, BttInv, TypeOK, Control
<1>2. request[t] # NoRequest
    BY <1>1, Markers, Zenon
<1>3. /\ request' = [request EXCEPT ![t] = NoRequest] /\ UNCHANGED <<entry, buf>>
      /\ pc' = [pc EXCEPT ![t] = "idle"]
      /\ UNCHANGED <<info, map, flog, data, mapped, laidout, pool>>
    BY Zenon DEF lane_exit, Goto
<1>4. seen' = seen /\ kept' = kept
    BY <1>3, ViewsSame, Zenon DEF Around
<1>5. effects' = [effects EXCEPT ![t] = effects'[t]] /\ result' = [result EXCEPT ![t] = result'[t]]
    BY <1>1, <1>3, OtherCallers, Zenon
<1>6. effects'[t] = {} /\ result'[t] = NotYet
    <2>1. request'[t] = NoRequest
        BY <1>1, <1>3, Zenon
    <2> QED
        BY <2>1, Zenon DEF Around, Callers, Caller
<1>7. IF request[t].op = "read" THEN result[t] # NotYet ELSE effects[t] = {"seen", "kept"}
    BY <1>1, <1>2, SMTT(30) DEF Around, Callers, Caller, DeviceInv, Answers, Answer
<1> QED
    BY <1>2, <1>3, <1>4, <1>5, <1>6, <1>7, Zenon DEF Device!Return

\* A read looks at its block where it finds the entry that it goes by.
LEMMA ReadMaps ==
    ASSUME Around, Around', NEW t \in Threads,
           SetRtt(t) \/ Reread(t) \/ ReadBegin(t) \/ ReadEnd(t)
               \/ (lane_enter(t) /\ request[t].op = "read")
    PROVE  Device!Look(t) \/ UNCHANGED Device!vars
<1> USE DEF media, layout, opening, lanes, flogs, locals, bounds
<1>1. /\ DOMAIN pc = Threads /\ DOMAIN entry = Threads /\ DOMAIN buf = Threads
      /\ request[t] \in Requests /\ request[t].op = "read" /\ pool = "open"
    <2>1. pc[t] \in Reading \/ (pc[t] = "lane_enter" /\ request[t].op = "read")
        BY Zenon DEF SetRtt, Reread, ReadBegin, ReadEnd, lane_enter, At, Reading
    <2>2. request[t].op = "read"
        BY <2>1, Zenon DEF Around, DeviceInv, Answers, Answer
    <2>3. request[t] \in Requests
        BY <2>1, Zenon DEF Around, DeviceInv, BttInv, Control, Reading
    <2>4. pool = "open"
        BY Zenon DEF SetRtt, Reread, ReadBegin, ReadEnd, lane_enter, At
    <2> QED
        BY <2>2, <2>3, <2>4, Zenon DEF Around, DeviceInv, BttInv, TypeOK
<1>2. request[t] # NoRequest /\ request[t].lba \in Lbas
    BY <1>1, Markers, Zenon DEF Requests
<1>3. /\ UNCHANGED <<info, map, flog, data, mapped, laidout, pool, request>>
      /\ \A u \in Threads : u # t =>
             pc'[u] = pc[u] /\ entry'[u] = entry[u] /\ buf'[u] = buf[u]
    BY <1>1, Zenon DEF SetRtt, Reread, ReadBegin, ReadEnd, lane_enter, EnterRead, ReadWith, Goto, At
<1>4. seen' = seen /\ kept' = kept
    BY <1>3, ViewsSame, Zenon DEF Around
<1>5. effects' = [effects EXCEPT ![t] = effects'[t]] /\ result' = [result EXCEPT ![t] = result'[t]]
    BY <1>3, OtherCallers, Zenon
<1>6. effects[t] = {} /\ effects'[t] = {}
    BY <1>1, <1>2, <1>3, Zenon DEF Around, Callers, Caller
<1>7. effects' = effects /\ (result'[t] = result[t] => result' = result)
    BY <1>3, <1>6, OtherCallers, Zenon
<1>8. CASE result'[t] = result[t]
    BY <1>3, <1>4, <1>7, <1>8, Zenon DEF Device!vars
<1>9. CASE result[t] = NotYet /\ result'[t] = seen[request[t].lba]
    BY <1>1, <1>2, <1>3, <1>4, <1>5, <1>7, <1>9, Zenon DEF Device!Look
<1>10. /\ pc[t] \in {"read_begin", "read_end"} => result[t] = data[entry[t].block]
       /\ pc[t] \in {"set_rtt", "reread", "lane_enter"} => result[t] = NotYet
       /\ pc'[t] \in {"read_begin", "read_end"} => result'[t] = data[entry'[t].block]
       /\ pc'[t] = "lane_exit" => result'[t] = buf'[t]
       /\ pc'[t] \in {"set_rtt", "reread"} => result'[t] = NotYet
    BY <1>1, <1>2, <1>3, Zenon DEF Around, Callers, Caller
<1>11. CASE SetRtt(t)
    <2>1. pc[t] = "set_rtt" /\ pc'[t] = "reread"
        BY <1>1, <1>11, Zenon DEF SetRtt, At, Goto
    <2> QED
        BY <1>8, <1>10, <2>1, Zenon
<1>12. CASE ReadBegin(t)
    <2>1. pc[t] = "read_begin" /\ pc'[t] = "read_end" /\ entry' = entry
        BY <1>1, <1>12, Zenon DEF ReadBegin, At, Goto
    <2> QED
        BY <1>8, <1>10, <2>1, Zenon
<1>13. CASE ReadEnd(t)
    <2>1. pc[t] = "read_end" /\ pc'[t] = "lane_exit"
          /\ buf' = [buf EXCEPT ![t] = IF data[entry[t].block] = buf[t] THEN buf[t] ELSE Torn]
        BY <1>1, <1>13, Zenon DEF ReadEnd, At, Goto
    <2>2. buf[t] = data[entry[t].block]
        BY <2>1, Zenon DEF Around, DeviceInv, Answers, Answer
    <2> QED
        BY <1>1, <1>8, <1>10, <2>1, <2>2, Zenon
<1>14. ASSUME NEW e \in Entries, ReadWith(t, e), pc[t] \in {"reread", "lane_enter"},
              e.flag # "normal" => seen[request[t].lba] = Contents(e, request[t].lba)
       PROVE  Device!Look(t) \/ UNCHANGED Device!vars
    <2>1. CASE e.flag = "normal"
        <3>1. pc'[t] = "set_rtt"
            BY <1>1, <1>14, <2>1, Zenon DEF ReadWith, Goto
        <3> QED
            BY <1>8, <1>10, <1>14, <3>1, Zenon
    <2>2. CASE e.flag # "normal"
        <3>1. pc'[t] = "lane_exit" /\ buf'[t] = IF e.flag = "error" THEN Error ELSE Zero
            BY <1>1, <1>14, <2>2, Zenon DEF ReadWith, Goto
        <3>2. Contents(e, request[t].lba) = IF e.flag = "error" THEN Error ELSE Zero
            BY <2>2, Zenon DEF Contents
        <3> QED
            BY <1>9, <1>10, <1>14, <2>2, <3>1, <3>2, Zenon
    <2> QED
        BY <2>1, <2>2, Zenon
<1>15. mapped[request[t].lba] \in Entries
    BY <1>2, Zenon DEF Around, DeviceInv, BttInv, TypeOK
<1>16. laidout => seen[request[t].lba] = Contents(mapped[request[t].lba], request[t].lba)
    BY <1>1, <1>2, Zenon DEF Around, Views
<1>17. CASE Reread(t)
    <2>1. pc[t] = "reread" /\ laidout
        BY <1>17, Zenon DEF Reread, At, Around, DeviceInv, BttInv, Control, Reading
    <2>2. CASE entry[t] = mapped[request[t].lba]
        <3>1. pc'[t] = "read_begin" /\ entry' = entry
            BY <1>1, <1>17, <2>2, Zenon DEF Reread, Goto
        <3>2. entry[t].flag = "normal"
            BY <2>1, Zenon DEF Around, DeviceInv, BttInv, Tracking, Reading
        <3>3. Contents(mapped[request[t].lba], request[t].lba) = data[entry[t].block]
            BY <2>2, <3>2, Zenon DEF Contents
        <3> QED
            BY <1>9, <1>10, <1>16, <2>1, <3>1, <3>3, Zenon
    <2>3. CASE entry[t] # mapped[request[t].lba]
        <3>1. ReadWith(t, mapped[request[t].lba])
            BY <1>17, <2>3, Zenon DEF Reread
        <3> QED
            BY <1>14, <1>15, <1>16, <2>1, <3>1, Zenon
    <2> QED
        BY <2>2, <2>3, Zenon
<1>18. CASE lane_enter(t)
    <2>1. /\ pc[t] = "lane_enter"
          /\ ReadWith(t, IF laidout THEN mapped[request[t].lba] ELSE Unmapped)
        BY <1>1, <1>18, Zenon DEF lane_enter, EnterRead, At
    <2>2. CASE laidout
        BY <1>14, <1>15, <1>16, <2>1, <2>2, Zenon
    <2>3. CASE ~laidout
        <3>1. seen[request[t].lba] = Zero
            BY <1>1, <1>2, <2>3, Zenon DEF Around, Views
        <3>2. Contents(Unmapped, request[t].lba) = Zero /\ Unmapped \in Entries
            BY Sizes, EntryTypes, Zenon DEF Contents, Unmapped
        <3>3. ReadWith(t, Unmapped)
            BY <2>1, <2>3, Zenon
        <3> QED
            BY <1>14, <2>1, <3>1, <3>2, <3>3, Zenon
    <2> QED
        BY <2>2, <2>3, Zenon
<1> QED
    BY <1>11, <1>12, <1>13, <1>17, <1>18, Zenon

\* A stuttering step of t: one that changes neither the views nor what t has done.
LEMMA Stutters ==
    ASSUME Around, Around', NEW t \in Threads, seen' = seen, kept' = kept,
           request' = request, request[t] \in Requests, request[t].op # "read",
           \A u \in Threads : u # t =>
               /\ pc'[u] = pc[u] /\ entry'[u] = entry[u] /\ buf'[u] = buf[u]
               /\ pc[u] \in {"read_begin", "read_end"} =>
                     data'[entry[u].block] = data[entry[u].block],
           \/ /\ pc[t] \notin {"lane_exit", "map_unlock", "map_store"}
              /\ pc'[t] \notin {"lane_exit", "map_unlock", "map_store"}
           \/ pc[t] = "map_unlock" /\ pc'[t] = "lane_exit" /\ request[t].op = "write"
    PROVE  UNCHANGED Device!vars
<1>1. request[t] # NoRequest
    BY Markers, Zenon
<1>2. effects'[t] = effects[t] /\ result'[t] = result[t]
    BY <1>1, ZenonT(30) DEF Around, Callers, Caller
<1>3. effects' = effects /\ result' = result
    BY <1>2, OtherCallers, Zenon
<1> QED
    BY <1>3, Zenon DEF Device!vars

\* A step of t that puts what t writes in the views in new.
LEMMA Changes ==
    ASSUME Around, Around', NEW t \in Threads, request' = request,
           request[t] \in Requests, request[t].op # "read",
           \A u \in Threads : u # t =>
               pc'[u] = pc[u] /\ entry'[u] = entry[u] /\ buf'[u] = buf[u],
           data' = data, NEW new \in SUBSET {"seen", "kept"}, new # {},
           effects[t] \cap new = {}, effects'[t] = effects[t] \cup new,
           seen' = IF "seen" \in new THEN [seen EXCEPT ![request[t].lba] = request[t].val] ELSE seen,
           kept' = IF "kept" \in new THEN [kept EXCEPT ![request[t].lba] = request[t].val] ELSE kept
    PROVE  Device!Change(t)
<1>1. request[t] # NoRequest
    BY Markers, Zenon
<1>2. result'[t] = result[t]
    BY <1>1, SMTT(30) DEF Around, Callers, Caller
<1>3. result' = result /\ effects' = [effects EXCEPT ![t] = effects[t] \cup new]
    BY <1>2, OtherCallers, Zenon
<1>4. new \in (SUBSET ({"seen", "kept"} \ effects[t])) \ {{}}
    OBVIOUS
<1> QED
    BY <1>1, <1>3, <1>4, Zenon DEF Device!Change

\* A view that changes at one block only.
LEMMA ViewChanged ==
    ASSUME Views, Views', NEW x \in Lbas, NEW v
    PROVE  /\ seen'[x] = v /\ (\A y \in Lbas : y # x => seen'[y] = seen[y])
                 => seen' = [seen EXCEPT ![x] = v]
           /\ kept'[x] = v /\ (\A y \in Lbas : y # x => kept'[y] = kept[y])
                 => kept' = [kept EXCEPT ![x] = v]
BY Zenon DEF Views

\* The steps of the layout, and those before a block is chosen, are not visible.  A
\* block that is not mapped yet is zero already.
LEMMA StartMaps ==
    ASSUME Around, Around', NEW t \in Threads,
           \/ lane_enter(t) /\ request[t].op # "read"
           \/ LayoutLock(t) \/ StartLaidOut(t) \/ Scan(t)
    PROVE  Device!Change(t) \/ UNCHANGED Device!vars
<1> USE DEF media, layout, opening, lanes, flogs, locals, bounds
<1>0. TypeOK /\ Control /\ LayoutOnce /\ FlogsCurrent /\ InProgress
    BY Zenon DEF Around, DeviceInv, BttInv
<1>1. DOMAIN pc = Threads /\ DOMAIN entry = Threads /\ ~flags
    BY <1>0, Zenon DEF TypeOK, FlogsCurrent
<1>2. /\ pc[t] \in {"lane_enter", "layout_lock", "start", "scan"}
      /\ pool = "open" /\ request[t].op # "read" /\ request[t] \in Requests
    <2>1. /\ pc[t] \in {"lane_enter", "layout_lock", "start", "scan"} /\ pool = "open"
          /\ pc[t] = "lane_enter" => request[t].op # "read"
        BY Zenon DEF lane_enter, LayoutLock, StartLaidOut, Scan, At
    <2> QED
        BY <1>0, <2>1, Zenon DEF Control, Changing, ForWrites
<1>3. /\ UNCHANGED <<info, map, flog, data, mapped, laidout, pool, request, buf>>
      /\ \A u \in Threads : u # t => pc'[u] = pc[u] /\ entry'[u] = entry[u]
    BY <1>1, <1>2, Zenon
    DEF lane_enter, LayoutLock, StartLaidOut, Scan, EnterChange, Start, Goto
<1>4. seen' = seen /\ kept' = kept
    BY <1>3, ViewsSame, Zenon DEF Around
<1>5. \/ pc'[t] \in {"layout_lock", "zero_map", "scan", "map_lock", "write_begin"}
      \/ pc'[t] = "lane_exit" /\ ~laidout /\ request[t].op = "set_zero" /\ pc[t] = "lane_enter"
    BY <1>1, <1>2, Zenon
    DEF lane_enter, LayoutLock, StartLaidOut, Scan, EnterChange, Start, Goto, At
<1>6. CASE pc'[t] \in {"layout_lock", "zero_map", "scan", "map_lock", "write_begin"}
    BY <1>2, <1>3, <1>4, <1>6, Stutters, Zenon
<1>7. CASE pc'[t] = "lane_exit" /\ ~laidout /\ request[t].op = "set_zero" /\ pc[t] = "lane_enter"
    <2>1. request[t].lba \in Lbas /\ request[t].val = Zero
        BY <1>2, <1>7, Zenon DEF Requests
    <2>2. effects[t] = {} /\ effects'[t] = {"seen", "kept"}
        <3>1. request[t] # NoRequest
            BY <1>2, Markers, Zenon
        <3> QED
            BY <1>2, <1>3, <1>7, <3>1, Zenon DEF Around, Callers, Caller
    <2>3. seen[request[t].lba] = Zero
        BY <1>2, <1>7, <2>1, Zenon DEF Around, Views
    <2>4. kept[request[t].lba] = Zero
        <3>1. CASE ~info
            BY <2>1, <3>1, Zenon DEF Around, Views
        <3>2. CASE info
            <4>1. PICK u \in Threads : pc[u] = "read_arenas"
                BY <1>0, <1>2, <1>7, <3>2, Zenon DEF LayoutOnce
            <4>2. JustLaidOut
                BY <1>0, <4>1, Zenon DEF LayoutOnce, LayingOut, JustLaidOut
            <4>3. \A l \in Lanes : ~Pending(l, request[t].lba)
                BY <4>2, LaidOutAccounts, Zenon DEF NothingIncomplete, Pending
            <4>4. map[request[t].lba] = Unmapped
                BY <2>1, <4>2, Zenon DEF JustLaidOut
            <4>5. Contents(map[request[t].lba], request[t].lba) = Zero
                BY <4>4, SMTT(30) DEF Contents, Unmapped
            <4> QED
                BY <2>1, <3>2, <4>3, <4>5, Zenon DEF Around, Views
        <3> QED
            BY <3>1, <3>2, Zenon
    <2>5. /\ seen' = [seen EXCEPT ![request[t].lba] = Zero]
          /\ kept' = [kept EXCEPT ![request[t].lba] = Zero]
        BY <1>4, <2>1, <2>3, <2>4, ViewChanged, Zenon DEF Around
    <2>6. PICK new \in SUBSET {"seen", "kept"} : new = {"seen", "kept"}
        BY Zenon
    <2> QED
        BY <1>2, <1>3, <2>1, <2>2, <2>5, <2>6, Changes, Zenon
<1> QED
    BY <1>5, <1>6, <1>7, Zenon

\* Writing the layout and reading the arenas change nothing of the device.
LEMMA LayoutMaps ==
    ASSUME Around, Around', NEW t \in Threads,
           ZeroMap(t) \/ WriteFlogs(t) \/ WriteInfo(t) \/ ReadArenas(t)
    PROVE  UNCHANGED Device!vars
<1> USE DEF media, layout, opening, lanes, flogs, locals, bounds
<1>0. TypeOK /\ Control /\ LayoutOnce /\ InProgress
    BY Zenon DEF Around, DeviceInv, BttInv
<1>1. DOMAIN pc = Threads /\ pc[t] \in LayingOut /\ pool = "open"
    BY <1>0, Zenon DEF TypeOK, ZeroMap, WriteFlogs, WriteInfo, ReadArenas, At, LayingOut
<1>2. request[t].op # "read" /\ request[t] \in Requests /\ ~laidout
    BY <1>0, <1>1, Zenon DEF Control, LayoutOnce, LayingOut
<1>3. /\ UNCHANGED <<request, buf, entry, data, pool>>
      /\ \A u \in Threads : u # t => pc'[u] = pc[u]
      /\ pc'[t] \in {"write_flogs", "write_info", "read_arenas", "start"}
    BY <1>1, Zenon DEF ZeroMap, WriteFlogs, WriteInfo, ReadArenas, Goto
<1>4. mapped = map
    <2>1. ASSUME NEW x \in Lbas PROVE mapped[x] = map[x]
        BY <1>0, <1>2, Zenon DEF InProgress, Control, Changing, MapHeld
    <2> QED
        BY <1>0, <2>1, SMTT(30) DEF TypeOK
<1>5. ASSUME NEW x \in Lbas PROVE seen'[x] = Zero /\ seen[x] = Zero
    <2>1. seen[x] = Zero
        BY <1>1, <1>2, Zenon DEF Around, Views
    <2>2. CASE ~ReadArenas(t)
        <3>1. laidout' = laidout
            BY <2>2, Zenon DEF ZeroMap, WriteFlogs, WriteInfo
        <3> QED
            BY <1>1, <1>2, <1>3, <2>1, <3>1, Zenon DEF Around, Views
    <2>3. CASE ReadArenas(t)
        <3>1. laidout' /\ mapped' = mapped /\ pc[t] = "read_arenas"
            BY <2>3, Zenon DEF ReadArenas, At
        <3>2. map[x] = Unmapped
            BY <1>0, <3>1, Zenon DEF LayoutOnce, LayingOut
        <3>3. Contents(mapped[x], x)' = Zero
            BY <1>4, <3>1, <3>2, SMTT(30) DEF Contents, Unmapped
        <3> QED
            BY <1>1, <1>3, <2>1, <3>1, <3>3, Zenon DEF Around, Views
    <2> QED
        BY <2>2, <2>3, Zenon
<1>6. ASSUME NEW x \in Lbas PROVE kept'[x] = kept[x]
    <2>1. CASE ZeroMap(t) \/ WriteFlogs(t)
        <3>1. ~info /\ info' = info
            BY <1>0, <2>1, Zenon DEF LayoutOnce, LayingOut, ZeroMap, WriteFlogs, At
        <3> QED
            BY <3>1, Zenon DEF Around, Views
    <2>2. CASE WriteInfo(t)
        <3>1. pc[t] = "write_info" /\ ~info /\ info' /\ UNCHANGED <<map, flog>>
            BY <1>0, <2>2, Zenon DEF LayoutOnce, LayingOut, WriteInfo, At
        <3>2. JustLaidOut
            BY <1>0, <3>1, Zenon DEF LayoutOnce, LayingOut, JustLaidOut
        <3>3. \A l \in Lanes : ~Pending(l, x)'
            BY <3>1, <3>2, LaidOutAccounts, Zenon DEF NothingIncomplete, Pending, Incomplete, Loaded
        <3>4. Contents(map[x], x)' = Zero
            BY <3>1, <3>2, SMTT(30) DEF JustLaidOut, Contents, Unmapped
        <3> QED
            BY <3>1, <3>3, <3>4, Zenon DEF Around, Views
    <2>3. CASE ReadArenas(t)
        <3>1. UNCHANGED <<info, map, flog, data>>
            BY <2>3, Zenon DEF ReadArenas
        <3>2. \A l \in Lanes : Loaded(l)' = Loaded(l)
            BY <3>1, Zenon DEF Loaded
        <3>3. \A l \in Lanes : Contents(Loaded(l).new_map, x)' = Contents(Loaded(l).new_map, x)
            BY <3>1, <3>2, Zenon DEF Contents
        <3>4. Contents(map[x], x)' = Contents(map[x], x)
            BY <3>1, Zenon DEF Contents
        <3> QED
            BY <1>6, <3>1, <3>2, <3>3, <3>4, KeptSame, Zenon DEF Around
    <2> QED
        BY <2>1, <2>2, <2>3, Zenon
<1>7. seen' = seen /\ kept' = kept
    BY <1>5, <1>6, ViewsEqual, Zenon DEF Around
<1> QED
    BY <1>1, <1>2, <1>3, <1>7, Stutters, Zenon DEF LayingOut

-----------------------------------------------------------------------------
(* The steps of a change, from its block to the map                        *)

\* What a thread that changes a block goes by.
LEMMA ChangerAround ==
    ASSUME Around, NEW t \in Threads, pc[t] \in Changing
    PROVE  /\ request[t] \in Requests /\ request[t] # NoRequest /\ request[t].op # "read"
           /\ request[t].lba \in Lbas /\ lane[t] \in Lanes /\ laidout /\ info /\ pool = "open"
           /\ DOMAIN pc = Threads
           /\ TypeOK /\ Control /\ LayoutOnce /\ FlogsCurrent /\ Accounts /\ InProgress /\ Tracking
<1>1. TypeOK /\ Control /\ LayoutOnce /\ FlogsCurrent /\ Accounts /\ InProgress /\ Tracking
    BY Zenon DEF Around, DeviceInv, BttInv
<1>2. /\ request[t] \in Requests /\ request[t].lba \in Lbas /\ lane[t] \in Lanes
      /\ request[t].op \in {"write", "set_zero", "set_error"} /\ laidout /\ info
    BY <1>1, ChangerTypes, Zenon
<1>3. pool = "open" /\ request[t] # NoRequest /\ DOMAIN pc = Threads
    BY <1>1, <1>2, Markers, Zenon DEF LayoutOnce, TypeOK
<1> QED
    BY <1>1, <1>2, <1>3, Zenon

\* The block a write fills is in no view.
LEMMA FillMaps ==
    ASSUME Around, Around', NEW t \in Threads, WriteBegin(t) \/ WriteEnd(t)
    PROVE  UNCHANGED Device!vars
<1> USE DEF media, layout, opening, lanes, flogs, locals, bounds
<1>1. pc[t] \in {"write_begin", "write_end"} /\ pc[t] \in ForWrites /\ pc[t] \in Changing
    BY Zenon DEF WriteBegin, WriteEnd, At, ForWrites, Changing
<1>2. /\ request[t] \in Requests /\ request[t].op # "read" /\ lane[t] \in Lanes
      /\ laidout /\ info /\ pool = "open" /\ DOMAIN pc = Threads
      /\ TypeOK /\ Control /\ LayoutOnce /\ FlogsCurrent /\ Accounts /\ InProgress /\ Tracking
    BY <1>1, ChangerAround, Zenon
<1>3. /\ UNCHANGED <<request, buf, entry, info, map, flog, mapped, laidout, pool>>
      /\ \A u \in Threads : u # t => pc'[u] = pc[u]
      /\ pc'[t] \in {"write_end", "map_lock"}
      /\ \E v : data' = [data EXCEPT ![entry[t].block] = v]
    BY <1>2, Zenon DEF WriteBegin, WriteEnd, Goto
<1>4. request[t].op = "write" /\ BttInv
    BY <1>1, <1>2, Zenon DEF Control, Around, DeviceInv
<1>5. /\ entry[t] = Normal(FreeBlock(lane[t])) /\ ~Incomplete(Loaded(lane[t]))
    BY <1>1, <1>2, <1>4, LaneFree, Zenon
<1>6. entry[t].block = FreeBlock(lane[t])
    <2>1. ASSUME NEW b PROVE Normal(b).block = b
        BY DEF Normal
    <2> QED
        BY <1>5, <2>1, Zenon
<1>7. ASSUME NEW e \in Entries, NEW x, e.flag = "normal" => e.block # entry[t].block
      PROVE  Contents(e, x)' = Contents(e, x)
    <2>1. e.block \in Blocks /\ DOMAIN data = Blocks
        BY <1>2, EntryTypes, Zenon DEF TypeOK
    <2>2. e.flag = "normal" => data'[e.block] = data[e.block]
        BY <1>3, <1>7, <2>1, Zenon
    <2> QED
        BY <2>2, Zenon DEF Contents
<1>8. ASSUME NEW x \in Lbas PROVE seen'[x] = seen[x]
    <2>1. mapped[x] \in Entries
        BY <1>2, <1>8, Zenon DEF TypeOK
    <2>2. Resolved(mapped[x], x).block # entry[t].block
        BY <1>1, <1>2, <1>8, NotMapped, Zenon DEF BlockWriters
    <2>3. mapped[x].flag = "normal" => mapped[x].block # entry[t].block
        BY <2>2, Zenon DEF Resolved
    <2>4. Contents(mapped[x], x)' = Contents(mapped[x], x)
        BY <1>3, <1>7, <2>1, <2>3, Zenon
    <2> QED
        BY <1>2, <1>3, <1>8, <2>4, SMTT(30) DEF Around, Views
<1>9. ASSUME NEW x \in Lbas PROVE kept'[x] = kept[x]
    <2>1. \A l \in Lanes : Loaded(l)' = Loaded(l)
        BY <1>3, Zenon DEF Loaded
    <2>2. Contents(map[x], x)' = Contents(map[x], x)
        <3>1. map[x] \in Entries
            BY <1>2, <1>9, Zenon DEF TypeOK
        <3>2. Resolved(map[x], x).block # entry[t].block
            BY <1>2, <1>6, <1>9, Zenon DEF Accounts, BlocksAccounted
        <3>3. map[x].flag = "normal" => map[x].block # entry[t].block
            BY <3>2, Zenon DEF Resolved
        <3> QED
            BY <1>3, <1>7, <3>1, <3>3, Zenon
    <2>3. ASSUME NEW l \in Lanes, Pending(l, x)
          PROVE  Contents(Loaded(l).new_map, x)' = Contents(Loaded(l).new_map, x)
        <3>1. Incomplete(Loaded(l)) /\ l # lane[t]
            BY <1>5, <2>3, Zenon DEF Pending
        <3>2. FreeBlock(l) = Loaded(l).new_map.block
            BY <3>1, Zenon DEF FreeBlock
        <3>3. FreeBlock(l) # FreeBlock(lane[t])
            BY <1>2, <2>3, <3>1, Zenon DEF Accounts, BlocksAccounted
        <3>4. Loaded(l) \in Flogs
            BY <1>2, <2>3, LoadedTypes, Zenon DEF TypeOK
        <3>5. PICK e \in Entries : e = Loaded(l).new_map
            BY <3>4, Zenon DEF Flogs
        <3>6. Contents(e, x)' = Contents(e, x)
            BY <1>6, <1>7, <3>2, <3>3, <3>5, Zenon
        <3>7. Loaded(l)'.new_map = e
            BY <2>1, <3>5, Zenon
        <3> QED
            BY <3>5, <3>6, <3>7, Zenon
    <2> QED
        BY <1>3, <1>9, <2>1, <2>2, <2>3, KeptSame, Zenon DEF Around
<1>10. seen' = seen /\ kept' = kept
    BY <1>8, <1>9, ViewsEqual, Zenon DEF Around
<1>11. ASSUME NEW u \in Threads, u # t, pc[u] \in {"read_begin", "read_end"}
       PROVE  data'[entry[u].block] = data[entry[u].block]
    <2>1. entry[u].block # entry[t].block
        BY <1>1, <1>4, <1>11, FillsOwnBlock, Zenon
    <2>2. entry[u].block \in Blocks /\ DOMAIN data = Blocks
        BY <1>2, EntryTypes, Zenon DEF TypeOK
    <2> QED
        BY <1>3, <2>1, <2>2, Zenon
<1> QED
    BY <1>1, <1>2, <1>3, <1>10, <1>11, Stutters, SMTT(30)

\* Locking the map entry changes nothing, unless the block to zero is zero already.
LEMMA MapLockMaps ==
    ASSUME Around, Around', NEW t \in Threads, MapLock(t)
    PROVE  Device!Change(t) \/ UNCHANGED Device!vars
<1> USE DEF media, layout, opening, lanes, flogs, locals, bounds
<1> DEFINE x == request[t].lba
<1>1. pc[t] = "map_lock" /\ pc[t] \in Changing
    BY Zenon DEF MapLock, At, Changing
<1>2. /\ request[t] \in Requests /\ request[t] # NoRequest /\ request[t].op # "read"
      /\ x \in Lbas /\ laidout /\ info /\ pool = "open" /\ DOMAIN pc = Threads
      /\ TypeOK /\ Control /\ LayoutOnce /\ FlogsCurrent /\ Accounts /\ InProgress /\ Tracking
    BY <1>1, ChangerAround, Zenon
<1>3. /\ UNCHANGED <<info, map, flog, data, mapped, laidout, pool, request, buf>>
      /\ \A u \in Threads : u # t => pc'[u] = pc[u] /\ entry'[u] = entry[u]
    BY <1>2, Zenon DEF MapLock, Goto, TypeOK
<1>4. /\ pc'[t] \in {"flog_old", "lane_exit", "map_store"}
      /\ request[t].op = "write" => pc'[t] = "flog_old"
      /\ pc'[t] = "lane_exit" => request[t].op = "set_zero" /\ mapped[x].flag = "zero"
    BY <1>2, MapLocked, Zenon
<1>5. seen' = seen /\ kept' = kept
    BY <1>3, ViewsSame, Zenon DEF Around
<1>6. /\ effects[t] = {}
      /\ pc'[t] \in {"flog_old", "map_store"} => effects'[t] = {}
      /\ pc'[t] = "lane_exit" => effects'[t] = {"seen", "kept"}
    BY <1>1, <1>2, <1>3, <1>4, Zenon DEF Around, Callers, Caller
<1>7. CASE pc'[t] \in {"flog_old", "map_store"}
    <2>1. result'[t] = result[t]
        BY <1>2, <1>3, SMTT(30) DEF Around, Callers, Caller
    <2>2. effects' = effects /\ result' = result
        BY <1>3, <1>6, <1>7, <2>1, OtherCallers, Zenon
    <2> QED
        BY <1>3, <1>5, <2>2, Zenon DEF Device!vars
<1>8. CASE pc'[t] = "lane_exit"
    <2>1. request[t].val = Zero
        BY <1>2, <1>4, <1>8, Zenon DEF Requests
    <2>2. map_locks[map_lock_num(x)] = Nobody
        BY Zenon DEF MapLock
    <2>3. ASSUME NEW u \in Threads, pc[u] \in MapHeld, request[u].lba = x PROVE FALSE
        <3>1. map_locks[map_lock_num(request[u].lba)] = u
            BY <1>2, <2>3, Zenon DEF Control
        <3>2. u = Nobody /\ Nobody \notin Threads
            BY <2>2, <2>3, <3>1, Sizes, Zenon
        <3> QED
            BY <3>2, Zenon
    <2>4. mapped[x] = map[x]
        BY <1>2, <2>3, Zenon DEF InProgress, MapHeld
    <2>5. \A l \in Lanes : ~Pending(l, x)
        BY <1>2, <2>3, SMTT(30) DEF InProgress, MapHeld, Storing, Pending
    <2>6. Contents(mapped[x], x) = Zero
        BY <1>4, <1>8, Zenon DEF Contents
    <2>7. seen[x] = Zero /\ kept[x] = Zero
        BY <1>2, <2>4, <2>5, <2>6, Zenon DEF Around, Views
    <2>8. seen' = [seen EXCEPT ![x] = Zero] /\ kept' = [kept EXCEPT ![x] = Zero]
        BY <1>2, <1>5, <2>7, ViewChanged, Zenon DEF Around
    <2>9. PICK new \in SUBSET {"seen", "kept"} : new = {"seen", "kept"}
        BY Zenon
    <2> QED
        BY <1>2, <1>3, <1>6, <1>8, <2>1, <2>8, <2>9, Changes, Zenon
<1> QED
    BY <1>4, <1>7, <1>8, Zenon

\* The entry that a change stores stands for what the request writes.
LEMMA StoredContents ==
    ASSUME Around, NEW t \in Threads, pc[t] \in Storing
    PROVE  Contents(entry[t], request[t].lba) = request[t].val
<1>1. pc[t] \in Changing
    BY Zenon DEF Storing, Changing, MapHeld
<1>2. request[t] \in Requests /\ request[t].op # "read" /\ InProgress
    BY <1>1, ChangerAround, Zenon
<1>3. CASE request[t].op = "write"
    <2>1. entry[t].flag = "normal"
        BY <1>2, <1>3, Zenon DEF InProgress, Changer
    <2>2. data[entry[t].block] = request[t].val
        BY <1>3, Zenon DEF Around, DeviceInv, Answers, Answer, Storing, MapHeld
    <2> QED
        BY <2>1, <2>2, Zenon DEF Contents
<1>4. CASE request[t].op # "write"
    <2>1. entry[t].flag = IF request[t].op = "set_zero" THEN "zero" ELSE "error"
        BY <1>4, Zenon DEF Around, DeviceInv, Answers, Answer
    <2>2. request[t].val = IF request[t].op = "set_zero" THEN Zero ELSE Error
        BY <1>2, <1>4, Zenon DEF Requests
    <2> QED
        BY <2>1, <2>2, Zenon DEF Contents
<1> QED
    BY <1>3, <1>4, Zenon

\* A flog entry without its sequence number changes nothing of the device.
LEMMA FlogOldMaps ==
    ASSUME Around, Around', NEW t \in Threads, FlogOld(t)
    PROVE  UNCHANGED Device!vars
<1> USE DEF media, layout, opening, lanes, flogs, locals, bounds
<1>1. pc[t] = "flog_old" /\ pc[t] \in Changing
    BY Zenon DEF FlogOld, At, Changing, ForWrites
<1>2. /\ request[t] \in Requests /\ request[t].op # "read" /\ pool = "open" /\ DOMAIN pc = Threads
      /\ TypeOK /\ Control /\ LayoutOnce /\ FlogsCurrent
    BY <1>1, ChangerAround, Zenon
<1>3. /\ UNCHANGED <<request, buf, entry, data, info, map, mapped, laidout, pool>>
      /\ \A u \in Threads : u # t => pc'[u] = pc[u]
      /\ pc'[t] = "flog_new"
    BY <1>2, Zenon DEF FlogOld, Goto
<1>4. \A l \in Lanes : Loaded(l)' = Loaded(l)
    BY <1>2, FlogOldLoads, Zenon
<1>5. ASSUME NEW x \in Lbas PROVE kept'[x] = kept[x]
    <2>1. \A l \in Lanes : Contents(Loaded(l).new_map, x)' = Contents(Loaded(l).new_map, x)
        BY <1>3, <1>4, Zenon DEF Contents
    <2>2. Contents(map[x], x)' = Contents(map[x], x)
        BY <1>3, Zenon DEF Contents
    <2> QED
        BY <1>3, <1>4, <1>5, <2>1, <2>2, KeptSame, Zenon DEF Around
<1>6. ASSUME NEW x \in Lbas PROVE seen'[x] = seen[x]
    <2>1. Contents(mapped[x], x)' = Contents(mapped[x], x)
        BY <1>3, Zenon DEF Contents
    <2> QED
        BY <1>2, <1>3, <1>6, <2>1, SMTT(30) DEF Around, Views
<1>7. seen' = seen /\ kept' = kept
    BY <1>5, <1>6, ViewsEqual, Zenon DEF Around
<1> QED
    BY <1>1, <1>2, <1>3, <1>7, Stutters, Zenon

\* The flog makes a write durable before it is seen.
LEMMA FlogNewMaps ==
    ASSUME Around, Around', NEW t \in Threads, FlogNew(t)
    PROVE  Device!Change(t)
<1> USE DEF media, layout, opening, lanes, flogs, locals, bounds
<1> DEFINE x == request[t].lba
<1>1. pc[t] = "flog_new" /\ pc[t] \in Changing /\ pc[t] \in ForWrites /\ pc[t] \in MapHeld
    BY Zenon DEF FlogNew, At, Changing, ForWrites, MapHeld
<1>2. /\ request[t] \in Requests /\ request[t] # NoRequest /\ request[t].op # "read"
      /\ x \in Lbas /\ lane[t] \in Lanes /\ laidout /\ info /\ pool = "open" /\ DOMAIN pc = Threads
      /\ TypeOK /\ Control /\ LayoutOnce /\ FlogsCurrent /\ Accounts /\ InProgress
    BY <1>1, ChangerAround, Zenon
<1>3. /\ UNCHANGED <<request, buf, entry, data, info, map, mapped, laidout, pool, lane>>
      /\ \A u \in Threads : u # t => pc'[u] = pc[u]
      /\ pc'[t] = "map_store"
    BY <1>2, Zenon DEF FlogNew, Goto
<1>4. request[t].op = "write"
    BY <1>1, <1>2, Zenon DEF Control
<1>5. PICK m \in Lanes : m = lane[t]
    BY <1>2, Zenon
<1>6. /\ Loaded(m)'.lba = x /\ Loaded(m)'.old_map = old_entry[t]
      /\ Loaded(m)'.new_map = entry[t] /\ entry[t].flag = "normal"
      /\ old_entry[t] = Resolved(map[x], x) /\ old_entry[t].block # entry[t].block
      /\ \A l \in Lanes : l # m => Loaded(l)' = Loaded(l)
    <2>1. /\ Loaded(lane[t])'.lba = x /\ Loaded(lane[t])'.old_map = old_entry[t]
          /\ Loaded(lane[t])'.new_map = entry[t] /\ entry[t] = Normal(FreeBlock(lane[t]))
          /\ old_entry[t] = Resolved(map[x], x) /\ old_entry[t].block # entry[t].block
          /\ \A l \in Lanes : l # lane[t] => Loaded(l)' = Loaded(l)
        BY <1>2, UpdateMade, Zenon
    <2>2. Loaded(lane[t])' = Loaded(m)'
        BY <1>3, <1>5, Zenon DEF Loaded
    <2>3. entry[t].flag = "normal"
        BY <2>1, SMTT(30) DEF Normal
    <2> QED
        BY <1>5, <2>1, <2>2, <2>3, Zenon
<1>7. ~Incomplete(Loaded(m))
    BY <1>1, <1>2, <1>4, <1>5, LaneFree, Zenon
<1>8. Pending(m, x)'
    BY <1>3, <1>6, Zenon DEF Pending, Incomplete
<1>9. kept'[x] = request[t].val
    <2>1. data[entry[t].block] = request[t].val
        BY <1>1, <1>4, Zenon DEF Around, DeviceInv, Answers, Answer
    <2>2. Contents(Loaded(m).new_map, x)' = request[t].val
        BY <1>3, <1>6, <2>1, Zenon DEF Contents
    <2> QED
        BY <1>2, <1>3, <1>8, <2>2, Zenon DEF Around, Views
<1>10. ASSUME NEW y \in Lbas, y # x PROVE kept'[y] = kept[y]
    <2>1. \A l \in Lanes : Pending(l, y)' = Pending(l, y)
        BY <1>3, <1>6, <1>7, <1>10, Zenon DEF Pending, Incomplete
    <2>2. Contents(map[y], y)' = Contents(map[y], y)
        BY <1>3, Zenon DEF Contents
    <2>3. \A l \in Lanes : Pending(l, y) =>
              Contents(Loaded(l).new_map, y)' = Contents(Loaded(l).new_map, y)
        BY <1>3, <1>6, <1>7, Zenon DEF Contents, Pending
    <2>4. CASE \A l \in Lanes : ~Pending(l, y)
        BY <1>2, <1>3, <1>10, <2>1, <2>2, <2>4, SMTT(30) DEF Around, Views
    <2>5. CASE \E l \in Lanes : Pending(l, y)
        BY <1>2, <1>3, <1>10, <2>1, <2>3, <2>5, SMTT(30) DEF Around, Views
    <2> QED
        BY <2>4, <2>5, Zenon
<1>11. ASSUME NEW y \in Lbas PROVE seen'[y] = seen[y]
    <2>1. Contents(mapped[y], y)' = Contents(mapped[y], y)
        BY <1>3, Zenon DEF Contents
    <2> QED
        BY <1>2, <1>3, <1>11, <2>1, SMTT(30) DEF Around, Views
<1>12. seen' = seen /\ kept' = [kept EXCEPT ![x] = request[t].val]
    BY <1>2, <1>9, <1>10, <1>11, ViewsEqual, ViewChanged, Zenon DEF Around
<1>13. effects[t] = {} /\ effects'[t] = {"kept"}
    BY <1>1, <1>2, <1>3, <1>4, Zenon DEF Around, Callers, Caller
<1>14. PICK new \in SUBSET {"seen", "kept"} : new = {"kept"}
    BY Zenon
<1> QED
    BY <1>2, <1>3, <1>12, <1>13, <1>14, Changes, Zenon

\* The store of the map entry makes a change seen.
LEMMA MapStoreMaps ==
    ASSUME Around, Around', NEW t \in Threads, MapStore(t)
    PROVE  Device!Change(t)
<1> USE DEF media, layout, opening, lanes, flogs, locals, bounds
<1> DEFINE x == request[t].lba
<1>1. pc[t] = "map_store" /\ pc[t] \in Changing /\ pc[t] \in Storing
    BY Zenon DEF MapStore, At, Changing, MapHeld, Storing
<1>2. /\ request[t] \in Requests /\ request[t] # NoRequest /\ request[t].op # "read"
      /\ x \in Lbas /\ laidout /\ info /\ pool = "open" /\ DOMAIN pc = Threads /\ TypeOK
    BY <1>1, ChangerAround, Zenon
<1>3. /\ UNCHANGED <<request, buf, entry, data, info, map, flog, laidout, pool>>
      /\ \A u \in Threads : u # t => pc'[u] = pc[u]
      /\ pc'[t] = "map_unlock" /\ mapped' = [mapped EXCEPT ![x] = entry[t]]
    BY <1>2, Zenon DEF MapStore, Goto
<1>4. mapped'[x] = entry[t] /\ \A y \in Lbas : y # x => mapped'[y] = mapped[y]
    BY <1>2, <1>3, Zenon DEF TypeOK
<1>5. seen'[x] = request[t].val
    <2>1. Contents(entry[t], x) = request[t].val
        BY <1>1, StoredContents, Zenon
    <2>2. Contents(mapped[x], x)' = request[t].val
        BY <1>3, <1>4, <2>1, Zenon DEF Contents
    <2> QED
        BY <1>2, <1>3, <2>2, Zenon DEF Around, Views
<1>6. ASSUME NEW y \in Lbas, y # x PROVE seen'[y] = seen[y]
    <2>1. Contents(mapped[y], y)' = Contents(mapped[y], y)
        BY <1>3, <1>4, <1>6, Zenon DEF Contents
    <2> QED
        BY <1>2, <1>3, <1>6, <2>1, SMTT(30) DEF Around, Views
<1>7. ASSUME NEW y \in Lbas PROVE kept'[y] = kept[y]
    <2>1. \A l \in Lanes : Loaded(l)' = Loaded(l)
        BY <1>3, Zenon DEF Loaded
    <2>2. \A l \in Lanes : Contents(Loaded(l).new_map, y)' = Contents(Loaded(l).new_map, y)
        BY <1>3, <2>1, Zenon DEF Contents
    <2>3. Contents(map[y], y)' = Contents(map[y], y)
        BY <1>3, Zenon DEF Contents
    <2> QED
        BY <1>3, <1>7, <2>1, <2>2, <2>3, KeptSame, Zenon DEF Around
<1>8. kept' = kept /\ seen' = [seen EXCEPT ![x] = request[t].val]
    BY <1>2, <1>5, <1>6, <1>7, ViewsEqual, ViewChanged, Zenon DEF Around
<1>9. effects[t] \in {{}, {"kept"}} /\ effects'[t] = effects[t] \cup {"seen"}
    BY <1>1, <1>2, <1>3, Zenon DEF Around, Callers, Caller
<1>11. effects[t] \cap {"seen"} = {}
    BY <1>9, Zenon
<1>10. PICK new \in SUBSET {"seen", "kept"} : new = {"seen"}
    BY Zenon
<1> QED
    BY <1>2, <1>3, <1>8, <1>9, <1>10, <1>11, Changes, Zenon

-----------------------------------------------------------------------------
(* Draining the map, crashes and recovery                                  *)

\* Draining an entry keeps what its writer stored, and no other entry notices.
LEMMA DrainedKept ==
    ASSUME Around, Around', info, UNCHANGED <<info, flog, data>>, NEW S \in SUBSET Lbas,
           map' = [x \in Lbas |-> IF x \in S THEN mapped[x] ELSE map[x]],
           NEW y \in Lbas
    PROVE  /\ y \notin S => kept'[y] = kept[y]
           /\ y \in S /\ (\E t \in Threads : pc[t] = "map_unlock" /\ request[t].lba = y) =>
                 kept'[y] = Contents(mapped[y], y)
<1>0. TypeOK /\ Control /\ LayoutOnce /\ Accounts /\ InProgress
    BY Zenon DEF Around, DeviceInv, BttInv
<1>1. Completes
    BY <1>0, Drained, Zenon
<1>2. /\ \A l \in Lanes : Incomplete(Loaded(l))' => Incomplete(Loaded(l))
      /\ \A l \in Lanes : Resolved(map'[Loaded(l).lba], Loaded(l).lba) = Loaded(l).new_map
                             => ~Incomplete(Loaded(l))'
    BY <1>0, <1>1, Completed, Zenon
<1>3. \A l \in Lanes : Loaded(l)' = Loaded(l)
    BY Zenon DEF Loaded
<1>4. ASSUME y \notin S PROVE kept'[y] = kept[y]
    <2>1. map'[y] = map[y]
        BY <1>4, Zenon
    <2>2. Contents(map[y], y)' = Contents(map[y], y)
        BY <2>1, Zenon DEF Contents
    <2>3. \A l \in Lanes : Contents(Loaded(l).new_map, y)' = Contents(Loaded(l).new_map, y)
        BY <1>3, Zenon DEF Contents
    <2> QED
        BY <1>3, <2>1, <2>2, <2>3, KeptSame, Zenon DEF Around
<1>5. ASSUME y \in S, NEW t \in Threads, pc[t] = "map_unlock", request[t].lba = y
      PROVE  kept'[y] = Contents(mapped[y], y)
    <2>1. map'[y] = mapped[y] /\ mapped[y] = entry[t] /\ pc[t] \in MapHeld
        BY <1>0, <1>5, Zenon DEF InProgress, Changer, MapHeld
    <2>2. ASSUME NEW l \in Lanes, Pending(l, y)' PROVE FALSE
        <3>1. Loaded(l).lba = y /\ Incomplete(Loaded(l)) /\ Incomplete(Loaded(l))'
            BY <1>2, <1>3, <2>2, Zenon DEF Pending
        <3>2. request[t].op = "write" /\ lane[t] = l /\ pc[t] \in Storing
            BY <1>0, <1>5, <2>1, <3>1, HeldAlone, Zenon
        <3>3. Loaded(l).new_map = entry[t] /\ entry[t].flag = "normal"
            BY <1>0, <3>2, Zenon DEF InProgress, Changer
        <3>4. Resolved(map'[y], y) = Loaded(l).new_map
            BY <2>1, <3>3, Zenon DEF Resolved
        <3> QED
            BY <1>2, <3>1, <3>4, Zenon
    <2>3. Contents(map[y], y)' = Contents(mapped[y], y)
        BY <2>1, Zenon DEF Contents
    <2> QED
        BY <2>2, <2>3, Zenon DEF Around, Views
<1> QED
    BY <1>4, <1>5, Zenon

\* The drain of the map keeps a change of a flag; a write was kept before.
LEMMA MapUnlockMaps ==
    ASSUME Around, Around', NEW t \in Threads, MapUnlock(t)
    PROVE  Device!Change(t) \/ UNCHANGED Device!vars
<1> USE DEF media, layout, opening, lanes, flogs, locals, bounds
<1> DEFINE x == request[t].lba
<1>1. pc[t] = "map_unlock" /\ pc[t] \in Changing /\ pc[t] \in Storing
    BY Zenon DEF MapUnlock, At, Changing, MapHeld, Storing
<1>2. /\ request[t] \in Requests /\ request[t] # NoRequest /\ request[t].op # "read"
      /\ x \in Lbas /\ lane[t] \in Lanes /\ laidout /\ info /\ pool = "open"
      /\ DOMAIN pc = Threads /\ TypeOK /\ Control /\ LayoutOnce /\ InProgress
    BY <1>1, ChangerAround, Zenon
<1>3. /\ UNCHANGED <<request, buf, entry, data, info, mapped, flog, laidout, pool>>
      /\ \A u \in Threads : u # t => pc'[u] = pc[u]
      /\ pc'[t] = "lane_exit" /\ map' = [map EXCEPT ![x] = mapped[x]]
    BY <1>2, Zenon DEF MapUnlock, Goto
<1>4. map' = [y \in Lbas |-> IF y \in {x} THEN mapped[y] ELSE map[y]]
    BY <1>2, <1>3, Zenon DEF TypeOK
<1>5. PICK S \in SUBSET Lbas : S = {x}
    BY <1>2, Zenon
<1>6. \A y \in Lbas : y # x => kept'[y] = kept[y]
    BY <1>2, <1>3, <1>4, <1>5, DrainedKept, Zenon
<1>7. kept'[x] = request[t].val
    <2>1. Contents(mapped[x], x) = request[t].val
        BY <1>1, <1>2, StoredContents, SMTT(30) DEF InProgress, Changer
    <2>2. kept'[x] = Contents(mapped[x], x)
        BY <1>1, <1>2, <1>3, <1>4, <1>5, DrainedKept, ZenonT(30)
    <2> QED
        BY <2>1, <2>2, Zenon
<1>8. ASSUME NEW y \in Lbas PROVE seen'[y] = seen[y]
    <2>1. Contents(mapped[y], y)' = Contents(mapped[y], y)
        BY <1>3, Zenon DEF Contents
    <2> QED
        BY <1>2, <1>3, <1>8, <2>1, SMTT(30) DEF Around, Views
<1>9. seen' = seen /\ kept' = [kept EXCEPT ![x] = request[t].val]
    BY <1>2, <1>6, <1>7, <1>8, ViewsEqual, ViewChanged, Zenon DEF Around
<1>10. CASE request[t].op = "write"
    <2>1. PICK m \in Lanes : m = lane[t]
        BY <1>2, Zenon
    <2>2. Pending(m, x) /\ Loaded(m).new_map = entry[t]
        BY <1>1, <1>2, <1>10, <2>1, StoringWrite, Zenon DEF InProgress, Changer, Pending
    <2>3. kept[x] = request[t].val
        BY <1>1, <1>2, <2>2, StoredContents, SMTT(30) DEF Around, Views
    <2>4. kept' = kept
        BY <1>6, <1>7, <2>3, ViewsEqual, Zenon DEF Around
    <2> QED
        BY <1>1, <1>2, <1>3, <1>9, <1>10, <2>4, Stutters, Zenon
<1>11. CASE request[t].op # "write"
    <2>1. effects[t] = {"seen"} /\ effects'[t] = {"seen", "kept"}
        BY <1>1, <1>2, <1>3, <1>11, Zenon DEF Around, Callers, Caller
    <2>2. PICK new \in SUBSET {"seen", "kept"} : new = {"kept"}
        BY Zenon
    <2> QED
        BY <1>2, <1>3, <1>9, <2>1, <2>2, Changes, ZenonT(30)
<1> QED
    BY <1>10, <1>11, Zenon

\* A crash is the device's crash, whatever part of the map was durable.
LEMMA CrashMaps ==
    ASSUME Around, Around', Crash
    PROVE  Device!Crash
<1>0. TypeOK /\ Control /\ LayoutOnce /\ InProgress
    BY Zenon DEF Around, DeviceInv, BttInv
<1>1. PICK S \in SUBSET {x \in Lbas : mapped[x] # map[x]} :
          map' = [x \in Lbas |-> IF x \in S THEN mapped[x] ELSE map[x]]
    BY Zenon DEF Crash
<1>2. /\ UNCHANGED <<info, flog, data>> /\ pool' = "closed"
      /\ request' = [t \in Threads |-> NoRequest]
    BY Zenon DEF Crash, RuntimeGone
<1>3. ASSUME NEW y \in Lbas PROVE kept'[y] \in {seen[y], kept[y]}
    <2>1. CASE ~info
        BY <1>2, <2>1, Zenon DEF Around, Views
    <2>2. CASE info /\ y \notin S
        BY <1>1, <1>2, <2>2, DrainedKept, Zenon
    <2>3. CASE info /\ y \in S
        <3>1. PICK t \in Threads : pc[t] = "map_unlock" /\ request[t].lba = y
            BY <1>0, <2>3, Zenon DEF InProgress
        <3>2. laidout /\ pool = "open"
            BY <1>0, <3>1, Zenon DEF Control, LayoutOnce, Changing, MapHeld
        <3>3. kept'[y] = Contents(mapped[y], y)
            BY <1>1, <1>2, <2>3, <3>1, DrainedKept, Zenon
        <3> QED
            BY <3>2, <3>3, Zenon DEF Around, Views
    <2> QED
        BY <2>1, <2>2, <2>3, Zenon
<1>4. seen' = kept'
    BY <1>2, Zenon DEF Around, Views
<1>5. effects' = [t \in Threads |-> {}] /\ result' = [t \in Threads |-> NotYet]
    BY <1>2, Zenon DEF effects, result
<1> QED
    BY <1>2, <1>3, <1>4, <1>5, Zenon DEF Device!Crash

\* A pool is closed when nothing is in progress: what is seen is kept.
LEMMA CloseMaps ==
    ASSUME Around, Around', Close
    PROVE  UNCHANGED Device!vars
<1> USE DEF media, bounds
<1>0. TypeOK /\ Control /\ LayoutOnce /\ InProgress
    BY Zenon DEF Around, DeviceInv, BttInv
<1>1. /\ pool = "open" /\ pool' = "closed" /\ \A t \in Threads : pc[t] = "idle"
      /\ UNCHANGED <<info, map, flog, data, mapped>>
      /\ request' = [t \in Threads |-> NoRequest]
    BY Zenon DEF Close, RuntimeGone
<1>2. \A t \in Threads : request[t] = NoRequest
    BY <1>1, Zenon DEF Around, DeviceInv, Answers, Answer
<1>3. request' = request /\ effects' = effects /\ result' = result
    <2>1. request' = request
        BY <1>0, <1>1, <1>2, Zenon DEF TypeOK
    <2> QED
        BY <1>1, <1>2, <2>1, Zenon DEF effects, result
<1>4. ASSUME NEW x \in Lbas PROVE kept'[x] = kept[x]
    <2>1. \A l \in Lanes : Loaded(l)' = Loaded(l)
        BY <1>1, Zenon DEF Loaded
    <2>2. \A l \in Lanes : Contents(Loaded(l).new_map, x)' = Contents(Loaded(l).new_map, x)
        BY <1>1, <2>1, Zenon DEF Contents
    <2>3. Contents(map[x], x)' = Contents(map[x], x)
        BY <1>1, Zenon DEF Contents
    <2> QED
        BY <1>1, <1>4, <2>1, <2>2, <2>3, KeptSame, Zenon DEF Around
<1>5. ASSUME NEW x \in Lbas PROVE seen[x] = kept[x]
    <2>1. CASE ~info
        <3>1. ~laidout
            BY <1>0, <2>1, Zenon DEF LayoutOnce
        <3> QED
            BY <1>1, <2>1, <3>1, Zenon DEF Around, Views
    <2>2. CASE info
        <3>1. laidout
            BY <1>0, <1>1, <2>2, Zenon DEF LayoutOnce
        <3>2. mapped[x] = map[x]
            BY <1>0, <1>1, Zenon DEF InProgress
        <3>3. \A l \in Lanes : ~Pending(l, x)
            BY <1>0, <1>1, <3>1, Zenon DEF InProgress, Pending, Storing
        <3> QED
            BY <1>1, <2>2, <3>1, <3>2, <3>3, SMTT(30) DEF Around, Views
    <2> QED
        BY <2>1, <2>2, Zenon
<1>6. \A x \in Lbas : seen'[x] = kept'[x]
    BY <1>1, Zenon DEF Around, Views
<1>7. seen' = seen /\ kept' = kept
    BY <1>4, <1>5, <1>6, ViewsEqual, Zenon DEF Around
<1> QED
    BY <1>3, <1>7, Zenon DEF Device!vars

\* Opening the pool changes nothing of the device.
LEMMA OpenMaps ==
    ASSUME Around, Around', Open
    PROVE  UNCHANGED Device!vars
<1> USE DEF media, layout, flogs, lanes, locals, bounds
<1>1. /\ pool = "closed" /\ pool' \in {"opening", "open"}
      /\ pool' = "open" => ~info
      /\ UNCHANGED <<info, map, flog, data, mapped, laidout, request, pc, entry, buf>>
    BY Zenon DEF Open
<1>2. ~laidout
    BY <1>1, Zenon DEF Around, DeviceInv, BttInv, LayoutOnce
<1>3. effects' = effects /\ result' = result
    BY <1>1, Zenon DEF effects, result
<1>4. ASSUME NEW x \in Lbas PROVE kept'[x] = kept[x]
    <2>1. \A l \in Lanes : Loaded(l)' = Loaded(l)
        BY <1>1, Zenon DEF Loaded
    <2>2. \A l \in Lanes : Contents(Loaded(l).new_map, x)' = Contents(Loaded(l).new_map, x)
        BY <1>1, <2>1, Zenon DEF Contents
    <2>3. Contents(map[x], x)' = Contents(map[x], x)
        BY <1>1, Zenon DEF Contents
    <2> QED
        BY <1>1, <1>4, <2>1, <2>2, <2>3, KeptSame, Zenon DEF Around
<1>5. ASSUME NEW x \in Lbas PROVE seen'[x] = seen[x]
    <2>1. seen[x] = kept[x]
        BY <1>1, <1>5, Zenon DEF Around, Views
    <2>2. CASE pool' = "opening"
        BY <1>4, <1>5, <2>1, <2>2, Zenon DEF Around, Views
    <2>3. CASE pool' = "open"
        BY <1>1, <1>2, <1>5, <2>1, <2>3, Zenon DEF Around, Views
    <2> QED
        BY <1>1, <2>2, <2>3, Zenon
<1>6. seen' = seen /\ kept' = kept
    BY <1>4, <1>5, ViewsEqual, Zenon DEF Around
<1> QED
    BY <1>1, <1>3, <1>6, Zenon DEF Device!vars

\* Completing an update makes its block what it was kept as.
LEMMA ReadFlogPairMaps ==
    ASSUME Around, Around', ReadFlogPair
    PROVE  UNCHANGED Device!vars
<1> USE DEF layout, flogs, lanes, locals, bounds
<1>0. TypeOK /\ Control /\ LayoutOnce /\ Accounts /\ InProgress
    BY Zenon DEF Around, DeviceInv, BttInv
<1>1. /\ pool = "opening" /\ pool' \in {"opening", "open"} /\ mapped' = map'
      /\ UNCHANGED <<info, flog, data, request, pc, entry, buf>>
    BY Zenon DEF ReadFlogPair
<1>2. PICK n \in Lanes : n = flognum
    BY <1>0, ReadBack, Zenon
<1>3. /\ Completes /\ info
      /\ Incomplete(Loaded(n)) => Resolved(map'[Loaded(n).lba], Loaded(n).lba) = Loaded(n).new_map
    BY <1>0, <1>2, ReadBack, Zenon
<1>4. /\ \A l \in Lanes : Incomplete(Loaded(l))' => Incomplete(Loaded(l))
      /\ \A l \in Lanes : Resolved(map'[Loaded(l).lba], Loaded(l).lba) = Loaded(l).new_map
                             => ~Incomplete(Loaded(l))'
    BY <1>0, <1>1, <1>3, Completed, Zenon
<1>5. \A l \in Lanes : Loaded(l)' = Loaded(l)
    BY <1>1, Zenon DEF Loaded
<1>6. Loaded(n) \in Flogs
    BY <1>0, <1>2, LoadedTypes, Zenon DEF TypeOK
<1>7. /\ ~Incomplete(Loaded(n)) => map' = map
      /\ Incomplete(Loaded(n)) => map' = [map EXCEPT ![Loaded(n).lba] = Loaded(n).new_map]
    BY <1>2, Zenon DEF ReadFlogPair
<1>8. ASSUME NEW x \in Lbas PROVE kept'[x] = kept[x]
    <2>1. CASE map'[x] = map[x]
        <3>1. \A l \in Lanes : Contents(Loaded(l).new_map, x)' = Contents(Loaded(l).new_map, x)
            BY <1>1, <1>5, Zenon DEF Contents
        <3>2. Contents(map[x], x)' = Contents(map[x], x)
            BY <1>1, <2>1, Zenon DEF Contents
        <3> QED
            BY <1>1, <1>5, <1>8, <2>1, <3>1, <3>2, KeptSame, Zenon DEF Around
    <2>2. CASE map'[x] # map[x]
        <3>1. Incomplete(Loaded(n)) /\ x = Loaded(n).lba /\ map'[x] = Loaded(n).new_map
            BY <1>0, <1>7, <1>8, <2>2, Zenon DEF TypeOK
        <3>2. kept[x] = Contents(Loaded(n).new_map, x)
            BY <1>3, <1>8, <3>1, Zenon DEF Around, Views, Pending
        <3>3. ASSUME NEW l \in Lanes, Pending(l, x)' PROVE FALSE
            <4>1. Loaded(l).lba = x /\ Incomplete(Loaded(l))' /\ Incomplete(Loaded(l))
                BY <1>4, <1>5, <3>3, Zenon DEF Pending
            <4>2. l = n
                BY <1>0, <1>3, <3>1, <4>1, Zenon DEF Accounts
            <4> QED
                BY <1>3, <1>4, <3>1, <4>1, <4>2, Zenon
        <3>4. Contents(map[x], x)' = Contents(Loaded(n).new_map, x)
            BY <1>1, <3>1, Zenon DEF Contents
        <3> QED
            BY <1>1, <1>3, <1>8, <3>2, <3>3, <3>4, Zenon DEF Around, Views
    <2> QED
        BY <2>1, <2>2, Zenon
<1>9. ASSUME NEW x \in Lbas PROVE seen'[x] = seen[x]
    <2>1. seen[x] = kept[x]
        BY <1>1, <1>9, Zenon DEF Around, Views
    <2>2. CASE pool' = "opening"
        BY <1>8, <1>9, <2>1, <2>2, Zenon DEF Around, Views
    <2>3. CASE pool' = "open"
        <3>1. \A u \in Threads : pc'[u] = "idle"
            BY <1>0, <1>1, Zenon DEF Control
        <3>2. laidout'
            <4>1. flognum' = nfree
                BY <1>1, <2>3, Zenon DEF ReadFlogPair
            <4> QED
                BY <4>1, Zenon DEF ReadFlogPair
        <3>3. \A l \in Lanes : ~Pending(l, x)'
            BY <3>1, <3>2, Zenon DEF Around, DeviceInv, BttInv, InProgress, Pending, Storing
        <3>4. kept'[x] = Contents(map[x], x)'
            BY <1>1, <1>3, <1>9, <3>3, Zenon DEF Around, Views
        <3>5. Contents(mapped[x], x)' = Contents(map[x], x)'
            BY <1>1, Zenon DEF Contents
        <3> QED
            BY <1>8, <1>9, <2>1, <2>3, <3>2, <3>4, <3>5, Zenon DEF Around, Views
    <2> QED
        BY <1>1, <2>2, <2>3, Zenon
<1>10. seen' = seen /\ kept' = kept
    BY <1>8, <1>9, ViewsEqual, Zenon DEF Around
<1>11. effects' = effects /\ result' = result
    BY <1>1, Zenon DEF effects, result
<1> QED
    BY <1>1, <1>10, <1>11, Zenon DEF Device!vars

-----------------------------------------------------------------------------
\* A new pool is a device of zeroed blocks.
LEMMA InitMaps == Init => Device!Init
<1> SUFFICES ASSUME Init PROVE Device!Init
    OBVIOUS
<1>1. seen = [x \in Lbas |-> Zero] /\ kept = [x \in Lbas |-> Zero]
    BY Zenon DEF Init, seen, kept
<1>2. request = [t \in Threads |-> NoRequest]
    BY Zenon DEF Init
<1>3. effects = [t \in Threads |-> {}] /\ result = [t \in Threads |-> NotYet]
    BY <1>2, Zenon DEF effects, result
<1> QED
    BY <1>1, <1>2, <1>3, Zenon DEF Device!Init

\* Every step of the pool is a step of the device or leaves it unchanged.
LEMMA NextMaps ==
    ASSUME Around, Around', [Next]_vars
    PROVE  [Device!Next]_Device!vars
<1>1. ASSUME NEW t \in Threads, Call(t) PROVE Device!Next
    BY <1>1, CallMaps, Zenon DEF Device!Next
<1>2. ASSUME NEW t \in Threads, Step(t) PROVE [Device!Next]_Device!vars
    <2>1. CASE lane_exit(t)
        BY <2>1, ReturnMaps, Zenon DEF Device!Next
    <2>2. CASE SetRtt(t) \/ Reread(t) \/ ReadBegin(t) \/ ReadEnd(t)
               \/ (lane_enter(t) /\ request[t].op = "read")
        BY <2>2, ReadMaps, Zenon DEF Device!Next
    <2>3. CASE (lane_enter(t) /\ request[t].op # "read")
               \/ LayoutLock(t) \/ StartLaidOut(t) \/ Scan(t)
        BY <2>3, StartMaps, Zenon DEF Device!Next
    <2>4. CASE ZeroMap(t) \/ WriteFlogs(t) \/ WriteInfo(t) \/ ReadArenas(t)
        BY <2>4, LayoutMaps, Zenon
    <2>5. CASE WriteBegin(t) \/ WriteEnd(t)
        BY <2>5, FillMaps, Zenon
    <2>6. CASE MapLock(t)
        BY <2>6, MapLockMaps, Zenon DEF Device!Next
    <2>7. CASE FlogOld(t)
        BY <2>7, FlogOldMaps, Zenon
    <2>8. CASE FlogNew(t) \/ MapStore(t)
        BY <2>8, FlogNewMaps, MapStoreMaps, Zenon DEF Device!Next
    <2>9. CASE MapUnlock(t)
        BY <2>9, MapUnlockMaps, Zenon DEF Device!Next
    <2> QED
        BY <1>2, <2>1, <2>2, <2>3, <2>4, <2>5, <2>6, <2>7, <2>8, <2>9, Zenon DEF Step
<1>3. CASE Crash
    BY <1>3, CrashMaps, Zenon DEF Device!Next
<1>4. CASE Close \/ Open \/ ReadFlogPair
    BY <1>4, CloseMaps, OpenMaps, ReadFlogPairMaps, Zenon
<1>5. CASE UNCHANGED vars
    <2>1. UNCHANGED <<info, map, flog, data, mapped, laidout, pool, request, pc, entry, buf>>
        BY <1>5, Zenon DEF vars, media, layout, opening, locals
    <2>2. seen' = seen /\ kept' = kept
        BY <2>1, ViewsSame, Zenon DEF Around
    <2>3. effects' = effects /\ result' = result
        BY <2>1, Zenon DEF effects, result
    <2> QED
        BY <2>1, <2>2, <2>3, Zenon DEF Device!vars
<1> QED
    BY <1>1, <1>2, <1>3, <1>4, <1>5, Zenon DEF Next

\* libpmemblk over btt.c is the block device of BlockDevice: with any number of threads
\* and lanes every read returns what its block held at one instant between call and
\* return, never a torn block, every write, set_zero and set_error takes effect at once,
\* and a crash at any point keeps, of each block, what a returned request wrote or what
\* one in progress writes, with the recovery in read_flog_pair invisible to callers.
THEOREM BttImplementsDevice == Spec => AtomicDevice
<1>1. Init => Device!Init
    BY InitMaps, Zenon
<1>2. DeviceInv => Around
    BY ViewsRight, CallersRight, Zenon DEF Around, DeviceInv
<1>3. Around /\ Around' /\ [Next]_vars => [Device!Next]_Device!vars
    BY NextMaps, Zenon
<1> QED
    BY <1>1, <1>2, <1>3, DeviceInvariance, PTL DEF Spec, AtomicDevice, Device!Spec
=============================================================================
