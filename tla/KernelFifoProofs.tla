-------------------------- MODULE KernelFifoProofs --------------------------
(***************************************************************************)
(* What holds of the kernel FIFO for every length, every threshold and     *)
(* every sequence of records.                                              *)
(***************************************************************************)
EXTENDS KernelFifo, TLAPS

\* The FIFO is in bounds; while no signal has come, a writer that is not
\* waiting has room for one record, which only the reader can add to.
RoomInv ==
    /\ pmtest_dev \in Seq(Types) /\ Len(pmtest_dev) <= KFIFO_LEN
    /\ input \in Types \cup {NoRecord}
    /\ wpc \in {"test", "put"} => input \in Types
    /\ wpc = "put" => Len(pmtest_dev) < KFIFO_LEN
    /\ interrupted \in {0, 1}
    /\ interrupted = 0 =>
        lost = 0 /\ (wpc \in {"idle", "test"} => Len(pmtest_dev) < KFIFO_LEN)

\* The number of records in the FIFO after a record is put or taken.
LEMMA FifoLengths ==
    ASSUME NEW s \in Seq(Types), NEW r \in Types
    PROVE  /\ Len(s) \in Nat
           /\ Append(s, r) \in Seq(Types) /\ Len(Append(s, r)) = Len(s) + 1
           /\ s # <<>> => Tail(s) \in Seq(Types) /\ Len(Tail(s)) = Len(s) - 1
OBVIOUS

\* The FIFO is empty and nothing is lost when the device is created.
LEMMA InitRoomInv == Init => RoomInv
BY KernelAssumption, SMTT(40) DEF Init, RoomInv, NoRecord

\* Every step keeps the FIFO in bounds.
LEMMA NextRoomInv == RoomInv /\ [Next]_vars => RoomInv'
<1> SUFFICES ASSUME RoomInv, [Next]_vars PROVE RoomInv'
    OBVIOUS
<1> USE KernelAssumption DEF RoomInv, WGoto, RGoto, kernel, writer, reader, history
<1>0. Len(pmtest_dev) \in Nat
    OBVIOUS
<1>1. CASE Start \/ End
    BY <1>1 DEF Start, End
<1>2. ASSUME NEW type \in Types, Create(type) PROVE RoomInv'
    BY <1>2 DEF Create
<1>3. CASE TestAvail
    BY <1>0, <1>3, SMTT(40) DEF TestAvail, kfifo_avail
<1>4. CASE Put
    <2>1. input \in Types /\ Len(pmtest_dev) < KFIFO_LEN
        BY <1>4, SMTT(40) DEF Put
    <2>2. pmtest_dev' \in Seq(Types) /\ Len(pmtest_dev') = Len(pmtest_dev) + 1
        BY <1>4, <2>1, FifoLengths, SMTT(40) DEF Put
    <2> QED
        BY <1>0, <1>4, <2>1, <2>2, SMTT(40) DEF Put
<1>5. CASE TestFull
    BY <1>0, <1>5, SMTT(40) DEF TestFull, kfifo_avail
<1>6. CASE SetAsleep
    BY <1>6, SMTT(40) DEF SetAsleep
<1>7. CASE Wait \/ Sleep
    BY <1>0, <1>7, SMTT(40) DEF Wait, Sleep, Room, kfifo_avail
<1>8. CASE Interrupt
    BY <1>8 DEF Interrupt
<1>9. CASE Copy
    <2>1. pmtest_dev' \in Seq(Types) /\ Len(pmtest_dev') <= Len(pmtest_dev)
        BY <1>0, <1>9, SMTT(40) DEF Copy
    <2>2. Len(pmtest_dev') \in Nat
        BY <2>1, SMTT(40)
    <2> QED
        BY <1>0, <1>9, <2>1, <2>2, SMTT(40) DEF Copy
<1>10. CASE TestAsleep \/ TestRoom \/ ClearAsleep \/ Poll \/ Collect \/ Submit \/ Leave
    BY <1>10 DEF TestAsleep, TestRoom, ClearAsleep, Poll, Collect, Submit, Leave
<1>11. CASE WakeUp
    BY <1>11 DEF WakeUp
<1>12. CASE UNCHANGED vars
    BY <1>12 DEF vars
<1> QED
    BY <1>1, <1>2, <1>3, <1>4, <1>5, <1>6, <1>7, <1>8, <1>9, <1>10, <1>11, <1>12, ZenonT(30)
    DEF Next, Writer, Reader, Done

\* For every length and threshold, PMTestFifoWrite drops a record only after
\* a signal has ended one of its waits.
THEOREM OnlySignalsLoseRecords == Spec => []DropsOnlyAfterSignal
<1>1. RoomInv => DropsOnlyAfterSignal
    BY SMTT(40) DEF RoomInv, DropsOnlyAfterSignal
<1> QED
    BY <1>1, InitRoomInv, NextRoomInv, PTL DEF Spec

\* Every step keeps a sleeping writer in the reader's sight while its flag
\* is up.
LEMMA NextFlagWakes == FlagWakes /\ [Next]_vars => FlagWakes'
<1> SUFFICES ASSUME FlagWakes, [Next]_vars PROVE FlagWakes'
    OBVIOUS
<1> USE DEF FlagWakes, WGoto, RGoto, kernel, writer, reader, history
<1>1. CASE Start \/ End
    BY <1>1, SMTT(40) DEF Start, End, Room, kfifo_avail
<1>2. ASSUME NEW type \in Types, Create(type) PROVE FlagWakes'
    BY <1>2, SMTT(40) DEF Create
<1>3. CASE TestAvail \/ Put \/ TestFull \/ SetAsleep \/ Wait \/ Interrupt
    BY <1>3, SMTT(40) DEF TestAvail, Put, TestFull, SetAsleep, Wait, Interrupt
<1>4. CASE Sleep
    BY <1>4, SMTT(40) DEF Sleep, Room, kfifo_avail
<1>5. CASE Copy
    BY <1>5, SMTT(40) DEF Copy
<1>6. CASE TestAsleep
    BY <1>6, SMTT(40) DEF TestAsleep
<1>7. CASE TestRoom
    BY <1>7 DEF TestRoom, Room, kfifo_avail
<1>8. CASE WakeUp
    BY <1>8 DEF WakeUp
<1>9. CASE ClearAsleep
    BY <1>9 DEF ClearAsleep
<1>10. CASE Poll \/ Collect \/ Submit \/ Leave
    BY <1>10 DEF Poll, Collect, Submit, Leave, Room, kfifo_avail
<1>11. CASE UNCHANGED vars
    BY <1>11 DEF vars, Room, kfifo_avail
<1> QED
    BY <1>1, <1>2, <1>3, <1>4, <1>5, <1>6, <1>7, <1>8, <1>9, <1>10, <1>11, SMTT(40)
    DEF Next, Writer, Reader, Done

\* For every length and threshold, a writer sleeps with its flag up only
\* until the reader has made room.
THEOREM FlagAlwaysWakes == Spec => []FlagWakes
<1>1. Init => FlagWakes
    BY DEF Init, FlagWakes
<1> QED
    BY <1>1, NextFlagWakes, PTL DEF Spec

-----------------------------------------------------------------------------
(* The stream of records                                                   *)

\* The device is well-typed when it is created.
LEMMA InitTypeOK == Init => TypeOK
BY KernelAssumption, SMTT(40) DEF Init, TypeOK, NoRecord

\* Every step keeps the types; the bounds of the FIFO are those of RoomInv.
LEMMA NextTypeOK ==
    ASSUME TypeOK, RoomInv, RoomInv', Delivered, [Next]_vars
    PROVE  TypeOK'
<1> USE KernelAssumption DEF TypeOK, WGoto, RGoto, kernel, writer, reader, history, NoRecord
<1>0. pmtest_dev' \in Seq(Types) /\ Len(pmtest_dev') <= KFIFO_LEN
    BY DEF RoomInv
<1>1. CASE Start \/ End
    BY <1>0, <1>1 DEF Start, End
<1>2. ASSUME NEW type \in Types, Create(type) PROVE TypeOK'
    BY <1>0, <1>2, SMTT(40) DEF Create
<1>3. CASE TestAvail
    BY <1>0, <1>3, SMTT(40) DEF TestAvail
<1>4. CASE Put
    <2>1. input \in Types
        BY <1>4 DEF Put, RoomInv
    <2> QED
        BY <1>0, <1>4, <2>1, SMTT(40) DEF Put
<1>5. CASE TestFull \/ SetAsleep \/ Wait \/ Sleep \/ Interrupt
    BY <1>0, <1>5, SMTT(40) DEF TestFull, SetAsleep, Wait, Sleep, Interrupt
<1>6. CASE Copy
    <2>1. buf' \in Types \cup {NoRecord}
        BY <1>6, SMTT(40) DEF Copy
    <2> QED
        BY <1>0, <1>6, <2>1, SMTT(40) DEF Copy
<1>7. CASE TestAsleep \/ TestRoom \/ WakeUp \/ ClearAsleep \/ Poll \/ Leave
    BY <1>0, <1>7, SMTT(40) DEF TestAsleep, TestRoom, WakeUp, ClearAsleep, Poll, Leave
<1>8. CASE Collect
    BY <1>0, <1>8, SMTT(40) DEF Collect
<1>9. CASE Submit
    <2>1. Len(written) - Len(pmtest_dev) \in Nat
        BY SMTT(30) DEF Delivered, Follows, CutAt, Held
    <2> QED
        BY <1>0, <1>9, <2>1, SMTT(40) DEF Submit
<1>10. CASE UNCHANGED vars
    BY <1>10 DEF vars
<1> QED
    BY <1>1, <1>2, <1>3, <1>4, <1>5, <1>6, <1>7, <1>8, <1>9, <1>10, ZenonT(30)
    DEF Next, Writer, Reader, Done

\* A step that moves no record.
LEMMA StreamSame ==
    ASSUME Delivered, UNCHANGED <<pmtest_dev, tx, submitted, ends, written>>, Held' = Held
    PROVE  Delivered'
BY DEF Delivered, Follows, CutAt

\* What a part of the stream follows does not change when a record is added.
LEMMA FollowsMore ==
    ASSUME NEW s \in Seq(Types), NEW r \in Types, NEW part \in Seq(Types), NEW at \in Nat,
           at + Len(part) <= Len(s), \A k \in 1 .. Len(part) : part[k] = s[at + k]
    PROVE  /\ at + Len(part) <= Len(Append(s, r))
           /\ \A k \in 1 .. Len(part) : part[k] = Append(s, r)[at + k]
<1>1. /\ Len(part) \in Nat /\ Len(s) \in Nat /\ Len(Append(s, r)) = Len(s) + 1
      /\ \A k \in 1 .. Len(s) : Append(s, r)[k] = s[k]
    OBVIOUS
<1>2. ASSUME NEW k \in 1 .. Len(part) PROVE part[k] = Append(s, r)[at + k]
    <2>1. at + k \in 1 .. Len(s)
        BY <1>1
    <2> QED
        BY <1>1, <2>1
<1> QED
    BY <1>1, <1>2

\* The types of what the stream is cut into.
LEMMA StreamTypes ==
    ASSUME TypeOK, Delivered
    PROVE  /\ Len(written) \in Nat /\ Len(pmtest_dev) \in Nat /\ Len(tx) \in Nat
           /\ Len(submitted) \in Nat /\ Held \in Seq(Types) /\ Len(Held) \in Nat
           /\ \A i \in 1 .. Len(submitted) : submitted[i] \in Seq(Types) /\ ends[i] \in Nat
           /\ \A i \in 0 .. Len(submitted) : CutAt(i) \in Nat
<1>1. Held \in Seq(Types)
    BY KernelAssumption DEF TypeOK, Held
<1>2. \A i \in 1 .. Len(submitted) : submitted[i] \in Seq(Types) /\ ends[i] \in Nat
    BY SMTT(30) DEF TypeOK, Delivered
<1>3. \A i \in 0 .. Len(submitted) : CutAt(i) \in Nat
    BY <1>2 DEF CutAt, TypeOK
<1> QED
    BY <1>1, <1>2, <1>3 DEF TypeOK

\* The writer adds a record at the end of the stream.
LEMMA PutDelivers ==
    ASSUME TypeOK, RoomInv, Delivered, Put
    PROVE  Delivered'
<1>0. /\ Len(written) \in Nat /\ Len(pmtest_dev) \in Nat /\ Len(tx) \in Nat
      /\ Len(submitted) \in Nat /\ Held \in Seq(Types) /\ Len(Held) \in Nat
      /\ \A i \in 1 .. Len(submitted) : submitted[i] \in Seq(Types) /\ ends[i] \in Nat
      /\ \A i \in 0 .. Len(submitted) : CutAt(i) \in Nat
    BY StreamTypes
<1>1. /\ written \in Seq(Types) /\ pmtest_dev \in Seq(Types) /\ tx \in Seq(Types) /\ input \in Types
      /\ written' = Append(written, input) /\ pmtest_dev' = Append(pmtest_dev, input)
      /\ UNCHANGED <<tx, submitted, ends>> /\ Held' = Held
    BY DEF Put, WGoto, reader, TypeOK, RoomInv, Held
<1>2. /\ Len(written') = Len(written) + 1 /\ Len(pmtest_dev') = Len(pmtest_dev) + 1
      /\ \A k \in 1 .. Len(written) : written'[k] = written[k]
      /\ written'[Len(written) + 1] = input
      /\ \A k \in 1 .. Len(pmtest_dev) : pmtest_dev'[k] = pmtest_dev[k]
      /\ pmtest_dev'[Len(pmtest_dev) + 1] = input
    BY <1>1
<1>3. \A part \in Seq(Types), at \in Nat : Follows(part, at) =>
          /\ at + Len(part) <= Len(written')
          /\ \A k \in 1 .. Len(part) : part[k] = written'[at + k]
    BY <1>1, FollowsMore, ZenonT(30) DEF Follows
<1>5. \A i \in 0 .. Len(submitted) : CutAt(i)' = CutAt(i)
    BY <1>1 DEF CutAt
<1>6. ASSUME NEW i \in 1 .. Len(submitted)
      PROVE  /\ Follows(submitted[i], CutAt(i - 1))'
             /\ ends'[i] = CutAt(i - 1)' + Len(submitted'[i]) + 1
             /\ ends'[i] <= Len(written') /\ written'[ends'[i]] = "TRANSACTIONDELIM"
             /\ \A k \in 1 .. Len(submitted'[i]) : submitted'[i][k] \notin Delimiters
    <2>1. i - 1 \in 0 .. Len(submitted) /\ CutAt(i - 1) \in Nat /\ CutAt(i - 1)' = CutAt(i - 1)
        BY <1>0, <1>5
    <2>2. /\ Follows(submitted[i], CutAt(i - 1))
          /\ ends[i] = CutAt(i - 1) + Len(submitted[i]) + 1
          /\ ends[i] <= Len(written) /\ written[ends[i]] = "TRANSACTIONDELIM"
          /\ \A k \in 1 .. Len(submitted[i]) : submitted[i][k] \notin Delimiters
        BY DEF Delivered
    <2>3. Follows(submitted[i], CutAt(i - 1))'
        <3>1. /\ CutAt(i - 1) + Len(submitted[i]) <= Len(written')
              /\ \A k \in 1 .. Len(submitted[i]) : submitted[i][k] = written'[CutAt(i - 1) + k]
            BY <1>0, <1>3, <2>1, <2>2, ZenonT(30)
        <3> QED
            BY <1>1, <2>1, <3>1, ZenonT(30) DEF Follows
    <2>4. ends[i] \in 1 .. Len(written)
        <3>1. PICK n \in Nat : n = Len(submitted[i])
            BY <1>0
        <3>2. PICK a \in Nat : a = CutAt(i - 1)
            BY <2>1
        <3>3. ends[i] = a + n + 1 /\ ends[i] <= Len(written)
            BY <2>2, <3>1, <3>2
        <3> QED
            BY <1>0, <3>3
    <2> QED
        BY <1>0, <1>1, <1>2, <2>1, <2>2, <2>3, <2>4
<1> DEFINE c == CutAt(Len(submitted))
<1>7. /\ c \in Nat /\ c' = c
      /\ Follows(tx, c) /\ \A k \in 1 .. Len(tx) : tx[k] \notin Delimiters
      /\ Follows(Held, c + Len(tx)) /\ Follows(pmtest_dev, c + Len(tx) + Len(Held))
      /\ c + Len(tx) + Len(Held) + Len(pmtest_dev) = Len(written)
    BY <1>0, <1>1, <1>5 DEF Delivered
<1> HIDE DEF c
<1>8. Follows(tx, c)' /\ Follows(Held, c + Len(tx))'
    <2>1. c + Len(tx) \in Nat
        BY <1>0, <1>7
    <2>2. /\ c + Len(tx) <= Len(written')
          /\ \A k \in 1 .. Len(tx) : tx[k] = written'[c + k]
        BY <1>1, <1>3, <1>7, ZenonT(30)
    <2>3. /\ c + Len(tx) + Len(Held) <= Len(written')
          /\ \A k \in 1 .. Len(Held) : Held[k] = written'[c + Len(tx) + k]
        BY <1>0, <1>3, <1>7, <2>1
    <2> QED
        BY <1>1, <1>7, <2>2, <2>3 DEF Follows
<1>9. Follows(pmtest_dev, c + Len(tx) + Len(Held))'
    <2> DEFINE at == c + Len(tx) + Len(Held)
    <2>1. /\ at \in Nat /\ at' = at /\ at + Len(pmtest_dev) = Len(written)
          /\ \A k \in 1 .. Len(pmtest_dev) : pmtest_dev[k] = written[at + k]
        BY <1>0, <1>1, <1>7 DEF Follows
    <2> HIDE DEF at
    <2>2. ASSUME NEW k \in 1 .. Len(pmtest_dev) + 1 PROVE pmtest_dev'[k] = written'[at + k]
        <3>1. CASE k = Len(pmtest_dev) + 1
            BY <1>0, <1>2, <2>1, <3>1
        <3>2. CASE k \in 1 .. Len(pmtest_dev)
            <4>1. at + k \in 1 .. Len(written)
                BY <1>0, <2>1, <3>2
            <4> QED
                BY <1>2, <2>1, <3>2, <4>1
        <3> QED
            BY <1>0, <3>1, <3>2
    <2>3. at + Len(pmtest_dev') <= Len(written')
        BY <1>0, <1>2, <2>1
    <2>4. Follows(pmtest_dev, at)'
        BY <1>2, <2>1, <2>2, <2>3 DEF Follows
    <2> QED
        BY <2>4 DEF at
<1>10. (c + Len(tx) + Len(Held) + Len(pmtest_dev) = Len(written))'
    BY <1>0, <1>1, <1>2, <1>7
<1>11. Len(ends') = Len(submitted') /\ Len(submitted') = Len(submitted)
    BY <1>1 DEF Delivered
<1> QED
    BY <1>1, <1>6, <1>7, <1>8, <1>9, <1>10, <1>11, ZenonT(30) DEF Delivered, c

\* read() moves the first record of the FIFO to the client.
LEMMA CopyDelivers ==
    ASSUME TypeOK, Delivered, Copy, pmtest_dev # <<>>
    PROVE  Delivered'
<1> DEFINE c == CutAt(Len(submitted))
<1>0. /\ Len(written) \in Nat /\ Len(pmtest_dev) \in Nat \ {0} /\ Len(tx) \in Nat
      /\ Len(submitted) \in Nat /\ c \in Nat
    BY StreamTypes DEF TypeOK
<1>1. /\ pmtest_dev \in Seq(Types) /\ buf' = Head(pmtest_dev) /\ pmtest_dev' = Tail(pmtest_dev)
      /\ UNCHANGED <<tx, submitted, ends, written>> /\ rpc = "copy" /\ rpc' = "test_asleep"
    BY DEF Copy, RGoto, history, TypeOK
<1>2. /\ buf' = pmtest_dev[1] /\ buf' \in Types
      /\ Len(pmtest_dev') = Len(pmtest_dev) - 1
      /\ \A k \in 1 .. Len(pmtest_dev) - 1 : pmtest_dev'[k] = pmtest_dev[k + 1]
    BY <1>0, <1>1
<1>3. Held = <<>> /\ Held' = <<buf'>>
    BY <1>1, <1>2, KernelAssumption DEF Held, NoRecord
<1>4. /\ Len(Held) = 0 /\ Len(Held') = 1 /\ Held'[1] = buf'
    BY <1>3
<1>5. c' = c
    BY <1>1 DEF CutAt
<1>6. /\ c + Len(tx) + Len(pmtest_dev) = Len(written)
      /\ \A k \in 1 .. Len(pmtest_dev) : pmtest_dev[k] = written[c + Len(tx) + k]
    BY <1>0, <1>4 DEF Delivered, Follows
<1>7. \A i \in 1 .. Len(submitted) :
          /\ Follows(submitted[i], CutAt(i - 1))'
          /\ ends'[i] = CutAt(i - 1)' + Len(submitted'[i]) + 1
          /\ ends'[i] <= Len(written') /\ written'[ends'[i]] = "TRANSACTIONDELIM"
          /\ \A k \in 1 .. Len(submitted'[i]) : submitted'[i][k] \notin Delimiters
    BY <1>1 DEF Delivered, Follows, CutAt
<1>8. Follows(tx, c)' /\ \A k \in 1 .. Len(tx') : tx'[k] \notin Delimiters
    BY <1>1, <1>5 DEF Delivered, Follows
<1> HIDE DEF c
<1>9. Follows(Held, c + Len(tx))'
    BY <1>0, <1>1, <1>2, <1>4, <1>5, <1>6, SMTT(30) DEF Follows
<1>10. Follows(pmtest_dev, c + Len(tx) + Len(Held))'
    <2>1. ASSUME NEW k \in 1 .. Len(pmtest_dev) - 1
          PROVE  pmtest_dev'[k] = written[c + Len(tx) + 1 + k]
        <3>1. k + 1 \in 1 .. Len(pmtest_dev) /\ c + Len(tx) + (k + 1) = c + Len(tx) + 1 + k
            BY <1>0
        <3> QED
            BY <1>2, <1>6, <3>1
    <2> QED
        BY <1>0, <1>1, <1>2, <1>4, <1>5, <1>6, <2>1 DEF Follows
<1>11. (c + Len(tx) + Len(Held) + Len(pmtest_dev) = Len(written))'
    BY <1>0, <1>1, <1>2, <1>4, <1>5, <1>6
<1>12. Len(ends') = Len(submitted') /\ Len(submitted') = Len(submitted)
    BY <1>1 DEF Delivered
<1> QED
    BY <1>7, <1>8, <1>9, <1>10, <1>11, <1>12 DEF Delivered, c

\* The client adds the record it has read to its trace.
LEMMA CollectDelivers ==
    ASSUME TypeOK, Delivered, Collect
    PROVE  Delivered'
<1> DEFINE c == CutAt(Len(submitted))
<1>0. /\ Len(written) \in Nat /\ Len(pmtest_dev) \in Nat /\ Len(tx) \in Nat
      /\ Len(submitted) \in Nat /\ c \in Nat
    BY StreamTypes DEF TypeOK
<1>1. /\ tx \in Seq(Types) /\ tx' = Append(tx, buf) /\ buf \in Types /\ buf \notin Delimiters
      /\ UNCHANGED <<pmtest_dev, submitted, ends, written>> /\ rpc = "return" /\ rpc' = "copy"
      /\ buf # NoRecord
    BY DEF Collect, RGoto, history, kernel, TypeOK
<1>2. /\ Len(tx') = Len(tx) + 1 /\ tx'[Len(tx) + 1] = buf
      /\ \A k \in 1 .. Len(tx) : tx'[k] = tx[k]
    BY <1>1
<1>3. Held = <<buf>> /\ Held' = <<>>
    BY <1>1 DEF Held
<1>4. Len(Held) = 1 /\ Held[1] = buf /\ Len(Held') = 0
    BY <1>3
<1>5. c' = c
    BY <1>1 DEF CutAt
<1>6. /\ c + Len(tx) + 1 + Len(pmtest_dev) = Len(written)
      /\ \A k \in 1 .. Len(pmtest_dev) : pmtest_dev[k] = written[c + Len(tx) + 1 + k]
      /\ \A k \in 1 .. Len(tx) : tx[k] = written[c + k] /\ tx[k] \notin Delimiters
      /\ written[c + Len(tx) + 1] = buf
    BY <1>0, <1>4 DEF Delivered, Follows
<1>7. \A i \in 1 .. Len(submitted) :
          /\ Follows(submitted[i], CutAt(i - 1))'
          /\ ends'[i] = CutAt(i - 1)' + Len(submitted'[i]) + 1
          /\ ends'[i] <= Len(written') /\ written'[ends'[i]] = "TRANSACTIONDELIM"
          /\ \A k \in 1 .. Len(submitted'[i]) : submitted'[i][k] \notin Delimiters
    BY <1>1 DEF Delivered, Follows, CutAt
<1> HIDE DEF c
<1>8. Follows(tx, c)' /\ \A k \in 1 .. Len(tx') : tx'[k] \notin Delimiters
    <2>1. ASSUME NEW k \in 1 .. Len(tx) + 1
          PROVE  tx'[k] = written[c + k] /\ tx'[k] \notin Delimiters
        <3>1. CASE k = Len(tx) + 1
            <4>1. c + k = c + Len(tx) + 1
                BY <1>0, <3>1
            <4> QED
                BY <1>1, <1>2, <1>6, <3>1, <4>1
        <3>2. CASE k \in 1 .. Len(tx)
            BY <1>2, <1>6, <3>2
        <3> QED
            BY <1>0, <3>1, <3>2
    <2> QED
        BY <1>0, <1>1, <1>2, <1>5, <1>6, <2>1 DEF Follows
<1>9. Follows(Held, c + Len(tx))'
    BY <1>0, <1>1, <1>2, <1>4, <1>5, <1>6 DEF Follows
<1>10. Follows(pmtest_dev, c + Len(tx) + Len(Held))'
    <2>1. (c + Len(tx) + Len(Held))' = c + Len(tx) + 1
        BY <1>0, <1>2, <1>4, <1>5
    <2> QED
        BY <1>0, <1>1, <1>6, <2>1 DEF Follows
<1>11. (c + Len(tx) + Len(Held) + Len(pmtest_dev) = Len(written))'
    BY <1>0, <1>1, <1>2, <1>4, <1>5, <1>6
<1>12. Len(ends') = Len(submitted') /\ Len(submitted') = Len(submitted)
    BY <1>1 DEF Delivered
<1> QED
    BY <1>7, <1>8, <1>9, <1>10, <1>11, <1>12 DEF Delivered, c

\* The client cuts the stream at the delimiter it has read.
LEMMA SubmitDelivers ==
    ASSUME TypeOK, Delivered, Submit
    PROVE  Delivered'
<1> DEFINE n == Len(submitted)
           c == CutAt(n)
<1>0. /\ Len(written) \in Nat /\ Len(pmtest_dev) \in Nat /\ Len(tx) \in Nat
      /\ n \in Nat /\ c \in Nat /\ Len(ends) = n
    BY StreamTypes DEF TypeOK, Delivered
<1>1. /\ submitted \in Seq(Seq(Types)) /\ submitted' = Append(submitted, tx) /\ tx \in Seq(Types)
      /\ ends \in Seq(Nat) /\ ends' = Append(ends, Len(written) - Len(pmtest_dev)) /\ tx' = <<>>
      /\ UNCHANGED <<pmtest_dev, written>> /\ rpc = "return" /\ rpc' = "copy"
      /\ buf = "TRANSACTIONDELIM" /\ buf # NoRecord
    BY DEF Submit, RGoto, kernel, TypeOK, NoRecord
<1>2. Len(Held) = 1 /\ Held[1] = buf /\ Len(Held') = 0 /\ Len(tx') = 0
    BY <1>1 DEF Held
<1>3. /\ c + Len(tx) + 1 + Len(pmtest_dev) = Len(written)
      /\ \A k \in 1 .. Len(pmtest_dev) : pmtest_dev[k] = written[c + Len(tx) + 1 + k]
      /\ \A k \in 1 .. Len(tx) : tx[k] = written[c + k] /\ tx[k] \notin Delimiters
      /\ written[c + Len(tx) + 1] = buf
    BY <1>0, <1>2 DEF Delivered, Follows
<1>4. /\ Len(submitted') = n + 1 /\ submitted'[n + 1] = tx
      /\ \A i \in 1 .. n : submitted'[i] = submitted[i]
    BY <1>1
<1>5. Len(written) - Len(pmtest_dev) = c + Len(tx) + 1
    BY <1>0, <1>3
<1>6. /\ Len(ends') = n + 1 /\ ends'[n + 1] = c + Len(tx) + 1
      /\ \A i \in 1 .. n : ends'[i] = ends[i]
    <2>1. c + Len(tx) + 1 \in Nat /\ ends' = Append(ends, c + Len(tx) + 1)
        BY <1>0, <1>1, <1>5
    <2> QED
        BY <1>0, <1>1, <2>1
<1>7. \A i \in 0 .. n : CutAt(i)' = CutAt(i)
    BY <1>6 DEF CutAt
<1>9. ASSUME NEW i \in 1 .. n + 1
      PROVE  /\ Follows(submitted[i], CutAt(i - 1))'
             /\ ends'[i] = CutAt(i - 1)' + Len(submitted'[i]) + 1
             /\ ends'[i] <= Len(written') /\ written'[ends'[i]] = "TRANSACTIONDELIM"
             /\ \A k \in 1 .. Len(submitted'[i]) : submitted'[i][k] \notin Delimiters
    <2>1. CASE i = n + 1
        <3>1. i - 1 = n /\ CutAt(i - 1)' = c
            BY <1>0, <1>7, <2>1
        <3>2. /\ c + Len(tx) <= Len(written)
              /\ \A k \in 1 .. Len(tx) : tx[k] = written[c + k]
            BY <1>0, <1>3, SMTT(30)
        <3>3. Follows(submitted[i], CutAt(i - 1))'
            BY <1>1, <1>4, <2>1, <3>1, <3>2 DEF Follows
        <3> QED
            BY <1>0, <1>1, <1>3, <1>4, <1>6, <2>1, <3>1, <3>3, SMTT(30)
    <2>2. CASE i \in 1 .. n
        <3>1. i - 1 \in 0 .. n /\ CutAt(i - 1)' = CutAt(i - 1)
            BY <1>0, <1>7, <2>2
        <3>2. /\ submitted'[i] = submitted[i] /\ ends'[i] = ends[i]
              /\ Follows(submitted[i], CutAt(i - 1))
              /\ ends[i] = CutAt(i - 1) + Len(submitted[i]) + 1
              /\ ends[i] <= Len(written) /\ written[ends[i]] = "TRANSACTIONDELIM"
              /\ \A k \in 1 .. Len(submitted[i]) : submitted[i][k] \notin Delimiters
            BY <1>4, <1>6, <2>2 DEF Delivered
        <3> QED
            BY <1>1, <3>1, <3>2, ZenonT(30) DEF Follows
    <2> QED
        BY <1>0, <2>1, <2>2
<1>10. CutAt(Len(submitted))' = c + Len(tx) + 1
    <2>1. n + 1 # 0
        BY <1>0
    <2> QED
        BY <1>4, <1>6, <2>1 DEF CutAt
<1> HIDE DEF c, n
<1>11. /\ Follows(tx, CutAt(Len(submitted)))' /\ \A k \in 1 .. Len(tx') : tx'[k] \notin Delimiters
       /\ Follows(Held, CutAt(Len(submitted)) + Len(tx))'
    BY <1>0, <1>1, <1>2, <1>3, <1>10 DEF Follows
<1>12. /\ Follows(pmtest_dev, CutAt(Len(submitted)) + Len(tx) + Len(Held))'
       /\ (CutAt(Len(submitted)) + Len(tx) + Len(Held) + Len(pmtest_dev) = Len(written))'
    <2>1. (CutAt(Len(submitted)) + Len(tx) + Len(Held))' = c + Len(tx) + 1
        BY <1>0, <1>2, <1>10
    <2>2. /\ c + Len(tx) + 1 + Len(pmtest_dev') = Len(written')
          /\ \A k \in 1 .. Len(pmtest_dev') : pmtest_dev'[k] = written'[c + Len(tx) + 1 + k]
        BY <1>1, <1>3, Zenon
    <2>3. c + Len(tx) + 1 + Len(pmtest_dev') <= Len(written')
        BY <1>0, <1>1, <2>2
    <2> QED
        BY <2>1, <2>2, <2>3, Zenon DEF Follows
<1> QED
    BY <1>4, <1>6, <1>9, <1>11, <1>12 DEF Delivered

\* Nothing has been written at the start.
LEMMA InitDelivered == Init => Delivered
BY DEF Init, Delivered, Follows, CutAt, Held

\* Every step keeps the records of the stream in order and each in one place.
LEMMA NextDelivered ==
    ASSUME TypeOK, RoomInv, Delivered, [Next]_vars
    PROVE  Delivered'
<1> USE DEF WGoto, RGoto, kernel, writer, reader, history
<1>1. CASE Start \/ End \/ \E type \in Types : Create(type)
    <2>1. UNCHANGED <<pmtest_dev, tx, submitted, ends, written>> /\ Held' = Held
        BY <1>1 DEF Start, End, Create, Held
    <2> QED
        BY <2>1, StreamSame
<1>2. CASE TestAvail \/ TestFull \/ SetAsleep \/ Wait \/ Sleep \/ Interrupt
    <2>1. UNCHANGED <<pmtest_dev, tx, submitted, ends, written>> /\ Held' = Held
        BY <1>2, SMTT(40) DEF TestAvail, TestFull, SetAsleep, Wait, Sleep, Interrupt, Held
    <2> QED
        BY <2>1, StreamSame
<1>3. CASE Copy /\ pmtest_dev = <<>>
    <2>1. UNCHANGED <<pmtest_dev, tx, submitted, ends, written>> /\ Held' = Held
        BY <1>3 DEF Copy, Held
    <2> QED
        BY <2>1, StreamSame
<1>4. CASE TestAsleep \/ TestRoom \/ WakeUp \/ ClearAsleep \/ Poll \/ Leave
    <2>1. UNCHANGED <<pmtest_dev, tx, submitted, ends, written>> /\ Held' = Held
        BY <1>4, SMTT(40) DEF TestAsleep, TestRoom, WakeUp, ClearAsleep, Poll, Leave, Held
    <2> QED
        BY <2>1, StreamSame
<1>5. CASE UNCHANGED vars
    <2>1. UNCHANGED <<pmtest_dev, tx, submitted, ends, written>> /\ Held' = Held
        BY <1>5 DEF vars, Held
    <2> QED
        BY <2>1, StreamSame
<1> QED
    BY <1>1, <1>2, <1>3, <1>4, <1>5, PutDelivers, CopyDelivers, CollectDelivers, SubmitDelivers, Zenon
    DEF Next, Writer, Reader, Done

\* What the stream needs to be delivered.
StreamInv == TypeOK /\ RoomInv /\ Delivered

\* Every step keeps the types, the room and the stream.
LEMMA StreamInvariance == Spec => []StreamInv
<1>1. Init => StreamInv
    BY InitTypeOK, InitRoomInv, InitDelivered DEF StreamInv
<1>2. StreamInv /\ [Next]_vars => StreamInv'
    BY NextRoomInv, NextTypeOK, NextDelivered DEF StreamInv
<1> QED
    BY <1>1, <1>2, PTL DEF Spec

\* The FIFO, the flag and the client's state stay in their ranges, for every
\* length, threshold and record.
THEOREM KernelTypeCorrect == Spec => []TypeOK
<1>1. StreamInv => TypeOK
    BY DEF StreamInv
<1> QED
    BY <1>1, StreamInvariance, PTL

\* For every length and threshold, whatever the interleaving of the writer and
\* the client: no record that was put into the FIFO is lost, duplicated or
\* reordered, and the client's traces are the parts between the delimiters.
THEOREM StreamDelivered == Spec => []Delivered
<1>1. StreamInv => Delivered
    BY DEF StreamInv
<1> QED
    BY <1>1, StreamInvariance, PTL

=============================================================================
