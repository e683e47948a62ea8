----------------------------- MODULE KernelFifo -----------------------------
(***************************************************************************)
(* Testing a kernel module: src/src/kernel_module.c and                    *)
(* src/src/kernel_client.cc.  Code in the kernel records operations in a   *)
(* kfifo (PMTestFifoWrite), and sleeps while the kfifo is full.  A client  *)
(* process reads them from /proc/pmtest (PMTestDeviceRead), cuts them into *)
(* traces (read_transaction) and submits these to the worker pool.         *)
(*                                                                         *)
(* There is one writer: a kfifo is safe for one writer and one reader      *)
(* without a lock, and the code takes none.  kfifo_put and kfifo_to_user   *)
(* are atomic then.  The flag asleep is an unprotected int, and each       *)
(* access to it is a step.  Of a record only its type matters here.        *)
(***************************************************************************)
EXTENDS Integers, Sequences, SequencesExt

CONSTANTS
    KFIFO_LEN, KFIFO_THRESHOLD_LEN,
    Types,              \* the types of the records the kernel code creates
    PMTEST_EXCLUDE,     \* TRUE if Exclude and Include are compiled in
    MaxRecords,         \* bound: calls of kC_createMetadata_*
    Signals             \* TRUE if a sleeping writer may be sent a signal

ASSUME KernelAssumption ==
    /\ KFIFO_LEN \in Nat \ {0}
    /\ KFIFO_THRESHOLD_LEN \in 1 .. KFIFO_LEN
    /\ PMTEST_EXCLUDE \in BOOLEAN /\ Signals \in BOOLEAN
    /\ MaxRecords \in Nat
    /\ Types \subseteq STRING /\ "none" \notin Types

VARIABLES
    pmtest_dev,         \* the contents of the kfifo
    existVeriInstance,
    asleep,
    wpc, input,         \* control of the writer, and the record it writes
    rpc, buf,           \* control of the client, and the record it has read
    tx,                 \* the trace being read
    submitted,          \* the traces passed to execVeri
    \* history
    calls,              \* how many records the kernel code has asked for
    written,            \* the records put into the kfifo
    ends,               \* where in written the submitted traces end
    lost,               \* how many were not, although tracking was on
    interrupted         \* 1 once a signal has ended a wait

kernel == <<pmtest_dev, existVeriInstance, asleep>>
writer == <<wpc, input>>
reader == <<rpc, buf, tx, submitted>>
history == <<calls, written, ends, lost, interrupted>>
vars == <<kernel, writer, reader, history>>

NoRecord == "none"

\* The records that structure the stream and are not part of any trace
Delimiters == {"TRANSACTIONDELIM", "ENDING"}

kfifo_avail == KFIFO_LEN - Len(pmtest_dev)

Init ==
    /\ pmtest_dev = <<>>
    /\ existVeriInstance = 0
    /\ asleep = 0
    /\ wpc = "idle" /\ input = NoRecord
    /\ rpc = "copy" /\ buf = NoRecord
    /\ tx = <<>> /\ submitted = <<>>
    /\ calls = 0 /\ written = <<>> /\ ends = <<>> /\ lost = 0 /\ interrupted = 0

WGoto(from, to) == wpc = from /\ wpc' = to
RGoto(from, to) == rpc = from /\ rpc' = to

-----------------------------------------------------------------------------
(* The kernel code under test, which ends its last trace with ENDING.      *)

Start ==
    /\ wpc = "idle" /\ existVeriInstance = 0
    /\ existVeriInstance' = 1
    /\ UNCHANGED <<pmtest_dev, asleep, writer, reader, history>>

End ==
    /\ wpc = "idle" /\ existVeriInstance = 1
    /\ existVeriInstance' = 0
    /\ UNCHANGED <<pmtest_dev, asleep, writer, reader, history>>

\* kC_createMetadata_Exclude and _Include are empty without PMTEST_EXCLUDE.
Compiled(type) == type \in {"EXCLUDE", "INCLUDE"} => PMTEST_EXCLUDE

\* The kC_createMetadata_* functions differ in what they fill in.
Create(type) ==
    /\ wpc = "idle" /\ calls < MaxRecords
    /\ input # "ENDING"
    /\ calls' = calls + 1
    /\ IF existVeriInstance # 0 /\ Compiled(type)
       THEN wpc' = "test" /\ input' = type
       ELSE UNCHANGED writer
    /\ UNCHANGED <<kernel, reader, written, ends, lost, interrupted>>

-----------------------------------------------------------------------------
(* PMTestFifoWrite                                                         *)

TestAvail ==
    /\ WGoto("test", IF kfifo_avail > 0 THEN "put" ELSE "full")
    /\ lost' = IF kfifo_avail > 0 THEN lost ELSE lost + 1
    /\ UNCHANGED <<kernel, input, reader, calls, written, ends, interrupted>>

Put ==
    /\ WGoto("put", "full")
    /\ pmtest_dev' = Append(pmtest_dev, input)
    /\ written' = Append(written, input)
    /\ UNCHANGED <<existVeriInstance, asleep, input, reader, calls, ends, lost, interrupted>>

TestFull ==
    /\ WGoto("full", IF kfifo_avail = 0 THEN "asleep" ELSE "idle")
    /\ UNCHANGED <<kernel, input, reader, history>>

\* Mutant: the flag is used as a counter.
SetAsleepCounts ==
    /\ WGoto("asleep", "wait")
    /\ asleep' = asleep + 1
    /\ UNCHANGED <<pmtest_dev, existVeriInstance, input, reader, history>>

SetAsleep ==
    /\ WGoto("asleep", "wait")
    /\ asleep' = 1
    /\ UNCHANGED <<pmtest_dev, existVeriInstance, input, reader, history>>

\* Mutant: the comparison is with 0.
RoomAlways == kfifo_avail >= 0

\* The condition of wait_event_interruptible
Room == kfifo_avail >= KFIFO_THRESHOLD_LEN

\* wait_event_interruptible tests the condition, enters the wait queue, tests
\* it again and sleeps; whoever is woken starts over.
Wait ==
    /\ WGoto("wait", IF Room THEN "idle" ELSE "queued")
    /\ UNCHANGED <<kernel, input, reader, history>>

Sleep ==
    /\ WGoto("queued", IF Room THEN "idle" ELSE "sleeping")
    /\ UNCHANGED <<kernel, input, reader, history>>

\* A signal ends the wait; its result is not looked at.
Interrupt ==
    /\ Signals
    /\ WGoto("sleeping", "idle")
    /\ interrupted' = 1
    /\ UNCHANGED <<kernel, input, reader, calls, written, ends, lost>>

-----------------------------------------------------------------------------
(* The client: read() is PMTestDeviceRead.                                 *)

Copy ==
    /\ RGoto("copy", "test_asleep")
    /\ IF pmtest_dev = <<>>
       THEN buf' = NoRecord /\ UNCHANGED pmtest_dev
       ELSE buf' = Head(pmtest_dev) /\ pmtest_dev' = Tail(pmtest_dev)
    /\ UNCHANGED <<existVeriInstance, asleep, writer, tx, submitted, history>>

TestAsleep ==
    /\ RGoto("test_asleep", IF asleep # 0 THEN "test_room" ELSE "return")
    /\ UNCHANGED <<kernel, writer, buf, tx, submitted, history>>

\* Mutant: reaching the threshold is not enough.
TestRoomStrict ==
    /\ RGoto("test_room", IF kfifo_avail > KFIFO_THRESHOLD_LEN THEN "wake" ELSE "return")
    /\ UNCHANGED <<kernel, writer, buf, tx, submitted, history>>

TestRoom ==
    /\ RGoto("test_room", IF Room THEN "wake" ELSE "return")
    /\ UNCHANGED <<kernel, writer, buf, tx, submitted, history>>

WakeUp ==
    /\ RGoto("wake", "clear")
    /\ wpc' = IF wpc \in {"queued", "sleeping"} THEN "wait" ELSE wpc
    /\ UNCHANGED <<kernel, input, buf, tx, submitted, history>>

ClearAsleep ==
    /\ RGoto("clear", "return")
    /\ asleep' = 0
    /\ UNCHANGED <<pmtest_dev, existVeriInstance, writer, buf, tx, submitted, history>>

\* read returned 1: the client sleeps and polls again.
Poll ==
    /\ RGoto("return", "copy")
    /\ buf = NoRecord
    /\ UNCHANGED <<kernel, writer, buf, tx, submitted, history>>

Collect ==
    /\ RGoto("return", "copy")
    /\ buf \notin Delimiters \cup {NoRecord}
    /\ tx' = Append(tx, buf)
    /\ UNCHANGED <<kernel, writer, buf, submitted, history>>

\* Mutant: the vector of the last trace is used again.
SubmitAgain ==
    /\ RGoto("return", "copy")
    /\ buf = "TRANSACTIONDELIM"
    /\ submitted' = Append(submitted, tx)
    /\ ends' = Append(ends, Len(written) - Len(pmtest_dev))
    /\ UNCHANGED <<kernel, writer, buf, tx, calls, written, lost, interrupted>>

\* read_transaction returns 0, and main passes the trace to execVeri.
Submit ==
    /\ RGoto("return", "copy")
    /\ buf = "TRANSACTIONDELIM"
    /\ submitted' = Append(submitted, tx)
    /\ tx' = <<>>
    /\ ends' = Append(ends, Len(written) - Len(pmtest_dev))
    /\ UNCHANGED <<kernel, writer, buf, calls, written, lost, interrupted>>

\* Mutant: the result -1 of read_transaction is ignored.
LeaveNot ==
    /\ RGoto("return", "copy")
    /\ buf = "ENDING"
    /\ UNCHANGED <<kernel, writer, buf, tx, submitted, history>>

\* read_transaction returns -1: the loop ends, and after getVeri the client.
Leave ==
    /\ RGoto("return", "done")
    /\ buf = "ENDING"
    /\ UNCHANGED <<kernel, writer, buf, tx, submitted, history>>

Done == rpc = "done" /\ UNCHANGED vars

-----------------------------------------------------------------------------
Writer ==
    \/ TestAvail \/ Put \/ TestFull \/ SetAsleep \/ Wait \/ Sleep

Reader ==
    \/ Copy \/ TestAsleep \/ TestRoom \/ WakeUp \/ ClearAsleep
    \/ Poll \/ Collect \/ Submit \/ Leave

Next ==
    \/ Start \/ End \/ \E type \in Types : Create(type)
    \/ Writer \/ Interrupt \/ Reader \/ Done

Spec == Init /\ [][Next]_vars

\* Both threads run; what the kernel code records is up to it.
FairSpec == Spec /\ WF_vars(Writer) /\ WF_vars(Reader)

-----------------------------------------------------------------------------
(* Properties                                                              *)

\* The type of every variable.
TypeOK ==
    /\ pmtest_dev \in Seq(Types) /\ Len(pmtest_dev) <= KFIFO_LEN
    /\ existVeriInstance \in {0, 1} /\ asleep \in {0, 1}
    /\ wpc \in {"idle", "test", "put", "full", "asleep", "wait", "queued", "sleeping"}
    /\ rpc \in {"copy", "test_asleep", "test_room", "wake", "clear", "return", "done"}
    /\ input \in Types \cup {NoRecord} /\ buf \in Types \cup {NoRecord}
    /\ tx \in Seq(Types) /\ submitted \in Seq(Seq(Types))
    /\ calls \in 0 .. MaxRecords /\ written \in Seq(Types) /\ ends \in Seq(Nat) /\ lost \in Nat
    /\ interrupted \in {0, 1}

\* The records of written from position "at" on begin with those of part.
Follows(part, at) ==
    /\ at + Len(part) <= Len(written)
    /\ \A k \in 1 .. Len(part) : part[k] = written[at + k]

\* Where in written the i-th submitted trace ends, with its delimiter.
CutAt(i) == IF i = 0 THEN 0 ELSE ends[i]

\* The record the client has read and not put anywhere.
Held == IF rpc = "copy" \/ buf = NoRecord THEN <<>> ELSE <<buf>>

\* Every record that was put into the kfifo is, in order and once, in a
\* submitted trace, in the trace being read, with the client or still in the
\* kfifo, and the traces are cut exactly at the delimiters.
Delivered ==
    /\ Len(ends) = Len(submitted)
    /\ \A i \in 1 .. Len(submitted) :
        /\ Follows(submitted[i], CutAt(i - 1))
        /\ ends[i] = CutAt(i - 1) + Len(submitted[i]) + 1
        /\ ends[i] <= Len(written) /\ written[ends[i]] = "TRANSACTIONDELIM"
        /\ \A k \in 1 .. Len(submitted[i]) : submitted[i][k] \notin Delimiters
    /\ LET read == CutAt(Len(submitted))
           taken == read + Len(tx) + Len(Held)
       IN  /\ Follows(tx, read) /\ \A k \in 1 .. Len(tx) : tx[k] \notin Delimiters
           /\ Follows(Held, read + Len(tx))
           /\ Follows(pmtest_dev, taken) /\ taken + Len(pmtest_dev) = Len(written)

\* A record is dropped only after a signal has ended a wait: a writer that
\* waits for room finds room.
DropsOnlyAfterSignal == lost > 0 => interrupted = 1

\* A sleeping writer whose flag is up sleeps only as long as there is no room,
\* or until the reader has come to wake it.
FlagWakes ==
    wpc = "sleeping" /\ asleep = 1 /\ Room => rpc \in {"test_asleep", "test_room", "wake"}

\* Once ENDING is written the client comes to its end.
EndingEnds == (written # <<>> /\ Last(written) = "ENDING") ~> rpc = "done"

\* Each call of PMTestFifoWrite returns, as long as the client reads.
WriteReturns == wpc = "test" ~> (wpc = "idle" \/ rpc = "done")

=============================================================================
