------------------------------- MODULE JtagUart -------------------------------
(***************************************************************************)
(* The console: the interrupt-driven driver of the JTAG UART (fast driver, *)
(* no operating system) with the system clock whose alarm tells it that    *)
(* the host is gone.  Two rings of BUF_LEN bytes lie between the program's *)
(* calls and the interrupt routine, without a lock: each side moves one    *)
(* index of each ring and reads the other.                                 *)
(*                                                                         *)
(* The calls run in the program's thread, told apart by pc:                *)
(*   idle                                                                  *)
(*   look, copy, publish, kick, spin             altera_avalon_jtag_uart_write *)
(*   rlook, rcopy, rpublish, rspin, renable      altera_avalon_jtag_uart_read  *)
(*   drain                                       altera_avalon_jtag_uart_close *)
(* The interrupt routine (isr: loop, rx, tx) runs between any two of their *)
(* steps and to its end; the timer's is one step.  The host takes and sends*)
(* bytes at any time, also between the routine's accesses to the chip.     *)
(***************************************************************************)
EXTENDS SystemClock, Sequences

CONSTANTS
  BUF_LEN,        \* 2048
  FifoLen,        \* the chip's own fifos: 64 bytes each way
  Timeout,        \* seconds without activity after which the host is gone: 10
  MaxCount,       \* the longest call
  Programs,       \* which of the calls "write", "read", "close" a program makes
  Typed,          \* bound: bytes the host sends to a program that never reads
  Numbers         \* bytes are told apart by their number modulo this

ASSUME JtagAssumption ==
  /\ BUF_LEN \in Nat /\ BUF_LEN >= 2 /\ FifoLen \in Nat \ {0}
  /\ Timeout \in Nat \ {0} /\ MaxCount \in Nat \ {0} /\ Numbers \in Nat \ {0}
  /\ Typed \in Nat
  /\ Programs \subseteq SUBSET {"write", "read", "close"}

VARIABLES
  calls,                                \* those this program makes
  irq_enable, host_inactive,            \* altera_avalon_jtag_uart_state
  rx_in, rx_out, rx_buf, tx_in, tx_out, tx_buf,
  pc, count, n, seen, block, moved,     \* the call: bytes to go, bytes of this round, the
                                        \* other side's index as it was read, ~O_NONBLOCK,
                                        \* ptr # buffer
  isr, space, wi, ravail,           \* the interrupt routine and what it has read
  ac, tx_fifo, rx_fifo,                 \* the chip: activity, the two fifos
  tx_next, rx_next                      \* the numbers of the next bytes each way

ringVars == <<rx_in, rx_out, rx_buf, tx_in, tx_out, tx_buf>>
callVars == <<pc, count, n, seen, block, moved>>
isrVars  == <<isr, space, wi, ravail>>
chipVars == <<ac, tx_fifo, rx_fifo>>
jtagVars == <<calls, clockVars, irq_enable, host_inactive, ringVars, callVars, isrVars, chipVars,
              tx_next, rx_next>>

Index == 0 .. BUF_LEN - 1
Byte  == 0 .. Numbers - 1

Wrap_Late(i) == IF i <= BUF_LEN THEN i ELSE i - BUF_LEN

Wrap(i) == IF i < BUF_LEN THEN i ELSE i - BUF_LEN

JtagTypeOK ==
  /\ ClockTypeOK /\ calls \in Programs
  /\ irq_enable \subseteq {"RE", "WE"} /\ host_inactive \in 0 .. Timeout
  /\ {rx_in, rx_out, tx_in, tx_out} \subseteq Index
  /\ rx_buf \in [Index -> Byte] /\ tx_buf \in [Index -> Byte]
  /\ pc \in {"idle", "look", "copy", "publish", "kick", "spin",
             "rlook", "rcopy", "rpublish", "rspin", "renable", "drain"}
  /\ count \in 0 .. MaxCount /\ n \in 0 .. MaxCount /\ n < BUF_LEN /\ seen \in Index
  /\ block \in BOOLEAN /\ moved \in BOOLEAN
  /\ isr \in {"none", "loop", "rx", "tx"} /\ space \in 0 .. FifoLen
  /\ wi \in BOOLEAN /\ ravail \in BOOLEAN
  /\ ac \in BOOLEAN
  /\ tx_fifo \in Seq(Byte) /\ Len(tx_fifo) <= FifoLen
  /\ rx_fifo \in Seq(Byte) /\ Len(rx_fifo) <= FifoLen
  /\ tx_next \in Byte /\ rx_next \in Byte
-----------------------------------------------------------------------------
\* altera_avalon_jtag_uart_init: receive interrupts on, the alarm started.
JtagInit ==
  /\ AlarmStart
  /\ calls \in Programs
  /\ irq_enable = {"RE"} /\ host_inactive = 0
  /\ rx_in = 0 /\ rx_out = 0 /\ tx_in = 0 /\ tx_out = 0
  /\ rx_buf = [i \in Index |-> 0] /\ tx_buf = [i \in Index |-> 0]
  /\ pc = "idle" /\ count = 0 /\ n = 0 /\ seen = 0 /\ block = FALSE /\ moved = FALSE
  /\ isr = "none" /\ space = 0 /\ wi = FALSE /\ ravail = FALSE
  /\ ac = FALSE /\ tx_fifo = <<>> /\ rx_fifo = <<>>
  /\ tx_next = 0 /\ rx_next = 0
-----------------------------------------------------------------------------
\* The calls.  None of them runs while the interrupt routine does.
Least(a, b) == IF a < b THEN a ELSE b

\* A call begins at `first` with c bytes to move.
Call(first, c, blocking) ==
  /\ pc = "idle"
  /\ pc' = first /\ count' = c /\ block' = blocking
  /\ n' = 0 /\ seen' = 0 /\ moved' = FALSE

Go(next) == pc' = next

Return ==
  /\ pc' = "idle" /\ count' = 0 /\ n' = 0 /\ seen' = 0 /\ block' = FALSE /\ moved' = FALSE

Room_Full(in, out) == IF in < out THEN out - in ELSE BUF_LEN - in

\* Bytes that may be written from `in` on without reaching `out`, in one piece.
Room(in, out) ==
  IF in < out THEN out - 1 - in
  ELSE IF out > 0 THEN BUF_LEN - in
  ELSE BUF_LEN - 1 - in

WriteLook ==
  /\ pc = "look"
  /\ LET room == Room(tx_in, tx_out)
     IN  /\ seen' = tx_out /\ n' = Least(room, count)
         /\ Go(IF room = 0 THEN "kick" ELSE "copy")
  /\ UNCHANGED <<count, block, moved, ringVars, irq_enable, tx_next>>

WriteCopy ==
  /\ pc = "copy"
  /\ tx_buf' = [i \in Index |-> IF i >= tx_in /\ i < tx_in + n
                                THEN (tx_next + i - tx_in) % Numbers ELSE tx_buf[i]]
  /\ count' = count - n
  /\ Go("publish")
  /\ UNCHANGED <<n, seen, block, moved, rx_in, rx_out, rx_buf, tx_in, tx_out, irq_enable, tx_next>>

WritePublish ==
  /\ pc = "publish"
  /\ tx_in' = Wrap(tx_in + n)
  /\ tx_next' = (tx_next + n) % Numbers
  /\ Go(IF count > 0 THEN "look" ELSE "kick") /\ n' = 0
  /\ UNCHANGED <<count, seen, block, moved, rx_in, rx_out, rx_buf, tx_out, tx_buf, irq_enable>>

Kick_OnlyWhenDone ==
  /\ pc = "kick"
  /\ irq_enable' = IF count > 0 THEN irq_enable ELSE irq_enable \cup {"WE"}
  /\ IF count > 0 /\ block
     THEN Go("spin") /\ UNCHANGED <<count, n, seen, block, moved>>
     ELSE Return
  /\ UNCHANGED <<ringVars, tx_next>>

\* With interrupts disabled; then either done, or back at once, or wait.
Kick ==
  /\ pc = "kick"
  /\ irq_enable' = irq_enable \cup {"WE"}
  /\ IF count > 0 /\ block
     THEN Go("spin") /\ UNCHANGED <<count, n, seen, block, moved>>
     ELSE Return
  /\ UNCHANGED <<ringVars, tx_next>>

HostGone == host_inactive >= Timeout

WriteSpin ==
  /\ pc = "spin"
  /\ seen # tx_out \/ HostGone
  /\ IF host_inactive > 0 THEN Return
     ELSE Go("look") /\ UNCHANGED <<count, n, seen, block, moved>>
  /\ UNCHANGED <<ringVars, irq_enable, tx_next>>

Drain ==
  /\ pc = "drain"
  /\ tx_out = tx_in \/ HostGone \/ ~block
  /\ Return
  /\ UNCHANGED <<ringVars, irq_enable, tx_next>>
-----------------------------------------------------------------------------
\* Bytes that may be read from `out` on without reaching `in`, in one piece.
Held(in, out) == IF in >= out THEN in - out ELSE BUF_LEN - out

ReadLook ==
  /\ pc = "rlook"
  /\ LET held == Held(rx_in, rx_out)
     IN  /\ seen' = rx_in /\ n' = Least(held, count)
         /\ Go(IF held > 0 THEN "rcopy" ELSE IF moved THEN "renable" ELSE "rspin")
  /\ UNCHANGED <<count, block, moved, ringVars, irq_enable, tx_next>>

\* memcpy(ptr, sp->rx_buf + out, n): from here on the caller has the bytes.
ReadCopy ==
  /\ pc = "rcopy"
  /\ count' = count - n /\ moved' = TRUE
  /\ Go("rpublish")
  /\ UNCHANGED <<n, seen, block, ringVars, irq_enable, tx_next>>

ReadPublish ==
  /\ pc = "rpublish"
  /\ rx_out' = Wrap(rx_out + n)
  /\ Go(IF count > 0 THEN "rlook" ELSE "renable") /\ n' = 0
  /\ UNCHANGED <<count, seen, block, moved, rx_in, rx_buf, tx_in, tx_out, tx_buf, irq_enable,
                 tx_next>>

ReadSpin ==
  /\ pc = "rspin"
  /\ ~block \/ seen # rx_in \/ HostGone
  /\ IF ~block \/ seen = rx_in THEN Return
     ELSE Go("rlook") /\ UNCHANGED <<count, n, seen, block, moved>>
  /\ UNCHANGED <<ringVars, irq_enable, tx_next>>

\* There is room in the ring again: let the interrupts come.
ReadEnable ==
  /\ pc = "renable"
  /\ irq_enable' = irq_enable \cup {"RE"}
  /\ Return
  /\ UNCHANGED <<ringVars, tx_next>>

Calls ==
  /\ \E b \in BOOLEAN :
       \/ "write" \in calls /\ \E c \in 1 .. MaxCount : Call("look", c, b)
       \/ "read"  \in calls /\ \E c \in 1 .. MaxCount : Call("rlook", c, b)
       \/ "close" \in calls /\ Call("drain", 0, b)
  /\ UNCHANGED <<ringVars, irq_enable, tx_next>>

CallStep ==
  \/ WriteLook \/ WriteCopy \/ WritePublish \/ Kick \/ WriteSpin \/ Drain
  \/ ReadLook \/ ReadCopy \/ ReadPublish \/ ReadSpin \/ ReadEnable
-----------------------------------------------------------------------------
\* The interrupt routine.  RI and WI: a pending interrupt that is enabled.
RI == "RE" \in irq_enable /\ rx_fifo # <<>>
WI == "WE" \in irq_enable /\ Len(tx_fifo) < FifoLen

\* A receive interrupt is served on the assumption that there is data.
Presumed_None(pending) == FALSE

Presumed(pending) == pending

\* Each round reads the control register once.
IsrLoop ==
  /\ \/ isr = "loop"
     \/ isr = "none" /\ (RI \/ WI)
  /\ IF RI \/ WI
     THEN /\ wi' = WI /\ space' = FifoLen - Len(tx_fifo)
          /\ ravail' = Presumed(RI)
          /\ isr' = IF RI THEN "rx" ELSE "tx"
     ELSE /\ wi' = FALSE /\ space' = 0 /\ ravail' = FALSE
          /\ isr' = "none"
  /\ UNCHANGED <<irq_enable, ringVars, tx_fifo, rx_fifo>>

RxFull == Wrap(rx_in + 1) = rx_out

\* One byte out of the chip, and whether there are more behind it.
IsrReceive ==
  /\ isr = "rx" /\ ~RxFull /\ rx_fifo # <<>>
  /\ rx_buf' = [rx_buf EXCEPT ![rx_in] = Head(rx_fifo)]
  /\ rx_in' = Wrap(rx_in + 1)
  /\ rx_fifo' = Tail(rx_fifo)
  /\ ravail' = (Tail(rx_fifo) # <<>>)
  /\ UNCHANGED <<rx_out, tx_in, tx_out, tx_buf, irq_enable, isr, space, wi, tx_fifo>>

\* The ring is full, or there was no byte: data left in the chip means full,
\* and turns receive interrupts off.
IsrReceived ==
  /\ isr = "rx" /\ (RxFull \/ rx_fifo = <<>>)
  /\ LET left == RxFull /\ ravail
     IN  irq_enable' = IF left THEN irq_enable \ {"RE"} ELSE irq_enable
  /\ isr' = (IF wi THEN "tx" ELSE "loop") /\ ravail' = FALSE
  /\ UNCHANGED <<ringVars, space, wi, tx_fifo, rx_fifo>>

IsrSend ==
  /\ isr = "tx" /\ space > 0 /\ tx_out # tx_in
  /\ tx_fifo' = Append(tx_fifo, tx_buf[tx_out])
  /\ tx_out' = Wrap(tx_out + 1)
  /\ space' = space - 1
  /\ UNCHANGED <<rx_in, rx_out, rx_buf, tx_in, tx_buf, irq_enable, isr, wi, ravail, rx_fifo>>

\* Nothing more to send, although there is room: turn transmit interrupts off.
IsrSent ==
  /\ isr = "tx" /\ (space = 0 \/ tx_out = tx_in)
  /\ irq_enable' = IF space > 0 THEN irq_enable \ {"WE"} ELSE irq_enable
  /\ isr' = "loop" /\ space' = 0 /\ wi' = FALSE
  /\ UNCHANGED <<ringVars, ravail, tx_fifo, rx_fifo>>

Isr == IsrLoop \/ IsrReceive \/ IsrReceived \/ IsrSend \/ IsrSent
-----------------------------------------------------------------------------
\* altera_avalon_jtag_uart_timeout, the alarm's callback: one second is over.
Second ==
  /\ ac' = FALSE
  /\ host_inactive' = IF ac THEN 0 ELSE Least(host_inactive + 1, Timeout)

\* The timer's interrupt.
Tick ==
  /\ isr = "none"
  /\ alt_tick
  /\ IF Expires THEN Second ELSE UNCHANGED <<ac, host_inactive>>
  /\ UNCHANGED <<calls, irq_enable, ringVars, callVars, isrVars, tx_fifo, rx_fifo, tx_next, rx_next>>

\* The host polls: it takes a byte if there is one, and may send one.
HostPoll(sends) ==
  /\ ac' = TRUE
  /\ tx_fifo' = IF tx_fifo = <<>> THEN <<>> ELSE Tail(tx_fifo)
  /\ IF sends
     THEN /\ Len(rx_fifo) < FifoLen
          /\ "read" \in calls \/ rx_in + Len(rx_fifo) < Typed
          /\ rx_fifo' = Append(rx_fifo, rx_next)
          /\ rx_next' = (rx_next + 1) % Numbers
     ELSE UNCHANGED <<rx_fifo, rx_next>>

Host ==
  /\ \E sends \in BOOLEAN : HostPoll(sends)
  /\ UNCHANGED <<calls, clockVars, irq_enable, host_inactive, ringVars, callVars, isrVars, tx_next>>

Program ==
  /\ isr = "none"
  /\ Calls \/ CallStep
  /\ UNCHANGED <<calls, clockVars, host_inactive, isrVars, chipVars, rx_next>>

Interrupt ==
  /\ Isr
  /\ UNCHANGED <<calls, clockVars, host_inactive, callVars, ac, tx_next, rx_next>>

JtagNext == Program \/ Interrupt \/ Tick \/ Host

JtagSpec == JtagInit /\ [][JtagNext]_jtagVars

Running ==
  /\ isr = "none" /\ CallStep
  /\ UNCHANGED <<calls, clockVars, host_inactive, isrVars, chipVars, rx_next>>

\* The processor runs, the program or the interrupt routine, and the timer
\* ticks.  Nothing is asked of the host.
FairJtag == JtagSpec /\ WF_jtagVars(Running \/ Interrupt) /\ WF_jtagVars(Tick)
-----------------------------------------------------------------------------
\* The bytes of a ring, in the order they will leave it.
Ring(buf, in, out) ==
  LET len == IF in >= out THEN in - out ELSE in + BUF_LEN - out
  IN  [i \in 1 .. len |-> buf[Wrap(out + i - 1)]]

\* What the caller of a read already has leaves the ring a step later.
Unread == LET all == Ring(rx_buf, rx_in, rx_out)
          IN  IF pc = "rpublish" THEN SubSeq(all, n + 1, Len(all)) ELSE all

TxQueue == INSTANCE ByteQueue WITH Capacity <- BUF_LEN - 1 + FifoLen,
  queue <- tx_fifo \o Ring(tx_buf, tx_in, tx_out), next <- tx_next
RxQueue == INSTANCE ByteQueue WITH Capacity <- BUF_LEN - 1 + FifoLen,
  queue <- Unread \o rx_fifo, next <- rx_next

(***************************************************************************)
(* Each direction is a queue: every byte a write has accepted reaches the  *)
(* host, and every byte of the host a read, once and in order, although no *)
(* lock guards the rings ("Making them volatile and reading them atomically*)
(* means that we don't need any large critical sections",                  *)
(* altera_avalon_jtag_uart.h:105).  A byte shown before it is copied, room *)
(* counted one too large, a byte taken out of the chip for a full ring     *)
(* would break it.                                                         *)
(***************************************************************************)
BytesInOrder == TxQueue!QueueSpec /\ RxQueue!QueueSpec

(***************************************************************************)
(* No byte is left lying: while bytes wait for the host, transmit          *)
(* interrupts are on or a write is about to turn them on; receive          *)
(* interrupts are off only while the ring is full or a read that made room *)
(* is about to turn them on.  The interrupt routine turns either off on    *)
(* what it has read, and the calls turn them on with a register of their   *)
(* own copy.                                                               *)
(***************************************************************************)
NeverStuck ==
  /\ tx_out = tx_in \/ "WE" \in irq_enable \/ pc \in {"look", "copy", "publish", "kick"}
  /\ \/ "RE" \in irq_enable
     \/ RxFull
     \/ moved /\ pc \in {"rlook", "rcopy", "rpublish", "renable"}

(***************************************************************************)
(* Every write and every close returns, whether the host takes the bytes,  *)
(* stops for ever or comes back now and then, and a read waits for nothing *)
(* but the host's bytes.  No interrupt can keep a call from going on: a    *)
(* ring that fills must not leave the routine going round on an interrupt  *)
(* that it cannot serve.                                                   *)
(***************************************************************************)
WritesReturn == []<>(pc \in {"idle", "rspin"})
=============================================================================
