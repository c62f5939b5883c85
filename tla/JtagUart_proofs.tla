--------------------------- MODULE JtagUart_proofs ----------------------------
(***************************************************************************)
(* Proofs about the console's driver, for rings, fifos, calls and clocks of*)
(* every size: the types, that no byte is left lying with its interrupt    *)
(* turned off, that the alarm is neither early nor late, and that the      *)
(* driver without a lock is a queue of bytes in each direction.            *)
(***************************************************************************)
EXTENDS JtagUart, TLAPS, SequenceTheorems

\* What makes the types inductive: a call copies no more than it has to, and
\* the interrupt routine writes no more than the chip had room for.
Sizes ==
  /\ pc \in {"copy", "rcopy"} => n <= count
  /\ isr \in {"rx", "tx"} => Len(tx_fifo) + space <= FifoLen

\* The alarm is due within a period, beyond the wrap exactly if rollover says so.
AlarmAhead ==
  /\ rollover <=> time < alt_nticks
  /\ TicksLeft \in 1 .. Period + 1

\* A read that has taken bytes remembers it until it has turned interrupts on.
Moved == pc \in {"rpublish", "renable"} => moved

JtagInv == JtagTypeOK /\ Sizes
StuckInv == NeverStuck /\ Moved

-----------------------------------------------------------------------------
(* Words and indices. *)

LEMMA WrapType ==
  ASSUME NEW i \in Index, NEW k \in Nat, k < BUF_LEN
  PROVE  Wrap(i + k) \in Index
BY JtagAssumption, SMT DEF Wrap, Index

LEMMA NumberType ==
  ASSUME NEW x \in Nat
  PROVE  x % Numbers \in Byte
BY JtagAssumption, SMT DEF Byte

\* Numbers are their own remainders.
LEMMA NumberSame ==
  ASSUME NEW x \in Byte
  PROVE  x % Numbers = x
<1>1. x \in Nat /\ x < Numbers /\ Numbers \in Nat /\ Numbers > 0
  BY JtagAssumption, SMT DEF Byte
<1>2. /\ x \div Numbers \in Int /\ x % Numbers \in 0 .. Numbers - 1
      /\ x = Numbers * (x \div Numbers) + (x % Numbers)
  BY <1>1, SMT
<1>3. \A q \in Int : q >= 1 => Numbers * q >= Numbers
  BY <1>1, SMT
<1>4. \A q \in Int : q <= -1 => Numbers * q <= 0 - Numbers
  BY <1>1, SMT
<1>5. x \div Numbers = 0
  BY <1>1, <1>2, <1>3, <1>4, SMT
<1> QED  BY <1>1, <1>2, <1>5, SMT

LEMMA AppendType ==
  ASSUME NEW q \in Seq(Byte), NEW b \in Byte
  PROVE  Append(q, b) \in Seq(Byte) /\ Len(Append(q, b)) = Len(q) + 1
BY SMT

LEMMA TailType ==
  ASSUME NEW q \in Seq(Byte), q # <<>>
  PROVE  /\ Tail(q) \in Seq(Byte) /\ Len(Tail(q)) = Len(q) - 1
         /\ Head(q) \in Byte /\ Len(q) \in Nat \ {0}
BY HeadTailProperties, EmptySeq, LenProperties, SMT

-----------------------------------------------------------------------------
(* The clock. *)

LEMMA TickAhead ==
  ASSUME ClockTypeOK, AlarmAhead, alt_tick
  PROVE  /\ ClockTypeOK'
         /\ AlarmAhead'
         /\ TicksLeft' = IF TicksLeft = 1 THEN Period ELSE TicksLeft - 1
<1> DEFINE now == Plus(alt_nticks, 1)
<1>1. /\ now \in Ticks
      /\ alt_nticks' = now
      /\ alt_nticks \in Ticks /\ time \in Ticks
      /\ now = IF alt_nticks = TickCount - 1 THEN 0 ELSE alt_nticks + 1
  BY ClockAssumption, SMT DEF alt_tick, ClockTypeOK, Plus, Ticks
<1>2. Expires <=> TicksLeft = 1
  <2>1. Expires <=> time <= now /\ ~(rollover /\ now # 0)
    BY Zenon DEF Expires, Expired
  <2>2. (rollover /\ now # 0) <=> (time < alt_nticks /\ now # 0)
    BY Zenon DEF AlarmAhead
  <2>3. (time <= now /\ ~(time < alt_nticks /\ now # 0)) <=> TicksLeft = 1
    BY <1>1, ClockAssumption, SMT DEF AlarmAhead, TicksLeft, Ticks
  <2> QED  BY <2>1, <2>2, <2>3, Zenon
<1>3. CASE Expires
  <2>1. time = now
    BY <1>1, <1>2, <1>3, ClockAssumption, SMT DEF TicksLeft, Ticks
  <2>2. time' = Plus(time, Period) /\ rollover' = ((rollover /\ now # 0) \/ time' < now)
    BY <1>3, Zenon DEF alt_tick
  <2>3. ~(rollover /\ now # 0)
    BY <1>3, Zenon DEF Expires, Expired
  <2>4. time' \in Ticks
    BY <1>1, <2>2, ClockAssumption, SMT DEF Plus, Ticks
  <2>5. rollover' \in BOOLEAN /\ (rollover' <=> time' < alt_nticks')
    BY <1>1, <2>2, <2>3, Zenon
  <2>6. TicksLeft' = Period
    BY <1>1, <2>1, <2>2, ClockAssumption, SMT DEF TicksLeft, Plus, Ticks
  <2> QED
    BY <1>1, <1>2, <1>3, <2>4, <2>5, <2>6, ClockAssumption, SMT DEF ClockTypeOK, AlarmAhead
<1>4. CASE ~Expires
  <2>1. time' = time /\ rollover' = (rollover /\ now # 0)
    BY <1>4, Zenon DEF alt_tick
  <2>2. TicksLeft # 1
    BY <1>2, <1>4
  <2>3. TicksLeft' = TicksLeft - 1
    BY <1>1, <2>1, <2>2, ClockAssumption, SMT DEF TicksLeft, Ticks, AlarmAhead
  <2>4. (time < alt_nticks /\ now # 0) <=> time < now
    BY <1>1, <2>2, ClockAssumption, SMT DEF TicksLeft, Ticks, AlarmAhead
  <2>5. rollover' \in BOOLEAN /\ (rollover' <=> time' < alt_nticks')
    BY <1>1, <2>1, <2>4, Zenon DEF AlarmAhead
  <2>6. TicksLeft' \in 1 .. Period + 1
    BY <2>2, <2>3, ClockAssumption, SMT DEF AlarmAhead
  <2> QED
    BY <1>1, <2>1, <2>2, <2>3, <2>5, <2>6, Zenon DEF ClockTypeOK, AlarmAhead
<1> QED  BY <1>3, <1>4

-----------------------------------------------------------------------------
(* The driver's types. *)

LEMMA InitInv ==
  ASSUME JtagInit
  PROVE  JtagInv /\ AlarmAhead /\ StuckInv
<1>1. ClockTypeOK /\ AlarmAhead
  <2>1. alt_nticks = 0 /\ time = Period + 1
    <3>1. alt_nticks = 0 /\ time = Plus(Plus(Period, alt_nticks), 1)
      BY Zenon DEF JtagInit, AlarmStart
    <3>2. Period + 0 < TickCount /\ Period + 1 < TickCount /\ Period \in Nat
      BY ClockAssumption, SMT
    <3>3. Plus(Period, 0) = Period /\ Plus(Period, 1) = Period + 1
      BY <3>2, SMT DEF Plus
    <3> QED  BY <3>1, <3>3
  <2>2. ~(time < alt_nticks)
    BY <2>1, ClockAssumption, SMT
  <2>3. ~rollover /\ rollover \in BOOLEAN
    BY <2>2, Zenon DEF JtagInit, AlarmStart
  <2> QED
    <3>1. time \in Ticks /\ alt_nticks \in Ticks /\ TicksLeft \in 1 .. Period + 1
      BY <2>1, ClockAssumption, SMT DEF TicksLeft, Ticks
    <3> QED  BY <2>2, <2>3, <3>1, Zenon DEF ClockTypeOK, AlarmAhead
<1>2. /\ rx_buf \in [Index -> Byte] /\ tx_buf \in [Index -> Byte]
      /\ tx_fifo \in Seq(Byte) /\ Len(tx_fifo) = 0
      /\ rx_fifo \in Seq(Byte) /\ Len(rx_fifo) = 0
      /\ 0 \in Byte /\ 0 \in Index
  BY JtagAssumption, SMT DEF JtagInit, Byte, Index
<1>3. JtagTypeOK
  BY <1>1, <1>2, JtagAssumption, SMT DEF JtagInit, JtagTypeOK
<1>4. Sizes /\ StuckInv
  BY SMT DEF JtagInit, Sizes, StuckInv, NeverStuck, Moved
<1> QED  BY <1>1, <1>3, <1>4 DEF JtagInv

\* A step of the program leaves the clock, the routine and the chip alone.
LEMMA ProgramType ==
  ASSUME JtagInv, Program
  PROVE  JtagInv'
<1> USE JtagAssumption DEF JtagInv, JtagTypeOK, Sizes, callVars, ringVars
<1>1. /\ ClockTypeOK' /\ calls' \in Programs /\ host_inactive' \in 0 .. Timeout
      /\ isr' \in {"none", "loop", "rx", "tx"} /\ space' \in 0 .. FifoLen
      /\ wi' \in BOOLEAN /\ ravail' \in BOOLEAN /\ ac' \in BOOLEAN
      /\ tx_fifo' \in Seq(Byte) /\ Len(tx_fifo') <= FifoLen
      /\ rx_fifo' \in Seq(Byte) /\ Len(rx_fifo') <= FifoLen
      /\ rx_next' \in Byte
      /\ isr' \in {"rx", "tx"} => Len(tx_fifo') + space' <= FifoLen
  BY Zenon DEF Program, clockVars, isrVars, chipVars, ClockTypeOK
<1> DEFINE CallOK ==
      /\ irq_enable' \subseteq {"RE", "WE"}
      /\ {rx_in', rx_out', tx_in', tx_out'} \subseteq Index
      /\ rx_buf' \in [Index -> Byte] /\ tx_buf' \in [Index -> Byte]
      /\ pc' \in {"idle", "look", "copy", "publish", "kick", "spin",
                  "rlook", "rcopy", "rpublish", "rspin", "renable", "drain"}
      /\ count' \in 0 .. MaxCount /\ n' \in 0 .. MaxCount /\ n' < BUF_LEN /\ seen' \in Index
      /\ block' \in BOOLEAN /\ moved' \in BOOLEAN
      /\ tx_next' \in Byte
      /\ pc' \in {"copy", "rcopy"} => n' <= count'
<1>2. 0 \in Index
  BY SMT DEF Index
<1>3. ASSUME NEW room \in Nat, room < BUF_LEN
      PROVE  /\ Least(room, count) \in 0 .. MaxCount
             /\ Least(room, count) < BUF_LEN /\ Least(room, count) <= count
  BY <1>3, SMT DEF Least
<1>4. CASE Calls
  <2>1. PICK first \in {"look", "rlook", "drain"}, c \in 0 .. MaxCount, b \in BOOLEAN :
          Call(first, c, b)
    BY <1>4, SMT DEF Calls
  <2>2. CallOK
    BY <1>2, <1>4, <2>1, SMT DEF Calls, Call
  <2> QED  BY <1>1, <2>2
<1>5. CASE WriteLook
  <2>1. Room(tx_in, tx_out) \in Nat /\ Room(tx_in, tx_out) < BUF_LEN
    BY SMTT(20) DEF Room, Index
  <2>2. CallOK
    BY <1>3, <1>5, <2>1, SMTT(20) DEF WriteLook, Go
  <2> QED  BY <1>1, <2>2
<1>6. CASE WriteCopy
  <2>0. tx_next \in Nat /\ tx_in \in Nat
    BY SMT DEF Byte, Index
  <2>1. ASSUME NEW i \in Index, i >= tx_in, i < tx_in + n
        PROVE  (tx_next + i - tx_in) % Numbers \in Byte
    <3>1. tx_next + i - tx_in \in Nat
      <4>1. i \in Nat
        BY SMT DEF Index
      <4> HIDE DEF JtagInv, JtagTypeOK
      <4> QED  BY <2>0, <2>1, <4>1, SMT
    <3> QED  BY <3>1, NumberType, Zenon
  <2>2. tx_buf' \in [Index -> Byte]
    BY <1>6, <2>1, SMT DEF WriteCopy
  <2>3. CallOK
    BY <1>6, <2>2, SMT DEF WriteCopy, Go
  <2> QED  BY <1>1, <2>3
<1>7. CASE WritePublish
  <2>1. n \in Nat /\ tx_next + n \in Nat
    BY SMT DEF Byte
  <2>2. tx_in' \in Index /\ tx_next' \in Byte
    BY <1>7, <2>1, WrapType, NumberType, Zenon DEF WritePublish
  <2>3. CallOK
    BY <1>7, <2>2, SMT DEF WritePublish, Go
  <2> QED  BY <1>1, <2>3
<1>8. CASE Kick
  <2>1. CallOK
    BY <1>2, <1>8, SMT DEF Kick, Go, Return
  <2> QED  BY <1>1, <2>1
<1>9. CASE WriteSpin \/ Drain \/ ReadSpin \/ ReadEnable
  <2> DEFINE Either == Return \/ (pc' \in {"look", "rlook"}
                                   /\ UNCHANGED <<count, n, seen, block, moved>>)
  <2>1. /\ Either
        /\ UNCHANGED <<ringVars, tx_next>>
        /\ irq_enable' \subseteq {"RE", "WE"}
    <3>1. CASE WriteSpin
      BY <3>1, Zenon DEF WriteSpin, Go
    <3>2. CASE Drain
      BY <3>2, Zenon DEF Drain
    <3>3. CASE ReadSpin
      BY <3>3, Zenon DEF ReadSpin, Go
    <3>4. CASE ReadEnable
      BY <3>4, SMT DEF ReadEnable
    <3> QED  BY <1>9, <3>1, <3>2, <3>3, <3>4
  <2>2. CallOK
    <3>1. CASE Return
      <4>1. block' \in BOOLEAN /\ moved' \in BOOLEAN
        BY <3>1, Zenon DEF Return
      <4>2. pc' = "idle" /\ count' = 0 /\ n' = 0 /\ seen' = 0
        BY <3>1, Zenon DEF Return
      <4> HIDE DEF Return
      <4> QED  BY <1>2, <2>1, <4>1, <4>2, SMT
    <3>2. CASE pc' \in {"look", "rlook"} /\ UNCHANGED <<count, n, seen, block, moved>>
      <4>1. pc' \notin {"copy", "rcopy"}
        BY <3>2
      <4> QED  BY <2>1, <3>2, <4>1, SMT
    <3> QED  BY <2>1, <3>1, <3>2
  <2> QED  BY <1>1, <2>2
<1>10. CASE ReadLook
  <2>1. Held(rx_in, rx_out) \in Nat /\ Held(rx_in, rx_out) < BUF_LEN + 1
        /\ (rx_in >= rx_out \/ rx_out > 0)
    BY SMT DEF Held, Index
  <2>2. Held(rx_in, rx_out) < BUF_LEN
    BY SMT DEF Held, Index
  <2>3. CallOK
    BY <1>3, <1>10, <2>1, <2>2, SMTT(20) DEF ReadLook, Go
  <2> QED  BY <1>1, <2>3
<1>11. CASE ReadCopy
  <2>1. CallOK
    BY <1>11, SMT DEF ReadCopy, Go
  <2> QED  BY <1>1, <2>1
<1>12. CASE ReadPublish
  <2>1. rx_out' \in Index
    BY <1>12, WrapType, SMT DEF ReadPublish
  <2>2. CallOK
    BY <1>12, <2>1, SMT DEF ReadPublish, Go
  <2> QED  BY <1>1, <2>2
<1> QED
  BY <1>4, <1>5, <1>6, <1>7, <1>8, <1>9, <1>10, <1>11, <1>12, Zenon DEF Program, CallStep

\* The interrupt routine leaves the clock and the call alone.
LEMMA InterruptType ==
  ASSUME JtagInv, Interrupt
  PROVE  JtagInv'
<1> USE JtagAssumption DEF JtagInv, JtagTypeOK, Sizes, callVars, ringVars
<1>1. /\ ClockTypeOK' /\ calls' \in Programs /\ host_inactive' \in 0 .. Timeout
      /\ pc' \in {"idle", "look", "copy", "publish", "kick", "spin",
                  "rlook", "rcopy", "rpublish", "rspin", "renable", "drain"}
      /\ count' \in 0 .. MaxCount /\ n' \in 0 .. MaxCount /\ n' < BUF_LEN /\ seen' \in Index
      /\ block' \in BOOLEAN /\ moved' \in BOOLEAN /\ ac' \in BOOLEAN
      /\ tx_next' \in Byte /\ rx_next' \in Byte
      /\ pc' \in {"copy", "rcopy"} => n' <= count'
  BY Zenon DEF Interrupt, clockVars, ClockTypeOK
<1> DEFINE IsrOK ==
      /\ irq_enable' \subseteq {"RE", "WE"}
      /\ {rx_in', rx_out', tx_in', tx_out'} \subseteq Index
      /\ rx_buf' \in [Index -> Byte] /\ tx_buf' \in [Index -> Byte]
      /\ isr' \in {"none", "loop", "rx", "tx"} /\ space' \in 0 .. FifoLen
      /\ wi' \in BOOLEAN /\ ravail' \in BOOLEAN
      /\ tx_fifo' \in Seq(Byte) /\ Len(tx_fifo') <= FifoLen
      /\ rx_fifo' \in Seq(Byte) /\ Len(rx_fifo') <= FifoLen
      /\ isr' \in {"rx", "tx"} => Len(tx_fifo') + space' <= FifoLen
<1>2. CASE IsrLoop
  <2>1. wi' \in BOOLEAN /\ ravail' \in BOOLEAN
    BY <1>2, Zenon DEF IsrLoop, Presumed, RI, WI
  <2>2. Len(tx_fifo) \in Nat
    BY LenProperties, Zenon
  <2>3. /\ isr' \in {"none", "rx", "tx"}
        /\ (isr' = "none" /\ space' = 0) \/ space' = FifoLen - Len(tx_fifo)
        /\ UNCHANGED <<irq_enable, ringVars, tx_fifo, rx_fifo>>
    BY <1>2, Zenon DEF IsrLoop
  <2>4. IsrOK
    BY <2>1, <2>2, <2>3, SMT
  <2> QED  BY <1>1, <2>4
<1>3. CASE IsrReceive
  <2>1. /\ rx_fifo' \in Seq(Byte) /\ Len(rx_fifo') = Len(rx_fifo) - 1
        /\ Head(rx_fifo) \in Byte /\ Len(rx_fifo) \in Nat
    BY <1>3, TailType, SMT DEF IsrReceive
  <2>2. rx_in' \in Index
    BY <1>3, WrapType, SMT DEF IsrReceive
  <2>3. rx_buf' \in [Index -> Byte]
    BY <1>3, <2>1, SMT DEF IsrReceive
  <2>4. ravail' \in BOOLEAN
    BY <1>3, Zenon DEF IsrReceive
  <2>5. UNCHANGED <<rx_out, tx_in, tx_out, tx_buf, irq_enable, isr, space, wi, tx_fifo>>
    BY <1>3, Zenon DEF IsrReceive
  <2>6. IsrOK
    BY <2>1, <2>2, <2>3, <2>4, <2>5, SMT
  <2> QED  BY <1>1, <2>6
<1>4. CASE IsrReceived
  <2>1. isr' \in {"loop", "tx"} /\ ravail' \in BOOLEAN /\ irq_enable' \subseteq irq_enable
    <3>1. isr' = (IF wi THEN "tx" ELSE "loop") /\ ravail' = FALSE
      BY <1>4, Zenon DEF IsrReceived
    <3>2. irq_enable' = irq_enable \ {"RE"} \/ irq_enable' = irq_enable
      BY <1>4, Zenon DEF IsrReceived
    <3>3. irq_enable' \subseteq irq_enable
      BY <3>2
    <3> QED  BY <3>1, <3>3, Zenon
  <2>2. UNCHANGED <<ringVars, space, wi, tx_fifo, rx_fifo>>
    BY <1>4, Zenon DEF IsrReceived
  <2>3. Len(tx_fifo) + space <= FifoLen
    <3>1. isr = "rx"
      BY <1>4, Zenon DEF IsrReceived
    <3> QED  BY <3>1, Zenon
  <2>4. IsrOK
    BY <2>1, <2>2, <2>3, SMT
  <2> QED  BY <1>1, <2>4
<1>5. CASE IsrSend
  <2>1. tx_buf[tx_out] \in Byte
    BY SMT
  <2>2. tx_fifo' \in Seq(Byte) /\ Len(tx_fifo') = Len(tx_fifo) + 1 /\ Len(tx_fifo) \in Nat
    BY <1>5, <2>1, AppendType, LenProperties, Zenon DEF IsrSend
  <2>3. tx_out' \in Index
    BY <1>5, WrapType, SMT DEF IsrSend
  <2>4. /\ isr = "tx" /\ space > 0 /\ space' = space - 1
        /\ UNCHANGED <<rx_in, rx_out, rx_buf, tx_in, tx_buf, irq_enable, isr, wi, ravail, rx_fifo>>
    BY <1>5, Zenon DEF IsrSend
  <2>5. IsrOK
    BY <2>2, <2>3, <2>4, SMT
  <2> QED  BY <1>1, <2>5
<1>6. CASE IsrSent
  <2>1. /\ isr' = "loop" /\ space' = 0 /\ wi' \in BOOLEAN
        /\ UNCHANGED <<ringVars, ravail, tx_fifo, rx_fifo>>
    BY <1>6, Zenon DEF IsrSent
  <2>2. irq_enable' \subseteq irq_enable
    BY <1>6, SMT DEF IsrSent
  <2>3. IsrOK
    BY <2>1, <2>2, SMT
  <2> QED  BY <1>1, <2>3
<1> QED  BY <1>2, <1>3, <1>4, <1>5, <1>6, Zenon DEF Interrupt, Isr

LEMMA TickType ==
  ASSUME JtagInv, AlarmAhead, Tick
  PROVE  JtagInv'
<1> USE JtagAssumption DEF JtagInv, JtagTypeOK, Sizes, callVars, ringVars, isrVars
<1>1. ClockTypeOK'
  BY TickAhead, Zenon DEF Tick
<1>2. ac' \in BOOLEAN /\ host_inactive' \in 0 .. Timeout
  <2>1. CASE Expires
    <3>1. ac' = FALSE /\ (host_inactive' = 0 \/ host_inactive' = Least(host_inactive + 1, Timeout))
      BY <2>1, Zenon DEF Tick, Second
    <3>2. Least(host_inactive + 1, Timeout) \in 0 .. Timeout
      <4>1. host_inactive \in 0 .. Timeout /\ Timeout \in Nat
        BY Zenon
      <4> HIDE DEF JtagInv
      <4> QED  BY <4>1, SMT DEF Least
    <3>3. 0 \in 0 .. Timeout
      BY SMT
    <3> QED  BY <3>1, <3>2, <3>3, ZenonT(30)
  <2>2. CASE ~Expires
    BY <2>2, Zenon DEF Tick
  <2> QED  BY <2>1, <2>2
<1> QED  BY <1>1, <1>2, Zenon DEF Tick

LEMMA HostType ==
  ASSUME JtagInv, Host
  PROVE  JtagInv'
<1> USE JtagAssumption DEF JtagInv, JtagTypeOK, Sizes, callVars, ringVars, isrVars
<1>1. PICK sends \in BOOLEAN : HostPoll(sends)
  BY Zenon DEF Host
<1>2. /\ tx_fifo' \in Seq(Byte) /\ Len(tx_fifo') <= Len(tx_fifo) /\ Len(tx_fifo) \in Nat
      /\ Len(tx_fifo') \in Nat
  <2>1. CASE tx_fifo = <<>>
    <3>1. tx_fifo' = tx_fifo
      BY <1>1, <2>1, Zenon DEF HostPoll
    <3> QED  BY <3>1, LenProperties, SMT
  <2>2. CASE tx_fifo # <<>>
    BY <1>1, <2>2, TailType, SMT DEF HostPoll
  <2> QED  BY <2>1, <2>2
<1>3. /\ rx_fifo' \in Seq(Byte) /\ Len(rx_fifo') <= FifoLen /\ rx_next' \in Byte
  <2>1. CASE sends
    <3>1. rx_next \in Byte /\ Len(rx_fifo) \in Nat
      BY LenProperties, Zenon
    <3>2. (rx_next + 1) % Numbers \in Byte
      <4>1. rx_next + 1 \in Nat
        BY SMT DEF Byte
      <4> QED  BY <4>1, NumberType, Zenon
    <3> QED  BY <1>1, <2>1, <3>1, <3>2, AppendType, SMT DEF HostPoll
  <2>2. CASE ~sends
    BY <1>1, <2>2, ZenonT(30) DEF HostPoll
  <2> QED  BY <2>1, <2>2
<1>4. ClockTypeOK' /\ ac' \in BOOLEAN
  BY <1>1, Zenon DEF Host, HostPoll, clockVars, ClockTypeOK
<1>5. UNCHANGED <<calls, irq_enable, host_inactive, ringVars, callVars, isrVars, tx_next>>
  BY Zenon DEF Host
<1>6. Sizes'
  BY <1>2, <1>5, SMT
<1>7. Len(tx_fifo') <= FifoLen
  BY <1>2, SMT
<1> QED  BY <1>2, <1>3, <1>4, <1>5, <1>6, <1>7, Zenon

-----------------------------------------------------------------------------
(* No byte is left lying. *)

LEMMA ProgramNotStuck ==
  ASSUME JtagInv, StuckInv, Program
  PROVE  StuckInv'
<1> USE DEF StuckInv, NeverStuck, Moved, ringVars, RxFull
<1>1. CASE Calls
  <2>1. PICK first \in {"look", "rlook", "drain"}, c \in 0 .. MaxCount, b \in BOOLEAN :
          Call(first, c, b)
    BY <1>1, JtagAssumption, SMT DEF Calls
  <2> QED  BY <1>1, <2>1, Zenon DEF Calls, Call
<1>2. CASE WriteLook \/ WriteCopy \/ WritePublish
  <2>1. /\ pc' \in {"look", "copy", "publish", "kick"}
        /\ pc \in {"look", "copy", "publish"}
        /\ UNCHANGED <<irq_enable, rx_in, rx_out>>
    BY <1>2, Zenon DEF WriteLook, WriteCopy, WritePublish, Go
  <2> QED  BY <2>1, SMT
<1>3. CASE Kick
  <2>1. /\ pc = "kick" /\ irq_enable' = irq_enable \cup {"WE"}
        /\ pc' \in {"idle", "spin"} /\ UNCHANGED <<rx_in, rx_out>>
    BY <1>3, Zenon DEF Kick, Go, Return
  <2>2. "WE" \in irq_enable' /\ ("RE" \in irq_enable => "RE" \in irq_enable')
    BY <2>1
  <2> QED  BY <2>1, <2>2, SMT
<1>4. CASE WriteSpin \/ Drain \/ ReadSpin
  <2>1. /\ pc' \in {"idle", "look", "rlook"} /\ pc \in {"spin", "drain", "rspin"}
        /\ UNCHANGED <<irq_enable, rx_in, rx_out, tx_in, tx_out>>
    BY <1>4, Zenon DEF WriteSpin, Drain, ReadSpin, Go, Return
  <2> QED  BY <2>1, SMT
<1>5. CASE ReadLook
  <2>1. /\ pc' \in {"rcopy", "renable", "rspin"} /\ (pc' = "renable" => moved)
        /\ (pc' = "rspin" => ~moved)
        /\ pc = "rlook"
        /\ UNCHANGED <<moved, irq_enable, rx_in, rx_out, tx_in, tx_out>>
    BY <1>5, Zenon DEF ReadLook, Go
  <2> QED  BY <2>1, SMT
<1>6. CASE ReadCopy
  <2>1. /\ pc = "rcopy" /\ pc' = "rpublish" /\ moved'
        /\ UNCHANGED <<irq_enable, tx_in, tx_out>>
    BY <1>6, Zenon DEF ReadCopy, Go
  <2> QED  BY <2>1, SMT
<1>7. CASE ReadPublish
  <2>1. /\ pc = "rpublish" /\ pc' \in {"rlook", "renable"} /\ moved' = moved
        /\ UNCHANGED <<irq_enable, tx_in, tx_out>>
    BY <1>7, Zenon DEF ReadPublish, Go
  <2>2. moved'
    BY <2>1, Zenon
  <2> QED  BY <2>1, <2>2, SMT
<1>8. CASE ReadEnable
  <2>1. /\ pc = "renable" /\ irq_enable' = irq_enable \cup {"RE"} /\ pc' = "idle"
        /\ UNCHANGED <<tx_in, tx_out>>
    BY <1>8, Zenon DEF ReadEnable, Return
  <2>2. "RE" \in irq_enable' /\ ("WE" \in irq_enable => "WE" \in irq_enable')
    BY <2>1
  <2> QED  BY <2>1, <2>2, SMT
<1> QED
  BY <1>1, <1>2, <1>3, <1>4, <1>5, <1>6, <1>7, <1>8, Zenon DEF Program, CallStep

LEMMA InterruptNotStuck ==
  ASSUME JtagInv, StuckInv, Interrupt
  PROVE  StuckInv'
<1> USE DEF StuckInv, NeverStuck, Moved, ringVars, RxFull
<1>1. pc' = pc /\ moved' = moved
  BY Zenon DEF Interrupt, callVars
<1>2. CASE IsrLoop
  BY <1>1, <1>2, Zenon DEF IsrLoop
<1>3. CASE IsrReceive
  BY <1>1, <1>3, Zenon DEF IsrReceive
<1>4. CASE IsrReceived
  <2>1. /\ UNCHANGED <<rx_in, rx_out, tx_in, tx_out>>
        /\ irq_enable' = irq_enable \/ (RxFull /\ irq_enable' = irq_enable \ {"RE"})
    BY <1>4, Zenon DEF IsrReceived
  <2>2. RxFull \/ irq_enable' = irq_enable
    BY <2>1, Zenon
  <2>3. "WE" \in irq_enable => "WE" \in irq_enable'
    BY <2>1, SMT
  <2> QED  BY <1>1, <2>1, <2>2, <2>3, Zenon
<1>5. CASE IsrSend
  <2>1. tx_out # tx_in /\ UNCHANGED <<rx_in, rx_out, tx_in, irq_enable>>
    BY <1>5, Zenon DEF IsrSend
  <2> QED  BY <1>1, <2>1, Zenon
<1>6. CASE IsrSent
  <2>1. /\ UNCHANGED <<rx_in, rx_out, tx_in, tx_out>>
        /\ irq_enable' = irq_enable \/ (tx_out = tx_in /\ irq_enable' = irq_enable \ {"WE"})
    <3>1. space = 0 => ~(space > 0)
      BY SMT
    <3> QED  BY <1>6, <3>1, Zenon DEF IsrSent
  <2>2. "RE" \in irq_enable => "RE" \in irq_enable'
    BY <2>1, SMT
  <2> QED  BY <1>1, <2>1, <2>2, Zenon
<1> QED  BY <1>2, <1>3, <1>4, <1>5, <1>6, Zenon DEF Interrupt, Isr

-----------------------------------------------------------------------------
(* The theorems. *)

LEMMA StepInv ==
  ASSUME JtagInv, AlarmAhead, StuckInv, [JtagNext]_jtagVars
  PROVE  JtagInv' /\ AlarmAhead' /\ StuckInv'
<1>1. CASE Program
  <2>1. AlarmAhead'
    BY <1>1, Zenon DEF Program, clockVars, AlarmAhead, TicksLeft
  <2> QED  BY <1>1, <2>1, ProgramType, ProgramNotStuck
<1>2. CASE Interrupt
  <2>1. AlarmAhead'
    BY <1>2, Zenon DEF Interrupt, clockVars, AlarmAhead, TicksLeft
  <2> QED  BY <1>2, <2>1, InterruptType, InterruptNotStuck
<1>3. CASE Tick
  <2>1. AlarmAhead'
    BY <1>3, TickAhead, Zenon DEF Tick, JtagInv, JtagTypeOK
  <2>2. StuckInv'
    BY <1>3, Zenon DEF Tick, ringVars, callVars, StuckInv, NeverStuck, Moved, RxFull
  <2> QED  BY <1>3, <2>1, <2>2, TickType
<1>4. CASE Host
  <2>1. AlarmAhead'
    BY <1>4, Zenon DEF Host, clockVars, AlarmAhead, TicksLeft
  <2>2. StuckInv'
    BY <1>4, Zenon DEF Host, ringVars, callVars, StuckInv, NeverStuck, Moved, RxFull
  <2> QED  BY <1>4, <2>1, <2>2, HostType
<1>5. CASE UNCHANGED jtagVars
  <2> USE <1>5 DEF jtagVars, clockVars, ringVars, callVars, isrVars, chipVars
  <2>1. JtagInv'
    <3>1. ClockTypeOK' /\ Sizes'
      BY Zenon DEF JtagInv, JtagTypeOK, ClockTypeOK, Sizes
    <3>2. JtagTypeOK'
      BY <3>1, SMT DEF JtagInv, JtagTypeOK
    <3> QED  BY <3>1, <3>2 DEF JtagInv
  <2>2. AlarmAhead' /\ StuckInv'
    BY Zenon DEF AlarmAhead, TicksLeft, StuckInv, NeverStuck, Moved, RxFull
  <2> QED  BY <2>1, <2>2
<1> QED  BY <1>1, <1>2, <1>3, <1>4, <1>5 DEF JtagNext

\* The inductive invariant of the driver, of its clock and of its calls.
THEOREM JtagInvariant == JtagSpec => [](JtagInv /\ AlarmAhead /\ StuckInv)
<1>1. JtagInit => JtagInv /\ AlarmAhead /\ StuckInv
  BY InitInv
<1>2. JtagInv /\ AlarmAhead /\ StuckInv /\ [JtagNext]_jtagVars
        => (JtagInv /\ AlarmAhead /\ StuckInv)'
  BY StepInv
<1> QED  BY <1>1, <1>2, PTL DEF JtagSpec

\* Every index stays in its ring and every fifo within its length, whatever
\* their sizes (jtag_uart_init.c, _read.c, _write.c).
THEOREM JtagTypeCorrect == JtagSpec => []JtagTypeOK
<1>1. JtagInv => JtagTypeOK
  BY DEF JtagInv
<1> QED  BY <1>1, JtagInvariant, PTL

\* Bytes never wait with their interrupt turned off and nobody to turn it on:
\* for rings and calls of every size.
THEOREM NeverStuckAlways == JtagSpec => []NeverStuck
<1>1. StuckInv => NeverStuck
  BY DEF StuckInv
<1> QED  BY <1>1, JtagInvariant, PTL

\* The callback comes every Period ticks, for every width of the clock and
\* every period that fits in it (alt_tick.c, alt_alarm_start.c).
THEOREM AlarmAlwaysOnTime == JtagSpec => AlarmOnTime
<1> DEFINE OnTime == TicksLeft' = IF TicksLeft = 1 THEN Period ELSE TicksLeft - 1
<1>1. JtagInv /\ AlarmAhead /\ [JtagNext]_jtagVars => [OnTime]_clockVars
  <2> SUFFICES ASSUME JtagInv, AlarmAhead, JtagNext
               PROVE  OnTime \/ UNCHANGED clockVars
    BY DEF jtagVars
  <2>1. CASE Tick
    BY <2>1, TickAhead, Zenon DEF Tick, JtagInv, JtagTypeOK
  <2>2. CASE Program \/ Interrupt \/ Host
    BY <2>2, Zenon DEF Program, Interrupt, Host
  <2> QED  BY <2>1, <2>2, Zenon DEF JtagNext
<1> QED  BY <1>1, JtagInvariant, PTL DEF JtagSpec, AlarmOnTime

-----------------------------------------------------------------------------
(* Sequences: what makes two queues the same.                              *)

LEMMA FunctionIsSeq ==
  ASSUME NEW m \in Nat, NEW f \in [1 .. m -> Byte]
  PROVE  f \in Seq(Byte) /\ Len(f) = m
BY SMT

LEMMA BackOf ==
  ASSUME NEW q \in Seq(Byte), NEW k \in Nat, k <= Len(q)
  PROVE  /\ SubSeq(q, k + 1, Len(q)) \in Seq(Byte)
         /\ Len(SubSeq(q, k + 1, Len(q))) = Len(q) - k
         /\ \A i \in 1 .. Len(q) - k : SubSeq(q, k + 1, Len(q))[i] = q[i + k]
<1> DEFINE t == SubSeq(q, k + 1, Len(q))
<1>1. Len(q) \in Nat /\ \A i \in 1 .. Len(q) : q[i] \in Byte
  BY LenProperties, ElementOfSeq
<1>2. \A i \in k + 1 .. Len(q) : q[i] \in Byte
  BY <1>1, SMT
<1>3. k + 1 \in Int /\ Len(q) \in Int
  BY <1>1, SMT
<1>4. /\ t \in Seq(Byte)
      /\ Len(t) = IF k + 1 <= Len(q) THEN Len(q) - (k + 1) + 1 ELSE 0
      /\ \A i \in 1 .. Len(q) - (k + 1) + 1 : t[i] = q[k + 1 + i - 1]
  BY <1>2, <1>3, SubSeqProperties
<1> HIDE DEF t
<1>5. Len(t) = Len(q) - k
  BY <1>1, <1>4, SMT
<1>6. ASSUME NEW i \in 1 .. Len(q) - k
      PROVE  t[i] = q[i + k]
  <2>1. i \in 1 .. Len(q) - (k + 1) + 1 /\ k + 1 + i - 1 = i + k
    BY <1>1, SMT
  <2> QED  BY <1>4, <2>1
<1> QED  BY <1>4, <1>5, <1>6 DEF t

LEMMA FrontDropped ==
  ASSUME NEW q \in Seq(Byte), NEW r \in Seq(Byte), NEW k \in Nat, k <= Len(q),
         Len(r) = Len(q) - k, \A i \in 1 .. Len(r) : r[i] = q[i + k]
  PROVE  r = SubSeq(q, k + 1, Len(q))
BY BackOf, SeqEqual

\* The same, with more behind.
LEMMA FrontDroppedBefore ==
  ASSUME NEW q \in Seq(Byte), NEW r \in Seq(Byte), NEW f \in Seq(Byte),
         NEW k \in Nat, k <= Len(q),
         Len(r) = Len(q) - k, \A i \in 1 .. Len(r) : r[i] = q[i + k]
  PROVE  r \o f = SubSeq(q \o f, k + 1, Len(q \o f))
<1>1. Len(q) \in Nat /\ Len(f) \in Nat /\ Len(r) \in Nat
  BY LenProperties
<1>2. /\ q \o f \in Seq(Byte) /\ Len(q \o f) = Len(q) + Len(f)
      /\ \A i \in 1 .. Len(q) + Len(f) : (q \o f)[i] = IF i <= Len(q) THEN q[i] ELSE f[i - Len(q)]
  BY ConcatProperties
<1>3. /\ r \o f \in Seq(Byte) /\ Len(r \o f) = Len(r) + Len(f)
      /\ \A i \in 1 .. Len(r) + Len(f) : (r \o f)[i] = IF i <= Len(r) THEN r[i] ELSE f[i - Len(r)]
  BY ConcatProperties
<1>4. ASSUME NEW i \in 1 .. Len(r) + Len(f)
      PROVE  (r \o f)[i] = (q \o f)[i + k]
  <2>1. /\ i + k \in 1 .. Len(q) + Len(f) /\ (i + k) - Len(q) = i - Len(r)
        /\ (i <= Len(r) <=> i + k <= Len(q))
    BY <1>1, SMT
  <2>2. CASE i <= Len(r)
    <3>1. i \in 1 .. Len(r)
      BY <1>1, <2>2, SMT
    <3> QED  BY <1>2, <1>3, <2>1, <2>2, <3>1
  <2>3. CASE ~(i <= Len(r))
    BY <1>2, <1>3, <2>1, <2>3
  <2> QED  BY <2>2, <2>3
<1>5. k <= Len(q \o f) /\ Len(r \o f) = Len(q \o f) - k
  BY <1>1, <1>2, <1>3, SMT
<1> QED  BY <1>2, <1>3, <1>4, <1>5, FrontDropped

LEMMA BackAdded ==
  ASSUME NEW q \in Seq(Byte), NEW r \in Seq(Byte), NEW w \in Seq(Byte),
         Len(r) = Len(q) + Len(w),
         \A i \in 1 .. Len(q) : r[i] = q[i],
         \A i \in 1 .. Len(w) : r[Len(q) + i] = w[i]
  PROVE  r = q \o w
<1>1. Len(q) \in Nat /\ Len(w) \in Nat
  BY LenProperties
<1>2. /\ q \o w \in Seq(Byte) /\ Len(q \o w) = Len(q) + Len(w)
      /\ \A i \in 1 .. Len(q) + Len(w) : (q \o w)[i] = IF i <= Len(q) THEN q[i] ELSE w[i - Len(q)]
  BY ConcatProperties
<1>3. ASSUME NEW i \in 1 .. Len(r)
      PROVE  r[i] = (q \o w)[i]
  <2>1. CASE i <= Len(q)
    BY <1>1, <1>2, <2>1, SMT
  <2>2. CASE ~(i <= Len(q))
    <3>1. i - Len(q) \in 1 .. Len(w) /\ Len(q) + (i - Len(q)) = i
      BY <1>1, <2>2, SMT
    <3>2. r[i] = w[i - Len(q)]
      BY <3>1
    <3> QED  BY <1>1, <1>2, <2>2, <3>2, SMT
  <2> QED  BY <2>1, <2>2
<1> QED  BY <1>2, <1>3, SeqEqual

\* The first byte of the second part goes to the back of the first part.
LEMMA HandedOver ==
  ASSUME NEW f \in Seq(Byte), NEW g \in Seq(Byte), NEW r \in Seq(Byte), NEW t \in Seq(Byte),
         Len(g) = Len(f) + 1, \A i \in 1 .. Len(f) : g[i] = f[i],
         Len(r) = Len(t) + 1, g[Len(f) + 1] = r[1], \A i \in 1 .. Len(t) : t[i] = r[i + 1]
  PROVE  g \o t = f \o r
<1>1. Len(f) \in Nat /\ Len(t) \in Nat
  BY LenProperties
<1>2. /\ f \o r \in Seq(Byte) /\ Len(f \o r) = Len(f) + Len(r)
      /\ \A i \in 1 .. Len(f) + Len(r) : (f \o r)[i] = IF i <= Len(f) THEN f[i] ELSE r[i - Len(f)]
  BY ConcatProperties
<1>3. /\ g \o t \in Seq(Byte) /\ Len(g \o t) = Len(g) + Len(t)
      /\ \A i \in 1 .. Len(g) + Len(t) : (g \o t)[i] = IF i <= Len(g) THEN g[i] ELSE t[i - Len(g)]
  BY ConcatProperties
<1>4. Len(g \o t) = Len(f \o r)
  BY <1>1, <1>2, <1>3, SMT
<1>5. ASSUME NEW i \in 1 .. Len(g \o t)
      PROVE  (g \o t)[i] = (f \o r)[i]
  <2>1. i \in 1 .. Len(f) + Len(r) /\ i \in 1 .. Len(g) + Len(t)
    BY <1>2, <1>3, <1>4
  <2>2. CASE i <= Len(f)
    <3>1. i \in 1 .. Len(f) /\ i <= Len(g)
      BY <1>1, <2>2, SMT
    <3> QED  BY <1>2, <1>3, <2>1, <2>2, <3>1
  <2>3. CASE i = Len(f) + 1
    <3>1. i <= Len(g) /\ ~(i <= Len(f)) /\ i - Len(f) = 1
      BY <1>1, <2>3, SMT
    <3> QED  BY <1>2, <1>3, <2>1, <2>3, <3>1
  <2>4. CASE i > Len(f) + 1
    <3>1. ~(i <= Len(g)) /\ ~(i <= Len(f)) /\ i - Len(g) \in 1 .. Len(t)
          /\ i - Len(g) + 1 = i - Len(f)
      BY <1>1, <2>1, <2>4, SMT
    <3>2. t[i - Len(g)] = r[i - Len(f)]
      BY <3>1
    <3> QED  BY <1>2, <1>3, <2>1, <3>1, <3>2
  <2> QED  BY <1>1, <2>1, <2>2, <2>3, <2>4, SMT
<1> QED  BY <1>2, <1>3, <1>4, <1>5, SeqEqual

-----------------------------------------------------------------------------
(* Rings.                                                                  *)

\* Bytes in a ring.
Span(in, out) == IF in >= out THEN in - out ELSE in + BUF_LEN - out

LEMMA RingBytes ==
  ASSUME NEW buf \in [Index -> Byte], NEW in \in Index, NEW out \in Index
  PROVE  /\ Ring(buf, in, out) \in Seq(Byte)
         /\ Len(Ring(buf, in, out)) = Span(in, out)
         /\ Span(in, out) \in 0 .. BUF_LEN - 1
         /\ \A i \in 1 .. Span(in, out) :
              /\ Wrap(out + i - 1) \in Index
              /\ Ring(buf, in, out)[i] = buf[Wrap(out + i - 1)]
<1>1. Span(in, out) \in 0 .. BUF_LEN - 1
  BY JtagAssumption, SMT DEF Span, Index
<1>2. \A i \in 1 .. Span(in, out) : Wrap(out + i - 1) \in Index
  BY <1>1, JtagAssumption, SMT DEF Wrap, Index
<1>3. Ring(buf, in, out) = [i \in 1 .. Span(in, out) |-> buf[Wrap(out + i - 1)]]
  BY Zenon DEF Ring, Span
<1>4. Ring(buf, in, out) \in [1 .. Span(in, out) -> Byte]
  BY <1>2, <1>3
<1>5. Span(in, out) \in Nat
  BY <1>1, JtagAssumption, SMT
<1> QED  BY <1>1, <1>2, <1>3, <1>4, <1>5, FunctionIsSeq

\* Bytes leave a ring at its front.
LEMMA RingDrops ==
  ASSUME NEW buf \in [Index -> Byte], NEW in \in Index, NEW out \in Index,
         NEW k \in 0 .. Span(in, out)
  PROVE  /\ Wrap(out + k) \in Index
         /\ Span(in, Wrap(out + k)) = Span(in, out) - k
         /\ \A i \in 1 .. Span(in, out) - k :
              Ring(buf, in, Wrap(out + k))[i] = Ring(buf, in, out)[i + k]
<1>1. /\ in \in Nat /\ out \in Nat /\ in < BUF_LEN /\ out < BUF_LEN /\ BUF_LEN \in Nat
      /\ k \in Nat /\ Span(in, out) \in Nat /\ k <= Span(in, out)
  BY JtagAssumption, SMT DEF Span, Index
<1>2. Wrap(out + k) \in Index /\ Span(in, Wrap(out + k)) = Span(in, out) - k
  BY <1>1, SMT DEF Span, Index, Wrap
<1>3. ASSUME NEW i \in 1 .. Span(in, out) - k
      PROVE  Ring(buf, in, Wrap(out + k))[i] = Ring(buf, in, out)[i + k]
  <2>1. i + k \in 1 .. Span(in, out) /\ i \in 1 .. Span(in, Wrap(out + k))
    BY <1>1, <1>2, SMT
  <2>2. Wrap(Wrap(out + k) + i - 1) = Wrap(out + (i + k) - 1)
    BY <1>1, <2>1, SMT DEF Span, Wrap
  <2>3. Ring(buf, in, Wrap(out + k))[i] = buf[Wrap(Wrap(out + k) + i - 1)]
    BY <1>2, <2>1, RingBytes
  <2>4. Ring(buf, in, out)[i + k] = buf[Wrap(out + (i + k) - 1)]
    BY <2>1, RingBytes
  <2> QED  BY <2>2, <2>3, <2>4
<1> QED  BY <1>2, <1>3

\* Bytes enter a ring at its back, where there is room for them.
LEMMA RingGrows ==
  ASSUME NEW buf \in [Index -> Byte], NEW in \in Index, NEW out \in Index,
         NEW k \in Nat, Span(in, out) + k < BUF_LEN
  PROVE  /\ Wrap(in + k) \in Index
         /\ Span(Wrap(in + k), out) = Span(in, out) + k
         /\ \A i \in 1 .. Span(in, out) : Ring(buf, Wrap(in + k), out)[i] = Ring(buf, in, out)[i]
         /\ \A i \in 1 .. k :
              Ring(buf, Wrap(in + k), out)[Span(in, out) + i] = buf[Wrap(in + i - 1)]
<1>1. /\ in \in Nat /\ out \in Nat /\ in < BUF_LEN /\ out < BUF_LEN /\ BUF_LEN \in Nat
      /\ Span(in, out) \in Nat
  BY JtagAssumption, SMT DEF Span, Index
<1>2. Wrap(in + k) \in Index /\ Span(Wrap(in + k), out) = Span(in, out) + k
  BY <1>1, SMT DEF Span, Index, Wrap
<1>3. \A i \in 1 .. Span(in, out) + k :
        Ring(buf, Wrap(in + k), out)[i] = buf[Wrap(out + i - 1)]
  <2>1. \A i \in 1 .. Span(Wrap(in + k), out) :
          Ring(buf, Wrap(in + k), out)[i] = buf[Wrap(out + i - 1)]
    BY <1>2, RingBytes
  <2> QED  BY <1>2, <2>1, Zenon
<1>4. ASSUME NEW i \in 1 .. Span(in, out)
      PROVE  Ring(buf, Wrap(in + k), out)[i] = Ring(buf, in, out)[i]
  <2>1. i \in 1 .. Span(in, out) + k
    BY <1>1, SMT
  <2> QED  BY <1>3, <2>1, RingBytes
<1>5. ASSUME NEW i \in 1 .. k
      PROVE  Ring(buf, Wrap(in + k), out)[Span(in, out) + i] = buf[Wrap(in + i - 1)]
  <2>1. Span(in, out) + i \in 1 .. Span(in, out) + k
    BY <1>1, SMT
  <2>2. Wrap(out + (Span(in, out) + i) - 1) = Wrap(in + i - 1)
    BY <1>1, <2>1, SMT DEF Span, Wrap
  <2> QED  BY <1>3, <2>1, <2>2
<1> QED  BY <1>2, <1>4, <1>5

\* Only the bytes between the indices count.
LEMMA RingKept ==
  ASSUME NEW buf \in [Index -> Byte], NEW new \in [Index -> Byte], NEW in \in Index,
         NEW out \in Index, \A i \in 1 .. Span(in, out) : new[Wrap(out + i - 1)] = buf[Wrap(out + i - 1)]
  PROVE  Ring(new, in, out) = Ring(buf, in, out)
<1>1. \A i \in 1 .. Span(in, out) : Ring(new, in, out)[i] = Ring(buf, in, out)[i]
  BY RingBytes
<1> QED  BY <1>1, RingBytes, SeqEqual

\* What a write may copy leaves one place of the ring free, and touches none that holds
\* a byte.
LEMMA RoomIsFree ==
  ASSUME NEW in \in Index, NEW out \in Index, NEW k \in Nat, k <= Room(in, out)
  PROVE  /\ Span(in, out) + k < BUF_LEN
         /\ in + k <= BUF_LEN
         /\ \A i \in 1 .. Span(in, out) :
              Wrap(out + i - 1) < in \/ Wrap(out + i - 1) >= in + k
BY JtagAssumption, SMT DEF Span, Index, Room, Wrap

\* What a read may copy is there, in one piece.
LEMMA HeldIsThere ==
  ASSUME NEW in \in Index, NEW out \in Index
  PROVE  Held(in, out) \in 0 .. Span(in, out)
BY JtagAssumption, SMT DEF Span, Index, Held

\* The other side only makes more of both.
LEMMA RoomGrows ==
  ASSUME NEW in \in Index, NEW out \in Index, in # out
  PROVE  Room(in, out) <= Room(in, Wrap(out + 1))
BY JtagAssumption, SMT DEF Index, Room, Wrap

LEMMA HeldGrows ==
  ASSUME NEW in \in Index, NEW out \in Index, Wrap(in + 1) # out
  PROVE  /\ Held(in, out) <= Held(Wrap(in + 1), out)
         /\ Span(in, out) + 1 < BUF_LEN
BY JtagAssumption, SMT DEF Index, Held, Wrap, Span

\* What is written one place behind the last byte does not disturb the others.
LEMMA BackIsFree ==
  ASSUME NEW in \in Index, NEW out \in Index
  PROVE  \A i \in 1 .. Span(in, out) : Wrap(out + i - 1) # in
BY JtagAssumption, SMT DEF Span, Index, Wrap

-----------------------------------------------------------------------------
(* The bytes a call moves.                                                 *)

\* A write has room for the bytes of its round, and before it publishes them they are
\* the next ones; a read takes no more than there is.  The interrupt routine may
\* have moved the other index meanwhile.
WriteFits == pc \in {"copy", "publish"} => n <= Room(tx_in, tx_out)
Copied ==
  pc = "publish" => \A i \in 1 .. n : tx_buf[tx_in + i - 1] = (tx_next + i - 1) % Numbers
ReadFits == pc \in {"rcopy", "rpublish"} => n <= Held(rx_in, rx_out)

OrderInv == WriteFits /\ Copied /\ ReadFits

\* The types of what the two queues are made of.
RingTypes ==
  /\ tx_buf \in [Index -> Byte] /\ tx_in \in Index /\ tx_out \in Index
  /\ rx_buf \in [Index -> Byte] /\ rx_in \in Index /\ rx_out \in Index
  /\ tx_fifo \in Seq(Byte) /\ rx_fifo \in Seq(Byte)
  /\ Len(tx_fifo) <= FifoLen /\ Len(rx_fifo) <= FifoLen
  /\ tx_next \in Byte /\ rx_next \in Byte
  /\ n \in Nat /\ count \in Nat

LEMMA RingsTyped == JtagInv => RingTypes
BY SMT DEF JtagInv, JtagTypeOK, RingTypes

LEMMA PrimedRingsTyped == JtagInv' => RingTypes'
BY SMT DEF JtagInv, JtagTypeOK, RingTypes

LEMMA ProgramOrdered ==
  ASSUME RingTypes, OrderInv, Program
  PROVE  OrderInv'
<1> USE DEF OrderInv
<1>1. CASE WriteLook
  <2>1. /\ n' = Least(Room(tx_in, tx_out), count) /\ pc' \in {"kick", "copy"}
        /\ UNCHANGED <<tx_in, tx_out>>
    BY <1>1, Zenon DEF WriteLook, Go, ringVars
  <2>2. n' <= Room(tx_in, tx_out)
    BY <2>1, JtagAssumption, SMT DEF RingTypes, Index, Room, Least
  <2> QED  BY <2>1, <2>2, SMT DEF WriteFits, Copied, ReadFits, Room
<1>2. CASE WriteCopy
  <2>1. /\ pc = "copy" /\ pc' = "publish"
        /\ tx_buf' = [i \in Index |-> IF i >= tx_in /\ i < tx_in + n
                                      THEN (tx_next + i - tx_in) % Numbers ELSE tx_buf[i]]
        /\ UNCHANGED <<n, rx_in, rx_out, tx_in, tx_out, tx_next>>
    BY <1>2, Zenon DEF WriteCopy, Go
  <2>2. n <= Room(tx_in, tx_out) /\ n \in Nat /\ tx_in \in Index /\ tx_out \in Index
        /\ tx_next \in Byte
    BY <2>1 DEF WriteFits, RingTypes
  <2>3. tx_in + n <= BUF_LEN
    BY <2>2, RoomIsFree
  <2>4. ASSUME NEW i \in 1 .. n
        PROVE  tx_buf'[tx_in + i - 1] = (tx_next + i - 1) % Numbers
    <3>1. /\ tx_in + i - 1 \in Index /\ tx_in + i - 1 >= tx_in /\ tx_in + i - 1 < tx_in + n
          /\ tx_next + (tx_in + i - 1) - tx_in = tx_next + i - 1
      BY <2>2, <2>3, JtagAssumption, SMT DEF Index, Byte
    <3> QED  BY <2>1, <3>1
  <2>5. WriteFits' /\ ReadFits'
    BY <2>1, <2>2, SMT DEF WriteFits, ReadFits, Room
  <2>6. Copied'
    BY <2>1, <2>4 DEF Copied
  <2> QED  BY <2>5, <2>6
<1>3. CASE ReadLook
  <2>1. /\ n' = Least(Held(rx_in, rx_out), count) /\ pc' \in {"rcopy", "renable", "rspin"}
        /\ UNCHANGED <<rx_in, rx_out>>
    BY <1>3, Zenon DEF ReadLook, Go, ringVars
  <2>2. n' <= Held(rx_in, rx_out)
    BY <2>1, JtagAssumption, SMT DEF RingTypes, Index, Held, Least
  <2> QED  BY <2>1, <2>2, SMT DEF WriteFits, Copied, ReadFits, Held
<1>4. CASE ReadCopy
  <2>1. pc = "rcopy" /\ pc' = "rpublish" /\ UNCHANGED <<n, rx_in, rx_out>>
    BY <1>4, Zenon DEF ReadCopy, Go, ringVars
  <2> QED  BY <2>1, SMT DEF WriteFits, Copied, ReadFits, Held
<1>5. CASE ~WriteLook /\ ~WriteCopy /\ ~ReadLook /\ ~ReadCopy
  <2>1. CASE Calls
    <3>1. pc' \in {"look", "rlook", "drain"}
      BY <2>1, Zenon DEF Calls, Call
    <3> QED  BY <3>1, SMT DEF WriteFits, Copied, ReadFits
  <2>2. CASE WritePublish \/ Kick \/ WriteSpin \/ Drain \/ ReadPublish \/ ReadSpin \/ ReadEnable
    <3>1. pc' \in {"look", "kick", "spin", "idle", "rlook", "renable"}
      BY <2>2, Zenon DEF WritePublish, Kick, WriteSpin, Drain, ReadPublish, ReadSpin, ReadEnable,
                         Go, Return
    <3> QED  BY <3>1, SMT DEF WriteFits, Copied, ReadFits
  <2> QED  BY <1>5, <2>1, <2>2, Zenon DEF Program, CallStep
<1> QED  BY <1>1, <1>2, <1>3, <1>4, <1>5, Zenon

\* Rings and calls that stand still.
LEMMA StillOrdered ==
  ASSUME OrderInv, UNCHANGED <<pc, n, tx_in, tx_out, tx_buf, tx_next, rx_in, rx_out>>
  PROVE  OrderInv'
BY Zenon DEF OrderInv, WriteFits, Copied, ReadFits, Room, Held

LEMMA InterruptOrdered ==
  ASSUME RingTypes, OrderInv, Interrupt
  PROVE  OrderInv'
<1>1. UNCHANGED <<pc, n, tx_next>>
  BY Zenon DEF Interrupt, callVars
<1>2. CASE IsrReceive
  <2>1. ~RxFull /\ rx_in' = Wrap(rx_in + 1) /\ UNCHANGED <<rx_out, tx_in, tx_out, tx_buf>>
    BY <1>2, Zenon DEF IsrReceive
  <2>2. Held(rx_in, rx_out) <= Held(rx_in', rx_out')
    BY <2>1, HeldGrows DEF RxFull, RingTypes
  <2>3. ReadFits'
    <3>1. /\ Held(rx_in, rx_out) \in Int /\ Held(rx_in', rx_out') \in Int /\ n \in Int
          /\ Held(rx_in, rx_out)' = Held(rx_in', rx_out')
      BY <2>1, JtagAssumption, SMT DEF RingTypes, Index, Held, Wrap
    <3> QED  BY <1>1, <2>2, <3>1, SMT DEF OrderInv, ReadFits
  <2>4. WriteFits' /\ Copied'
    BY <1>1, <2>1, Zenon DEF OrderInv, WriteFits, Copied, Room
  <2> QED  BY <2>3, <2>4 DEF OrderInv
<1>3. CASE IsrSend
  <2>1. tx_out # tx_in /\ tx_out' = Wrap(tx_out + 1) /\ UNCHANGED <<rx_in, rx_out, tx_in, tx_buf>>
    BY <1>3, Zenon DEF IsrSend
  <2>2. Room(tx_in, tx_out) <= Room(tx_in', tx_out')
    BY <2>1, RoomGrows DEF RingTypes
  <2>3. WriteFits'
    <3>1. /\ Room(tx_in, tx_out) \in Int /\ Room(tx_in', tx_out') \in Int /\ n \in Int
          /\ Room(tx_in, tx_out)' = Room(tx_in', tx_out')
      BY <2>1, JtagAssumption, SMT DEF RingTypes, Index, Room, Wrap
    <3> QED  BY <1>1, <2>2, <3>1, SMT DEF OrderInv, WriteFits
  <2>4. ReadFits' /\ Copied'
    BY <1>1, <2>1, Zenon DEF OrderInv, ReadFits, Copied, Held
  <2> QED  BY <2>3, <2>4 DEF OrderInv
<1>4. CASE IsrLoop \/ IsrReceived \/ IsrSent
  <2>1. UNCHANGED ringVars
    BY <1>4, Zenon DEF IsrLoop, IsrReceived, IsrSent
  <2> QED  BY <1>1, <2>1, StillOrdered DEF ringVars
<1> QED  BY <1>2, <1>3, <1>4, Zenon DEF Interrupt, Isr

LEMMA StepOrdered ==
  ASSUME RingTypes, OrderInv, [JtagNext]_jtagVars
  PROVE  OrderInv'
<1>1. CASE Tick \/ Host \/ UNCHANGED jtagVars
  <2>1. UNCHANGED ringVars /\ UNCHANGED callVars /\ tx_next' = tx_next
    BY <1>1, Zenon DEF Tick, Host, jtagVars
  <2> QED  BY <2>1, StillOrdered DEF ringVars, callVars
<1> QED  BY <1>1, ProgramOrdered, InterruptOrdered, Zenon DEF JtagNext

-----------------------------------------------------------------------------
(* The queue to the host.                                                  *)

ToHost == tx_fifo \o Ring(tx_buf, tx_in, tx_out)

LEMMA ToHostBytes ==
  ASSUME RingTypes
  PROVE  /\ ToHost \in Seq(Byte)
         /\ Len(ToHost) = Len(tx_fifo) + Span(tx_in, tx_out)
         /\ Len(ToHost) \in Nat
<1>1. /\ Ring(tx_buf, tx_in, tx_out) \in Seq(Byte)
      /\ Len(Ring(tx_buf, tx_in, tx_out)) = Span(tx_in, tx_out)
  BY RingBytes DEF RingTypes
<1>2. ToHost \in Seq(Byte) /\ Len(ToHost) = Len(tx_fifo) + Span(tx_in, tx_out)
  BY <1>1, ConcatProperties DEF RingTypes, ToHost
<1> QED  BY <1>2, LenProperties

LEMMA ToHostStill ==
  ASSUME UNCHANGED <<tx_fifo, tx_buf, tx_in, tx_out>>
  PROVE  ToHost' = ToHost
BY Zenon DEF ToHost, Ring

\* A write copies behind the bytes of the ring.
LEMMA CopyIsHidden ==
  ASSUME RingTypes, RingTypes', OrderInv, WriteCopy
  PROVE  Ring(tx_buf, tx_in, tx_out)' = Ring(tx_buf, tx_in, tx_out)
<1>1. /\ pc = "copy" /\ UNCHANGED <<tx_in, tx_out>>
      /\ tx_buf' = [i \in Index |-> IF i >= tx_in /\ i < tx_in + n
                                    THEN (tx_next + i - tx_in) % Numbers ELSE tx_buf[i]]
  BY Zenon DEF WriteCopy
<1>2. /\ n \in Nat /\ n <= Room(tx_in, tx_out) /\ tx_in \in Index /\ tx_out \in Index
      /\ tx_buf \in [Index -> Byte] /\ tx_buf' \in [Index -> Byte]
  BY <1>1 DEF OrderInv, WriteFits, RingTypes
<1>3. ASSUME NEW i \in 1 .. Span(tx_in, tx_out)
      PROVE  tx_buf'[Wrap(tx_out + i - 1)] = tx_buf[Wrap(tx_out + i - 1)]
  <2>1. Wrap(tx_out + i - 1) \in Index
    BY <1>2, RingBytes
  <2>2. Wrap(tx_out + i - 1) < tx_in \/ Wrap(tx_out + i - 1) >= tx_in + n
    BY <1>2, RoomIsFree
  <2>3. ~(Wrap(tx_out + i - 1) >= tx_in /\ Wrap(tx_out + i - 1) < tx_in + n)
    BY <1>2, <2>1, <2>2, JtagAssumption, SMT DEF Index
  <2> QED  BY <1>1, <2>1, <2>3, Zenon
<1>4. Ring(tx_buf', tx_in, tx_out) = Ring(tx_buf, tx_in, tx_out)
  BY <1>2, <1>3, RingKept
<1>5. Ring(tx_buf, tx_in, tx_out)' = Ring(tx_buf', tx_in, tx_out)
  BY <1>1, SMT DEF Ring
<1> QED  BY <1>4, <1>5

\* What a write publishes is accepted, in order.
LEMMA PublishAccepts ==
  ASSUME RingTypes, RingTypes', OrderInv, WritePublish, UNCHANGED tx_fifo
  PROVE  TxQueue!QueueNext \/ UNCHANGED <<ToHost, tx_next>>
<1> DEFINE old  == Ring(tx_buf, tx_in, tx_out)
           new  == Ring(tx_buf, Wrap(tx_in + n), tx_out)
           more == [i \in 1 .. n |-> (tx_next + i - 1) % Numbers]
<1>1. /\ pc = "publish" /\ tx_in' = Wrap(tx_in + n) /\ tx_next' = (tx_next + n) % Numbers
      /\ UNCHANGED <<tx_out, tx_buf>>
  BY Zenon DEF WritePublish
<1>2. /\ n \in Nat /\ n <= Room(tx_in, tx_out) /\ tx_in \in Index /\ tx_out \in Index
      /\ tx_buf \in [Index -> Byte] /\ tx_next \in Byte /\ Wrap(tx_in + n) \in Index
      /\ tx_fifo \in Seq(Byte) /\ Len(tx_fifo) <= FifoLen /\ Len(tx_fifo) \in Nat
  BY <1>1, LenProperties DEF OrderInv, WriteFits, RingTypes
<1>3. /\ Span(tx_in, tx_out) + n < BUF_LEN /\ tx_in + n <= BUF_LEN
      /\ Span(tx_in, tx_out) \in Nat
  <2>1. Span(tx_in, tx_out) \in 0 .. BUF_LEN - 1
    BY <1>2, RingBytes
  <2> QED  BY <1>2, <2>1, RoomIsFree, JtagAssumption, SMT
<1>4. /\ Span(Wrap(tx_in + n), tx_out) = Span(tx_in, tx_out) + n
      /\ \A i \in 1 .. Span(tx_in, tx_out) : new[i] = old[i]
      /\ \A i \in 1 .. n : new[Span(tx_in, tx_out) + i] = tx_buf[Wrap(tx_in + i - 1)]
  BY <1>2, <1>3, RingGrows
<1>5. /\ old \in Seq(Byte) /\ Len(old) = Span(tx_in, tx_out)
      /\ new \in Seq(Byte) /\ Len(new) = Span(tx_in, tx_out) + n
  BY <1>2, <1>4, RingBytes
<1>6. more \in Seq(Byte) /\ Len(more) = n /\ \A i \in 1 .. n : more[i] = (tx_next + i - 1) % Numbers
  <2>1. \A i \in 1 .. n : tx_next + i - 1 \in Nat
    BY <1>2, SMT DEF Byte
  <2>2. more \in [1 .. n -> Byte]
    BY <2>1, NumberType
  <2> QED  BY <1>2, <2>2, FunctionIsSeq
<1>7. ASSUME NEW i \in 1 .. n
      PROVE  new[Span(tx_in, tx_out) + i] = more[i]
  <2>1. Wrap(tx_in + i - 1) = tx_in + i - 1
    BY <1>2, <1>3, JtagAssumption, SMT DEF Wrap, Index
  <2>2. tx_buf[tx_in + i - 1] = (tx_next + i - 1) % Numbers
    BY <1>1 DEF OrderInv, Copied
  <2> QED  BY <1>4, <1>6, <2>1, <2>2
<1>8. new = old \o more
  <2>1. /\ Len(new) = Len(old) + Len(more)
        /\ \A i \in 1 .. Len(old) : new[i] = old[i]
        /\ \A i \in 1 .. Len(more) : new[Len(old) + i] = more[i]
    <3> HIDE DEF new, old, more
    <3> QED  BY <1>4, <1>5, <1>6, <1>7, Zenon
  <2>2. new \in Seq(Byte) /\ old \in Seq(Byte) /\ more \in Seq(Byte)
    BY <1>5, <1>6, Zenon
  <2> HIDE DEF new, old, more
  <2> QED  BY <2>1, <2>2, BackAdded
<1>9. ToHost' = ToHost \o more
  <2>1. ToHost' = tx_fifo \o new
    BY <1>1 DEF ToHost
  <2>2. ToHost = tx_fifo \o old
    BY DEF ToHost
  <2> HIDE DEF new, old, more
  <2>3. new \in Seq(Byte) /\ old \in Seq(Byte) /\ more \in Seq(Byte) /\ tx_fifo \in Seq(Byte)
    BY <1>2, <1>5, <1>6, Zenon
  <2>4. (tx_fifo \o old) \o more = tx_fifo \o (old \o more)
    <3> HIDE DEF new, old, more
    <3> QED  BY <2>3, ConcatAssociative
  <2> QED  BY <1>8, <2>1, <2>2, <2>4, Zenon
<1>10. Len(ToHost) + n <= BUF_LEN - 1 + FifoLen
  BY <1>2, <1>3, ToHostBytes, JtagAssumption, SMT
<1>11. CASE n = 0
  <2>1. tx_in' = tx_in
    BY <1>1, <1>2, <1>11, JtagAssumption, SMT DEF Wrap, Index
  <2>2. tx_next' = tx_next
    <3>1. tx_next + n = tx_next
      BY <1>2, <1>11, JtagAssumption, SMT DEF Byte
    <3> QED  BY <1>1, <1>2, <3>1, NumberSame
  <2> QED  BY <1>1, <2>1, <2>2, ToHostStill
<1>12. CASE n # 0
  <2>1. n \in 1 .. BUF_LEN - 1 + FifoLen
    BY <1>2, <1>3, <1>12, JtagAssumption, SMT
  <2>2. TxQueue!Accept(n)
    BY <1>1, <1>9, <1>10 DEF TxQueue!Accept, ToHost
  <2> QED  BY <2>1, <2>2 DEF TxQueue!QueueNext
<1> QED  BY <1>11, <1>12

\* The interrupt routine moves a byte from the ring to the chip, which are one queue.
LEMMA SendIsHidden ==
  ASSUME RingTypes, IsrSend
  PROVE  ToHost' = ToHost
<1>1. /\ tx_out # tx_in /\ tx_fifo' = Append(tx_fifo, tx_buf[tx_out])
      /\ tx_out' = Wrap(tx_out + 1) /\ UNCHANGED <<tx_in, tx_buf>>
  BY Zenon DEF IsrSend
<1>2. /\ tx_in \in Index /\ tx_out \in Index /\ tx_buf \in [Index -> Byte]
      /\ tx_fifo \in Seq(Byte) /\ Len(tx_fifo) \in Nat /\ tx_buf[tx_out] \in Byte
  BY LenProperties DEF RingTypes
<1> DEFINE old == Ring(tx_buf, tx_in, tx_out)
           new == Ring(tx_buf, tx_in, Wrap(tx_out + 1))
<1>3. 1 \in 0 .. Span(tx_in, tx_out) /\ 1 \in 1 .. Span(tx_in, tx_out)
      /\ Wrap(tx_out + 1 - 1) = tx_out
  BY <1>1, <1>2, JtagAssumption, SMT DEF Span, Index, Wrap
<1>4. /\ Wrap(tx_out + 1) \in Index /\ Span(tx_in, Wrap(tx_out + 1)) = Span(tx_in, tx_out) - 1
      /\ \A i \in 1 .. Span(tx_in, tx_out) - 1 : new[i] = old[i + 1]
  BY <1>2, <1>3, RingDrops
<1>5. /\ old \in Seq(Byte) /\ Len(old) = Span(tx_in, tx_out) /\ old[1] = tx_buf[tx_out]
      /\ new \in Seq(Byte) /\ Len(new) = Span(tx_in, tx_out) - 1
      /\ Span(tx_in, tx_out) \in Nat
  <2>1. Span(tx_in, tx_out) \in 0 .. BUF_LEN - 1
    BY <1>2, RingBytes
  <2>2. Span(tx_in, tx_out) \in Nat
    BY <2>1, JtagAssumption, SMT
  <2>3. /\ new \in Seq(Byte) /\ Len(new) = Span(tx_in, Wrap(tx_out + 1))
    BY <1>2, <1>4, RingBytes
  <2>4. old \in Seq(Byte) /\ Len(old) = Span(tx_in, tx_out)
    BY <1>2, RingBytes
  <2>5. old[1] = tx_buf[Wrap(tx_out + 1 - 1)]
    BY <1>2, <1>3, RingBytes
  <2> HIDE DEF new, old
  <2> QED  BY <1>3, <1>4, <2>2, <2>3, <2>4, <2>5, Zenon
<1>6. /\ tx_fifo' \in Seq(Byte) /\ Len(tx_fifo') = Len(tx_fifo) + 1
      /\ \A i \in 1 .. Len(tx_fifo) : tx_fifo'[i] = tx_fifo[i]
      /\ tx_fifo'[Len(tx_fifo) + 1] = tx_buf[tx_out]
  <2>1. tx_fifo' \in Seq(Byte) /\ Len(tx_fifo') = Len(tx_fifo) + 1
    BY <1>1, <1>2, AppendType
  <2> QED  BY <1>1, <1>2, <2>1, SMT
<1>7. Len(old) = Len(new) + 1
  BY <1>5, SMT
<1>8. tx_fifo' \o new = tx_fifo \o old
  <2> HIDE DEF new, old
  <2>1. \A i \in 1 .. Len(new) : new[i] = old[i + 1]
    BY <1>4, <1>5, Zenon
  <2>2. tx_fifo'[Len(tx_fifo) + 1] = old[1]
    BY <1>5, <1>6, Zenon
  <2>3. /\ tx_fifo \in Seq(Byte) /\ tx_fifo' \in Seq(Byte) /\ old \in Seq(Byte) /\ new \in Seq(Byte)
        /\ Len(tx_fifo') = Len(tx_fifo) + 1
        /\ \A i \in 1 .. Len(tx_fifo) : tx_fifo'[i] = tx_fifo[i]
    BY <1>2, <1>5, <1>6, Zenon
  <2> QED  BY <1>7, <2>1, <2>2, <2>3, HandedOver, ZenonT(60)
<1> QED  BY <1>1, <1>8 DEF ToHost

\* The host takes the first byte.
LEMMA HostTakes ==
  ASSUME RingTypes, Host
  PROVE  TxQueue!QueueNext \/ UNCHANGED <<ToHost, tx_next>>
<1>1. /\ tx_fifo' = (IF tx_fifo = <<>> THEN <<>> ELSE Tail(tx_fifo))
      /\ UNCHANGED <<tx_buf, tx_in, tx_out, tx_next>>
  BY Zenon DEF Host, HostPoll, ringVars
<1>2. CASE tx_fifo = <<>>
  <2>1. tx_fifo' = tx_fifo
    BY <1>1, <1>2, Zenon
  <2> QED  BY <1>1, <2>1, ToHostStill
<1>3. CASE tx_fifo # <<>>
  <2> DEFINE ring == Ring(tx_buf, tx_in, tx_out)
  <2>1. /\ tx_fifo \in Seq(Byte) /\ ring \in Seq(Byte) /\ Len(tx_fifo) \in Nat \ {0}
        /\ tx_fifo' = Tail(tx_fifo) /\ Len(tx_fifo) <= FifoLen
    BY <1>1, <1>3, RingBytes, EmptySeq DEF RingTypes
  <2>2. /\ tx_fifo' \in Seq(Byte) /\ Len(tx_fifo') = Len(tx_fifo) - 1
        /\ \A i \in 1 .. Len(tx_fifo') : tx_fifo'[i] = tx_fifo[i + 1]
    BY <1>3, <2>1, HeadTailProperties
  <2>3. 1 <= Len(tx_fifo) /\ 1 \in Nat
    BY <2>1, SMT
  <2>4. tx_fifo' \o ring = SubSeq(tx_fifo \o ring, 1 + 1, Len(tx_fifo \o ring))
    <3> HIDE DEF ring
    <3> QED  BY <2>1, <2>2, <2>3, FrontDroppedBefore
  <2>5. ToHost' = SubSeq(ToHost, 1 + 1, Len(ToHost))
    BY <1>1, <2>4 DEF ToHost
  <2>6. 1 \in 1 .. BUF_LEN - 1 + FifoLen /\ 1 <= Len(ToHost)
    <3>1. Span(tx_in, tx_out) \in 0 .. BUF_LEN - 1
      BY RingBytes DEF RingTypes
    <3> QED  BY <2>1, <3>1, ToHostBytes, JtagAssumption, SMT
  <2>7. TxQueue!Deliver(1)
    BY <1>1, <2>5, <2>6 DEF TxQueue!Deliver, ToHost
  <2> QED  BY <2>6, <2>7 DEF TxQueue!QueueNext
<1> QED  BY <1>2, <1>3

\* Every step is one of the queue to the host, or none.
LEMMA ToHostStep ==
  ASSUME RingTypes, RingTypes', OrderInv, [JtagNext]_jtagVars
  PROVE  TxQueue!QueueNext \/ UNCHANGED <<ToHost, tx_next>>
<1>1. CASE Program
  <2>1. tx_fifo' = tx_fifo
    BY <1>1, Zenon DEF Program, chipVars
  <2>2. CASE WriteCopy
    <3>1. tx_next' = tx_next
      BY <2>2, Zenon DEF WriteCopy
    <3>2. Ring(tx_buf, tx_in, tx_out)' = Ring(tx_buf, tx_in, tx_out)
      BY <2>2, CopyIsHidden
    <3> QED  BY <2>1, <3>1, <3>2 DEF ToHost
  <2>3. CASE WritePublish
    BY <2>1, <2>3, PublishAccepts
  <2>4. CASE Calls \/ (CallStep /\ ~WriteCopy /\ ~WritePublish)
    <3>1. UNCHANGED <<tx_buf, tx_in, tx_out, tx_next>>
      BY <2>4, Zenon DEF Calls, CallStep, WriteLook, Kick, WriteSpin, Drain, ReadLook, ReadCopy,
                         ReadPublish, ReadSpin, ReadEnable, ringVars
    <3> QED  BY <2>1, <3>1, ToHostStill
  <2> QED  BY <1>1, <2>2, <2>3, <2>4, Zenon DEF Program
<1>2. CASE Interrupt
  <2>1. tx_next' = tx_next
    BY <1>2, Zenon DEF Interrupt
  <2>2. CASE IsrSend
    BY <2>1, <2>2, SendIsHidden
  <2>3. CASE IsrLoop \/ IsrReceive \/ IsrReceived \/ IsrSent
    <3>1. UNCHANGED <<tx_fifo, tx_buf, tx_in, tx_out>>
      BY <2>3, Zenon DEF IsrLoop, IsrReceive, IsrReceived, IsrSent, ringVars
    <3> QED  BY <2>1, <3>1, ToHostStill
  <2> QED  BY <1>2, <2>2, <2>3, Zenon DEF Interrupt, Isr
<1>3. CASE Tick \/ UNCHANGED jtagVars
  <2>1. UNCHANGED <<tx_fifo, tx_buf, tx_in, tx_out, tx_next>>
    BY <1>3, Zenon DEF Tick, jtagVars, ringVars, chipVars
  <2> QED  BY <2>1, ToHostStill
<1>4. CASE Host
  BY <1>4, HostTakes
<1> QED  BY <1>1, <1>2, <1>3, <1>4, Zenon DEF JtagNext

-----------------------------------------------------------------------------
(* The queue from the host.                                                *)

FromHost == Unread \o rx_fifo

\* Bytes the caller of a read already has, although the ring still holds them.
Taken == IF pc = "rpublish" THEN n ELSE 0

LEMMA TakenHeld ==
  ASSUME RingTypes, OrderInv
  PROVE  Taken \in 0 .. Span(rx_in, rx_out) /\ Span(rx_in, rx_out) \in 0 .. BUF_LEN - 1
<1>1. /\ Held(rx_in, rx_out) \in 0 .. Span(rx_in, rx_out)
      /\ Span(rx_in, rx_out) \in 0 .. BUF_LEN - 1
  BY HeldIsThere, RingBytes DEF RingTypes
<1>2. n \in Nat /\ (pc = "rpublish" => n <= Held(rx_in, rx_out))
  BY DEF RingTypes, OrderInv, ReadFits
<1> QED  BY <1>1, <1>2, JtagAssumption, SMT DEF Taken

LEMMA UnreadBytes ==
  ASSUME RingTypes, OrderInv
  PROVE  /\ Unread \in Seq(Byte)
         /\ Len(Unread) = Span(rx_in, rx_out) - Taken
         /\ Len(Unread) \in Nat
         /\ \A i \in 1 .. Span(rx_in, rx_out) - Taken :
              Unread[i] = Ring(rx_buf, rx_in, rx_out)[i + Taken]
<1> DEFINE ring == Ring(rx_buf, rx_in, rx_out)
<1>1. ring \in Seq(Byte) /\ Len(ring) = Span(rx_in, rx_out)
  BY RingBytes DEF RingTypes
<1>2. Taken \in Nat /\ Taken <= Len(ring)
  BY <1>1, TakenHeld, JtagAssumption, SMT
<1>3. Unread = SubSeq(ring, Taken + 1, Len(ring))
  <2>1. CASE pc = "rpublish"
    BY <2>1, Zenon DEF Unread, Taken
  <2>2. CASE pc # "rpublish"
    <3>1. Taken + 1 = 1
      BY <2>2 DEF Taken
    <3>2. SubSeq(ring, 1, Len(ring)) = ring
      BY <1>1, SubSeqFull
    <3> QED  BY <2>2, <3>1, <3>2, Zenon DEF Unread
  <2> QED  BY <2>1, <2>2
<1> HIDE DEF ring
<1>4. /\ Unread \in Seq(Byte) /\ Len(Unread) = Len(ring) - Taken
      /\ \A i \in 1 .. Len(ring) - Taken : Unread[i] = ring[i + Taken]
  BY <1>1, <1>2, <1>3, BackOf
<1>5. Len(Unread) \in Nat
  BY <1>4, LenProperties
<1> QED  BY <1>1, <1>4, <1>5 DEF ring

LEMMA FromHostBytes ==
  ASSUME RingTypes, OrderInv
  PROVE  /\ FromHost \in Seq(Byte)
         /\ Len(FromHost) = Len(Unread) + Len(rx_fifo)
         /\ Len(FromHost) <= BUF_LEN - 1 + Len(rx_fifo)
<1>1. FromHost \in Seq(Byte) /\ Len(FromHost) = Len(Unread) + Len(rx_fifo)
  BY UnreadBytes, ConcatProperties DEF FromHost, RingTypes
<1>2. Len(Unread) <= BUF_LEN - 1 /\ Len(Unread) \in Nat
  BY UnreadBytes, TakenHeld, JtagAssumption, SMT
<1>3. Len(rx_fifo) \in Nat
  BY LenProperties DEF RingTypes
<1> QED  BY <1>1, <1>2, <1>3, JtagAssumption, SMT

LEMMA FromHostStill ==
  ASSUME UNCHANGED <<rx_fifo, rx_buf, rx_in, rx_out>>,
         \/ UNCHANGED <<pc, n>>
         \/ pc # "rpublish" /\ pc' # "rpublish"
  PROVE  FromHost' = FromHost
<1>1. Ring(rx_buf, rx_in, rx_out)' = Ring(rx_buf, rx_in, rx_out)
  BY Zenon DEF Ring
<1>2. Unread' = Unread
  BY <1>1, Zenon DEF Unread
<1> QED  BY <1>2, Zenon DEF FromHost

\* The interrupt routine moves a byte from the chip to the ring, which are one queue.
LEMMA ReceiveIsHidden ==
  ASSUME RingTypes, RingTypes', OrderInv, IsrReceive, UNCHANGED <<pc, n>>
  PROVE  FromHost' = FromHost
<1>1. /\ ~RxFull /\ rx_fifo # <<>>
      /\ rx_buf' = [rx_buf EXCEPT ![rx_in] = Head(rx_fifo)] /\ rx_in' = Wrap(rx_in + 1)
      /\ rx_fifo' = Tail(rx_fifo) /\ rx_out' = rx_out
  BY Zenon DEF IsrReceive
<1>2. /\ rx_in \in Index /\ rx_out \in Index /\ rx_buf \in [Index -> Byte]
      /\ rx_buf' \in [Index -> Byte] /\ rx_fifo \in Seq(Byte) /\ rx_fifo' \in Seq(Byte)
      /\ Wrap(rx_in + 1) \in Index
  BY <1>1 DEF RingTypes
<1> DEFINE old == Ring(rx_buf, rx_in, rx_out)
           mid == Ring(rx_buf', rx_in, rx_out)
           new == Ring(rx_buf', Wrap(rx_in + 1), rx_out)
           len == Span(rx_in, rx_out)
<1>3. mid = old
  <2>1. ASSUME NEW i \in 1 .. len
        PROVE  rx_buf'[Wrap(rx_out + i - 1)] = rx_buf[Wrap(rx_out + i - 1)]
    <3>1. Wrap(rx_out + i - 1) # rx_in /\ Wrap(rx_out + i - 1) \in Index
      BY <1>2, BackIsFree, RingBytes
    <3> QED  BY <1>1, <1>2, <3>1
  <2> QED  BY <1>2, <2>1, RingKept
<1>4. len + 1 < BUF_LEN /\ len \in Nat
  <2>1. len \in 0 .. BUF_LEN - 1
    BY <1>2, RingBytes
  <2> QED  BY <1>1, <1>2, <2>1, HeldGrows, JtagAssumption, SMT DEF RxFull
<1>5. /\ Span(Wrap(rx_in + 1), rx_out) = len + 1
      /\ \A i \in 1 .. len : new[i] = mid[i]
      /\ \A i \in 1 .. 1 : new[len + i] = rx_buf'[Wrap(rx_in + i - 1)]
  BY <1>2, <1>4, RingGrows
<1>6. new[len + 1] = Head(rx_fifo)
  <2>1. 1 \in 1 .. 1 /\ Wrap(rx_in + 1 - 1) = rx_in
    BY <1>2, JtagAssumption, SMT DEF Wrap, Index
  <2>2. new[len + 1] = rx_buf'[Wrap(rx_in + 1 - 1)]
    BY <1>5, <2>1
  <2> HIDE DEF new, len
  <2> QED  BY <1>1, <1>2, <2>1, <2>2
<1>7. /\ Taken' = Taken /\ Taken \in 0 .. len
      /\ Span(rx_in, rx_out)' = len + 1 /\ Ring(rx_buf, rx_in, rx_out)' = new
  <2>1. Taken' = Taken
    BY Zenon DEF Taken
  <2>2. Ring(rx_buf, rx_in, rx_out)' = new
    BY <1>1, SMT DEF Ring
  <2>3. Span(rx_in, rx_out)' = Span(Wrap(rx_in + 1), rx_out)
    BY <1>1, SMT DEF Span
  <2> QED  BY <2>1, <2>2, <2>3, <1>5, TakenHeld
<1>8. /\ Unread' \in Seq(Byte) /\ Len(Unread') = len + 1 - Taken
      /\ \A i \in 1 .. len + 1 - Taken : Unread'[i] = new[i + Taken]
  <2>1. new \in Seq(Byte) /\ Len(new) = len + 1
    BY <1>2, <1>5, RingBytes
  <2>2. Taken \in Nat /\ Taken <= Len(new)
    <3> HIDE DEF new, len
    <3> QED  BY <1>4, <1>7, <2>1, SMT
  <2>3. Unread' = SubSeq(new, Taken + 1, Len(new))
    <3> HIDE DEF new, len
    <3>1. CASE pc = "rpublish"
      <4>1. pc' = "rpublish" /\ n' = n /\ Taken = n
        BY <3>1, Zenon DEF Taken
      <4> QED  BY <1>7, <4>1, Zenon DEF Unread
    <3>2. CASE pc # "rpublish"
      <4>1. Taken + 1 = 1
        BY <3>2 DEF Taken
      <4>2. SubSeq(new, 1, Len(new)) = new
        BY <2>1, SubSeqFull
      <4> QED  BY <1>7, <3>2, <4>1, <4>2, Zenon DEF Unread
    <3> QED  BY <3>1, <3>2
  <2> HIDE DEF new, len
  <2>4. /\ Unread' \in Seq(Byte) /\ Len(Unread') = Len(new) - Taken
        /\ \A i \in 1 .. Len(new) - Taken : Unread'[i] = new[i + Taken]
    BY <2>1, <2>2, <2>3, BackOf
  <2>5. Len(new) - Taken = len + 1 - Taken
    BY <1>4, <1>7, <2>1, SMT
  <2> QED  BY <2>4, <2>5, Zenon
<1>9. /\ Unread \in Seq(Byte) /\ Len(Unread) = len - Taken /\ Len(Unread) \in Nat
      /\ \A i \in 1 .. len - Taken : Unread[i] = old[i + Taken]
  BY UnreadBytes
<1>10. /\ Len(Unread') = Len(Unread) + 1
       /\ \A i \in 1 .. Len(Unread) : Unread'[i] = Unread[i]
       /\ Unread'[Len(Unread) + 1] = Head(rx_fifo)
  <2> HIDE DEF new, mid, old, len
  <2>1. Len(Unread') = Len(Unread) + 1
    BY <1>4, <1>7, <1>8, <1>9, SMT
  <2>2. ASSUME NEW i \in 1 .. Len(Unread)
        PROVE  Unread'[i] = Unread[i]
    <3>1. i \in 1 .. len + 1 - Taken /\ i \in 1 .. len - Taken /\ i + Taken \in 1 .. len
      BY <1>4, <1>7, <1>9, SMT
    <3> QED  BY <1>3, <1>5, <1>8, <1>9, <3>1, Zenon
  <2>3. Unread'[Len(Unread) + 1] = Head(rx_fifo)
    <3>1. Len(Unread) + 1 \in 1 .. len + 1 - Taken /\ Len(Unread) + 1 + Taken = len + 1
      BY <1>4, <1>7, <1>9, SMT
    <3> QED  BY <1>6, <1>8, <3>1, Zenon
  <2> QED  BY <2>1, <2>2, <2>3
<1>11. /\ Len(rx_fifo) = Len(rx_fifo') + 1 /\ Head(rx_fifo) = rx_fifo[1]
       /\ \A i \in 1 .. Len(rx_fifo') : rx_fifo'[i] = rx_fifo[i + 1]
  <2>1. /\ Len(rx_fifo') = Len(rx_fifo) - 1
        /\ \A i \in 1 .. Len(rx_fifo') : rx_fifo'[i] = rx_fifo[i + 1]
    BY <1>1, <1>2, HeadTailProperties
  <2>2. Len(rx_fifo) \in Nat
    BY <1>2, LenProperties
  <2>3. Head(rx_fifo) = rx_fifo[1]
    BY <1>1, <1>2, SMT
  <2>4. Len(rx_fifo) = Len(rx_fifo') + 1
    BY <2>1, <2>2, SMT
  <2> QED  BY <2>1, <2>3, <2>4
<1>12. Unread' \o rx_fifo' = Unread \o rx_fifo
  <2>1. Unread'[Len(Unread) + 1] = rx_fifo[1]
    BY <1>10, <1>11, Zenon
  <2> QED  BY <1>2, <1>8, <1>9, <1>10, <1>11, <2>1, HandedOver, ZenonT(60)
<1> QED  BY <1>12, Zenon DEF FromHost

\* The host sends a byte.
LEMMA HostSends ==
  ASSUME RingTypes, RingTypes', OrderInv, Host
  PROVE  RxQueue!QueueNext \/ UNCHANGED <<FromHost, rx_next>>
<1>1. UNCHANGED <<rx_buf, rx_in, rx_out, pc, n>>
  BY Zenon DEF Host, ringVars, callVars
<1>2. PICK sends \in BOOLEAN : HostPoll(sends)
  BY Zenon DEF Host
<1>3. CASE ~sends
  <2>1. UNCHANGED <<rx_fifo, rx_next>>
    BY <1>2, <1>3, Zenon DEF HostPoll
  <2> QED  BY <1>1, <2>1, FromHostStill
<1>4. CASE sends
  <2>1. /\ Len(rx_fifo) < FifoLen /\ rx_fifo' = Append(rx_fifo, rx_next)
        /\ rx_next' = (rx_next + 1) % Numbers
    BY <1>2, <1>4, Zenon DEF HostPoll
  <2>2. /\ Unread \in Seq(Byte) /\ Len(Unread) \in Nat /\ rx_fifo \in Seq(Byte)
        /\ Len(rx_fifo) \in Nat /\ rx_next \in Byte
    BY UnreadBytes, LenProperties DEF RingTypes
  <2> DEFINE more == [i \in 1 .. 1 |-> (rx_next + i - 1) % Numbers]
  <2>3. more \in Seq(Byte) /\ Len(more) = 1 /\ \A i \in 1 .. 1 : more[i] = rx_next
    <3>1. ASSUME NEW i \in 1 .. 1
          PROVE  (rx_next + i - 1) % Numbers = rx_next
      <4>1. rx_next + i - 1 = rx_next
        BY <2>2, JtagAssumption, SMT DEF Byte
      <4> QED  BY <2>2, <4>1, NumberSame
    <3>2. more \in [1 .. 1 -> Byte]
      BY <2>2, <3>1
    <3>3. \A i \in 1 .. 1 : more[i] = rx_next
      BY <3>1
    <3>4. 1 \in Nat
      OBVIOUS
    <3> HIDE DEF more
    <3> QED  BY <3>2, <3>3, <3>4, FunctionIsSeq
  <2>4. /\ rx_fifo' \in Seq(Byte) /\ Len(rx_fifo') = Len(rx_fifo) + 1
        /\ \A i \in 1 .. Len(rx_fifo) : rx_fifo'[i] = rx_fifo[i]
        /\ rx_fifo'[Len(rx_fifo) + 1] = rx_next
    <3>1. rx_fifo' \in Seq(Byte) /\ Len(rx_fifo') = Len(rx_fifo) + 1
      BY <2>1, <2>2, AppendType
    <3> QED  BY <2>1, <2>2, <3>1, SMT
  <2>5. rx_fifo' = rx_fifo \o more
    <3> HIDE DEF more
    <3>1. \A i \in 1 .. 1 : rx_fifo'[Len(rx_fifo) + i] = more[i]
      <4>1. \A i \in 1 .. 1 : i = 1
        BY SMT
      <4> QED  BY <2>3, <2>4, <4>1, Zenon
    <3>2. /\ rx_fifo \in Seq(Byte) /\ rx_fifo' \in Seq(Byte) /\ more \in Seq(Byte)
          /\ Len(rx_fifo') = Len(rx_fifo) + Len(more)
          /\ \A i \in 1 .. Len(rx_fifo) : rx_fifo'[i] = rx_fifo[i]
          /\ \A i \in 1 .. Len(more) : rx_fifo'[Len(rx_fifo) + i] = more[i]
      BY <2>2, <2>3, <2>4, <3>1, Zenon
    <3> QED  BY <3>2, BackAdded, ZenonT(60)
  <2>6. FromHost' = FromHost \o more
    <3>1. Unread' = Unread
      <4>1. Ring(rx_buf, rx_in, rx_out)' = Ring(rx_buf, rx_in, rx_out)
        BY <1>1, Zenon DEF Ring
      <4> QED  BY <1>1, <4>1, Zenon DEF Unread
    <3>2. (Unread \o rx_fifo) \o more = Unread \o (rx_fifo \o more)
      <4> HIDE DEF more
      <4> QED  BY <2>2, <2>3, ConcatAssociative
    <3> HIDE DEF more
    <3> QED  BY <2>5, <3>1, <3>2, Zenon DEF FromHost
  <2>7. Len(FromHost) + 1 <= BUF_LEN - 1 + FifoLen /\ 1 \in 1 .. BUF_LEN - 1 + FifoLen
    <3>1. /\ Len(FromHost) <= BUF_LEN - 1 + Len(rx_fifo)
          /\ Len(FromHost) \in Nat
      BY FromHostBytes, LenProperties
    <3> QED  BY <2>1, <2>2, <3>1, JtagAssumption, SMT
  <2>8. RxQueue!Accept(1)
    BY <2>1, <2>6, <2>7 DEF RxQueue!Accept, FromHost
  <2> QED  BY <2>7, <2>8 DEF RxQueue!QueueNext
<1> QED  BY <1>3, <1>4

\* From the copy on the caller has the bytes: they are delivered.
LEMMA CopyDelivers ==
  ASSUME RingTypes, OrderInv, ReadCopy, UNCHANGED <<rx_fifo, rx_next>>
  PROVE  RxQueue!QueueNext \/ UNCHANGED <<FromHost, rx_next>>
<1> DEFINE ring == Ring(rx_buf, rx_in, rx_out)
<1>1. pc = "rcopy" /\ pc' = "rpublish" /\ UNCHANGED <<n, rx_buf, rx_in, rx_out>>
  BY Zenon DEF ReadCopy, Go, ringVars
<1>2. /\ ring \in Seq(Byte) /\ Len(ring) = Span(rx_in, rx_out) /\ rx_fifo \in Seq(Byte)
      /\ n \in Nat
  BY RingBytes DEF RingTypes
<1>3. n <= Len(ring) /\ Len(ring) <= BUF_LEN - 1 /\ Len(ring) \in Nat
  <2>1. n <= Held(rx_in, rx_out)
    BY <1>1 DEF OrderInv, ReadFits
  <2>2. Held(rx_in, rx_out) \in 0 .. Span(rx_in, rx_out) /\ Span(rx_in, rx_out) \in 0 .. BUF_LEN - 1
    BY HeldIsThere, RingBytes DEF RingTypes
  <2> HIDE DEF ring
  <2> QED  BY <1>2, <2>1, <2>2, JtagAssumption, SMT
<1>4. Unread = ring /\ Unread' = SubSeq(ring, n + 1, Len(ring))
  <2>1. Ring(rx_buf, rx_in, rx_out)' = ring
    BY <1>1, Zenon DEF Ring
  <2>2. Unread = ring
    BY <1>1, Zenon DEF Unread
  <2>3. pc' = "rpublish" /\ n' = n
    BY <1>1
  <2> QED  BY <2>1, <2>2, <2>3, Zenon DEF Unread
<1>5. CASE n = 0
  <2>1. n + 1 = 1
    BY <1>5
  <2>2. SubSeq(ring, 1, Len(ring)) = ring
    BY <1>2, SubSeqFull
  <2>3. Unread' = Unread
    BY <1>4, <2>1, <2>2, Zenon
  <2> QED  BY <2>3, Zenon DEF FromHost
<1>6. CASE n # 0
  <2>1. Unread' \o rx_fifo = SubSeq(ring \o rx_fifo, n + 1, Len(ring \o rx_fifo))
    <3> DEFINE rest == SubSeq(ring, n + 1, Len(ring))
    <3>1. /\ rest \in Seq(Byte) /\ Len(rest) = Len(ring) - n
          /\ \A i \in 1 .. Len(ring) - n : rest[i] = ring[i + n]
      <4> HIDE DEF ring
      <4> QED  BY <1>2, <1>3, BackOf
    <3> HIDE DEF ring, rest
    <3>2. \A i \in 1 .. Len(rest) : rest[i] = ring[i + n]
      BY <3>1
    <3>3. ring \in Seq(Byte) /\ rest \in Seq(Byte) /\ rx_fifo \in Seq(Byte) /\ n \in Nat /\ n <= Len(ring)
      BY <1>2, <1>3, <3>1
    <3>4. rest \o rx_fifo = SubSeq(ring \o rx_fifo, n + 1, Len(ring \o rx_fifo))
      BY <3>1, <3>2, <3>3, FrontDroppedBefore, ZenonT(60)
    <3> QED  BY <1>4, <3>4 DEF rest
  <2>2. FromHost' = SubSeq(FromHost, n + 1, Len(FromHost))
    <3> HIDE DEF ring
    <3> QED  BY <1>4, <2>1, Zenon DEF FromHost
  <2>3. n \in 1 .. BUF_LEN - 1 + FifoLen
    <3> HIDE DEF ring
    <3> QED  BY <1>2, <1>3, <1>6, JtagAssumption, SMT
  <2>4. n <= Len(FromHost)
    <3>1. Len(FromHost) = Len(ring) + Len(rx_fifo) /\ Len(rx_fifo) \in Nat
      BY <1>2, <1>4, FromHostBytes, LenProperties
    <3> HIDE DEF ring
    <3> QED  BY <1>2, <1>3, <3>1, SMT
  <2>5. RxQueue!Deliver(n)
    BY <2>2, <2>4 DEF RxQueue!Deliver, FromHost
  <2> QED  BY <2>3, <2>5 DEF RxQueue!QueueNext
<1> QED  BY <1>5, <1>6

\* When the index follows, nothing changes any more.
LEMMA ReadPublishIsHidden ==
  ASSUME RingTypes, OrderInv, ReadPublish, UNCHANGED rx_fifo
  PROVE  FromHost' = FromHost
<1> DEFINE ring == Ring(rx_buf, rx_in, rx_out)
           left == Ring(rx_buf, rx_in, Wrap(rx_out + n))
<1>1. /\ pc = "rpublish" /\ pc' # "rpublish" /\ rx_out' = Wrap(rx_out + n)
      /\ UNCHANGED <<rx_in, rx_buf>>
  BY DEF ReadPublish, Go
<1>2. /\ rx_buf \in [Index -> Byte] /\ rx_in \in Index /\ rx_out \in Index
      /\ n \in 0 .. Span(rx_in, rx_out) /\ Taken = n /\ Span(rx_in, rx_out) \in 0 .. BUF_LEN - 1
  BY <1>1, TakenHeld DEF RingTypes, Taken
<1>3. /\ Wrap(rx_out + n) \in Index /\ Span(rx_in, Wrap(rx_out + n)) = Span(rx_in, rx_out) - n
      /\ \A i \in 1 .. Span(rx_in, rx_out) - n : left[i] = ring[i + n]
  BY <1>2, RingDrops
<1>4. left \in Seq(Byte) /\ Len(left) = Span(rx_in, rx_out) - n
  BY <1>2, <1>3, RingBytes
<1>5. /\ Unread \in Seq(Byte) /\ Len(Unread) = Span(rx_in, rx_out) - n
      /\ \A i \in 1 .. Span(rx_in, rx_out) - n : Unread[i] = ring[i + n]
  <2>1. /\ Unread \in Seq(Byte) /\ Len(Unread) = Span(rx_in, rx_out) - Taken
        /\ \A i \in 1 .. Span(rx_in, rx_out) - Taken : Unread[i] = ring[i + Taken]
    BY UnreadBytes
  <2> HIDE DEF ring
  <2> QED  BY <1>2, <2>1, Zenon
<1>6. left = Unread
  <2> HIDE DEF ring, left
  <2> QED  BY <1>3, <1>4, <1>5, SeqEqual
<1>7. Unread' = left
  <2>1. Ring(rx_buf, rx_in, rx_out)' = left
    BY <1>1, SMT DEF Ring
  <2> QED  BY <1>1, <2>1, Zenon DEF Unread
<1> QED  BY <1>6, <1>7, Zenon DEF FromHost

\* Every step is one of the queue from the host, or none.
LEMMA FromHostStep ==
  ASSUME RingTypes, RingTypes', OrderInv, [JtagNext]_jtagVars
  PROVE  RxQueue!QueueNext \/ UNCHANGED <<FromHost, rx_next>>
<1>1. CASE Program
  <2>1. UNCHANGED <<rx_fifo, rx_next>>
    BY <1>1, Zenon DEF Program, chipVars
  <2>2. CASE ReadCopy
    BY <2>1, <2>2, CopyDelivers
  <2>3. CASE ReadPublish
    BY <2>1, <2>3, ReadPublishIsHidden
  <2>4. CASE Calls
    <3>1. UNCHANGED <<rx_buf, rx_in, rx_out>> /\ pc = "idle" /\ pc' \in {"look", "rlook", "drain"}
      BY <2>4, Zenon DEF Calls, Call, ringVars
    <3>2. pc # "rpublish" /\ pc' # "rpublish"
      BY <3>1
    <3> QED  BY <2>1, <3>1, <3>2, FromHostStill
  <2>5. CASE CallStep /\ ~ReadCopy /\ ~ReadPublish
    <3>1. /\ UNCHANGED <<rx_buf, rx_in, rx_out>>
          /\ pc \in {"look", "copy", "publish", "kick", "spin", "drain", "rlook", "rspin", "renable"}
          /\ pc' \in {"look", "copy", "publish", "kick", "spin", "rlook", "rcopy", "renable",
                      "rspin", "idle"}
      BY <2>5, Zenon DEF CallStep, WriteLook, WriteCopy, WritePublish, Kick, WriteSpin, Drain,
                         ReadLook, ReadSpin, ReadEnable, ringVars, Go, Return
    <3>2. pc # "rpublish" /\ pc' # "rpublish"
      BY <3>1
    <3> QED  BY <2>1, <3>1, <3>2, FromHostStill
  <2> QED  BY <1>1, <2>2, <2>3, <2>4, <2>5, Zenon DEF Program
<1>2. CASE Interrupt
  <2>1. UNCHANGED <<rx_next, pc, n>>
    BY <1>2, Zenon DEF Interrupt, callVars
  <2>2. CASE IsrReceive
    BY <2>1, <2>2, ReceiveIsHidden
  <2>3. CASE IsrLoop \/ IsrSend \/ IsrReceived \/ IsrSent
    <3>1. UNCHANGED <<rx_fifo, rx_buf, rx_in, rx_out>>
      BY <2>3, Zenon DEF IsrLoop, IsrSend, IsrReceived, IsrSent, ringVars
    <3> QED  BY <2>1, <3>1, FromHostStill
  <2> QED  BY <1>2, <2>2, <2>3, Zenon DEF Interrupt, Isr
<1>3. CASE Tick \/ UNCHANGED jtagVars
  <2>1. UNCHANGED <<rx_fifo, rx_buf, rx_in, rx_out, rx_next, pc, n>>
    BY <1>3, Zenon DEF Tick, jtagVars, ringVars, chipVars, callVars
  <2> QED  BY <2>1, FromHostStill
<1>4. CASE Host
  BY <1>4, HostSends
<1> QED  BY <1>1, <1>2, <1>3, <1>4, Zenon DEF JtagNext

-----------------------------------------------------------------------------
(* Both directions are queues.                                             *)

LEMMA QueuesStart ==
  ASSUME JtagInit
  PROVE  OrderInv /\ TxQueue!QueueInit /\ RxQueue!QueueInit
<1>1. /\ pc = "idle" /\ tx_in = 0 /\ tx_out = 0 /\ rx_in = 0 /\ rx_out = 0
      /\ tx_fifo = <<>> /\ rx_fifo = <<>> /\ tx_next = 0 /\ rx_next = 0
  BY Zenon DEF JtagInit
<1>2. OrderInv
  BY <1>1, SMT DEF OrderInv, WriteFits, Copied, ReadFits
<1>3. RingTypes
  BY InitInv, RingsTyped
<1>4. Ring(tx_buf, tx_in, tx_out) = <<>> /\ Ring(rx_buf, rx_in, rx_out) = <<>>
  <2>1. Span(0, 0) = 0
    BY SMT DEF Span
  <2>2. /\ Ring(tx_buf, tx_in, tx_out) \in Seq(Byte) /\ Len(Ring(tx_buf, tx_in, tx_out)) = 0
        /\ Ring(rx_buf, rx_in, rx_out) \in Seq(Byte) /\ Len(Ring(rx_buf, rx_in, rx_out)) = 0
    BY <1>1, <1>3, <2>1, RingBytes DEF RingTypes
  <2>3. 0 \notin Nat \ {0}
    OBVIOUS
  <2> QED  BY <2>2, <2>3, EmptySeq
<1>5. <<>> \o <<>> = <<>>
  BY EmptySeq, ConcatEmptySeq
<1>6. Unread = <<>>
  BY <1>1, <1>4 DEF Unread
<1> QED  BY <1>1, <1>2, <1>4, <1>5, <1>6 DEF TxQueue!QueueInit, RxQueue!QueueInit

\* Every byte a write has accepted reaches the host, and every byte of the host a read,
\* once and in order, for rings, fifos and calls of every size: the lock-free driver
\* implements a queue in each direction.
THEOREM BytesAlwaysInOrder == JtagSpec => BytesInOrder
<1>1. JtagInit => OrderInv /\ TxQueue!QueueInit /\ RxQueue!QueueInit
  BY QueuesStart
<1>2. JtagInv /\ JtagInv' /\ OrderInv /\ [JtagNext]_jtagVars => OrderInv'
  BY RingsTyped, StepOrdered
<1>3. JtagInv /\ JtagInv' /\ OrderInv /\ [JtagNext]_jtagVars
        => [TxQueue!QueueNext]_<<tx_fifo \o Ring(tx_buf, tx_in, tx_out), tx_next>>
  BY RingsTyped, PrimedRingsTyped, ToHostStep DEF ToHost
<1>4. JtagInv /\ JtagInv' /\ OrderInv /\ [JtagNext]_jtagVars
        => [RxQueue!QueueNext]_<<Unread \o rx_fifo, rx_next>>
  BY RingsTyped, PrimedRingsTyped, FromHostStep DEF FromHost
<1> QED
  BY <1>1, <1>2, <1>3, <1>4, JtagInvariant, PTL
     DEF JtagSpec, BytesInOrder, TxQueue!QueueSpec, RxQueue!QueueSpec
=============================================================================
