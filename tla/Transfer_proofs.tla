--------------------------- MODULE Transfer_proofs ----------------------------
(***************************************************************************)
(* Proofs about Transfer, for every limit, every number of report numbers  *)
(* and every length of answer: the types, that polling is a pipe of one    *)
(* place, and that a request that returns success has been carried out.    *)
(***************************************************************************)
EXTENDS Transfer, TLAPS, SequenceTheorems

-----------------------------------------------------------------------------
(* Types. *)

LEMMA AfterType ==
  ASSUME NEW r \in 0 .. Reports - 1
  PROVE  After(r) \in 0 .. Reports - 1
BY TransferAssumption, SMT DEF After

LEMMA FailsType ==
  ASSUME TransferTypeOK, NEW r \in Rcodes, Fails(r)
  PROVE  /\ running' \in BOOLEAN
         /\ stage' \in {"idle", "setup", "data", "status"}
         /\ nak_count' \in 0 .. USB_NAK_LIMIT - 1
         /\ retry_count' \in 0 .. USB_RETRY_LIMIT - 1
         /\ deadline' \in Deadlines \cup {"awaited"}
         /\ rcode' \in Rcodes
<1>1. CASE Return(r)
  <2>1. running' \in BOOLEAN
    BY <1>1, Zenon DEF Return
  <2> QED  BY <1>1, <2>1, TransferAssumption, SMT DEF Return, TransferTypeOK, Deadlines
<1>2. CASE ~Return(r)
  <2>1. UNCHANGED <<running, stage, deadline, rcode>>
    BY <1>2, Zenon DEF Fails
  <2>2. /\ nak_count' \in 0 .. USB_NAK_LIMIT - 1
        /\ retry_count' \in 0 .. USB_RETRY_LIMIT - 1
    BY <1>2, TransferAssumption, SMT DEF Fails, TransferTypeOK
  <2> QED  BY <2>1, <2>2, Zenon DEF TransferTypeOK
<1> QED  BY <1>1, <1>2

LEMMA ReturnType ==
  ASSUME TransferTypeOK, NEW r \in Rcodes, Return(r)
  PROVE  /\ running' \in BOOLEAN
         /\ stage' \in {"idle", "setup", "data", "status"}
         /\ nak_count' \in 0 .. USB_NAK_LIMIT - 1
         /\ retry_count' \in 0 .. USB_RETRY_LIMIT - 1
         /\ deadline' \in Deadlines \cup {"awaited"}
         /\ rcode' \in Rcodes
<1>1. running' \in BOOLEAN
  BY Zenon DEF Return
<1> QED  BY <1>1, TransferAssumption, SMT DEF Return, Deadlines

LEMMA NextPacketType ==
  ASSUME TransferTypeOK, NEW s \in {"idle", "setup", "data", "status"}, NextPacket(s)
  PROVE  /\ running' \in BOOLEAN
         /\ stage' \in {"idle", "setup", "data", "status"}
         /\ nak_count' \in 0 .. USB_NAK_LIMIT - 1
         /\ retry_count' \in 0 .. USB_RETRY_LIMIT - 1
         /\ deadline' \in Deadlines \cup {"awaited"}
         /\ rcode' \in Rcodes
<1>1. running' \in BOOLEAN
  BY Zenon DEF NextPacket, TransferTypeOK
<1> QED  BY <1>1, TransferAssumption, SMT DEF NextPacket, TransferTypeOK

LEMMA TakeSetupType ==
  ASSUME TransferTypeOK, TakeSetup
  PROVE  ctl' \in [req : 0 .. 1, pos : 1 .. AskedPkts + 1, len : 0 .. AskedPkts,
                   toggle : 0 .. 1]
BY TransferAssumption, SMT DEF TakeSetup, TransferTypeOK

LEMMA AdvanceType ==
  ASSUME TransferTypeOK, Offers, Advance \/ Keep
  PROVE  /\ ctl' \in [req : 0 .. 1, pos : 1 .. AskedPkts + 1, len : 0 .. AskedPkts,
                      toggle : 0 .. 1]
         /\ report' \in 0 .. Reports - 1 /\ repToggle' \in 0 .. 1
<1>1. CASE Keep
  BY <1>1, SMT DEF Keep, TransferTypeOK
<1>2. CASE Advance /\ kind = "poll"
  BY <1>2, AfterType, SMT DEF Advance, TransferTypeOK, Flip
<1>3. CASE Advance /\ kind # "poll"
  <2>1. ctl.pos <= ctl.len
    BY <1>3, Zenon DEF Offers
  <2>2. /\ ctl' = [ctl EXCEPT !.pos = @ + 1, !.toggle = Flip(@)]
        /\ UNCHANGED <<report, repToggle>>
    BY <1>3, Zenon DEF Advance
  <2>3. ctl \in [req : 0 .. 1, pos : 1 .. AskedPkts + 1, len : 0 .. AskedPkts,
                 toggle : 0 .. 1]
    BY Zenon DEF TransferTypeOK
  <2>4. ctl.pos + 1 \in 1 .. AskedPkts + 1 /\ Flip(ctl.toggle) \in 0 .. 1
    BY <2>1, <2>3, TransferAssumption, SMT DEF Flip
  <2>5. ctl' = [req |-> ctl.req, pos |-> ctl.pos + 1, len |-> ctl.len,
                toggle |-> Flip(ctl.toggle)]
    BY <2>2, <2>3, Zenon
  <2>6. ctl.req \in 0 .. 1 /\ ctl.len \in 0 .. AskedPkts
    BY <2>3, Zenon
  <2>7. ctl' \in [req : 0 .. 1, pos : 1 .. AskedPkts + 1, len : 0 .. AskedPkts,
                  toggle : 0 .. 1]
    BY <2>4, <2>5, <2>6, Zenon
  <2> QED  BY <2>2, <2>7, Zenon DEF TransferTypeOK
<1> QED  BY <1>1, <1>2, <1>3

LEMMA OfferType ==
  ASSUME TransferTypeOK, Offers
  PROVE  /\ [of |-> Offer.of, part |-> Offer.part]
              \in [of : 0 .. Reports - 1, part : 1 .. AskedPkts]
         /\ Offer.toggle \in 0 .. 1
<1>1. CASE kind = "poll"
  BY <1>1, TransferAssumption, SMT DEF Offer, TransferTypeOK
<1>2. CASE kind # "poll"
  BY <1>2, TransferAssumption, SMT DEF Offer, Offers, TransferTypeOK
<1> QED  BY <1>1, <1>2

\* A silent chip: the deadline ends the call, or the program goes on waiting.
LEMMA SilentCases ==
  ASSUME Silent
  PROVE  /\ \/ Return(NoAnswer)
            \/ /\ deadline' = "awaited"
               /\ UNCHANGED <<running, stage, nak_count, retry_count, rcode>>
         /\ stage # "idle"
         /\ UNCHANGED <<kind, buf, rcvToggle, hctl, conf, ctl, report, repToggle,
                        request, got>>
BY Zenon DEF Silent, devVars

\* The types hold in every state: the counters of XferDispatchPkt stay below
\* their limits, and no packet is counted beyond the ones asked for.
THEOREM TransferType == TransferSpec => []TransferTypeOK
<1>1. TransferInit => TransferTypeOK
  <2> SUFFICES ASSUME TransferInit PROVE TransferTypeOK  OBVIOUS
  <2>1. buf \in Seq([of : 0 .. Reports - 1, part : 1 .. AskedPkts])
    BY EmptySeq DEF TransferInit
  <2>2. running \in BOOLEAN /\ conf \in BOOLEAN
    BY DEF TransferInit
  <2>3. /\ kind \in {"get", "set", "poll"} /\ stage \in {"idle", "setup", "data", "status"}
        /\ deadline \in Deadlines \cup {"awaited"} /\ rcode \in Rcodes
    BY Zenon DEF TransferInit, Deadlines, Rcodes
  <2>4. /\ nak_count \in 0 .. USB_NAK_LIMIT - 1
        /\ retry_count \in 0 .. USB_RETRY_LIMIT - 1
        /\ ctl \in [req : 0 .. 1, pos : 1 .. AskedPkts + 1, len : 0 .. AskedPkts, toggle : 0 .. 1]
    BY TransferAssumption, SMT DEF TransferInit
  <2>5. /\ hctl \in 0 .. 1 /\ repToggle \in 0 .. 1 /\ request \in 0 .. 1
        /\ report \in 0 .. Reports - 1 /\ got \in 0 .. Reports - 1
    BY TransferAssumption, SMT DEF TransferInit
  <2>6. rcvToggle \in [0 .. 1 -> 0 .. 1]
    BY Zenon DEF TransferInit
  <2> QED  BY <2>1, <2>2, <2>3, <2>4, <2>5, <2>6, Zenon DEF TransferTypeOK
<1>2. TransferTypeOK /\ [TransferNext]_transferVars => TransferTypeOK'
  <2> SUFFICES ASSUME TransferTypeOK, [TransferNext]_transferVars
               PROVE  TransferTypeOK'
    OBVIOUS
  <2> USE DEF TransferTypeOK
  <2>0. /\ hrSUCCESS \in Rcodes /\ hrNAK \in Rcodes /\ NoAnswer \in Rcodes
        /\ {hrSTALL, hrCRCERR, hrTIMEOUT} \subseteq Rcodes
        /\ {hrTOGERR, NoRcvData} \subseteq Rcodes
    BY Zenon DEF Rcodes
  <2>1. CASE CallGet
    <3>1. buf' \in Seq([of : 0 .. Reports - 1, part : 1 .. AskedPkts])
      BY <2>1, EmptySeq DEF CallGet, Begin
    <3>2. running' \in BOOLEAN /\ conf' \in BOOLEAN
      BY <2>1, Zenon DEF CallGet, Begin, devVars
    <3> QED  BY <2>1, <3>1, <3>2, SMT DEF CallGet, Begin, devVars
  <2>2. CASE CallSet
    <3>1. buf' \in Seq([of : 0 .. Reports - 1, part : 1 .. AskedPkts])
      BY <2>2, EmptySeq DEF CallSet, Begin
    <3>2. running' \in BOOLEAN /\ conf' \in BOOLEAN
      BY <2>2, Zenon DEF CallSet, Begin, devVars
    <3> QED  BY <2>2, <3>1, <3>2, SMT DEF CallSet, Begin, devVars
  <2>3. CASE CallPoll
    <3>1. buf' \in Seq([of : 0 .. Reports - 1, part : 1 .. AskedPkts])
      BY <2>3, EmptySeq DEF CallPoll, Begin
    <3>2. running' \in BOOLEAN /\ conf' \in BOOLEAN
      BY <2>3, Zenon DEF CallPoll, Begin, devVars
    <3> QED  BY <2>3, <3>1, <3>2, SMT DEF CallPoll, Begin, devVars
  <2>4. CASE Nak
    <3>1. Fails(hrNAK) /\ UNCHANGED <<kind, buf, rcvToggle, hctl, devVars, request, got>>
      BY <2>4, Zenon DEF Nak
    <3> QED  BY <3>1, <2>0, FailsType DEF devVars
  <2>5. CASE Garbled
    <3>1. PICK r \in {hrSTALL, hrCRCERR, hrTIMEOUT} : Fails(r)
      BY <2>5, Zenon DEF Garbled
    <3>2. UNCHANGED <<kind, buf, rcvToggle, hctl, request, got, report>>
      BY <2>5, Zenon DEF Garbled
    <3>3. /\ conf' \in BOOLEAN
          /\ repToggle' \in 0 .. 1
          /\ ctl' \in [req : 0 .. 1, pos : 1 .. AskedPkts + 1, len : 0 .. AskedPkts,
                       toggle : 0 .. 1]
      <4>1. CASE UNCHANGED <<conf, ctl, repToggle>>
        BY <4>1, Zenon
      <4>2. CASE TakeSetup /\ UNCHANGED <<conf, repToggle>>
        BY <4>2, TakeSetupType, Zenon
      <4>3. CASE Configure /\ UNCHANGED ctl
        BY <4>3, SMT DEF Configure
      <4> QED  BY <2>5, <4>1, <4>2, <4>3, Zenon DEF Garbled
    <3> QED  BY <3>1, <3>2, <3>3, <2>0, FailsType
  <2>6. CASE Silent
    <3>1. CASE Return(NoAnswer)
      BY <2>6, <3>1, <2>0, SilentCases, ReturnType
    <3>2. CASE /\ deadline' = "awaited"
               /\ UNCHANGED <<running, stage, nak_count, retry_count, rcode>>
      BY <2>6, <3>2, SilentCases, Zenon
    <3> QED  BY <2>6, <3>1, <3>2, SilentCases
  <2>7. CASE Setup
    <3>1. TakeSetup /\ UNCHANGED <<kind, buf, conf, report, repToggle, request, got>>
      BY <2>7, Zenon DEF Setup
    <3>2. /\ NextPacket("data") \/ NextPacket("status")
          /\ rcvToggle' \in [0 .. 1 -> 0 .. 1] /\ hctl' \in 0 .. 1
      <4>1. CASE kind = "get"
        BY <2>7, <4>1, SMT DEF Setup
      <4>2. CASE kind # "get"
        BY <2>7, <4>2, Zenon DEF Setup
      <4> QED  BY <4>1, <4>2
    <3> QED  BY <3>1, <3>2, NextPacketType, TakeSetupType
  <2>8. CASE Status
    <3>1. Return(hrSUCCESS) /\ UNCHANGED <<kind, buf, rcvToggle, hctl, ctl, report, request, got>>
      BY <2>8, Zenon DEF Status
    <3>2. conf' \in BOOLEAN /\ repToggle' \in 0 .. 1
      <4>1. CASE kind = "set"
        BY <2>8, <4>1, SMT DEF Status, Configure
      <4>2. CASE kind # "set"
        BY <2>8, <4>2, Zenon DEF Status
      <4> QED  BY <4>1, <4>2
    <3> QED  BY <3>1, <3>2, <2>0, ReturnType
  <2>9. ASSUME NEW heard \in BOOLEAN, DataIn(heard)  PROVE TransferTypeOK'
    <3>1. /\ Offers /\ (Advance \/ Keep)
          /\ buf' = Append(buf, [of |-> Offer.of, part |-> Offer.part])
          /\ hctl' = Flip(hctl)
          /\ UNCHANGED <<kind, conf, request>>
      BY <2>9, Zenon DEF DataIn
    <3>2. buf' \in Seq([of : 0 .. Reports - 1, part : 1 .. AskedPkts])
      BY <3>1, OfferType, AppendProperties
    <3>3. /\ NextPacket("data") \/ NextPacket("status") \/ Return(hrSUCCESS)
          /\ got' \in 0 .. Reports - 1
      <4>1. got' = got \/ got' = report
        BY <2>9, Zenon DEF DataIn
      <4>2. NextPacket("data") \/ NextPacket("status") \/ Return(hrSUCCESS)
        BY <2>9, Zenon DEF DataIn
      <4> QED  BY <4>1, <4>2
    <3>4. rcvToggle' \in [0 .. 1 -> 0 .. 1] /\ hctl' \in 0 .. 1
      <4>1. hctl' \in 0 .. 1 /\ Flip(hctl) \in 0 .. 1
        BY <3>1, SMT DEF Flip
      <4>2. rcvToggle' = rcvToggle \/ rcvToggle' = [rcvToggle EXCEPT ![Ep] = Flip(hctl)]
        BY <2>9, Zenon DEF DataIn
      <4>3. Ep \in 0 .. 1
        BY SMT DEF Ep
      <4> QED  BY <4>1, <4>2, <4>3, SMT
    <3> QED  BY <3>1, <3>2, <3>3, <3>4, <2>0, NextPacketType, ReturnType, AdvanceType
  <2>10. ASSUME NEW heard \in BOOLEAN, Repeated(heard)  PROVE TransferTypeOK'
    <3>1. PICK r \in {hrTOGERR, NoRcvData} : Fails(r)
      BY <2>10, Zenon DEF Repeated
    <3>2. /\ Offers /\ (Advance \/ Keep)
          /\ UNCHANGED <<kind, buf, rcvToggle, hctl, conf, request, got>>
      BY <2>10, Zenon DEF Repeated
    <3> QED  BY <3>1, <3>2, <2>0, FailsType, AdvanceType
  <2>11. CASE UNCHANGED transferVars
    BY <2>11, Zenon DEF transferVars, hostVars, devVars
  <2>12. CASE WaitOn
    BY <2>11, <2>12, Zenon DEF WaitOn
  <2> QED
    BY <2>1, <2>2, <2>3, <2>4, <2>5, <2>6, <2>7, <2>8, <2>9, <2>10, <2>11, <2>12, Zenon
    DEF TransferNext, Outcome
<1> QED  BY <1>1, <1>2, PTL DEF TransferSpec

-----------------------------------------------------------------------------
(* Polling is a pipe of one place. *)

\* The two toggles agree as long as the report on offer is new to the host, and
\* differ once it has been taken and its acknowledgement was lost.  A poll works
\* on a copy of the saved toggle, and before the first poll both are reset.
PipeInv ==
  /\ running => conf
  /\ running /\ kind # "poll" => stage = "idle"
  /\ kind = "poll" => running
  /\ kind = "set" /\ stage # "idle" => rcvToggle[1] = 0
  /\ ~running => report = After(got)
  /\ running =>
       IF rcvToggle[1] = repToggle THEN report = After(got) ELSE report = got
  /\ kind = "poll" /\ stage # "idle" =>
       stage = "data" /\ hctl = rcvToggle[1] /\ buf = <<>>

PipeIndInv == TransferTypeOK /\ PipeInv

LEMMA AfterNotSame ==
  ASSUME NEW r \in 0 .. Reports - 1
  PROVE  After(r) # r
BY TransferAssumption, SMT DEF After

LEMMA FailsRunning ==
  ASSUME NEW r \in Rcodes, r # hrSUCCESS, running \in BOOLEAN, Fails(r)
  PROVE  /\ running' = running
         /\ stage' = stage \/ stage' = "idle"
BY Zenon DEF Fails, Return

LEMMA PollEnds ==
  ASSUME PipeIndInv, kind = "poll", stage = "data"
  PROVE  Ends(Offer)
<1>1. Len(buf) = 0
  BY EmptySeq DEF PipeIndInv, PipeInv
<1>2. CASE ShortReport
  BY <1>2, Zenon DEF Ends, Offer
<1>3. CASE PollPkts = 1
  <2>1. Asked = 1
    BY <1>3, Zenon DEF Asked
  <2>2. Len(buf) + 1 >= Asked
    BY <1>1, <2>1, SMT
  <2> QED  BY <2>2, Zenon DEF Ends
<1> QED  BY <1>2, <1>3, TransferAssumption

LEMMA PipeStep ==
  ASSUME PipeIndInv, [TransferNext]_transferVars
  PROVE  PipeInv' /\ [Pipe!PipeNext]_<<report, got>>
<1> USE DEF PipeIndInv
<1>0. running \in BOOLEAN /\ conf \in BOOLEAN
  BY Zenon DEF TransferTypeOK
<1>1. CASE CallGet
  BY <1>1, <1>0, Zenon DEF CallGet, Begin, devVars, PipeInv
<1>2. CASE CallSet
  <2>1. rcvToggle'[1] = 0
    BY <1>2, SMT DEF CallSet, TransferTypeOK
  <2> QED  BY <1>2, <1>0, <2>1, Zenon DEF CallSet, Begin, devVars, PipeInv
<1>3. CASE CallPoll
  BY <1>3, <1>0, Zenon DEF CallPoll, Begin, devVars, PipeInv
<1>4. CASE Nak
  <2>1. Fails(hrNAK) /\ UNCHANGED <<kind, buf, rcvToggle, hctl, conf, ctl, report, repToggle, got>>
    BY <1>4, Zenon DEF Nak, devVars
  <2>2. running' = running /\ (stage' = stage \/ stage' = "idle")
    BY <2>1, <1>0, FailsRunning DEF Rcodes, hrNAK, hrSUCCESS
  <2> QED  BY <2>1, <2>2, Zenon DEF PipeInv
<1>5. CASE Garbled
  <2>1. PICK r \in {hrSTALL, hrCRCERR, hrTIMEOUT} : Fails(r)
    BY <1>5, Zenon DEF Garbled
  <2>2. running' = running /\ (stage' = stage \/ stage' = "idle")
    BY <2>1, <1>0, FailsRunning DEF Rcodes, hrSTALL, hrCRCERR, hrTIMEOUT, hrSUCCESS
  <2>3. UNCHANGED <<kind, buf, rcvToggle, hctl, report, got>> /\ stage # "idle"
    BY <1>5, Zenon DEF Garbled
  <2>4. CASE UNCHANGED <<conf, repToggle>>
    BY <2>2, <2>3, <2>4, Zenon DEF PipeInv
  <2>5. CASE kind = "set" /\ Configure
    BY <2>2, <2>3, <2>5, <1>0, Zenon DEF PipeInv, Configure
  <2> QED  BY <1>5, <2>4, <2>5, Zenon DEF Garbled
<1>6. CASE Silent
  <2>1. UNCHANGED <<kind, buf, rcvToggle, hctl, conf, ctl, report, repToggle, got>>
    BY <1>6, SilentCases, Zenon
  <2>2. running' = running /\ (stage' = stage \/ stage' = "idle")
    <3>1. NoAnswer # hrSUCCESS
      BY DEF NoAnswer, hrSUCCESS
    <3> QED  BY <1>6, <3>1, <1>0, SilentCases, Zenon DEF Return
  <2> QED  BY <2>1, <2>2, Zenon DEF PipeInv
<1>7. CASE Setup
  <2>1. /\ stage = "setup"
        /\ UNCHANGED <<kind, buf, conf, report, repToggle, got>>
        /\ running' = running
    BY <1>7, Zenon DEF Setup, NextPacket
  <2>2. rcvToggle'[1] = rcvToggle[1]
    <3>1. CASE kind = "get"
      BY <1>7, <3>1, SMT DEF Setup, TransferTypeOK
    <3>2. CASE kind # "get"
      BY <1>7, <3>2, Zenon DEF Setup
    <3> QED  BY <3>1, <3>2
  <2>3. kind # "poll" /\ ~running
    BY <2>1, <1>0, Zenon DEF PipeInv
  <2> QED  BY <2>1, <2>2, <2>3, <1>0, Zenon DEF PipeInv
<1>8. CASE Status
  <2>1. /\ stage = "status" /\ stage' = "idle"
        /\ UNCHANGED <<kind, buf, rcvToggle, hctl, report, got>>
        /\ running' = (running \/ kind = "set")
    BY <1>8, Zenon DEF Status, Return
  <2>2. kind # "poll" /\ ~running
    BY <2>1, <1>0, Zenon DEF PipeInv
  <2>3. CASE kind = "set"
    <3>1. conf' = TRUE /\ repToggle' = 0
      BY <1>8, <2>3, Zenon DEF Status, Configure
    <3> QED  BY <2>1, <2>2, <2>3, <3>1, <1>0, Zenon DEF PipeInv
  <2>4. CASE kind # "set"
    <3>1. UNCHANGED <<conf, repToggle>>
      BY <1>8, <2>4, Zenon DEF Status
    <3> QED  BY <2>1, <2>2, <2>4, <3>1, <1>0, Zenon DEF PipeInv
  <2> QED  BY <2>3, <2>4
<1>9. ASSUME NEW heard \in BOOLEAN, DataIn(heard)
      PROVE  PipeInv' /\ [Pipe!PipeNext]_<<report, got>>
  <2>1. CASE kind # "poll"
    <3>1. /\ stage = "data" /\ stage' \in {"data", "status"}
          /\ UNCHANGED <<kind, conf, report, repToggle, got, running>>
      BY <1>9, <2>1, Zenon DEF DataIn, Advance, Keep, NextPacket
    <3>2. rcvToggle'[1] = rcvToggle[1]
      <4>1. rcvToggle' = rcvToggle \/ rcvToggle' = [rcvToggle EXCEPT ![0] = Flip(hctl)]
        BY <1>9, <2>1, Zenon DEF DataIn, Ep
      <4> QED  BY <4>1, SMT DEF TransferTypeOK
    <3>3. ~running
      BY <2>1, <3>1, <1>0, Zenon DEF PipeInv
    <3>4. kind = "set" /\ stage' # "idle" => rcvToggle'[1] = 0
      BY <3>1, <3>2, Zenon DEF PipeInv
    <3> QED  BY <2>1, <3>1, <3>2, <3>3, <3>4, <1>0, Zenon DEF PipeInv
  <2>2. CASE kind = "poll"
    <3>1. stage = "data" /\ conf /\ repToggle = hctl
      BY <1>9, <2>2, Zenon DEF DataIn, Offers, Offer
    <3>2. running /\ hctl = rcvToggle[1] /\ report = After(got)
      BY <2>2, <3>1, <1>0, Zenon DEF PipeInv
    <3>3. /\ rcvToggle' = [rcvToggle EXCEPT ![1] = Flip(hctl)]
          /\ Return(hrSUCCESS) /\ got' = report
          /\ UNCHANGED <<kind, conf>>
      BY <1>9, <2>2, <3>1, PollEnds, Zenon DEF DataIn, Ep
    <3>4. running' = TRUE /\ stage' = "idle"
      BY <3>2, <3>3, Zenon DEF Return
    <3>5. rcvToggle'[1] = 1 - repToggle /\ repToggle \in 0 .. 1
      BY <3>1, <3>3, SMT DEF TransferTypeOK, Flip
    <3>6. CASE heard
      <4>1. report' = After(report) /\ repToggle' = 1 - repToggle
        BY <1>9, <2>2, <3>6, Zenon DEF DataIn, Advance, Flip
      <4>2. Pipe!PipeNext
        BY <3>2, <3>3, <4>1, Zenon DEF Pipe!PipeNext, Pipe!TakeAndKnow, Pipe!After, After
      <4>3. rcvToggle'[1] = repToggle'
        BY <3>5, <4>1
      <4> QED  BY <2>2, <3>1, <3>3, <3>4, <4>1, <4>2, <4>3, Zenon DEF PipeInv
    <3>7. CASE ~heard
      <4>1. report' = report /\ repToggle' = repToggle
        BY <1>9, <2>2, <3>7, Zenon DEF DataIn, Keep
      <4>2. Pipe!PipeNext
        BY <3>2, <3>3, <4>1, Zenon DEF Pipe!PipeNext, Pipe!Take, Pipe!After, After
      <4>3. rcvToggle'[1] # repToggle'
        BY <3>5, <4>1, SMT
      <4> QED  BY <2>2, <3>1, <3>3, <3>4, <4>1, <4>2, <4>3, Zenon DEF PipeInv
    <3> QED  BY <3>6, <3>7
  <2> QED  BY <2>1, <2>2
<1>10. ASSUME NEW heard \in BOOLEAN, Repeated(heard)
       PROVE  PipeInv' /\ [Pipe!PipeNext]_<<report, got>>
  <2>1. PICK r \in {hrTOGERR, NoRcvData} : Fails(r)
    BY <1>10, Zenon DEF Repeated
  <2>2. running' = running /\ (stage' = stage \/ stage' = "idle")
    BY <2>1, <1>0, FailsRunning DEF Rcodes, hrTOGERR, NoRcvData, hrSUCCESS
  <2>3. /\ stage = "data"
        /\ UNCHANGED <<kind, buf, rcvToggle, hctl, conf, got>>
    BY <1>10, Zenon DEF Repeated
  <2>4. CASE kind # "poll" \/ ~heard
    <3>1. UNCHANGED <<report, repToggle>>
      BY <1>10, <2>4, Zenon DEF Repeated, Advance, Keep
    <3> QED  BY <2>2, <2>3, <3>1, Zenon DEF PipeInv
  <2>5. CASE kind = "poll" /\ heard
    <3>1. report' = After(report) /\ repToggle' = 1 - repToggle
      BY <1>10, <2>5, Zenon DEF Repeated, Advance, Flip
    <3>2. repToggle # hctl
      BY <1>10, <2>5, Zenon DEF Repeated, Offer
    <3>3. running /\ hctl = rcvToggle[1] /\ report = got
      BY <2>3, <2>5, <3>2, <1>0, Zenon DEF PipeInv
    <3>4. repToggle' = rcvToggle[1]
      <4>1. repToggle \in 0 .. 1 /\ hctl \in 0 .. 1
        BY Zenon DEF TransferTypeOK
      <4> QED  BY <4>1, <3>1, <3>2, <3>3, SMT
    <3>5. Pipe!PipeNext
      BY <2>3, <3>1, <3>3, Zenon DEF Pipe!PipeNext, Pipe!Know, Pipe!After, After
    <3> QED  BY <2>2, <2>3, <2>5, <3>1, <3>3, <3>4, <3>5, <1>0, Zenon DEF PipeInv
  <2> QED  BY <2>4, <2>5
<1>11. CASE UNCHANGED transferVars
  BY <1>11, Zenon DEF transferVars, hostVars, devVars, PipeInv
<1>12. CASE WaitOn
  BY <1>11, <1>12, Zenon DEF WaitOn
<1> QED
  BY <1>1, <1>2, <1>3, <1>4, <1>5, <1>6, <1>7, <1>8, <1>9, <1>10, <1>11, <1>12, Zenon
  DEF TransferNext, Outcome

\* Whatever is lost, polling loses, doubles and reorders no report: the toggles
\* of transfer.c implement the one-place pipe, for all limits and all numbers of
\* reports.
THEOREM PipeImplemented == TransferSpec => OneReportAtATime
<1>1. TransferInit => PipeInv /\ Pipe!PipeInit
  <2> SUFFICES ASSUME TransferInit PROVE PipeInv /\ Pipe!PipeInit  OBVIOUS
  <2>1. report = After(got) /\ report \in 0 .. Reports - 1
    BY TransferAssumption, SMT DEF TransferInit, After
  <2>2. Pipe!PipeInit
    BY <2>1, Zenon DEF Pipe!PipeInit, Pipe!After, After
  <2> QED  BY <2>1, <2>2, Zenon DEF TransferInit, PipeInv
<1>2. TransferTypeOK /\ PipeInv /\ [TransferNext]_transferVars
        => PipeInv' /\ [Pipe!PipeNext]_<<report, got>>
  BY PipeStep DEF PipeIndInv
<1> QED
  BY <1>1, <1>2, TransferType, PTL DEF TransferSpec, OneReportAtATime, Pipe!PipeSpec

-----------------------------------------------------------------------------
(* A request that returns success has been carried out. *)

Whole(n) == [i \in 1 .. n |-> [of |-> request, part |-> i]]

\* While a get is under way, the buffer holds the packets the device has been
\* heard to send, and one more if its acknowledgement was lost; the toggles tell
\* the two cases apart.
GetInv ==
  kind = "get" /\ stage = "data" =>
    /\ ctl.req = request /\ ctl.pos <= ctl.len
    /\ IF hctl = ctl.toggle THEN buf = Whole(ctl.pos - 1) ELSE buf = Whole(ctl.pos)

StatusInv ==
  stage = "status" =>
    /\ kind # "poll" /\ ctl.req = request
    /\ kind = "get" => buf = Whole(ctl.len)

StageInv ==
  /\ kind = "set" => stage # "data"
  /\ kind = "poll" => stage = "idle" \/ stage = "data"
  /\ stage = "setup" => buf = <<>>

AnswerInv == GetInv /\ StatusInv /\ StageInv /\ AnswerWhole

LEMMA WholeGrows ==
  ASSUME NEW n \in Nat \ {0}, request \in 0 .. 1
  PROVE  /\ Append(Whole(n - 1), [of |-> request, part |-> n]) = Whole(n)
         /\ Len(Whole(n - 1)) = n - 1
<1> DEFINE s == Whole(n - 1)
           T == [of : {request}, part : Nat]
<1>1. s \in Seq(T) /\ Len(s) = n - 1 /\ \A i \in 1 .. n - 1 : s[i] = [of |-> request, part |-> i]
  BY SMT DEF Whole
<1>2. [of |-> request, part |-> n] \in T
  BY SMT
<1> HIDE DEF s, T
<1>3. /\ Append(s, [of |-> request, part |-> n]) \in Seq(T)
      /\ Len(Append(s, [of |-> request, part |-> n])) = n
      /\ \A i \in 1 .. n - 1 : Append(s, [of |-> request, part |-> n])[i] = s[i]
      /\ Append(s, [of |-> request, part |-> n])[n] = [of |-> request, part |-> n]
  BY <1>1, <1>2, AppendProperties, SMT
<1> DEFINE a == Append(s, [of |-> request, part |-> n])
<1>4. \A i \in 1 .. n : a[i] = [of |-> request, part |-> i]
  BY <1>1, <1>3, SMT
<1>5. a = [i \in 1 .. n |-> a[i]]
  BY <1>3, LenProperties
<1>6. a = Whole(n)
  <2> HIDE DEF a
  <2> QED  BY <1>4, <1>5, Zenon DEF Whole
<1> QED  BY <1>1, <1>6 DEF s

\* A step that ends the call with an error, or launches the same packet again.
LEMMA FailsOrSame ==
  ASSUME NEW r \in Rcodes, r # hrSUCCESS, Fails(r)
  PROVE  \/ stage' = "idle" /\ rcode' # hrSUCCESS
         \/ stage' = stage /\ rcode' = rcode
BY Zenon DEF Fails, Return

\* A launch that fails and leaves the device's control endpoint, the buffer and
\* the chip's toggle alone.
LEMMA AnswerKept ==
  ASSUME AnswerInv, NEW r \in Rcodes, r # hrSUCCESS, Fails(r) \/ Return(r),
         stage # "idle",
         UNCHANGED <<kind, buf, hctl, request, ctl>>
  PROVE  AnswerInv'
<1>1. CASE stage' = "idle" /\ rcode' # hrSUCCESS
  BY <1>1, Zenon DEF AnswerInv, GetInv, StatusInv, StageInv, AnswerWhole
<1>2. CASE stage' = stage /\ rcode' = rcode
  <2>1. UNCHANGED Whole(ctl.pos) /\ UNCHANGED Whole(ctl.pos - 1) /\ UNCHANGED Whole(ctl.len)
    BY Zenon DEF Whole
  <2> QED  BY <1>2, <2>1, Zenon DEF AnswerInv, GetInv, StatusInv, StageInv, AnswerWhole
<1>3. CASE Return(r)
  BY <1>1, <1>3, Zenon DEF Return
<1> QED  BY <1>1, <1>2, <1>3, FailsOrSame

LEMMA AnswerStep ==
  ASSUME TransferTypeOK, PipeInv, AnswerInv, [TransferNext]_transferVars
  PROVE  AnswerInv'
<1>0. /\ hrNAK \in Rcodes /\ NoAnswer \in Rcodes /\ hrNAK # hrSUCCESS /\ NoAnswer # hrSUCCESS
      /\ \A r \in {hrSTALL, hrCRCERR, hrTIMEOUT, hrTOGERR, NoRcvData} :
           r \in Rcodes /\ r # hrSUCCESS
  BY DEF Rcodes, hrSUCCESS, hrNAK, NoAnswer, hrSTALL, hrCRCERR, hrTIMEOUT, hrTOGERR, NoRcvData
<1>1. CASE CallGet \/ CallSet \/ CallPoll
  <2>1. /\ kind' = "poll" => stage' = "data"
        /\ kind' # "poll" => stage' = "setup"
        /\ kind' \in {"get", "set", "poll"} /\ buf' = <<>>
    BY <1>1, Zenon DEF CallGet, CallSet, CallPoll, Begin
  <2> QED  BY <2>1, Zenon DEF AnswerInv, GetInv, StatusInv, StageInv, AnswerWhole
<1>4. CASE Nak
  <2>1. Fails(hrNAK) /\ stage # "idle" /\ UNCHANGED <<kind, buf, hctl, request, ctl>>
    BY <1>4, Zenon DEF Nak, devVars
  <2> QED  BY <2>1, <1>0, AnswerKept
<1>5. CASE Garbled
  <2>1. PICK r \in {hrSTALL, hrCRCERR, hrTIMEOUT} : Fails(r)
    BY <1>5, Zenon DEF Garbled
  <2>2. UNCHANGED <<kind, buf, hctl, request>> /\ stage # "idle"
    BY <1>5, Zenon DEF Garbled
  <2>3. CASE UNCHANGED ctl
    BY <2>1, <2>2, <2>3, <1>0, AnswerKept
  <2>4. CASE stage = "setup"
    <3>1. stage' = "setup" \/ (stage' = "idle" /\ rcode' # hrSUCCESS)
      BY <2>1, <2>4, <1>0, FailsOrSame
    <3>2. buf' = <<>> /\ kind' # "poll"
      BY <2>2, <2>4, Zenon DEF AnswerInv, StageInv
    <3>3. CASE stage' = "setup"
      BY <3>2, <3>3, Zenon DEF AnswerInv, GetInv, StatusInv, StageInv, AnswerWhole
    <3>4. CASE stage' = "idle" /\ rcode' # hrSUCCESS
      BY <3>2, <3>4, Zenon DEF AnswerInv, GetInv, StatusInv, StageInv, AnswerWhole
    <3> QED  BY <3>1, <3>3, <3>4
  <2> QED  BY <1>5, <2>3, <2>4, Zenon DEF Garbled
<1>6. CASE Silent
  <2>1. CASE Return(NoAnswer)
    BY <1>6, <2>1, <1>0, SilentCases, AnswerKept
  <2>2. CASE UNCHANGED <<stage, rcode>>
    <3>1. UNCHANGED <<kind, buf, hctl, request, ctl>> /\ stage # "idle"
      BY <1>6, SilentCases, Zenon
    <3> QED
      BY <2>2, <3>1, Zenon DEF AnswerInv, GetInv, StatusInv, StageInv, AnswerWhole, Whole
  <2> QED  BY <1>6, <2>1, <2>2, SilentCases
<1>7. CASE Setup
  <2>1. PICK n \in 1 .. AskedPkts :
          ctl' = [req |-> request, pos |-> 1, toggle |-> 1,
                  len |-> IF kind = "get" THEN n ELSE 0]
    BY <1>7, Zenon DEF Setup, TakeSetup
  <2>2. stage = "setup" /\ UNCHANGED <<kind, buf, request>>
    BY <1>7, Zenon DEF Setup
  <2>3. buf = <<>> /\ kind # "poll"
    BY <2>2, Zenon DEF AnswerInv, StageInv
  <2>4. ctl'.req = request' /\ ctl'.pos = 1 /\ ctl'.toggle = 1
    BY <2>1, <2>2, SMT
  <2>5. buf' = Whole(0)'
    BY <2>2, <2>3, SMT DEF Whole
  <2>6. CASE kind = "get"
    <3>1. ctl'.len = n
      BY <2>1, <2>6, SMT
    <3>2. stage' = "data" /\ hctl' = 1
      BY <1>7, <2>6, Zenon DEF Setup, NextPacket
    <3>3. ctl'.pos <= ctl'.len /\ ctl'.pos - 1 = 0
      BY <2>4, <3>1, SMT
    <3>4. GetInv'
      BY <2>4, <2>5, <3>2, <3>3, Zenon DEF GetInv
    <3> QED  BY <2>2, <2>6, <3>2, <3>4, Zenon DEF AnswerInv, StatusInv, StageInv, AnswerWhole
  <2>7. CASE kind = "set"
    <3>1. stage' = "status"
      BY <1>7, <2>7, Zenon DEF Setup, NextPacket
    <3> QED  BY <2>2, <2>4, <2>7, <3>1, Zenon DEF AnswerInv, GetInv, StatusInv, StageInv, AnswerWhole
  <2> QED  BY <2>3, <2>6, <2>7, Zenon DEF TransferTypeOK
<1>8. CASE Status
  <2>1. /\ stage = "status" /\ stage' = "idle"
        /\ UNCHANGED <<kind, buf, ctl, request>>
        /\ kind = "set" => conf'
    BY <1>8, Zenon DEF Status, Return, Configure
  <2>2. UNCHANGED Whole(ctl.len)
    BY <2>1, Zenon DEF Whole
  <2> QED  BY <2>1, <2>2, Zenon DEF AnswerInv, GetInv, StatusInv, StageInv, AnswerWhole, Whole
<1>9. ASSUME NEW heard \in BOOLEAN, DataIn(heard)  PROVE AnswerInv'
  <2>1. CASE kind = "poll"
    <3>1. kind' = "poll" /\ stage = "data"
      BY <1>9, <2>1, Zenon DEF DataIn
    <3>2. stage' = "idle"
      BY <1>9, <2>1, <3>1, PollEnds, Zenon DEF DataIn, Return, PipeIndInv
    <3> QED  BY <3>1, <3>2, Zenon DEF AnswerInv, GetInv, StatusInv, StageInv, AnswerWhole
  <2>2. CASE kind = "get"
    <3>1. /\ stage = "data" /\ ctl.pos <= ctl.len /\ ctl.toggle = hctl
          /\ Offer = [of |-> ctl.req, part |-> ctl.pos, toggle |-> ctl.toggle,
                      short |-> ctl.pos = ctl.len /\ ctl.len < AskedPkts]
      BY <1>9, <2>2, Zenon DEF DataIn, Offers, Offer
    <3>2. ctl.req = request /\ buf = Whole(ctl.pos - 1)
      BY <2>2, <3>1, Zenon DEF AnswerInv, GetInv
    <3>3. /\ ctl.pos \in Nat \ {0} /\ ctl.len \in 0 .. AskedPkts /\ request \in 0 .. 1
          /\ hctl \in 0 .. 1 /\ ctl.toggle \in 0 .. 1
      BY TransferAssumption, SMT DEF TransferTypeOK
    <3>4. Append(buf, [of |-> request, part |-> ctl.pos]) = Whole(ctl.pos) /\ Len(buf) + 1 = ctl.pos
      <4>1. Len(Whole(ctl.pos - 1)) = ctl.pos - 1
        BY <3>3, WholeGrows
      <4>2. Append(Whole(ctl.pos - 1), [of |-> request, part |-> ctl.pos]) = Whole(ctl.pos)
        BY <3>3, WholeGrows
      <4> HIDE DEF Whole
      <4> QED  BY <3>2, <3>3, <4>1, <4>2, SMT
    <3>5. buf' = Whole(ctl.pos) /\ UNCHANGED <<kind, request>> /\ hctl' = 1 - hctl
      <4>1. /\ buf' = Append(buf, [of |-> Offer.of, part |-> Offer.part])
            /\ UNCHANGED <<kind, request>> /\ hctl' = 1 - hctl
        BY <1>9, Zenon DEF DataIn, Flip
      <4>2. Offer.of = request /\ Offer.part = ctl.pos
        BY <3>1, <3>2, Zenon
      <4> QED  BY <3>4, <4>1, <4>2, Zenon
    <3>6. /\ ctl'.req = request /\ ctl'.len = ctl.len
          /\ IF heard THEN /\ ctl'.pos = ctl.pos + 1 /\ ctl'.pos - 1 = ctl.pos
                             /\ ctl'.toggle = hctl'
                      ELSE ctl'.pos = ctl.pos /\ ctl'.toggle # hctl'
      <4>1. CASE heard
        <5>1. ctl' = [ctl EXCEPT !.pos = @ + 1, !.toggle = 1 - @]
          BY <1>9, <2>2, <4>1, Zenon DEF DataIn, Advance, Flip
        <5>2. /\ ctl'.req = ctl.req /\ ctl'.len = ctl.len
              /\ ctl'.pos = ctl.pos + 1 /\ ctl'.toggle = 1 - ctl.toggle
          BY <5>1, SMT DEF TransferTypeOK
        <5> QED  BY <3>1, <3>2, <3>3, <3>5, <4>1, <5>2, SMT
      <4>2. CASE ~heard
        <5>1. ctl' = ctl
          BY <1>9, <4>2, Zenon DEF DataIn, Keep
        <5>2. hctl # 1 - hctl
          BY <3>3, SMT
        <5> QED  BY <3>1, <3>2, <3>5, <4>2, <5>1, <5>2, Zenon
      <4> QED  BY <4>1, <4>2
    <3>7. CASE ~Ends(Offer)
      <4>1. ctl.pos < ctl.len
        <5>1. ~(ctl.pos = ctl.len /\ ctl.len < AskedPkts) /\ ~(ctl.pos >= AskedPkts)
          BY <2>2, <3>1, <3>4, <3>7, Zenon DEF Ends, Asked
        <5> QED  BY <3>1, <3>3, <5>1, TransferAssumption, SMT
      <4>2. ctl'.pos <= ctl'.len
        BY <3>3, <3>6, <4>1, SMT
      <4>3. stage' = "data"
        BY <1>9, <3>7, Zenon DEF DataIn, NextPacket
      <4>4. GetInv'
        <5>1. CASE heard
          BY <3>5, <3>6, <4>2, <5>1, Zenon DEF GetInv, Whole
        <5>2. CASE ~heard
          BY <3>5, <3>6, <4>2, <5>2, Zenon DEF GetInv, Whole
        <5> QED  BY <5>1, <5>2
      <4> QED  BY <2>2, <3>5, <4>3, <4>4, Zenon DEF AnswerInv, StatusInv, StageInv, AnswerWhole
    <3>8. CASE Ends(Offer)
      <4>1. ctl.pos = ctl.len
        <5>1. (ctl.pos = ctl.len /\ ctl.len < AskedPkts) \/ ctl.pos >= AskedPkts
          BY <2>2, <3>1, <3>4, <3>8, Zenon DEF Ends, Asked
        <5> QED  BY <3>1, <3>3, <5>1, TransferAssumption, SMT
      <4>2. stage' = "status"
        BY <1>9, <2>2, <3>8, Zenon DEF DataIn, NextPacket
      <4>3. StatusInv'
        BY <2>2, <3>5, <3>6, <4>1, <4>2, Zenon DEF StatusInv, Whole
      <4> QED  BY <2>2, <3>5, <4>2, <4>3, Zenon DEF AnswerInv, GetInv, StageInv, AnswerWhole
    <3> QED  BY <3>7, <3>8
  <2>3. CASE kind = "set"
    BY <1>9, <2>3, Zenon DEF DataIn, AnswerInv, StageInv
  <2> QED  BY <2>1, <2>2, <2>3, Zenon DEF TransferTypeOK
<1>10. ASSUME NEW heard \in BOOLEAN, Repeated(heard)  PROVE AnswerInv'
  <2>1. PICK r \in {hrTOGERR, NoRcvData} : Fails(r)
    BY <1>10, Zenon DEF Repeated
  <2>2. r # hrNAK /\ r # hrTIMEOUT /\ r # hrSUCCESS
    BY DEF hrTOGERR, NoRcvData, hrNAK, hrTIMEOUT, hrSUCCESS
  <2>3. stage' = "idle" /\ rcode' # hrSUCCESS
    BY <2>1, <2>2, Zenon DEF Fails, Return
  <2> QED  BY <2>3, Zenon DEF AnswerInv, GetInv, StatusInv, StageInv, AnswerWhole
<1>11. CASE UNCHANGED transferVars
  <2>1. UNCHANGED <<kind, stage, buf, rcode, hctl, conf, ctl, request>>
    BY <1>11, Zenon DEF transferVars, hostVars, devVars
  <2> QED  BY <2>1, Zenon DEF AnswerInv, GetInv, StatusInv, StageInv, AnswerWhole, Whole
<1>12. CASE WaitOn
  BY <1>11, <1>12, Zenon DEF WaitOn
<1> QED
  BY <1>1, <1>4, <1>5, <1>6, <1>7, <1>8, <1>9, <1>10, <1>11, <1>12, Zenon
  DEF TransferNext, Outcome

\* A get that returns success holds the whole answer to its own request, and a
\* set that returns success was carried out, for every length of answer.
THEOREM AnswersWhole == TransferSpec => []AnswerWhole
<1>1. TransferInit => PipeInv /\ AnswerInv
  <2> SUFFICES ASSUME TransferInit PROVE PipeInv /\ AnswerInv  OBVIOUS
  <2>1. report = After(got)
    BY TransferAssumption, SMT DEF TransferInit, After
  <2>2. NoAnswer # hrSUCCESS
    BY DEF NoAnswer, hrSUCCESS
  <2>3. stage = "idle" /\ kind = "get" /\ running = FALSE /\ rcode = NoAnswer
    BY DEF TransferInit
  <2>4. PipeInv
    BY <2>1, <2>3, Zenon DEF PipeInv
  <2>5. AnswerInv
    BY <2>2, <2>3, Zenon DEF AnswerInv, GetInv, StatusInv, StageInv, AnswerWhole
  <2> QED  BY <2>4, <2>5
<1>2. TransferTypeOK /\ PipeInv /\ AnswerInv /\ [TransferNext]_transferVars
        => PipeInv' /\ AnswerInv'
  BY PipeStep, AnswerStep DEF PipeIndInv
<1>3. AnswerInv => AnswerWhole
  BY DEF AnswerInv
<1> QED  BY <1>1, <1>2, <1>3, TransferType, PTL DEF TransferSpec
=============================================================================
