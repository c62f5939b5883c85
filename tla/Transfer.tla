------------------------------ MODULE Transfer -------------------------------
(***************************************************************************)
(* The packets of the USB host program (transfer.c, and the polls and the  *)
(* toggle reset of HID.c).  A call is a control request with an answer     *)
(* (get), a control request without one (set: the configuration, after     *)
(* HID_init) or a poll of the interrupt endpoint.  It is a sequence of     *)
(* packets; each is launched by writing rHXFR, and one step is the outcome *)
(* of one launch, with what XferDispatchPkt and its callers make of it.    *)
(*                                                                         *)
(* The controller chip and the device are modelled from what the program   *)
(* relies on: the chip acknowledges a data packet with the toggle it       *)
(* expects, flips the toggle, and hands the packet over; it acknowledges   *)
(* and drops a packet with the other toggle; a device that hears no        *)
(* acknowledgement repeats its packet.  Any packet and any acknowledgement *)
(* may be lost.  The chip answers a launch, and all the launches of a      *)
(* packet, well before USB_XFER_TIMEOUT, or never.                         *)
(*                                                                         *)
(* The deadline of a packet is taken once, from the millisecond clock,     *)
(* whose last value is 4294967 (32 bits of microseconds over 1000).  The   *)
(* clock itself is not kept, only whether it ever reaches the deadline: it *)
(* does not when the packet is begun in the last USB_XFER_TIMEOUT of its   *)
(* round, which may be any packet.                                         *)
(***************************************************************************)
EXTENDS Integers, Sequences

CONSTANTS
  USB_NAK_LIMIT, USB_RETRY_LIMIT,  \* launches of one packet, at the most (200 and 3)
  AskedPkts,    \* packets a get asks for; the device may answer with fewer
  PollPkts,     \* packets a poll asks for: eight bytes, one packet for a keyboard
  ShortReport,  \* a report is shorter than the endpoint's largest packet
  Reports       \* report numbers, counted round

\* Eight bytes asked of an endpoint whose packets hold eight, or a short packet:
\* either way one report ends the poll.
ASSUME TransferAssumption ==
  /\ USB_NAK_LIMIT \in Nat \ {0} /\ USB_RETRY_LIMIT \in Nat \ {0}
  /\ AskedPkts \in Nat \ {0}
  /\ PollPkts \in Nat \ {0} /\ ShortReport \in BOOLEAN
  /\ PollPkts = 1 \/ ShortReport
  /\ Reports \in Nat /\ Reports >= 3

hrSUCCESS == 0
hrNAK     == 4
hrSTALL   == 5
hrTOGERR  == 6
hrCRCERR  == 11      \* stands for every error that is returned at once
hrTIMEOUT == 14
NoRcvData == 240     \* 0xf0: success without RCVDAVIRQ
NoAnswer  == 255     \* 0xff: the deadline has passed
Rcodes == {hrSUCCESS, hrNAK, hrSTALL, hrTOGERR, hrCRCERR, hrTIMEOUT, NoRcvData, NoAnswer}

VARIABLES
  running,           \* the enumeration is over: USB_STATE_RUNNING
  kind, stage,       \* the call, and the packet it is at
  nak_count, retry_count,
  deadline,          \* of the packet: timeout, and whether it is being waited for
  buf,               \* the packets received by this call
  rcode,             \* what the last call returned
  rcvToggle,         \* epinfo[ep].rcvToggle, ep = 0, 1
  hctl,              \* the chip: the receive toggle
  conf, ctl,         \* the device: is it configured; its control endpoint
  report, repToggle, \* the device: the report on offer and its toggle
  request,           \* history: which of two requests this is, alternating
  got                \* history: the last report a poll returned

hostVars == <<running, kind, stage, nak_count, retry_count, deadline, buf, rcode,
              rcvToggle, hctl>>
devVars  == <<conf, ctl, report, repToggle>>
transferVars == <<hostVars, devVars, request, got>>

\* A deadline is ahead of the clock or beyond its last value; "awaited" is one
\* beyond it on a chip that stays silent.
Deadlines == {"ahead", "beyond"}

After(r) == IF r = Reports - 1 THEN 0 ELSE r + 1
Flip(t)  == 1 - t

\* The endpoint structure is static: its toggle may be left from another device.
TransferInit ==
  /\ running = FALSE
  /\ kind = "get" /\ stage = "idle"
  /\ nak_count = 0 /\ retry_count = 0 /\ deadline = "ahead"
  /\ buf = <<>> /\ rcode = NoAnswer
  /\ rcvToggle \in [0 .. 1 -> 0 .. 1] /\ hctl = 0
  /\ conf = FALSE
  /\ ctl = [req |-> 1, pos |-> 1, len |-> 1, toggle |-> 1]
  /\ report = 1 /\ repToggle \in 0 .. 1
  /\ request = 0 /\ got = 0

-----------------------------------------------------------------------------
(* Calls. *)

Begin(k, s) ==
  /\ stage = "idle"
  /\ kind' = k /\ stage' = s
  /\ deadline' \in Deadlines
  /\ buf' = <<>>
  /\ UNCHANGED <<running, nak_count, retry_count, rcode, devVars, got>>

CallGet ==
  /\ ~running
  /\ Begin("get", "setup")
  /\ request' = 1 - request
  /\ UNCHANGED <<rcvToggle, hctl>>

CallSet_NoHidInit ==
  /\ ~running
  /\ Begin("set", "setup")
  /\ request' = 1 - request
  /\ UNCHANGED <<rcvToggle, hctl>>

\* HIDKProbe: HID_init, and then SET_CONFIGURATION.
CallSet ==
  /\ ~running
  /\ Begin("set", "setup")
  /\ request' = 1 - request
  /\ rcvToggle' = [rcvToggle EXCEPT ![1] = 0]
  /\ UNCHANGED hctl

CallPoll_KeepsToggle ==
  /\ running
  /\ Begin("poll", "data")
  /\ hctl' = 0
  /\ UNCHANGED <<rcvToggle, request>>

CallPoll ==
  /\ running
  /\ Begin("poll", "data")
  /\ hctl' = rcvToggle[1]
  /\ UNCHANGED <<rcvToggle, request>>

-----------------------------------------------------------------------------
(* Outcomes of one launch. *)

NextPacket(s) ==
  /\ stage' = s
  /\ nak_count' = 0 /\ retry_count' = 0
  /\ deadline' \in Deadlines
  /\ UNCHANGED <<running, rcode>>

Return_SetupIgnored(r) ==
  IF stage = "setup"
    THEN NextPacket(IF kind = "get" THEN "data" ELSE "status")
    ELSE /\ stage' = "idle" /\ rcode' = r
         /\ running' = (running \/ (kind = "set" /\ r = hrSUCCESS))
         /\ nak_count' = 0 /\ retry_count' = 0 /\ deadline' = "ahead"

Return(r) ==
  /\ stage' = "idle" /\ rcode' = r
  /\ running' = (running \/ (kind = "set" /\ r = hrSUCCESS))
  /\ nak_count' = 0 /\ retry_count' = 0 /\ deadline' = "ahead"

\* XferDispatchPkt: a NAK and a bus timeout are tried again, each up to its own
\* limit; anything else ends the packet.
Fails_CountWraps(r) ==
  IF r = hrNAK
    THEN /\ nak_count' = (nak_count + 1) % USB_NAK_LIMIT
         /\ UNCHANGED <<running, stage, deadline, rcode, retry_count>>
    ELSE Return(r)

Fails_OneMore(r) ==
  IF r = hrNAK /\ nak_count # USB_NAK_LIMIT
    THEN /\ nak_count' = nak_count + 1
         /\ UNCHANGED <<running, stage, deadline, rcode, retry_count>>
    ELSE Return(r)

Fails(r) ==
  IF r = hrNAK /\ nak_count + 1 # USB_NAK_LIMIT
    THEN /\ nak_count' = nak_count + 1
         /\ UNCHANGED <<running, stage, deadline, rcode, retry_count>>
  ELSE IF r = hrTIMEOUT /\ retry_count + 1 # USB_RETRY_LIMIT
    THEN /\ retry_count' = retry_count + 1
         /\ UNCHANGED <<running, stage, deadline, rcode, nak_count>>
  ELSE Return(r)

\* The device takes a SETUP packet whatever it was doing.
TakeSetup ==
  \E n \in 1 .. AskedPkts :
    ctl' = [req |-> request, pos |-> 1, toggle |-> 1,
            len |-> IF kind = "get" THEN n ELSE 0]

\* What the device does at the status stage of a SET_CONFIGURATION.
Configure == conf' = TRUE /\ repToggle' = 0

Nak ==
  /\ stage \in {"data", "status"}
  /\ Fails(hrNAK)
  /\ UNCHANGED <<kind, buf, rcvToggle, hctl, devVars, request, got>>

\* The device did not get the packet, or the host did not get the answer.
Garbled ==
  /\ stage # "idle"
  /\ \E r \in {hrSTALL, hrCRCERR, hrTIMEOUT} : Fails(r)
  /\ UNCHANGED <<kind, buf, rcvToggle, hctl, request, got, report>>
  /\ \/ UNCHANGED <<conf, ctl, repToggle>>
     \/ stage = "setup" /\ TakeSetup /\ UNCHANGED <<conf, repToggle>>
     \/ stage = "status" /\ kind = "set" /\ Configure /\ UNCHANGED ctl

\* The inner loop looks for an answer while the clock is before the deadline.
Silent ==
  /\ stage # "idle"
  /\ \/ deadline = "ahead" /\ Return(NoAnswer)
     \/ /\ deadline = "beyond" /\ deadline' = "awaited"
        /\ UNCHANGED <<running, stage, nak_count, retry_count, rcode>>
  /\ UNCHANGED <<kind, buf, rcvToggle, hctl, devVars, request, got>>

\* XferCtrlReq goes on to XferCtrlData, which forces DATA1, or to XferCtrlND.
Setup ==
  /\ stage = "setup"
  /\ TakeSetup
  /\ IF kind = "get"
       THEN /\ NextPacket("data")
            /\ rcvToggle' = [rcvToggle EXCEPT ![0] = 1] /\ hctl' = 1
       ELSE NextPacket("status") /\ UNCHANGED <<rcvToggle, hctl>>
  /\ UNCHANGED <<kind, buf, conf, report, repToggle, request, got>>

Ep == IF kind = "poll" THEN 1 ELSE 0

\* The data packet the device answers with, and what it does when it hears that
\* the packet has arrived.
Offers == IF kind = "poll" THEN conf ELSE ctl.pos <= ctl.len
Offer  == IF kind = "poll"
            THEN [of |-> report, part |-> 1, toggle |-> repToggle,
                  short |-> ShortReport]
            ELSE [of |-> ctl.req, part |-> ctl.pos, toggle |-> ctl.toggle,
                  short |-> ctl.pos = ctl.len /\ ctl.len < AskedPkts]

Advance ==
  IF kind = "poll"
    THEN /\ report' = After(report) /\ repToggle' = Flip(repToggle)
         /\ UNCHANGED ctl
    ELSE /\ ctl' = [ctl EXCEPT !.pos = @ + 1, !.toggle = Flip(@)]
         /\ UNCHANGED <<report, repToggle>>

Keep == UNCHANGED <<ctl, report, repToggle>>

Asked == IF kind = "poll" THEN PollPkts ELSE AskedPkts

\* XferInTransfer ends with a short packet or with the bytes asked for.
Ends(p) == p.short \/ Len(buf) + 1 >= Asked

\* A packet with the toggle the chip expects.  The toggle that is saved is the
\* flipped one, and only when the transfer is complete.
DataIn(heard) ==
  /\ stage = "data" /\ Offers
  /\ Offer.toggle = hctl
  /\ buf' = Append(buf, [of |-> Offer.of, part |-> Offer.part])
  /\ hctl' = Flip(hctl)
  /\ IF heard THEN Advance ELSE Keep
  /\ IF ~Ends(Offer)
       THEN NextPacket("data") /\ UNCHANGED <<rcvToggle, got>>
       ELSE /\ rcvToggle' = [rcvToggle EXCEPT ![Ep] = Flip(hctl)]
            /\ IF kind = "poll" THEN Return(hrSUCCESS) /\ got' = report
                                ELSE NextPacket("status") /\ UNCHANGED got
  /\ UNCHANGED <<kind, conf, request>>

\* A packet with the other toggle: the chip takes it for a repetition.  It is
\* reported as an error, or as a success with nothing received.
Repeated(heard) ==
  /\ stage = "data" /\ Offers
  /\ Offer.toggle # hctl
  /\ IF heard THEN Advance ELSE Keep
  /\ \E r \in {hrTOGERR, NoRcvData} : Fails(r)
  /\ UNCHANGED <<kind, buf, rcvToggle, hctl, conf, request, got>>

Status ==
  /\ stage = "status"
  /\ Return(hrSUCCESS)
  /\ IF kind = "set" THEN Configure ELSE UNCHANGED <<conf, repToggle>>
  /\ UNCHANGED <<kind, buf, rcvToggle, hctl, ctl, report, request, got>>

NeverTimesOut == deadline = "awaited"

Outcome ==
  /\ ~NeverTimesOut
  /\ \/ Nak \/ Garbled \/ Silent \/ Setup \/ Status
     \/ \E heard \in BOOLEAN : DataIn(heard) \/ Repeated(heard)

\* Round and round the inner loop.
WaitOn == NeverTimesOut /\ UNCHANGED transferVars

TransferNext == CallGet \/ CallSet \/ CallPoll \/ Outcome \/ WaitOn

TransferSpec == TransferInit /\ [][TransferNext]_transferVars

\* The program polls for ever (main), and a launch has an outcome: an answer, the
\* deadline, or a wait for a deadline that the clock never reaches.
FairTransfer ==
  TransferSpec /\ WF_transferVars(CallPoll) /\ WF_transferVars(Outcome)

\* Not a fairness of the code: a line on which packets keep being sent lets one
\* and its acknowledgement through now and then.
LineClears == SF_transferVars(~NeverTimesOut /\ (DataIn(TRUE) \/ Repeated(TRUE)))

-----------------------------------------------------------------------------
(* Properties. *)

\* The types of the variables; the counters stay below their limits.
TransferTypeOK ==
  /\ running \in BOOLEAN
  /\ kind \in {"get", "set", "poll"}
  /\ stage \in {"idle", "setup", "data", "status"}
  /\ nak_count \in 0 .. USB_NAK_LIMIT - 1
  /\ retry_count \in 0 .. USB_RETRY_LIMIT - 1
  /\ deadline \in Deadlines \cup {"awaited"}
  /\ buf \in Seq([of : 0 .. Reports - 1, part : 1 .. AskedPkts])
  /\ rcode \in Rcodes
  /\ rcvToggle \in [0 .. 1 -> 0 .. 1] /\ hctl \in 0 .. 1
  /\ conf \in BOOLEAN
  /\ ctl \in [req : 0 .. 1, pos : 1 .. AskedPkts + 1, len : 0 .. AskedPkts,
              toggle : 0 .. 1]
  /\ report \in 0 .. Reports - 1 /\ repToggle \in 0 .. 1
  /\ request \in 0 .. 1 /\ got \in 0 .. Reports - 1

\* A request that returns success has been carried out: a get holds the whole
\* answer to this request, each packet once and in order, and a set has been
\* taken by the device.  (XferCtrlReq and XferInTransfer, with lost SETUPs, lost
\* acknowledgements, repeated packets and answers left over from a request that
\* failed half way.)
AnswerWhole ==
  (stage = "idle" /\ rcode = hrSUCCESS /\ kind # "poll") =>
    /\ ctl.req = request
    /\ kind = "get" => buf = [i \in 1 .. ctl.len |-> [of |-> request, part |-> i]]
    /\ kind = "set" => conf

\* Polling is the one-place pipe of ReportPipe, whatever is lost: no report is
\* dropped, doubled or overtaken, across polls that fail half way.  (The toggle
\* written to HCTL before a transfer and saved after it.)
Pipe == INSTANCE ReportPipe
OneReportAtATime == Pipe!PipeSpec

\* A call returns, or waits for a deadline that the clock never reaches: the
\* device may refuse every packet for ever, and the limits of XferDispatchPkt end
\* it; the chip may stay silent, and the deadline ends it, unless the packet was
\* begun in the last USB_XFER_TIMEOUT of the clock's round.
CallsReturn == stage # "idle" ~> (stage = "idle" \/ NeverTimesOut)

\* The toggles of the two sides never stay apart: a report on offer reaches the
\* program, if the line lets a packet and its acknowledgement through again and
\* again, and the program does not wait for a deadline that never comes.
ReportsArrive ==
  LineClears => \A r \in 0 .. Reports - 1 :
                  (running /\ report = r) ~> (got = r \/ NeverTimesOut)
=============================================================================
