----------------------------- MODULE JtagDevice -----------------------------
(***************************************************************************)
(* The device at the other end of the four JTAG wires driven by            *)
(* src/tcpborphserver3/rpjtag_io.c.  It is the driver's environment, not   *)
(* code of this repository: an IEEE 1149.1 TAP controller and one shift   *)
(* register of RegLen bits that stands for the instruction or data         *)
(* register selected by the TAP state.                                     *)
(*                                                                         *)
(* On each rising edge of TCK the device performs the work of its current  *)
(* state (Capture-xR loads CaptureBits, Shift-xR shifts TDI in at the most  *)
(* significant end and the least significant bit out on TDO) and then      *)
(* moves along the TMS edge of the TAP state graph.  Outside Shift-xR TDO  *)
(* is not driven; the Pi's input then reads the pull-up level 1.           *)
(***************************************************************************)
EXTENDS Naturals, Sequences

CONSTANTS
  RegLen,       \* bound: bits of the device's shift register
  CaptureBits   \* what Capture-xR loads, bit 0 first

ASSUME RegLen \in Nat \ {0} /\ CaptureBits \in [1..RegLen -> {0, 1}]

(* The TAP state graph: state |-> <<next state on TMS=0, on TMS=1>>.      *)
Tap == [ TLR   |-> <<"RTI",   "TLR">>,   RTI   |-> <<"RTI",   "SelDR">>,
         SelDR |-> <<"CapDR", "SelIR">>, CapDR |-> <<"ShDR",  "Ex1DR">>,
         ShDR  |-> <<"ShDR",  "Ex1DR">>, Ex1DR |-> <<"PaDR",  "UpDR">>,
         PaDR  |-> <<"PaDR",  "Ex2DR">>, Ex2DR |-> <<"ShDR",  "UpDR">>,
         UpDR  |-> <<"RTI",   "SelDR">>, SelIR |-> <<"CapIR", "TLR">>,
         CapIR |-> <<"ShIR",  "Ex1IR">>, ShIR  |-> <<"ShIR",  "Ex1IR">>,
         Ex1IR |-> <<"PaIR",  "UpIR">>,  PaIR  |-> <<"PaIR",  "Ex2IR">>,
         Ex2IR |-> <<"ShIR",  "UpIR">>,  UpIR  |-> <<"RTI",   "SelDR">> ]

TapStates == DOMAIN Tap

ShiftStates == {"ShDR", "ShIR"}
CaptureStates == {"CapDR", "CapIR"}

DevRec == [tap : TapStates, reg : [1..RegLen -> {0, 1}]]

(* Power-on: Test-Logic-Reset, register holding what a capture loads.      *)
DevInit == [tap |-> "TLR", reg |-> CaptureBits]

(* The level the Pi reads on TDO before the next rising edge.              *)
TdoLevel(d) == IF d.tap \in ShiftStates THEN d.reg[1] ELSE 1

(* One rising edge of TCK with the given TDI and TMS levels.               *)
Edge(d, tdi, tms) ==
  [tap |-> Tap[d.tap][tms + 1],
   reg |-> CASE d.tap \in ShiftStates   -> Append(Tail(d.reg), tdi)
             [] d.tap \in CaptureStates -> CaptureBits
             [] OTHER                   -> d.reg]

=============================================================================
