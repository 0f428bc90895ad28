------------------------------ MODULE JtagShift ------------------------------
(***************************************************************************)
(* What the JTAG driver promises its caller, stated at the wires: each     *)
(* call clocks the device (JtagDevice) with a sequence of (TDI, TMS)       *)
(* pairs given by its arguments, and jtag_read_data leaves in the caller's *)
(* buffer the TDO bits it read.  There are no handles, no cache and no     *)
(* loops here: a session is open or not, tdi / tms are the levels the last *)
(* call left on the lines (tick_clk and send_cmd_no_tms reuse them), and   *)
(* call is the last call with its arguments.                              *)
(*                                                                         *)
(*  - a command word of n bits goes out most significant bit first         *)
(*    (msb_first) or least significant bit first (msb_last), a byte most  *)
(*    significant bit first; TMS is high only on the last bit, and only    *)
(*    when the caller asked to leave the shift state;                      *)
(*  - a read of n bits clocks TDI low, TMS high only on the last bit, and  *)
(*    puts the k-th bit read at buffer bit n-k; the rest of the bytes it   *)
(*    touches are zero.                                                    *)
(***************************************************************************)
EXTENDS Integers, Sequences, SequencesExt, JtagDevice

CONSTANTS Cmds, Offsets, Bytes, Sizes, BufBytes

VARIABLES open, tdi, tms, dev, bits, call

absVars == <<open, tdi, tms, dev, bits, call>>

BitOf(v, k) == (v \div 2^k) % 2

MsbFirst(v, n) == [k \in 1..n |-> BitOf(v, n - k)]
LsbFirst(v, n) == [k \in 1..n |-> BitOf(v, k - 1)]

\* TMS for n clocks: high on the last one exactly when e.
ExitOnLast(n, e) == [k \in 1..n |-> IF e /\ k = n THEN 1 ELSE 0]

(* The device after the clocks ps, and the TDO level read before each.    *)
Clocked(d, ps) ==
  FoldLeft(LAMBDA acc, p : [dev |-> Edge(acc.dev, p[1], p[2]),
                            tdo |-> Append(acc.tdo, TdoLevel(acc.dev))],
           [dev |-> d, tdo |-> <<>>], ps)

(* Clock TDI levels ds with TMS levels ms.                                 *)
Drive(ds, ms) ==
  /\ tdi' = IF ds = <<>> THEN tdi ELSE Last(ds)
  /\ tms' = IF ms = <<>> THEN tms ELSE Last(ms)
  /\ open
  /\ UNCHANGED <<open, bits>>
  /\ dev' = Clocked(dev, [k \in 1..Len(ds) |-> <<ds[k], ms[k]>>]).dev

Init ==
  /\ open = FALSE /\ tdi = 0 /\ tms = 0 /\ dev = DevInit
  /\ bits = [p \in 0..(8 * BufBytes - 1) |-> 0]
  /\ call = <<>>

\* Opening claims the output lines low; a failed open leaves none claimed.
Setup ==
  /\ call' = <<"setup_io">>
  /\ \/ open' = TRUE /\ tdi' = 0 /\ tms' = 0 /\ UNCHANGED <<dev, bits>>
     \/ open' = FALSE /\ UNCHANGED <<tdi, tms, dev, bits>>

Close ==
  /\ call' = <<"close_io">>
  /\ open' = FALSE /\ UNCHANGED <<tdi, tms, dev, bits>>

Read(n) ==
  LET c == Clocked(dev, [k \in 1..n |-> <<0, IF k = n THEN 1 ELSE 0>>])
  IN /\ call' = <<"jtag_read_data", n>>
     /\ open /\ n # 0 /\ tdi' = 0 /\ tms' = 1
     /\ dev' = c.dev
     /\ bits' = [p \in DOMAIN bits |->
                   IF p < n THEN c.tdo[n - p]
                   ELSE IF p < 8 * ((n + 7) \div 8) THEN 0 ELSE bits[p]]
     /\ UNCHANGED open

Next ==
  \/ Setup
  \/ Close
  \/ call' = <<"tick_clk">> /\ Drive(<<tdi>>, <<tms>>)
  \/ \E b \in {0, 1} :
       call' = <<"send_cmd_no_tms", b>> /\ Drive(<<b>>, <<tms>>)
  \/ \E b, m \in {0, 1} :
       call' = <<"send_cmd", b, m>> /\ Drive(<<b>>, <<m>>)
  \/ \E c \in Cmds, l \in {0, 1}, n \in Offsets :
       \/ /\ call' = <<"send_cmdWord_msb_first", c, l, n>>
          /\ Drive(MsbFirst(c, n), ExitOnLast(n, l = 1))
       \/ /\ call' = <<"send_cmdWord_msb_last", c, l, n>>
          /\ Drive(LsbFirst(c, n), ExitOnLast(n, l = 1))
  \/ \E b \in Bytes, l \in {0, 1} :
       call' = <<"send_byte", b, l>> /\ Drive(MsbFirst(b, 8), ExitOnLast(8, l = 1))
  \/ \E b \in Bytes :
       call' = <<"send_byte_no_tms", b>> /\ Drive(MsbFirst(b, 8), [k \in 1..8 |-> tms])
  \/ \E n \in Sizes : Read(n)

Spec == Init /\ [][Next]_absVars

=============================================================================
