------------------------------- MODULE JtagIO -------------------------------
(***************************************************************************)
(* The JTAG bit-banging driver src/tcpborphserver3/rpjtag_io.c over lgpio. *)
(*                                                                         *)
(* State of the driver (its file-scope statics):                           *)
(*  - chip and h[1..4] (h_tck, h_tms, h_tdi, h_tdo): -1, an lgpio handle,  *)
(*    or the negative error code a failed open or claim returned;          *)
(*  - tdi_state: the cached level of TDI (-1 unknown, 0, 1).               *)
(* State of the world the driver acts on:                                  *)
(*  - res: what each lgpio handle holds ("none", "chip" or a line), so a   *)
(*    handle nobody references is a leak and a line stays busy while held; *)
(*  - misfreed: some free or close was applied to a handle not held;       *)
(*  - tdi, tms: the levels on the output lines (TCK is low between calls); *)
(*  - dev: the device (JtagDevice), which sees every rising edge of TCK;   *)
(*  - data: the caller's buffer for jtag_read_data, BufBytes bytes;       *)
(*  - call: the last public function called and its arguments.            *)
(* Each public function is one action; the loops are RECURSIVE operators   *)
(* over a record of the line levels, the cache and the device.  The        *)
(* caller shifts only while a session is open unless                     *)
(* CallerIgnoresSetupError, and calls setup_io on an open session only     *)
(* when CallerMayReopen.                                                   *)
(***************************************************************************)
EXTENDS Integers, Sequences, SequencesExt, FiniteSets, Bitwise, JtagDevice

CONSTANTS
  Handles,          \* lgpio handles, small integers >= 0
  Cmds,             \* values of the unsigned int cmd argument
  Offsets,          \* values of bitoffset
  Bytes,            \* values of the unsigned char byte argument
  Sizes,            \* values of iSize
  BufBytes,         \* bound: bytes of the caller's read buffer
  ClaimMayFail,     \* lgGpiochipOpen / lgGpioClaim* may fail for no visible reason
  CallerMayReopen,  \* the caller may call setup_io while a session is open
  CallerIgnoresSetupError \* the caller shifts even when setup_io returned -1

\* TLC integers are 32-bit signed: cmd values stay below 2^31.
ASSUME Handles \subseteq Nat /\ Cmds \subseteq 0..2147483647
ASSUME Offsets \subseteq 0..32 /\ Bytes \subseteq 0..255
ASSUME Sizes \subseteq Nat /\ \A n \in Sizes : (n + 7) \div 8 <= BufBytes

\* The claim order of setup_io: JTAG_TCK, JTAG_TMS, JTAG_TDI, JTAG_TDO.
Lines == <<"tck", "tms", "tdi", "tdo">>

\* A negative lgpio error code (a failed open or claim).
ClaimError == -2

\* lgGpioRead's negative result for a handle that is not a claimed line.
BadHandle == -5

VARIABLES chip, h, tdi_state, res, misfreed, tdi, tms, dev, data, call

vars == <<chip, h, tdi_state, res, misfreed, tdi, tms, dev, data, call>>

\* The code's test `handle >= 0`.
Valid(x) == x \in Handles

Open == Valid(chip) /\ \A i \in 1..4 : Valid(h[i])
Closed == ~Valid(chip) /\ \A i \in 1..4 : ~Valid(h[i])

Busy(l) == \E x \in Handles : res[x] = l

(* lgpio hands out the lowest vacant handle.                               *)
FreeList ==
  LET V == {x \in Handles : res[x] = "none"}
  IN [k \in 1..Cardinality(V) |-> CHOOSE x \in V : Cardinality({y \in V : y < x}) = k - 1]

(* lgGpioFreeLine / lgGpiochipClose of every handle in S.                  *)
Release(r, S) == [x \in Handles |-> IF x \in S THEN "none" ELSE r[x]]
MisRelease(r, S) == \E x \in S : r[x] = "none"

(***************************************************************************)
(* The line-level record the shift routines work on.                      *)
(***************************************************************************)
(* live: the handles are claimed lines, so lgGpioWrite reaches the line;   *)
(* otherwise every write returns an error and changes nothing.             *)
Hw == [tdi |-> tdi, tms |-> tms, tdi_state |-> tdi_state, dev |-> dev, live |-> Open]

CommitHw(w) == tdi' = w.tdi /\ tms' = w.tms /\ tdi_state' = w.tdi_state /\ dev' = w.dev

Bool(p) == IF p THEN 1 ELSE 0

(* tick_clk: TCK high (the device's rising edge), then low.                *)
TickClkHw(w) == IF w.live THEN [w EXCEPT !.dev = Edge(w.dev, w.tdi, w.tms)] ELSE w

(* send_cmd_no_tms: write TDI only when the cache differs, then clock.     *)
SendCmdNoTmsHw(w, iTDI) ==
  LET b == IF iTDI = 0 THEN 0 ELSE 1
  IN TickClkHw(IF w.tdi_state # b
               THEN [w EXCEPT !.tdi = IF w.live THEN b ELSE @, !.tdi_state = b]
               ELSE w)

(* send_cmd: TDI (== 1 tests), TMS (== 1 tests), then tick_clk.            *)
SendCmdHw(w, iTDI, iTMS) ==
  TickClkHw(IF w.live THEN [w EXCEPT !.tdi = Bool(iTDI = 1), !.tdi_state = Bool(iTDI = 1),
                                     !.tms = Bool(iTMS = 1)]
            ELSE [w EXCEPT !.tdi_state = Bool(iTDI = 1)])

(* (x >> k) & 1 for the non-negative words and bytes the loops shift.    *)
BitAt(x, k) == (x \div 2^k) % 2

(* while (bitoffset--) send_cmd((cmd >> bitoffset) & 1, lastBit == 1 &&   *)
(* bitoffset == 0).                                                        *)
RECURSIVE MsbFirstLoop(_, _, _, _)
MsbFirstLoop(w, cmd, lastBit, bitoffset) ==
  IF bitoffset = 0 THEN w
  ELSE LET b == bitoffset - 1
       IN MsbFirstLoop(SendCmdHw(w, BitAt(cmd, b), Bool(lastBit = 1 /\ b = 0)),
                       cmd, lastBit, b)

\* Mutant: TMS raised when bitoffset == i, one bit too late (never).
RECURSIVE MsbLastLoopLateTms(_, _, _, _, _)
MsbLastLoopLateTms(w, cmd, lastBit, bitoffset, i) ==
  IF i >= bitoffset THEN w
  ELSE MsbLastLoopLateTms(SendCmdHw(w, BitAt(cmd, i),
                                    Bool(lastBit = 1 /\ bitoffset = i)),
                          cmd, lastBit, bitoffset, i + 1)

(* for (i = 0; i < bitoffset; i++) send_cmd((cmd >> i) & 1, lastBit == 1   *)
(* && bitoffset == i+1).                                                   *)
RECURSIVE MsbLastLoop(_, _, _, _, _)
MsbLastLoop(w, cmd, lastBit, bitoffset, i) ==
  IF i >= bitoffset THEN w
  ELSE MsbLastLoop(SendCmdHw(w, BitAt(cmd, i),
                             Bool(lastBit = 1 /\ bitoffset = i + 1)),
                   cmd, lastBit, bitoffset, i + 1)

(* for (x = 7; x >= 0; x--) send_cmd((byte >> x) & 1, x == 0 && lastbyte). *)
RECURSIVE SendByteLoop(_, _, _, _)
SendByteLoop(w, byte, lastbyte, x) ==
  IF x < 0 THEN w
  ELSE SendByteLoop(SendCmdHw(w, BitAt(byte, x), Bool(x = 0 /\ lastbyte = 1)),
                    byte, lastbyte, x - 1)

(* send_byte_no_tms: send_cmd_no_tms(byte & 0x80) ... (byte & 0x01).       *)
SendByteNoTmsHw(w, byte) ==
  FoldLeft(LAMBDA ww, m : SendCmdNoTmsHw(ww, byte & m), w,
           <<128, 64, 32, 16, 8, 4, 2, 1>>)

(* gpio_read_line: lgGpioRead, the TDO level or an error.                  *)
LgRead(w) == IF w.live THEN TdoLevel(w.dev) ELSE BadHandle

(* read_jtag_tdo: (val) ? 1 : 0.                                           *)
ReadTdo(w) == IF LgRead(w) # 0 THEN 1 ELSE 0

(* for (i = iSize-1; i > 0; i--) { temp = read_jtag_tdo(); send_cmd(0, 0); *)
(* data[i/8] |= temp << (i & 7); }   r is [w, buf].                        *)
RECURSIVE ReadLoop(_, _)
ReadLoop(r, i) ==
  IF i <= 0 THEN r
  ELSE LET temp == ReadTdo(r.w)
       IN ReadLoop([w |-> SendCmdHw(r.w, 0, 0),
                    buf |-> [r.buf EXCEPT ![i \div 8] = @ | (temp * 2^(i & 7))]],
                   i - 1)

(* jtag_read_data: memset, the loop, then the last bit with TMS high.      *)
ReadDataHw(w, buf, iSize) ==
  LET cleared == [j \in DOMAIN buf |-> IF j < (iSize + 7) \div 8 THEN 0 ELSE buf[j]]
      r == ReadLoop([w |-> w, buf |-> cleared], iSize - 1)
      temp == ReadTdo(r.w)
  IN [w |-> SendCmdHw(r.w, 0, 1), buf |-> [r.buf EXCEPT ![0] = @ | temp]]

(***************************************************************************)
(* setup_io.  Step 1 opens the chip, step k+1 claims Lines[k]; the first   *)
(* failing step ends the sequence.  A step fails when its line is busy or  *)
(* no handle is vacant, and may fail when ClaimMayFail.                    *)
(***************************************************************************)
CanSucceed(k) == k <= Len(FreeList) /\ (k = 1 \/ ~Busy(Lines[k - 1]))
CanFail(k) == ClaimMayFail \/ ~CanSucceed(k)

\* j steps succeed, then step j+1 fails (j = 5: everything claimed).
SetupOutcomes ==
  { j \in 0..5 : /\ \A k \in 1..j : CanSucceed(k)
                 /\ j < 5 => CanFail(j + 1) }

\* The handle variables after j successful steps: claimed handles, the
\* error code of the failed claim, and whatever the later ones held before.
ClaimedH(j) ==
  [i \in 1..4 |-> IF i + 1 <= j THEN FreeList[i + 1]
                  ELSE IF i + 1 = j + 1 THEN ClaimError ELSE h[i]]

ResAfterClaims(j) ==
  [x \in Handles |-> IF \E k \in 1..j : FreeList[k] = x
                     THEN <<"chip", "tck", "tms", "tdi", "tdo">>
                            [CHOOSE k \in 1..j : FreeList[k] = x]
                     ELSE res[x]]

\* Mutant: the fail path forgets lgGpioFreeLine(h_tdi).
FailPathFreesNoTdi(nh, c) == ({nh[1], nh[2], nh[4]} \cup {c}) \cap Handles

(* fail: every line handle >= 0 is freed, and the chip closed if >= 0.     *)
FailPathFrees(nh, c) == ({nh[i] : i \in 1..4} \cup {c}) \cap Handles

\* Mutant: tdi_state is not reset by a successful setup_io.
SetupSuccessHwKeepCache(w) == [w EXCEPT !.tdi = 0, !.tms = 0]

(* Success: the output lines were claimed LG_LOW and tdi_state = -1.       *)
SetupSuccessHw(w) == [w EXCEPT !.tdi = 0, !.tms = 0, !.tdi_state = -1]

SetupIo ==
  /\ call' = <<"setup_io">>
  /\ CallerMayReopen \/ Closed
  /\ \E j \in SetupOutcomes :
       LET nh == ClaimedH(j)
           r  == ResAfterClaims(j)
           S  == FailPathFrees(nh, FreeList[1])
       IN CASE j = 0 ->
                 /\ chip' = ClaimError
                 /\ UNCHANGED <<h, tdi_state, res, misfreed, tdi, tms, dev>>
            [] j = 5 ->
                 /\ chip' = FreeList[1] /\ h' = nh /\ res' = r
                 /\ CommitHw(SetupSuccessHw(Hw))
                 /\ UNCHANGED <<misfreed>>
            [] OTHER ->
                 /\ chip' = -1 /\ h' = [i \in 1..4 |-> -1]
                 /\ res' = Release(r, S)
                 /\ misfreed' = (misfreed \/ MisRelease(r, S))
                 /\ UNCHANGED <<tdi_state, tdi, tms, dev>>
  /\ UNCHANGED data

(* close_io: free each line handle >= 0 and set it to -1, then the chip.   *)
CloseIo ==
  LET S == ({h[i] : i \in 1..4} \cup {chip}) \cap Handles
  IN /\ call' = <<"close_io">>
     /\ h' = [i \in 1..4 |-> IF Valid(h[i]) THEN -1 ELSE h[i]]
     /\ chip' = IF Valid(chip) THEN -1 ELSE chip
     /\ res' = Release(res, S)
     /\ misfreed' = (misfreed \/ MisRelease(res, S))
     /\ UNCHANGED <<tdi_state, tdi, tms, dev, data>>

(***************************************************************************)
(* The shift routines, each a whole call on an open session.               *)
(***************************************************************************)
Shift(c, w) == /\ call' = c /\ (Open \/ CallerIgnoresSetupError) /\ CommitHw(w)
            /\ UNCHANGED <<chip, h, res, misfreed, data>>

TickClk == Shift(<<"tick_clk">>, TickClkHw(Hw))

SendCmdNoTms(iTDI) ==
  Shift(<<"send_cmd_no_tms", iTDI>>, SendCmdNoTmsHw(Hw, iTDI))

SendCmd(iTDI, iTMS) ==
  Shift(<<"send_cmd", iTDI, iTMS>>, SendCmdHw(Hw, iTDI, iTMS))

SendCmdWordMsbFirst(cmd, lastBit, bitoffset) ==
  Shift(<<"send_cmdWord_msb_first", cmd, lastBit, bitoffset>>,
        MsbFirstLoop(Hw, cmd, lastBit, bitoffset))

SendCmdWordMsbLast(cmd, lastBit, bitoffset) ==
  Shift(<<"send_cmdWord_msb_last", cmd, lastBit, bitoffset>>,
        MsbLastLoop(Hw, cmd, lastBit, bitoffset, 0))

SendByte(byte, lastbyte) ==
  Shift(<<"send_byte", byte, lastbyte>>, SendByteLoop(Hw, byte, lastbyte, 7))

SendByteNoTms(byte) ==
  Shift(<<"send_byte_no_tms", byte>>, SendByteNoTmsHw(Hw, byte))

(* jtag_read_data: the early return for iSize == 0, else the whole read.   *)
JtagReadData(iSize) ==
  /\ call' = <<"jtag_read_data", iSize>>
  /\ Open \/ CallerIgnoresSetupError
  /\ iSize # 0
  /\ LET r == ReadDataHw(Hw, data, iSize)
     IN CommitHw(r.w) /\ data' = r.buf
  /\ UNCHANGED <<chip, h, res, misfreed>>

Init ==
  /\ chip = -1 /\ h = [i \in 1..4 |-> -1] /\ tdi_state = -1
  /\ res = [x \in Handles |-> "none"] /\ misfreed = FALSE
  /\ tdi = 0 /\ tms = 0 /\ dev = DevInit
  /\ data = [j \in 0..(BufBytes - 1) |-> 0]
  /\ call = <<>>

Next ==
  \/ SetupIo
  \/ CloseIo
  \/ TickClk
  \/ \E b \in {0, 1} : SendCmdNoTms(b)
  \/ \E b, m \in {0, 1} : SendCmd(b, m)
  \/ \E c \in Cmds, l \in {0, 1}, n \in Offsets :
       SendCmdWordMsbFirst(c, l, n) \/ SendCmdWordMsbLast(c, l, n)
  \/ \E b \in Bytes, l \in {0, 1} : SendByte(b, l)
  \/ \E b \in Bytes : SendByteNoTms(b)
  \/ \E n \in Sizes : JtagReadData(n)

Spec == Init /\ [][Next]_vars

(***************************************************************************)
(* Properties.                                                             *)
(***************************************************************************)
TypeOK ==
  /\ chip \in Handles \cup {-1, ClaimError}
  /\ h \in [1..4 -> Handles \cup {-1, ClaimError}]
  /\ tdi_state \in {-1, 0, 1} /\ tdi \in {0, 1} /\ tms \in {0, 1}
  /\ res \in [Handles -> {"none", "chip", "tck", "tms", "tdi", "tdo"}]
  /\ dev \in DevRec /\ data \in [0..(BufBytes - 1) -> 0..255]

(* setup_io's failure path and close_io release exactly what the driver    *)
(* holds: every lgpio handle in use is referenced by the one variable for  *)
(* its chip or line, every handle variable >= 0 refers to a handle held    *)
(* for its resource, and no free or close ever hit a handle not held.      *)
HandlesOwned ==
  /\ ~misfreed
  /\ \A x \in Handles :
       res[x] # "none" => \/ res[x] = "chip" /\ chip = x
                          \/ \E i \in 1..4 : res[x] = Lines[i] /\ h[i] = x
  /\ Valid(chip) => res[chip] = "chip"
  /\ \A i \in 1..4 : Valid(h[i]) => res[h[i]] = Lines[i]

(* The TDI cache that send_cmd_no_tms trusts to skip the write is never    *)
(* stale in an open session, across close_io and a later setup_io too:    *)
(* when it says 0 or 1, the TDI line is at that level.                     *)
CacheMatchesLine == Open /\ tdi_state \in {0, 1} => tdi = tdi_state

(* The caller's buffer as bits: bit p is bit p % 8 of byte p / 8.          *)
AbsBits == [p \in 0..(8 * BufBytes - 1) |-> (data[p \div 8] \div 2^(p % 8)) % 2]

Abs == INSTANCE JtagShift WITH open <- Open, bits <- AbsBits

(* Every call puts on the wires exactly the (TDI, TMS) clocks JtagShift    *)
(* gives for its arguments, and jtag_read_data assembles what it read in   *)
(* the promised bit order: the loops, the TDI cache, the TMS conditions    *)
(* and the data[i/8] |= temp << (i & 7) packing together.                  *)
AbstractSpec == Abs!Spec

=============================================================================
