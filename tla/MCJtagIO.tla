------------------------------ MODULE MCJtagIO ------------------------------
(***************************************************************************)
(* Instantiates JtagIO for TLC.                                            *)
(*  - wires (MCJtagIO.cfg): claims succeed; command words that tell the    *)
(*    two bit orders apart (6 = 110b) and run past a byte (9 bits), bytes  *)
(*    1 and 6 (the device keeps the last 3 bits of a call, so a byte's set *)
(*    bits must be among its low 3 to be seen, and 6 makes send_byte_no_tms *)
(*    pass masks 4 and 2, not 1), reads of 1 bit and of 9 bits (a byte     *)
(*    boundary of the buffer), a 3-bit device register.                   *)
(*  - handles (MCJtagIOHandles.cfg): every open and claim may fail, one    *)
(*    value of each argument, enough to move the TDI cache.               *)
(*  - comment (MCJtagIOComment.cfg): the words of the comment's example.  *)
(* Six lgpio handles: a session's five plus the chip of a second setup_io. *)
(***************************************************************************)
EXTENDS JtagIO

MCHandles == 0..5
MCCapture == <<1, 0, 1>>

MCCmds == {6}
MCOffsets == {0, 3, 9}
MCBytes == {1, 6}
MCSizes == {1, 9}

MCFewOffsets == {3}
MCFewBytes == {1}
MCFewSizes == {9}

(* The example of the comment above send_cmdWord_msb_first and             *)
(* send_cmdWord_msb_last: "0xFFFF,0,20 would send 20 1's".  A 20-bit       *)
(* device register that starts empty shows the bits a call shifted in.     *)
MCCommentCmds == {65535}
MCCommentOffsets == {20}
MCEmptyReg20 == [k \in 1..20 |-> 0]

(* Called from Shift-DR, send_cmdWord_msb_first(0xFFFF, 0, 20) and         *)
(* send_cmdWord_msb_last(0xFFFF, 0, 20) leave 20 ones in the device's      *)
(* register, as the comment in rpjtag_io.c says they send.                 *)
CommentExampleSendsOnes ==
  [][ \A fn \in {"send_cmdWord_msb_first", "send_cmdWord_msb_last"} :
        call' = <<fn, 65535, 0, 20>> /\ dev.tap = "ShDR"
          => dev'.reg = [k \in 1..20 |-> 1] ]_vars

=============================================================================
