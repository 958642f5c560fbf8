----------------------------- MODULE BridgeLink -----------------------------
(***************************************************************************)
(* The USB link between a tool and the EZF Advance III bridge: what the    *)
(* bridge answers to a command, how one libusb bulk IN takes packets off   *)
(* the endpoint, and which answer Protocol and the preflights accept.      *)
(*                                                                         *)
(* The bridge answers commands in order and keeps an answer until somebody *)
(* reads it, also after the tool that asked is gone.  Answers carry no     *)
(* sequence number, and the echo of a 0x92 command does not contain its    *)
(* data bytes, so answers to different commands can be the same packets.   *)
(***************************************************************************)
EXTENDS Naturals, Sequences

\* One command.  `sel` names the register that the data bytes of a two-byte
\* command set, if any, and `val` the value, address, selector or length.
Cmd(op, sel, val) == [op |-> op, sel |-> sel, val |-> val]

Reset == Cmd("reset", "none", 0)            \* 0x97
Poll == Cmd("poll", "none", 0)              \* 0x98
Setup == Cmd("setup", "none", 1)            \* 0x99 with parameter 01
Word == Cmd("word", "none", 0)              \* 0x92, two data bytes
WordTo(sel, val) == Cmd("word", sel, val)
Byte(selector) == Cmd("byte", "none", selector)  \* 0x92, one data byte
Payload == Cmd("payload", "none", 0)        \* 0x92, 32 KiB of save data
Erase(a) == Cmd("erase", "none", a)         \* 0x96
Read(length) == Cmd("read", "none", length) \* 0x91

-----------------------------------------------------------------------------
(* Packets.  A full packet does not end a bulk transfer, a shorter one does. *)

FullPacket == 64

Packet(len, of, val, st) == [len |-> len, of |-> of, val |-> val, st |-> st]

\* `st` is the status byte of 0x97, 0x98 and 0x96, and for a read whether the
\* data is all FF (0) or not (1).  Echoes repeat the command, not its data.
Answer(c, st) ==
    CASE c.op \in {"reset", "poll"} -> <<Packet(1, "status", 0, st)>>
      [] c.op = "read" ->
            [j \in 1..((c.val + FullPacket - 1) \div FullPacket) |->
                Packet(IF j * FullPacket =< c.val THEN FullPacket
                       ELSE c.val % FullPacket, "data", 0, st)]
      [] c.op \in {"byte", "erase", "setup"} -> <<Packet(13, c.op, c.val, st)>>
      [] OTHER -> <<Packet(13, c.op, 0, st)>>

-----------------------------------------------------------------------------
(* One bulk IN of at most `max` bytes. *)

\* Packets that end it: a short one, or the one that fills the buffer.
Ends(q, max) == {j \in 1..Len(q) : q[j].len < FullPacket \/ j * FullPacket >= max}

\* Nothing that ends it is a timeout, a packet beyond the buffer an overflow;
\* both are errors, and both discard what arrived.
BulkIn(q, max) ==
    IF Ends(q, max) = {}
    THEN [good |-> FALSE, got |-> <<>>, rest |-> <<>>]
    ELSE LET last == CHOOSE j \in Ends(q, max) :
                         \A k \in Ends(q, max) : j =< k
         IN  [good |-> (last - 1) * FullPacket + q[last].len =< max,
              got |-> SubSeq(q, 1, last),
              rest |-> SubSeq(q, last + 1, Len(q))]

\* Mutant: the echo buffer is a byte short.
BufferShort(c) ==
    CASE c.op \in {"reset", "poll"} -> 1
      [] c.op = "read" -> c.val
      [] OTHER -> 12

\* The size of the buffer each caller passes to inMax.
Buffer(c) ==
    CASE c.op \in {"reset", "poll"} -> 1
      [] c.op = "read" -> c.val
      [] c.op = "setup" -> 13
      [] OTHER -> 64

\* The answer a caller goes on with, and the one it polls again after.
Expected(c) == Answer(c, IF c.op = "poll" THEN 1 ELSE 0)
NotReady == Answer(Poll, 0)

\* Mutant: any answer of an echoed command will do.
AcceptsAny(c, got) == c.op \in {"reset", "poll", "read"} => got = Expected(c)

Accepts(c, got) == got = Expected(c)
=============================================================================
