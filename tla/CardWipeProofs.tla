--------------------------- MODULE CardWipeProofs ---------------------------
(***************************************************************************)
(* Type correctness of CardWipe, the step that keeps a run in step with    *)
(* its bridge, and what a run in step has passed; then how far behind its  *)
(* bridge a run can be after a number of faults, and from that, what holds *)
(* of the wipe as long as there are few of them.  For every geometry, for  *)
(* every attempt count, and for any number of runs and replugs.            *)
(***************************************************************************)
EXTENDS CardWipe, FlashGeometryProofs, SequenceTheorems, FiniteSetTheorems, TLAPS

-----------------------------------------------------------------------------
(* The commands of the script and the packets that answer them. *)

WipeCommands ==
    {Reset, Poll, Setup, Word, Payload, Byte(0), Byte(1), Read(172), Read(32)}
        \cup {WordTo("window", w) : w \in Windows}
        \cup {WordTo("bank", b) : b \in Banks}
        \cup {Erase(a) : a \in Int}

Packets ==
    [len : 1..FullPacket, val : Int, st : {0, 1},
     of : {"status", "data", "byte", "erase", "setup", "word", "payload"}]

LEMMA EraseBankCommands ==
    ASSUME NEW w \in Windows
    PROVE  EraseBank(w) \in Seq(WipeCommands)
  <1>1. SelectWindow(w) \in Seq(WipeCommands)
    BY DEF SelectWindow, WipeCommands
  <1>2. FinishOperation \in Seq(WipeCommands)
    BY DEF FinishOperation, WipeCommands
  <1>. DEFINE erases == [k \in DOMAIN SectorAddresses(w) |-> Erase(SectorAddresses(w)[k])]
  <1>3. erases \in Seq(WipeCommands)
    <2>. DEFINE n == BootSectors + WholeBlocks
                m == WholeBlocks + BootSectors
    <2>1. /\ BootSectors \in Int /\ WholeBlocks \in Int
          /\ BootSectors >= 0 /\ WholeBlocks >= 0
      BY GeometryAssumption, Z3 DEF BootSectors, WholeBlocks
    <2>2. n \in Nat /\ m \in Nat
      BY <2>1
    <2>3. /\ DOMAIN SectorAddresses(w) = 1..n \/ DOMAIN SectorAddresses(w) = 1..m
          /\ \A k \in DOMAIN SectorAddresses(w) : SectorAddresses(w)[k] \in Int
      <3>1. /\ DOMAIN BottomBootSectorAddresses = 1..n
            /\ \A k \in 1..n : BottomBootSectorAddresses[k] \in Int
        BY <2>1, GeometryAssumption DEF BottomBootSectorAddresses
      <3>2. /\ DOMAIN TopBootSectorAddresses = 1..m
            /\ \A k \in 1..m : TopBootSectorAddresses[k] \in Int
        BY <2>1, GeometryAssumption DEF TopBootSectorAddresses
      <3>. QED
        BY <3>1, <3>2 DEF SectorAddresses
    <2>4. \A k \in DOMAIN SectorAddresses(w) : erases[k] \in WipeCommands
      BY <2>3 DEF WipeCommands
    <2>. QED
      BY <2>2, <2>3, <2>4, IsASeq
  <1>. QED
    BY <1>1, <1>2, <1>3, ConcatProperties DEF EraseBank

LEMMA ScriptCommands ==
    /\ Script \in Seq(WipeCommands)
    /\ Len(Script) \in Nat \ {0}
  <1>1. Preflight \in Seq(WipeCommands) /\ Len(Preflight) = 3
    BY DEF Preflight, WipeCommands
  <1>2. /\ EraseBank(0) \in Seq(WipeCommands) /\ EraseBank(1) \in Seq(WipeCommands)
        /\ EraseBank(2) \in Seq(WipeCommands) /\ EraseBank(3) \in Seq(WipeCommands)
    BY EraseBankCommands DEF Windows
  <1>3. ClearAll \in Seq(WipeCommands)
    <2>1. \A b \in Banks : ClearBank(b) \in Seq(WipeCommands)
      BY DEF ClearBank, WipeCommands
    <2>2. /\ ClearBank(0) \in Seq(WipeCommands) /\ ClearBank(1) \in Seq(WipeCommands)
          /\ ClearBank(2) \in Seq(WipeCommands) /\ ClearBank(3) \in Seq(WipeCommands)
      BY <2>1 DEF Banks
    <2>. QED
      BY <2>2, ConcatProperties DEF ClearAll
  <1>4. FinalCleanup \in Seq(WipeCommands) /\ VerifyBlank \in Seq(WipeCommands)
    BY DEF FinalCleanup, VerifyBlank, WipeCommands
  <1>. DEFINE rest == EraseBank(0) \o EraseBank(1) \o EraseBank(2) \o EraseBank(3)
                      \o ClearAll \o FinalCleanup \o VerifyBlank
  <1>5. Script \in Seq(WipeCommands)
    BY <1>1, <1>2, <1>3, <1>4, ConcatProperties DEF Script
  <1>6. Len(Script) >= 2
    <2>. DEFINE front == Preflight
                  \o EraseBank(0) \o EraseBank(1) \o EraseBank(2) \o EraseBank(3)
                  \o ClearAll \o FinalCleanup
    <2>1. front \in Seq(WipeCommands)
      BY <1>1, <1>2, <1>3, <1>4, ConcatProperties
    <2>2. Len(VerifyBlank) = 2
      BY DEF VerifyBlank
    <2>3. Script = front \o VerifyBlank
      BY DEF Script
    <2>4. Len(front) \in Nat
      BY <2>1, LenProperties
    <2>. HIDE DEF front
    <2>5. Len(Script) = Len(front) + Len(VerifyBlank)
      BY <1>4, <2>1, <2>3, ConcatProperties
    <2>. QED
      BY <2>2, <2>4, <2>5
  <1>. QED
    BY <1>5, <1>6, LenProperties

LEMMA CurrentCommand ==
    ASSUME i \in 1..Len(Script)
    PROVE  Current \in WipeCommands
  BY ScriptCommands, ElementOfSeq DEF Current

-----------------------------------------------------------------------------
(* What the bridge answers, and what one IN takes off the endpoint. *)

\* The answer to a command is a few full packets and a short one, and fills
\* the buffer its caller passes no earlier than with its last packet.
LEMMA AnswerShape ==
    ASSUME NEW c \in WipeCommands, NEW st \in {0, 1}
    PROVE  /\ Answer(c, st) \in Seq(Packets)
           /\ Buffer(c) \in Nat
           /\ \E n \in Nat :
                 /\ n > 0 /\ Len(Answer(c, st)) = n
                 /\ Answer(c, st)[n].len < FullPacket
                 /\ \A j \in 1..n - 1 : j * FullPacket < Buffer(c)
                                        /\ Answer(c, st)[j].len = FullPacket
  <1>1. CASE c = Read(172)
    <2>. DEFINE p(j) == Packet(IF j * FullPacket =< 172 THEN FullPacket
                               ELSE 172 % FullPacket, "data", 0, st)
    <2>1. (172 + FullPacket - 1) \div FullPacket = 3 /\ 172 % FullPacket = 44
      BY DEF FullPacket
    <2>2. Answer(c, st) = [j \in 1..3 |-> p(j)] /\ Buffer(c) = 172
      BY <1>1, <2>1 DEF Answer, Read, Cmd, Buffer
    <2>3. /\ p(1).len = 64 /\ p(2).len = 64 /\ p(3).len = 44
          /\ \A j \in 1..3 : p(j) \in Packets
      BY <2>1 DEF Packet, Packets, FullPacket
    <2>. HIDE DEF p
    <2>4. [j \in 1..3 |-> p(j)] \in Seq(Packets) /\ Len([j \in 1..3 |-> p(j)]) = 3
      BY <2>3
    <2>5. \A j \in 1..3 - 1 : j * FullPacket < 172 /\ p(j).len = FullPacket
      BY <2>3 DEF FullPacket
    <2>. QED
      BY <2>2, <2>3, <2>4, <2>5 DEF FullPacket
  <1>2. CASE c # Read(172)
    <2>1. \E p \in Packets : p.len < FullPacket /\ Answer(c, st) = <<p>>
      <3>1. CASE c = Read(32)
        <4>. DEFINE p(j) == Packet(IF j * FullPacket =< 32 THEN FullPacket
                                   ELSE 32 % FullPacket, "data", 0, st)
        <4>1. (32 + FullPacket - 1) \div FullPacket = 1 /\ 32 % FullPacket = 32
          BY DEF FullPacket
        <4>2. Answer(c, st) = [j \in 1..1 |-> p(j)]
          BY <3>1, <4>1 DEF Answer, Read, Cmd
        <4>3. p(1) \in Packets /\ p(1).len < FullPacket
          BY <4>1 DEF Packet, Packets, FullPacket
        <4>. HIDE DEF p
        <4>4. [j \in 1..1 |-> p(j)] = <<p(1)>>
          OBVIOUS
        <4>. QED
          BY <4>2, <4>3, <4>4
      <3>2. CASE c \in {Reset, Poll}
        <4>1. Answer(c, st) = <<Packet(1, "status", 0, st)>>
          BY <3>2 DEF Answer, Reset, Poll, Cmd
        <4>2. /\ Packet(1, "status", 0, st) \in Packets
              /\ Packet(1, "status", 0, st).len < FullPacket
          BY DEF Packet, Packets, FullPacket
        <4>. QED
          BY <4>1, <4>2
      <3>3. CASE c \notin {Reset, Poll, Read(32)}
        <4>1. /\ c.op \in {"byte", "erase", "setup", "word", "payload"}
              /\ c.val \in Int
          BY <1>2, <3>3 DEF WipeCommands, Reset, Poll, Setup, Word, WordTo, Byte,
             Payload, Erase, Read, Cmd, Windows, Banks
        <4>2. \E v \in Int : Answer(c, st) = <<Packet(13, c.op, v, st)>>
          BY <4>1 DEF Answer
        <4>3. \A v \in Int : /\ Packet(13, c.op, v, st) \in Packets
                             /\ Packet(13, c.op, v, st).len < FullPacket
          BY <4>1 DEF Packet, Packets, FullPacket
        <4>. QED
          BY <4>2, <4>3
      <3>. QED
        BY <3>1, <3>2, <3>3
    <2>2. PICK p \in Packets : p.len < FullPacket /\ Answer(c, st) = <<p>>
      BY <2>1
    <2>3. Buffer(c) \in Nat
      BY DEF Buffer, WipeCommands, Reset, Poll, Setup, Word, WordTo, Byte, Payload,
         Erase, Read, Cmd
    <2>4. <<p>> \in Seq(Packets) /\ Len(<<p>>) = 1 /\ <<p>>[1] = p
      OBVIOUS
    <2>5. \A j \in 1..1 - 1 : j * FullPacket < Buffer(c)
                              /\ Answer(c, st)[j].len = FullPacket
      OBVIOUS
    <2>. QED
      BY <2>2, <2>3, <2>4, <2>5
  <1>. QED
    BY <1>1, <1>2

\* A nonempty set of packet positions has a first one.
LEMMA FirstExists ==
    ASSUME NEW n \in Nat, NEW T \in SUBSET (1..n), T # {}
    PROVE  \E x \in T : \A y \in T : x =< y
  <1>. DEFINE Below(x) == 1..x
              Sets == {Below(x) : x \in T}
  <1>1. Sets \subseteq FiniteSubsetsOf(1..n) /\ Sets # {}
    <2>1. FiniteSubsetsOf(1..n) = SUBSET (1..n)
      <3>1. IsFiniteSet(1..n)
        BY FS_Interval
      <3>. QED
        BY <3>1, FS_FiniteSubsetsOfFinite
    <2>2. \A x \in T : Below(x) \subseteq 1..n
      OBVIOUS
    <2>3. Sets \subseteq SUBSET (1..n)
      BY <2>2
    <2>4. PICK x \in T : TRUE
      OBVIOUS
    <2>. QED
      BY <2>1, <2>3, <2>4
  <1>. HIDE DEF Sets
  <1>2. PICK s \in Sets :
            \A t \in Sets : ~(<<t, s>> \in StrictSubsetOrdering(1..n))
    BY <1>1, FS_StrictSubsetOrderingWellFounded, WFMin
  <1>3. PICK x \in T : s = Below(x)
    BY <1>2 DEF Sets
  <1>4. ASSUME NEW y \in T, y < x PROVE FALSE
    <2>1. Below(y) \in Sets
      BY DEF Sets
    <2>2. /\ Below(y) \subseteq Below(x) /\ Below(x) \subseteq 1..n
          /\ x \in Below(x) /\ x \notin Below(y)
      BY <1>4
    <2>3. <<Below(y), s>> \in StrictSubsetOrdering(1..n)
      BY <2>2, <1>3 DEF StrictSubsetOrdering
    <2>. QED
      BY <2>1, <2>3, <1>2
  <1>. QED
    BY <1>4

\* An IN takes packets off the front, so what is left is packets still.
LEMMA BulkInRest ==
    ASSUME NEW queue \in Seq(Packets), NEW max \in Nat
    PROVE  BulkIn(queue, max).rest \in Seq(Packets)
  <1>1. CASE Ends(queue, max) = {}
    BY <1>1 DEF BulkIn
  <1>2. CASE Ends(queue, max) # {}
    <2>. DEFINE last == CHOOSE j \in Ends(queue, max) :
                            \A k \in Ends(queue, max) : j =< k
    <2>1. BulkIn(queue, max).rest = SubSeq(queue, last + 1, Len(queue))
      BY <1>2 DEF BulkIn
    <2>2. Ends(queue, max) \subseteq Nat /\ Len(queue) \in Nat
      BY DEF Ends
    <2>3. \E j \in Ends(queue, max) : \A k \in Ends(queue, max) : j =< k
      BY <1>2, <2>2, FirstExists DEF Ends
    <2>4. last \in Ends(queue, max)
      BY <2>3
    <2>. HIDE DEF last
    <2>5. last \in 1..Len(queue)
      BY <2>4 DEF Ends
    <2>6. \A j \in last + 1..Len(queue) : queue[j] \in Packets
      BY <2>2, <2>5, ElementOfSeq
    <2>7. SubSeq(queue, last + 1, Len(queue)) \in Seq(Packets)
      BY <2>2, <2>5, <2>6, SubSeqProperties
    <2>. QED
      BY <2>1, <2>7
  <1>. QED
    BY <1>1, <1>2

\* An IN that meets exactly the answer to its command leaves nothing behind.
LEMMA BulkInWhole ==
    ASSUME NEW queue \in Seq(Packets), NEW max \in Nat, NEW n \in Nat,
           n > 0, Len(queue) = n, queue[n].len < FullPacket,
           \A j \in 1..n - 1 : j * FullPacket < max /\ queue[j].len = FullPacket
    PROVE  BulkIn(queue, max).rest = <<>>
  <1>1. Ends(queue, max) = {n}
    <2>1. n \in Ends(queue, max)
      BY DEF Ends
    <2>2. ASSUME NEW j \in Ends(queue, max), j # n PROVE FALSE
      <3>1. j \in 1..n - 1
        BY <2>2 DEF Ends
      <3>2. queue[j].len < FullPacket \/ j * FullPacket >= max
        BY <2>2 DEF Ends
      <3>3. j * FullPacket < max /\ queue[j].len = FullPacket
        BY <3>1
      <3>. QED
        BY <3>1, <3>2, <3>3 DEF FullPacket
    <2>. QED
      BY <2>1, <2>2
  <1>. DEFINE last == CHOOSE j \in Ends(queue, max) :
                          \A k \in Ends(queue, max) : j =< k
  <1>2. BulkIn(queue, max).rest = SubSeq(queue, last + 1, Len(queue))
    BY <1>1 DEF BulkIn
  <1>3. last = n
    BY <1>1
  <1>. HIDE DEF last
  <1>4. SubSeq(queue, n + 1, n) = <<>>
    BY SubSeqEmpty
  <1>. QED
    BY <1>2, <1>3, <1>4

-----------------------------------------------------------------------------
(* The invariant: types, and what kind of thing waits on the bridge. *)

TypeInv == TypeOK /\ q \in Seq(Packets)

LEMMA PacketLengths ==
    ASSUME NEW queue \in Seq(Packets)
    PROVE  \A k \in 1..Len(queue) : queue[k].len \in 1..FullPacket
  <1>1. \A k \in 1..Len(queue) : queue[k] \in Packets
    BY ElementOfSeq
  <1>. QED
    BY <1>1 DEF Packets

LEMMA StatusValues ==
    ASSUME NEW st \in Statuses
    PROVE  st \in {0, 1}
  BY DEF Statuses

\* The host's side of an IN.
LEMMA ReceivesTypes ==
    ASSUME TypeInv, NEW queue \in Seq(Packets), NEW late \in Seq(Packets),
           Receives(queue, late), pc = "running"
    PROVE  /\ q' \in Seq(Packets)
           /\ pc' \in {"idle", "running"} /\ i' \in 1..Len(Script)
           /\ polls' \in 0..(ReadinessAttempts - 1)
           /\ result' \in {"none", "completed", "failed", "killed"}
           /\ q' = BulkIn(queue, Buffer(Current)).rest \o late
  <1>1. /\ Current \in WipeCommands /\ i \in 1..Len(Script)
        /\ polls \in 0..(ReadinessAttempts - 1)
        /\ result \in {"none", "completed", "failed", "killed"}
        /\ Len(Script) \in Nat \ {0}
    BY CurrentCommand, ScriptCommands DEF TypeInv, TypeOK
  <1>2. Buffer(Current) \in Nat
    BY <1>1, AnswerShape
  <1>3. q' = BulkIn(queue, Buffer(Current)).rest \o late
    BY DEF Receives
  <1>4. q' \in Seq(Packets)
    BY <1>2, <1>3, BulkInRest, ConcatProperties
  <1>5. \/ /\ i < Len(Script) /\ i' = i + 1 /\ polls' = 0 /\ UNCHANGED <<pc, result>>
        \/ Ended("completed") \/ Ended("failed")
        \/ PollAgain
    BY DEF Receives
  <1>. QED
    BY <1>1, <1>3, <1>4, <1>5, WipeAssumption DEF Ended, PollAgain

LEMMA ExecutesTypes ==
    ASSUME TypeInv, NEW kept \in SUBSET Units, Executes(kept)
    PROVE  /\ setup' \in BOOLEAN /\ warm' \in 0..MaxWarm
           /\ win' \in Windows /\ bank' \in Banks
           /\ flash' \in [Units -> {"old", "erased"}]
           /\ saves' \in [Banks -> {"user", "zero", "marked"}]
           /\ shook' \subseteq {"reset", "poll", "setup"}
           /\ weak' \subseteq Units
  <1>1. Current \in WipeCommands
    BY CurrentCommand DEF TypeInv, TypeOK
  <1>2. /\ Current.sel = "window" => Current.val \in Windows
        /\ Current.sel = "bank" => Current.val \in Banks
    BY <1>1 DEF WipeCommands, Reset, Poll, Setup, Word, WordTo, Byte, Payload, Erase,
       Read, Cmd
  <1>3. setup' \in BOOLEAN
    BY DEF Executes
  <1>4. warm' \in 0..MaxWarm
    <2>1. /\ warm \in 0..MaxWarm
          /\ \/ warm' = warm - 1 /\ warm \in 1..(MaxWarm - 1)
             \/ warm' = warm
      BY DEF Executes, TypeInv, TypeOK
    <2>. QED
      BY <2>1, WipeAssumption
  <1>5. win' \in Windows /\ bank' \in Banks
    BY <1>2 DEF Executes, TypeInv, TypeOK
  <1>6. flash' \in [Units -> {"old", "erased"}] /\ weak' \subseteq Units
    BY DEF Executes, TypeInv, TypeOK
  <1>7. saves' \in [Banks -> {"user", "zero", "marked"}]
    BY DEF Executes, TypeInv, TypeOK
  <1>8. shook' \subseteq {"reset", "poll", "setup"}
    BY DEF Executes, TypeInv, TypeOK
  <1>. QED
    BY <1>3, <1>4, <1>5, <1>6, <1>7, <1>8

LEMMA FaultTypes ==
    ASSUME TypeInv, Fault
    PROVE  faults' \in 0..MaxFaults
  BY WipeAssumption DEF TypeInv, TypeOK, Fault

LEMMA AnswerPackets ==
    ASSUME TypeInv, NEW st \in {0, 1}
    PROVE  /\ Answer(Current, st) \in Seq(Packets)
           /\ q \o Answer(Current, st) \in Seq(Packets)
  <1>1. Answer(Current, st) \in Seq(Packets)
    BY CurrentCommand, AnswerShape DEF TypeInv, TypeOK
  <1>. QED
    BY <1>1, ConcatProperties DEF TypeInv

LEMMA InitTypes == Init => TypeInv
  <1>. SUFFICES ASSUME Init PROVE TypeInv
    OBVIOUS
  <1>1. q \in Seq(Packets)
    <2>1. /\ Answer(Poll, 0) \in Seq(Packets) /\ Answer(Poll, 1) \in Seq(Packets)
          /\ Answer(Setup, 0) \in Seq(Packets) /\ Answer(Word, 0) \in Seq(Packets)
          /\ Answer(Read(172), 1) \in Seq(Packets)
      <3>1. {Poll, Setup, Word, Read(172)} \subseteq WipeCommands
        BY DEF WipeCommands
      <3>. QED
        BY <3>1, AnswerShape
    <2>2. <<>> \in Seq(Packets)
      OBVIOUS
    <2>. QED
      BY <2>1, <2>2 DEF Init, LeftBehind
  <1>2. i \in 1..Len(Script) /\ polls \in 0..(ReadinessAttempts - 1)
        /\ faults \in 0..MaxFaults
    BY ScriptCommands, WipeAssumption DEF Init
  <1>. QED
    BY <1>1, <1>2, PacketLengths DEF Init, TypeInv, TypeOK, Windows, Banks

\* A step of a running wipe in which the command took effect.
LEMMA ExecutedTypes ==
    ASSUME TypeInv, NEW kept \in SUBSET Units, Executes(kept),
           q' \in Seq(Packets), faults' \in 0..MaxFaults,
           pc' \in {"idle", "running"}, i' \in 1..Len(Script),
           polls' \in 0..(ReadinessAttempts - 1),
           result' \in {"none", "completed", "failed", "killed"}
    PROVE  TypeInv'
  <1>1. /\ setup' \in BOOLEAN /\ warm' \in 0..MaxWarm
        /\ win' \in Windows /\ bank' \in Banks
        /\ flash' \in [Units -> {"old", "erased"}]
        /\ saves' \in [Banks -> {"user", "zero", "marked"}]
        /\ shook' \subseteq {"reset", "poll", "setup"}
        /\ weak' \subseteq Units
    BY ExecutesTypes
  <1>2. \A k \in 1..Len(q') : q'[k].len \in 1..FullPacket
    BY PacketLengths
  <1>. QED
    BY <1>1, <1>2 DEF TypeInv, TypeOK

\* One in which it did not.
LEMMA UnexecutedTypes ==
    ASSUME TypeInv, UNCHANGED card,
           q' \in Seq(Packets), faults' \in 0..MaxFaults,
           pc' \in {"idle", "running"}, i' \in 1..Len(Script),
           polls' \in 0..(ReadinessAttempts - 1),
           result' \in {"none", "completed", "failed", "killed"}
    PROVE  TypeInv'
  <1>1. \A k \in 1..Len(q') : q'[k].len \in 1..FullPacket
    BY PacketLengths
  <1>. QED
    BY <1>1 DEF TypeInv, TypeOK, card

LEMMA NextTypes ==
    ASSUME TypeInv, [Next]_vars
    PROVE  TypeInv'
  <1>1. /\ q \in Seq(Packets) /\ <<>> \in Seq(Packets)
        /\ Len(Script) \in Nat \ {0} /\ faults \in 0..MaxFaults
    BY ScriptCommands DEF TypeInv, TypeOK
  <1>2. CASE Start
    <2>1. Units \in SUBSET Units /\ FullCard /\ pc' = "running" /\ i' = 1 /\ polls' = 0
          /\ result' = "none" /\ UNCHANGED <<q, setup, warm, win, bank, faults>>
      BY <1>2 DEF Start
    <2>. QED
      BY <1>1, <2>1, WipeAssumption DEF FullCard, TypeInv, TypeOK
  <1>3. CASE Replug
    <2>1. /\ q' = <<>> /\ setup' = FALSE /\ win' = 0 /\ bank' = 0 /\ warm' \in 0..MaxWarm
          /\ UNCHANGED <<pc, i, polls, result, flash, saves, shook, weak, faults>>
      BY <1>3 DEF Replug, host
    <2>2. \A k \in 1..Len(q') : q'[k].len \in 1..FullPacket
      BY <1>1, <2>1, PacketLengths
    <2>. QED
      BY <1>1, <2>1, <2>2 DEF TypeInv, TypeOK, Windows, Banks
  <1>4. CASE Answered
    <2>1. PICK st \in Statuses : Receives(q \o Answer(Current, st), <<>>)
      BY <1>4 DEF Answered
    <2>2. /\ pc = "running" /\ Executes({}) /\ faults' = faults
          /\ q \o Answer(Current, st) \in Seq(Packets)
      BY <1>4, StatusValues, AnswerPackets DEF Answered
    <2>. QED
      BY <1>1, <2>1, <2>2, ReceivesTypes, ExecutedTypes
  <1>5. CASE AnsweredLate
    <2>1. PICK st \in Statuses : Receives(q, Answer(Current, st))
      BY <1>5 DEF AnsweredLate
    <2>2. /\ pc = "running" /\ Executes({}) /\ faults' \in 0..MaxFaults
          /\ Answer(Current, st) \in Seq(Packets)
      BY <1>5, StatusValues, AnswerPackets, FaultTypes DEF AnsweredLate
    <2>. QED
      BY <1>1, <2>1, <2>2, ReceivesTypes, ExecutedTypes
  <1>6. CASE Unanswered
    <2>1. /\ pc = "running" /\ Executes({}) /\ faults' \in 0..MaxFaults
          /\ Receives(q, <<>>)
      BY <1>6, FaultTypes DEF Unanswered
    <2>. QED
      BY <1>1, <2>1, ReceivesTypes, ExecutedTypes
  <1>7. CASE CommandLost
    <2>1. /\ pc = "running" /\ UNCHANGED card /\ faults' \in 0..MaxFaults
          /\ Receives(q, <<>>)
      BY <1>7, FaultTypes DEF CommandLost
    <2>. QED
      BY <1>1, <2>1, ReceivesTypes, UnexecutedTypes
  <1>8. CASE SendFails
    <2>1. /\ UNCHANGED <<q, card>> /\ faults' \in 0..MaxFaults
          /\ pc' = "idle" /\ i' = 1 /\ polls' = 0 /\ result' = "failed"
      BY <1>8, FaultTypes DEF SendFails, Ended
    <2>. QED
      BY <1>1, <2>1, UnexecutedTypes, WipeAssumption
  <1>9. CASE Killed
    <2>1. PICK st \in Statuses : q' = q \o Answer(Current, st)
      BY <1>9 DEF Killed
    <2>2. /\ Executes({}) /\ faults' \in 0..MaxFaults
          /\ q' \in Seq(Packets)
          /\ pc' = "idle" /\ i' = 1 /\ polls' = 0 /\ result' = "killed"
      BY <1>9, <2>1, StatusValues, AnswerPackets, FaultTypes DEF Killed, Ended
    <2>. QED
      BY <1>1, <2>2, ExecutedTypes, WipeAssumption
  <1>10. CASE EraseRefused
    <2>1. /\ pc = "running" /\ UNCHANGED card /\ faults' \in 0..MaxFaults
          /\ Receives(q \o Answer(Current, 1), <<>>)
          /\ q \o Answer(Current, 1) \in Seq(Packets)
      BY <1>10, AnswerPackets, FaultTypes DEF EraseRefused
    <2>. QED
      BY <1>1, <2>1, ReceivesTypes, UnexecutedTypes
  <1>11. CASE EraseIneffective
    <2>1. PICK u \in Cleared : Executes({u})
      BY <1>11 DEF EraseIneffective
    <2>2. /\ pc = "running" /\ faults' \in 0..MaxFaults
          /\ Receives(q \o Answer(Current, 0), <<>>)
          /\ q \o Answer(Current, 0) \in Seq(Packets)
          /\ {u} \in SUBSET Units
      BY <1>11, AnswerPackets, FaultTypes DEF EraseIneffective, Cleared, SectorUnits
    <2>. QED
      BY <1>1, <2>1, <2>2, ReceivesTypes, ExecutedTypes
  <1>12. CASE UNCHANGED vars
    BY <1>12 DEF vars, host, card, TypeInv, TypeOK
  <1>. QED
    BY <1>2, <1>3, <1>4, <1>5, <1>6, <1>7, <1>8, <1>9, <1>10, <1>11, <1>12
    DEF Next, Run

LEMMA TypeInvariance == Spec => []TypeInv
  BY InitTypes, NextTypes, PTL DEF Spec

\* Type correctness, for every geometry and any number of faults.
THEOREM WipeTypeCorrect == Spec => []TypeOK
  <1>1. TypeInv => TypeOK
    BY DEF TypeInv
  <1>. QED
    BY TypeInvariance, <1>1, PTL

-----------------------------------------------------------------------------
(* In step. *)

\* A run that has read all answers so far goes on only when it has read its
\* own: whatever is lost, late, refused or interrupted, it then either ends or
\* leaves nothing on the bridge (inMax and the comparison after every OUT).
StaysInStep == pc = "running" /\ q = <<>> /\ pc' = "running" => q' = <<>>

LEMMA AnswerIsRead ==
    ASSUME TypeInv, pc = "running", q = <<>>, NEW st \in {0, 1},
           Receives(q \o Answer(Current, st), <<>>)
    PROVE  q' = <<>>
  <1>. DEFINE answer == Answer(Current, st)
  <1>1. Current \in WipeCommands
    BY CurrentCommand DEF TypeInv, TypeOK
  <1>2. answer \in Seq(Packets) /\ Buffer(Current) \in Nat
    BY <1>1, AnswerShape
  <1>3. BulkIn(answer, Buffer(Current)).rest = <<>>
    <2>1. PICK n \in Nat :
              /\ n > 0 /\ Len(answer) = n /\ answer[n].len < FullPacket
              /\ \A j \in 1..n - 1 : j * FullPacket < Buffer(Current)
                                     /\ answer[j].len = FullPacket
      BY <1>1, AnswerShape
    <2>. HIDE DEF answer
    <2>. QED
      BY <1>2, <2>1, BulkInWhole
  <1>4. q \o answer = answer
    BY <1>2, ConcatEmptySeq
  <1>5. q' = BulkIn(answer, Buffer(Current)).rest \o <<>>
    BY <1>4 DEF Receives
  <1>6. <<>> \o <<>> = <<>>
    OBVIOUS
  <1>. QED
    BY <1>3, <1>5, <1>6

\* With nothing on the bridge an IN times out, and the run ends.
LEMMA SilenceEnds ==
    ASSUME q = <<>>, NEW late, Receives(q, late)
    PROVE  pc' = "idle" /\ result' = "failed"
  <1>1. Len(q) = 0
    OBVIOUS
  <1>2. Ends(q, Buffer(Current)) = {}
    BY <1>1 DEF Ends
  <1>3. BulkIn(q, Buffer(Current)).good = FALSE
    BY <1>2 DEF BulkIn
  <1>4. Ended("failed")
    BY <1>3 DEF Receives
  <1>. QED
    BY <1>4 DEF Ended

\* Once in step, a wipe stays in step: for every script length, buffer and
\* number of faults.
THEOREM InStepIsKept == Spec => [][StaysInStep]_vars
  <1>1. TypeInv /\ [Next]_vars => [StaysInStep]_vars
    <2>. SUFFICES ASSUME TypeInv, Next, pc = "running", q = <<>>, pc' = "running"
                  PROVE  q' = <<>>
      BY DEF StaysInStep
    <2>1. ~Start /\ ~Replug /\ ~SendFails /\ ~Killed
      BY DEF Start, Replug, SendFails, Killed, Ended
    <2>2. ~AnsweredLate /\ ~Unanswered /\ ~CommandLost
      BY SilenceEnds DEF AnsweredLate, Unanswered, CommandLost
    <2>3. CASE Answered
      <3>1. PICK st \in Statuses : Receives(q \o Answer(Current, st), <<>>)
        BY <2>3 DEF Answered
      <3>. QED
        BY <3>1, StatusValues, AnswerIsRead
    <2>4. CASE EraseRefused
      BY <2>4, AnswerIsRead DEF EraseRefused
    <2>5. CASE EraseIneffective
      BY <2>5, AnswerIsRead DEF EraseIneffective
    <2>. QED
      BY <2>1, <2>2, <2>3, <2>4, <2>5 DEF Next, Run
  <1>. QED
    BY <1>1, TypeInvariance, PTL DEF Spec

\* A run in step passes a destructive command only when the card carried it
\* out: all units of the sector are erased, but for those that kept their
\* charge at status 00, or the selected save bank is zero (a status other than
\* 00 is another answer than the expected one).
PassedIsDone ==
    pc = "running" /\ q = <<>> /\ i' = i + 1 =>
        /\ Current.op = "erase" => \A u \in Cleared : flash'[u] = "erased" \/ u \in weak'
        /\ Current.op = "payload" => saves'[bank] = "zero"

\* The IN that meets one short packet returns it.
LEMMA BulkInOne ==
    ASSUME NEW p \in Packets, p.len < FullPacket, NEW max \in Nat
    PROVE  BulkIn(<<p>>, max).got = <<p>>
  <1>1. Ends(<<p>>, max) = {1}
    BY DEF Ends
  <1>2. BulkIn(<<p>>, max).got = SubSeq(<<p>>, 1, 1)
    <2>1. (CHOOSE j \in {1} : \A k \in {1} : j =< k) = 1
      OBVIOUS
    <2>. QED
      BY <1>1, <2>1 DEF BulkIn
  <1>3. SubSeq(<<p>>, 1, 1) = <<p>>
    <2>. DEFINE s == <<p>>
                t == SubSeq(s, 1, 1)
    <2>1. s \in Seq(Packets) /\ Len(s) = 1 /\ s[1] = p
      OBVIOUS
    <2>2. \A k \in 1..1 : s[k] \in Packets
      BY <2>1
    <2>. HIDE DEF s
    <2>3. t \in Seq(Packets) /\ Len(t) = 1 /\ \A k \in 1..1 - 1 + 1 : t[k] = s[1 + k - 1]
      BY <2>2, SubSeqProperties
    <2>. HIDE DEF t
    <2>4. t = s
      BY <2>1, <2>3, SeqEqual
    <2>. QED
      BY <2>4 DEF s, t
  <1>. QED
    BY <1>2, <1>3

\* A refused erase does not let the run go on.
LEMMA RefusalEnds ==
    ASSUME TypeInv, q = <<>>, Current.op = "erase",
           Receives(q \o Answer(Current, 1), <<>>)
    PROVE  i' = 1 /\ pc' = "idle" /\ result' = "failed"
  <1>. DEFINE p == Packet(13, "erase", Current.val, 1)
  <1>1. Current \in WipeCommands
    BY CurrentCommand DEF TypeInv, TypeOK
  <1>2. /\ Answer(Current, 1) = <<p>>
        /\ Expected(Current) = <<Packet(13, "erase", Current.val, 0)>>
        /\ Buffer(Current) = 64
    BY DEF Answer, Expected, Buffer
  <1>3. p \in Packets /\ p.len < FullPacket /\ p.st = 1
    <2>1. Current.val \in Int
      BY <1>1 DEF WipeCommands, Reset, Poll, Setup, Word, WordTo, Byte, Payload, Erase,
         Read, Cmd, Windows, Banks
    <2>. QED
      BY <2>1 DEF Packet, Packets, FullPacket
  <1>4. <<p>> # Expected(Current)
    <2>1. Packet(13, "erase", Current.val, 0).st = 0
      BY DEF Packet
    <2>. HIDE DEF p
    <2>. QED
      BY <1>2, <1>3, <2>1
  <1>. HIDE DEF p
  <1>5. q \o Answer(Current, 1) = <<p>>
    BY <1>2
  <1>6. BulkIn(<<p>>, Buffer(Current)).got = <<p>>
    BY <1>2, <1>3, BulkInOne
  <1>7. Ended("failed")
    BY <1>4, <1>5, <1>6 DEF Receives, Accepts
  <1>. QED
    BY <1>7 DEF Ended

LEMMA PassedStep ==
    ASSUME TypeInv, Next
    PROVE  PassedIsDone
  <1>. SUFFICES ASSUME pc = "running", q = <<>>, i' = i + 1,
                       Current.op \in {"erase", "payload"}
                PROVE  /\ Current.op = "erase" =>
                              \A u \in Cleared : flash'[u] = "erased" \/ u \in weak'
                       /\ Current.op = "payload" => saves'[bank] = "zero"
    BY DEF PassedIsDone
  <1>1. i' # 1 /\ bank \in Banks /\ saves \in [Banks -> {"user", "zero", "marked"}]
    BY ScriptCommands DEF TypeInv, TypeOK
  <1>2. ~Start /\ ~Replug /\ ~SendFails /\ ~Killed
    BY <1>1 DEF Start, Replug, SendFails, Killed, Ended
  <1>3. \A late : ~Receives(q, late)
    <2>. SUFFICES ASSUME NEW late, Receives(q, late) PROVE FALSE
      OBVIOUS
    <2>1. pc' = "idle"
      BY SilenceEnds
    <2>. QED
      BY <1>1, <2>1 DEF Receives, Ended, PollAgain
  <1>4. ~AnsweredLate /\ ~Unanswered /\ ~CommandLost
    BY <1>3 DEF AnsweredLate, Unanswered, CommandLost
  <1>5. CASE Answered
    <2>1. PICK st \in Statuses : Receives(q \o Answer(Current, st), <<>>)
      BY <1>5 DEF Answered
    <2>2. Executes({})
      BY <1>5 DEF Answered
    <2>3. Current.op = "erase" => setup
      <3>. SUFFICES ASSUME Current.op = "erase", ~setup PROVE FALSE
        OBVIOUS
      <3>1. st = 1
        BY DEF Statuses
      <3>. QED
        BY <1>1, <2>1, <3>1, RefusalEnds
    <2>4. Current.op = "erase" => \A u \in Cleared : flash'[u] = "erased"
      BY <2>2, <2>3 DEF Executes, Cleared, SectorUnits
    <2>5. Current.op = "payload" => saves'[bank] = "zero"
      BY <1>1, <2>2 DEF Executes
    <2>. QED
      BY <2>4, <2>5
  <1>6. CASE EraseRefused
    BY <1>1, <1>6, RefusalEnds DEF EraseRefused
  <1>7. CASE EraseIneffective
    <2>1. PICK u \in Cleared : Executes({u})
      BY <1>7 DEF EraseIneffective
    <2>2. Current.op = "erase" /\ setup
      BY <1>7 DEF EraseIneffective
    <2>. QED
      BY <2>1, <2>2 DEF Executes, Cleared, SectorUnits
  <1>. QED
    BY <1>2, <1>4, <1>5, <1>6, <1>7 DEF Next, Run

\* What a wipe in step has passed was done, for every geometry and number of
\* faults.
THEOREM InStepIsDone == Spec => [][PassedIsDone]_vars
  <1>1. TypeInv /\ [Next]_vars => [PassedIsDone]_vars
    BY PassedStep
  <1>. QED
    BY <1>1, TypeInvariance, PTL DEF Spec

-----------------------------------------------------------------------------
(* Where each command of the script is. *)

SectorCount == BootSectors + WholeBlocks

\* One window: the selection, its sectors and the way back.
EraseLen == 15 + SectorCount

\* The commands before the first of window w, and before the first of bank b.
EraseBase(w) == 3 + w * EraseLen
ClearBase(b) == 3 + 4 * EraseLen + 9 * b

\* Two lists one after the other, element by element.
LEMMA ConcatAt ==
    ASSUME NEW s \in Seq(WipeCommands), NEW t \in Seq(WipeCommands)
    PROVE  /\ s \o t \in Seq(WipeCommands)
           /\ Len(s \o t) = Len(s) + Len(t)
           /\ \A k \in 1..Len(s) : (s \o t)[k] = s[k]
           /\ \A k \in 1..Len(t) : (s \o t)[Len(s) + k] = t[k]
  <1>1. /\ s \o t \in Seq(WipeCommands)
        /\ Len(s \o t) = Len(s) + Len(t)
        /\ \A k \in 1..Len(s) + Len(t) :
              (s \o t)[k] = IF k =< Len(s) THEN s[k] ELSE t[k - Len(s)]
    BY ConcatProperties
  <1>2. Len(s) \in Nat /\ Len(t) \in Nat
    BY LenProperties
  <1>3. ASSUME NEW k \in 1..Len(s) PROVE (s \o t)[k] = s[k]
    BY <1>1, <1>2
  <1>4. ASSUME NEW k \in 1..Len(t) PROVE (s \o t)[Len(s) + k] = t[k]
    <2>1. Len(s) + k \in 1..Len(s) + Len(t) /\ ~(Len(s) + k =< Len(s))
          /\ (Len(s) + k) - Len(s) = k
      BY <1>2
    <2>. QED
      BY <1>1, <2>1
  <1>. QED
    BY <1>1, <1>3, <1>4

LEMMA SectorCounts ==
    /\ BootSectors \in Nat /\ WholeBlocks \in Nat
    /\ SectorCount \in Nat /\ EraseLen \in Nat
  <1>1. /\ BootSectors \in Int /\ WholeBlocks \in Int
        /\ BootSectors >= 0 /\ WholeBlocks >= 0
    BY GeometryAssumption, Z3 DEF BootSectors, WholeBlocks
  <1>. QED
    BY <1>1 DEF SectorCount, EraseLen

LEMMA SectorAddressList ==
    ASSUME NEW w \in Windows
    PROVE  /\ DOMAIN SectorAddresses(w) = 1..SectorCount
           /\ \A k \in 1..SectorCount : SectorAddresses(w)[k] \in Int
  <1>1. WholeBlocks + BootSectors = SectorCount
    BY SectorCounts DEF SectorCount
  <1>2. /\ DOMAIN BottomBootSectorAddresses = 1..SectorCount
        /\ \A k \in 1..SectorCount : BottomBootSectorAddresses[k] \in Int
    BY SectorCounts, GeometryAssumption DEF BottomBootSectorAddresses, SectorCount
  <1>3. /\ DOMAIN TopBootSectorAddresses = 1..SectorCount
        /\ \A k \in 1..SectorCount : TopBootSectorAddresses[k] \in Int
    <2>1. WholeBlocks \in Int /\ BlockLen \in Int /\ SectorLen \in Int
      BY SectorCounts, GeometryAssumption
    <2>2. \A k \in 1..SectorCount :
              /\ (k - 1) * BlockLen \in Int
              /\ WholeBlocks * BlockLen + (k - WholeBlocks - 1) * SectorLen \in Int
      BY <2>1
    <2>. QED
      BY <1>1, <2>2 DEF TopBootSectorAddresses
  <1>. QED
    BY <1>2, <1>3 DEF SectorAddresses

\* The selection of a window, its erases in order, and the way back.
LEMMA EraseBankAt ==
    ASSUME NEW w \in Windows
    PROVE  /\ EraseBank(w) \in Seq(WipeCommands)
           /\ Len(EraseBank(w)) = EraseLen
           /\ \A k \in 1..11 : EraseBank(w)[k] = SelectWindow(w)[k]
           /\ \A k \in 1..SectorCount :
                 EraseBank(w)[11 + k] = Erase(SectorAddresses(w)[k])
           /\ \A k \in 1..4 :
                 EraseBank(w)[11 + SectorCount + k] = FinishOperation[k]
  <1>. DEFINE sel == SelectWindow(w)
              erases == [k \in DOMAIN SectorAddresses(w) |-> Erase(SectorAddresses(w)[k])]
              fin == FinishOperation
  <1>1. sel \in Seq(WipeCommands) /\ Len(sel) = 11
    BY DEF SelectWindow, WipeCommands
  <1>2. fin \in Seq(WipeCommands) /\ Len(fin) = 4
    BY DEF FinishOperation, WipeCommands
  <1>3. /\ erases \in Seq(WipeCommands) /\ Len(erases) = SectorCount
        /\ \A k \in 1..SectorCount : erases[k] = Erase(SectorAddresses(w)[k])
    <2>1. \A k \in 1..SectorCount : Erase(SectorAddresses(w)[k]) \in WipeCommands
      BY SectorAddressList DEF WipeCommands
    <2>2. erases = [k \in 1..SectorCount |-> Erase(SectorAddresses(w)[k])]
      BY SectorAddressList
    <2>3. erases \in Seq(WipeCommands)
      BY <2>1, <2>2, SectorCounts, IsASeq
    <2>. QED
      BY <2>2, <2>3, SectorCounts
  <1>4. EraseBank(w) = (sel \o erases) \o fin
    BY DEF EraseBank
  <1>. HIDE DEF sel, erases, fin
  <1>5. /\ sel \o erases \in Seq(WipeCommands)
        /\ Len(sel \o erases) = 11 + SectorCount
        /\ \A k \in 1..11 : (sel \o erases)[k] = sel[k]
        /\ \A k \in 1..SectorCount : (sel \o erases)[11 + k] = erases[k]
    <2>1. /\ sel \o erases \in Seq(WipeCommands)
          /\ Len(sel \o erases) = Len(sel) + Len(erases)
          /\ \A k \in 1..Len(sel) : (sel \o erases)[k] = sel[k]
          /\ \A k \in 1..Len(erases) : (sel \o erases)[Len(sel) + k] = erases[k]
      BY <1>1, <1>3, ConcatAt, Zenon
    <2>. QED
      BY <1>1, <1>3, <2>1
  <1>6. /\ EraseBank(w) \in Seq(WipeCommands)
        /\ Len(EraseBank(w)) = 11 + SectorCount + 4
        /\ \A k \in 1..11 + SectorCount : EraseBank(w)[k] = (sel \o erases)[k]
        /\ \A k \in 1..4 : EraseBank(w)[11 + SectorCount + k] = fin[k]
    <2>. DEFINE front == sel \o erases
    <2>0. front \in Seq(WipeCommands) /\ Len(front) = 11 + SectorCount
      BY <1>5
    <2>. HIDE DEF front
    <2>1. /\ front \o fin \in Seq(WipeCommands)
          /\ Len(front \o fin) = Len(front) + Len(fin)
          /\ \A k \in 1..Len(front) : (front \o fin)[k] = front[k]
          /\ \A k \in 1..Len(fin) : (front \o fin)[Len(front) + k] = fin[k]
      BY <1>2, <2>0, ConcatAt, Zenon
    <2>2. EraseBank(w) = front \o fin
      BY <1>4 DEF front
    <2>. QED
      BY <1>2, <2>0, <2>1, <2>2 DEF front
  <1>7. Len(EraseBank(w)) = EraseLen
    BY <1>6, SectorCounts DEF EraseLen
  <1>8. ASSUME NEW k \in 1..11 PROVE EraseBank(w)[k] = sel[k]
    <2>1. k \in 1..11 + SectorCount
      BY SectorCounts
    <2>2. EraseBank(w)[k] = (sel \o erases)[k]
      BY <1>6, <2>1
    <2>3. (sel \o erases)[k] = sel[k]
      BY <1>5
    <2>. QED
      BY <2>2, <2>3
  <1>9. ASSUME NEW k \in 1..SectorCount
        PROVE  EraseBank(w)[11 + k] = Erase(SectorAddresses(w)[k])
    <2>1. 11 + k \in 1..11 + SectorCount
      BY SectorCounts
    <2>2. EraseBank(w)[11 + k] = (sel \o erases)[11 + k]
      BY <1>6, <2>1
    <2>3. (sel \o erases)[11 + k] = erases[k]
      BY <1>5
    <2>4. erases[k] = Erase(SectorAddresses(w)[k])
      BY <1>3
    <2>. QED
      BY <2>2, <2>3, <2>4
  <1>. QED
    BY <1>6, <1>7, <1>8, <1>9 DEF sel, fin

LEMMA ClearAllAt ==
    /\ ClearAll \in Seq(WipeCommands) /\ Len(ClearAll) = 36
    /\ \A b \in Banks : \A k \in 1..9 : ClearAll[9 * b + k] = ClearBank(b)[k]
  <1>. DEFINE c(b) == ClearBank(b)
              s1 == c(0) \o c(1)
              s2 == s1 \o c(2)
  <1>1. \A b \in Banks : c(b) \in Seq(WipeCommands) /\ Len(c(b)) = 9
    BY DEF ClearBank, WipeCommands
  <1>2. ClearAll = s2 \o c(3)
    BY DEF ClearAll
  <1>. HIDE DEF c
  <1>3. /\ c(0) \in Seq(WipeCommands) /\ Len(c(0)) = 9
        /\ c(1) \in Seq(WipeCommands) /\ Len(c(1)) = 9
        /\ c(2) \in Seq(WipeCommands) /\ Len(c(2)) = 9
        /\ c(3) \in Seq(WipeCommands) /\ Len(c(3)) = 9
    BY <1>1 DEF Banks
  <1>4. /\ s1 \in Seq(WipeCommands)
        /\ Len(s1) = Len(c(0)) + Len(c(1))
        /\ \A k \in 1..Len(c(0)) : s1[k] = c(0)[k]
        /\ \A k \in 1..Len(c(1)) : s1[Len(c(0)) + k] = c(1)[k]
    BY <1>3, ConcatAt, Zenon
  <1>. HIDE DEF s1
  <1>5. /\ s2 \in Seq(WipeCommands)
        /\ Len(s2) = Len(s1) + Len(c(2))
        /\ \A k \in 1..Len(s1) : s2[k] = s1[k]
        /\ \A k \in 1..Len(c(2)) : s2[Len(s1) + k] = c(2)[k]
    BY <1>3, <1>4, ConcatAt, Zenon
  <1>. HIDE DEF s2
  <1>6. /\ ClearAll \in Seq(WipeCommands)
        /\ Len(ClearAll) = Len(s2) + Len(c(3))
        /\ \A k \in 1..Len(s2) : ClearAll[k] = s2[k]
        /\ \A k \in 1..Len(c(3)) : ClearAll[Len(s2) + k] = c(3)[k]
    <2>. DEFINE s3 == s2 \o c(3)
    <2>1. /\ s3 \in Seq(WipeCommands)
          /\ Len(s3) = Len(s2) + Len(c(3))
          /\ \A k \in 1..Len(s2) : s3[k] = s2[k]
          /\ \A k \in 1..Len(c(3)) : s3[Len(s2) + k] = c(3)[k]
      BY <1>3, <1>5, ConcatAt, Zenon
    <2>. HIDE DEF s3
    <2>2. ClearAll = s3
      BY <1>2 DEF s3
    <2>. QED
      BY <2>1, <2>2, Zenon
  <1>7. Len(s1) = 18 /\ Len(s2) = 27 /\ Len(ClearAll) = 36
    <2>1. Len(s1) = 9 + 9
      BY <1>3, <1>4, Zenon
    <2>2. Len(s2) = Len(s1) + 9
      BY <1>3, <1>5, Zenon
    <2>3. Len(ClearAll) = Len(s2) + 9
      BY <1>3, <1>6, Zenon
    <2>. QED
      BY <2>1, <2>2, <2>3
  <1>8. ASSUME NEW k \in 1..9
        PROVE  /\ ClearAll[k] = c(0)[k] /\ ClearAll[9 + k] = c(1)[k]
               /\ ClearAll[18 + k] = c(2)[k] /\ ClearAll[27 + k] = c(3)[k]
    <2>1. s1[k] = c(0)[k] /\ s1[9 + k] = c(1)[k]
      BY <1>3, <1>4
    <2>2. s2[k] = s1[k] /\ s2[9 + k] = s1[9 + k] /\ s2[18 + k] = c(2)[k]
      <3>1. k \in 1..18 /\ 9 + k \in 1..18
        OBVIOUS
      <3>. QED
        BY <1>3, <1>5, <1>7, <3>1
    <2>3. /\ ClearAll[k] = s2[k] /\ ClearAll[9 + k] = s2[9 + k]
          /\ ClearAll[18 + k] = s2[18 + k] /\ ClearAll[27 + k] = c(3)[k]
      <3>1. k \in 1..27 /\ 9 + k \in 1..27 /\ 18 + k \in 1..27
        OBVIOUS
      <3>. QED
        BY <1>3, <1>6, <1>7, <3>1
    <2>. QED
      BY <2>1, <2>2, <2>3
  <1>9. ASSUME NEW b \in Banks, NEW k \in 1..9
        PROVE  ClearAll[9 * b + k] = c(b)[k]
    <2>1. CASE b = 0
      BY <1>8, <2>1
    <2>2. CASE b = 1
      BY <1>8, <2>2
    <2>3. CASE b = 2
      BY <1>8, <2>3
    <2>4. CASE b = 3
      BY <1>8, <2>4
    <2>. QED
      BY <2>1, <2>2, <2>3, <2>4 DEF Banks
  <1>. QED
    BY <1>6, <1>7, <1>9 DEF c

\* List t stands in list s after m commands.
Holds(s, m, t) ==
    /\ m + Len(t) =< Len(s)
    /\ \A k \in 1..Len(t) : s[m + k] = t[k]

LEMMA HoldsStill ==
    ASSUME NEW s \in Seq(WipeCommands), NEW t \in Seq(WipeCommands),
           NEW u \in Seq(WipeCommands), NEW m \in Nat, Holds(s, m, t)
    PROVE  Holds(s \o u, m, t)
  <1>1. Len(s) \in Nat /\ Len(t) \in Nat /\ Len(u) \in Nat
    BY LenProperties
  <1>2. /\ Len(s \o u) = Len(s) + Len(u)
        /\ \A k \in 1..Len(s) : (s \o u)[k] = s[k]
    BY ConcatAt, Zenon
  <1>3. m + Len(t) =< Len(s \o u)
    BY <1>1, <1>2 DEF Holds
  <1>4. ASSUME NEW k \in 1..Len(t) PROVE (s \o u)[m + k] = t[k]
    <2>1. m + k \in 1..Len(s)
      BY <1>1 DEF Holds
    <2>. QED
      BY <1>2, <2>1 DEF Holds
  <1>. QED
    BY <1>3, <1>4 DEF Holds

LEMMA HoldsLast ==
    ASSUME NEW s \in Seq(WipeCommands), NEW u \in Seq(WipeCommands)
    PROVE  Holds(s \o u, Len(s), u)
  <1>1. Len(s) \in Nat /\ Len(u) \in Nat
    BY LenProperties
  <1>2. /\ Len(s \o u) = Len(s) + Len(u)
        /\ \A k \in 1..Len(u) : (s \o u)[Len(s) + k] = u[k]
    BY ConcatAt, Zenon
  <1>. QED
    BY <1>1, <1>2 DEF Holds

\* One more list at the end: where it stands, and that the others stay.
LEMMA HoldsMore ==
    ASSUME NEW s \in Seq(WipeCommands), NEW u \in Seq(WipeCommands)
    PROVE  /\ s \o u \in Seq(WipeCommands)
           /\ Len(s \o u) = Len(s) + Len(u)
           /\ Holds(s \o u, Len(s), u)
           /\ \A t \in Seq(WipeCommands) : \A m \in Nat :
                 Holds(s, m, t) => Holds(s \o u, m, t)
  BY ConcatAt, HoldsLast, HoldsStill, Zenon

LEMMA ScriptAt ==
    /\ Len(Script) = ClearBase(4) + 6
    /\ Holds(Script, 0, Preflight)
    /\ \A w \in Windows : Holds(Script, EraseBase(w), EraseBank(w))
    /\ Holds(Script, ClearBase(0), ClearAll)
    /\ Holds(Script, ClearBase(4), FinalCleanup)
    /\ Holds(Script, ClearBase(4) + 4, VerifyBlank)
  <1>. DEFINE S == Seq(WipeCommands)
              p1 == Preflight \o EraseBank(0)
              p2 == p1 \o EraseBank(1)
              p3 == p2 \o EraseBank(2)
              p4 == p3 \o EraseBank(3)
              p5 == p4 \o ClearAll
              p6 == p5 \o FinalCleanup
              p7 == p6 \o VerifyBlank
              Stay(s, t) == \A m \in Nat : \A u \in S : Holds(s, m, u) => Holds(t, m, u)
  <1>1. Script = p7
    BY DEF Script
  <1>2. Preflight \in S /\ Len(Preflight) = 3
    BY DEF Preflight, WipeCommands
  <1>3. FinalCleanup \in S /\ Len(FinalCleanup) = 4 /\ VerifyBlank \in S /\ Len(VerifyBlank) = 2
    BY DEF FinalCleanup, VerifyBlank, WipeCommands
  <1>4. ClearAll \in S /\ Len(ClearAll) = 36
    BY ClearAllAt
  <1>5. /\ EraseBank(0) \in S /\ Len(EraseBank(0)) = EraseLen
        /\ EraseBank(1) \in S /\ Len(EraseBank(1)) = EraseLen
        /\ EraseBank(2) \in S /\ Len(EraseBank(2)) = EraseLen
        /\ EraseBank(3) \in S /\ Len(EraseBank(3)) = EraseLen
    BY EraseBankAt DEF Windows
  <1>6. Holds(Preflight, 0, Preflight)
    BY <1>2 DEF Holds
  <1>. HIDE DEF S
  <1>7. /\ p1 \in S /\ Len(p1) = Len(Preflight) + Len(EraseBank(0))
        /\ Holds(p1, Len(Preflight), EraseBank(0)) /\ Stay(Preflight, p1)
    BY <1>2, <1>5, HoldsMore, Zenon DEF S
  <1>. HIDE DEF p1
  <1>8. /\ p2 \in S /\ Len(p2) = Len(p1) + Len(EraseBank(1))
        /\ Holds(p2, Len(p1), EraseBank(1)) /\ Stay(p1, p2)
    BY <1>5, <1>7, HoldsMore, Zenon DEF S
  <1>. HIDE DEF p2
  <1>9. /\ p3 \in S /\ Len(p3) = Len(p2) + Len(EraseBank(2))
        /\ Holds(p3, Len(p2), EraseBank(2)) /\ Stay(p2, p3)
    BY <1>5, <1>8, HoldsMore, Zenon DEF S
  <1>. HIDE DEF p3
  <1>10. /\ p4 \in S /\ Len(p4) = Len(p3) + Len(EraseBank(3))
        /\ Holds(p4, Len(p3), EraseBank(3)) /\ Stay(p3, p4)
    BY <1>5, <1>9, HoldsMore, Zenon DEF S
  <1>. HIDE DEF p4
  <1>11. /\ p5 \in S /\ Len(p5) = Len(p4) + Len(ClearAll)
        /\ Holds(p5, Len(p4), ClearAll) /\ Stay(p4, p5)
    BY <1>4, <1>10, HoldsMore, Zenon DEF S
  <1>. HIDE DEF p5
  <1>12. /\ p6 \in S /\ Len(p6) = Len(p5) + Len(FinalCleanup)
        /\ Holds(p6, Len(p5), FinalCleanup) /\ Stay(p5, p6)
    BY <1>3, <1>11, HoldsMore, Zenon DEF S
  <1>. HIDE DEF p6
  <1>13. /\ p7 \in S /\ Len(p7) = Len(p6) + Len(VerifyBlank)
        /\ Holds(p7, Len(p6), VerifyBlank) /\ Stay(p6, p7)
    BY <1>3, <1>12, HoldsMore, Zenon DEF S
  <1>. HIDE DEF p7
  <1>14. /\ Len(Preflight) = EraseBase(0) /\ Len(p1) = EraseBase(1)
         /\ Len(p2) = EraseBase(2) /\ Len(p3) = EraseBase(3)
         /\ Len(p4) = ClearBase(0) /\ Len(p5) = ClearBase(4)
         /\ Len(p6) = ClearBase(4) + 4 /\ Len(p7) = ClearBase(4) + 6
    <2>1. /\ Len(p1) = 3 + EraseLen /\ Len(p2) = Len(p1) + EraseLen
          /\ Len(p3) = Len(p2) + EraseLen /\ Len(p4) = Len(p3) + EraseLen
          /\ Len(p5) = Len(p4) + 36 /\ Len(p6) = Len(p5) + 4 /\ Len(p7) = Len(p6) + 2
      BY <1>2, <1>3, <1>4, <1>5, <1>7, <1>8, <1>9, <1>10, <1>11, <1>12, <1>13, Zenon
    <2>2. EraseLen \in Nat
      BY SectorCounts
    <2>3. /\ EraseBase(0) = 3 /\ EraseBase(1) = 3 + EraseLen
          /\ EraseBase(2) = 3 + EraseLen + EraseLen
          /\ EraseBase(3) = 3 + EraseLen + EraseLen + EraseLen
          /\ ClearBase(0) = 3 + EraseLen + EraseLen + EraseLen + EraseLen
          /\ ClearBase(4) = ClearBase(0) + 36
      BY <2>2 DEF EraseBase, ClearBase
    <2>. QED
      BY <1>2, <2>1, <2>2, <2>3
  <1>15. /\ EraseBase(0) \in Nat /\ EraseBase(1) \in Nat /\ EraseBase(2) \in Nat
         /\ EraseBase(3) \in Nat /\ ClearBase(0) \in Nat /\ ClearBase(4) \in Nat
         /\ ClearBase(4) + 4 \in Nat /\ 0 \in Nat
    BY SectorCounts DEF EraseBase, ClearBase
  <1>16. Holds(p7, 0, Preflight)
    BY <1>2, <1>6, <1>7, <1>8, <1>9, <1>10, <1>11, <1>12, <1>13, <1>15, Zenon
  <1>17. Holds(p7, EraseBase(0), EraseBank(0))
    BY <1>5, <1>7, <1>8, <1>9, <1>10, <1>11, <1>12, <1>13, <1>14, <1>15, Zenon
  <1>18. Holds(p7, EraseBase(1), EraseBank(1))
    BY <1>5, <1>8, <1>9, <1>10, <1>11, <1>12, <1>13, <1>14, <1>15, Zenon
  <1>19. Holds(p7, EraseBase(2), EraseBank(2))
    BY <1>5, <1>9, <1>10, <1>11, <1>12, <1>13, <1>14, <1>15, Zenon
  <1>20. Holds(p7, EraseBase(3), EraseBank(3))
    BY <1>5, <1>10, <1>11, <1>12, <1>13, <1>14, <1>15, Zenon
  <1>21. Holds(p7, ClearBase(0), ClearAll)
    BY <1>4, <1>11, <1>12, <1>13, <1>14, <1>15, Zenon
  <1>22. Holds(p7, ClearBase(4), FinalCleanup)
    BY <1>3, <1>12, <1>13, <1>14, <1>15, Zenon
  <1>23. Holds(p7, ClearBase(4) + 4, VerifyBlank)
    BY <1>3, <1>13, <1>14, Zenon
  <1>24. \A w \in Windows : Holds(p7, EraseBase(w), EraseBank(w))
    BY <1>17, <1>18, <1>19, <1>20 DEF Windows
  <1>. QED
    BY <1>1, <1>14, <1>16, <1>21, <1>22, <1>23, <1>24, Zenon

LEMMA Bases ==
    /\ EraseBase(0) = 3
    /\ \A w \in Windows : EraseBase(w) \in Nat /\ EraseBase(w) >= 3
                          /\ EraseBase(w) + EraseLen =< ClearBase(0)
    /\ \A w \in Windows \ {0} : EraseBase(w) >= 3 + EraseLen
    /\ ClearBase(0) \in Nat /\ ClearBase(4) = ClearBase(0) + 36
    /\ \A b \in Banks : ClearBase(b) = ClearBase(0) + 9 * b
  <1>. DEFINE e == EraseLen
  <1>1. e \in Nat
    BY SectorCounts
  <1>. HIDE DEF e
  <1>2. /\ EraseBase(0) = 3 /\ EraseBase(1) = 3 + e
        /\ EraseBase(2) = 3 + e + e /\ EraseBase(3) = 3 + e + e + e
        /\ ClearBase(0) = 3 + e + e + e + e
        /\ \A b \in Banks : ClearBase(b) = ClearBase(0) + 9 * b
        /\ ClearBase(4) = ClearBase(0) + 36
    <2>1. EraseBase(0) = 3 + 0 * e /\ EraseBase(1) = 3 + 1 * e
          /\ EraseBase(2) = 3 + 2 * e /\ EraseBase(3) = 3 + 3 * e
          /\ \A b : ClearBase(b) = 3 + 4 * e + 9 * b
      BY DEF EraseBase, ClearBase, e
    <2>. QED
      BY <1>1, <2>1 DEF Banks
  <1>3. ASSUME NEW w \in Windows
        PROVE  /\ EraseBase(w) \in Nat /\ EraseBase(w) >= 3
               /\ EraseBase(w) + e =< ClearBase(0)
               /\ w # 0 => EraseBase(w) >= 3 + e
    <2>1. w = 0 \/ w = 1 \/ w = 2 \/ w = 3
      BY DEF Windows
    <2>. QED
      BY <1>1, <1>2, <2>1
  <1>. QED
    BY <1>1, <1>2, <1>3 DEF e

\* The commands of one window and of one bank.
LEMMA WindowCommands ==
    ASSUME NEW w \in Windows
    PROVE  /\ \A k \in 1..11 : Script[EraseBase(w) + k] = SelectWindow(w)[k]
           /\ \A k \in 1..SectorCount :
                 Script[EraseBase(w) + 11 + k] = Erase(SectorAddresses(w)[k])
  <1>1. \A k \in 1..EraseLen : Script[EraseBase(w) + k] = EraseBank(w)[k]
    BY ScriptAt, EraseBankAt DEF Holds
  <1>2. SectorCount \in Nat /\ EraseLen = 15 + SectorCount /\ EraseBase(w) \in Nat
    BY SectorCounts, Bases DEF EraseLen
  <1>3. ASSUME NEW k \in 1..11 PROVE Script[EraseBase(w) + k] = SelectWindow(w)[k]
    <2>1. k \in 1..EraseLen
      BY <1>2
    <2>. QED
      BY <1>1, <2>1, EraseBankAt
  <1>4. ASSUME NEW k \in 1..SectorCount
        PROVE  Script[EraseBase(w) + 11 + k] = Erase(SectorAddresses(w)[k])
    <2>1. 11 + k \in 1..EraseLen /\ EraseBase(w) + (11 + k) = EraseBase(w) + 11 + k
      BY <1>2
    <2>. QED
      BY <1>1, <2>1, EraseBankAt
  <1>. QED
    BY <1>3, <1>4

LEMMA BankCommands ==
    ASSUME NEW b \in Banks
    PROVE  \A k \in 1..9 : Script[ClearBase(b) + k] = ClearBank(b)[k]
  <1>. TAKE k \in 1..9
  <1>1. 9 * b + k \in 1..36
    BY DEF Banks
  <1>2. Script[ClearBase(0) + (9 * b + k)] = ClearAll[9 * b + k]
    BY <1>1, ScriptAt, ClearAllAt DEF Holds
  <1>3. ClearBase(0) + (9 * b + k) = ClearBase(b) + k
    BY Bases DEF Banks
  <1>. QED
    BY <1>2, <1>3, ClearAllAt

\* Where a wipe begins: nothing before the fifteenth command erases or writes
\* save data, and its answers are single packets.
LEMMA Opening ==
    /\ Script[1] = Reset /\ Script[2] = Poll /\ Script[3] = Setup
    /\ Script[6] = WordTo("window", 0)
    /\ Script[12] = Byte(0) /\ Script[13] = Byte(0) /\ Script[14] = Byte(1)
    /\ \A k \in {4, 5} \cup 7..11 : Script[k] = Word
  <1>1. \A k \in 1..3 : Script[k] = Preflight[k]
    <2>1. Len(Preflight) = 3
      BY DEF Preflight
    <2>2. \A k \in 1..3 : Script[0 + k] = Preflight[k]
      BY <2>1, ScriptAt DEF Holds
    <2>. QED
      BY <2>2
  <1>2. \A k \in 1..11 : Script[3 + k] = SelectWindow(0)[k]
    BY WindowCommands, Bases DEF Windows
  <1>3. Script[1] = Reset /\ Script[2] = Poll /\ Script[3] = Setup
    BY <1>1 DEF Preflight
  <1>4. /\ Script[3 + 1] = Word /\ Script[3 + 2] = Word
        /\ Script[3 + 3] = WordTo("window", 0) /\ Script[3 + 4] = Word
        /\ Script[3 + 5] = Word /\ Script[3 + 6] = Word /\ Script[3 + 7] = Word
        /\ Script[3 + 8] = Word /\ Script[3 + 9] = Byte(0)
        /\ Script[3 + 10] = Byte(0) /\ Script[3 + 11] = Byte(1)
    BY <1>2 DEF SelectWindow
  <1>5. /\ Script[4] = Word /\ Script[5] = Word /\ Script[6] = WordTo("window", 0)
        /\ Script[7] = Word /\ Script[8] = Word /\ Script[9] = Word
        /\ Script[10] = Word /\ Script[11] = Word /\ Script[12] = Byte(0)
        /\ Script[13] = Byte(0) /\ Script[14] = Byte(1)
    BY <1>4
  <1>6. ASSUME NEW k \in {4, 5} \cup 7..11 PROVE Script[k] = Word
    <2>1. k = 4 \/ k = 5 \/ k = 7 \/ k = 8 \/ k = 9 \/ k = 10 \/ k = 11
      OBVIOUS
    <2>. QED
      BY <1>5, <2>1
  <1>. QED
    BY <1>3, <1>5, <1>6

\* Thirty-six positions are four times nine.
LEMMA FourNines ==
    ASSUME NEW n \in Nat, NEW k \in n + 1..n + 36
    PROVE  \E b \in Banks : \E j \in 1..9 : k = n + 9 * b + j
  <1>1. ASSUME NEW b \in Banks, n + 9 * b < k, k =< n + 9 * b + 9
        PROVE  \E j \in 1..9 : k = n + 9 * b + j
    <2>1. k - (n + 9 * b) \in 1..9 /\ k = n + 9 * b + (k - (n + 9 * b))
      BY <1>1 DEF Banks
    <2>. QED
      BY <2>1
  <1>2. CASE k =< n + 9
    <2>1. 0 \in Banks /\ n + 9 * 0 < k /\ k =< n + 9 * 0 + 9
      BY <1>2 DEF Banks
    <2>. QED
      BY <1>1, <2>1
  <1>3. CASE n + 9 < k /\ k =< n + 18
    <2>1. 1 \in Banks /\ n + 9 * 1 < k /\ k =< n + 9 * 1 + 9
      BY <1>3 DEF Banks
    <2>. QED
      BY <1>1, <2>1
  <1>4. CASE n + 18 < k /\ k =< n + 27
    <2>1. 2 \in Banks /\ n + 9 * 2 < k /\ k =< n + 9 * 2 + 9
      BY <1>4 DEF Banks
    <2>. QED
      BY <1>1, <2>1
  <1>5. CASE n + 27 < k
    <2>1. 3 \in Banks /\ n + 9 * 3 < k /\ k =< n + 9 * 3 + 9
      BY <1>5 DEF Banks
    <2>. QED
      BY <1>1, <2>1
  <1>. QED
    BY <1>2, <1>3, <1>4, <1>5

\* After the last window no command marks a save bank or resets the bridge.
LEMMA TailCommands ==
    ASSUME NEW k \in 1..Len(Script), k > ClearBase(0)
    PROVE  Script[k].op \notin {"byte", "reset"}
  <1>1. k \in ClearBase(0) + 1..ClearBase(0) + 42
    BY ScriptAt, Bases
  <1>2. CASE k =< ClearBase(0) + 36
    <2>1. \E b \in Banks : \E j \in 1..9 : k = ClearBase(b) + j
      <3>1. ClearBase(0) \in Nat /\ \A b \in Banks : ClearBase(b) = ClearBase(0) + 9 * b
        BY Bases
      <3>2. k \in ClearBase(0) + 1..ClearBase(0) + 36
        BY <1>1, <1>2, <3>1
      <3>3. \E b \in Banks : \E j \in 1..9 : k = ClearBase(0) + 9 * b + j
        BY <3>1, <3>2, FourNines
      <3>. QED
        BY <3>1, <3>3
    <2>2. PICK b \in Banks, j \in 1..9 : k = ClearBase(b) + j
      BY <2>1
    <2>3. Script[k] = ClearBank(b)[j]
      BY <2>2, BankCommands
    <2>4. ClearBank(b)[j].op \notin {"byte", "reset"}
      <3>1. ClearBank(b)[j] \in {Word, WordTo("bank", b), Payload}
        BY DEF ClearBank
      <3>. QED
        BY <3>1 DEF Word, WordTo, Payload, Cmd
    <2>. QED
      BY <2>3, <2>4
  <1>3. CASE k > ClearBase(0) + 36
    <2>1. /\ \A j \in 1..4 : Script[ClearBase(4) + j] = FinalCleanup[j]
          /\ \A j \in 1..2 : Script[ClearBase(4) + 4 + j] = VerifyBlank[j]
      <3>1. Len(FinalCleanup) = 4 /\ Len(VerifyBlank) = 2
        BY DEF FinalCleanup, VerifyBlank
      <3>. QED
        BY <3>1, ScriptAt DEF Holds
    <2>2. CASE k =< ClearBase(4) + 4
      <3>1. k - ClearBase(4) \in 1..4 /\ k = ClearBase(4) + (k - ClearBase(4))
        BY <1>1, <1>3, <2>2, Bases
      <3>2. Script[k] = FinalCleanup[k - ClearBase(4)]
        BY <2>1, <3>1
      <3>. QED
        BY <3>1, <3>2 DEF FinalCleanup, Word, Cmd
    <2>3. CASE k > ClearBase(4) + 4
      <3>1. k - (ClearBase(4) + 4) \in 1..2
            /\ k = ClearBase(4) + 4 + (k - (ClearBase(4) + 4))
        BY <1>1, <2>3, Bases
      <3>2. Script[k] = VerifyBlank[k - (ClearBase(4) + 4)]
        BY <2>1, <3>1
      <3>. QED
        BY <3>1, <3>2 DEF VerifyBlank, Read, Cmd
    <2>. QED
      BY <1>1, <2>2, <2>3, Bases
  <1>. QED
    BY <1>1, <1>2, <1>3, Bases

\* The sectors of the four lists cover the card.
LEMMA SectorsCover ==
    ASSUME NEW u \in Units
    PROVE  \E w \in Windows : \E k \in 1..SectorCount :
               u \in SectorUnits(w, SectorAddresses(w)[k])
  <1>. DEFINE w == WindowOf(u)
              l == Local(u)
              wb == WholeBlocks
              bs == BootSectors
              top == wb * BlockLen
  <1>1. w \in Windows /\ l \in 0..(WindowLen - 1) /\ u = w * WindowLen + l
    BY WindowSplit
  <1>2. /\ SectorLen \in Nat \ {0} /\ BlockLen \in Nat \ {0} /\ WindowLen \in Nat \ {0}
        /\ bs \in Nat /\ wb \in Nat /\ SectorCount = bs + wb
    BY GeometryAssumption, SectorCounts DEF SectorCount
  <1>3. BlockLen = SectorLen * bs
    <2>1. BlockLen % SectorLen = 0 /\ BlockLen \in Nat
      BY GeometryAssumption
    <2>. QED
      BY <1>2, <2>1, DivMod DEF BootSectors
  <1>4. WindowLen = top + BlockLen /\ top \in Nat
    <2>1. (1 * WindowLen) % BlockLen = 0
      BY WindowsHoldBlocks
    <2>2. WindowLen % BlockLen = 0
      BY <1>2, <2>1
    <2>3. WindowLen = BlockLen * (WindowLen \div BlockLen)
          /\ WindowLen \div BlockLen \in Nat
      BY <1>2, <2>2, DivMod
    <2>4. WindowLen \div BlockLen = wb + 1
      BY <2>3, <1>2 DEF WholeBlocks
    <2>5. WindowLen = BlockLen * (wb + 1)
      BY <2>3, <2>4
    <2>. QED
      BY <1>2, <2>5, Z3
  <1>. HIDE DEF w, l
  <1>5. SUFFICES \E k \in 1..SectorCount : \E a \in Nat :
            /\ SectorAddresses(w)[k] = a
            /\ a =< l /\ l < a + SectorSpan(w, a)
    <2>1. PICK k \in 1..SectorCount, a \in Nat :
              SectorAddresses(w)[k] = a /\ a =< l /\ l < a + SectorSpan(w, a)
      BY <1>5
    <2>2. w * WindowLen \in Nat /\ SectorSpan(w, a) \in Nat
      BY <1>1, <1>2 DEF Windows, SectorSpan
    <2>3. w * WindowLen + a =< u /\ u < w * WindowLen + a + SectorSpan(w, a)
      BY <1>1, <2>1, <2>2
    <2>. QED
      BY <1>1, <2>1, <2>3 DEF SectorUnits
  <1>. HIDE DEF wb, bs, top
  <1>6. /\ l \in Nat /\ l < WindowLen
        /\ l \div BlockLen \in Nat /\ l % BlockLen \in Nat /\ l % BlockLen < BlockLen
        /\ l = BlockLen * (l \div BlockLen) + (l % BlockLen)
    BY <1>1, <1>2, DivMod
  <1>. DEFINE d == l \div BlockLen
              db == d * BlockLen
  <1>7. db \in Nat /\ db =< l /\ l < db + BlockLen
    BY <1>2, <1>6, Z3
  <1>8. CASE w \in {0, 2}
    <2>1. \A k \in 1..SectorCount :
              SectorAddresses(w)[k] = IF k =< bs THEN (k - 1) * SectorLen
                                      ELSE (k - bs) * BlockLen
      BY <1>2, <1>8 DEF SectorAddresses, BottomBootSectorAddresses, SectorCount, bs, wb
    <2>2. CASE l < BlockLen
      <3>. DEFINE e == l \div SectorLen
                  es == e * SectorLen
      <3>1. /\ e \in Nat /\ l % SectorLen \in Nat /\ l % SectorLen < SectorLen
            /\ l = SectorLen * e + (l % SectorLen)
        BY <1>2, <1>6, DivMod
      <3>. HIDE DEF e
      <3>2. es \in Nat /\ es =< l /\ l < es + SectorLen
        BY <1>2, <3>1, Z3
      <3>3. e < bs
        BY <1>2, <1>3, <2>2, <3>1, <3>2, Z3
      <3>4. e + 1 \in 1..SectorCount /\ SectorAddresses(w)[e + 1] = es
        <4>1. e + 1 \in 1..SectorCount /\ e + 1 =< bs /\ (e + 1) - 1 = e
          BY <1>2, <3>1, <3>3
        <4>. QED
          BY <2>1, <4>1
      <3>5. SectorSpan(w, es) = SectorLen
        BY <1>2, <1>6, <1>8, <2>2, <3>2 DEF SectorSpan
      <3>. QED
        BY <3>2, <3>4, <3>5
    <2>3. CASE l >= BlockLen
      <3>1. d >= 1
        BY <1>2, <1>6, <2>3, Z3
      <3>2. d =< wb
        BY <1>2, <1>4, <1>6, <1>7, Z3 DEF top
      <3>. HIDE DEF d
      <3>3. bs + d \in 1..SectorCount /\ SectorAddresses(w)[bs + d] = db
        <4>1. bs + d \in 1..SectorCount /\ ~(bs + d =< bs) /\ (bs + d) - bs = d
          BY <1>2, <1>6, <3>1, <3>2 DEF d
        <4>. QED
          BY <2>1, <4>1
      <3>4. db >= BlockLen
        BY <1>2, <1>6, <3>1, Z3 DEF d
      <3>5. SectorSpan(w, db) = BlockLen
        BY <1>2, <1>7, <1>8, <3>4 DEF SectorSpan
      <3>. QED
        BY <1>7, <3>3, <3>5
    <2>. QED
      BY <1>2, <1>6, <2>2, <2>3
  <1>9. CASE w \notin {0, 2}
    <2>1. \A k \in 1..SectorCount :
              SectorAddresses(w)[k] = IF k =< wb THEN (k - 1) * BlockLen
                                      ELSE top + (k - wb - 1) * SectorLen
      BY <1>2, <1>9 DEF SectorAddresses, TopBootSectorAddresses, SectorCount, bs, wb, top
    <2>2. CASE l < top
      <3>1. d < wb
        BY <1>2, <1>6, <1>7, <2>2, Z3 DEF top
      <3>. HIDE DEF d
      <3>2. d + 1 \in 1..SectorCount /\ SectorAddresses(w)[d + 1] = db
        <4>1. d + 1 \in 1..SectorCount /\ d + 1 =< wb /\ (d + 1) - 1 = d
          BY <1>2, <1>6, <3>1 DEF d
        <4>. QED
          BY <2>1, <4>1
      <3>3. WindowLen - BlockLen = top
        BY <1>2, <1>4
      <3>4. SectorSpan(w, db) = BlockLen
        BY <1>2, <1>4, <1>6, <1>7, <1>9, <2>2, <3>3 DEF SectorSpan
      <3>. QED
        BY <1>7, <3>2, <3>4
    <2>3. CASE l >= top
      <3>. DEFINE r == l - top
                  e == r \div SectorLen
                  es == e * SectorLen
      <3>1. r \in Nat /\ r < BlockLen /\ l = top + r
        BY <1>2, <1>4, <1>6, <2>3
      <3>. HIDE DEF r
      <3>2. /\ e \in Nat /\ r % SectorLen \in Nat /\ r % SectorLen < SectorLen
            /\ r = SectorLen * e + (r % SectorLen)
        BY <1>2, <3>1, DivMod
      <3>. HIDE DEF e
      <3>3. es \in Nat /\ es =< r /\ r < es + SectorLen
        BY <1>2, <3>2, Z3
      <3>4. e < bs
        BY <1>2, <1>3, <3>1, <3>2, <3>3, Z3
      <3>5. wb + e + 1 \in 1..SectorCount
            /\ SectorAddresses(w)[wb + e + 1] = top + es
        <4>1. wb + e + 1 \in 1..SectorCount /\ ~(wb + e + 1 =< wb)
              /\ (wb + e + 1) - wb - 1 = e
          BY <1>2, <3>2, <3>4
        <4>. QED
          BY <2>1, <4>1
      <3>6. WindowLen - BlockLen = top /\ top + es >= top
        BY <1>2, <1>4, <3>3
      <3>7. SectorSpan(w, top + es) = SectorLen
        BY <1>9, <3>6 DEF SectorSpan
      <3>8. top + es \in Nat /\ top + es =< l /\ l < top + es + SectorLen
        BY <1>2, <1>4, <3>1, <3>3
      <3>. QED
        BY <3>5, <3>7, <3>8
    <2>. QED
      BY <1>4, <1>6, <2>2, <2>3
  <1>. QED
    BY <1>8, <1>9

-----------------------------------------------------------------------------
(* How far a run can be behind its own answers. *)

\* The least number of faults that leaves n packets on the bridge: each leaves
\* one, except that a run killed at the last but one command leaves three.
LeastFaults(n) == IF n =< 2 THEN n ELSE n - 2

\* What a packet of this run tells about it, as long as it is unread.
OwnPacket(p) ==
    /\ p.of = "status" /\ p.st = 1 => "poll" \in shook
    /\ p.of = "setup" => "setup" \in shook
    /\ p.of = "word" => i >= 5
    /\ p.of = "byte" => p.val = 0

\* The run began with L packets unread, of which n are still there, in front.
\* Every IN takes one packet and every command adds at most one, so each packet
\* that is missing cost a fault; and a preflight command that the bridge never
\* executed was passed on one of the L.
Lag(L, n) ==
    /\ n =< Len(q) /\ Len(q) =< L
    /\ LeastFaults(L) + (L - Len(q)) =< faults
    /\ n > 0 => n + i - 1 =< L
    /\ \A k \in 1..Len(q) : k > n => OwnPacket(q[k])
    /\ i >= 3 => "poll" \in shook \/ L >= 2
    /\ i >= 4 => "setup" \in shook \/ L >= 3
    /\ i >= 5 => q = <<>> \/ L >= 4
    /\ i \in 7..14 + SectorCount => win = 0 \/ L >= 4
    /\ i >= 15 => q = <<>>

\* With fewer than twelve faults no run reaches its first erase out of step.
LagInv ==
    faults < 12 =>
        /\ LeastFaults(Len(q)) =< faults
        /\ pc = "running" => \E L \in 0..faults + 2 : \E n \in 0..L : Lag(L, n)

\* The first fourteen commands are answered by one packet, which fits the
\* buffer, and which names the command it answers.
LEMMA OneAnswer ==
    ASSUME i \in 1..14, NEW st \in {0, 1}
    PROVE  /\ Current.op \in {"reset", "poll", "setup", "word", "byte"}
           /\ Buffer(Current) \in 1..FullPacket
           /\ \E p \in Packets :
                 /\ Answer(Current, st) = <<p>>
                 /\ p.len < FullPacket
                 /\ p.of = IF Current.op \in {"reset", "poll"} THEN "status" ELSE Current.op
                 /\ p.st = st
                 /\ p.of = "byte" => p.val = Current.val
           /\ Current.op = "word" => i >= 4
           /\ Current.op = "byte" => i = 14 \/ Current.val = 0
  <1>1. /\ i = 1 => Current = Reset
        /\ i = 2 => Current = Poll
        /\ i = 3 => Current = Setup
        /\ i = 6 => Current = WordTo("window", 0)
        /\ i \in {4, 5} \cup 7..11 => Current = Word
        /\ i \in {12, 13} => Current = Byte(0)
        /\ i = 14 => Current = Byte(1)
    BY Opening DEF Current
  <1>2. i = 1 \/ i = 2 \/ i = 3 \/ i = 6 \/ i \in {4, 5} \cup 7..11 \/ i \in {12, 13} \/ i = 14
    OBVIOUS
  <1>3. CASE Current \in {Reset, Poll}
    <2>. DEFINE p == Packet(1, "status", 0, st)
    <2>1. /\ Answer(Current, st) = <<p>> /\ Buffer(Current) = 1
          /\ Current.op \in {"reset", "poll"}
      BY <1>3 DEF Answer, Buffer, Reset, Poll, Cmd
    <2>2. p \in Packets /\ p.len < FullPacket /\ p.of = "status" /\ p.st = st
      BY DEF Packet, Packets, FullPacket
    <2>. HIDE DEF p
    <2>. QED
      BY <2>1, <2>2 DEF FullPacket
  <1>4. CASE Current = Setup
    <2>. DEFINE p == Packet(13, "setup", 1, st)
    <2>1. /\ Answer(Current, st) = <<p>> /\ Buffer(Current) = 13
          /\ Current.op = "setup"
      BY <1>4 DEF Answer, Buffer, Setup, Cmd
    <2>2. p \in Packets /\ p.len < FullPacket /\ p.of = "setup" /\ p.st = st
      BY DEF Packet, Packets, FullPacket
    <2>. HIDE DEF p
    <2>. QED
      BY <2>1, <2>2 DEF FullPacket
  <1>5. CASE Current \in {Word, WordTo("window", 0)}
    <2>. DEFINE p == Packet(13, "word", 0, st)
    <2>1. /\ Answer(Current, st) = <<p>> /\ Buffer(Current) = 64
          /\ Current.op = "word"
      BY <1>5 DEF Answer, Buffer, Word, WordTo, Cmd
    <2>2. p \in Packets /\ p.len < FullPacket /\ p.of = "word" /\ p.st = st
      BY DEF Packet, Packets, FullPacket
    <2>3. i >= 4
      BY <1>1, <1>2, <1>5, <2>1 DEF Reset, Poll, Setup, Cmd
    <2>. HIDE DEF p
    <2>. QED
      BY <2>1, <2>2, <2>3 DEF FullPacket
  <1>6. CASE Current \in {Byte(0), Byte(1)}
    <2>. DEFINE p == Packet(13, "byte", Current.val, st)
    <2>1. /\ Answer(Current, st) = <<p>> /\ Buffer(Current) = 64
          /\ Current.op = "byte" /\ Current.val \in {0, 1}
      BY <1>6 DEF Answer, Buffer, Byte, Cmd
    <2>2. p \in Packets /\ p.len < FullPacket /\ p.of = "byte" /\ p.st = st
          /\ p.val = Current.val
      BY <2>1 DEF Packet, Packets, FullPacket
    <2>3. i = 14 \/ Current.val = 0
      BY <1>1, <1>2, <2>1 DEF Reset, Poll, Setup, Word, WordTo, Byte, Cmd
    <2>. HIDE DEF p
    <2>. QED
      BY <2>1, <2>2, <2>3 DEF FullPacket
  <1>. QED
    BY <1>1, <1>2, <1>3, <1>4, <1>5, <1>6

\* What a packet is that one of them goes on with.
LEMMA ExpectedAt ==
    ASSUME i \in 1..14, NEW p, Expected(Current) = <<p>>
    PROVE  /\ i = 2 => p.of = "status" /\ p.st = 1
           /\ i = 3 => p.of = "setup"
           /\ i = 4 => p.of = "word"
           /\ i = 14 => p.of = "byte" /\ p.val = 1
  <1>1. CASE i = 2
    <2>1. Expected(Current) = <<Packet(1, "status", 0, 1)>>
      BY <1>1, Opening DEF Current, Expected, Answer, Poll, Cmd
    <2>2. p = Packet(1, "status", 0, 1)
      BY <2>1
    <2>. QED
      BY <1>1, <2>2 DEF Packet
  <1>2. CASE i = 3
    <2>1. Expected(Current) = <<Packet(13, "setup", 1, 0)>>
      BY <1>2, Opening DEF Current, Expected, Answer, Setup, Cmd
    <2>2. p = Packet(13, "setup", 1, 0)
      BY <2>1
    <2>. QED
      BY <1>2, <2>2 DEF Packet
  <1>3. CASE i = 4
    <2>0. Current = Word
      BY <1>3, Opening DEF Current
    <2>1. Expected(Current) = <<Packet(13, "word", 0, 0)>>
      BY <2>0 DEF Expected, Answer, Word, Cmd
    <2>2. p = Packet(13, "word", 0, 0)
      BY <2>1
    <2>. QED
      BY <1>3, <2>2 DEF Packet
  <1>4. CASE i = 14
    <2>1. Expected(Current) = <<Packet(13, "byte", 1, 0)>>
      BY <1>4, Opening DEF Current, Expected, Answer, Byte, Cmd
    <2>2. p = Packet(13, "byte", 1, 0)
      BY <2>1
    <2>. QED
      BY <1>4, <2>2 DEF Packet
  <1>. QED
    BY <1>1, <1>2, <1>3, <1>4

\* An IN into a buffer of at most one packet takes the first packet.
LEMMA BulkInFirst ==
    ASSUME NEW queue \in Seq(Packets), queue # <<>>, NEW max \in 1..FullPacket
    PROVE  /\ BulkIn(queue, max).got = <<queue[1]>>
           /\ BulkIn(queue, max).rest = Tail(queue)
  <1>1. Len(queue) \in Nat /\ Len(queue) >= 1
    BY EmptySeq, LenProperties
  <1>2. 1 \in Ends(queue, max)
    BY <1>1 DEF Ends, FullPacket
  <1>3. (CHOOSE j \in Ends(queue, max) : \A k \in Ends(queue, max) : j =< k) = 1
    <2>1. \A j \in Ends(queue, max) : j \in Nat /\ j >= 1
      BY <1>1 DEF Ends
    <2>. QED
      BY <1>2, <2>1
  <1>4. /\ BulkIn(queue, max).got = SubSeq(queue, 1, 1)
        /\ BulkIn(queue, max).rest = SubSeq(queue, 1 + 1, Len(queue))
    BY <1>2, <1>3 DEF BulkIn
  <1>5. SubSeq(queue, 1, 1) = <<queue[1]>>
    <2>. DEFINE t == SubSeq(queue, 1, 1)
                r == <<queue[1]>>
    <2>1. \A k \in 1..1 : queue[k] \in Packets
      BY <1>1, ElementOfSeq
    <2>2. t \in Seq(Packets) /\ Len(t) = 1 /\ \A k \in 1..1 - 1 + 1 : t[k] = queue[1 + k - 1]
      BY <2>1, SubSeqProperties
    <2>3. r \in Seq(Packets) /\ Len(r) = 1 /\ r[1] = queue[1]
      BY <2>1
    <2>. HIDE DEF t, r
    <2>4. t = r
      BY <2>2, <2>3, SeqEqual
    <2>. QED
      BY <2>4 DEF t, r
  <1>6. Tail(queue) = SubSeq(queue, 2, Len(queue))
    BY TailIsSubSeq
  <1>. QED
    BY <1>4, <1>5, <1>6

-----------------------------------------------------------------------------
(* One command of a run, behind its answers and in step with them. *)

\* What the host does after an IN.
LEMMA ReceivesCases ==
    ASSUME NEW queue, NEW late, Receives(queue, late)
    PROVE  \/ /\ Expected(Current) = BulkIn(queue, Buffer(Current)).got
              /\ i < Len(Script) /\ i' = i + 1 /\ UNCHANGED <<pc, result>>
           \/ /\ Expected(Current) = BulkIn(queue, Buffer(Current)).got
              /\ i = Len(Script) /\ Ended("completed")
           \/ Current.op = "poll" /\ i' = i /\ UNCHANGED <<pc, result>>
           \/ Ended("failed")
  BY DEF Receives, Accepts, PollAgain

\* Behind: a run of the first fourteen commands with something unread takes the
\* first packet, and its own answer goes to the end, if it comes.
Shifted(p) ==
    /\ q' \in Seq(Packets)
    /\ Len(q') = Len(q) - 1 \/ (Len(q') = Len(q) /\ q'[Len(q)] = p)
    /\ \A k \in 1..Len(q) - 1 : q'[k] = q[k + 1]

LEMMA TailShifts ==
    ASSUME q \in Seq(Packets), q # <<>>, NEW p \in Packets
    PROVE  /\ q' = Tail(q) => Shifted(p) /\ Len(q') = Len(q) - 1
           /\ q' = Tail(q) \o <<p>> => Shifted(p)
           /\ Tail(q \o <<p>>) = Tail(q) \o <<p>>
  <1>1. /\ Tail(q) \in Seq(Packets) /\ Len(Tail(q)) = Len(q) - 1
        /\ \A k \in 1..Len(q) - 1 : Tail(q)[k] = q[k + 1]
        /\ Len(q) \in Nat /\ Len(q) >= 1
    BY HeadTailProperties, EmptySeq, LenProperties
  <1>0. Len(q) \in Nat /\ Len(q) >= 1
    BY EmptySeq, LenProperties
  <1>2. <<p>> \in Seq(Packets) /\ Len(<<p>>) = 1 /\ <<p>>[1] = p
    OBVIOUS
  <1>3. ASSUME q' = Tail(q) PROVE Shifted(p) /\ Len(q') = Len(q) - 1
    BY <1>1, <1>3 DEF Shifted
  <1>. DEFINE one == <<p>>
              t == Tail(q)
  <1>. HIDE DEF one, t
  <1>4. /\ t \o one \in Seq(Packets)
        /\ Len(t \o one) = Len(t) + Len(one)
        /\ \A k \in 1..Len(t) + Len(one) :
              (t \o one)[k] = IF k =< Len(t) THEN t[k] ELSE one[k - Len(t)]
    BY <1>1, <1>2, ConcatProperties DEF t, one
  <1>5. /\ Len(t \o one) = Len(q)
        /\ \A k \in 1..Len(q) - 1 : (t \o one)[k] = q[k + 1]
        /\ (t \o one)[Len(q)] = p
    <2>1. Len(t) = Len(q) - 1 /\ Len(one) = 1 /\ one[1] = p
      BY <1>1, <1>2 DEF t, one
    <2>2. ASSUME NEW k \in 1..Len(q) - 1 PROVE (t \o one)[k] = q[k + 1]
      <3>1. k \in 1..Len(t) + Len(one) /\ k =< Len(t)
        BY <1>1, <2>1
      <3>2. t[k] = q[k + 1]
        BY <1>1 DEF t
      <3>. QED
        BY <1>4, <3>1, <3>2
    <2>3. (t \o one)[Len(q)] = p
      <3>1. Len(q) \in 1..Len(t) + Len(one) /\ ~(Len(q) =< Len(t)) /\ Len(q) - Len(t) = 1
        BY <1>1, <2>1
      <3>. QED
        BY <1>4, <2>1, <3>1
    <2>4. Len(t \o one) = Len(q)
      <3>1. Len(t \o one) = Len(t) + Len(one)
        BY <1>4
      <3>. QED
        BY <1>1, <2>1, <3>1
    <2>. QED
      BY <2>2, <2>3, <2>4
  <1>6. ASSUME q' = t \o one PROVE Shifted(p)
    BY <1>4, <1>5, <1>6 DEF Shifted
  <1>7. Tail(q \o one) = t \o one
    <2>. DEFINE r == q \o one
                v == t \o one
    <2>1. /\ r \in Seq(Packets) /\ Len(r) = Len(q) + Len(one)
          /\ \A k \in 1..Len(q) + Len(one) :
                r[k] = IF k =< Len(q) THEN q[k] ELSE one[k - Len(q)]
      BY <1>2, ConcatProperties DEF one
    <2>. HIDE DEF r
    <2>2. Len(one) = 1 /\ one[1] = p
      BY <1>2 DEF one
    <2>3. r # <<>> /\ Len(r) = Len(q) + 1
      <3>1. Len(<<>>) = 0
        BY EmptySeq
      <3>. QED
        BY <1>1, <2>1, <2>2, <3>1
    <2>4. /\ Tail(r) \in Seq(Packets) /\ Len(Tail(r)) = Len(q)
          /\ \A k \in 1..Len(q) : Tail(r)[k] = r[k + 1]
      <3>1. /\ Tail(r) \in Seq(Packets) /\ Len(Tail(r)) = Len(r) - 1
            /\ \A k \in 1..Len(Tail(r)) : Tail(r)[k] = r[k + 1]
        BY <2>1, <2>3, HeadTailProperties
      <3>2. Len(Tail(r)) = Len(q)
        BY <1>1, <2>3, <3>1
      <3>. QED
        BY <3>1, <3>2
    <2>5. /\ v \in Seq(Packets) /\ Len(v) = Len(q) /\ v[Len(q)] = p
          /\ \A k \in 1..Len(q) - 1 : v[k] = q[k + 1]
      BY <1>4, <1>5
    <2>. HIDE DEF v
    <2>6. ASSUME NEW k \in 1..Len(q) PROVE Tail(r)[k] = v[k]
      <3>1. Tail(r)[k] = r[k + 1] /\ k + 1 \in 1..Len(q) + Len(one)
        BY <1>1, <2>2, <2>4
      <3>2. CASE k = Len(q)
        <4>1. ~(k + 1 =< Len(q)) /\ (k + 1) - Len(q) = 1
          BY <1>1, <3>2
        <4>2. r[k + 1] = p
          BY <2>1, <2>2, <3>1, <4>1
        <4>3. Tail(r)[k] = p
          BY <3>1, <4>2
        <4>. QED
          BY <2>5, <3>2, <4>3
      <3>3. CASE k # Len(q)
        <4>1. k + 1 =< Len(q) /\ k \in 1..Len(q) - 1
          BY <1>0, <3>3
        <4>2. r[k + 1] = q[k + 1]
          BY <2>1, <3>1, <4>1
        <4>3. v[k] = q[k + 1]
          BY <2>5, <4>1
        <4>. QED
          BY <3>1, <4>2, <4>3
      <3>. QED
        BY <3>2, <3>3
    <2>7. Tail(r) = v
      BY <2>4, <2>5, <2>6, SeqEqual
    <2>. QED
      BY <2>7 DEF r, v
  <1>. QED
    BY <1>3, <1>6, <1>7 DEF one, t

\* The three ways an IN and the answer to its command can meet.
LEMMA BehindReceives ==
    ASSUME TypeInv, q # <<>>, i \in 1..14, NEW st \in {0, 1}, NEW p \in Packets,
           Answer(Current, st) = <<p>>,
           NEW queue, NEW late, Receives(queue, late),
           \/ queue = q \o <<p>> /\ late = <<>>
           \/ queue = q /\ late = <<p>>
           \/ queue = q /\ late = <<>>
    PROVE  /\ Shifted(p)
           /\ queue = q /\ late = <<>> => Len(q') = Len(q) - 1
           /\ queue # q \/ late # <<>> => Len(q') = Len(q)
           /\ BulkIn(queue, Buffer(Current)).got = <<q[1]>>
  <1>1. q \in Seq(Packets) /\ <<p>> \in Seq(Packets) /\ Buffer(Current) \in 1..FullPacket
    BY OneAnswer DEF TypeInv
  <1>2. Len(q) \in Nat /\ Len(q) >= 1
    BY <1>1, EmptySeq, LenProperties
  <1>3. q' = BulkIn(queue, Buffer(Current)).rest \o late
    BY DEF Receives
  <1>. DEFINE one == <<p>>
  <1>. HIDE DEF one
  <1>4. CASE queue = q
    <2>1. BulkIn(q, Buffer(Current)).got = <<q[1]>> /\ BulkIn(q, Buffer(Current)).rest = Tail(q)
      BY <1>1, BulkInFirst
    <2>2. Tail(q) \in Seq(Packets)
      BY <1>1, HeadTailProperties
    <2>3. CASE late = <<>>
      <3>1. q' = Tail(q)
        BY <1>3, <1>4, <2>1, <2>2, <2>3, ConcatEmptySeq
      <3>. QED
        BY <1>1, <1>4, <2>1, <2>3, <3>1, TailShifts
    <2>4. CASE late = one
      <3>1. q' = Tail(q) \o one
        BY <1>3, <1>4, <2>1, <2>4
      <3>2. Len(q') = Len(q)
        <4>1. Len(Tail(q)) = Len(q) - 1 /\ Len(one) = 1 /\ one \in Seq(Packets)
          BY <1>1, HeadTailProperties DEF one
        <4>2. Len(Tail(q) \o one) = Len(Tail(q)) + Len(one)
          BY <2>2, <4>1, ConcatProperties
        <4>. QED
          BY <1>2, <3>1, <4>1, <4>2
      <3>3. Shifted(p)
        BY <1>1, <3>1, TailShifts DEF one
      <3>4. one # <<>>
        BY DEF one
      <3>. QED
        BY <1>4, <2>1, <2>4, <3>2, <3>3, <3>4
    <2>. QED
      BY <1>4, <2>3, <2>4 DEF one
  <1>5. CASE queue = q \o one /\ late = <<>>
    <2>. DEFINE r == q \o one
    <2>1. /\ r \in Seq(Packets) /\ Len(r) = Len(q) + 1
          /\ \A k \in 1..Len(q) + Len(one) : r[k] = IF k =< Len(q) THEN q[k] ELSE one[k - Len(q)]
      <3>1. one \in Seq(Packets) /\ Len(one) = 1
        BY <1>1 DEF one
      <3>2. /\ r \in Seq(Packets) /\ Len(r) = Len(q) + Len(one)
            /\ \A k \in 1..Len(q) + Len(one) :
                  r[k] = IF k =< Len(q) THEN q[k] ELSE one[k - Len(q)]
        BY <1>1, <3>1, ConcatProperties
      <3>. QED
        BY <3>1, <3>2
    <2>2. Tail(r) = Tail(q) \o one
      BY <1>1, TailShifts DEF one
    <2>. HIDE DEF r
    <2>3. r # <<>>
      <3>1. Len(<<>>) = 0
        BY EmptySeq
      <3>. QED
        BY <1>2, <2>1, <3>1
    <2>4. /\ BulkIn(r, Buffer(Current)).got = <<r[1]>>
          /\ BulkIn(r, Buffer(Current)).rest = Tail(r)
      BY <1>1, <2>1, <2>3, BulkInFirst
    <2>5. r[1] = q[1]
      <3>1. Len(one) = 1
        BY DEF one
      <3>2. 1 \in 1..Len(q) + Len(one) /\ 1 =< Len(q)
        BY <1>2, <3>1
      <3>. QED
        BY <2>1, <3>2
    <2>6. q' = Tail(q) \o one
      <3>1. Tail(r) \in Seq(Packets) /\ queue = r
        BY <1>5, <2>1, <2>3, HeadTailProperties DEF r
      <3>2. q' = Tail(r) \o <<>>
        BY <1>3, <1>5, <2>4, <3>1
      <3>3. Tail(r) \o <<>> = Tail(r)
        BY <3>1, ConcatEmptySeq
      <3>. QED
        BY <2>2, <3>2, <3>3
    <2>7. Len(q') = Len(q) /\ Shifted(p)
      <3>1. Shifted(p)
        BY <1>1, <2>6, TailShifts DEF one
      <3>2. Len(q') = Len(q)
        <4>1. Len(Tail(r)) = Len(r) - 1
          BY <2>1, <2>3, HeadTailProperties
        <4>. QED
          BY <1>2, <2>1, <2>2, <2>6, <4>1
      <3>. QED
        BY <3>1, <3>2
    <2>8. r # q
      BY <1>2, <2>1
    <2>. QED
      BY <1>5, <2>4, <2>5, <2>7, <2>8 DEF r
  <1>. QED
    BY <1>4, <1>5 DEF one

\* Then the packet is one of the L, and the run at most at command L, or it is
\* one of this run's own.
LEMMA FirstPacket ==
    ASSUME q \in Seq(Packets), q # <<>>, NEW L \in Nat, NEW n \in 0..L, Lag(L, n), i \in 1..14
    PROVE  i =< L \/ OwnPacket(q[1])
  <1>1. Len(q) \in Nat /\ Len(q) >= 1
    BY EmptySeq, LenProperties
  <1>2. CASE n > 0
    BY <1>2 DEF Lag
  <1>3. CASE n = 0
    <2>1. 1 \in 1..Len(q) /\ 1 > n
      BY <1>1, <1>3
    <2>. QED
      BY <2>1 DEF Lag
  <1>. QED
    BY <1>2, <1>3

\* So no run passes the echo of the last selection command behind its answers.
LEMMA BehindEnds ==
    ASSUME q \in Seq(Packets), q # <<>>, NEW L \in Nat, NEW n \in 0..L, Lag(L, n),
           faults \in Nat, faults < 12, i = 14
    PROVE  Expected(Current) # <<q[1]>>
  <1>. SUFFICES ASSUME Expected(Current) = <<q[1]>> PROVE FALSE
    OBVIOUS
  <1>1. q[1].of = "byte" /\ q[1].val = 1
    BY ExpectedAt
  <1>2. 14 =< L
    BY <1>1, FirstPacket DEF OwnPacket
  <1>3. LeastFaults(L) >= 12 /\ LeastFaults(L) \in Nat
    BY <1>2 DEF LeastFaults
  <1>4. Len(q) =< L /\ Len(q) \in Nat /\ LeastFaults(L) + (L - Len(q)) =< faults
    BY LenProperties DEF Lag
  <1>. QED
    BY <1>3, <1>4

\* Behind stays within bounds: the packet an IN takes is one of the L, and then
\* the run is at most at command L, or one of this run's own.
LEMMA BehindKept ==
    ASSUME TypeInv, faults < 12, q # <<>>, NEW L \in Nat, NEW n \in 0..L, Lag(L, n),
           NEW p \in Packets, Shifted(p),
           Len(q') = Len(q) => OwnPacket(p)',
           faults' \in Nat, faults' >= faults,
           Len(q') = Len(q) \/ faults' = faults + 1,
           shook \subseteq shook',
           (i' = i + 1 /\ Expected(Current) = <<q[1]>>) \/ i' = i
    PROVE  \E m \in 0..L : Lag(L, m)'
  <1>. DEFINE m == IF n > 0 THEN n - 1 ELSE 0
  <1>1. /\ q \in Seq(Packets) /\ Len(q) \in Nat /\ Len(q) >= 1
        /\ faults \in Nat /\ i \in 1..14
    <2>1. q \in Seq(Packets) /\ Len(q) \in Nat /\ Len(q) >= 1
      BY EmptySeq, LenProperties DEF TypeInv
    <2>2. i \in Nat /\ i >= 1 /\ faults \in Nat
      BY ScriptCommands DEF TypeInv, TypeOK
    <2>3. ~(i >= 15)
      BY DEF Lag
    <2>. QED
      BY <2>1, <2>2, <2>3
  <1>2. n =< Len(q) /\ Len(q) =< L /\ LeastFaults(L) + (L - Len(q)) =< faults
        /\ (n > 0 => n + i - 1 =< L)
    BY DEF Lag
  <1>3. Len(q') \in Nat /\ (Len(q') = Len(q) - 1 \/ Len(q') = Len(q))
    BY <1>1 DEF Shifted
  <1>4. m \in 0..L /\ m =< Len(q') /\ Len(q') =< L
    BY <1>1, <1>2, <1>3
  <1>5. LeastFaults(L) + (L - Len(q')) =< faults'
    <2>1. LeastFaults(L) \in Nat
      BY DEF LeastFaults
    <2>. QED
      BY <1>1, <1>2, <1>3, <2>1
  <1>6. m > 0 => m + i' - 1 =< L
    <2>. SUFFICES ASSUME m > 0
                  PROVE  m + i' - 1 =< L
      OBVIOUS
    <2>1. n > 0 /\ m = n - 1
      OBVIOUS
    <2>2. i \in Nat /\ (i' = i + 1 \/ i' = i)
      BY <1>1
    <2>3. n + i - 1 =< L
      BY <1>2, <2>1
    <2>. HIDE DEF m
    <2>. QED
      BY <2>1, <2>2, <2>3
  <1>7. i =< L \/ OwnPacket(q[1])
    BY <1>1, FirstPacket
  <1>8. ASSUME NEW k \in 1..Len(q'), k > m PROVE OwnPacket(q[k])'
    <2>1. CASE k =< Len(q) - 1
      <3>1. k \in 1..Len(q) - 1 /\ k + 1 \in 1..Len(q) /\ k + 1 > n
        BY <1>1, <1>3, <1>8, <2>1
      <3>2. q'[k] = q[k + 1]
        BY <3>1 DEF Shifted
      <3>3. OwnPacket(q[k + 1])
        BY <3>1 DEF Lag
      <3>4. i' >= i
        BY <1>1
      <3>5. i >= 5 => i' >= 5
        BY <1>1
      <3>. QED
        BY <3>2, <3>3, <3>5 DEF OwnPacket
    <2>2. CASE k > Len(q) - 1
      <3>1. k = Len(q) /\ Len(q') = Len(q)
        BY <1>1, <1>3, <2>2
      <3>2. q'[k] = p
        BY <1>1, <3>1 DEF Shifted
      <3>. QED
        BY <3>1, <3>2 DEF OwnPacket
    <2>. QED
      BY <1>1, <1>3, <2>1, <2>2
  <1>9. i' >= 3 => "poll" \in shook' \/ L >= 2
    <2>1. CASE i >= 3 \/ i' = i
      BY <2>1, <1>1 DEF Lag
    <2>2. CASE i < 3 /\ i' # i
      <3>. SUFFICES ASSUME i' >= 3 PROVE "poll" \in shook' \/ L >= 2
        OBVIOUS
      <3>1. i = 2 /\ Expected(Current) = <<q[1]>>
        BY <1>1, <2>2
      <3>2. q[1].of = "status" /\ q[1].st = 1
        BY <1>1, <3>1, ExpectedAt
      <3>. QED
        BY <1>7, <3>1, <3>2 DEF OwnPacket
    <2>. QED
      BY <1>1, <2>1, <2>2
  <1>10. i' >= 4 => "setup" \in shook' \/ L >= 3
    <2>1. CASE i >= 4 \/ i' = i
      BY <2>1, <1>1 DEF Lag
    <2>2. CASE i < 4 /\ i' # i
      <3>. SUFFICES ASSUME i' >= 4 PROVE "setup" \in shook' \/ L >= 3
        OBVIOUS
      <3>1. i = 3 /\ Expected(Current) = <<q[1]>>
        BY <1>1, <2>2
      <3>2. q[1].of = "setup"
        BY <1>1, <3>1, ExpectedAt
      <3>. QED
        BY <1>7, <3>1, <3>2 DEF OwnPacket
    <2>. QED
      BY <1>1, <2>1, <2>2
  <1>11. i' >= 5 => L >= 4
    <2>1. CASE i >= 5
      BY <2>1 DEF Lag
    <2>2. CASE i < 5
      <3>. SUFFICES ASSUME i' >= 5 PROVE L >= 4
        OBVIOUS
      <3>1. i = 4 /\ Expected(Current) = <<q[1]>>
        BY <1>1, <2>2
      <3>2. q[1].of = "word"
        BY <1>1, <3>1, ExpectedAt
      <3>3. ~OwnPacket(q[1])
        BY <3>1, <3>2 DEF OwnPacket
      <3>. QED
        BY <1>7, <3>1, <3>3
    <2>. QED
      BY <1>1, <2>1, <2>2
  <1>12. ~(i' >= 15)
    BY <1>1, BehindEnds
  <1>13. i' \in 7..14 + SectorCount => win' = 0 \/ L >= 4
    BY <1>1, <1>11, SectorCounts
  <1>. HIDE DEF m
  <1>14. Lag(L, m)'
    BY <1>4, <1>5, <1>6, <1>8, <1>9, <1>10, <1>11, <1>12, <1>13 DEF Lag
  <1>. QED
    BY <1>4, <1>14

\* The packet a command of this run adds.
LEMMA OwnAnswer ==
    ASSUME i \in 1..14, NEW st \in Statuses, NEW p \in Packets,
           Answer(Current, st) = <<p>>, NEW kept, Executes(kept),
           (i' = i + 1 /\ i # 14) \/ (i' = i /\ Current.op = "poll")
    PROVE  OwnPacket(p)'
  <1>1. st \in {0, 1}
    BY StatusValues
  <1>2. PICK r \in Packets :
            /\ Answer(Current, st) = <<r>>
            /\ r.of = IF Current.op \in {"reset", "poll"} THEN "status" ELSE Current.op
            /\ r.st = st
            /\ r.of = "byte" => r.val = Current.val
    BY <1>1, OneAnswer
  <1>3. r = p
    BY <1>2
  <1>4. /\ Current.op \in {"reset", "poll", "setup", "word", "byte"}
        /\ Current.op = "word" => i >= 4
        /\ Current.op = "byte" => i = 14 \/ Current.val = 0
    BY <1>1, OneAnswer
  <1>5. p.of = "status" /\ p.st = 1 => "poll" \in shook'
    <2>. SUFFICES ASSUME p.of = "status", p.st = 1 PROVE "poll" \in shook'
      OBVIOUS
    <2>1. Current.op \in {"reset", "poll"} /\ st = 1
      BY <1>2, <1>3, <1>4
    <2>2. Current.op = "poll" /\ warm = 0
      BY <2>1 DEF Statuses
    <2>. QED
      BY <2>2 DEF Executes
  <1>6. p.of = "setup" => "setup" \in shook'
    BY <1>2, <1>3, <1>4 DEF Executes
  <1>7. p.of = "word" => i' >= 5
    BY <1>2, <1>3, <1>4
  <1>8. p.of = "byte" => p.val = 0
    BY <1>2, <1>3, <1>4
  <1>. QED
    BY <1>5, <1>6, <1>7, <1>8 DEF OwnPacket

LEMMA AnswerLength ==
    ASSUME TypeInv, NEW st \in {0, 1}
    PROVE  LeastFaults(Len(Answer(Current, st))) = 1 /\ Len(Answer(Current, st)) \in {1, 3}
  <1>1. Current \in WipeCommands
    BY CurrentCommand DEF TypeInv, TypeOK
  <1>2. Len(Answer(Current, st)) \in {1, 3}
    <2>1. PICK n \in Nat : n > 0 /\ Len(Answer(Current, st)) = n
              /\ \A j \in 1..n - 1 : j * FullPacket < Buffer(Current)
      BY <1>1, AnswerShape
    <2>2. CASE Current = Read(172)
      <3>1. (172 + FullPacket - 1) \div FullPacket = 3
        BY DEF FullPacket
      <3>2. \E f : Answer(Current, st) = [j \in 1..3 |-> f[j]]
        <4>. DEFINE g == [j \in 1..3 |-> Packet(IF j * FullPacket =< 172 THEN FullPacket
                               ELSE 172 % FullPacket, "data", 0, st)]
        <4>1. Answer(Current, st) = g
          BY <2>2, <3>1 DEF Answer, Read, Cmd
        <4>2. g = [j \in 1..3 |-> g[j]]
          OBVIOUS
        <4>. QED
          BY <4>1, <4>2
      <3>. QED
        BY <3>2
    <2>3. CASE Current # Read(172)
      <3>1. Buffer(Current) =< 64 /\ Buffer(Current) \in Nat
        BY <1>1, <2>3 DEF Buffer, WipeCommands, Reset, Poll, Setup, Word, WordTo, Byte,
           Payload, Erase, Read, Cmd
      <3>2. ~(1 \in 1..n - 1)
        BY <2>1, <3>1 DEF FullPacket
      <3>3. n = 1
        BY <2>1, <3>2
      <3>. QED
        BY <2>1, <3>3
    <2>. QED
      BY <2>2, <2>3
  <1>. QED
    BY <1>2 DEF LeastFaults

LEMMA ShookGrows ==
    ASSUME NEW kept, Executes(kept) \/ UNCHANGED card
    PROVE  shook \subseteq shook'
  <1>1. CASE Executes(kept)
    <2>1. shook' = shook \cup {Current.op} \/ shook' = shook
      BY <1>1 DEF Executes
    <2>. QED
      BY <2>1
  <1>2. CASE UNCHANGED card
    BY <1>2 DEF card
  <1>. QED
    BY <1>1, <1>2

\* One IN of a run that is behind.
LEMMA BehindTurn ==
    ASSUME TypeInv, faults < 12, q # <<>>, NEW L \in Nat, NEW n \in 0..L, Lag(L, n),
           i \in 1..14, NEW st \in {0, 1}, NEW p \in Packets,
           Answer(Current, st) = <<p>>,
           NEW queue, NEW late, Receives(queue, late),
           \/ queue = q \o <<p>> /\ late = <<>>
           \/ queue = q /\ late = <<p>>
           \/ queue = q /\ late = <<>> /\ faults' = faults + 1,
           \/ st \in Statuses /\ Executes({})
           \/ queue = q /\ late = <<>> /\ UNCHANGED card,
           faults' \in Nat, faults' >= faults
    PROVE  /\ Len(q') = Len(q) \/ (Len(q') = Len(q) - 1 /\ faults' = faults + 1)
           /\ pc' = "running" => \E m \in 0..L : Lag(L, m)'
  <1>1. /\ Shifted(p)
        /\ queue = q /\ late = <<>> => Len(q') = Len(q) - 1
        /\ queue # q \/ late # <<>> => Len(q') = Len(q)
        /\ BulkIn(queue, Buffer(Current)).got = <<q[1]>>
    BY BehindReceives, Zenon
  <1>2. q \in Seq(Packets) /\ Len(q) \in Nat /\ faults \in Nat
    BY LenProperties DEF TypeInv, TypeOK
  <1>3. Len(q') = Len(q) \/ (Len(q') = Len(q) - 1 /\ faults' = faults + 1)
    <2>1. queue = q /\ late = <<>> => faults' = faults + 1
      <3>1. q \o <<p>> # q
        <4>1. Len(q \o <<p>>) = Len(q) + 1
          <5>1. <<p>> \in Seq(Packets) /\ Len(<<p>>) = 1
            OBVIOUS
          <5>2. Len(q \o <<p>>) = Len(q) + Len(<<p>>)
            BY <1>2, <5>1, ConcatProperties
          <5>. QED
            BY <5>1, <5>2
        <4>. QED
          BY <1>2, <4>1
      <3>2. <<p>> # <<>>
        OBVIOUS
      <3>. QED
        BY <3>1, <3>2
    <2>. QED
      BY <1>1, <2>1
  <1>4. ASSUME pc' = "running" PROVE \E m \in 0..L : Lag(L, m)'
    <2>1. \/ i' = i + 1 /\ Expected(Current) = <<q[1]>>
          \/ i' = i /\ Current.op = "poll"
      <3>1. \/ /\ Expected(Current) = BulkIn(queue, Buffer(Current)).got
               /\ i < Len(Script) /\ i' = i + 1 /\ UNCHANGED <<pc, result>>
            \/ /\ Expected(Current) = BulkIn(queue, Buffer(Current)).got
               /\ i = Len(Script) /\ Ended("completed")
            \/ Current.op = "poll" /\ i' = i /\ UNCHANGED <<pc, result>>
            \/ Ended("failed")
        BY ReceivesCases, Zenon
      <3>2. ~Ended("failed") /\ ~Ended("completed")
        BY <1>4 DEF Ended
      <3>. QED
        BY <1>1, <3>1, <3>2, Zenon
    <2>2. i = 14 => Expected(Current) # <<q[1]>>
      BY <1>2, BehindEnds
    <2>3. shook \subseteq shook'
      BY ShookGrows
    <2>4. Len(q') = Len(q) => OwnPacket(p)'
      <3>. SUFFICES ASSUME Len(q') = Len(q) PROVE OwnPacket(p)'
        OBVIOUS
      <3>1. st \in Statuses /\ Executes({})
        BY <1>1, <1>2
      <3>2. (i' = i + 1 /\ i # 14) \/ (i' = i /\ Current.op = "poll")
        BY <2>1, <2>2
      <3>. QED
        BY <3>1, <3>2, OwnAnswer
    <2>. QED
      BY <1>1, <1>3, <2>1, <2>3, <2>4, BehindKept
  <1>. QED
    BY <1>3, <1>4

\* A run that is behind, over all its steps.
LEMMA BehindStep ==
    ASSUME TypeInv, faults < 12, q # <<>>, pc = "running", Run,
           NEW L \in Nat, NEW n \in 0..L, Lag(L, n)
    PROVE  /\ \/ Len(q') = Len(q)
              \/ /\ Len(q') = Len(q) - 1 \/ Len(q') = Len(q) + 1
                 /\ faults' = faults + 1
           /\ pc' = "running" => \E m \in 0..L : Lag(L, m)'
  <1>1. i \in 1..14 /\ faults \in Nat /\ q \in Seq(Packets) /\ Len(q) \in Nat
    <2>1. i \in Nat /\ i >= 1 /\ faults \in Nat /\ q \in Seq(Packets)
      BY ScriptCommands DEF TypeInv, TypeOK
    <2>2. ~(i >= 15)
      BY DEF Lag
    <2>. QED
      BY <2>1, <2>2, LenProperties
  <1>2. ASSUME NEW st \in {0, 1} PROVE \E p \in Packets : Answer(Current, st) = <<p>>
    BY <1>1, OneAnswer
  <1>3. CASE Answered
    <2>1. PICK st \in Statuses : Receives(q \o Answer(Current, st), <<>>)
      BY <1>3 DEF Answered
    <2>2. st \in {0, 1} /\ Executes({}) /\ faults' = faults
      BY <1>3, StatusValues DEF Answered
    <2>3. PICK p \in Packets : Answer(Current, st) = <<p>>
      BY <1>2, <2>2
    <2>. DEFINE queue == q \o <<p>>
    <2>4. Receives(queue, <<>>)
      BY <2>1, <2>3
    <2>5. queue = q \o <<p>>
      OBVIOUS
    <2>6. faults' \in Nat /\ faults' >= faults
      BY <1>1, <2>2
    <2>. HIDE DEF queue
    <2>. QED
      BY <1>1, <2>2, <2>3, <2>4, <2>5, <2>6, BehindTurn
  <1>4. CASE AnsweredLate
    <2>1. PICK st \in Statuses : Receives(q, Answer(Current, st))
      BY <1>4 DEF AnsweredLate
    <2>2. st \in {0, 1} /\ Executes({}) /\ faults' = faults + 1
      BY <1>4, StatusValues DEF AnsweredLate, Fault
    <2>3. PICK p \in Packets : Answer(Current, st) = <<p>>
      BY <1>2, <2>2
    <2>. DEFINE late == <<p>>
    <2>4. Receives(q, late)
      BY <2>1, <2>3
    <2>5. late = <<p>>
      OBVIOUS
    <2>. HIDE DEF late
    <2>. QED
      BY <1>1, <2>2, <2>3, <2>4, <2>5, BehindTurn
  <1>5. CASE Unanswered
    <2>1. Executes({}) /\ faults' = faults + 1 /\ Receives(q, <<>>)
      BY <1>5 DEF Unanswered, Fault
    <2>2. PICK st \in Statuses : st \in {0, 1}
      <3>1. Statuses # {}
        BY <1>1, OneAnswer DEF Statuses
      <3>. QED
        BY <3>1, StatusValues
    <2>3. PICK p \in Packets : Answer(Current, st) = <<p>>
      BY <1>2, <2>2
    <2>. QED
      BY <1>1, <2>1, <2>2, <2>3, BehindTurn
  <1>6. CASE CommandLost
    <2>1. UNCHANGED card /\ faults' = faults + 1 /\ Receives(q, <<>>)
      BY <1>6 DEF CommandLost, Fault
    <2>2. PICK p \in Packets : Answer(Current, 0) = <<p>>
      BY <1>2
    <2>. QED
      BY <1>1, <2>1, <2>2, BehindTurn
  <1>7. CASE SendFails
    BY <1>7 DEF SendFails, Ended
  <1>8. CASE Killed
    <2>1. PICK st \in Statuses : q' = q \o Answer(Current, st)
      BY <1>8 DEF Killed
    <2>2. st \in {0, 1} /\ faults' = faults + 1 /\ pc' = "idle"
      BY <1>8, StatusValues DEF Killed, Fault, Ended
    <2>3. PICK p \in Packets : Answer(Current, st) = <<p>>
      BY <1>2, <2>2
    <2>4. <<p>> \in Seq(Packets) /\ Len(<<p>>) = 1
      OBVIOUS
    <2>5. Len(q \o <<p>>) = Len(q) + Len(<<p>>)
      BY <1>1, <2>4, ConcatProperties
    <2>6. Len(q') = Len(q) + 1
      BY <2>1, <2>3, <2>4, <2>5
    <2>. QED
      BY <2>2, <2>6
  <1>9. ~EraseRefused /\ ~EraseIneffective
    BY <1>1, OneAnswer DEF EraseRefused, EraseIneffective
  <1>. QED
    BY <1>3, <1>4, <1>5, <1>6, <1>7, <1>8, <1>9 DEF Run

\* What is on the bridge after a step of a run in step.
LEMMA InStepLeaves ==
    ASSUME TypeInv, q = <<>>, pc = "running", Run
    PROVE  q' = <<>> \/ (LeastFaults(Len(q')) = 1 /\ faults' = faults + 1)
  <1>1. ASSUME NEW st \in {0, 1}
        PROVE  /\ Answer(Current, st) \in Seq(Packets)
               /\ LeastFaults(Len(Answer(Current, st))) = 1
               /\ <<>> \o Answer(Current, st) = Answer(Current, st)
    BY AnswerPackets, AnswerLength, ConcatEmptySeq
  <1>2. BulkIn(q, Buffer(Current)).rest = <<>>
    <2>1. Ends(q, Buffer(Current)) = {}
      BY EmptySeq DEF Ends
    <2>. QED
      BY <2>1 DEF BulkIn
  <1>3. CASE Answered
    <2>1. PICK st \in Statuses : Receives(q \o Answer(Current, st), <<>>)
      BY <1>3 DEF Answered
    <2>. QED
      BY <2>1, StatusValues, AnswerIsRead
  <1>4. CASE AnsweredLate
    <2>1. PICK st \in Statuses : Receives(q, Answer(Current, st))
      BY <1>4 DEF AnsweredLate
    <2>2. q' = <<>> \o Answer(Current, st)
      BY <1>2, <2>1 DEF Receives
    <2>. QED
      BY <1>1, <1>4, <2>2, StatusValues DEF AnsweredLate, Fault
  <1>5. CASE Unanswered \/ CommandLost
    <2>1. q' = <<>> \o <<>>
      BY <1>2, <1>5 DEF Unanswered, CommandLost, Receives
    <2>. QED
      BY <2>1
  <1>6. CASE SendFails
    BY <1>6 DEF SendFails
  <1>7. CASE Killed
    <2>1. PICK st \in Statuses : q' = q \o Answer(Current, st)
      BY <1>7 DEF Killed
    <2>. QED
      BY <1>1, <1>7, <2>1, StatusValues DEF Killed, Fault
  <1>8. CASE EraseRefused
    BY <1>8, AnswerIsRead DEF EraseRefused
  <1>9. CASE EraseIneffective
    BY <1>9, AnswerIsRead DEF EraseIneffective
  <1>. QED
    BY <1>3, <1>4, <1>5, <1>6, <1>7, <1>8, <1>9 DEF Run

\* In step, an accepted 01 is the bridge's answer to this very 0x98.
LEMMA PollInStep ==
    ASSUME TypeInv, q = <<>>, i = 2, NEW st \in Statuses,
           Receives(q \o Answer(Current, st), <<>>), Executes({}), i' = 3
    PROVE  "poll" \in shook'
  <1>1. st \in {0, 1} /\ Current.op = "poll"
    BY StatusValues, Opening DEF Current, Poll, Cmd
  <1>2. PICK p \in Packets : Answer(Current, st) = <<p>> /\ p.len < FullPacket /\ p.st = st
    BY <1>1, OneAnswer
  <1>3. Buffer(Current) \in Nat
    BY <1>1 DEF Buffer
  <1>4. q \o Answer(Current, st) = <<p>>
    BY <1>2
  <1>5. BulkIn(<<p>>, Buffer(Current)).got = <<p>>
    BY <1>2, <1>3, BulkInOne
  <1>6. Expected(Current) = <<p>>
    BY <1>4, <1>5, ReceivesCases DEF Ended
  <1>7. p.st = 1
    BY <1>6, ExpectedAt
  <1>8. warm = 0
    BY <1>1, <1>2, <1>7 DEF Statuses
  <1>. QED
    BY <1>1, <1>8 DEF Executes

\* A step of a run in step that does not end it, or completes it: the command
\* took effect and its own answer was read.
LEMMA InStepMove ==
    ASSUME TypeInv, q = <<>>, pc = "running", Run,
           pc' = "running" \/ result' = "completed"
    PROVE  /\ q' = <<>> /\ faults' >= faults /\ faults' \in Nat
           /\ \E kept \in SUBSET Units :
                 Executes(kept) /\ (kept = {} \/ Current.op = "erase")
           /\ \/ i < Len(Script) /\ i' = i + 1 /\ UNCHANGED <<pc, result>>
              \/ i = Len(Script) /\ Ended("completed")
              \/ Current.op = "poll" /\ i' = i /\ UNCHANGED <<pc, result>>
           /\ i = 2 /\ i' = 3 => "poll" \in shook'
  <1>1. faults \in Nat /\ i \in Nat
    BY DEF TypeInv, TypeOK
  <1>2. ~SendFails /\ ~Killed
    BY DEF SendFails, Killed, Ended
  <1>3. ~AnsweredLate /\ ~Unanswered /\ ~CommandLost
    BY SilenceEnds DEF AnsweredLate, Unanswered, CommandLost
  <1>4. ~Ended("failed")
    BY DEF Ended
  <1>5. CASE Answered
    <2>1. PICK st \in Statuses : Receives(q \o Answer(Current, st), <<>>)
      BY <1>5 DEF Answered
    <2>2. Executes({}) /\ faults' = faults
      BY <1>5 DEF Answered
    <2>3. q' = <<>>
      BY <2>1, StatusValues, AnswerIsRead
    <2>4. \/ i < Len(Script) /\ i' = i + 1 /\ UNCHANGED <<pc, result>>
          \/ i = Len(Script) /\ Ended("completed")
          \/ Current.op = "poll" /\ i' = i /\ UNCHANGED <<pc, result>>
      BY <1>4, <2>1, ReceivesCases, Zenon
    <2>5. i = 2 /\ i' = 3 => "poll" \in shook'
      BY <2>1, <2>2, PollInStep
    <2>. QED
      BY <1>1, <2>2, <2>3, <2>4, <2>5
  <1>6. ~EraseRefused
    BY RefusalEnds DEF EraseRefused
  <1>7. CASE EraseIneffective
    <2>1. PICK u \in Cleared : Executes({u})
      BY <1>7 DEF EraseIneffective
    <2>2. /\ Receives(q \o Answer(Current, 0), <<>>) /\ faults' = faults + 1
          /\ Current.op = "erase"
      BY <1>7 DEF EraseIneffective, Fault
    <2>3. q' = <<>>
      BY <2>2, AnswerIsRead
    <2>4. \/ i < Len(Script) /\ i' = i + 1 /\ UNCHANGED <<pc, result>>
          \/ i = Len(Script) /\ Ended("completed")
          \/ Current.op = "poll" /\ i' = i /\ UNCHANGED <<pc, result>>
      BY <1>4, <2>2, ReceivesCases, Zenon
    <2>5. {u} \in SUBSET Units
      BY DEF Cleared, SectorUnits
    <2>6. i # 2
      BY <2>2, Opening DEF Current, Poll, Cmd
    <2>. QED
      BY <1>1, <2>1, <2>2, <2>3, <2>4, <2>5, <2>6
  <1>. QED
    BY <1>2, <1>3, <1>5, <1>6, <1>7 DEF Run

\* A run in step moves on with the lag it had.
LEMMA InStepKept ==
    ASSUME TypeInv, q = <<>>, pc = "running", Run, pc' = "running",
           NEW L \in Nat, NEW n \in 0..L, Lag(L, n)
    PROVE  Lag(L, 0)'
  <1>1. /\ q' = <<>> /\ faults' >= faults /\ faults' \in Nat
        /\ \/ i < Len(Script) /\ i' = i + 1 /\ UNCHANGED <<pc, result>>
           \/ i = Len(Script) /\ Ended("completed")
           \/ Current.op = "poll" /\ i' = i /\ UNCHANGED <<pc, result>>
        /\ i = 2 /\ i' = 3 => "poll" \in shook'
    BY InStepMove, Zenon
  <1>2. PICK kept \in SUBSET Units : Executes(kept)
    BY InStepMove, Zenon
  <1>3. i' = i + 1 \/ (Current.op = "poll" /\ i' = i)
    BY <1>1 DEF Ended
  <1>4. faults \in Nat /\ i \in Nat /\ i >= 1
    BY DEF TypeInv, TypeOK
  <1>5. Len(q) = 0 /\ Len(q') = 0
    BY <1>1, EmptySeq
  <1>6. LeastFaults(L) + (L - 0) =< faults'
    <2>1. LeastFaults(L) + (L - 0) =< faults /\ LeastFaults(L) \in Nat
      BY <1>5 DEF Lag, LeastFaults
    <2>. QED
      BY <1>1, <1>4, <2>1
  <1>7. shook \subseteq shook'
    BY <1>2, ShookGrows
  <1>8. i' >= 3 => "poll" \in shook' \/ L >= 2
    <2>1. CASE i >= 3
      BY <1>7, <2>1 DEF Lag
    <2>2. CASE i < 3
      BY <1>1, <1>3, <1>4, <2>2
    <2>. QED
      BY <1>4, <2>1, <2>2
  <1>9. i' >= 4 => "setup" \in shook' \/ L >= 3
    <2>1. CASE i >= 4
      BY <1>7, <2>1 DEF Lag
    <2>2. CASE i < 4
      <3>. SUFFICES ASSUME i' >= 4 PROVE "setup" \in shook'
        OBVIOUS
      <3>1. i = 3
        BY <1>3, <1>4, <2>2
      <3>2. Current.op = "setup"
        BY <3>1, Opening DEF Current, Setup, Cmd
      <3>. QED
        BY <1>2, <3>2 DEF Executes
    <2>. QED
      BY <1>4, <2>1, <2>2
  <1>10. i' \in 7..14 + SectorCount => win' = 0 \/ L >= 4
    <2>. SUFFICES ASSUME i' \in 7..14 + SectorCount PROVE win' = 0 \/ L >= 4
      OBVIOUS
    <2>0. SectorCount \in Nat
      BY SectorCounts
    <2>1. CASE i = 6
      <3>1. Current.sel = "window" /\ Current.val = 0
        BY <2>1, Opening DEF Current, WordTo, Cmd
      <3>. QED
        BY <1>2, <3>1 DEF Executes
    <2>2. CASE i # 6
      <3>1. i \in 7..14 + SectorCount
        BY <1>3, <1>4, <2>0, <2>2
      <3>2. win = 0 \/ L >= 4
        BY <3>1 DEF Lag
      <3>3. Current.sel # "window"
        <4>1. CASE i \in 7..14
          <5>1. Current \in {Word, Byte(0), Byte(1)}
            <6>1. i \in 7..11 \/ i = 12 \/ i = 13 \/ i = 14
              BY <4>1
            <6>. QED
              BY <6>1, Opening DEF Current
          <5>. QED
            BY <5>1 DEF Word, Byte, Cmd
        <4>2. CASE i \in 15..14 + SectorCount
          <5>1. i - 14 \in 1..SectorCount /\ EraseBase(0) + 11 + (i - 14) = i /\ 0 \in Windows
            BY <1>4, <2>0, <4>2, Bases DEF Windows
          <5>2. Current = Erase(SectorAddresses(0)[i - 14])
            BY <5>1, WindowCommands DEF Current
          <5>. QED
            BY <5>2 DEF Erase, Cmd
        <4>. QED
          BY <1>4, <2>0, <3>1, <4>1, <4>2
      <3>4. win' = win
        BY <1>2, <3>3 DEF Executes
      <3>. QED
        BY <3>2, <3>4
    <2>. QED
      BY <2>1, <2>2
  <1>11. \A k \in 1..Len(q') : FALSE
    BY <1>5
  <1>. QED
    BY <1>1, <1>5, <1>6, <1>8, <1>9, <1>10, <1>11 DEF Lag

LEMMA InitLag == Init => LagInv
  <1>. SUFFICES ASSUME Init, faults < 12 PROVE LeastFaults(Len(q)) =< faults
    BY DEF LagInv, Init
  <1>1. TypeInv
    BY InitTypes
  <1>2. CASE q = <<>>
    BY <1>2 DEF Init, LeastFaults
  <1>3. CASE q # <<>>
    <2>1. LeastFaults(Len(q)) = 1
      <3>1. q \in {Answer(Poll, 0), Answer(Poll, 1), Answer(Setup, 0), Answer(Word, 0),
                   Answer(Read(172), 1)}
        BY <1>3 DEF Init, LeftBehind
      <3>2. CASE q = Answer(Read(172), 1)
        <4>. DEFINE g == [j \in 1..3 |-> Packet(IF j * FullPacket =< 172 THEN FullPacket
                               ELSE 172 % FullPacket, "data", 0, 1)]
        <4>1. (172 + FullPacket - 1) \div FullPacket = 3
          BY DEF FullPacket
        <4>2. q = g
          BY <3>2, <4>1 DEF Answer, Read, Cmd
        <4>3. Len(g) = 3
          OBVIOUS
        <4>. QED
          BY <4>2, <4>3 DEF LeastFaults
      <3>3. CASE q # Answer(Read(172), 1)
        <4>1. \E p : q = <<p>>
          BY <3>1, <3>3 DEF Answer, Poll, Setup, Word, Cmd
        <4>. QED
          BY <4>1 DEF LeastFaults
      <3>. QED
        BY <3>2, <3>3
    <2>. QED
      BY <1>3, <2>1 DEF Init
  <1>. QED
    BY <1>2, <1>3

LEMMA Widen ==
    ASSUME NEW a \in Nat, NEW b \in Nat, b >= a, NEW L \in 0..a + 2
    PROVE  L \in Nat /\ L \in 0..b + 2 /\ 0 \in 0..L
  OBVIOUS

LEMMA NextLag ==
    ASSUME TypeInv, LagInv, [Next]_vars
    PROVE  LagInv'
  <1>1. faults \in Nat /\ q \in Seq(Packets) /\ Len(q) \in Nat
    BY LenProperties DEF TypeInv, TypeOK
  <1>2. CASE UNCHANGED vars
    BY <1>2 DEF vars, host, card, LagInv, Lag, OwnPacket
  <1>3. CASE Start
    <2>1. q' = q /\ faults' = faults /\ pc' = "running" /\ i' = 1
      BY <1>3 DEF Start
    <2>. SUFFICES ASSUME faults < 12
                  PROVE  /\ LeastFaults(Len(q)) =< faults
                         /\ \E L \in 0..faults + 2 : \E n \in 0..L : Lag(L, n)'
      BY <2>1 DEF LagInv
    <2>2. LeastFaults(Len(q)) =< faults
      BY DEF LagInv
    <2>. PICK l \in Nat : l = Len(q)
      BY <1>1
    <2>3. l \in 0..faults + 2
      BY <1>1, <2>2 DEF LeastFaults
    <2>4. LeastFaults(l) + (l - l) =< faults
      BY <1>1, <2>2 DEF LeastFaults
    <2>5. \A k \in 1..Len(q') : ~(k > l)
      BY <1>1, <2>1
    <2>6. Len(q') = l
      BY <2>1
    <2>7. SectorCount \in Nat
      BY SectorCounts
    <2>8. Lag(l, l)'
      BY <2>1, <2>3, <2>4, <2>5, <2>6, <2>7 DEF Lag
    <2>9. l \in 0..l
      BY <1>1, <2>3
    <2>. QED
      BY <2>2, <2>3, <2>8, <2>9
  <1>4. CASE Replug
    <2>1. q' = <<>> /\ faults' = faults /\ pc' = "idle" /\ Len(<<>>) = 0
      BY <1>4, EmptySeq DEF Replug, host
    <2>. QED
      BY <1>1, <2>1 DEF LagInv, LeastFaults
  <1>5. CASE Run
    <2>1. pc = "running"
      BY <1>5 DEF Run, Answered, AnsweredLate, Unanswered, CommandLost, SendFails, Killed,
         EraseRefused, EraseIneffective
    <2>2. faults' \in Nat /\ faults' >= faults
      BY <1>1, <1>5 DEF Run, Answered, AnsweredLate, Unanswered, CommandLost, SendFails,
         Killed, EraseRefused, EraseIneffective, Fault
    <2>. SUFFICES ASSUME faults' < 12
                  PROVE  /\ LeastFaults(Len(q')) =< faults'
                         /\ pc' = "running" =>
                              \E L \in 0..faults' + 2 : \E n \in 0..L : Lag(L, n)'
      BY DEF LagInv
    <2>3. faults < 12 /\ LeastFaults(Len(q)) =< faults
      BY <1>1, <2>2 DEF LagInv
    <2>4. PICK L \in 0..faults + 2 : \E n \in 0..L : Lag(L, n)
      BY <2>1, <2>3 DEF LagInv
    <2>0. PICK n \in 0..L : Lag(L, n)
      BY <2>4
    <2>5. L \in Nat /\ L \in 0..faults' + 2 /\ 0 \in 0..L
      <3>1. faults \in Nat
        BY <1>1
      <3>. QED
        BY <2>2, <3>1, Widen
    <2>6. CASE q = <<>>
      <3>1. LeastFaults(Len(q')) =< faults'
        <4>1. CASE q' = <<>>
          BY <2>2, <4>1 DEF LeastFaults
        <4>2. CASE q' # <<>>
          <5>1. LeastFaults(Len(q')) = 1 /\ faults' = faults + 1
            BY <1>5, <2>1, <2>6, <4>2, InStepLeaves
          <5>. QED
            BY <1>1, <5>1
        <4>. QED
          BY <4>1, <4>2
      <3>2. pc' = "running" => Lag(L, 0)'
        BY <1>5, <2>0, <2>1, <2>5, <2>6, InStepKept
      <3>. QED
        BY <2>5, <3>1, <3>2
    <2>7. CASE q # <<>>
      <3>1. /\ \/ Len(q') = Len(q)
               \/ /\ Len(q') = Len(q) - 1 \/ Len(q') = Len(q) + 1
                  /\ faults' = faults + 1
            /\ pc' = "running" => \E m \in 0..L : Lag(L, m)'
        BY <1>5, <2>0, <2>1, <2>3, <2>5, <2>7, BehindStep
      <3>2. LeastFaults(Len(q')) =< faults'
        BY <1>1, <2>2, <2>3, <3>1 DEF LeastFaults
      <3>. QED
        BY <2>5, <3>1, <3>2
    <2>. QED
      BY <2>6, <2>7
  <1>. QED
    BY <1>2, <1>3, <1>4, <1>5 DEF Next

LEMMA LagInvariance == Spec => []LagInv
  BY InitLag, NextLag, TypeInvariance, PTL DEF Spec

\* What the lag means for a run that erases or writes.
LEMMA DestructiveLag ==
    ASSUME TypeInv, LagInv, pc = "running", i >= 15, faults < 12
    PROVE  /\ q = <<>>
           /\ {"poll", "setup"} \subseteq shook \/ faults >= 4
           /\ i \in 7..14 + SectorCount => win = 0 \/ faults >= 6
  <1>1. faults \in Nat /\ i \in Nat
    BY DEF TypeInv, TypeOK
  <1>2. PICK L \in 0..faults + 2 : \E n \in 0..L : Lag(L, n)
    BY DEF LagInv
  <1>3. q = <<>> /\ Len(q) = 0
    BY <1>2, EmptySeq DEF Lag
  <1>4. L \in Nat /\ LeastFaults(L) + (L - 0) =< faults
    BY <1>1, <1>2, <1>3 DEF Lag
  <1>5. (L >= 2 => faults >= 4) /\ (L >= 4 => faults >= 6)
    BY <1>1, <1>4 DEF LeastFaults
  <1>6. /\ "poll" \in shook \/ L >= 2
        /\ "setup" \in shook \/ L >= 3
        /\ i \in 7..14 + SectorCount => win = 0 \/ L >= 4
    BY <1>1, <1>2 DEF Lag
  <1>7. {"poll", "setup"} \subseteq shook \/ faults >= 4
    BY <1>4, <1>5, <1>6
  <1>8. i \in 7..14 + SectorCount => win = 0 \/ faults >= 6
    BY <1>5, <1>6
  <1>. QED
    BY <1>3, <1>7, <1>8

\* No erase and no save data is among the first fourteen commands.
LEMMA DestructiveLater ==
    ASSUME TypeInv, Current.op \in {"erase", "payload"}
    PROVE  i >= 15
  <1>1. i \in Nat /\ i >= 1
    BY DEF TypeInv, TypeOK
  <1>2. i \notin 1..14
    BY OneAnswer
  <1>. QED
    BY <1>1, <1>2

\* As long as there were fewer than twelve faults, over any number of runs and
\* whatever they left unread, a wipe erases and writes in step.
THEOREM FewFaultsInStep == Spec => [](faults < 12 => DestructiveInStep)
  <1>1. TypeInv /\ LagInv => (faults < 12 => DestructiveInStep)
    BY DestructiveLater, DestructiveLag DEF DestructiveInStep
  <1>. QED
    BY <1>1, TypeInvariance, LagInvariance, PTL

\* With at most three faults no unit is erased before the bridge has answered
\* 01 to 0x98 and executed 0x99 for this very run.  Four are too many: two
\* killed runs leave 00 and 01, and the next one passes 0x97 and 0x98 on them
\* although both are lost.
THEOREM FewFaultsPreflight ==
    ASSUME MaxFaults =< 3
    PROVE  Spec => EraseOnlyAfterPreflight
  <1>. DEFINE A == pc = "running" /\ flash' # flash => {"poll", "setup"} \subseteq shook
  <1>1. TypeInv /\ LagInv /\ [Next]_vars => [A]_vars
    <2>. SUFFICES ASSUME TypeInv, LagInv, Next, pc = "running", flash' # flash
                  PROVE  {"poll", "setup"} \subseteq shook
      OBVIOUS
    <2>1. faults \in Nat /\ faults =< 3
      BY WipeAssumption DEF TypeInv, TypeOK
    <2>2. ~Start /\ ~Replug
      BY DEF Start, Replug
    <2>3. UNCHANGED card \/ \E kept \in SUBSET Units : Executes(kept)
      <3>1. \A u \in Cleared : {u} \in SUBSET Units
        BY DEF Cleared, SectorUnits
      <3>. QED
        BY <2>2, <3>1 DEF Next, Run, Answered, AnsweredLate, Unanswered, CommandLost,
           SendFails, Killed, EraseRefused, EraseIneffective
    <2>4. Current.op = "erase"
      <3>1. PICK kept \in SUBSET Units : Executes(kept)
        BY <2>3 DEF card
      <3>. SUFFICES ASSUME Current.op # "erase" PROVE FALSE
        OBVIOUS
      <3>2. flash' = [u \in Units |-> flash[u]]
        BY <3>1 DEF Executes
      <3>3. flash \in [Units -> {"old", "erased"}]
        BY DEF TypeInv, TypeOK
      <3>. QED
        BY <3>2, <3>3
    <2>. QED
      BY <2>1, <2>4, DestructiveLater, DestructiveLag
  <1>2. Spec => [][A]_vars
    BY <1>1, TypeInvariance, LagInvariance, PTL DEF Spec
  <1>. QED
    BY <1>2 DEF EraseOnlyAfterPreflight

-----------------------------------------------------------------------------
(* What a run has done by the time it is at a command. *)

Cleaned(u) == flash[u] = "erased" \/ u \in weak

WindowKept ==
    \A w \in Windows \ {0} :
        i \in EraseBase(w) + 4..EraseBase(w) + 11 + SectorCount => win = w
BankKept == \A b \in Banks : i \in ClearBase(b) + 5..ClearBase(b) + 9 => bank = b
ErasedSoFar ==
    \A w \in Windows : \A k \in 1..SectorCount :
        EraseBase(w) + 11 + k < i =>
            \A u \in SectorUnits(w, SectorAddresses(w)[k]) : Cleaned(u)
ClearedSoFar == \A b \in Banks : ClearBase(b) + 9 < i => saves[b] = "zero"

SoFar == WindowKept /\ BankKept /\ ErasedSoFar /\ ClearedSoFar

\* With fewer than six faults a run has erased the sectors and cleared the banks
\* whose commands it has passed, in the window and the bank they are meant for.
WipedInv ==
    /\ pc = "running" => result = "none"
    /\ pc = "running" /\ faults < 6 => SoFar
    /\ faults < 6 => SuccessMeansWiped

\* Up to the first erase there is nothing to have done.
LEMMA NothingYet ==
    ASSUME i \in Nat, i =< 15
    PROVE  SoFar
  <1>1. SectorCount \in Nat /\ EraseLen = 15 + SectorCount
    BY SectorCounts DEF EraseLen
  <1>2. ASSUME NEW w \in Windows \ {0} PROVE ~(EraseBase(w) + 4 =< i)
    BY <1>1, Bases
  <1>3. ASSUME NEW b \in Banks PROVE ~(ClearBase(b) + 5 =< i)
    <2>1. EraseBase(0) + EraseLen =< ClearBase(0) /\ EraseBase(0) = 3 /\ ClearBase(0) \in Nat
      BY Bases DEF Windows
    <2>2. ClearBase(b) = ClearBase(0) + 9 * b /\ b \in Nat
      BY Bases DEF Banks
    <2>. QED
      BY <1>1, <2>1, <2>2
  <1>4. ASSUME NEW w \in Windows, NEW k \in 1..SectorCount PROVE ~(EraseBase(w) + 11 + k < i)
    BY <1>1, Bases
  <1>5. WindowKept
    BY <1>2, Bases DEF WindowKept
  <1>6. BankKept
    <2>1. \A b \in Banks : ClearBase(b) \in Int
      BY Bases DEF Banks
    <2>. QED
      BY <1>3, <2>1 DEF BankKept
  <1>7. ErasedSoFar
    BY <1>4 DEF ErasedSoFar
  <1>8. ClearedSoFar
    <2>1. \A b \in Banks : ClearBase(b) \in Int
      BY Bases DEF Banks
    <2>. QED
      BY <1>3, <2>1 DEF ClearedSoFar
  <1>. QED
    BY <1>5, <1>6, <1>7, <1>8 DEF SoFar

\* The window registers of the other windows: set at the third command of
\* their selection, kept until their last sector.
LEMMA WindowKeptOn ==
    ASSUME WindowKept, i \in Nat, NEW kept, Executes(kept), i' = i + 1
    PROVE  WindowKept'
  <1>. SUFFICES ASSUME NEW w \in Windows \ {0},
                       i' \in EraseBase(w) + 4..EraseBase(w) + 11 + SectorCount
                PROVE  win' = w
    BY DEF WindowKept
  <1>. DEFINE k == i - EraseBase(w)
  <1>1. /\ EraseBase(w) \in Nat /\ SectorCount \in Nat
        /\ k \in 3..10 + SectorCount /\ i = EraseBase(w) + k
    BY SectorCounts, Bases
  <1>. HIDE DEF k
  <1>2. CASE k = 3
    <2>1. Current = WordTo("window", w)
      BY <1>1, <1>2, WindowCommands DEF Current, SelectWindow
    <2>2. Current.sel = "window" /\ Current.val = w
      BY <2>1 DEF WordTo, Cmd
    <2>. QED
      BY <2>2 DEF Executes
  <1>3. CASE k # 3
    <2>1. win = w
      <3>1. i \in EraseBase(w) + 4..EraseBase(w) + 11 + SectorCount
        BY <1>1, <1>3
      <3>. QED
        BY <3>1 DEF WindowKept
    <2>2. Current.sel # "window"
      <3>1. CASE k =< 11
        <4>1. Current = SelectWindow(w)[k] /\ k \in 4..11
          BY <1>1, <1>3, <3>1, WindowCommands DEF Current
        <4>2. SelectWindow(w)[k] \in {Word, Byte(0), Byte(1)}
          BY <4>1 DEF SelectWindow
        <4>. QED
          BY <4>1, <4>2 DEF Word, Byte, Cmd
      <3>2. CASE k > 11
        <4>1. k - 11 \in 1..SectorCount /\ EraseBase(w) + 11 + (k - 11) = i
          BY <1>1, <3>2
        <4>2. Current = Erase(SectorAddresses(w)[k - 11])
          BY <4>1, WindowCommands DEF Current
        <4>. QED
          BY <4>2 DEF Erase, Cmd
      <3>. QED
        BY <1>1, <3>1, <3>2
    <2>. QED
      BY <2>1, <2>2 DEF Executes
  <1>. QED
    BY <1>2, <1>3

\* The save bank register: set at the fourth command of a bank, kept until its
\* payload.
LEMMA BankKeptOn ==
    ASSUME BankKept, i \in Nat, NEW kept, Executes(kept), i' = i + 1
    PROVE  BankKept'
  <1>. SUFFICES ASSUME NEW b \in Banks, i' \in ClearBase(b) + 5..ClearBase(b) + 9
                PROVE  bank' = b
    BY DEF BankKept
  <1>. DEFINE k == i - ClearBase(b)
  <1>1. ClearBase(b) \in Nat /\ k \in 4..8 /\ i = ClearBase(b) + k
    <2>1. ClearBase(b) \in Nat
      BY Bases DEF Banks
    <2>. QED
      BY <2>1
  <1>2. Current = ClearBank(b)[k]
    BY <1>1, BankCommands DEF Current
  <1>. HIDE DEF k
  <1>3. CASE k = 4
    <2>1. Current = WordTo("bank", b)
      BY <1>2, <1>3 DEF ClearBank
    <2>2. Current.sel = "bank" /\ Current.val = b
      BY <2>1 DEF WordTo, Cmd
    <2>. QED
      BY <2>2 DEF Executes
  <1>4. CASE k # 4
    <2>1. bank = b
      <3>1. i \in ClearBase(b) + 5..ClearBase(b) + 9
        BY <1>1, <1>4
      <3>. QED
        BY <3>1 DEF BankKept
    <2>2. Current = Word
      BY <1>1, <1>2, <1>4 DEF ClearBank
    <2>3. Current.sel # "bank"
      BY <2>2 DEF Word, Cmd
    <2>. QED
      BY <2>1, <2>3 DEF Executes
  <1>. QED
    BY <1>3, <1>4

\* A unit that was cleaned stays cleaned for the rest of the run.
LEMMA CleanedStays ==
    ASSUME TypeInv, NEW kept, Executes(kept), NEW u \in Units, Cleaned(u)
    PROVE  Cleaned(u)'
  <1>1. flash \in [Units -> {"old", "erased"}]
    BY DEF TypeInv, TypeOK
  <1>. QED
    BY <1>1 DEF Cleaned, Executes

\* The sector of the erase a run has just passed is cleaned, and those before.
LEMMA ErasedOn ==
    ASSUME TypeInv, ErasedSoFar, i \in Nat, NEW kept, Executes(kept), i' = i + 1,
           \A w \in Windows :
               i \in EraseBase(w) + 12..EraseBase(w) + 11 + SectorCount => win = w,
           Current.op = "erase" => \A u \in Cleared : Cleaned(u)'
    PROVE  ErasedSoFar'
  <1>. SUFFICES ASSUME NEW w \in Windows, NEW k \in 1..SectorCount,
                       EraseBase(w) + 11 + k < i',
                       NEW u \in SectorUnits(w, SectorAddresses(w)[k])
                PROVE  Cleaned(u)'
    BY DEF ErasedSoFar
  <1>1. u \in Units
    BY DEF SectorUnits
  <1>2. EraseBase(w) \in Nat /\ SectorCount \in Nat
    BY SectorCounts, Bases
  <1>3. CASE EraseBase(w) + 11 + k < i
    <2>1. Cleaned(u)
      BY <1>3 DEF ErasedSoFar
    <2>. QED
      BY <1>1, <2>1, CleanedStays
  <1>4. CASE EraseBase(w) + 11 + k = i
    <2>1. Current = Erase(SectorAddresses(w)[k])
      BY <1>4, WindowCommands DEF Current
    <2>2. Current.op = "erase" /\ Current.val = SectorAddresses(w)[k]
      BY <2>1 DEF Erase, Cmd
    <2>3. win = w
      <3>1. i \in EraseBase(w) + 12..EraseBase(w) + 11 + SectorCount
        BY <1>2, <1>4
      <3>. QED
        BY <3>1
    <2>. QED
      BY <2>2, <2>3 DEF Cleared
  <1>. QED
    BY <1>2, <1>3, <1>4

\* The bank of the payload a run has just passed is zero, and those before.
LEMMA ClearedOn ==
    ASSUME TypeInv, BankKept, ClearedSoFar, NEW kept, Executes(kept), i' = i + 1
    PROVE  ClearedSoFar'
  <1>0. i \in 1..Len(Script) /\ i \in Nat
        /\ bank \in Banks /\ saves \in [Banks -> {"user", "zero", "marked"}]
    BY ScriptCommands DEF TypeInv, TypeOK
  <1>. SUFFICES ASSUME NEW b \in Banks, ClearBase(b) + 9 < i'
                PROVE  saves'[b] = "zero"
    BY DEF ClearedSoFar
  <1>1. ClearBase(b) \in Nat /\ ClearBase(b) >= ClearBase(0) /\ ClearBase(0) \in Nat
    BY Bases DEF Banks
  <1>2. CASE ClearBase(b) + 9 < i
    <2>1. saves[b] = "zero"
      BY <1>2 DEF ClearedSoFar
    <2>2. Current.op # "byte"
      <3>1. i > ClearBase(0)
        BY <1>0, <1>1, <1>2
      <3>. QED
        BY <1>0, <3>1, TailCommands DEF Current
    <2>. QED
      BY <1>0, <2>1, <2>2 DEF Executes
  <1>3. CASE ClearBase(b) + 9 = i
    <2>1. Current = Payload
      <3>1. Script[ClearBase(b) + 9] = ClearBank(b)[9]
        BY BankCommands
      <3>. QED
        BY <1>3, <3>1 DEF Current, ClearBank
    <2>2. Current.op = "payload"
      BY <2>1 DEF Payload, Cmd
    <2>3. bank = b
      <3>1. i \in ClearBase(b) + 5..ClearBase(b) + 9
        BY <1>0, <1>1, <1>3
      <3>. QED
        BY <3>1 DEF BankKept
    <2>. QED
      BY <1>0, <2>2, <2>3 DEF Executes
  <1>. QED
    BY <1>0, <1>1, <1>2, <1>3

\* How a step of a run can leave it running or completed.
LEMMA RunResult ==
    ASSUME TypeInv, pc = "running", Run
    PROVE  /\ pc' = "running" => result' = result /\ (i' = i + 1 \/ i' = i)
           /\ result' = "completed" /\ result = "none" => i = Len(Script)
  <1>1. ASSUME NEW queue, NEW late, Receives(queue, late)
        PROVE  \/ /\ result' = result /\ (i' = i + 1 \/ i' = i)
               \/ i = Len(Script) /\ Ended("completed")
               \/ Ended("failed")
    BY <1>1, ReceivesCases
  <1>2. \/ /\ result' = result /\ (i' = i + 1 \/ i' = i)
        \/ i = Len(Script) /\ Ended("completed")
        \/ Ended("failed") \/ Ended("killed")
    BY <1>1 DEF Run, Answered, AnsweredLate, Unanswered, CommandLost, SendFails, Killed,
       EraseRefused, EraseIneffective
  <1>. QED
    BY <1>2 DEF Ended

\* At its last command a run has passed all sectors and all banks.
LEMMA LastMeansAll ==
    ASSUME TypeInv, SoFar, i = Len(Script), NEW kept, Executes(kept),
           kept = {} \/ Current.op = "erase"
    PROVE  /\ \A u \in Units : Cleaned(u)'
           /\ \A b \in Banks : saves'[b] = "zero"
  <1>1. /\ i = ClearBase(0) + 42 /\ ClearBase(0) \in Nat /\ i \in 1..Len(Script)
        /\ \A b \in Banks : ClearBase(b) = ClearBase(0) + 9 * b
        /\ \A w \in Windows : EraseBase(w) \in Nat
                              /\ EraseBase(w) + EraseLen =< ClearBase(0)
    BY ScriptAt, Bases DEF TypeInv, TypeOK
  <1>2. Current = Read(32)
    <2>1. Len(VerifyBlank) = 2 /\ VerifyBlank[2] = Read(32)
      BY DEF VerifyBlank
    <2>2. Script[ClearBase(4) + 4 + 2] = VerifyBlank[2]
      BY <2>1, ScriptAt DEF Holds
    <2>3. ClearBase(4) + 4 + 2 = i
      BY <1>1, Bases
    <2>. QED
      BY <2>1, <2>2, <2>3 DEF Current
  <1>3. Current.op = "read"
    BY <1>2 DEF Read, Cmd
  <1>4. ASSUME NEW u \in Units PROVE Cleaned(u)'
    <2>1. PICK w \in Windows, k \in 1..SectorCount :
              u \in SectorUnits(w, SectorAddresses(w)[k])
      BY SectorsCover
    <2>2. EraseBase(w) + 11 + k < i
      BY <1>1, SectorCounts DEF EraseLen
    <2>3. Cleaned(u)
      BY <2>1, <2>2 DEF SoFar, ErasedSoFar
    <2>. QED
      BY <2>3, CleanedStays
  <1>5. ASSUME NEW b \in Banks PROVE saves'[b] = "zero"
    <2>1. ClearBase(b) + 9 < i
      BY <1>1 DEF Banks
    <2>2. saves[b] = "zero"
      BY <2>1 DEF SoFar, ClearedSoFar
    <2>. QED
      BY <1>3, <2>2 DEF Executes
  <1>. QED
    BY <1>4, <1>5

\* A run in step that selected window 0 goes on with what it has done.
LEMMA SoFarOn ==
    ASSUME TypeInv, SoFar, pc = "running", Run, pc' = "running",
           q = <<>>, i \in 7..14 + SectorCount => win = 0
    PROVE  SoFar'
  <1>1. i \in Nat
    BY DEF TypeInv, TypeOK
  <1>2. q = <<>> /\ (i \in 7..14 + SectorCount => win = 0)
    OBVIOUS
  <1>3. PICK kept \in SUBSET Units : Executes(kept)
    BY <1>2, InStepMove, Zenon
  <1>4. i' = i + 1 \/ (Current.op = "poll" /\ i' = i)
    <2>1. \/ i < Len(Script) /\ i' = i + 1 /\ UNCHANGED <<pc, result>>
          \/ i = Len(Script) /\ Ended("completed")
          \/ Current.op = "poll" /\ i' = i /\ UNCHANGED <<pc, result>>
      BY <1>2, InStepMove, Zenon
    <2>. QED
      BY <2>1 DEF Ended
  <1>5. CASE i' = i + 1
    <2>1. WindowKept' /\ BankKept'
      BY <1>1, <1>3, <1>5, WindowKeptOn, BankKeptOn DEF SoFar
    <2>2. ClearedSoFar'
      BY <1>3, <1>5, ClearedOn DEF SoFar
    <2>3. ASSUME NEW w \in Windows,
                 i \in EraseBase(w) + 12..EraseBase(w) + 11 + SectorCount
          PROVE  win = w
      <3>1. EraseBase(w) \in Nat /\ EraseBase(0) = 3 /\ SectorCount \in Nat
        BY SectorCounts, Bases
      <3>2. CASE w = 0
        <4>1. i \in 7..14 + SectorCount
          BY <1>1, <2>3, <3>1, <3>2
        <4>. QED
          BY <1>2, <3>2, <4>1
      <3>3. CASE w # 0
        <4>1. w \in Windows \ {0} /\ i \in EraseBase(w) + 4..EraseBase(w) + 11 + SectorCount
          BY <2>3, <3>1, <3>3
        <4>. QED
          BY <4>1 DEF SoFar, WindowKept
      <3>. QED
        BY <3>2, <3>3
    <2>4. Current.op = "erase" => \A u \in Cleared : Cleaned(u)'
      <3>1. Next
        BY DEF Next
      <3>2. PassedIsDone
        BY <3>1, PassedStep
      <3>. QED
        BY <1>2, <1>5, <3>2 DEF PassedIsDone, Cleaned
    <2>5. ErasedSoFar'
      BY <1>1, <1>3, <1>5, <2>3, <2>4, ErasedOn DEF SoFar
    <2>. QED
      BY <2>1, <2>2, <2>5 DEF SoFar
  <1>6. CASE Current.op = "poll" /\ i' = i
    <2>1. Current \in WipeCommands /\ Current.sel = "none"
      <3>1. Current \in WipeCommands
        BY CurrentCommand DEF TypeInv, TypeOK
      <3>. QED
        BY <1>6, <3>1 DEF WipeCommands, Reset, Poll, Setup, Word, WordTo, Byte, Payload,
           Erase, Read, Cmd
    <2>2. win' = win /\ bank' = bank /\ saves' = saves
      BY <1>3, <1>6, <2>1 DEF Executes
    <2>3. \A u \in Units : Cleaned(u) => Cleaned(u)'
      BY <1>3, CleanedStays
    <2>4. ErasedSoFar'
      <3>1. \A w \in Windows : \A k \in 1..SectorCount :
                SectorUnits(w, SectorAddresses(w)[k]) \subseteq Units
        BY DEF SectorUnits
      <3>. QED
        BY <1>6, <2>3, <3>1 DEF SoFar, ErasedSoFar
    <2>. QED
      BY <1>6, <2>2, <2>4 DEF SoFar, WindowKept, BankKept, ClearedSoFar
  <1>. QED
    BY <1>4, <1>5, <1>6

LEMMA NextWiped ==
    ASSUME TypeInv, LagInv, WipedInv, [Next]_vars
    PROVE  WipedInv'
  <1>1. faults \in Nat /\ i \in 1..Len(Script) /\ Len(Script) \in Nat
    BY ScriptCommands DEF TypeInv, TypeOK
  <1>2. CASE UNCHANGED vars
    BY <1>2 DEF vars, host, card, WipedInv, SoFar, WindowKept, BankKept, ErasedSoFar,
       ClearedSoFar, Cleaned, SuccessMeansWiped
  <1>3. CASE Start
    <2>1. pc' = "running" /\ i' = 1 /\ result' = "none"
      BY <1>3 DEF Start
    <2>2. (i \in Nat /\ i =< 15 => SoFar)'
      BY NothingYet, PTL
    <2>. QED
      BY <2>1, <2>2 DEF WipedInv, SuccessMeansWiped
  <1>4. CASE Replug
    <2>1. /\ pc' = "idle"
          /\ UNCHANGED <<result, flash, saves, weak, faults>>
      BY <1>4 DEF Replug, host
    <2>. QED
      BY <2>1 DEF WipedInv, SuccessMeansWiped
  <1>5. CASE Run
    <2>1. pc = "running"
      BY <1>5 DEF Run, Answered, AnsweredLate, Unanswered, CommandLost, SendFails, Killed,
         EraseRefused, EraseIneffective
    <2>2. faults' \in Nat /\ faults' >= faults
      BY <1>1, <1>5 DEF Run, Answered, AnsweredLate, Unanswered, CommandLost, SendFails,
         Killed, EraseRefused, EraseIneffective, Fault
    <2>3. result = "none"
      BY <2>1 DEF WipedInv
    <2>4. /\ pc' = "running" => result' = result /\ (i' = i + 1 \/ i' = i)
          /\ result' = "completed" => i = Len(Script)
      BY <1>5, <2>1, <2>3, RunResult
    <2>5. pc' = "running" => result' = "none"
      BY <2>3, <2>4
    <2>6. ASSUME pc' = "running", faults' < 6 PROVE SoFar'
      <3>1. faults < 6
        BY <1>1, <2>2, <2>6
      <3>2. CASE i >= 15
        <4>1. q = <<>> /\ (i \in 7..14 + SectorCount => win = 0)
          BY <1>1, <2>1, <3>1, <3>2, DestructiveLag
        <4>. QED
          BY <1>5, <2>1, <2>6, <3>1, <4>1, SoFarOn DEF WipedInv
      <3>3. CASE ~(i >= 15)
        <4>1. i' \in Nat /\ i' =< 15
          BY <1>1, <2>4, <2>6, <3>3
        <4>2. (i \in Nat /\ i =< 15 => SoFar)'
          BY NothingYet, PTL
        <4>. QED
          BY <4>1, <4>2
      <3>. QED
        BY <3>2, <3>3
    <2>7. ASSUME faults' < 6, result' = "completed"
          PROVE  /\ \A u \in Units : Cleaned(u)'
                 /\ \A b \in Banks : saves'[b] = "zero"
      <3>1. faults < 6 /\ faults < 12
        BY <1>1, <2>2, <2>7
      <3>2. i = Len(Script) /\ i >= 15
        <4>1. ClearBase(0) \in Nat /\ Len(Script) = ClearBase(0) + 42
          BY ScriptAt, Bases
        <4>. QED
          BY <2>4, <2>7, <4>1
      <3>3. q = <<>>
        BY <2>1, <3>1, <3>2, DestructiveLag
      <3>4. PICK kept \in SUBSET Units : Executes(kept) /\ (kept = {} \/ Current.op = "erase")
        BY <1>5, <2>1, <2>7, <3>3, InStepMove, Zenon
      <3>. QED
        BY <2>1, <3>1, <3>2, <3>4, LastMeansAll DEF WipedInv
    <2>. QED
      BY <2>5, <2>6, <2>7 DEF WipedInv, SuccessMeansWiped, Cleaned
  <1>. QED
    BY <1>2, <1>3, <1>4, <1>5 DEF Next

\* As long as there were fewer than six faults, over any number of runs and
\* whatever they left unread, a completed wipe erased every unit that did not
\* keep its charge at status 00, and left every save bank zero.  Six are too
\* many: a run that starts four answers behind can lose the selection of
\* window 0, catch up, and erase another window in its place.
THEOREM FewFaultsWiped == Spec => [](faults < 6 => SuccessMeansWiped)
  <1>1. Init => WipedInv
    BY DEF Init, WipedInv, SuccessMeansWiped
  <1>2. TypeInv /\ LagInv /\ WipedInv /\ [Next]_vars => WipedInv'
    BY NextWiped
  <1>3. WipedInv => (faults < 6 => SuccessMeansWiped)
    BY DEF WipedInv
  <1>. QED
    BY <1>1, <1>2, <1>3, TypeInvariance, LagInvariance, PTL DEF Spec

-----------------------------------------------------------------------------
(* Every run ends. *)

\* A run that goes on moves to the next command, or repeats the readiness poll
\* and counts the attempt; both are bounded (TypeOK), so no run goes on for
\* ever, whatever the bridge answers.
RunAdvances ==
    pc = "running" /\ pc' = "running" => i' > i \/ (i' = i /\ polls' > polls)

\* The only loop of execute() is cartridgeReadyPreflight, and it is bounded.
THEOREM RunsAdvance == Spec => [][RunAdvances]_vars
  <1>1. TypeInv /\ [Next]_vars => [RunAdvances]_vars
    <2>. SUFFICES ASSUME TypeInv, Next, pc = "running", pc' = "running"
                  PROVE  i' > i \/ (i' = i /\ polls' > polls)
      BY DEF RunAdvances
    <2>1. i \in Nat /\ polls \in Nat
      BY ScriptCommands DEF TypeInv, TypeOK
    <2>2. ~Start /\ ~Replug /\ ~SendFails /\ ~Killed
      BY DEF Start, Replug, SendFails, Killed, Ended
    <2>3. ASSUME NEW queue, NEW late, Receives(queue, late)
          PROVE  i' > i \/ (i' = i /\ polls' > polls)
      <3>1. ~Ended("completed") /\ ~Ended("failed")
        BY DEF Ended
      <3>2. i' = i + 1 \/ PollAgain
        BY <2>3, <3>1 DEF Receives
      <3>. QED
        BY <2>1, <3>2 DEF PollAgain
    <2>. QED
      BY <2>2, <2>3 DEF Next, Run, Answered, AnsweredLate, Unanswered, CommandLost,
         EraseRefused, EraseIneffective
  <1>. QED
    BY <1>1, TypeInvariance, PTL DEF Spec

-----------------------------------------------------------------------------
(* A run on a bridge with nothing unread, as long as nothing fails. *)

\* Where in the windows a position of the script is.
LEMMA FourWindows ==
    ASSUME NEW k \in 4..ClearBase(0)
    PROVE  \E w \in Windows : \E j \in 1..EraseLen : k = EraseBase(w) + j
  <1>. DEFINE e == EraseLen
  <1>1. e \in Nat
    BY SectorCounts
  <1>2. /\ EraseBase(0) = 3 + 0 * e /\ EraseBase(1) = 3 + 1 * e
        /\ EraseBase(2) = 3 + 2 * e /\ EraseBase(3) = 3 + 3 * e
        /\ ClearBase(0) = 3 + 4 * e + 9 * 0
    BY DEF EraseBase, ClearBase
  <1>. HIDE DEF e
  <1>3. k \in Int /\ k >= 4 /\ k =< 3 + 4 * e
    BY <1>1, <1>2
  <1>4. ASSUME NEW w \in Windows, NEW b \in Nat, EraseBase(w) = b, b < k, k =< b + e
        PROVE  \E j \in 1..e : k = EraseBase(w) + j
    <2>1. k - b \in 1..e /\ k = b + (k - b)
      BY <1>1, <1>3, <1>4
    <2>. QED
      BY <1>4, <2>1
  <1>5. CASE k =< 3 + e
    <2>1. EraseBase(0) = 3 /\ 3 < k
      BY <1>1, <1>2, <1>3
    <2>2. \E j \in 1..e : k = EraseBase(0) + j
      BY <1>4, <1>5, <2>1 DEF Windows
    <2>. QED
      BY <2>2 DEF Windows, e
  <1>6. CASE 3 + e < k /\ k =< 3 + e + e
    <2>1. EraseBase(1) = 3 + e /\ 3 + e \in Nat
      BY <1>1, <1>2
    <2>2. \E j \in 1..e : k = EraseBase(1) + j
      BY <1>4, <1>6, <2>1 DEF Windows
    <2>. QED
      BY <2>2 DEF Windows, e
  <1>7. CASE 3 + e + e < k /\ k =< 3 + e + e + e
    <2>1. EraseBase(2) = 3 + e + e /\ 3 + e + e \in Nat
      BY <1>1, <1>2
    <2>2. \E j \in 1..e : k = EraseBase(2) + j
      BY <1>4, <1>7, <2>1 DEF Windows
    <2>. QED
      BY <2>2 DEF Windows, e
  <1>8. CASE 3 + e + e + e < k
    <2>1. /\ EraseBase(3) = 3 + e + e + e /\ 3 + e + e + e \in Nat
          /\ k =< 3 + e + e + e + e
      BY <1>1, <1>2, <1>3
    <2>2. \E j \in 1..e : k = EraseBase(3) + j
      BY <1>4, <1>8, <2>1 DEF Windows
    <2>. QED
      BY <2>2 DEF Windows, e
  <1>. QED
    BY <1>1, <1>3, <1>5, <1>6, <1>7, <1>8

\* The commands of the windows neither reset the bridge nor read.
LEMMA WindowOnly ==
    ASSUME NEW k \in 4..ClearBase(0)
    PROVE  Script[k].op \in {"word", "byte", "erase"}
  <1>1. PICK w \in Windows, j \in 1..EraseLen : k = EraseBase(w) + j
    BY FourWindows
  <1>2. Script[k] = EraseBank(w)[j]
    BY <1>1, ScriptAt, EraseBankAt DEF Holds
  <1>3. SectorCount \in Nat /\ j \in 1..15 + SectorCount
    BY SectorCounts DEF EraseLen
  <1>4. CASE j \in 1..11
    <2>1. EraseBank(w)[j] = SelectWindow(w)[j]
      BY <1>4, EraseBankAt
    <2>2. SelectWindow(w)[j] \in {Word, WordTo("window", w), Byte(0), Byte(1)}
      BY <1>4 DEF SelectWindow
    <2>. QED
      BY <1>2, <2>1, <2>2 DEF Word, WordTo, Byte, Cmd
  <1>5. CASE j \in 12..11 + SectorCount
    <2>1. j - 11 \in 1..SectorCount /\ j = 11 + (j - 11)
      BY <1>3, <1>5
    <2>2. EraseBank(w)[j] = Erase(SectorAddresses(w)[j - 11])
      BY <2>1, EraseBankAt
    <2>. QED
      BY <1>2, <2>2 DEF Erase, Cmd
  <1>6. CASE j \in 12 + SectorCount..15 + SectorCount
    <2>1. j - (11 + SectorCount) \in 1..4 /\ j = 11 + SectorCount + (j - (11 + SectorCount))
      BY <1>3, <1>6
    <2>2. EraseBank(w)[j] = FinishOperation[j - (11 + SectorCount)]
      BY <2>1, EraseBankAt
    <2>3. FinishOperation[j - (11 + SectorCount)] \in {Word, Byte(0), Byte(1)}
      BY <2>1 DEF FinishOperation
    <2>. QED
      BY <1>2, <2>2, <2>3 DEF Word, Byte, Cmd
  <1>. QED
    BY <1>3, <1>4, <1>5, <1>6

\* Every answer fits the buffer of the caller that waits for it.
LEMMA AnswerFits ==
    ASSUME NEW c \in WipeCommands, NEW st \in {0, 1}, NEW n \in Nat,
           Len(Answer(c, st)) = n
    PROVE  (n - 1) * FullPacket + Answer(c, st)[n].len =< Buffer(c)
  <1>1. CASE c.op \in {"reset", "poll"}
    <2>1. Answer(c, st) = <<Packet(1, "status", 0, st)>> /\ Buffer(c) = 1
      BY <1>1 DEF Answer, Buffer
    <2>2. n = 1
      BY <2>1
    <2>. QED
      BY <2>1, <2>2 DEF Packet, FullPacket
  <1>2. CASE c.op \in {"byte", "erase", "setup", "word", "payload"}
    <2>. DEFINE p == Packet(13, c.op, IF c.op \in {"byte", "erase", "setup"} THEN c.val ELSE 0,
                            st)
    <2>1. Answer(c, st) = <<p>> /\ p.len = 13
      BY <1>2 DEF Answer, Packet
    <2>. HIDE DEF p
    <2>2. n = 1 /\ Answer(c, st)[1].len = 13
      BY <2>1
    <2>3. Buffer(c) \in {13, 64}
      BY <1>2 DEF Buffer
    <2>4. (n - 1) * FullPacket = 0 /\ Answer(c, st)[n].len = 13
      BY <2>2 DEF FullPacket
    <2>. QED
      BY <2>3, <2>4
  <1>3. CASE c = Read(172)
    <2>. DEFINE p(j) == Packet(IF j * FullPacket =< 172 THEN FullPacket
                               ELSE 172 % FullPacket, "data", 0, st)
    <2>1. (172 + FullPacket - 1) \div FullPacket = 3 /\ 172 % FullPacket = 44
      BY DEF FullPacket
    <2>2. Answer(c, st) = [j \in 1..3 |-> p(j)] /\ Buffer(c) = 172
      BY <1>3, <2>1 DEF Answer, Read, Cmd, Buffer
    <2>3. p(3).len = 44
      BY <2>1 DEF Packet, FullPacket
    <2>. HIDE DEF p
    <2>4. Len([j \in 1..3 |-> p(j)]) = 3 /\ [j \in 1..3 |-> p(j)][3] = p(3)
      OBVIOUS
    <2>. QED
      BY <2>2, <2>3, <2>4 DEF FullPacket
  <1>4. CASE c = Read(32)
    <2>. DEFINE p(j) == Packet(IF j * FullPacket =< 32 THEN FullPacket
                               ELSE 32 % FullPacket, "data", 0, st)
    <2>1. (32 + FullPacket - 1) \div FullPacket = 1 /\ 32 % FullPacket = 32
      BY DEF FullPacket
    <2>2. Answer(c, st) = [j \in 1..1 |-> p(j)] /\ Buffer(c) = 32
      BY <1>4, <2>1 DEF Answer, Read, Cmd, Buffer
    <2>3. p(1).len = 32
      BY <2>1 DEF Packet, FullPacket
    <2>. HIDE DEF p
    <2>4. Len([j \in 1..1 |-> p(j)]) = 1 /\ [j \in 1..1 |-> p(j)][1] = p(1)
      OBVIOUS
    <2>. QED
      BY <2>2, <2>3, <2>4 DEF FullPacket
  <1>. QED
    BY <1>1, <1>2, <1>3, <1>4 DEF WipeCommands, Reset, Poll, Setup, Word, WordTo, Byte,
       Payload, Erase, Read, Cmd

\* The IN that meets its own answer alone returns the whole of it.
LEMMA AnswerIsGot ==
    ASSUME NEW c \in WipeCommands, NEW st \in {0, 1}
    PROVE  /\ BulkIn(Answer(c, st), Buffer(c)).good
           /\ BulkIn(Answer(c, st), Buffer(c)).got = Answer(c, st)
  <1>. DEFINE queue == Answer(c, st)
              max == Buffer(c)
              last == CHOOSE j \in Ends(queue, max) :
                          \A k \in Ends(queue, max) : j =< k
  <1>1. PICK n \in Nat :
            /\ n > 0 /\ Len(queue) = n /\ queue[n].len < FullPacket
            /\ \A j \in 1..n - 1 : j * FullPacket < max /\ queue[j].len = FullPacket
    BY AnswerShape
  <1>2. queue \in Seq(Packets) /\ max \in Nat
    BY AnswerShape
  <1>3. (n - 1) * FullPacket + queue[n].len =< max
    BY <1>1, AnswerFits
  <1>. HIDE DEF queue, max
  <1>4. Ends(queue, max) = {n}
    <2>1. n \in Ends(queue, max)
      BY <1>1 DEF Ends
    <2>2. ASSUME NEW j \in Ends(queue, max), j # n PROVE FALSE
      <3>1. j \in 1..n - 1
        BY <1>1, <2>2 DEF Ends
      <3>2. queue[j].len < FullPacket \/ j * FullPacket >= max
        BY <2>2 DEF Ends
      <3>3. j * FullPacket < max /\ queue[j].len = FullPacket
        BY <1>1, <3>1
      <3>. QED
        BY <1>2, <3>1, <3>2, <3>3 DEF FullPacket
    <2>. QED
      BY <2>1, <2>2
  <1>5. last = n
    <2>1. (CHOOSE j \in {n} : \A k \in {n} : j =< k) = n
      BY <1>1
    <2>. QED
      BY <1>4, <2>1
  <1>6. SubSeq(queue, 1, n) = queue
    <2>. DEFINE t == SubSeq(queue, 1, n)
    <2>1. \A k \in 1..n : queue[k] \in Packets
      BY <1>1, <1>2, ElementOfSeq
    <2>2. t \in Seq(Packets) /\ Len(t) = n /\ \A k \in 1..n - 1 + 1 : t[k] = queue[1 + k - 1]
      BY <1>1, <2>1, SubSeqProperties
    <2>. HIDE DEF t
    <2>3. \A k \in 1..n : t[k] = queue[k]
      BY <1>1, <2>2
    <2>4. t = queue
      BY <1>1, <1>2, <2>2, <2>3, SeqEqual
    <2>. QED
      BY <2>4 DEF t
  <1>7. BulkIn(queue, max).good /\ BulkIn(queue, max).got = SubSeq(queue, 1, n)
    BY <1>3, <1>4, <1>5 DEF BulkIn
  <1>. QED
    BY <1>6, <1>7 DEF queue, max

\* With nothing unread in front of it an answered command passes, unless its
\* answer reports something else than the caller waits for: 00 to 0x98 is asked
\* for again, and at the last attempt it ends the run.
LEMMA AnswerDecides ==
    ASSUME TypeInv, q = <<>>, pc = "running", NEW st \in {0, 1},
           Receives(q \o Answer(Current, st), <<>>),
           Current.op = "poll" \/ st = 0
    PROVE  \/ pc' = "running" \/ result' = "completed"
           \/ /\ Current.op = "poll" /\ st = 0 /\ polls + 1 = ReadinessAttempts
              /\ result' = "failed"
  <1>. DEFINE in == BulkIn(Answer(Current, st), Buffer(Current))
  <1>1. Current \in WipeCommands
    BY CurrentCommand DEF TypeInv, TypeOK
  <1>2. q \o Answer(Current, st) = Answer(Current, st)
    BY <1>1, AnswerShape, ConcatEmptySeq
  <1>3. in.good /\ in.got = Answer(Current, st)
    BY <1>1, AnswerIsGot
  <1>4. LET accepted == in.good /\ Accepts(Current, in.got)
            again == in.good /\ Current.op = "poll" /\ in.got = NotReady
        IN  \/ accepted /\ i < Len(Script) /\ i' = i + 1 /\ polls' = 0
               /\ UNCHANGED <<pc, result>>
            \/ accepted /\ i = Len(Script) /\ Ended("completed")
            \/ again /\ PollAgain
            \/ again /\ polls + 1 = ReadinessAttempts /\ Ended("failed")
            \/ ~accepted /\ ~again /\ Ended("failed")
    BY <1>2 DEF Receives
  <1>. HIDE DEF in
  <1>5. CASE Current.op # "poll"
    <2>1. Accepts(Current, in.got)
      BY <1>3, <1>5 DEF Accepts, Expected
    <2>. QED
      BY <1>3, <1>4, <1>5, <2>1 DEF Ended
  <1>6. CASE Current.op = "poll" /\ st = 1
    <2>1. Accepts(Current, in.got)
      BY <1>3, <1>6 DEF Accepts, Expected
    <2>2. in.got # NotReady
      <3>1. in.got = <<Packet(1, "status", 0, 1)>> /\ NotReady = <<Packet(1, "status", 0, 0)>>
        BY <1>3, <1>6 DEF Answer, NotReady, Poll, Cmd
      <3>2. Packet(1, "status", 0, 1).st # Packet(1, "status", 0, 0).st
        BY DEF Packet
      <3>3. <<Packet(1, "status", 0, 1)>>[1] # <<Packet(1, "status", 0, 0)>>[1]
        BY <3>2
      <3>. QED
        BY <3>1, <3>3
    <2>. QED
      BY <1>3, <1>4, <2>1, <2>2 DEF Ended
  <1>7. CASE Current.op = "poll" /\ st = 0
    <2>1. in.got = NotReady
      BY <1>3, <1>7 DEF NotReady, Answer, Poll, Cmd
    <2>. QED
      BY <1>3, <1>4, <1>7, <2>1 DEF Ended, PollAgain
  <1>. QED
    BY <1>5, <1>6, <1>7

\* A run that meets no fault and found nothing unread: it is in step, the
\* bridge is set up once 0x99 was sent, and the commands it passed have done
\* what they are for; so a blank read finds a blank card.
Healthy ==
    /\ q = <<>>
    /\ pc = "running" =>
        /\ result = "none" /\ weak = {}
        /\ i > 3 => setup
        /\ SoFar /\ Lag(0, 0)

\* The status bytes a healthy run is answered with are those it waits for.
LEMMA HealthyStatus ==
    ASSUME TypeInv, Healthy, pc = "running", NEW st \in Statuses
    PROVE  Current.op = "poll" \/ st = 0
  <1>1. Current \in WipeCommands /\ i \in 1..Len(Script) /\ i \in Nat
    BY CurrentCommand, ScriptCommands DEF TypeInv, TypeOK
  <1>2. CASE Current.op = "erase"
    <2>1. i > 3
      BY <1>1, <1>2, Opening DEF Current, Reset, Poll, Setup, Cmd
    <2>. QED
      BY <1>2, <2>1 DEF Healthy, Statuses
  <1>3. CASE Current.op = "read"
    <2>1. i > ClearBase(0)
      <3>1. i > 3
        BY <1>1, <1>3, Opening DEF Current, Reset, Poll, Setup, Cmd
      <3>2. ClearBase(0) \in Nat
        BY Bases
      <3>. QED
        BY <1>1, <1>3, <3>1, <3>2, WindowOnly DEF Current
    <2>2. ASSUME NEW u \in Units PROVE flash[u] = "erased"
      <3>1. PICK w \in Windows, k \in 1..SectorCount :
                u \in SectorUnits(w, SectorAddresses(w)[k])
        BY SectorsCover
      <3>2. EraseBase(w) + 11 + k < i
        <4>1. /\ EraseBase(w) \in Nat /\ EraseBase(w) + EraseLen =< ClearBase(0)
              /\ ClearBase(0) \in Nat /\ SectorCount \in Nat
          BY Bases, SectorCounts
        <4>. QED
          BY <1>1, <2>1, <4>1 DEF EraseLen
      <3>3. Cleaned(u) /\ weak = {}
        BY <3>1, <3>2 DEF Healthy, SoFar, ErasedSoFar
      <3>. QED
        BY <3>3 DEF Cleaned
    <2>3. st \in {IF flash[u] = "erased" THEN 0 ELSE 1 : u \in Units}
      BY <1>3 DEF Statuses
    <2>. QED
      BY <2>2, <2>3
  <1>4. CASE Current.op \notin {"poll", "erase", "read"}
    BY <1>4 DEF Statuses
  <1>. QED
    BY <1>2, <1>3, <1>4

\* 0x99 is not undone: only 0x97 does, and a run sends it once, first.
LEMMA SetupStays ==
    ASSUME TypeInv, Healthy, pc = "running", NEW kept, Executes(kept),
           i' = i + 1 \/ (Current.op = "poll" /\ i' = i), i' > 3
    PROVE  setup'
  <1>1. i \in 1..Len(Script) /\ i \in Nat
    BY ScriptCommands DEF TypeInv, TypeOK
  <1>2. CASE i = 3
    <2>1. Current.op = "setup"
      BY <1>2, Opening DEF Current, Setup, Cmd
    <2>. QED
      BY <2>1 DEF Executes
  <1>3. CASE i > 3
    <2>1. Current.op # "reset"
      <3>1. ClearBase(0) \in Nat
        BY Bases
      <3>2. CASE i =< ClearBase(0)
        BY <1>1, <1>3, <3>1, <3>2, WindowOnly DEF Current
      <3>3. CASE i > ClearBase(0)
        BY <1>1, <3>3, TailCommands DEF Current
      <3>. QED
        BY <1>1, <3>1, <3>2, <3>3
    <2>. QED
      BY <1>3, <2>1 DEF Healthy, Executes
  <1>. QED
    BY <1>1, <1>2, <1>3

\* What a step without a fault does to a healthy run: it fails in one way only,
\* a card that is not ready at the last attempt, which it is nearer to then.
HealthyStep ==
    Healthy /\ faults' = faults =>
        /\ Healthy'
        /\ pc = "running" /\ pc' = "idle" =>
            \/ result' = "completed"
            \/ /\ result' = "failed" /\ Current.op = "poll"
               /\ warm > 0 /\ polls + 1 = ReadinessAttempts
        /\ pc = "running" /\ Current.op = "poll" /\ warm \in 1..(MaxWarm - 1) =>
            warm' = warm - 1

LEMMA HealthyRun ==
    ASSUME TypeInv, Healthy, Run, faults' = faults
    PROVE  HealthyStep
  <1>1. faults \in Nat /\ i \in Nat
    BY DEF TypeInv, TypeOK
  <1>2. Answered /\ pc = "running"
    BY <1>1 DEF Run, Answered, AnsweredLate, Unanswered, CommandLost, SendFails, Killed,
       EraseRefused, EraseIneffective, Fault
  <1>3. PICK st \in Statuses : Receives(q \o Answer(Current, st), <<>>)
    BY <1>2 DEF Answered
  <1>4. Executes({}) /\ q = <<>> /\ st \in {0, 1}
    BY <1>2, StatusValues DEF Answered, Healthy
  <1>5. q' = <<>>
    BY <1>2, <1>3, <1>4, AnswerIsRead
  <1>6. Current.op = "poll" \/ st = 0
    BY <1>2, HealthyStatus
  <1>7. \/ pc' = "running" \/ result' = "completed"
        \/ /\ Current.op = "poll" /\ st = 0 /\ polls + 1 = ReadinessAttempts
           /\ result' = "failed"
    BY <1>2, <1>3, <1>4, <1>6, AnswerDecides
  <1>8. Current.op = "poll" /\ st = 0 => warm > 0
    <2>1. warm \in Nat
      BY DEF TypeInv, TypeOK
    <2>. QED
      BY <2>1 DEF Statuses
  <1>9. Current.op = "poll" /\ warm \in 1..(MaxWarm - 1) => warm' = warm - 1
    BY <1>4 DEF Executes
  <1>10. ASSUME pc' = "running"
         PROVE  /\ result' = "none" /\ weak' = {}
                /\ i' > 3 => setup'
                /\ SoFar' /\ Lag(0, 0)'
    <2>1. i' = i + 1 \/ (Current.op = "poll" /\ i' = i)
      <3>1. \/ i < Len(Script) /\ i' = i + 1 /\ UNCHANGED <<pc, result>>
            \/ i = Len(Script) /\ Ended("completed")
            \/ Current.op = "poll" /\ i' = i /\ UNCHANGED <<pc, result>>
        BY <1>2, <1>4, <1>10, InStepMove, Zenon
      <3>. QED
        BY <1>10, <3>1 DEF Ended
    <2>2. result' = "none"
      <3>1. \/ i < Len(Script) /\ i' = i + 1 /\ UNCHANGED <<pc, result>>
            \/ i = Len(Script) /\ Ended("completed")
            \/ Current.op = "poll" /\ i' = i /\ UNCHANGED <<pc, result>>
        BY <1>2, <1>4, <1>10, InStepMove, Zenon
      <3>. QED
        BY <1>2, <1>10, <3>1 DEF Ended, Healthy
    <2>3. weak' = {}
      BY <1>2, <1>4 DEF Executes, Healthy
    <2>4. i' > 3 => setup'
      BY <1>2, <1>4, <2>1, SetupStays
    <2>5. SoFar /\ Lag(0, 0)
      BY <1>2 DEF Healthy
    <2>6. i \in 7..14 + SectorCount => win = 0
      BY <2>5 DEF Lag
    <2>7. SoFar'
      BY <1>2, <1>4, <1>10, <2>5, <2>6, SoFarOn
    <2>8. Lag(0, 0)'
      <3>1. 0 \in Nat /\ 0 \in 0..0
        OBVIOUS
      <3>. QED
        BY <1>2, <1>4, <1>10, <2>5, <3>1, InStepKept
    <2>. QED
      BY <2>2, <2>3, <2>4, <2>7, <2>8
  <1>11. Healthy'
    BY <1>5, <1>10 DEF Healthy
  <1>. QED
    BY <1>7, <1>8, <1>9, <1>11 DEF HealthyStep

LEMMA HealthyStart ==
    ASSUME TypeInv, Healthy, Start
    PROVE  Healthy'
  <1>1. /\ q' = <<>> /\ pc' = "running" /\ i' = 1 /\ result' = "none" /\ weak' = {}
        /\ faults' = faults /\ faults \in Nat
    BY DEF Start, FullCard, Healthy, TypeInv, TypeOK
  <1>2. SoFar'
    <2>1. (i \in Nat /\ i =< 15 => SoFar)'
      BY NothingYet, PTL
    <2>. QED
      BY <1>1, <2>1
  <1>3. Len(q') = 0 /\ \A k \in 1..Len(q') : FALSE
    BY <1>1
  <1>4. Lag(0, 0)'
    BY <1>1, <1>3 DEF Lag, LeastFaults
  <1>. QED
    BY <1>1, <1>2, <1>4 DEF Healthy

\* A wipe that starts on a bridge with nothing unread, as after a replug, and
\* meets no fault, completes or ends at a readiness poll of a card that is not
\* ready: no leftover of an earlier run, no state the bridge or the card was
\* left in, and no command of the script makes it fail.  Each poll of a card
\* that warms up brings it nearer, so with RunsAdvance only an empty slot makes
\* run after run fail.
THEOREM HealthyRunsComplete == Spec => [][HealthyStep /\ (Replug => Healthy')]_vars
  <1>1. TypeInv /\ [Next]_vars => [HealthyStep /\ (Replug => Healthy')]_vars
    <2>. SUFFICES ASSUME TypeInv, Next
                  PROVE  HealthyStep /\ (Replug => Healthy')
      OBVIOUS
    <2>1. CASE Start
      <3>1. pc = "idle" /\ ~Replug
        BY <2>1 DEF Start, Replug, host
      <3>. QED
        BY <2>1, <3>1, HealthyStart DEF HealthyStep
    <2>2. CASE Replug
      <3>1. pc = "idle" /\ pc' = "idle" /\ q' = <<>>
        BY <2>2 DEF Replug, host
      <3>. QED
        BY <3>1 DEF HealthyStep, Healthy
    <2>3. CASE Run
      <3>1. ~Replug
        BY <2>3 DEF Run, Answered, AnsweredLate, Unanswered, CommandLost, SendFails, Killed,
           EraseRefused, EraseIneffective, Replug
      <3>2. CASE Healthy /\ faults' = faults
        BY <2>3, <3>1, <3>2, HealthyRun
      <3>3. CASE ~(Healthy /\ faults' = faults)
        BY <3>1, <3>3 DEF HealthyStep
      <3>. QED
        BY <3>2, <3>3
    <2>. QED
      BY <2>1, <2>2, <2>3 DEF Next
  <1>. QED
    BY <1>1, TypeInvariance, PTL DEF Spec
=============================================================================
