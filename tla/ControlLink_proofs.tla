-------------------------- MODULE ControlLink_proofs --------------------------
(***************************************************************************)
(* The safety of the control connection, for any number of threads, any     *)
(* capacity of either direction and any number of registers.                *)
(***************************************************************************)
EXTENDS ControlLink, SequenceTheorems, TLAPS

-----------------------------------------------------------------------------
(* Bytes that move from one sequence to the end of another. *)

LEMMA TakeAndDrop ==
    ASSUME NEW S, NEW t \in Seq(S), NEW n \in 0..Len(t)
    PROVE  /\ SubSeq(t, 1, n) \in Seq(S) /\ Len(SubSeq(t, 1, n)) = n
           /\ \A i \in 1..n : SubSeq(t, 1, n)[i] = t[i]
           /\ Drop(t, n) \in Seq(S) /\ Len(Drop(t, n)) = Len(t) - n
           /\ \A i \in 1..(Len(t) - n) : Drop(t, n)[i] = t[n + i]
           /\ SubSeq(t, 1, n) \o Drop(t, n) = t
<1>0. Len(t) \in Nat
  BY LenProperties
<1>1. \A i \in 1..Len(t) : t[i] \in S
  BY ElementOfSeq
<1>2. \A i \in 1..n : t[i] \in S
  BY <1>0, <1>1
<1>3. \A i \in (n + 1)..Len(t) : t[i] \in S
  BY <1>0, <1>1
<1>4. /\ SubSeq(t, 1, n) \in Seq(S) /\ Len(SubSeq(t, 1, n)) = n
      /\ \A i \in 1..n : SubSeq(t, 1, n)[i] = t[i]
  <2>1. /\ SubSeq(t, 1, n) \in Seq(S)
        /\ Len(SubSeq(t, 1, n)) = IF 1 <= n THEN n - 1 + 1 ELSE 0
        /\ \A i \in 1..n - 1 + 1 : SubSeq(t, 1, n)[i] = t[1 + i - 1]
    BY <1>0, <1>2, SubSeqProperties
  <2> QED
    BY <1>0, <2>1
<1>5. /\ Drop(t, n) \in Seq(S) /\ Len(Drop(t, n)) = Len(t) - n
      /\ \A i \in 1..(Len(t) - n) : Drop(t, n)[i] = t[n + i]
  <2>1. /\ Drop(t, n) \in Seq(S)
        /\ Len(Drop(t, n)) = IF n + 1 <= Len(t) THEN Len(t) - (n + 1) + 1 ELSE 0
        /\ \A i \in 1..Len(t) - (n + 1) + 1 : Drop(t, n)[i] = t[(n + 1) + i - 1]
    BY <1>0, <1>3, SubSeqProperties DEF Drop
  <2> QED
    BY <1>0, <2>1
<1>6. SubSeq(t, 1, n) \o Drop(t, n) = t
  <2>0. 1 \in 1..Len(t) + 1 /\ n \in 1 - 1..Len(t) /\ Len(t) \in n..Len(t)
    BY <1>0
  <2>1. SubSeq(t, 1, n) \o SubSeq(t, n + 1, Len(t)) = SubSeq(t, 1, Len(t))
    BY <2>0, ConcatAdjacentSubSeq
  <2> QED
    BY <2>1, SubSeqFull DEF Drop
<1> QED
  BY <1>4, <1>5, <1>6

LEMMA MovedBytes ==
    ASSUME NEW S, NEW s \in Seq(S), NEW t \in Seq(S), NEW n \in 0..Len(t)
    PROVE  /\ s \o SubSeq(t, 1, n) \in Seq(S)
           /\ Len(s \o SubSeq(t, 1, n)) = Len(s) + n
           /\ (s \o SubSeq(t, 1, n)) \o Drop(t, n) = s \o t
<1> DEFINE head == SubSeq(t, 1, n)
           tail == Drop(t, n)
<1>1. head \in Seq(S) /\ Len(head) = n
  BY TakeAndDrop
<1>2. tail \in Seq(S)
  BY TakeAndDrop
<1>3. head \o tail = t
  BY TakeAndDrop
<1> HIDE DEF head, tail
<1>4. s \o head \in Seq(S) /\ Len(s \o head) = Len(s) + n
  BY <1>1, ConcatProperties
<1>5. (s \o head) \o tail = s \o (head \o tail)
  BY <1>1, <1>2, ConcatAssociative, SMTT(30)
<1> QED
  BY <1>3, <1>4, <1>5 DEF head, tail

\* One sequence behind another, byte by byte.
LEMMA Joined ==
    ASSUME NEW S, NEW s \in Seq(S), NEW t \in Seq(S)
    PROVE  /\ s \o t \in Seq(S) /\ Len(s \o t) = Len(s) + Len(t)
           /\ \A i \in 1..Len(s) : (s \o t)[i] = s[i]
           /\ \A i \in 1..Len(t) : (s \o t)[Len(s) + i] = t[i]
<1> DEFINE r == s \o t
<1>1. Len(s) \in Nat /\ Len(t) \in Nat
  BY LenProperties
<1>2. /\ r \in Seq(S) /\ Len(r) = Len(s) + Len(t)
      /\ \A i \in 1..Len(s) + Len(t) : r[i] = IF i <= Len(s) THEN s[i] ELSE t[i - Len(s)]
  BY ConcatProperties, Zenon
<1> HIDE DEF r
<1>3. ASSUME NEW i \in 1..Len(s) PROVE r[i] = s[i]
  BY <1>1, <1>2
<1>4. ASSUME NEW i \in 1..Len(t) PROVE r[Len(s) + i] = t[i]
  BY <1>1, <1>2
<1>5. /\ r \in Seq(S) /\ Len(r) = Len(s) + Len(t)
      /\ \A i \in 1..Len(s) : r[i] = s[i]
      /\ \A i \in 1..Len(t) : r[Len(s) + i] = t[i]
  BY <1>2, <1>3, <1>4
<1> QED
  BY <1>5 DEF r

LEMMA JoinedBytes == \A s, t \in Seq(Byte) :
    /\ s \o t \in Seq(Byte) /\ Len(s \o t) = Len(s) + Len(t)
    /\ \A i \in 1..Len(s) : (s \o t)[i] = s[i]
    /\ \A i \in 1..Len(t) : (s \o t)[Len(s) + i] = t[i]
  BY Joined

(* What the packets look like. *)

LEMMA OneByte ==
    ASSUME NEW x \in Byte
    PROVE  <<x>> \in Seq(Byte) /\ Len(<<x>>) = 1 /\ <<x>>[1] = x
  OBVIOUS

LEMMA Bytes ==
    ASSUME NEW v \in Uint16
    PROVE  /\ WriteUint16LE(v) \in Seq(Byte) /\ Len(WriteUint16LE(v)) = 2
           /\ WriteUint16LE(v)[1] \in Byte /\ WriteUint16LE(v)[2] \in Byte
           /\ WriteUint16LE(v)[1] + 256 * WriteUint16LE(v)[2] = v
<1>1. v % 256 \in Byte /\ v \div 256 \in Byte /\ (v % 256) + 256 * (v \div 256) = v
  BY DEF Byte, Uint16
<1> DEFINE lo == v % 256
           hi == v \div 256
<1>2. lo \in Byte /\ hi \in Byte /\ lo + 256 * hi = v
  BY <1>1
<1>3. WriteUint16LE(v) = <<lo, hi>>
  BY DEF WriteUint16LE
<1> HIDE DEF lo, hi
<1>4. <<lo, hi>> \in Seq(Byte) /\ Len(<<lo, hi>>) = 2 /\ <<lo, hi>>[1] = lo /\ <<lo, hi>>[2] = hi
  BY <1>2
<1> QED
  BY <1>2, <1>3, <1>4

\* A type and a number of 16 bits are three bytes, from which both are read again.
ThreeBytes(wire, type, v) ==
    wire \in Seq(Byte) /\ Len(wire) = 3 /\ wire[1] = type /\ ReadUint16LE(wire, 2) = v

LEMMA FirstBytes ==
    ASSUME NEW type \in Byte, NEW v \in Uint16
    PROVE  ThreeBytes(<<type>> \o WriteUint16LE(v), type, v)
<1> DEFINE number == WriteUint16LE(v)
           one == <<type>>
           wire == one \o number
<1>1. number \in Seq(Byte) /\ Len(number) = 2
  BY Bytes
<1>2. number[1] + 256 * number[2] = v
  BY Bytes
<1>3. one \in Seq(Byte) /\ Len(one) = 1 /\ one[1] = type
  BY OneByte
<1> HIDE DEF number, one
<1>4. /\ wire \in Seq(Byte) /\ Len(wire) = Len(one) + Len(number)
      /\ \A i \in 1..Len(one) : wire[i] = one[i]
      /\ \A i \in 1..Len(number) : wire[Len(one) + i] = number[i]
  <2>1. one \in Seq(Byte) /\ number \in Seq(Byte)
    BY <1>1, <1>3
  <2> QED
    BY <2>1, Joined
<1> HIDE DEF wire
<1>5. wire[1] = type /\ wire[2] = number[1] /\ wire[3] = number[2] /\ Len(wire) = 3
  BY <1>1, <1>3, <1>4
<1>6. ReadUint16LE(wire, 2) = v
  BY <1>2, <1>5 DEF ReadUint16LE
<1>7. ThreeBytes(wire, type, v)
  BY <1>4, <1>5, <1>6 DEF ThreeBytes
<1> QED
  BY <1>7 DEF wire, one, number

AnswerTypes == {MsgReturnStatus, MsgConfigAck}
Answers == {<<type, v, w>> : type \in AnswerTypes, v \in Uint16, w \in Uint16}

\* An answer is five bytes, from which the client reads it again.
LEMMA AnswerBytes ==
    ASSUME NEW a \in Answers
    PROVE  /\ Answer(a) \in Seq(Byte) /\ Len(Answer(a)) = AnswerSize
           /\ Answer(a)[1] \in AnswerTypes
           /\ Parse(Answer(a)) = a
<1>1. PICK type \in AnswerTypes, v \in Uint16, w \in Uint16 : a = <<type, v, w>>
  BY DEF Answers
<1>2. type \in Byte
  BY DEF AnswerTypes, MsgReturnStatus, MsgConfigAck, Byte
<1> DEFINE first == <<type>> \o WriteUint16LE(v)
           last == WriteUint16LE(w)
<1>3. first \in Seq(Byte) /\ Len(first) = 3 /\ first[1] = type /\ ReadUint16LE(first, 2) = v
  BY <1>2, FirstBytes DEF ThreeBytes
<1>4. last \in Seq(Byte) /\ Len(last) = 2
  BY Bytes
<1>5. last[1] + 256 * last[2] = w
  BY Bytes
<1>6. Answer(a) = first \o last
  BY <1>1 DEF Answer
<1> HIDE DEF first, last
<1>7. /\ Answer(a) \in Seq(Byte) /\ Len(Answer(a)) = Len(first) + Len(last)
      /\ \A i \in 1..Len(first) : Answer(a)[i] = first[i]
      /\ \A i \in 1..Len(last) : Answer(a)[Len(first) + i] = last[i]
  <2>1. /\ first \o last \in Seq(Byte) /\ Len(first \o last) = Len(first) + Len(last)
        /\ \A i \in 1..Len(first) : (first \o last)[i] = first[i]
        /\ \A i \in 1..Len(last) : (first \o last)[Len(first) + i] = last[i]
    <3>1. first \in Seq(Byte) /\ last \in Seq(Byte)
      BY <1>3, <1>4
    <3> QED
      BY <3>1, Joined
  <2> QED
    BY <1>6, <2>1, Zenon
<1>8. /\ Answer(a)[1] = first[1] /\ Answer(a)[2] = first[2] /\ Answer(a)[3] = first[3]
      /\ Answer(a)[4] = last[1] /\ Answer(a)[5] = last[2] /\ Len(Answer(a)) = 5
  BY <1>3, <1>4, <1>7
<1>9. ReadUint16LE(Answer(a), 2) = v /\ ReadUint16LE(Answer(a), 4) = w
  BY <1>3, <1>5, <1>8 DEF ReadUint16LE
<1>10. Parse(Answer(a)) = a
  BY <1>1, <1>3, <1>8, <1>9 DEF Parse
<1> QED
  BY <1>3, <1>7, <1>8, <1>10 DEF AnswerSize

\* A packet tells its length in its first three bytes.
LEMMA PacketBytes ==
    ASSUME NEW p \in Packets
    PROVE  /\ p \in Seq(Byte) /\ Len(p) >= 3
           /\ p[1] \in {MsgControl, MsgQueryStatus, MsgConfig}
           /\ p[1] # MsgConfig => Len(p) = 3
           /\ p[1] = MsgConfig => Len(p) = 3 + ReadUint16LE(p, 2)
<1>1. ASSUME NEW bits \in ControlBits, p = SerializeCommandPacket(bits)
      PROVE  p \in Seq(Byte) /\ Len(p) = 3 /\ p[1] = MsgControl
  <2>1. bits \in Uint16 /\ MsgControl \in Byte
    BY LinkAssumption, SMTT(30) DEF Reset, TriggerOnce, MsgControl, Byte, Uint16
  <2>2. p = <<MsgControl>> \o WriteUint16LE(bits)
    BY <1>1 DEF SerializeCommandPacket
  <2> QED
    BY <2>1, <2>2, FirstBytes DEF ThreeBytes
<1>2. CASE p = SerializeQueryStatusPacket
  <2>1. 0 \in Uint16 /\ MsgQueryStatus \in Byte
    BY DEF MsgQueryStatus, Byte, Uint16
  <2>2. p = <<MsgQueryStatus>> \o WriteUint16LE(0)
    BY <1>2 DEF SerializeQueryStatusPacket
  <2>3. p \in Seq(Byte) /\ Len(p) = 3 /\ p[1] = MsgQueryStatus
    BY <2>1, <2>2, FirstBytes DEF ThreeBytes
  <2> QED
    BY <2>3 DEF MsgQueryStatus, MsgConfig
<1>3. CASE p = SerializeFullConfigPacket([i \in 1..RegCount |-> 0])
  <2> DEFINE regs == [i \in 1..RegCount |-> 0]
             first == <<MsgConfig>> \o WriteUint16LE(RegCount)
  <2>1. RegCount \in Nat /\ RegCount \in Uint16 /\ MsgConfig \in Byte
    <3>1. RegCount \in Uint16
      BY RegCountAssumption
    <3>2. \A v \in Uint16 : v \in Nat
      BY DEF Uint16
    <3>3. MsgConfig \in Byte
      BY DEF MsgConfig, Byte
    <3> QED
      BY <3>1, <3>2, <3>3
  <2>2. regs \in Seq(Byte) /\ Len(regs) = RegCount
    BY <2>1 DEF Byte
  <2>3. p = first \o regs
    BY <1>3, <2>2 DEF SerializeFullConfigPacket
  <2>4. /\ first \in Seq(Byte) /\ Len(first) = 3
        /\ first[1] = MsgConfig /\ ReadUint16LE(first, 2) = RegCount
    BY <2>1, FirstBytes DEF ThreeBytes
  <2> HIDE DEF regs, first
  <2>5. /\ p \in Seq(Byte) /\ Len(p) = Len(first) + Len(regs)
        /\ \A i \in 1..Len(first) : p[i] = first[i]
    <3>1. /\ first \o regs \in Seq(Byte) /\ Len(first \o regs) = Len(first) + Len(regs)
          /\ \A i \in 1..Len(first) : (first \o regs)[i] = first[i]
      BY <2>2, <2>4, Joined
    <3> QED
      BY <2>3, <3>1, Zenon
  <2>6. Len(p) = 3 + RegCount /\ p[1] = first[1] /\ p[2] = first[2] /\ p[3] = first[3]
    BY <2>1, <2>2, <2>4, <2>5
  <2> QED
    BY <2>1, <2>4, <2>5, <2>6 DEF ReadUint16LE
<1>4. \/ \E bits \in ControlBits : p = SerializeCommandPacket(bits)
      \/ p = SerializeQueryStatusPacket
      \/ p = SerializeFullConfigPacket([i \in 1..RegCount |-> 0])
  BY DEF Packets
<1>5. ASSUME p \in Seq(Byte), Len(p) = 3, p[1] = MsgControl
      PROVE  /\ p[1] \in {MsgControl, MsgQueryStatus, MsgConfig} /\ p[1] # MsgConfig
             /\ Len(p) >= 3
  BY <1>5 DEF MsgControl, MsgConfig
<1> QED
  BY <1>1, <1>2, <1>3, <1>4, <1>5

\* The FPGA that has as many bytes as it takes the command to have, of which the
\* first are a packet's, has that packet.
LEMMA PacketIsTaken ==
    ASSUME NEW p \in Packets, NEW g \in Seq(Byte), Len(g) = CommandLength(g), Len(g) > 1,
           \A j \in 1..Len(p) : j <= Len(g) => g[j] = p[j]
    PROVE  g = p
<1>1. /\ p \in Seq(Byte) /\ Len(p) >= 3 /\ Len(p) \in Nat /\ Len(g) \in Nat
      /\ p[1] \in {MsgControl, MsgQueryStatus, MsgConfig}
      /\ p[1] # MsgConfig => Len(p) = 3
      /\ p[1] = MsgConfig => Len(p) = 3 + ReadUint16LE(p, 2)
  BY PacketBytes, LenProperties
<1>2. g # <<>> /\ g[1] = p[1] /\ g[1] \in {MsgControl, MsgQueryStatus, MsgConfig}
  BY <1>1
<1>3. Len(g) >= 3 => g[2] = p[2] /\ g[3] = p[3]
  BY <1>1
<1>4. Len(g) = Len(p)
  <2>1. CASE p[1] # MsgConfig
    BY <1>1, <1>2, <2>1 DEF CommandLength
  <2>2. CASE p[1] = MsgConfig
    <3>1. Len(g) >= 3
      <4>1. Len(g) >= 3 \/ CommandLength(g) = 3
        BY <1>2, <2>2 DEF CommandLength
      <4> QED
        BY <1>1, <4>1
    <3>2. Len(g) = 3 + ReadUint16LE(g, 2)
      BY <1>1, <1>2, <2>2, <3>1 DEF CommandLength
    <3> QED
      BY <1>1, <1>3, <2>2, <3>1, <3>2 DEF ReadUint16LE
  <2> QED
    BY <2>1, <2>2
<1> QED
  BY <1>1, <1>4, SeqEqual

-----------------------------------------------------------------------------
(* Types, and what control_send_mutex_ protects. *)

\* The thread that holds the mutex is the one that sends.  Its packet is the last
\* of sent, and none before it that was cut short is later.
ClientInv ==
    /\ pc \in [Callers -> {"idle", "locking", "sending"}]
    /\ todo \in [Callers -> Seq(Byte)]
    /\ sendLock \in Callers \cup {NoThread}
    /\ calls \in 0..MaxSends
    /\ sent \in Seq(Packets) /\ cut \in 0..Len(sent)
    /\ \A t \in Callers :
        /\ pc[t] = "sending" <=> sendLock = t
        /\ pc[t] = "locking" => todo[t] \in Packets
        /\ pc[t] = "sending" => cut < Len(sent) /\ Len(todo[t]) <= Len(sent[Len(sent)])

WorkerInv ==
    /\ running \in BOOLEAN /\ reported \in BOOLEAN /\ broken \in BOOLEAN
    /\ loop \in {"recv", "callback", "report", "ended"}
    /\ reply \in Seq(Byte)

\* callback_mutex_ is the worker's that is in a callback, and only from there does
\* its thread send.
ListenerInv ==
    /\ callbackLock \in {Worker, Image, NoThread} /\ frames \in 0..MaxFrames
    /\ callbackLock = Worker <=> loop = "callback"
    /\ \A t \in {Worker, Image} : pc[t] # "idle" => callbackLock = t

WireInv ==
    /\ up \in Seq(Byte) /\ Len(up) <= UpCapacity
    /\ down \in Seq(Byte) /\ Len(down) <= DownCapacity

FpgaInv ==
    /\ fpga \in {"recv", "answer", "ended", "closed"}
    /\ got \in Seq(Byte) /\ answer \in Seq(Byte)
    /\ handled \in Seq(Seq(Byte)) /\ answered \in Seq(Answers)

BaseInv == ClientInv /\ WorkerInv /\ WireInv /\ FpgaInv /\ faults \in 0..MaxFaults

LEMMA Bounds ==
    /\ UpCapacity \in Nat /\ DownCapacity \in Nat
    /\ MaxSends \in Nat /\ MaxFrames \in Nat /\ MaxFaults \in Nat
    /\ NoThread \notin Callers
  BY LinkAssumption

LEMMA Listeners ==
    /\ Worker \in Callers /\ Image \in Callers /\ Worker # Image
    /\ NoThread # Worker /\ NoThread # Image
<1>1. Worker \in Callers /\ Image \in Callers /\ Worker # Image
  BY DEF Callers, Worker, Image
<1> QED
  BY <1>1, Bounds

LEMMA PacketsAreBytes == \A p \in Packets : p \in Seq(Byte) /\ Len(p) \in Nat /\ Len(p) >= 3
  BY PacketBytes, LenProperties

LEMMA BaseInit == Init => BaseInv
<1> SUFFICES ASSUME Init PROVE BaseInv
  OBVIOUS
<1>1. pc \in [Callers -> {"idle", "locking", "sending"}] /\ todo \in [Callers -> Seq(Byte)]
  BY DEF Init
<1>2. \A t \in Callers : pc[t] = "idle" /\ sendLock # t
  BY Bounds DEF Init
<1>3. sendLock \in Callers \cup {NoThread} /\ calls \in 0..MaxSends /\ faults \in 0..MaxFaults
  BY Bounds DEF Init
<1>4. sent \in Seq(Packets) /\ Len(sent) = 0 /\ cut = 0
  BY DEF Init
<1>5. ClientInv
  BY <1>1, <1>2, <1>3, <1>4 DEF ClientInv
<1>6. WorkerInv
  <2>1. reply \in Seq(Byte)
    BY DEF Init
  <2>2. running = TRUE /\ reported = FALSE /\ broken = FALSE /\ loop = "recv"
    BY DEF Init
  <2> QED
    BY <2>1, <2>2 DEF WorkerInv
<1>7. WireInv
  BY Bounds DEF Init, WireInv
<1>8. FpgaInv
  BY DEF Init, FpgaInv
<1> QED
  BY <1>3, <1>5, <1>6, <1>7, <1>8 DEF BaseInv

\* The steps of a sendXxx() keep what the mutex protects.
LEMMA SendCallKeeps ==
    ASSUME ClientInv, NEW t \in Callers, SendCall(t)
    PROVE  ClientInv'
<1>1. PICK packet \in Packets : todo' = [todo EXCEPT ![t] = packet]
  BY DEF SendCall
<1>2. /\ pc[t] = "idle" /\ calls < MaxSends /\ calls' = calls + 1
      /\ pc' = [pc EXCEPT ![t] = "locking"]
      /\ UNCHANGED <<sendLock, sent, cut>>
  BY DEF SendCall
<1>3. packet \in Seq(Byte)
  BY PacketsAreBytes
<1>4. todo' \in [Callers -> Seq(Byte)]
  BY <1>1, <1>3 DEF ClientInv
<1>5. pc' \in [Callers -> {"idle", "locking", "sending"}]
  BY <1>2 DEF ClientInv
<1>6. calls' \in 0..MaxSends
  BY <1>2, Bounds DEF ClientInv
<1>7. ASSUME NEW u \in Callers
      PROVE  /\ pc'[u] = "sending" <=> sendLock' = u
             /\ pc'[u] = "locking" => todo'[u] \in Packets
             /\ pc'[u] = "sending" => cut' < Len(sent') /\ Len(todo'[u]) <= Len(sent'[Len(sent')])
  <2>1. CASE u = t
    <3>1. pc'[u] = "locking" /\ todo'[u] = packet /\ sendLock # u
      BY <1>1, <1>2, <2>1 DEF ClientInv
    <3> QED
      BY <1>2, <3>1
  <2>2. CASE u # t
    <3>1. pc'[u] = pc[u] /\ todo'[u] = todo[u]
      BY <1>1, <1>2, <2>2 DEF ClientInv
    <3> QED
      BY <1>2, <3>1 DEF ClientInv
  <2> QED
    BY <2>1, <2>2
<1> QED
  BY <1>2, <1>4, <1>5, <1>6, <1>7 DEF ClientInv

LEMMA SendLocksKeeps ==
    ASSUME ClientInv, NEW t \in Callers, SendLocks(t)
    PROVE  ClientInv'
<1>1. /\ pc[t] = "locking" /\ sendLock = NoThread /\ todo[t] \in Packets
      /\ UNCHANGED <<cut, calls>>
  BY DEF SendLocks, ClientInv
<1>2. \A u \in Callers : pc[u] # "sending"
  BY <1>1, Bounds DEF ClientInv
<1>3. Len(sent) \in Nat
  BY LenProperties DEF ClientInv
<1>4. CASE running
  <2>1. /\ pc' = [pc EXCEPT ![t] = "sending"] /\ sendLock' = t
        /\ sent' = Append(sent, todo[t]) /\ todo' = todo
    BY <1>4 DEF SendLocks
  <2>2. sent' \in Seq(Packets) /\ Len(sent') = Len(sent) + 1 /\ sent'[Len(sent) + 1] = todo[t]
    BY <1>1, <2>1, AppendProperties DEF ClientInv
  <2>3. cut' \in 0..Len(sent') /\ cut' < Len(sent') /\ sent'[Len(sent')] = todo[t]
    BY <1>1, <1>3, <2>2 DEF ClientInv
  <2>4. pc' \in [Callers -> {"idle", "locking", "sending"}]
    BY <2>1 DEF ClientInv
  <2>5. Len(todo[t]) \in Nat
    BY <1>1, PacketsAreBytes
  <2>6. ASSUME NEW u \in Callers
        PROVE  /\ pc'[u] = "sending" <=> sendLock' = u
               /\ pc'[u] = "locking" => todo'[u] \in Packets
               /\ pc'[u] = "sending" =>
                    cut' < Len(sent') /\ Len(todo'[u]) <= Len(sent'[Len(sent')])
    <3>1. CASE u = t
      <4>1. pc'[u] = "sending" /\ sendLock' = u /\ todo'[u] = todo[t]
        BY <2>1, <3>1 DEF ClientInv
      <4> QED
        BY <2>3, <2>5, <4>1
    <3>2. CASE u # t
      <4>1. pc'[u] = pc[u] /\ sendLock' # u /\ todo'[u] = todo[u]
        BY <2>1, <3>2 DEF ClientInv
      <4> QED
        BY <1>2, <4>1 DEF ClientInv
    <3> QED
      BY <3>1, <3>2
  <2> QED
    BY <1>1, <2>1, <2>2, <2>3, <2>4, <2>6 DEF ClientInv
<1>5. CASE ~running
  <2>1. /\ pc' = [pc EXCEPT ![t] = "idle"] /\ todo' = [todo EXCEPT ![t] = <<>>]
        /\ UNCHANGED <<sendLock, sent>>
    BY <1>5 DEF SendLocks
  <2>2. todo' \in [Callers -> Seq(Byte)]
    BY <2>1 DEF ClientInv
  <2>3. pc' \in [Callers -> {"idle", "locking", "sending"}]
    BY <2>1 DEF ClientInv
  <2>4. ASSUME NEW u \in Callers
        PROVE  /\ pc'[u] # "sending" /\ sendLock' # u
               /\ pc'[u] = "locking" => todo'[u] \in Packets
    <3>1. sendLock' # u
      BY <1>1, <2>1, Bounds
    <3>2. pc'[u] # "sending" /\ (pc'[u] = "locking" => todo'[u] \in Packets)
      BY <1>2, <2>1 DEF ClientInv
    <3> QED
      BY <3>1, <3>2
  <2> QED
    BY <1>1, <2>1, <2>2, <2>3, <2>4 DEF ClientInv
<1> QED
  BY <1>4, <1>5 DEF WorkerInv

LEMMA SendChunkKeeps ==
    ASSUME ClientInv, NEW t \in Callers, SendChunk(t)
    PROVE  ClientInv'
<1>1. PICK n \in 1..Len(todo[t]) : todo' = [todo EXCEPT ![t] = Drop(@, n)]
  BY DEF SendChunk
<1>2. pc[t] = "sending" /\ UNCHANGED <<pc, sendLock, calls, sent, cut>>
  BY DEF SendChunk
<1>3. todo[t] \in Seq(Byte) /\ Len(todo[t]) \in Nat
  BY LenProperties DEF ClientInv
<1>4. n \in 0..Len(todo[t]) /\ n \in Nat
  BY <1>3
<1>5. Drop(todo[t], n) \in Seq(Byte)
  BY <1>3, <1>4, TakeAndDrop
<1>6. Len(Drop(todo[t], n)) = Len(todo[t]) - n
  BY <1>3, <1>4, TakeAndDrop
<1>7. todo' \in [Callers -> Seq(Byte)]
  BY <1>1, <1>5 DEF ClientInv
<1>8. sent[Len(sent)] \in Seq(Byte) /\ Len(sent[Len(sent)]) \in Nat
  <2>1. Len(sent) \in 1..Len(sent)
    BY <1>2, LenProperties DEF ClientInv
  <2>2. sent[Len(sent)] \in Packets
    BY <2>1, ElementOfSeq DEF ClientInv
  <2> QED
    BY <2>2, PacketsAreBytes
<1>9. ASSUME NEW u \in Callers
      PROVE  /\ pc'[u] = "sending" <=> sendLock' = u
             /\ pc'[u] = "locking" => todo'[u] \in Packets
             /\ pc'[u] = "sending" => cut' < Len(sent') /\ Len(todo'[u]) <= Len(sent'[Len(sent')])
  <2>1. CASE u = t
    <3>1. todo'[u] = Drop(todo[t], n)
      BY <1>1, <2>1 DEF ClientInv
    <3>2. Len(todo'[u]) <= Len(todo[t])
      BY <1>3, <1>4, <1>6, <3>1
    <3>3. sendLock = t /\ cut < Len(sent) /\ Len(todo[t]) <= Len(sent[Len(sent)])
      BY <1>2 DEF ClientInv
    <3>4. Len(todo'[u]) <= Len(sent[Len(sent)])
      BY <1>3, <1>4, <1>6, <1>8, <3>1, <3>3
    <3> QED
      BY <1>2, <2>1, <3>3, <3>4
  <2>2. CASE u # t
    <3>1. todo'[u] = todo[u]
      BY <1>1, <2>2 DEF ClientInv
    <3> QED
      BY <1>2, <3>1 DEF ClientInv
  <2> QED
    BY <2>1, <2>2
<1> QED
  BY <1>2, <1>7, <1>9 DEF ClientInv

\* When a sendXxx() is over nobody sends.
LEMMA GivesUpKeeps ==
    ASSUME ClientInv, NEW t \in Callers, pc[t] = "sending", GivesUp(t)
    PROVE  ClientInv'
<1>1. /\ pc' = [pc EXCEPT ![t] = "idle"] /\ todo' = [todo EXCEPT ![t] = <<>>]
      /\ sendLock' = NoThread /\ UNCHANGED calls
  BY DEF GivesUp
<1>2. sendLock = t /\ cut < Len(sent)
  BY DEF ClientInv
<1>3. Len(sent) \in Nat /\ cut \in Nat
  BY LenProperties DEF ClientInv
<1>4. todo' \in [Callers -> Seq(Byte)]
  BY <1>1 DEF ClientInv
<1>5. pc' \in [Callers -> {"idle", "locking", "sending"}]
  BY <1>1 DEF ClientInv
<1>6. ASSUME NEW u \in Callers
      PROVE  /\ pc'[u] # "sending" /\ sendLock' # u
             /\ pc'[u] = "locking" => todo'[u] \in Packets
  <2>1. sendLock' # u
    BY <1>1, Bounds
  <2>2. CASE u = t
    BY <1>1, <2>1, <2>2 DEF ClientInv
  <2>3. CASE u # t
    <3>1. pc'[u] = pc[u] /\ todo'[u] = todo[u] /\ pc[u] # "sending"
      BY <1>1, <1>2, <2>3 DEF ClientInv
    <3> QED
      BY <2>1, <3>1 DEF ClientInv
  <2> QED
    BY <2>2, <2>3
<1>7. sent' \in Seq(Packets) /\ cut' \in 0..Len(sent')
  <2>1. CASE todo[t] = sent[Len(sent)]
    <3>1. sent' = SubSeq(sent, 1, Len(sent) - 1) /\ cut' = cut
      BY <2>1 DEF GivesUp
    <3>2. Len(sent) - 1 \in 0..Len(sent)
      BY <1>2, <1>3
    <3>3. sent' \in Seq(Packets) /\ Len(sent') = Len(sent) - 1
      BY <3>1, <3>2, TakeAndDrop DEF ClientInv
    <3> QED
      BY <1>2, <1>3, <3>1, <3>3
  <2>2. CASE todo[t] # sent[Len(sent)]
    <3>1. sent' = sent /\ cut' = (IF cut = 0 THEN Len(sent) ELSE cut)
      BY <2>2 DEF GivesUp
    <3> QED
      BY <1>2, <1>3, <3>1 DEF ClientInv
  <2> QED
    BY <2>1, <2>2
<1> QED
  BY <1>1, <1>4, <1>5, <1>6, <1>7 DEF ClientInv

LEMMA SendReturnsKeeps ==
    ASSUME ClientInv, NEW t \in Callers, SendReturns(t)
    PROVE  ClientInv'
<1>1. /\ pc[t] = "sending" /\ pc' = [pc EXCEPT ![t] = "idle"] /\ sendLock' = NoThread
      /\ UNCHANGED <<todo, calls, sent, cut>>
  BY DEF SendReturns
<1>2. pc' \in [Callers -> {"idle", "locking", "sending"}]
  BY <1>1 DEF ClientInv
<1>3. ASSUME NEW u \in Callers
      PROVE  /\ pc'[u] # "sending" /\ sendLock' # u
             /\ pc'[u] = "locking" => todo'[u] \in Packets
  <2>1. sendLock' # u
    BY <1>1, Bounds
  <2>2. pc'[u] # "sending" /\ (pc'[u] = "locking" => pc[u] = "locking")
    BY <1>1 DEF ClientInv
  <2> QED
    BY <1>1, <2>1, <2>2 DEF ClientInv
<1> QED
  BY <1>1, <1>2, <1>3 DEF ClientInv

\* What the three steps that move bytes take, in numbers.
LEMMA WorkerReceivesMoves ==
    ASSUME BaseInv, WorkerReceives
    PROVE  \E n \in 1..Len(down) :
                /\ reply' = reply \o SubSeq(down, 1, n) /\ down' = Drop(down, n)
                /\ Len(reply) + n <= AnswerLength(reply)
<1> DEFINE n == Smaller(AnswerLength(reply) - Len(reply), Len(down))
<1>1. reply' = reply \o SubSeq(down, 1, n) /\ down' = Drop(down, n)
  BY DEF WorkerReceives
<1>2. down # <<>> /\ Len(reply) < AnswerLength(reply)
  BY DEF WorkerReceives
<1>3. AnswerLength(reply) \in Nat
  BY DEF AnswerLength, AnswerSize
<1>4. Len(reply) \in Nat /\ Len(down) \in Nat /\ Len(down) # 0
  BY <1>2, LenProperties, EmptySeq DEF BaseInv, WorkerInv, WireInv
<1>5. n \in 1..Len(down) /\ Len(reply) + n <= AnswerLength(reply)
  BY <1>2, <1>3, <1>4 DEF Smaller
<1> QED
  BY <1>1, <1>5

LEMMA CommandLengthIsNat == \A g \in Seq(Byte) : CommandLength(g) \in Nat
<1> SUFFICES ASSUME NEW g \in Seq(Byte) PROVE CommandLength(g) \in Nat
  OBVIOUS
<1>1. Len(g) \in Nat /\ \A i \in 1..Len(g) : g[i] \in Byte
  BY LenProperties, ElementOfSeq
<1>2. CASE Len(g) >= 3
  <2>0. 2 \in 1..Len(g) /\ 3 \in 1..Len(g)
    BY <1>1, <1>2
  <2>1. g[2] \in Byte /\ g[3] \in Byte
    BY <1>1, <2>0
  <2>2. g[2] \in Nat /\ g[3] \in Nat
    <3>1. \A b \in Byte : b \in Nat
      BY DEF Byte
    <3> QED
      BY <2>1, <3>1
  <2> QED
    BY <2>2 DEF CommandLength, ReadUint16LE
<1>3. CASE ~(Len(g) >= 3)
  BY <1>3 DEF CommandLength
<1> QED
  BY <1>2, <1>3

LEMMA FpgaReceivesMoves ==
    ASSUME BaseInv, FpgaReceives
    PROVE  \E n \in 1..Len(up) : got' = got \o SubSeq(up, 1, n) /\ up' = Drop(up, n)
<1> DEFINE n == Smaller(CommandLength(got) - Len(got), Len(up))
<1>1. got' = got \o SubSeq(up, 1, n) /\ up' = Drop(up, n)
  BY DEF FpgaReceives
<1>2. up # <<>> /\ Len(got) < CommandLength(got)
  BY DEF FpgaReceives
<1>3. CommandLength(got) \in Nat
  BY CommandLengthIsNat DEF BaseInv, FpgaInv
<1>4. Len(got) \in Nat /\ Len(up) \in Nat /\ Len(up) # 0
  BY <1>2, LenProperties, EmptySeq DEF BaseInv, FpgaInv, WireInv
<1>5. n \in 1..Len(up)
  BY <1>2, <1>3, <1>4 DEF Smaller
<1> QED
  BY <1>1, <1>5

LEMMA FpgaAnswersMoves ==
    ASSUME BaseInv, FpgaAnswers
    PROVE  \E n \in 1..Len(answer) :
                /\ down' = down \o SubSeq(answer, 1, n) /\ answer' = Drop(answer, n)
                /\ Len(down) + n <= DownCapacity
                /\ fpga' = IF n = Len(answer) THEN "recv" ELSE "answer"
<1> DEFINE n == Smaller(DownCapacity - Len(down), Len(answer))
<1>1. /\ down' = down \o SubSeq(answer, 1, n) /\ answer' = Drop(answer, n)
      /\ fpga' = IF n = Len(answer) THEN "recv" ELSE "answer"
  BY DEF FpgaAnswers
<1>2. n > 0
  BY DEF FpgaAnswers
<1>3. Len(down) \in Nat /\ Len(answer) \in Nat /\ DownCapacity \in Nat /\ Len(down) <= DownCapacity
  BY Bounds, LenProperties DEF BaseInv, FpgaInv, WireInv
<1>4. n \in 1..Len(answer) /\ Len(down) + n <= DownCapacity
  BY <1>2, <1>3 DEF Smaller
<1> QED
  BY <1>1, <1>4

\* An answer fits in its fields.
LEMMA AnswerToIsAnswer ==
    ASSUME BaseInv
    PROVE  AnswerTo(got) \in Answers
<1>1. Len(answered) \in Nat
  BY LenProperties DEF BaseInv, FpgaInv
<1>2. (Len(answered) + 1) % 65536 \in Uint16 /\ 0 \in Uint16 /\ 1 \in Uint16
  <2>1. \A k \in Nat : k % 65536 \in Uint16
    BY DEF Uint16
  <2>2. 0 \in Uint16 /\ 1 \in Uint16
    BY DEF Uint16
  <2>3. Len(answered) + 1 \in Nat
    BY <1>1
  <2> QED
    BY <2>1, <2>2, <2>3
<1>3. ASSUME NEW type \in AnswerTypes, NEW v \in Uint16, NEW w \in Uint16
      PROVE  <<type, v, w>> \in Answers
  BY DEF Answers
<1>4. MsgReturnStatus \in AnswerTypes /\ MsgConfigAck \in AnswerTypes
  BY DEF AnswerTypes
<1> QED
  BY <1>2, <1>3, <1>4 DEF AnswerTo

LEMMA BaseNext == BaseInv /\ [Next]_vars => BaseInv'
<1> SUFFICES ASSUME BaseInv, [Next]_vars PROVE BaseInv'
  OBVIOUS
<1>1. UNCHANGED clientVars => ClientInv'
  BY DEF clientVars, BaseInv, ClientInv
<1>2. UNCHANGED <<running, workerVars>> => WorkerInv'
  BY DEF workerVars, BaseInv, WorkerInv
<1>3. UNCHANGED <<up, down>> => WireInv'
  BY DEF BaseInv, WireInv
<1>4. UNCHANGED fpgaVars => FpgaInv'
  BY DEF fpgaVars, BaseInv, FpgaInv
<1>5. ASSUME NEW t \in Callers, SendCall(t) \/ SendLocks(t) \/ SendReturns(t) PROVE BaseInv'
  <2>1. ClientInv'
    BY <1>5, SendCallKeeps, SendLocksKeeps, SendReturnsKeeps DEF BaseInv
  <2>2. UNCHANGED <<running, workerVars, up, down, fpgaVars, faults>>
    BY <1>5 DEF SendCall, SendLocks, SendReturns
  <2> QED
    BY <1>2, <1>3, <1>4, <2>1, <2>2 DEF BaseInv
<1>6. ASSUME NEW t \in Callers, SendFails(t) \/ SendFaults(t) PROVE BaseInv'
  <2>1. pc[t] = "sending" /\ GivesUp(t)
    BY <1>6 DEF SendFails, SendFaults
  <2>2. ClientInv'
    BY <2>1, GivesUpKeeps DEF BaseInv
  <2>3. UNCHANGED <<running, workerVars, up, down, fpgaVars>>
    BY <2>1 DEF GivesUp
  <2>4. faults' \in 0..MaxFaults
    BY <1>6, Bounds DEF SendFails, SendFaults, BaseInv
  <2> QED
    BY <1>2, <1>3, <1>4, <2>2, <2>3, <2>4 DEF BaseInv
<1>7. ASSUME NEW t \in Callers, SendChunk(t) PROVE BaseInv'
  <2>1. ClientInv'
    BY <1>7, SendChunkKeeps DEF BaseInv
  <2>2. UNCHANGED <<running, workerVars, down, fpgaVars, faults>>
    BY <1>7 DEF SendChunk
  <2>3. PICK n \in 1..Len(todo[t]) :
            \/ up' = up
            \/ Len(up) + n <= UpCapacity /\ up' = up \o SubSeq(todo[t], 1, n)
    BY <1>7 DEF SendChunk
  <2>4. todo[t] \in Seq(Byte) /\ up \in Seq(Byte) /\ n \in 0..Len(todo[t])
    BY LenProperties DEF BaseInv, ClientInv, WireInv
  <2>5. ASSUME up' = up PROVE WireInv'
    BY <1>3, <2>2, <2>5
  <2>6. ASSUME Len(up) + n <= UpCapacity, up' = up \o SubSeq(todo[t], 1, n)
        PROVE  WireInv'
    <3>1. up' \in Seq(Byte)
      BY <2>4, <2>6, MovedBytes
    <3>2. Len(up') = Len(up) + n
      BY <2>4, <2>6, MovedBytes
    <3> QED
      BY <2>2, <2>6, <3>1, <3>2 DEF BaseInv, WireInv
  <2>7. WireInv'
    BY <2>3, <2>5, <2>6
  <2> QED
    BY <1>2, <1>4, <2>1, <2>2, <2>7 DEF BaseInv
<1>8. CASE SessionStops
  <2>1. /\ running' = FALSE /\ UNCHANGED <<workerVars>>
        /\ UNCHANGED <<clientVars, up, down, fpgaVars, faults>>
    BY <1>8 DEF SessionStops
  <2>2. WorkerInv'
    BY <2>1 DEF workerVars, BaseInv, WorkerInv
  <2> QED
    BY <1>1, <1>3, <1>4, <2>1, <2>2 DEF BaseInv
<1>9. CASE WorkerReceives
  <2>1. PICK n \in 1..Len(down) : reply' = reply \o SubSeq(down, 1, n) /\ down' = Drop(down, n)
    BY <1>9, WorkerReceivesMoves
  <2>2. UNCHANGED <<clientVars, running, loop, told, reported, broken, up, fpgaVars, faults>>
    BY <1>9 DEF WorkerReceives
  <2>3. /\ reply \in Seq(Byte) /\ down \in Seq(Byte) /\ Len(down) \in Nat
        /\ Len(down) <= DownCapacity
    BY LenProperties DEF BaseInv, WorkerInv, WireInv
  <2>4. n \in 0..Len(down) /\ n \in Nat
    BY <2>3
  <2>5. reply' \in Seq(Byte)
    BY <2>1, <2>3, <2>4, MovedBytes
  <2>6. down' \in Seq(Byte)
    BY <2>1, <2>3, <2>4, TakeAndDrop
  <2>7. Len(down') = Len(down) - n
    BY <2>1, <2>3, <2>4, TakeAndDrop
  <2>8. Len(down') <= DownCapacity
    BY <2>3, <2>4, <2>7, Bounds
  <2>9. WireInv'
    BY <2>2, <2>6, <2>8 DEF BaseInv, WireInv
  <2>10. WorkerInv'
    BY <2>2, <2>5 DEF BaseInv, WorkerInv
  <2> QED
    BY <1>1, <1>4, <2>2, <2>9, <2>10 DEF BaseInv
<1>10. CASE WorkerTells \/ ListenerReturns \/ WorkerReports
  <2>1. UNCHANGED <<clientVars, running, up, down, fpgaVars, faults, reported, broken>>
    BY <1>10 DEF WorkerTells, ListenerReturns, WorkerReports
  <2>2. loop' \in {"recv", "callback", "report", "ended"}
    BY <1>10 DEF WorkerTells, ListenerReturns, WorkerReports
  <2>3. reply' \in Seq(Byte)
    <3>1. reply' = reply \/ reply' = <<>>
      BY <1>10 DEF WorkerTells, ListenerReturns, WorkerReports
    <3>2. reply \in Seq(Byte) /\ <<>> \in Seq(Byte)
      BY EmptySeq DEF BaseInv, WorkerInv
    <3> QED
      BY <3>1, <3>2
  <2>4. WorkerInv'
    BY <2>1, <2>2, <2>3 DEF BaseInv, WorkerInv
  <2> QED
    BY <1>1, <1>3, <1>4, <2>1, <2>4 DEF BaseInv
<1>16. CASE WorkerFails \/ WorkerFaults
  <2>1. HandleFailure /\ broken' \in {broken, TRUE} /\ faults' \in {faults, faults + 1}
    BY <1>16 DEF WorkerFails, WorkerFaults
  <2>2. faults' \in 0..MaxFaults
    BY <1>16, Bounds DEF WorkerFails, WorkerFaults, BaseInv
  <2>3. /\ UNCHANGED <<clientVars, up, down, fpgaVars, reply>>
        /\ reported' = running /\ running' = FALSE /\ loop' \in {"report", "ended"}
    BY <2>1 DEF HandleFailure
  <2>4. WorkerInv'
    BY <2>1, <2>3 DEF BaseInv, WorkerInv
  <2> QED
    BY <1>1, <1>3, <1>4, <2>2, <2>3, <2>4 DEF BaseInv
<1>17. CASE ImageCalls \/ ImageReturns
  <2>1. UNCHANGED <<clientVars, running, workerVars, up, down, fpgaVars, faults>>
    BY <1>17 DEF ImageCalls, ImageReturns
  <2> QED
    BY <1>1, <1>2, <1>3, <1>4, <2>1 DEF BaseInv
<1>11. CASE FpgaReceives
  <2>1. PICK n \in 1..Len(up) : got' = got \o SubSeq(up, 1, n) /\ up' = Drop(up, n)
    BY <1>11, FpgaReceivesMoves
  <2>2. UNCHANGED <<clientVars, running, workerVars, down, fpga, answer, handled,
                    answered, faults>>
    BY <1>11 DEF FpgaReceives
  <2>3. got \in Seq(Byte) /\ up \in Seq(Byte) /\ Len(up) \in Nat /\ Len(up) <= UpCapacity
    BY LenProperties DEF BaseInv, FpgaInv, WireInv
  <2>4. n \in 0..Len(up) /\ n \in Nat
    BY <2>3
  <2>5. got' \in Seq(Byte)
    BY <2>1, <2>3, <2>4, MovedBytes
  <2>6. up' \in Seq(Byte)
    BY <2>1, <2>3, <2>4, TakeAndDrop
  <2>7. Len(up') = Len(up) - n
    BY <2>1, <2>3, <2>4, TakeAndDrop
  <2>8. Len(up') <= UpCapacity
    BY <2>3, <2>4, <2>7, Bounds
  <2>9. WireInv'
    BY <2>2, <2>6, <2>8 DEF BaseInv, WireInv
  <2>10. FpgaInv'
    BY <2>2, <2>5 DEF BaseInv, FpgaInv
  <2> QED
    BY <1>1, <1>2, <2>2, <2>9, <2>10 DEF BaseInv
<1>12. CASE FpgaHandles
  <2>1. /\ handled' = Append(handled, got) /\ answered' = Append(answered, AnswerTo(got))
        /\ answer' = Answer(AnswerTo(got)) /\ got' = <<>> /\ fpga' = "answer"
        /\ UNCHANGED <<clientVars, running, workerVars, up, down, faults>>
    BY <1>12 DEF FpgaHandles
  <2>2. AnswerTo(got) \in Answers
    BY AnswerToIsAnswer
  <2>3. answer' \in Seq(Byte)
    BY <2>1, <2>2, AnswerBytes
  <2>4. answered' \in Seq(Answers)
    BY <2>1, <2>2, AppendProperties DEF BaseInv, FpgaInv
  <2>5. handled' \in Seq(Seq(Byte))
    BY <2>1, AppendProperties DEF BaseInv, FpgaInv
  <2>6. got' \in Seq(Byte)
    BY <2>1
  <2>7. FpgaInv'
    BY <2>1, <2>3, <2>4, <2>5, <2>6 DEF FpgaInv
  <2> QED
    BY <1>1, <1>2, <1>3, <2>1, <2>7 DEF BaseInv
<1>13. CASE FpgaAnswers
  <2>1. PICK n \in 1..Len(answer) :
            /\ down' = down \o SubSeq(answer, 1, n) /\ answer' = Drop(answer, n)
            /\ Len(down) + n <= DownCapacity
            /\ fpga' = IF n = Len(answer) THEN "recv" ELSE "answer"
    BY <1>13, FpgaAnswersMoves
  <2>2. UNCHANGED <<clientVars, running, workerVars, up, got, handled, answered, faults>>
    BY <1>13 DEF FpgaAnswers
  <2>3. down \in Seq(Byte) /\ answer \in Seq(Byte) /\ Len(answer) \in Nat
    BY LenProperties DEF BaseInv, FpgaInv, WireInv
  <2>4. n \in 0..Len(answer)
    BY <2>3
  <2>5. down' \in Seq(Byte)
    BY <2>1, <2>3, <2>4, MovedBytes
  <2>6. Len(down') = Len(down) + n
    BY <2>1, <2>3, <2>4, MovedBytes
  <2>7. answer' \in Seq(Byte)
    BY <2>1, <2>3, <2>4, TakeAndDrop
  <2>8. WireInv'
    BY <2>1, <2>2, <2>5, <2>6 DEF BaseInv, WireInv
  <2>9. FpgaInv'
    BY <2>1, <2>2, <2>7 DEF BaseInv, FpgaInv
  <2> QED
    BY <1>1, <1>2, <2>2, <2>8, <2>9 DEF BaseInv
<1>14. CASE FpgaEnds \/ FpgaFaults \/ FpgaCloses
  <2>1. UNCHANGED <<clientVars, running, workerVars, up, down>>
    BY <1>14 DEF FpgaEnds, FpgaFaults, FpgaCloses
  <2>2. fpga' \in {"ended", "closed"} /\ UNCHANGED <<got, answer, handled, answered>>
    BY <1>14 DEF FpgaEnds, FpgaFaults, FpgaCloses
  <2>4. faults' \in 0..MaxFaults
    BY <1>14, Bounds DEF FpgaEnds, FpgaFaults, FpgaCloses, BaseInv
  <2>3. FpgaInv'
    BY <2>2 DEF BaseInv, FpgaInv
  <2> QED
    BY <1>1, <1>2, <1>3, <2>1, <2>3, <2>4 DEF BaseInv
<1>15. CASE UNCHANGED vars
  <2>1. UNCHANGED <<clientVars, running, workerVars, up, down, fpgaVars, faults>>
    BY <1>15 DEF vars
  <2> QED
    BY <1>1, <1>2, <1>3, <1>4, <2>1 DEF BaseInv
<1> QED
  BY <1>5, <1>6, <1>7, <1>8, <1>9, <1>10, <1>11, <1>12, <1>13, <1>14, <1>15, <1>16, <1>17
     DEF Next, CallerStep, WorkerStep, FpgaStep

LEMMA ListenerInit == Init => ListenerInv
<1> SUFFICES ASSUME Init PROVE ListenerInv
  OBVIOUS
<1>1. \A t \in {Worker, Image} : pc[t] = "idle"
  BY Listeners DEF Init
<1>2. callbackLock = NoThread /\ frames = 0 /\ loop = "recv"
  BY DEF Init
<1> QED
  BY <1>1, <1>2, Listeners, Bounds DEF ListenerInv

\* A worker's thread calls sendXxx() from its callback only, and the callback does
\* not return before the call has.
LEMMA ListenerNext == BaseInv /\ ListenerInv /\ [Next]_vars => ListenerInv'
<1> SUFFICES ASSUME BaseInv, ListenerInv, [Next]_vars PROVE ListenerInv'
  OBVIOUS
<1>0. /\ callbackLock \in {Worker, Image, NoThread} /\ frames \in 0..MaxFrames
      /\ callbackLock = Worker <=> loop = "callback"
      /\ \A t \in {Worker, Image} : pc[t] # "idle" => callbackLock = t
      /\ pc \in [Callers -> {"idle", "locking", "sending"}]
  BY DEF ListenerInv, BaseInv, ClientInv
<1>1. ASSUME UNCHANGED <<listenerVars, loop>>,
             \A t \in {Worker, Image} : pc'[t] # "idle" => pc[t] # "idle" \/ callbackLock = t
      PROVE  ListenerInv'
  BY <1>0, <1>1 DEF ListenerInv, listenerVars
<1>2. ASSUME NEW t \in Callers, SendCall(t) PROVE ListenerInv'
  <2>1. /\ UNCHANGED <<listenerVars, loop>> /\ pc' = [pc EXCEPT ![t] = "locking"]
        /\ t \in {Worker, Image} => callbackLock = t
    BY <1>2 DEF SendCall, workerVars
  <2>2. \A u \in {Worker, Image} : pc'[u] # "idle" => pc[u] # "idle" \/ callbackLock = u
    BY <1>0, <2>1, Listeners
  <2> QED
    BY <1>1, <2>1, <2>2
<1>3. ASSUME NEW t \in Callers, SendFaults(t) \/ CallerStep(t) PROVE ListenerInv'
  <2>1. UNCHANGED <<listenerVars, loop>>
    BY <1>3 DEF SendFaults, CallerStep, SendLocks, SendChunk, SendFails, SendReturns,
                GivesUp, workerVars
  <2>2. pc[t] # "idle"
    BY <1>3 DEF SendFaults, CallerStep, SendLocks, SendChunk, SendFails, SendReturns
  <2>3. pc' = pc \/ \E place \in {"idle", "sending"} : pc' = [pc EXCEPT ![t] = place]
    BY <1>3 DEF SendFaults, CallerStep, SendLocks, SendChunk, SendFails, SendReturns, GivesUp
  <2>4. \A u \in {Worker, Image} : pc'[u] # "idle" => pc[u] # "idle" \/ callbackLock = u
    BY <1>0, <2>2, <2>3, Listeners
  <2> QED
    BY <1>1, <2>1, <2>4
<1>4. CASE SessionStops \/ WorkerReceives \/ FpgaStep \/ FpgaFaults \/ UNCHANGED vars
  <2>1. UNCHANGED <<listenerVars, loop, pc>>
    BY <1>4 DEF SessionStops, WorkerReceives, FpgaStep, FpgaReceives, FpgaHandles, FpgaAnswers,
                FpgaEnds, FpgaCloses, FpgaFaults, vars, workerVars, clientVars
  <2> QED
    BY <1>1, <2>1
<1>5. CASE WorkerFails \/ WorkerFaults
  <2>1. HandleFailure
    BY <1>5 DEF WorkerFails, WorkerFaults
  <2>2. /\ UNCHANGED <<callbackLock, frames, pc>>
        /\ loop = "recv" /\ loop' \in {"report", "ended"}
    BY <2>1 DEF HandleFailure, listenerVars, clientVars
  <2> QED
    BY <1>0, <2>2 DEF ListenerInv
<1>6. CASE WorkerTells \/ WorkerReports
  <2>1. /\ callbackLock = NoThread /\ callbackLock' = Worker /\ loop' = "callback"
        /\ UNCHANGED <<frames, pc>>
    BY <1>6 DEF WorkerTells, WorkerReports, clientVars
  <2>2. \A t \in {Worker, Image} : pc[t] = "idle"
    BY <1>0, <2>1, Listeners
  <2> QED
    BY <1>0, <2>1, <2>2 DEF ListenerInv
<1>7. CASE ListenerReturns
  <2>1. /\ loop = "callback" /\ pc[Worker] = "idle" /\ callbackLock' = NoThread
        /\ loop' \in {"recv", "ended"} /\ UNCHANGED <<frames, pc>>
    BY <1>7 DEF ListenerReturns, clientVars
  <2>2. \A t \in {Worker, Image} : pc[t] = "idle"
    BY <1>0, <2>1, Listeners
  <2> QED
    BY <1>0, <2>1, <2>2, Listeners DEF ListenerInv
<1>8. CASE ImageCalls
  <2>1. /\ callbackLock = NoThread /\ callbackLock' = Image /\ frames < MaxFrames
        /\ frames' = frames + 1 /\ UNCHANGED <<loop, pc>>
    BY <1>8 DEF ImageCalls, workerVars, clientVars
  <2>2. frames' \in 0..MaxFrames
    BY <1>0, <2>1, Bounds
  <2>3. \A t \in {Worker, Image} : pc[t] = "idle"
    BY <1>0, <2>1, Listeners
  <2> QED
    BY <1>0, <2>1, <2>2, <2>3, Listeners DEF ListenerInv
<1>9. CASE ImageReturns
  <2>1. /\ callbackLock = Image /\ pc[Image] = "idle" /\ callbackLock' = NoThread
        /\ UNCHANGED <<frames, loop, pc>>
    BY <1>9 DEF ImageReturns, workerVars, clientVars
  <2>2. \A t \in {Worker, Image} : pc[t] = "idle"
    BY <1>0, <2>1, Listeners
  <2> QED
    BY <1>0, <2>1, <2>2, Listeners DEF ListenerInv
<1> QED
  BY <1>2, <1>3, <1>4, <1>5, <1>6, <1>7, <1>8, <1>9 DEF Next, WorkerStep

-----------------------------------------------------------------------------
(* The answers. *)

\* The stream holds the answers of the list behind the first ones, five bytes each.
Carries(stream, list, first) ==
    /\ stream \in Seq(Byte) /\ list \in Seq(Answers) /\ first \in 0..Len(list)
    /\ Len(stream) = 5 * (Len(list) - first)
    /\ \A i \in 1..Len(list) - first, j \in 1..5 :
            stream[5 * (i - 1) + j] = Answer(list[first + i])[j]

LEMMA CarriesMore ==
    ASSUME NEW stream, NEW list, NEW first, Carries(stream, list, first), NEW a \in Answers
    PROVE  Carries(stream \o Answer(a), Append(list, a), first)
<1> DEFINE longer == stream \o Answer(a)
           more == Append(list, a)
           last == Answer(a)
<1>1. /\ stream \in Seq(Byte) /\ list \in Seq(Answers)
      /\ first \in Nat /\ Len(list) \in Nat /\ first <= Len(list)
      /\ Len(stream) = 5 * (Len(list) - first)
  BY LenProperties DEF Carries
<1>2. last \in Seq(Byte)
  BY AnswerBytes
<1>3. Len(last) = 5
  BY AnswerBytes DEF AnswerSize
<1>4. /\ longer \in Seq(Byte) /\ Len(longer) = Len(stream) + Len(last)
      /\ \A i \in 1..Len(stream) : longer[i] = stream[i]
      /\ \A i \in 1..Len(last) : longer[Len(stream) + i] = last[i]
  <2>1. stream \in Seq(Byte) /\ last \in Seq(Byte)
    BY <1>1, <1>2
  <2> QED
    BY <2>1, Joined
<1>5. /\ more \in Seq(Answers) /\ Len(more) = Len(list) + 1
      /\ \A i \in 1..Len(list) : more[i] = list[i]
      /\ more[Len(list) + 1] = a
  BY <1>1, AppendProperties
<1> HIDE DEF longer, more, last
<1>6. ASSUME NEW i \in 1..Len(more) - first, NEW j \in 1..5
      PROVE  longer[5 * (i - 1) + j] = Answer(more[first + i])[j]
  <2>1. CASE i \in 1..Len(list) - first
    <3>1. 5 * (i - 1) + j \in 1..Len(stream) /\ first + i \in 1..Len(list)
      BY <1>1, <2>1
    <3>2. longer[5 * (i - 1) + j] = stream[5 * (i - 1) + j] /\ more[first + i] = list[first + i]
      BY <1>4, <1>5, <3>1
    <3>3. stream[5 * (i - 1) + j] = Answer(list[first + i])[j]
      BY <2>1 DEF Carries
    <3> QED
      BY <3>2, <3>3
  <2>2. CASE i \notin 1..Len(list) - first
    <3>1. i = Len(list) - first + 1
      BY <1>1, <1>5, <2>2
    <3>2. 5 * (i - 1) + j = Len(stream) + j /\ first + i = Len(list) + 1 /\ j \in 1..Len(last)
      BY <1>1, <1>3, <3>1
    <3>3. longer[5 * (i - 1) + j] = last[j] /\ more[first + i] = a
      BY <1>4, <1>5, <3>2
    <3> QED
      BY <3>3 DEF last
  <2> QED
    BY <2>1, <2>2
<1>7. first \in 0..Len(more) /\ Len(longer) = 5 * (Len(more) - first)
  BY <1>1, <1>3, <1>4, <1>5
<1>8. Carries(longer, more, first)
  BY <1>4, <1>5, <1>6, <1>7 DEF Carries
<1> QED
  BY <1>8 DEF longer, more

\* What is in the stream begins with an answer,
LEMMA CarriesAnAnswer ==
    ASSUME NEW stream, NEW list, NEW first, Carries(stream, list, first), Len(stream) > 0
    PROVE  /\ first + 1 \in 1..Len(list) /\ Len(stream) >= 5
           /\ list[first + 1] \in Answers
           /\ \A j \in 1..5 : stream[j] = Answer(list[first + 1])[j]
           /\ stream[1] \in AnswerTypes
<1>1. /\ list \in Seq(Answers) /\ Len(list) \in Nat /\ first \in Nat /\ first <= Len(list)
      /\ Len(stream) = 5 * (Len(list) - first)
  BY LenProperties DEF Carries
<1>2. first + 1 \in 1..Len(list) /\ Len(stream) >= 5 /\ 1 \in 1..Len(list) - first
  BY <1>1
<1>3. list[first + 1] \in Answers
  BY <1>1, <1>2, ElementOfSeq
<1>4. \A i \in 1..Len(list) - first, j \in 1..5 :
            stream[5 * (i - 1) + j] = Answer(list[first + i])[j]
  BY DEF Carries
<1>5. ASSUME NEW j \in 1..5 PROVE stream[j] = Answer(list[first + 1])[j]
  <2>1. stream[5 * (1 - 1) + j] = Answer(list[first + 1])[j]
    BY <1>2, <1>4
  <2>2. 5 * (1 - 1) + j = j
    OBVIOUS
  <2> QED
    BY <2>1, <2>2
<1>6. Answer(list[first + 1])[1] \in AnswerTypes
  BY <1>3, AnswerBytes
<1>7. stream[1] = Answer(list[first + 1])[1]
  BY <1>5
<1> QED
  BY <1>2, <1>3, <1>5, <1>6, <1>7

\* and behind its five bytes are the others.
LEMMA CarriesTheRest ==
    ASSUME NEW r \in Seq(Byte), NEW rest \in Seq(Byte), NEW list, NEW first,
           Carries(r \o rest, list, first), Len(r) = 5
    PROVE  r = Answer(list[first + 1]) /\ Carries(rest, list, first + 1)
<1> DEFINE stream == r \o rest
<1>1. /\ stream \in Seq(Byte) /\ Len(stream) = Len(r) + Len(rest)
      /\ \A i \in 1..Len(r) : stream[i] = r[i]
      /\ \A i \in 1..Len(rest) : stream[Len(r) + i] = rest[i]
  BY JoinedBytes, Zenon
<1>2. Carries(stream, list, first)
  OBVIOUS
<1> HIDE DEF stream
<1>3. Len(rest) \in Nat
  BY LenProperties
<1>4. Len(stream) > 0
  BY <1>1, <1>3
<1>5. /\ first + 1 \in 1..Len(list) /\ list[first + 1] \in Answers
      /\ \A j \in 1..5 : stream[j] = Answer(list[first + 1])[j]
  BY <1>2, <1>4, CarriesAnAnswer
<1>6. Answer(list[first + 1]) \in Seq(Byte)
  BY <1>5, AnswerBytes
<1>7. Len(Answer(list[first + 1])) = 5
  BY <1>5, AnswerBytes DEF AnswerSize
<1>8. \A j \in 1..Len(r) : r[j] = Answer(list[first + 1])[j]
  BY <1>1, <1>5
<1>9. r = Answer(list[first + 1])
  BY <1>6, <1>7, <1>8, SeqEqual
<1>10. /\ list \in Seq(Answers) /\ Len(list) \in Nat /\ first \in Nat
       /\ Len(stream) = 5 * (Len(list) - first)
       /\ \A i \in 1..Len(list) - first, j \in 1..5 :
                stream[5 * (i - 1) + j] = Answer(list[first + i])[j]
  BY <1>2, LenProperties DEF Carries
<1>11. Len(rest) = 5 * (Len(list) - (first + 1)) /\ first + 1 \in 0..Len(list)
  BY <1>1, <1>3, <1>5, <1>10
<1>12. ASSUME NEW i \in 1..Len(list) - (first + 1), NEW j \in 1..5
       PROVE  rest[5 * (i - 1) + j] = Answer(list[(first + 1) + i])[j]
  <2>1. i + 1 \in 1..Len(list) - first /\ 5 * (i - 1) + j \in 1..Len(rest)
    BY <1>10, <1>11
  <2>2. stream[5 * ((i + 1) - 1) + j] = Answer(list[first + (i + 1)])[j]
    BY <1>10, <2>1
  <2>3. stream[Len(r) + (5 * (i - 1) + j)] = rest[5 * (i - 1) + j]
    BY <1>1, <2>1
  <2>4. /\ 5 * ((i + 1) - 1) + j = Len(r) + (5 * (i - 1) + j)
        /\ first + (i + 1) = (first + 1) + i
    BY <1>10, <2>1
  <2> QED
    BY <2>2, <2>3, <2>4
<1>13. Carries(rest, list, first + 1)
  BY <1>10, <1>11, <1>12 DEF Carries
<1> QED
  BY <1>9, <1>13

\* What the worker has, what is on its way and what the FPGA has still to send are
\* the answers of which the listener was not told.
AnswersInv ==
    /\ Carries((reply \o down) \o answer, answered, Len(told))
    /\ told \in Seq(Answers) /\ \A i \in 1..Len(told) : told[i] = answered[i]
    /\ Len(reply) <= AnswerLength(reply)
    /\ Len(answer) <= AnswerSize
    /\ fpga = "recv" => answer = <<>>
    /\ ErrorHasCause

\* The worker finds no answer of an unknown type.
LEMMA ReplyIsKnown ==
    ASSUME BaseInv, AnswersInv, reply # <<>>
    PROVE  AnswerLength(reply) = 5 /\ Len(reply) \in 1..5
<1>1. reply \in Seq(Byte) /\ down \in Seq(Byte) /\ answer \in Seq(Byte)
  BY DEF BaseInv, WorkerInv, WireInv, FpgaInv
<1>2. /\ reply \o down \in Seq(Byte) /\ Len(reply \o down) = Len(reply) + Len(down)
      /\ \A i \in 1..Len(reply) : (reply \o down)[i] = reply[i]
  BY <1>1, Joined
<1> DEFINE wire == reply \o down
           stream == wire \o answer
<1>3. /\ Len(stream) = Len(wire) + Len(answer)
      /\ \A i \in 1..Len(wire) : stream[i] = wire[i]
  BY <1>1, <1>2, Joined
<1>4. Len(wire) = Len(reply) + Len(down) /\ \A i \in 1..Len(reply) : wire[i] = reply[i]
  BY <1>2
<1>5. Carries(stream, answered, Len(told))
  BY DEF AnswersInv
<1> HIDE DEF wire, stream
<1>6. Len(reply) \in Nat /\ Len(reply) # 0 /\ Len(down) \in Nat /\ Len(answer) \in Nat
  BY <1>1, LenProperties, EmptySeq
<1>7. Len(stream) > 0 /\ 1 \in 1..Len(wire) /\ 1 \in 1..Len(reply)
  BY <1>3, <1>4, <1>6
<1>8. stream[1] \in AnswerTypes
  BY <1>5, <1>7, CarriesAnAnswer
<1>9. reply[1] \in AnswerTypes
  BY <1>3, <1>4, <1>7, <1>8
<1>10. AnswerLength(reply) = 5
  BY <1>9 DEF AnswerTypes, AnswerLength, AnswerSize
<1> QED
  <2>1. Len(reply) <= AnswerLength(reply)
    BY DEF AnswersInv
  <2>2. Len(reply) <= 5 /\ Len(reply) \in Nat /\ Len(reply) # 0
    BY <1>6, <1>10, <2>1, Zenon
  <2>3. \A k \in Nat : k # 0 /\ k <= 5 => k \in 1..5
    OBVIOUS
  <2> QED
    BY <1>10, <2>2, <2>3, Zenon

LEMMA AnswersInit == Init => AnswersInv
<1> SUFFICES ASSUME Init PROVE AnswersInv
  OBVIOUS
<1>1. /\ reply = <<>> /\ down = <<>> /\ answer = <<>> /\ answered = <<>> /\ told = <<>>
      /\ reported = FALSE
  BY DEF Init
<1>2. (reply \o down) \o answer = <<>>
  BY <1>1
<1>3. Len(told) = 0 /\ Len(answered) = 0
  BY <1>1
<1>4. Carries(<<>>, <<>>, 0)
  <2>1. <<>> \in Seq(Byte) /\ <<>> \in Seq(Answers) /\ Len(<<>>) = 0
    OBVIOUS
  <2>2. \A i \in 1..0 - 0, j \in 1..5 : <<>>[5 * (i - 1) + j] = Answer(<<>>[0 + i])[j]
    OBVIOUS
  <2> QED
    BY <2>1, <2>2 DEF Carries
<1>5. Carries((reply \o down) \o answer, answered, Len(told))
  BY <1>1, <1>2, <1>3, <1>4
<1>6. told \in Seq(Answers) /\ \A i \in 1..Len(told) : told[i] = answered[i]
  BY <1>1, <1>3
<1>7. Len(reply) <= AnswerLength(reply) /\ Len(answer) <= AnswerSize
  BY <1>1 DEF AnswerLength, AnswerSize
<1>8. ErrorHasCause
  BY <1>1 DEF ErrorHasCause
<1> QED
  BY <1>1, <1>5, <1>6, <1>7, <1>8 DEF AnswersInv

LEMMA WorkerReceivesAnswers ==
    ASSUME BaseInv, AnswersInv, WorkerReceives
    PROVE  AnswersInv'
<1>1. PICK n \in 1..Len(down) :
            /\ reply' = reply \o SubSeq(down, 1, n) /\ down' = Drop(down, n)
            /\ Len(reply) + n <= AnswerLength(reply)
  BY WorkerReceivesMoves
<1>2. UNCHANGED <<told, reported, broken, fpga, answer, answered>>
  BY DEF WorkerReceives, fpgaVars
<1>3. reply \in Seq(Byte) /\ down \in Seq(Byte) /\ Len(down) \in Nat
  BY LenProperties DEF BaseInv, WorkerInv, WireInv
<1>4. n \in 0..Len(down) /\ n \in 1..Len(down)
  BY <1>3
<1>5. (reply \o SubSeq(down, 1, n)) \o Drop(down, n) = reply \o down
  BY <1>3, <1>4, MovedBytes
<1>6. Len(reply \o SubSeq(down, 1, n)) = Len(reply) + n
  BY <1>3, <1>4, MovedBytes
<1>7. reply' \o down' = reply \o down /\ Len(reply') = Len(reply) + n
  BY <1>1, <1>5, <1>6
<1>8. Carries((reply' \o down') \o answer', answered', Len(told'))
  BY <1>2, <1>7 DEF AnswersInv
<1>9. Len(reply') <= AnswerLength(reply')
  <2>1. AnswerLength(reply') >= 1
    BY DEF AnswerLength, AnswerSize
  <2>2. CASE reply = <<>>
    <3>1. AnswerLength(reply) = 1
      BY <2>2 DEF AnswerLength
    <3> QED
      BY <1>1, <1>7, <2>1, <3>1
  <2>3. CASE reply # <<>>
    <3>1. AnswerLength(reply) = 5 /\ Len(reply) \in 1..5
      BY <2>3, ReplyIsKnown
    <3>2. SubSeq(down, 1, n) \in Seq(Byte)
      BY <1>3, <1>4, TakeAndDrop
    <3>3. \A i \in 1..Len(reply) : (reply \o SubSeq(down, 1, n))[i] = reply[i]
      BY <1>3, <3>2, Joined
    <3>4. reply'[1] = reply[1]
      BY <1>1, <3>1, <3>3
    <3>5. reply' # <<>>
      BY <1>3, <1>4, <1>7, <3>1
    <3>6. AnswerLength(reply') = AnswerLength(reply)
      BY <2>3, <3>4, <3>5 DEF AnswerLength
    <3> QED
      BY <1>1, <1>7, <3>6
  <2> QED
    BY <2>2, <2>3
<1> QED
  BY <1>2, <1>8, <1>9 DEF AnswersInv, ErrorHasCause

LEMMA WorkerTellsAnswers ==
    ASSUME BaseInv, AnswersInv, WorkerTells
    PROVE  AnswersInv'
<1>1. /\ Len(reply) = AnswerLength(reply) /\ Len(reply) > 1
      /\ told' = Append(told, Parse(reply)) /\ reply' = <<>>
      /\ UNCHANGED <<reported, broken, down, fpga, answer, answered>>
  BY DEF WorkerTells, fpgaVars
<1>2. /\ reply \in Seq(Byte) /\ down \in Seq(Byte) /\ answer \in Seq(Byte)
  BY DEF BaseInv, WorkerInv, WireInv, FpgaInv
<1>3. reply # <<>>
  BY <1>1
<1>4. Len(reply) = 5
  BY <1>1, <1>3, ReplyIsKnown
<1>5. (reply \o down) \o answer = reply \o (down \o answer)
  BY <1>2, ConcatAssociative
<1>6. down \o answer \in Seq(Byte)
  BY <1>2, Joined
<1>7. Carries(reply \o (down \o answer), answered, Len(told))
  BY <1>5 DEF AnswersInv
<1>8. reply = Answer(answered[Len(told) + 1]) /\ Carries(down \o answer, answered, Len(told) + 1)
  <2> DEFINE rest == down \o answer
  <2>1. rest \in Seq(Byte) /\ Carries(reply \o rest, answered, Len(told))
    BY <1>6, <1>7
  <2> HIDE DEF rest
  <2>2. reply = Answer(answered[Len(told) + 1]) /\ Carries(rest, answered, Len(told) + 1)
    BY <1>2, <1>4, <2>1, CarriesTheRest
  <2> QED
    BY <2>2 DEF rest
<1>10. Len(told) \in Nat /\ told \in Seq(Answers)
  BY LenProperties DEF AnswersInv
<1>11. Len(told) + 1 \in 1..Len(answered) /\ answered \in Seq(Answers)
  BY <1>8, <1>10 DEF Carries
<1>12. answered[Len(told) + 1] \in Answers
  BY <1>11, ElementOfSeq
<1>13. Parse(reply) = answered[Len(told) + 1]
  BY <1>8, <1>12, AnswerBytes
<1>14. /\ told' \in Seq(Answers) /\ Len(told') = Len(told) + 1
       /\ \A i \in 1..Len(told) : told'[i] = told[i]
       /\ told'[Len(told) + 1] = answered[Len(told) + 1]
  BY <1>1, <1>10, <1>12, <1>13, AppendProperties
<1>15. \A i \in 1..Len(told') : told'[i] = answered'[i]
  BY <1>1, <1>10, <1>14 DEF AnswersInv
<1>16. (reply' \o down') \o answer' = down \o answer
  BY <1>1, <1>2, ConcatEmptySeq
<1>17. Carries((reply' \o down') \o answer', answered', Len(told'))
  BY <1>1, <1>8, <1>14, <1>16
<1>18. Len(reply') <= AnswerLength(reply')
  BY <1>1 DEF AnswerLength
<1> QED
  BY <1>1, <1>14, <1>15, <1>17, <1>18 DEF AnswersInv, ErrorHasCause

LEMMA FpgaHandlesAnswers ==
    ASSUME BaseInv, AnswersInv, FpgaHandles
    PROVE  AnswersInv'
<1> DEFINE a == AnswerTo(got)
           wire == reply \o down
<1>1. /\ fpga = "recv" /\ fpga' = "answer"
      /\ answered' = Append(answered, a) /\ answer' = Answer(a)
      /\ UNCHANGED <<reported, broken, down, reply, told>>
  BY DEF FpgaHandles, workerVars
<1>2. a \in Answers
  BY AnswerToIsAnswer
<1> HIDE DEF a
<1>3. reply \in Seq(Byte) /\ down \in Seq(Byte)
  BY DEF BaseInv, WorkerInv, WireInv
<1>4. wire \in Seq(Byte)
  BY <1>3, Joined
<1>5. Carries(wire \o answer, answered, Len(told)) /\ answer = <<>>
  BY <1>1 DEF AnswersInv
<1> HIDE DEF wire
<1>6. Carries(wire, answered, Len(told))
  BY <1>4, <1>5, ConcatEmptySeq
<1>7. Carries(wire \o Answer(a), Append(answered, a), Len(told))
  BY <1>2, <1>6, CarriesMore
<1>8. Carries((reply' \o down') \o answer', answered', Len(told'))
  BY <1>1, <1>7 DEF wire
<1>9. Len(Answer(a)) = AnswerSize
  BY <1>2, AnswerBytes
<1>10. Len(answer') <= AnswerSize
  BY <1>1, <1>9 DEF AnswerSize
<1>11. /\ answered \in Seq(Answers) /\ Len(told) <= Len(answered)
       /\ Len(told) \in Nat /\ Len(answered) \in Nat
  BY <1>6, LenProperties DEF Carries, AnswersInv
<1>12. \A i \in 1..Len(answered) : answered'[i] = answered[i]
  BY <1>1, <1>2, <1>11, AppendProperties
<1>13. \A i \in 1..Len(told) : told'[i] = answered'[i]
  BY <1>1, <1>11, <1>12 DEF AnswersInv
<1>14. Len(reply') <= AnswerLength(reply') /\ ErrorHasCause'
  BY <1>1 DEF AnswersInv, ErrorHasCause
<1> QED
  BY <1>1, <1>8, <1>10, <1>13, <1>14 DEF AnswersInv

LEMMA FpgaAnswersAnswers ==
    ASSUME BaseInv, AnswersInv, FpgaAnswers
    PROVE  AnswersInv'
<1>1. PICK n \in 1..Len(answer) :
            /\ down' = down \o SubSeq(answer, 1, n) /\ answer' = Drop(answer, n)
            /\ fpga' = IF n = Len(answer) THEN "recv" ELSE "answer"
  BY FpgaAnswersMoves
<1>2. fpga = "answer" /\ UNCHANGED <<told, reported, broken, reply, answered>>
  BY DEF FpgaAnswers, workerVars
<1>3. reply \in Seq(Byte) /\ down \in Seq(Byte) /\ answer \in Seq(Byte) /\ Len(answer) \in Nat
  BY LenProperties DEF BaseInv, WorkerInv, WireInv, FpgaInv
<1>4. n \in 0..Len(answer) /\ n \in 1..Len(answer)
  BY <1>3
<1>5. SubSeq(answer, 1, n) \in Seq(Byte)
  BY <1>3, <1>4, TakeAndDrop
<1>6. Drop(answer, n) \in Seq(Byte)
  BY <1>3, <1>4, TakeAndDrop
<1>7. Len(Drop(answer, n)) = Len(answer) - n
  BY <1>3, <1>4, TakeAndDrop
<1>8. reply \o (down \o SubSeq(answer, 1, n)) = (reply \o down) \o SubSeq(answer, 1, n)
  BY <1>3, <1>5, ConcatAssociative, SMTT(30)
<1>9. reply \o down \in Seq(Byte)
  BY <1>3, Joined
<1>10. ((reply \o down) \o SubSeq(answer, 1, n)) \o Drop(answer, n) = (reply \o down) \o answer
  BY <1>3, <1>4, <1>9, MovedBytes
<1>11. (reply' \o down') \o answer' = (reply \o down) \o answer
  BY <1>1, <1>2, <1>8, <1>10
<1>12. Carries((reply' \o down') \o answer', answered', Len(told'))
  BY <1>2, <1>11 DEF AnswersInv
<1>13. Len(answer) <= AnswerSize
  BY DEF AnswersInv
<1>14. Len(answer') <= AnswerSize
  BY <1>1, <1>3, <1>4, <1>7, <1>13 DEF AnswerSize
<1>15. fpga' = "recv" => answer' = <<>>
  <2>1. SUFFICES ASSUME n = Len(answer) PROVE answer' = <<>>
    BY <1>1
  <2>2. Len(Drop(answer, n)) = 0
    BY <1>3, <1>7, <2>1
  <2> QED
    BY <1>1, <1>6, <2>2, EmptySeq
<1>16. Len(reply') <= AnswerLength(reply')
  BY <1>2 DEF AnswersInv
<1>17. told' \in Seq(Answers) /\ \A i \in 1..Len(told') : told'[i] = answered'[i]
  BY <1>2 DEF AnswersInv
<1>18. ErrorHasCause'
  BY <1>2 DEF AnswersInv, ErrorHasCause
<1> QED
  BY <1>12, <1>14, <1>15, <1>16, <1>17, <1>18 DEF AnswersInv

\* HandleWorkerFailure is called for the connection, never for an answer.
LEMMA WorkerFailsAnswers ==
    ASSUME BaseInv, AnswersInv, WorkerFails \/ WorkerFaults
    PROVE  AnswersInv'
<1>1. HandleFailure
  BY DEF WorkerFails, WorkerFaults
<1>2. reported' = running /\ UNCHANGED <<reply, told, down, answer, answered, fpga>>
  BY <1>1 DEF HandleFailure, fpgaVars
<1>3. ~(Len(reply) = AnswerLength(reply) /\ Len(reply) = 1)
  <2>1. CASE reply = <<>>
    <3>1. Len(reply) = 0
      BY <2>1
    <3> QED
      BY <3>1
  <2>2. CASE reply # <<>>
    BY <2>2, ReplyIsKnown
  <2> QED
    BY <2>1, <2>2
<1>4. ~running \/ fpga = "closed" \/ broken'
  BY <1>3 DEF WorkerFails, WorkerFaults
<1>5. ErrorHasCause'
  BY <1>2, <1>4 DEF ErrorHasCause
<1> QED
  BY <1>2, <1>5 DEF AnswersInv

LEMMA AnswersNext == BaseInv /\ AnswersInv /\ [Next]_vars => AnswersInv'
<1> SUFFICES ASSUME BaseInv, AnswersInv, [Next]_vars PROVE AnswersInv'
  OBVIOUS
<1>1. ASSUME UNCHANGED <<reply, down, answer, answered, told, reported, broken>>,
             fpga' = fpga \/ fpga' = "closed" \/ (fpga' = "ended" /\ fpga # "closed")
      PROVE  AnswersInv'
  <2>1. fpga' = "recv" => answer' = <<>>
    BY <1>1 DEF AnswersInv
  <2>2. ErrorHasCause'
    BY <1>1 DEF AnswersInv, ErrorHasCause
  <2> QED
    BY <1>1, <2>1, <2>2 DEF AnswersInv
<1>2. ASSUME NEW t \in Callers, SendCall(t) \/ SendFaults(t) \/ CallerStep(t) PROVE AnswersInv'
  <2>1. UNCHANGED <<workerVars, down, fpgaVars>>
    BY <1>2 DEF SendCall, SendFaults, CallerStep, SendLocks, SendChunk, SendFails,
                SendReturns, GivesUp
  <2> QED
    BY <1>1, <2>1 DEF workerVars, fpgaVars
<1>3. CASE SessionStops \/ ImageCalls \/ ImageReturns \/ ListenerReturns \/ WorkerReports
             \/ FpgaReceives \/ UNCHANGED vars
  <2>1. UNCHANGED <<reply, down, answer, answered, told, reported, broken, fpga>>
    BY <1>3 DEF SessionStops, ImageCalls, ImageReturns, ListenerReturns, WorkerReports,
                FpgaReceives, vars, workerVars, fpgaVars
  <2> QED
    BY <1>1, <2>1
<1>4. CASE FpgaEnds \/ FpgaFaults \/ FpgaCloses
  <2>1. /\ UNCHANGED <<reply, down, answer, answered, told, reported, broken>>
        /\ fpga' = "closed" \/ (fpga' = "ended" /\ fpga # "closed")
    BY <1>4 DEF FpgaEnds, FpgaFaults, FpgaCloses, workerVars
  <2> QED
    BY <1>1, <2>1
<1> QED
  BY <1>2, <1>3, <1>4, WorkerReceivesAnswers, WorkerTellsAnswers, WorkerFailsAnswers,
     FpgaHandlesAnswers, FpgaAnswersAnswers DEF Next, WorkerStep, FpgaStep

-----------------------------------------------------------------------------
(* The commands. *)

\* The stream begins with the packets of the list behind the first ones, as far as
\* the last: packet i ends at byte off[i] of all that was sent, and the stream is
\* what is behind byte off[first].
Framed(stream, list, first, last, off) ==
    /\ stream \in Seq(Byte) /\ list \in Seq(Packets)
    /\ first \in Nat /\ last \in 0..Len(list) /\ off \in [Nat -> Nat]
    /\ \A i \in 1..last : off[i] = off[i - 1] + Len(list[i])
    /\ \A i, j \in 0..last : i <= j => off[i] <= off[j]
    /\ \A i \in first + 1..last : \A j \in 1..Len(list[i]) :
            stream[(off[i - 1] - off[first]) + j] = list[i][j]

\* The packets in a stream lie within its bounds.
LEMMA FramedBounds ==
    ASSUME NEW stream, NEW list, NEW first, NEW last, NEW off,
           Framed(stream, list, first, last, off),
           NEW i \in first + 1..last, NEW j \in 1..Len(list[i])
    PROVE  /\ i \in 1..last /\ i \in 1..Len(list) /\ list[i] \in Packets
           /\ (off[i - 1] - off[first]) + j \in 1..off[last] - off[first]
<1>1. first \in Nat /\ last \in Nat /\ Len(list) \in Nat /\ last <= Len(list)
  BY LenProperties DEF Framed
<1>2. i \in 1..last /\ i \in 1..Len(list) /\ i - 1 \in 0..last /\ i \in 0..last
      /\ first \in 0..last /\ last \in 0..last /\ first <= i - 1 /\ i <= last
      /\ i \in Nat /\ i - 1 \in Nat
  BY <1>1
<1>3. list[i] \in Packets
  BY <1>2, ElementOfSeq DEF Framed
<1>4. Len(list[i]) \in Nat
  BY <1>3, PacketsAreBytes
<1>5. off[i] = off[i - 1] + Len(list[i]) /\ off[first] <= off[i - 1] /\ off[i] <= off[last]
  BY <1>2 DEF Framed
<1>6. off[i] \in Nat /\ off[i - 1] \in Nat /\ off[first] \in Nat /\ off[last] \in Nat
  BY <1>1, <1>2 DEF Framed
<1>7. (off[i - 1] - off[first]) + j \in 1..off[last] - off[first]
  BY <1>4, <1>5, <1>6
<1> QED
  BY <1>2, <1>3, <1>7

\* What comes behind them, in the stream or in the list, does not matter.
LEMMA FramedKept ==
    ASSUME NEW stream, NEW list, NEW first, NEW last, NEW off,
           Framed(stream, list, first, last, off),
           NEW list2 \in Seq(Packets), NEW last2 \in 0..Len(list2), last2 <= last,
           \A i \in 1..last2 : list2[i] = list[i],
           NEW stream2 \in Seq(Byte),
           \A k \in 1..off[last2] - off[first] : stream2[k] = stream[k]
    PROVE  Framed(stream2, list2, first, last2, off)
<1>1. /\ first \in Nat /\ last \in Nat /\ Len(list) \in Nat /\ last <= Len(list)
      /\ Len(list2) \in Nat /\ last2 \in Nat
  BY LenProperties DEF Framed
<1>2. \A i \in 1..last2 : i \in 1..last
  BY <1>1
<1>3. \A i \in 0..last2 : i \in 0..last
  BY <1>1
<1>4. \A i \in 1..last2 : off[i] = off[i - 1] + Len(list2[i])
  BY <1>2 DEF Framed
<1>5. \A i, j \in 0..last2 : i <= j => off[i] <= off[j]
  BY <1>3 DEF Framed
<1>6. ASSUME NEW i \in first + 1..last2, NEW j \in 1..Len(list2[i])
      PROVE  stream2[(off[i - 1] - off[first]) + j] = list2[i][j]
  <2>1. list \in Seq(Packets) /\ last2 \in 0..Len(list)
    BY <1>1 DEF Framed
  <2>2. Framed(stream, list, first, last2, off)
    <3>1. \A k \in 1..last2 : off[k] = off[k - 1] + Len(list[k])
      BY <1>2 DEF Framed
    <3>2. \A k \in first + 1..last2 : k \in first + 1..last
      BY <1>1
    <3> QED
      BY <1>5, <2>1, <3>1, <3>2 DEF Framed
  <2>3. i \in 1..last2 /\ i \in first + 1..last
    BY <1>1
  <2>4. list2[i] = list[i]
    BY <2>3
  <2>5. (off[i - 1] - off[first]) + j \in 1..off[last2] - off[first]
    BY <2>2, <2>4, FramedBounds
  <2>6. stream[(off[i - 1] - off[first]) + j] = list[i][j]
    BY <2>3, <2>4 DEF Framed
  <2> QED
    BY <2>4, <2>5, <2>6
<1>7. off \in [Nat -> Nat] /\ first \in Nat
  BY DEF Framed
<1> QED
  BY <1>4, <1>5, <1>6, <1>7 DEF Framed

\* One more packet is sent.
LEMMA FramedMore ==
    ASSUME NEW stream, NEW list, NEW first, NEW off,
           Framed(stream, list, first, Len(list), off), first <= Len(list),
           Len(stream) = off[Len(list)] - off[first],
           NEW p \in Packets
    PROVE  \E off2 :
                /\ Framed(stream \o p, Append(list, p), first, Len(list) + 1, off2)
                /\ Len(stream \o p) = off2[Len(list) + 1] - off2[first]
<1> DEFINE n == Len(list)
           off2 == [off EXCEPT ![n + 1] = off[n] + Len(p)]
           more == Append(list, p)
           longer == stream \o p
<1>1. p \in Seq(Byte) /\ Len(p) \in Nat /\ stream \in Seq(Byte)
  BY PacketsAreBytes DEF Framed
<1>2. /\ longer \in Seq(Byte) /\ Len(longer) = Len(stream) + Len(p)
      /\ \A i \in 1..Len(stream) : longer[i] = stream[i]
      /\ \A i \in 1..Len(p) : longer[Len(stream) + i] = p[i]
  BY <1>1, JoinedBytes, Zenon
<1>3. /\ more \in Seq(Packets) /\ Len(more) = n + 1
      /\ \A i \in 1..n : more[i] = list[i]
      /\ more[n + 1] = p
  BY AppendProperties DEF Framed
<1>4. n \in Nat /\ first \in Nat /\ off \in [Nat -> Nat] /\ first <= n
  BY LenProperties DEF Framed
<1>5. off[n] \in Nat /\ off[first] \in Nat /\ Len(stream) = off[n] - off[first]
  BY <1>4
<1>6. off[n] + Len(p) \in Nat
  BY <1>1, <1>5
<1>7. /\ off2 \in [Nat -> Nat] /\ off2[n + 1] = off[n] + Len(p)
      /\ \A i \in 0..n : off2[i] = off[i]
  <2> DEFINE end == off[n] + Len(p)
  <2>0. end \in Nat
    BY <1>6
  <2>a. \A k \in Nat : k + 1 \in Nat
    OBVIOUS
  <2>1. end \in Nat /\ n + 1 \in Nat /\ n \in Nat /\ off \in [Nat -> Nat]
    BY <1>4, <2>0, <2>a, Zenon
  <2> HIDE DEF end
  <2>2. [off EXCEPT ![n + 1] = end] \in [Nat -> Nat]
    BY <2>1
  <2>3. [off EXCEPT ![n + 1] = end][n + 1] = end
    BY <2>1
  <2>4. \A i \in 0..n : [off EXCEPT ![n + 1] = end][i] = off[i]
    BY <2>1
  <2> QED
    BY <2>2, <2>3, <2>4 DEF end
<1>8. /\ \A i \in 1..n : off[i] = off[i - 1] + Len(list[i])
      /\ \A i, j \in 0..n : i <= j => off[i] <= off[j]
      /\ \A i \in first + 1..n : \A j \in 1..Len(list[i]) :
              stream[(off[i - 1] - off[first]) + j] = list[i][j]
  BY DEF Framed
<1> HIDE DEF n, off2, more, longer
<1>9. ASSUME NEW i \in 1..n + 1 PROVE off2[i] = off2[i - 1] + Len(more[i])
  <2>1. CASE i = n + 1
    <3>1. off2[i - 1] = off[n]
      BY <1>4, <1>7, <2>1
    <3> QED
      BY <1>3, <1>7, <2>1, <3>1
  <2>2. CASE i # n + 1
    <3>1. i \in 1..n /\ i \in 0..n /\ i - 1 \in 0..n
      BY <1>4, <2>2
    <3> QED
      BY <1>3, <1>7, <1>8, <3>1
  <2> QED
    BY <2>1, <2>2
<1>10. ASSUME NEW i \in 0..n + 1, NEW j \in 0..n + 1, i <= j PROVE off2[i] <= off2[j]
  <2>1. CASE j # n + 1
    <3>1. i \in 0..n /\ j \in 0..n
      BY <1>4, <1>10, <2>1
    <3> QED
      BY <1>7, <1>8, <1>10, <3>1
  <2>2. CASE j = n + 1 /\ i # n + 1
    <3>1. i \in 0..n /\ n \in 0..n /\ i <= n
      BY <1>4, <2>2
    <3>2. off[i] <= off[n]
      BY <1>8, <3>1
    <3>3. off2[i] = off[i] /\ off2[j] = off[n] + Len(p)
      BY <1>7, <2>2, <3>1
    <3>4. off[i] \in Nat
      BY <1>4, <3>1, SMTT(30)
    <3> QED
      BY <1>1, <1>5, <3>2, <3>3, <3>4
  <2>3. CASE i = j
    <3>0. i \in Nat
      BY <1>4
    <3>1. off2[i] \in Nat
      BY <1>7, <3>0
    <3> QED
      BY <2>3, <3>1
  <2> QED
    BY <2>1, <2>2, <2>3
<1>11. off2[first] = off[first]
  BY <1>4, <1>7
<1>12. ASSUME NEW i \in first + 1..n + 1, NEW j \in 1..Len(more[i])
       PROVE  longer[(off2[i - 1] - off2[first]) + j] = more[i][j]
  <2>1. CASE i = n + 1
    <3>1. off2[i - 1] = off[n] /\ more[i] = p /\ j \in 1..Len(p)
      BY <1>3, <1>4, <1>7, <2>1
    <3>2. (off2[i - 1] - off2[first]) + j = Len(stream) + j
      BY <1>5, <1>11, <3>1
    <3> QED
      BY <1>2, <3>1, <3>2
  <2>2. CASE i # n + 1
    <3>1. i \in first + 1..n /\ i \in 1..n /\ i - 1 \in 0..n
      BY <1>4, <2>2
    <3>2. more[i] = list[i] /\ off2[i - 1] = off[i - 1]
      BY <1>3, <1>7, <3>1
    <3>3. (off[i - 1] - off[first]) + j \in 1..off[n] - off[first]
      BY <3>1, <3>2, FramedBounds DEF n
    <3>4. (off[i - 1] - off[first]) + j \in 1..Len(stream)
      BY <1>5, <3>3
    <3> QED
      BY <1>2, <1>8, <1>11, <3>1, <3>2, <3>4
  <2> QED
    BY <2>1, <2>2
<1>13. n + 1 \in 0..Len(more)
  BY <1>3, <1>4
<1>14. Framed(longer, more, first, n + 1, off2)
  BY <1>2, <1>3, <1>4, <1>7, <1>9, <1>10, <1>12, <1>13 DEF Framed
<1>15. Len(longer) = off2[n + 1] - off2[first]
  <2>1. /\ Len(longer) = (off[n] - off[first]) + Len(p)
        /\ off2[n + 1] = off[n] + Len(p) /\ off2[first] = off[first]
    BY <1>2, <1>5, <1>7, <1>11
  <2> QED
    BY <1>1, <1>5, <2>1
<1> QED
  BY <1>14, <1>15 DEF n, more, longer

\* The first packet is taken.
Covers(stream, first, last, off) ==
    first < last /\ Len(stream) >= off[last] - off[first]
Behind(stream, p, rest) ==
    /\ rest \in Seq(Byte) /\ Len(stream) = Len(p) + Len(rest)
    /\ \A i \in 1..Len(rest) : stream[Len(p) + i] = rest[i]

\* What is left is shorter by the first packet.
Shorter(stream, rest, first, off) ==
    Len(rest) = Len(stream) - (off[first + 1] - off[first])

LEMMA FramedRest ==
    \A stream, list, first, last, off, rest :
        /\ Framed(stream, list, first, last, off)
        /\ Covers(stream, first, last, off)
        /\ Behind(stream, list[first + 1], rest)
        => /\ Framed(rest, list, first + 1, last, off)
           /\ Shorter(stream, rest, first, off)
<1> TAKE stream, list, first, last, off, rest
<1> HAVE /\ Framed(stream, list, first, last, off)
         /\ Covers(stream, first, last, off)
         /\ Behind(stream, list[first + 1], rest)
<1> DEFINE p == list[first + 1]
<1>1. p \in Seq(Byte) /\ Len(p) \in Nat /\ Len(rest) \in Nat
  <2>1. list \in Seq(Packets) /\ first + 1 \in 1..Len(list)
    <3>1. first \in Nat /\ last \in 0..Len(list) /\ first < last /\ list \in Seq(Packets)
      BY DEF Framed, Covers
    <3>2. Len(list) \in Nat
      BY <3>1, LenProperties
    <3> QED
      BY <3>1, <3>2
  <2>2. p \in Packets
    BY <2>1, ElementOfSeq
  <2> QED
    BY <2>2, PacketsAreBytes, LenProperties DEF Behind
<1>2. /\ Len(stream) = Len(p) + Len(rest) /\ rest \in Seq(Byte)
      /\ \A i \in 1..Len(rest) : stream[Len(p) + i] = rest[i]
  BY DEF Behind
<1>3. /\ Framed(stream, list, first, last, off)
      /\ Len(stream) >= off[last] - off[first] /\ first < last
  BY DEF Covers
<1>4. /\ first \in Nat /\ last \in 0..Len(list) /\ off \in [Nat -> Nat]
      /\ list \in Seq(Packets) /\ Len(list) \in Nat
  BY <1>3, LenProperties DEF Framed
<1>5. /\ \A i \in 1..last : off[i] = off[i - 1] + Len(list[i])
      /\ \A i, j \in 0..last : i <= j => off[i] <= off[j]
  BY <1>3 DEF Framed
<1>6. \A i \in first + 1..last : \A j \in 1..Len(list[i]) :
            stream[(off[i - 1] - off[first]) + j] = list[i][j]
  BY <1>3 DEF Framed
<1>7. first + 1 \in 1..last /\ first + 1 \in Nat /\ (first + 1) - 1 = first /\ last \in Nat
  BY <1>3, <1>4
<1>8. off[first + 1] = off[first] + Len(p)
  <2>1. off[first + 1] = off[(first + 1) - 1] + Len(list[first + 1])
    BY <1>5, <1>7
  <2> QED
    BY <1>7, <2>1
<1>9. off[first] \in Nat /\ off[first + 1] \in Nat /\ off[last] \in Nat
  BY <1>4, <1>7
<1>10. Len(rest) = Len(stream) - (off[first + 1] - off[first])
  BY <1>1, <1>2, <1>8, <1>9
<1>11. ASSUME NEW i \in (first + 1) + 1..last, NEW j \in 1..Len(list[i])
       PROVE  rest[(off[i - 1] - off[first + 1]) + j] = list[i][j]
  <2>1. i \in first + 1..last /\ i - 1 \in Nat /\ i - 1 \in 0..last /\ first + 1 \in 0..last
        /\ first + 1 <= i - 1
    <3>1. first \in Nat /\ last \in Nat
      BY <1>4, <1>7
    <3> QED
      BY <3>1
  <2>2. stream[(off[i - 1] - off[first]) + j] = list[i][j]
    BY <1>6, <2>1
  <2>3. (off[i - 1] - off[first]) + j \in 1..off[last] - off[first]
    BY <1>3, <2>1, FramedBounds
  <2>4. off[i - 1] \in Nat /\ off[first + 1] <= off[i - 1]
    BY <1>4, <1>5, <2>1
  <2>5. j \in Nat /\ j >= 1
    <3>1. list[i] \in Packets
      BY <1>3, <2>1, FramedBounds
    <3>2. Len(list[i]) \in Nat
      BY <3>1, PacketsAreBytes
    <3> QED
      BY <3>2
  <2> DEFINE at == off[i - 1]
             end == off[first + 1]
             start == off[first]
             whole == off[last]
             pos == (at - end) + j
  <2>6. /\ at \in Nat /\ start \in Nat /\ whole \in Nat /\ Len(p) \in Nat /\ Len(rest) \in Nat
        /\ end = start + Len(p) /\ end <= at /\ j \in Nat /\ j >= 1
        /\ (at - start) + j \in 1..whole - start
        /\ Len(p) + Len(rest) >= whole - start
    BY <1>1, <1>2, <1>3, <1>8, <1>9, <2>3, <2>4, <2>5
  <2> HIDE DEF at, end, start, whole
  <2>7. pos \in 1..Len(rest) /\ Len(p) + pos = (at - start) + j
    BY <2>6
  <2> HIDE DEF pos
  <2>8. stream[Len(p) + pos] = rest[pos]
    BY <1>2, <2>7
  <2>9. stream[(at - start) + j] = list[i][j]
    BY <2>2 DEF at, start
  <2>10. rest[pos] = list[i][j]
    BY <2>7, <2>8, <2>9
  <2> QED
    BY <2>10 DEF pos, at, end
<1>12. Framed(rest, list, first + 1, last, off)
  BY <1>2, <1>4, <1>5, <1>7, <1>11 DEF Framed
<1> QED
  BY <1>10, <1>12 DEF Shorter

-----------------------------------------------------------------------------
\* The packets before the first that was cut short, and the bytes that the FPGA has
\* or will get of them.
Whole == IF cut = 0 THEN Len(sent) ELSE cut - 1
OnTheWay ==
    IF cut = 0 /\ sendLock # NoThread THEN (got \o up) \o todo[sendLock] ELSE got \o up

InStep(off) ==
    /\ Framed(OnTheWay, sent, Len(handled), Whole, off)
    /\ cut = 0 => Len(OnTheWay) = off[Whole] - off[Len(handled)]
    /\ Len(handled) <= Whole => Len(OnTheWay) >= off[Whole] - off[Len(handled)]

\* A packet of which nothing is out has not been handled.
UnsentIsNew ==
    sendLock # NoThread /\ cut = 0 /\ Len(todo[sendLock]) = Len(sent[Len(sent)])
        => Len(handled) < Len(sent)

\* The FPGA that has closed has let go of what was on its way.
CommandsInv ==
    /\ cut = 0 => Len(handled) <= Len(sent)
    /\ CommandsArriveInOrder
    /\ UnsentIsNew
    /\ fpga # "closed" => \E off : InStep(off)

LEMMA CommandTypes ==
    ASSUME BaseInv
    PROVE  /\ got \in Seq(Byte) /\ up \in Seq(Byte) /\ got \o up \in Seq(Byte)
           /\ OnTheWay \in Seq(Byte)
           /\ Len(sent) \in Nat /\ Len(handled) \in Nat /\ cut \in Nat /\ cut <= Len(sent)
           /\ Whole \in 0..Len(sent) /\ sent \in Seq(Packets)
           /\ DOMAIN handled = 1..Len(handled)
<1>1. got \in Seq(Byte) /\ up \in Seq(Byte)
  BY DEF BaseInv, FpgaInv, WireInv
<1>2. got \o up \in Seq(Byte)
  BY <1>1, JoinedBytes, Zenon
<1>3. sendLock # NoThread => todo[sendLock] \in Seq(Byte)
  BY DEF BaseInv, ClientInv
<1>4. sendLock # NoThread => (got \o up) \o todo[sendLock] \in Seq(Byte)
  BY <1>2, <1>3, JoinedBytes, Zenon
<1>5. OnTheWay \in Seq(Byte)
  BY <1>2, <1>4, Zenon DEF OnTheWay
<1>6. Len(sent) \in Nat /\ Len(handled) \in Nat /\ DOMAIN handled = 1..Len(handled)
  BY LenProperties DEF BaseInv, ClientInv, FpgaInv
<1>7. cut \in 0..Len(sent) /\ sent \in Seq(Packets)
  BY DEF BaseInv, ClientInv
<1>8. cut \in Nat /\ cut <= Len(sent) /\ Whole \in 0..Len(sent)
  BY <1>6, <1>7 DEF Whole
<1> QED
  BY <1>1, <1>2, <1>5, <1>6, <1>7, <1>8

\* The thread that sends.
LEMMA SenderIs ==
    ASSUME BaseInv, NEW t \in Callers, pc[t] = "sending"
    PROVE  /\ sendLock = t /\ t # NoThread /\ cut < Len(sent)
           /\ todo[t] \in Seq(Byte) /\ Len(todo[t]) \in Nat
           /\ Len(sent) \in 1..Len(sent)
           /\ sent[Len(sent)] \in Packets /\ Len(sent[Len(sent)]) \in Nat
           /\ Len(todo[t]) <= Len(sent[Len(sent)])
<1>1. /\ sendLock = t /\ cut < Len(sent) /\ Len(todo[t]) <= Len(sent[Len(sent)])
      /\ todo[t] \in Seq(Byte) /\ sent \in Seq(Packets) /\ cut \in Nat /\ Len(sent) \in Nat
  BY LenProperties DEF BaseInv, ClientInv
<1>2. Len(sent) \in 1..Len(sent)
  BY <1>1
<1>3. sent[Len(sent)] \in Packets
  BY <1>1, <1>2, ElementOfSeq
<1> QED
  BY <1>1, <1>2, <1>3, Bounds, PacketsAreBytes, LenProperties

\* A step that does not change which packets there are, nor the bytes of them.
LEMMA CommandsSame ==
    ASSUME CommandsInv, UNCHANGED <<sent, cut, handled>>, UnsentIsNew',
           fpga' # "closed" => fpga # "closed" /\ OnTheWay' = OnTheWay
    PROVE  CommandsInv'
<1>1. Whole' = Whole
  BY DEF Whole
<1>2. CommandsArriveInOrder' /\ (cut' = 0 => Len(handled') <= Len(sent'))
  BY DEF CommandsInv, CommandsArriveInOrder
<1>3. ASSUME fpga' # "closed" PROVE \E off : InStep(off)'
  <2>1. PICK off : InStep(off)
    BY <1>3 DEF CommandsInv
  <2>2. InStep(off)'
    BY <1>1, <1>3, <2>1 DEF InStep
  <2> QED
    BY <2>2
<1> QED
  BY <1>2, <1>3 DEF CommandsInv

LEMMA CommandsInit == BaseInv /\ Init => CommandsInv
<1> SUFFICES ASSUME BaseInv, Init PROVE CommandsInv
  OBVIOUS
<1>1. sent = <<>> /\ handled = <<>> /\ cut = 0 /\ sendLock = NoThread /\ got = <<>> /\ up = <<>>
  BY DEF Init
<1>2. Len(sent) = 0 /\ Len(handled) = 0 /\ Whole = 0 /\ DOMAIN handled = {}
  BY <1>1 DEF Whole
<1>3. OnTheWay = <<>>
  BY <1>1 DEF OnTheWay
<1> DEFINE off == [i \in Nat |-> 0]
<1>4. Framed(<<>>, <<>>, 0, 0, off)
  <2>1. <<>> \in Seq(Byte) /\ <<>> \in Seq(Packets) /\ Len(<<>>) = 0
    OBVIOUS
  <2>2. /\ \A i \in 1..0 : off[i] = off[i - 1] + Len(<<>>[i])
        /\ \A i, j \in 0..0 : i <= j => off[i] <= off[j]
        /\ \A i \in 0 + 1..0 : \A j \in 1..Len(<<>>[i]) :
                <<>>[(off[i - 1] - off[0]) + j] = <<>>[i][j]
    OBVIOUS
  <2>3. off \in [Nat -> Nat]
    OBVIOUS
  <2> HIDE DEF off
  <2> QED
    BY <2>1, <2>2, <2>3 DEF Framed
<1>5. Len(OnTheWay) = off[Whole] - off[Len(handled)] /\ Len(OnTheWay) = 0
  BY <1>2, <1>3
<1> HIDE DEF off
<1>6. InStep(off)
  BY <1>1, <1>2, <1>3, <1>4, <1>5 DEF InStep
<1>7. CommandsArriveInOrder /\ UnsentIsNew
  BY <1>1, <1>2 DEF CommandsArriveInOrder, UnsentIsNew
<1> QED
  BY <1>2, <1>6, <1>7 DEF CommandsInv

LEMMA SendCallCommands ==
    ASSUME BaseInv, CommandsInv, NEW t \in Callers, SendCall(t)
    PROVE  CommandsInv'
<1>1. PICK packet \in Packets : todo' = [todo EXCEPT ![t] = packet]
  BY DEF SendCall
<1>2. pc[t] = "idle" /\ UNCHANGED <<sendLock, sent, cut, up, fpga, got, handled>>
  BY DEF SendCall, fpgaVars
<1>3. sendLock # t /\ todo \in [Callers -> Seq(Byte)] /\ sendLock \in Callers \cup {NoThread}
  BY <1>2 DEF BaseInv, ClientInv
<1>4. sendLock # NoThread => todo'[sendLock] = todo[sendLock]
  BY <1>1, <1>3
<1>5. OnTheWay' = OnTheWay
  BY <1>2, <1>4 DEF OnTheWay
<1>6. UnsentIsNew'
  BY <1>2, <1>4 DEF CommandsInv, UnsentIsNew
<1> QED
  BY <1>2, <1>5, <1>6, CommandsSame

LEMMA SendLocksCommands ==
    ASSUME BaseInv, CommandsInv, NEW t \in Callers, SendLocks(t)
    PROVE  CommandsInv'
<1>1. /\ sendLock = NoThread /\ pc[t] = "locking" /\ todo[t] \in Packets
      /\ UNCHANGED <<cut, up, fpga, got, handled>>
  BY DEF SendLocks, fpgaVars, BaseInv, ClientInv
<1>2. OnTheWay = got \o up
  BY <1>1 DEF OnTheWay
<1>3. CASE ~running
  <2>1. UNCHANGED <<sendLock, sent>>
    BY <1>3 DEF SendLocks
  <2>2. OnTheWay' = OnTheWay
    BY <1>1, <2>1 DEF OnTheWay
  <2>3. UnsentIsNew'
    BY <1>1, <2>1 DEF UnsentIsNew
  <2> QED
    BY <1>1, <2>1, <2>2, <2>3, CommandsSame
<1>4. CASE running
  <2> DEFINE p == todo[t]
             n == Len(sent)
             h == Len(handled)
  <2>1. sendLock' = t /\ sent' = Append(sent, p) /\ todo' = todo /\ t # NoThread
    BY <1>4, Bounds DEF SendLocks
  <2>2. /\ n \in Nat /\ h \in Nat /\ cut \in Nat /\ cut <= n /\ Whole \in 0..n
        /\ sent \in Seq(Packets) /\ DOMAIN handled = 1..h
    BY CommandTypes
  <2>3. p \in Packets
    BY <1>1
  <2>4. sent' \in Seq(Packets) /\ Len(sent') = n + 1 /\ \A i \in 1..n : sent'[i] = sent[i]
    BY <2>1, <2>2, <2>3, AppendProperties
  <2>5. cut = 0 => h <= n
    BY DEF CommandsInv
  <2>6. cut' = 0 => Len(handled') <= Len(sent') /\ Len(handled') < Len(sent')
    BY <1>1, <2>2, <2>4, <2>5
  <2>7. UnsentIsNew'
    BY <2>6 DEF UnsentIsNew
  <2>8. CommandsArriveInOrder'
    <3> SUFFICES ASSUME NEW i \in DOMAIN handled', cut' = 0 \/ i < cut'
                 PROVE  i <= Len(sent') /\ handled'[i] = sent'[i]
      BY DEF CommandsArriveInOrder
    <3>1. i \in DOMAIN handled /\ (cut = 0 \/ i < cut)
      BY <1>1
    <3>2. i <= n /\ handled[i] = sent[i]
      BY <3>1 DEF CommandsInv, CommandsArriveInOrder
    <3>3. i \in 1..n
      BY <2>2, <3>1, <3>2
    <3> QED
      BY <1>1, <2>2, <2>4, <3>2, <3>3
  <2>9. ASSUME fpga' # "closed" PROVE \E off : InStep(off)'
    <3>1. PICK off : InStep(off)
      BY <1>1, <2>9 DEF CommandsInv
    <3>2. CASE cut = 0
      <4>1. Whole = n /\ Whole' = n + 1 /\ h <= n
        BY <1>1, <2>4, <2>5, <3>2 DEF Whole
      <4>2. OnTheWay' = OnTheWay \o p
        BY <1>1, <1>2, <2>1, <3>2 DEF OnTheWay
      <4>3. Framed(OnTheWay, sent, h, n, off) /\ Len(OnTheWay) = off[n] - off[h]
        BY <3>1, <3>2, <4>1 DEF InStep
      <4>4. PICK off2 :
                /\ Framed(OnTheWay \o p, Append(sent, p), h, n + 1, off2)
                /\ Len(OnTheWay \o p) = off2[n + 1] - off2[h]
        BY <2>3, <4>1, <4>3, FramedMore
      <4>5. Framed(OnTheWay', sent', Len(handled'), Whole', off2)
        BY <1>1, <2>1, <4>1, <4>2, <4>4
      <4>6. Len(OnTheWay') = off2[Whole'] - off2[Len(handled')]
        BY <1>1, <4>1, <4>2, <4>4
      <4>7. off2[Whole'] \in Nat /\ off2[Len(handled')] \in Nat
        BY <1>1, <2>2, <4>1, <4>5 DEF Framed
      <4>8. InStep(off2)'
        BY <4>5, <4>6, <4>7 DEF InStep
      <4> QED
        BY <4>8
    <3>3. CASE cut # 0
      <4>1. Whole' = Whole /\ OnTheWay' = OnTheWay
        BY <1>1, <1>2, <3>3 DEF Whole, OnTheWay
      <4>2. Framed(OnTheWay, sent, h, Whole, off) /\ OnTheWay \in Seq(Byte)
        BY <3>1, CommandTypes DEF InStep
      <4>3. /\ Whole \in 0..Len(sent') /\ Whole <= Whole
            /\ \A i \in 1..Whole : sent'[i] = sent[i]
        BY <2>2, <2>4
      <4>4. Framed(OnTheWay, sent', h, Whole, off)
        BY <2>4, <4>2, <4>3, FramedKept
      <4>5. InStep(off)'
        BY <1>1, <3>1, <3>3, <4>1, <4>4 DEF InStep
      <4> QED
        BY <4>5
    <3> QED
      BY <3>2, <3>3
  <2> QED
    BY <2>6, <2>7, <2>8, <2>9 DEF CommandsInv
<1> QED
  BY <1>3, <1>4

LEMMA SendChunkCommands ==
    ASSUME BaseInv, CommandsInv, NEW t \in Callers, SendChunk(t)
    PROVE  CommandsInv'
<1>1. PICK n \in 1..Len(todo[t]) :
            /\ fpga # "closed" => up' = up \o SubSeq(todo[t], 1, n)
            /\ todo' = [todo EXCEPT ![t] = Drop(@, n)]
  BY DEF SendChunk
<1>2. pc[t] = "sending" /\ UNCHANGED <<sendLock, sent, cut, fpga, got, handled>>
  BY DEF SendChunk, fpgaVars
<1>3. /\ sendLock = t /\ t # NoThread /\ todo[t] \in Seq(Byte) /\ Len(todo[t]) \in Nat
      /\ Len(sent[Len(sent)]) \in Nat /\ Len(todo[t]) <= Len(sent[Len(sent)])
  BY <1>2, SenderIs
<1>4. n \in 0..Len(todo[t]) /\ n \in Nat /\ n >= 1
  BY <1>3
<1> DEFINE chunk == SubSeq(todo[t], 1, n)
           rest == Drop(todo[t], n)
<1>5. chunk \in Seq(Byte) /\ rest \in Seq(Byte) /\ Len(rest) = Len(todo[t]) - n
      /\ chunk \o rest = todo[t]
  BY <1>3, <1>4, TakeAndDrop
<1>6. todo'[t] = rest
  BY <1>1 DEF BaseInv, ClientInv
<1>7. fpga # "closed" => up' = up \o chunk
  BY <1>1
<1> HIDE DEF chunk, rest
<1>8. Len(todo'[t]) # Len(sent[Len(sent)])
  BY <1>3, <1>4, <1>5, <1>6
<1>9. UnsentIsNew'
  BY <1>2, <1>3, <1>8 DEF UnsentIsNew
<1>10. got \in Seq(Byte) /\ up \in Seq(Byte) /\ got \o up \in Seq(Byte)
  BY CommandTypes
<1>11. CASE fpga = "closed"
  BY <1>2, <1>9, <1>11, CommandsSame
<1>12. CASE fpga # "closed"
  <2>1. got' \o up' = (got \o up) \o chunk
    <3>1. got \o (up \o chunk) = (got \o up) \o chunk
      BY <1>5, <1>10, ConcatAssociative, SMTT(30)
    <3> QED
      BY <1>2, <1>7, <1>12, <3>1
  <2>2. CASE cut = 0
    <3>1. ((got \o up) \o chunk) \o rest = (got \o up) \o (chunk \o rest)
      <4> DEFINE wire == got \o up
      <4>1. wire \in Seq(Byte) /\ chunk \in Seq(Byte) /\ rest \in Seq(Byte)
        BY <1>5, <1>10
      <4> HIDE DEF wire
      <4>2. (wire \o chunk) \o rest = wire \o (chunk \o rest)
        BY <4>1, ConcatAssociative
      <4> QED
        BY <4>2 DEF wire
    <3>2. OnTheWay = (got \o up) \o todo[t]
      BY <1>3, <2>2 DEF OnTheWay
    <3>3. OnTheWay' = (got' \o up') \o todo'[t]
      BY <1>2, <1>3, <2>2 DEF OnTheWay
    <3>4. OnTheWay' = OnTheWay
      BY <1>5, <1>6, <2>1, <3>1, <3>2, <3>3
    <3> QED
      BY <1>2, <1>9, <1>12, <3>4, CommandsSame
  <2>3. CASE cut # 0
    <3>1. OnTheWay = got \o up
      BY <2>3 DEF OnTheWay
    <3>2. OnTheWay' = OnTheWay \o chunk
      BY <1>2, <2>1, <2>3, <3>1 DEF OnTheWay
    <3>3. /\ OnTheWay' \in Seq(Byte) /\ Len(OnTheWay') = Len(OnTheWay) + Len(chunk)
          /\ \A i \in 1..Len(OnTheWay) : OnTheWay'[i] = OnTheWay[i]
      BY <1>5, <1>10, <3>1, <3>2, JoinedBytes, Zenon
    <3>4. PICK off : InStep(off)
      BY <1>12 DEF CommandsInv
    <3>5. Framed(OnTheWay', sent, Len(handled), Whole, off)
      <4>1. CASE Len(handled) <= Whole
        <5>1. \A k \in 1..off[Whole] - off[Len(handled)] : k \in 1..Len(OnTheWay)
          <6>1. /\ off[Whole] \in Nat /\ off[Len(handled)] \in Nat
                /\ Len(OnTheWay) >= off[Whole] - off[Len(handled)]
            BY <3>4, <4>1, CommandTypes DEF InStep, Framed
          <6>2. Len(OnTheWay) \in Nat
            BY CommandTypes, LenProperties
          <6> QED
            BY <6>1, <6>2
        <5>2. \A k \in 1..off[Whole] - off[Len(handled)] : OnTheWay'[k] = OnTheWay[k]
          BY <3>3, <5>1
        <5>3. Framed(OnTheWay, sent, Len(handled), Whole, off) /\ Whole \in 0..Len(sent)
              /\ sent \in Seq(Packets) /\ Whole <= Whole
          BY <3>4, CommandTypes DEF InStep
        <5> QED
          BY <3>3, <5>2, <5>3, FramedKept
      <4>2. CASE ~(Len(handled) <= Whole)
        <5>1. \A i \in Len(handled) + 1..Whole : FALSE
          BY <4>2, CommandTypes
        <5> QED
          BY <3>3, <3>4, <5>1 DEF InStep, Framed
      <4> QED
        BY <4>1, <4>2
    <3>6. Whole' = Whole
      BY <1>2 DEF Whole
    <3>7. Len(handled') <= Whole' => Len(OnTheWay') >= off[Whole'] - off[Len(handled')]
      <4>1. Len(OnTheWay) \in Nat /\ Len(chunk) \in Nat
        BY <1>5, CommandTypes, LenProperties
      <4>2. off[Whole] \in Nat /\ off[Len(handled)] \in Nat
        BY <3>4, CommandTypes DEF InStep, Framed
      <4>3. Len(handled) <= Whole => Len(OnTheWay) >= off[Whole] - off[Len(handled)]
        BY <3>4 DEF InStep
      <4> QED
        BY <1>2, <3>3, <3>6, <4>1, <4>2, <4>3
    <3>8. InStep(off)'
      BY <1>2, <2>3, <3>5, <3>6, <3>7 DEF InStep
    <3>9. CommandsArriveInOrder' /\ (cut' = 0 => Len(handled') <= Len(sent'))
      BY <1>2 DEF CommandsInv, CommandsArriveInOrder
    <3> QED
      BY <1>9, <3>8, <3>9 DEF CommandsInv
  <2> QED
    BY <2>2, <2>3
<1> QED
  BY <1>11, <1>12

LEMMA SendReturnsCommands ==
    ASSUME BaseInv, CommandsInv, NEW t \in Callers, SendReturns(t)
    PROVE  CommandsInv'
<1>1. /\ pc[t] = "sending" /\ todo[t] = <<>> /\ sendLock' = NoThread
      /\ UNCHANGED <<todo, sent, cut, up, fpga, got, handled>>
  BY DEF SendReturns, fpgaVars
<1>2. sendLock = t /\ t # NoThread
  BY <1>1, SenderIs
<1>3. got \o up \in Seq(Byte)
  BY CommandTypes
<1>4. (got \o up) \o <<>> = got \o up
  BY <1>3, ConcatEmptySeq
<1>5. OnTheWay' = OnTheWay
  BY <1>1, <1>2, <1>4 DEF OnTheWay
<1>6. UnsentIsNew'
  BY <1>1 DEF UnsentIsNew
<1> QED
  BY <1>1, <1>5, <1>6, CommandsSame

\* What a sendXxx() that gives up leaves on the way are the packets before its own.
LEMMA GivesUpCommands ==
    ASSUME BaseInv, CommandsInv, NEW t \in Callers, pc[t] = "sending", GivesUp(t)
    PROVE  CommandsInv'
<1> DEFINE n == Len(sent)
           h == Len(handled)
           whole == todo[t] = sent[n]
<1>1. /\ sendLock' = NoThread /\ UNCHANGED <<up, fpga, got, handled>>
      /\ IF whole THEN sent' = SubSeq(sent, 1, n - 1) /\ cut' = cut
         ELSE sent' = sent /\ cut' = IF cut = 0 THEN n ELSE cut
  BY DEF GivesUp, fpgaVars
<1>2. /\ sendLock = t /\ t # NoThread /\ cut < n /\ todo[t] \in Seq(Byte)
      /\ sent[n] \in Packets /\ Len(todo[t]) <= Len(sent[n])
      /\ Len(sent[n]) \in Nat /\ Len(todo[t]) \in Nat
  BY SenderIs
<1>3. /\ n \in Nat /\ h \in Nat /\ cut \in Nat /\ Whole \in 0..n
      /\ sent \in Seq(Packets) /\ DOMAIN handled = 1..h
      /\ got \o up \in Seq(Byte) /\ OnTheWay \in Seq(Byte)
  BY CommandTypes
<1> DEFINE m == IF whole THEN n - 1 ELSE n
<1>4. /\ sent' \in Seq(Packets) /\ Len(sent') = m
      /\ \A i \in 1..m : sent'[i] = sent[i]
  <2>1. CASE whole
    <3>1. n - 1 \in 0..n
      BY <1>2, <1>3
    <3>2. /\ SubSeq(sent, 1, n - 1) \in Seq(Packets) /\ Len(SubSeq(sent, 1, n - 1)) = n - 1
          /\ \A i \in 1..n - 1 : SubSeq(sent, 1, n - 1)[i] = sent[i]
      BY <1>3, <3>1, TakeAndDrop
    <3>3. sent' = SubSeq(sent, 1, n - 1) /\ m = n - 1
      BY <1>1, <2>1
    <3> HIDE DEF m
    <3> QED
      BY <3>2, <3>3, Zenon
  <2>2. CASE ~whole
    BY <1>1, <1>3, <2>2
  <2> QED
    BY <2>1, <2>2
<1>5. whole /\ cut = 0 => h < n
  BY <1>2 DEF CommandsInv, UnsentIsNew
<1>6. m \in Nat /\ n - 1 <= m /\ m <= n /\ n - 1 \in Nat
  BY <1>2, <1>3
<1>7. /\ cut = 0 => Whole = n /\ Whole' = n - 1
      /\ cut # 0 => cut' = cut /\ Whole = cut - 1 /\ Whole' = Whole
      /\ cut' = 0 => cut = 0 /\ whole /\ m = n - 1
      /\ cut' \in {0, cut, n}
  BY <1>1, <1>2, <1>3, <1>4 DEF Whole
<1>8. Whole' \in 0..Len(sent') /\ Whole' <= Whole /\ Whole' \in Nat
  BY <1>2, <1>3, <1>4, <1>6, <1>7
<1>9. cut' = 0 => Len(handled') <= Len(sent')
  BY <1>1, <1>3, <1>4, <1>5, <1>6, <1>7
<1>10. CommandsArriveInOrder'
  <2> SUFFICES ASSUME NEW i \in DOMAIN handled', cut' = 0 \/ i < cut'
               PROVE  i <= Len(sent') /\ handled'[i] = sent'[i]
    BY DEF CommandsArriveInOrder
  <2>1. i \in 1..h /\ i \in Nat
    BY <1>1, <1>3
  <2>2. cut = 0 \/ i < cut
    BY <1>7
  <2>3. i <= n /\ handled[i] = sent[i]
    BY <1>3, <2>1, <2>2 DEF CommandsInv, CommandsArriveInOrder
  <2>4. i <= n - 1
    <3>1. CASE cut' = 0
      BY <1>3, <1>5, <1>7, <2>1, <3>1
    <3>2. CASE cut' # 0 /\ i < cut'
      BY <1>2, <1>3, <1>7, <2>1, <3>2
    <3> QED
      BY <3>1, <3>2
  <2>5. i <= m /\ i \in 1..m
    BY <1>3, <1>6, <2>1, <2>4
  <2> QED
    BY <1>1, <1>4, <2>3, <2>5
<1>11. UnsentIsNew'
  BY <1>1 DEF UnsentIsNew
<1>12. ASSUME fpga' # "closed" PROVE \E off : InStep(off)'
  <2>1. PICK off : InStep(off)
    BY <1>1, <1>12 DEF CommandsInv
  <2> DEFINE wire == got \o up
  <2>2. OnTheWay' = wire
    BY <1>1 DEF OnTheWay
  <2>3. Len(wire) \in Nat /\ wire \in Seq(Byte)
    BY <1>3, LenProperties
  <2> HIDE DEF wire
  <2>4. Framed(OnTheWay, sent, h, Whole, off)
    BY <2>1 DEF InStep
  <2>5. off[h] \in Nat /\ off[Whole] \in Nat /\ off[Whole'] \in Nat
    BY <1>3, <1>8, <2>4 DEF Framed
  <2>6. /\ Len(wire) <= Len(OnTheWay)
        /\ \A k \in 1..Len(wire) : OnTheWay[k] = wire[k]
        /\ cut = 0 => Len(OnTheWay) = Len(wire) + Len(todo[t])
    <3>1. CASE cut = 0
      <4>1. OnTheWay = wire \o todo[t]
        BY <1>2, <3>1 DEF OnTheWay, wire
      <4>2. /\ Len(wire \o todo[t]) = Len(wire) + Len(todo[t])
            /\ \A k \in 1..Len(wire) : (wire \o todo[t])[k] = wire[k]
        BY <1>2, <2>3, JoinedBytes, Zenon
      <4>3. Len(OnTheWay) = Len(wire) + Len(todo[t])
        BY <4>1, <4>2
      <4>4. Len(wire) <= Len(OnTheWay)
        <5>1. Len(todo[t]) \in Nat /\ Len(wire) \in Nat
          BY <1>2, <2>3
        <5> QED
          BY <4>3, <5>1
      <4> QED
        BY <4>1, <4>2, <4>3, <4>4
    <3>2. CASE cut # 0
      <4>1. OnTheWay = wire
        BY <3>2 DEF OnTheWay, wire
      <4> QED
        BY <2>3, <3>2, <4>1
    <3> QED
      BY <3>1, <3>2
  <2>7. cut = 0 => /\ Len(OnTheWay) = off[n] - off[h] /\ off[n] \in Nat
                   /\ off[n] = off[n - 1] + Len(sent[n]) /\ off[n - 1] \in Nat
    <3>1. cut = 0 => n \in 1..Whole
      BY <1>2, <1>3, <1>7
    <3>2. cut = 0 => off[n] = off[n - 1] + Len(sent[n])
      BY <2>4, <3>1 DEF Framed
    <3>3. cut = 0 => Len(OnTheWay) = off[n] - off[h]
      BY <1>7, <2>1 DEF InStep
    <3> QED
      BY <1>7, <2>5, <3>2, <3>3
  <2>8. h <= Whole' => Len(wire) >= off[Whole'] - off[h]
    <3>1. CASE cut = 0
      <4>1. /\ Len(wire) + Len(todo[t]) = off[n] - off[h]
            /\ off[n] = off[n - 1] + Len(sent[n]) /\ off[Whole'] = off[n - 1]
        BY <1>7, <2>6, <2>7, <3>1
      <4>2. /\ Len(todo[t]) <= Len(sent[n]) /\ Len(sent[n]) \in Nat /\ Len(todo[t]) \in Nat
            /\ off[n - 1] \in Nat /\ off[h] \in Nat /\ off[n] \in Nat
        BY <1>2, <2>5, <2>7, <3>1
      <4> QED
        BY <2>3, <4>1, <4>2, SMTT(30)
    <3>2. CASE cut # 0
      <4>1. OnTheWay = wire
        BY <3>2 DEF OnTheWay, wire
      <4> QED
        BY <1>7, <2>1, <3>2, <4>1 DEF InStep
    <3> QED
      BY <3>1, <3>2
  <2>9. cut' = 0 => Len(wire) = off[Whole'] - off[h]
    <3> SUFFICES ASSUME cut' = 0 PROVE Len(wire) = off[Whole'] - off[h]
      OBVIOUS
    <3>1. cut = 0 /\ whole /\ Whole' = n - 1
      BY <1>7
    <3>2. Len(todo[t]) = Len(sent[n])
      BY <3>1
    <3> QED
      BY <1>2, <2>3, <2>5, <2>6, <2>7, <3>1, <3>2, SMTT(30)
  <2>10. Framed(wire, sent', h, Whole', off)
    <3>1. CASE h <= Whole'
      <4>1. \A k \in 1..off[Whole'] - off[h] : k \in 1..Len(wire)
        BY <2>3, <2>5, <2>8, <3>1
      <4>2. \A k \in 1..off[Whole'] - off[h] : wire[k] = OnTheWay[k]
        BY <2>6, <4>1
      <4>3. \A i \in 1..Whole' : sent'[i] = sent[i]
        BY <1>4, <1>6, <1>8
      <4> QED
        BY <1>4, <1>8, <2>3, <2>4, <4>2, <4>3, FramedKept
    <3>2. CASE ~(h <= Whole')
      <4>1. \A i \in h + 1..Whole' : FALSE
        BY <1>3, <1>8, <3>2
      <4>2. \A i \in 1..Whole' : off[i] = off[i - 1] + Len(sent'[i])
        <5>1. ASSUME NEW i \in 1..Whole' PROVE off[i] = off[i - 1] + Len(sent'[i])
          <6>1. i \in 1..Whole /\ i \in 1..m
            BY <1>3, <1>4, <1>6, <1>8
          <6>2. off[i] = off[i - 1] + Len(sent[i])
            BY <2>4, <6>1 DEF Framed
          <6> QED
            BY <1>4, <6>1, <6>2
        <5> QED
          BY <5>1
      <4>3. \A i, j \in 0..Whole' : i <= j => off[i] <= off[j]
        <5>1. \A i \in 0..Whole' : i \in 0..Whole
          BY <1>3, <1>8
        <5> QED
          BY <2>4, <5>1 DEF Framed
      <4>4. off \in [Nat -> Nat] /\ h \in Nat
        BY <2>4 DEF Framed
      <4> QED
        BY <1>4, <1>8, <2>3, <4>1, <4>2, <4>3, <4>4 DEF Framed
    <3> QED
      BY <3>1, <3>2
  <2>11. InStep(off)'
    BY <1>1, <2>2, <2>8, <2>9, <2>10 DEF InStep
  <2> QED
    BY <2>11
<1> QED
  BY <1>9, <1>10, <1>11, <1>12 DEF CommandsInv

LEMMA FpgaReceivesCommands ==
    ASSUME BaseInv, CommandsInv, FpgaReceives
    PROVE  CommandsInv'
<1>1. PICK n \in 1..Len(up) : got' = got \o SubSeq(up, 1, n) /\ up' = Drop(up, n)
  BY FpgaReceivesMoves
<1>2. UNCHANGED <<todo, sendLock, sent, cut, fpga, handled>>
  BY DEF FpgaReceives, clientVars
<1>3. got \in Seq(Byte) /\ up \in Seq(Byte) /\ n \in 0..Len(up)
  BY CommandTypes, LenProperties
<1>4. (got \o SubSeq(up, 1, n)) \o Drop(up, n) = got \o up
  BY <1>3, MovedBytes
<1>5. got' \o up' = got \o up
  BY <1>1, <1>4
<1>6. OnTheWay' = OnTheWay
  BY <1>2, <1>5 DEF OnTheWay
<1>7. UnsentIsNew'
  BY <1>2 DEF CommandsInv, UnsentIsNew
<1> QED
  BY <1>2, <1>6, <1>7, CommandsSame

\* What the FPGA takes for a command is the next one that was sent, while all
\* before it were sent to their ends.
LEMMA FpgaHandlesCommands ==
    ASSUME BaseInv, CommandsInv, FpgaHandles
    PROVE  CommandsInv'
<1> DEFINE n == Len(sent)
           h == Len(handled)
           next == sent[h + 1]
<1>1. /\ fpga = "recv" /\ fpga' = "answer" /\ got' = <<>>
      /\ Len(got) = CommandLength(got) /\ Len(got) > 1
      /\ handled' = Append(handled, got)
      /\ UNCHANGED <<todo, sendLock, sent, cut, up>>
  BY DEF FpgaHandles, clientVars
<1>2. /\ n \in Nat /\ h \in Nat /\ cut \in Nat /\ Whole \in 0..n /\ cut <= n
      /\ sent \in Seq(Packets) /\ DOMAIN handled = 1..h
  BY CommandTypes
<1>3. got \in Seq(Byte) /\ up \in Seq(Byte) /\ Len(got) \in Nat
  BY CommandTypes, LenProperties
<1>4. PICK off : InStep(off)
  BY <1>1 DEF CommandsInv
<1>5. Framed(OnTheWay, sent, h, Whole, off) /\ off[h] \in Nat /\ off[Whole] \in Nat
  <2>1. Framed(OnTheWay, sent, h, Whole, off)
    BY <1>4 DEF InStep
  <2>2. off \in [Nat -> Nat]
    BY <2>1, Zenon DEF Framed
  <2>3. Whole \in Nat
    BY <1>2
  <2>4. \A k \in Nat : off[k] \in Nat
    BY <2>2
  <2> QED
    BY <1>2, <2>1, <2>3, <2>4, Zenon
<1> DEFINE rest == OnTheWay'
<1>6. rest \in Seq(Byte) /\ OnTheWay = got \o rest
  <2>1. <<>> \o up = up
    BY <1>3, ConcatEmptySeq
  <2>2. CASE cut = 0 /\ sendLock # NoThread
    <3>1. todo[sendLock] \in Seq(Byte)
      BY <2>2 DEF BaseInv, ClientInv
    <3>2. OnTheWay = (got \o up) \o todo[sendLock]
      BY <2>2 DEF OnTheWay
    <3>3. rest = up \o todo[sendLock]
      BY <1>1, <2>1, <2>2 DEF OnTheWay
    <3>4. (got \o up) \o todo[sendLock] = got \o (up \o todo[sendLock])
      <4> DEFINE left == todo[sendLock]
      <4>1. got \in Seq(Byte) /\ up \in Seq(Byte) /\ left \in Seq(Byte)
        BY <1>3, <3>1
      <4> HIDE DEF left
      <4>2. (got \o up) \o left = got \o (up \o left)
        BY <4>1, ConcatAssociative
      <4> QED
        BY <4>2 DEF left
    <3>5. up \o todo[sendLock] \in Seq(Byte)
      BY <1>3, <3>1, JoinedBytes, Zenon
    <3> QED
      BY <3>2, <3>3, <3>4, <3>5
  <2>3. CASE ~(cut = 0 /\ sendLock # NoThread)
    <3>1. OnTheWay = got \o up
      BY <2>3 DEF OnTheWay
    <3>2. rest = up
      BY <1>1, <2>1, <2>3 DEF OnTheWay
    <3> QED
      BY <1>3, <3>1, <3>2
  <2> QED
    BY <2>2, <2>3
<1> HIDE DEF rest
<1>7. /\ Len(OnTheWay) = Len(got) + Len(rest)
      /\ \A i \in 1..Len(got) : OnTheWay[i] = got[i]
      /\ \A i \in 1..Len(rest) : OnTheWay[Len(got) + i] = rest[i]
  BY <1>3, <1>6, JoinedBytes, Zenon
<1>8. Len(rest) \in Nat
  BY <1>6, LenProperties
<1>9. cut = 0 => h < Whole
  <2> SUFFICES ASSUME cut = 0 PROVE h < Whole
    OBVIOUS
  <2>1. Whole = n /\ h <= n
    BY DEF Whole, CommandsInv
  <2>2. Len(OnTheWay) = off[Whole] - off[h]
    BY <1>4 DEF InStep
  <2>3. off[Whole] # off[h]
    BY <1>1, <1>3, <1>5, <1>7, <1>8, <2>2
  <2>4. Whole # h
    BY <2>3
  <2>5. n \in Nat /\ h \in Nat
    BY <1>2
  <2> HIDE DEF n, h
  <2> QED
    BY <2>1, <2>4, <2>5
\* While there are whole packets the next one is taken.
<1>10. ASSUME h < Whole
       PROVE  /\ got = next /\ h + 1 \in 1..n
              /\ Framed(rest, sent, h + 1, Whole, off)
              /\ Len(rest) = Len(OnTheWay) - (off[h + 1] - off[h])
              /\ off[h + 1] \in Nat
  <2>1. h + 1 \in 1..Whole /\ h + 1 \in 1..n /\ h + 1 \in h + 1..Whole /\ (h + 1) - 1 = h
        /\ h + 1 \in Nat
    BY <1>2, <1>10
  <2>2. next \in Packets
    BY <1>2, <2>1, ElementOfSeq
  <2>3. ASSUME NEW j \in 1..Len(next), j <= Len(got) PROVE got[j] = next[j]
    <3>1. OnTheWay[(off[h] - off[h]) + j] = next[j]
      <4>1. \A i \in h + 1..Whole : \A k \in 1..Len(sent[i]) :
                OnTheWay[(off[i - 1] - off[h]) + k] = sent[i][k]
        BY <1>5 DEF Framed
      <4>2. OnTheWay[(off[(h + 1) - 1] - off[h]) + j] = sent[h + 1][j]
        BY <2>1, <4>1
      <4>3. (h + 1) - 1 = h
        BY <2>1
      <4> QED
        BY <4>2, <4>3, Zenon
    <3>2. j \in Nat /\ j >= 1
      BY <2>2, PacketsAreBytes
    <3>3. (off[h] - off[h]) + j = j
      BY <1>5, <3>2
    <3>4. OnTheWay[j] = got[j]
      BY <1>3, <1>7, <2>3, <3>2
    <3> QED
      BY <3>1, <3>3, <3>4
  <2>4. got = next
    <3> HIDE DEF next
    <3> QED
      BY <1>1, <1>3, <2>2, <2>3, PacketIsTaken
  <2>5. Len(OnTheWay) >= off[Whole] - off[h]
    BY <1>2, <1>4, <1>10 DEF InStep
  <2>6. /\ Framed(rest, sent, h + 1, Whole, off)
        /\ Len(rest) = Len(OnTheWay) - (off[h + 1] - off[h])
    <3>1. got \in Packets /\ got = sent[h + 1]
      BY <2>2, <2>4
    <3>2. Framed(OnTheWay, sent, h, Whole, off)
      BY <1>5
    <3>3. Behind(OnTheWay, sent[h + 1], rest)
      BY <1>6, <1>7, <3>1 DEF Behind
    <3>4. Covers(OnTheWay, h, Whole, off)
      BY <1>10, <2>5 DEF Covers
    <3>5. Framed(rest, sent, h + 1, Whole, off) /\ Shorter(OnTheWay, rest, h, off)
      <4> DEFINE way == OnTheWay
                 whole == Whole
      <4>1. /\ Framed(way, sent, h, whole, off) /\ Covers(way, h, whole, off)
            /\ Behind(way, sent[h + 1], rest)
        BY <3>2, <3>3, <3>4
      <4> HIDE DEF h, way, whole
      <4>2. Framed(rest, sent, h + 1, whole, off) /\ Shorter(way, rest, h, off)
        BY <4>1, FramedRest, Zenon
      <4> QED
        BY <4>2 DEF way, whole
    <3> QED
      BY <3>5 DEF Shorter
  <2>7. off[h + 1] \in Nat
    BY <1>5, <2>1 DEF Framed
  <2> QED
    BY <2>1, <2>4, <2>6, <2>7
<1>11. /\ Len(handled') = h + 1 /\ handled'[h + 1] = got
       /\ \A i \in 1..h : handled'[i] = handled[i]
       /\ DOMAIN handled' = 1..h + 1
  <2>1. handled \in Seq(Seq(Byte))
    BY DEF BaseInv, FpgaInv
  <2>2. /\ handled' \in Seq(Seq(Byte)) /\ Len(handled') = h + 1 /\ handled'[h + 1] = got
        /\ \A i \in 1..h : handled'[i] = handled[i]
    BY <1>1, <1>3, <2>1, AppendProperties
  <2>3. DOMAIN handled' = 1..Len(handled')
    BY <2>2, LenProperties
  <2> QED
    BY <2>2, <2>3
<1>12. Whole' = Whole
  BY <1>1 DEF Whole
<1>13. cut' = 0 => Len(handled') <= Len(sent')
  BY <1>1, <1>2, <1>9, <1>11
<1>14. CommandsArriveInOrder'
  <2> SUFFICES ASSUME NEW i \in DOMAIN handled', cut' = 0 \/ i < cut'
               PROVE  i <= Len(sent') /\ handled'[i] = sent'[i]
    BY DEF CommandsArriveInOrder
  <2>1. i \in 1..h + 1
    BY <1>11
  <2>2. CASE i = h + 1
    <3>1. h < Whole
      BY <1>1, <1>2, <1>9, <2>2 DEF Whole
    <3>2. got = next /\ h + 1 <= n
      BY <1>2, <1>10, <3>1
    <3> QED
      BY <1>1, <1>11, <2>2, <3>2
  <2>3. CASE i # h + 1
    <3>1. i \in 1..h /\ i \in DOMAIN handled
      BY <1>2, <2>1, <2>3
    <3>2. i <= n /\ handled[i] = sent[i]
      BY <1>1, <3>1 DEF CommandsInv, CommandsArriveInOrder
    <3> QED
      BY <1>1, <1>11, <3>1, <3>2
  <2> QED
    BY <2>2, <2>3
<1>15. UnsentIsNew'
  <2> SUFFICES ASSUME sendLock # NoThread, cut = 0, Len(todo[sendLock]) = Len(sent[n])
               PROVE  h + 1 < n
    BY <1>1, <1>11 DEF UnsentIsNew
  <2>1. h < Whole /\ Whole = n
    BY <1>9 DEF Whole
  <2>2. Len(rest) = off[n] - off[h + 1] /\ off[h + 1] \in Nat /\ off[n] \in Nat
    <3>1. Len(OnTheWay) = off[n] - off[h] /\ off[n] \in Nat
      BY <1>4, <1>5, <2>1 DEF InStep
    <3>2. Len(rest) = Len(OnTheWay) - (off[h + 1] - off[h]) /\ off[h + 1] \in Nat
      BY <1>10, <2>1
    <3> QED
      BY <1>5, <3>1, <3>2
  <2>3. sendLock \in Callers /\ pc[sendLock] = "sending"
    BY DEF BaseInv, ClientInv
  <2>4. todo[sendLock] \in Seq(Byte) /\ sent[n] \in Packets
    BY <2>3, SenderIs
  <2>5. Len(todo[sendLock]) \in Nat /\ Len(todo[sendLock]) >= 3
    BY <2>4, PacketsAreBytes
  <2>6. rest = up \o todo[sendLock]
    <3>1. <<>> \o up = up
      BY <1>3, ConcatEmptySeq
    <3> QED
      BY <1>1, <3>1 DEF OnTheWay, rest
  <2>7. Len(up \o todo[sendLock]) = Len(up) + Len(todo[sendLock])
    BY <1>3, <2>4, JoinedBytes, Zenon
  <2>8. Len(up) \in Nat
    BY <1>3, LenProperties
  <2>9. Len(rest) >= 3
    BY <2>5, <2>6, <2>7, <2>8
  <2>10. off[n] # off[h + 1]
    BY <2>2, <2>9
  <2>11. h + 1 # n
    BY <2>10
  <2> QED
    BY <1>2, <2>1, <2>11
<1>16. InStep(off)'
  <2>1. CASE h < Whole
    <3>1. Framed(rest, sent, h + 1, Whole, off)
      BY <1>10, <2>1
    <3>2. Len(rest) = Len(OnTheWay) - (off[h + 1] - off[h]) /\ off[h + 1] \in Nat
      BY <1>10, <2>1
    <3>3. Len(OnTheWay) >= off[Whole] - off[h]
      BY <1>2, <1>4, <2>1 DEF InStep
    <3>4. cut = 0 => Len(OnTheWay) = off[Whole] - off[h]
      BY <1>4 DEF InStep
    <3>5. Len(rest) >= off[Whole] - off[h + 1]
      <4> DEFINE way == Len(OnTheWay)
                 oh == off[h]
                 on == off[h + 1]
                 ow == off[Whole]
      <4>1. way \in Nat /\ oh \in Nat /\ on \in Nat /\ ow \in Nat
        BY <1>3, <1>5, <1>7, <1>8, <3>2
      <4>2. Len(rest) = way - (on - oh) /\ way >= ow - oh
        BY <3>2, <3>3
      <4> HIDE DEF way, oh, on, ow
      <4>3. Len(rest) >= ow - on
        BY <4>1, <4>2
      <4> QED
        BY <4>3 DEF ow, on
    <3>6. cut = 0 => Len(rest) = off[Whole] - off[h + 1]
      BY <1>5, <3>2, <3>4
    <3> QED
      BY <1>1, <1>11, <1>12, <3>1, <3>5, <3>6 DEF InStep, rest
  <2>2. CASE ~(h < Whole)
    <3>1. cut # 0 /\ ~(h + 1 <= Whole)
      BY <1>2, <1>9, <2>2
    <3>2. \A i \in (h + 1) + 1..Whole : FALSE
      BY <1>2, <2>2
    <3>3. h + 1 \in Nat
      BY <1>2
    <3>4. Framed(rest, sent, h + 1, Whole, off)
      BY <1>5, <1>6, <3>2, <3>3 DEF Framed
    <3> QED
      BY <1>1, <1>11, <1>12, <3>1, <3>4 DEF InStep, rest
  <2> QED
    BY <2>1, <2>2
<1> QED
  BY <1>13, <1>14, <1>15, <1>16 DEF CommandsInv

LEMMA CommandsNext == BaseInv /\ CommandsInv /\ [Next]_vars => CommandsInv'
<1> SUFFICES ASSUME BaseInv, CommandsInv, [Next]_vars PROVE CommandsInv'
  OBVIOUS
<1>1. ASSUME UNCHANGED <<clientVars, up, got, handled>>,
             fpga' # "closed" => fpga # "closed"
      PROVE  CommandsInv'
  <2>1. OnTheWay' = OnTheWay
    BY <1>1 DEF clientVars, OnTheWay
  <2>2. UnsentIsNew'
    BY <1>1 DEF clientVars, UnsentIsNew, CommandsInv
  <2> QED
    BY <1>1, <2>1, <2>2, CommandsSame DEF clientVars
<1>2. ASSUME NEW t \in Callers, SendFaults(t) \/ SendFails(t) PROVE CommandsInv'
  BY <1>2, GivesUpCommands DEF SendFaults, SendFails
<1>3. CASE FpgaAnswers \/ FpgaEnds \/ FpgaFaults \/ FpgaCloses \/ UNCHANGED vars
  <2>1. UNCHANGED <<clientVars, up, got, handled>>
    BY <1>3 DEF FpgaAnswers, FpgaEnds, FpgaFaults, FpgaCloses, vars, fpgaVars
  <2>2. fpga' # "closed" => fpga # "closed"
    BY <1>3 DEF FpgaAnswers, FpgaEnds, FpgaFaults, FpgaCloses, vars, fpgaVars
  <2> QED
    BY <1>1, <2>1, <2>2
<1>4. CASE SessionStops \/ ImageCalls \/ ImageReturns \/ WorkerStep \/ WorkerFaults
  <2>1. UNCHANGED <<clientVars, up, got, handled, fpga>>
    BY <1>4 DEF SessionStops, ImageCalls, ImageReturns, WorkerStep, WorkerReceives, WorkerTells,
                ListenerReturns, WorkerFails, WorkerReports, WorkerFaults, HandleFailure, fpgaVars
  <2> QED
    BY <1>1, <2>1
<1> QED
  BY <1>2, <1>3, <1>4, SendCallCommands, SendLocksCommands, SendChunkCommands, SendReturnsCommands,
     FpgaReceivesCommands, FpgaHandlesCommands DEF Next, CallerStep, FpgaStep

-----------------------------------------------------------------------------
LinkInv == BaseInv /\ ListenerInv /\ AnswersInv /\ CommandsInv

LEMMA LinkInductive == Spec => []LinkInv
<1>1. Init => LinkInv
  BY BaseInit, ListenerInit, AnswersInit, CommandsInit DEF LinkInv
<1>2. LinkInv /\ [Next]_vars => LinkInv'
  BY BaseNext, ListenerNext, AnswersNext, CommandsNext DEF LinkInv
<1> QED
  BY <1>1, <1>2, PTL DEF Spec

\* Every variable of the control connection has the type of what it models; no
\* direction holds more than it can, no more than an answer is received or sent, and
\* callback_mutex_ is held by the worker that is in a callback.
THEOREM LinkTypes == Spec => []TypeOK
<1>1. LinkInv => TypeOK
  <2> SUFFICES ASSUME LinkInv PROVE TypeOK
    BY DEF LinkInv
  <2>1. /\ ClientInv /\ WorkerInv /\ WireInv /\ FpgaInv /\ ListenerInv /\ AnswersInv
        /\ faults \in 0..MaxFaults
    BY DEF LinkInv, BaseInv
  <2>2. {running, reported, broken} \subseteq BOOLEAN
    BY <2>1, Zenon DEF WorkerInv
  <2>3. {reply, up, down, got, answer} \subseteq Seq(Byte)
    BY <2>1, Zenon DEF WorkerInv, WireInv, FpgaInv
  <2>4. Len(reply) <= AnswerSize
    <3>1. Len(reply) <= AnswerLength(reply) /\ Len(reply) \in Nat
      BY <2>1, LenProperties DEF AnswersInv, WorkerInv
    <3>2. AnswerLength(reply) \in {1, 5}
      BY DEF AnswerLength, AnswerSize
    <3> QED
      BY <3>1, <3>2 DEF AnswerSize
  <2>5. {sent, handled} \subseteq Seq(Seq(Byte))
    <3>1. Packets \subseteq Seq(Byte)
      BY PacketsAreBytes
    <3>2. sent \in Seq(Seq(Byte))
      BY <2>1, <3>1, SeqMonotonic DEF ClientInv
    <3> QED
      BY <2>1, <3>2, Zenon DEF FpgaInv
  <2>6. {answered, told} \subseteq Seq(Nat \X Nat \X Nat)
    <3>1. Answers \subseteq Nat \X Nat \X Nat
      <4>1. \A type \in AnswerTypes : type \in Nat
        BY DEF AnswerTypes, MsgReturnStatus, MsgConfigAck
      <4>2. \A v \in Uint16 : v \in Nat
        BY DEF Uint16
      <4> QED
        BY <4>1, <4>2 DEF Answers
    <3>2. answered \in Seq(Answers) /\ told \in Seq(Answers)
      BY <2>1 DEF FpgaInv, AnswersInv
    <3>3. answered \in Seq(Nat \X Nat \X Nat)
      BY <3>1, <3>2, SeqMonotonic
    <3>4. told \in Seq(Nat \X Nat \X Nat)
      BY <3>1, <3>2, SeqMonotonic
    <3> QED
      BY <3>3, <3>4, Zenon
  <2> QED
    BY <2>1, <2>2, <2>3, <2>4, <2>5, <2>6, Zenon
       DEF TypeOK, ClientInv, WorkerInv, WireInv, FpgaInv, ListenerInv, AnswersInv
<1> QED
  BY <1>1, LinkInductive, PTL

\* control_send_mutex_ and the lengths in the packets keep the commands whole: the
\* FPGA takes what was sent, in order, up to the first packet that was cut short.
THEOREM CommandsInOrder == Spec => []CommandsArriveInOrder
<1>1. LinkInv => CommandsArriveInOrder
  BY DEF LinkInv, CommandsInv
<1> QED
  BY <1>1, LinkInductive, PTL

\* ControlReceiveLoop tells the listener the answers the FPGA gave, each once and in
\* order, however they are split on their way and whatever became of the commands.
THEOREM AnswersTold == Spec => []AnswersAreTold
<1>1. LinkInv => AnswersAreTold
  <2> SUFFICES ASSUME LinkInv PROVE AnswersAreTold
    BY DEF LinkInv
  <2>1. /\ told \in Seq(Answers) /\ \A i \in 1..Len(told) : told[i] = answered[i]
        /\ answered \in Seq(Answers) /\ Len(told) \in 0..Len(answered)
    BY DEF LinkInv, AnswersInv, Carries
  <2>2. Len(told) <= Len(answered)
    BY <2>1, LenProperties
  <2>3. /\ SubSeq(answered, 1, Len(told)) \in Seq(Answers)
        /\ Len(SubSeq(answered, 1, Len(told))) = Len(told)
        /\ \A i \in 1..Len(told) : SubSeq(answered, 1, Len(told))[i] = answered[i]
    BY <2>1, TakeAndDrop
  <2>4. told = SubSeq(answered, 1, Len(told))
    BY <2>1, <2>3, SeqEqual
  <2> QED
    BY <2>2, <2>4 DEF AnswersAreTold
<1> QED
  BY <1>1, LinkInductive, PTL

\* HandleWorkerFailure is reported for a connection that the FPGA has closed or whose
\* recv() has failed, never for an answer of an unknown type.
THEOREM ErrorsHaveCause == Spec => []ErrorHasCause
<1>1. LinkInv => ErrorHasCause
  BY DEF LinkInv, AnswersInv
<1> QED
  BY <1>1, LinkInductive, PTL
=============================================================================
