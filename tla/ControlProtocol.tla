---------------------------- MODULE ControlProtocol ----------------------------
(***************************************************************************)
(* The packets of the control connection (ControlProtocol.h) as sequences  *)
(* of bytes, and how many bytes each end reads before it acts on a packet.  *)
(***************************************************************************)
EXTENDS Naturals, Sequences

CONSTANT
    RegCount    \* kFullConfigPayloadSize, 512 in the code

Uint16 == 0..65535

ASSUME RegCountAssumption == RegCount \in Uint16 \ {0}

\* MsgType and ControlBits.
MsgControl == 1
MsgQueryStatus == 2
MsgConfig == 3
MsgReturnStatus == 4
MsgConfigAck == 5
Reset == 1
TriggerOnce == 2

WriteUint16LE(value) == <<value % 256, value \div 256>>
\* Mutation: the high byte is read first.
ReadUint16BE(bytes, at) == 256 * bytes[at] + bytes[at + 1]
ReadUint16LE(bytes, at) == bytes[at] + 256 * bytes[at + 1]

SerializeCommandPacket(controlBits) == <<MsgControl>> \o WriteUint16LE(controlBits)
SerializeQueryStatusPacket == <<MsgQueryStatus>> \o WriteUint16LE(0)
SerializeFullConfigPacket(regs) == <<MsgConfig>> \o WriteUint16LE(Len(regs)) \o regs

\* What the FPGA answers: a status with an error code, or the result of a CONFIG
\* with the register that failed.
Answer(a) == <<a[1]>> \o WriteUint16LE(a[2]) \o WriteUint16LE(a[3])
AnswerSize == 5     \* kStatusPacketSize and kConfigAckPacketSize

\* ParseStatusPacket and ParseConfigAckPacket: what the listener is told.
Parse(wire) == <<wire[1], ReadUint16LE(wire, 2), ReadUint16LE(wire, 4)>>

\* How long the FPGA takes the command to be whose first bytes it has.  One of
\* an unknown type has no more than that.
CommandLength(got) ==
    IF got = <<>> \/ got[1] \notin {MsgControl, MsgQueryStatus, MsgConfig} THEN 1
    ELSE IF got[1] = MsgConfig /\ Len(got) >= 3 THEN 3 + ReadUint16LE(got, 2)
    ELSE 3

\* Mutation: a CONFIG_ACK is of an unknown type to the client.
AnswerLengthStatusOnly(got) ==
    IF got = <<>> \/ got[1] # MsgReturnStatus THEN 1 ELSE AnswerSize
\* Mutation: the type is not counted as one of the five bytes.
AnswerLengthWithoutType(got) ==
    IF got = <<>> \/ got[1] \notin {MsgReturnStatus, MsgConfigAck} THEN 1 ELSE AnswerSize + 1
\* The same for the client and an answer.
AnswerLength(got) ==
    IF got = <<>> \/ got[1] \notin {MsgReturnStatus, MsgConfigAck} THEN 1 ELSE AnswerSize
=============================================================================
