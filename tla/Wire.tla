--------------------------------- MODULE Wire ---------------------------------
(***************************************************************************)
(* The way of a packet over one connection: threads that call SendPacket,  *)
(* maybe with the same packet, encode it once; the send ring; the bytes of *)
(* TCP, which arrive in pieces of any size; the receive ring and the parse *)
(* loop of workerThread. References, flags and the release of the session  *)
(* are in BaseServer; here the session is there until it is closed.        *)
(***************************************************************************)
EXTENDS Integers, Sequences, SequencesExt, RingBuffer, Encryption

CONSTANTS
    Senders, Packets, NoPacket, NoSender,
    PacketCode,                       \* PACKET_CODE
    Keys,                             \* the dynamic keys the generator gives
    PayloadBytes, MaxPayload,         \* what payloads hold; BUFFER_DEFAULT - 5
    RecvSize, SendSize,               \* RECV_RINGBUFFER_SIZE, SEND_RINGBUFFER_SIZE
    MaxSends                          \* bound on the calls of SendPacket

ASSUME WireAssumption ==
    /\ {PacketCode, PacketKey} \cup Keys \cup PayloadBytes \subseteq 0..(Byte - 1)
    /\ MaxPayload \in 1..(Byte * Byte - 1) /\ 5 + MaxPayload <= RecvSize
    /\ SendSize \in Nat \ {0} /\ MaxSends \in Nat

VARIABLES
    payload,      \* what the application wrote into each packet
    buffer,       \* mStorage: header (code, length in 2 bytes, key, checksum), payload
    isEncoding,   \* mIsEncoding
    encodingCS,   \* who holds the lock of the packet
    pc, packet,   \* where each sender is, and the packet of its call
    sends,        \* number of calls so far
    sendRing, stream, recvRing,
    segments,     \* the areas of the receive that is posted
    worker,       \* the receiving end: "receiving", "parsing", "decoding" or "closed"
    pPacket,      \* the packet the parse loop has taken from the ring
    put, received \* the payloads put into the send ring and told by OnRecv

packetVars == <<payload, buffer, isEncoding, encodingCS>>
senderVars == <<pc, packet, sends>>
recvVars   == <<recvRing, segments, worker, pPacket, received>>
vars == <<packetVars, senderVars, sendRing, stream, recvVars, put>>

Payloads == UNION {[1..n -> PayloadBytes] : n \in 1..MaxPayload}
Malformed == <<>>
HeaderSize == 5
Body(b) == SubSeq(b, HeaderSize, Len(b))

(* What a peer that does not keep the format may send: another code, no       *)
(* payload, one that is too long, a checksum that is not that of the payload. *)
BadFrames ==
    LET v == CHOOSE x \in PayloadBytes : TRUE
        k == CHOOSE x \in Keys : TRUE
        head == <<PacketCode, 1, 0, k>>
    IN  {<<PacketCode, 0, 0>>, <<PacketCode, (MaxPayload + 1) % Byte, (MaxPayload + 1) \div Byte>>,
         <<(PacketCode + 1) % Byte, 1, 0, k>> \o Encode(k, <<v, v>>),
         head \o Encode(k, <<(v + 1) % Byte, v>>)}

Init ==
    /\ payload \in [Packets -> Payloads \cup {Malformed}]
    /\ \E bad \in [{p \in Packets : payload[p] = Malformed} -> BadFrames] :
           buffer = [p \in Packets |-> IF payload[p] = Malformed THEN bad[p]
                                       ELSE <<0, 0, 0, 0, 0>> \o payload[p]]
    /\ isEncoding = [p \in Packets |-> payload[p] = Malformed]
    /\ encodingCS = [p \in Packets |-> NoSender]
    /\ pc = [t \in Senders |-> "idle"] /\ packet = [t \in Senders |-> NoPacket] /\ sends = 0
    /\ sendRing = NewRing(SendSize, NoPacket) /\ stream = <<>>
    /\ recvRing = NewRing(RecvSize, 0)
    /\ segments = GetEnqueueSegments(NewRing(RecvSize, 0)) /\ worker = "receiving"
    /\ pPacket = <<>> /\ put = <<>> /\ received = <<>>

Goto(t, l) == pc' = [pc EXCEPT ![t] = l]

-------------------------------------------------------------------------------
(* SendPacket *)

(* The call and its first test of the flag, without the lock. *)
Begin(t, p) ==
    /\ pc[t] = "idle" /\ sends < MaxSends /\ worker # "closed"
    /\ sends' = sends + 1
    /\ packet' = [packet EXCEPT ![t] = p]
    /\ Goto(t, IF isEncoding[p] THEN "put" ELSE "lock")
    /\ UNCHANGED <<packetVars, sendRing, stream, recvVars, put>>

(* The second test is what keeps a packet from being encoded twice; the mutant *)
(* has none.                                                                   *)
Mutant_AfterLock(p) == "checkSum"
AfterLock(p) == IF isEncoding[p] THEN "unlock" ELSE "checkSum"

Lock(t) ==
    LET p == packet[t] IN
    /\ pc[t] = "lock" /\ encodingCS[p] = NoSender
    /\ encodingCS' = [encodingCS EXCEPT ![p] = t]
    /\ Goto(t, AfterLock(p))
    /\ UNCHANGED <<payload, buffer, isEncoding, packet, sends, sendRing, stream, recvVars, put>>

CheckSum(t) ==
    LET p == packet[t] IN
    /\ pc[t] = "checkSum"
    /\ buffer' = [buffer EXCEPT ![p][HeaderSize] = CalculateCheckSum(Tail(Body(buffer[p])))]
    /\ Goto(t, "encode")
    /\ UNCHANGED <<payload, isEncoding, encodingCS, packet, sends, sendRing, stream, recvVars, put>>

(* Encode in place, then the code, the length and the key of the header. *)
Encrypt(t) ==
    LET p == packet[t]
        n == Len(buffer[p]) - HeaderSize
    IN
    /\ pc[t] = "encode"
    /\ \E key \in Keys :
           buffer' = [buffer EXCEPT ![p] =
               <<PacketCode, n % Byte, n \div Byte, key>> \o Encode(key, Body(buffer[p]))]
    /\ Goto(t, "setIsEncoding")
    /\ UNCHANGED <<payload, isEncoding, encodingCS, packet, sends, sendRing, stream, recvVars, put>>

SetIsEncoding(t) ==
    /\ pc[t] = "setIsEncoding"
    /\ isEncoding' = [isEncoding EXCEPT ![packet[t]] = TRUE]
    /\ Goto(t, "unlock")
    /\ UNCHANGED <<payload, buffer, encodingCS, packet, sends, sendRing, stream, recvVars, put>>

Unlock(t) ==
    /\ pc[t] = "unlock"
    /\ encodingCS' = [encodingCS EXCEPT ![packet[t]] = NoSender]
    /\ Goto(t, "put")
    /\ UNCHANGED <<payload, buffer, isEncoding, packet, sends, sendRing, stream, recvVars, put>>

Return(t) == Goto(t, "idle") /\ packet' = [packet EXCEPT ![t] = NoPacket] /\ UNCHANGED sends

(* Into the send ring, under its lock. *)
Put(t) ==
    /\ pc[t] = "put" /\ GetFreeSize(sendRing) > 0
    /\ sendRing' = EnqueueItem(sendRing, packet[t])
    /\ put' = Append(put, payload[packet[t]])
    /\ Return(t)
    /\ UNCHANGED <<packetVars, stream, recvVars>>

(* The ring is full: the session is released. *)
Overflow(t) ==
    /\ pc[t] = "put" /\ GetFreeSize(sendRing) = 0
    /\ worker' = "closed"
    /\ Return(t)
    /\ UNCHANGED <<packetVars, sendRing, stream, recvRing, segments, pPacket, received, put>>

SendPacket(t) ==
    \/ Lock(t) \/ CheckSum(t) \/ Encrypt(t) \/ SetIsEncoding(t) \/ Unlock(t)
    \/ Put(t) \/ Overflow(t)

(* postSend: the packet leaves the ring, and the kernel reads its buffer. *)
Transmit ==
    /\ GetUseSize(sendRing) > 0 /\ worker # "closed"
    /\ stream' = stream \o buffer[FrontItem(sendRing)]
    /\ sendRing' = MoveFront(sendRing, 1)
    /\ UNCHANGED <<packetVars, senderVars, recvVars, put>>

-------------------------------------------------------------------------------
(* The receiving end. *)

Area(segs) == FoldSeq(LAMBDA s, n : n + s[2], 0, segs)

(* The slot the i-th byte of a receive goes to. *)
Place(segs, i) == IF i <= segs[1][2] THEN segs[1][1] + i - 1 ELSE segs[2][1] + i - segs[1][2] - 1

(* The kernel fills the posted areas with n bytes, and the worker that takes  *)
(* the completion moves the rear.                                            *)
Arrive(n) ==
    /\ worker = "receiving" /\ n <= Area(segments) /\ n <= Len(stream)
    /\ LET slots == [i \in DOMAIN recvRing.slots |->
                        IF \E k \in 1..n : Place(segments, k) = i
                        THEN stream[CHOOSE k \in 1..n : Place(segments, k) = i]
                        ELSE recvRing.slots[i]]
       IN  recvRing' = MoveRear([recvRing EXCEPT !.slots = slots], n)
    /\ stream' = SubSeq(stream, n + 1, Len(stream))
    /\ worker' = "parsing"
    /\ UNCHANGED <<packetVars, senderVars, sendRing, segments, pPacket, received, put>>

Code == Peek(recvRing, 1)[1]
DataLen == LET h == Peek(recvRing, 3) IN h[2] + Byte * h[3]
HasHeader == GetUseSize(recvRing) >= 3
BadHeader ==
    \/ Code # PacketCode
    \/ DataLen = 0
    \/ DataLen > MaxPayload
    \/ HeaderSize + DataLen > GetBufferSize(recvRing)
IsWhole == GetUseSize(recvRing) >= HeaderSize + DataLen

(* One turn of the loop that finds a whole packet takes it out of the ring.  *)
TakePacket ==
    /\ worker = "parsing" /\ HasHeader /\ ~BadHeader /\ IsWhole
    /\ pPacket' = Peek(recvRing, HeaderSize + DataLen)
    /\ recvRing' = MoveFront(recvRing, HeaderSize + DataLen)
    /\ worker' = "decoding"
    /\ UNCHANGED <<packetVars, senderVars, sendRing, stream, segments, received, put>>

(* Decode in place: the checksum and the payload. OnRecv or the end of the    *)
(* session.                                                                   *)
Decoded == Decode(pPacket[4], Body(pPacket))
GoodCheckSum == Decoded[1] = CalculateCheckSum(Tail(Decoded))

OnRecv ==
    /\ worker = "decoding" /\ GoodCheckSum
    /\ received' = Append(received, Tail(Decoded))
    /\ worker' = "parsing" /\ pPacket' = <<>>
    /\ UNCHANGED <<packetVars, senderVars, sendRing, stream, recvRing, segments, put>>

CheckSumError ==
    /\ worker = "decoding" /\ ~GoodCheckSum
    /\ worker' = "closed" /\ pPacket' = <<>>
    /\ UNCHANGED <<packetVars, senderVars, sendRing, stream, recvRing, segments, received, put>>

(* A header that ends the session. *)
ParseError ==
    /\ worker = "parsing" /\ HasHeader /\ BadHeader
    /\ worker' = "closed"
    /\ UNCHANGED <<packetVars, senderVars, sendRing, stream, recvRing, segments, pPacket,
                   received, put>>

(* Nothing whole is left: postRecv, which ends the session if the ring is full. *)
PostRecv ==
    /\ worker = "parsing" /\ (HasHeader => ~BadHeader /\ ~IsWhole)
    /\ segments' = GetEnqueueSegments(recvRing)
    /\ worker' = IF segments' = <<>> THEN "closed" ELSE "receiving"
    /\ UNCHANGED <<packetVars, senderVars, sendRing, stream, recvRing, pPacket, received, put>>

Parse == TakePacket \/ OnRecv \/ CheckSumError \/ ParseError \/ PostRecv

Receive == Parse \/ \E n \in 1..Len(stream) : Arrive(n)

Next ==
    \/ \E t \in Senders : SendPacket(t) \/ \E p \in Packets : Begin(t, p)
    \/ Transmit \/ Receive

Spec == Init /\ [][Next]_vars

(* A call that began goes on, the network delivers, a worker takes what       *)
(* completes. Nobody has to call SendPacket, and a packet may stay in the     *)
(* send ring with nobody to send it (NoStrandedPacket of BaseServer).         *)
Fairness ==
    /\ WF_vars(Receive)
    /\ \A t \in Senders : WF_vars(SendPacket(t))

-------------------------------------------------------------------------------
(* Properties. *)

(* Whatever pieces the bytes arrive in, and whoever else sends the same       *)
(* packet meanwhile, OnRecv is told the payloads that were put, each once,    *)
(* whole and in order, and the session ends only at a malformed packet or a   *)
(* full send ring: the wrap of the rings and the encoding lose nothing.       *)
Pipe == INSTANCE FramePipe
            WITH sent <- put, delivered <- received, closed <- worker = "closed",
                 Capacity <- SendSize
PipeSpec == Pipe!Spec

(* When the callers are done every packet that postSend gave to the kernel    *)
(* has arrived, unless the session has ended, and no caller waits for ever:   *)
(* the receive ring has room for the rest of a packet whenever its beginning  *)
(* is there, and the lock of a packet is given back. What is still in the     *)
(* send ring need not be sent.                                                *)
AllArrive ==
    <>[](/\ \A t \in Senders : pc[t] = "idle"
         /\ \/ worker = "closed"
            \/ stream = <<>> /\ Len(received) = Len(put) - GetUseSize(sendRing))

===============================================================================
