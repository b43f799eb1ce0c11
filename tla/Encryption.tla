------------------------------ MODULE Encryption ------------------------------
(***************************************************************************)
(* The checksum and the XOR chain over the checksum and the payload of a   *)
(* packet. A byte has Byte values, 256 in the code; PACKET_KEY is the      *)
(* fixed key of Define.h.                                                  *)
(***************************************************************************)
LOCAL INSTANCE Naturals
LOCAL INSTANCE Sequences
LOCAL INSTANCE Bitwise
LOCAL INSTANCE SequencesExt

CONSTANTS Byte, PacketKey

Bytes == 0..(Byte - 1)

XorOf == [x, y \in Bytes |-> x ^^ y]

CalculateCheckSum(data) == FoldSeq(LAMBDA byte, sum : (sum + byte) % Byte, 0, data)

(* rk and k count up by one for each byte; each byte is chained to the one     *)
(* before it, 0 before the first.                                             *)
Chain(key, data) ==
    LET link[i \in 0..Len(data)] ==
            IF i = 0 THEN 0 ELSE XorOf[data[i], (link[i - 1] + key + i) % Byte]
    IN  [i \in 1..Len(data) |-> link[i]]

Encode(dynamicKey, data) == Chain(PacketKey, Chain(dynamicKey, data))

(* A link is undone from the encoded byte before it. *)
Unchain(key, data) ==
    [i \in 1..Len(data) |->
        XorOf[data[i], ((IF i = 1 THEN 0 ELSE data[i - 1]) + key + i) % Byte]]

Decode(dynamicKey, data) == Unchain(dynamicKey, Unchain(PacketKey, data))

===============================================================================
