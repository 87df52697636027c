----------------------------- MODULE WireProtocol -----------------------------
(***************************************************************************)
(* The binary protocol of the data channels                                *)
(* (packages/shared/src/p2p/protocol.wire.ts): what the encoders produce   *)
(* and what decodeMessage makes of any bytes.  A frame is a sequence of    *)
(* bytes; a resource id is the bytes of its UTF-8 text.                    *)
(***************************************************************************)
EXTENDS Bitfield

CONSTANTS
    SomeIds, SomeNumbers, SomeDatas, SomeTotals   \* what encoders are given, where they are tried

\* encodeCommonHeader throws for ids of more than 255 bytes; setUint32 has 32 bits.
ASSUME InputsAssumption ==
    /\ \A id \in SomeIds : id \in Seq(0..255) /\ Len(id) <= 255
    /\ \A n \in SomeNumbers \cup SomeTotals : n \in Nat /\ n \div 65536 < 65536
    /\ \A data \in SomeDatas : data \in Seq(0..255) /\ Len(data) \div 65536 < 65536

CAMPUS_MESH_PROTOCOL_VERSION == 1
TypeBitfield == 1
TypeHave == 2
TypeRequest == 3
TypePiece == 4
TypeChoke == 5
TypeUnchoke == 6

\* decodeMessage throws.
Malformed == [type |-> 0]

\* setUint32, big-endian.
Uint32(n) == <<n \div 16777216, (n \div 65536) % 256, (n \div 256) % 256, n % 256>>

\* Broken ReadUint32: little-endian.
ReadUint32LittleEndian(f, at) ==
    f[at + 1] + f[at + 2] * 256 + f[at + 3] * 65536 + f[at + 4] * 16777216

\* getUint32 at an offset, which counts from 0.
ReadUint32(f, at) == f[at + 1] * 16777216 + f[at + 2] * 65536 + f[at + 3] * 256 + f[at + 4]

\* encodeCommonHeader: it throws for ids of more than 255 bytes.
Header(type, id) == <<CAMPUS_MESH_PROTOCOL_VERSION, type, Len(id)>> \o id

EncodeBitfield(id, totalChunks, bf) == Header(TypeBitfield, id) \o Uint32(totalChunks) \o bf.bytes
EncodeHave(id, i) == Header(TypeHave, id) \o Uint32(i)
EncodeRequest(id, i) == Header(TypeRequest, id) \o Uint32(i)
EncodePiece(id, i, beginOffset, totalLength, data) ==
    Header(TypePiece, id) \o Uint32(i) \o Uint32(beginOffset) \o Uint32(totalLength)
        \o Uint32(Len(data)) \o data
EncodeChoke(id) == Header(TypeChoke, id)
EncodeUnchoke(id) == Header(TypeUnchoke, id)

-----------------------------------------------------------------------------
(***************************************************************************)
(* Decoding.  at is where the header ends.                                 *)
(***************************************************************************)
DecodeBitfield(f, id, at) ==
    LET totalChunks == ReadUint32(f, at)
        bytes == SubSeq(f, at + 5, Len(f))
    IN  IF Len(f) < at + 4 \/ ~Fits(totalChunks, bytes) THEN Malformed
        ELSE [type |-> TypeBitfield, resource |-> id,
              bitfield |-> [totalChunks |-> totalChunks, bytes |-> bytes]]

\* HAVE and REQUEST.
DecodeIndex(f, type, id, at) ==
    IF Len(f) < at + 4 THEN Malformed
    ELSE [type |-> type, resource |-> id, chunk |-> ReadUint32(f, at)]

DecodePiece(f, id, at) ==
    IF Len(f) < at + 16 \/ Len(f) < at + 16 + ReadUint32(f, at + 12) THEN Malformed
    ELSE [type |-> TypePiece, resource |-> id, chunk |-> ReadUint32(f, at),
          beginOffset |-> ReadUint32(f, at + 4), totalLength |-> ReadUint32(f, at + 8),
          data |-> SubSeq(f, at + 17, at + 16 + ReadUint32(f, at + 12))]

\* What follows the header, as its type says.
DecodeBody(f, type, id, at) ==
    CASE type = TypeBitfield -> DecodeBitfield(f, id, at)
      [] type \in {TypeHave, TypeRequest} -> DecodeIndex(f, type, id, at)
      [] type = TypePiece -> DecodePiece(f, id, at)
      [] type \in {TypeChoke, TypeUnchoke} -> [type |-> type, resource |-> id]
      [] OTHER -> Malformed

DecodeMessage(f) ==
    LET at == 3 + f[3]
    IN  IF Len(f) < 3 \/ f[1] # CAMPUS_MESH_PROTOCOL_VERSION \/ Len(f) < at THEN Malformed
        ELSE DecodeBody(f, f[2], SubSeq(f, 4, at), at)

-----------------------------------------------------------------------------
\* Bitfields are what they stand for: sets of chunks (bitfield.ts).
BitfieldsFaithful ==
    \A n \in SomeTotals : \A s \in SUBSET (0..(n - 1)) :
        LET bf == BitfieldOf(n, s)
        IN  /\ AvailableIndices(bf) = s
            /\ MissingIndices(bf) = (0..(n - 1)) \ s
            /\ IsComplete(bf) <=> bf = AllOf(n)
            /\ Fits(n, bf.bytes)
            /\ \A i \in 0..(n - 1) : /\ AvailableIndices(WithBit(bf, i)) = s \cup {i}
                                     /\ AvailableIndices(WithoutBit(bf, i)) = s \ {i}

\* Frame f is read as m, and refused if it is cut short anywhere or of another version.
ReadOnlyAs(f, m) ==
    /\ DecodeMessage(f) = m
    /\ \A n \in 0..(Len(f) - 1) : DecodeMessage(SubSeq(f, 1, n)) = Malformed
    /\ DecodeMessage(<<CAMPUS_MESH_PROTOCOL_VERSION + 1>> \o Tail(f)) = Malformed

\* Each encoder's frame is read as what the encoder was given.
CodecFaithful ==
    \A id \in SomeIds :
        /\ ReadOnlyAs(EncodeChoke(id), [type |-> TypeChoke, resource |-> id])
        /\ ReadOnlyAs(EncodeUnchoke(id), [type |-> TypeUnchoke, resource |-> id])
        /\ \A i \in SomeNumbers :
             /\ ReadOnlyAs(EncodeHave(id, i), [type |-> TypeHave, resource |-> id, chunk |-> i])
             /\ ReadOnlyAs(EncodeRequest(id, i),
                           [type |-> TypeRequest, resource |-> id, chunk |-> i])
             /\ \A b \in SomeNumbers, t \in SomeNumbers, data \in SomeDatas :
                  ReadOnlyAs(EncodePiece(id, i, b, t, data),
                             [type |-> TypePiece, resource |-> id, chunk |-> i, beginOffset |-> b,
                              totalLength |-> t, data |-> data])
        /\ \A n \in SomeTotals : \A s \in SUBSET (0..(n - 1)) :
             ReadOnlyAs(EncodeBitfield(id, n, BitfieldOf(n, s)),
                        [type |-> TypeBitfield, resource |-> id, bitfield |-> BitfieldOf(n, s)])
=============================================================================
