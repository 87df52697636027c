------------------------------- MODULE Bitfield -------------------------------
(***************************************************************************)
(* The bitfields of packages/shared/src/p2p/bitfield.ts: one bit for each  *)
(* chunk, eight to a byte, the first chunk in the most significant bit.    *)
(* A bitfield is its number of chunks and its bytes.  The callers never    *)
(* ask for a negative number of chunks or a negative index.                *)
(***************************************************************************)
EXTENDS Naturals, Sequences, FiniteSets, FiniteSetsExt

\* Math.ceil(totalChunks / 8)
ByteLength(totalChunks) == (totalChunks + 7) \div 8

\* new Bitfield(totalChunks)
EmptyBitfield(totalChunks) ==
    [totalChunks |-> totalChunks, bytes |-> [k \in 1..ByteLength(totalChunks) |-> 0]]

\* fromBytes throws unless the bytes are as many as the chunks need.
Fits(totalChunks, bytes) == Len(bytes) = ByteLength(totalChunks)

ByteIndex(i) == 1 + i \div 8

Mask(i) == <<128, 64, 32, 16, 8, 4, 2, 1>>[1 + (i % 8)]

\* assertBounds throws otherwise.
InBounds(bf, i) == i < bf.totalChunks

Has(bf, i) == InBounds(bf, i) /\ (bf.bytes[ByteIndex(i)] \div Mask(i)) % 2 = 1

WithBit(bf, i) == IF Has(bf, i) THEN bf ELSE [bf EXCEPT !.bytes[ByteIndex(i)] = @ + Mask(i)]
WithoutBit(bf, i) == IF Has(bf, i) THEN [bf EXCEPT !.bytes[ByteIndex(i)] = @ - Mask(i)] ELSE bf

Indices(bf) == 0..(bf.totalChunks - 1)
AvailableIndices(bf) == {i \in Indices(bf) : Has(bf, i)}
MissingIndices(bf) == {i \in Indices(bf) : ~Has(bf, i)}
Count(bf) == Cardinality(AvailableIndices(bf))
IsComplete(bf) == Count(bf) = bf.totalChunks

\* The bitfield startDownload builds from the chunks in the store, bit by bit.
BitfieldOf(totalChunks, chunks) ==
    FoldSet(LAMBDA i, bf : WithBit(bf, i), EmptyBitfield(totalChunks), chunks)

AllOf(totalChunks) == BitfieldOf(totalChunks, 0..(totalChunks - 1))
=============================================================================
