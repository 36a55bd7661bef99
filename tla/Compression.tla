---------------------------- MODULE Compression -----------------------------
(***************************************************************************)
(* The compression of a text by the three libraries, and how each finds    *)
(* the size of the text again: LZ4 has the program write it behind the     *)
(* block, Snappy and ZSTD keep it in theirs.  A block is one byte, which   *)
(* knows its library and the text; a function that throws yields no text.  *)
(***************************************************************************)
EXTENDS Header

CONSTANT ConvBufferSize  \* CONV_BUFFER_SIZE: the bytes of a number in text

ASSUME CompressionAssumption == ConvBufferSize \in Nat \ {0}

Nothing == <<>>

Block(library, data) == Bytes(library, data, 1)
IsBlock(library, s) == Len(s) = 1 /\ s[1][1] = library
Content(s) == s[1][2]

(* A number in a buffer of zeros, and fromChars, which stops at a zero.    *)
NumberInBuffer(n) == Bytes("digits", n, 1) \o Bytes("zero", 0, ConvBufferSize - 1)
FromChars(s) == s[1][2]
IsNumber(s) == s # <<>> /\ s[1][1] = "digits"

CompressLZ4(data) == Block("LZ4", data) \o NumberInBuffer(Len(data))

UncompressLZ4(s) ==
  LET size == Len(s) - ConvBufferSize
      metadata == SubSeq(s, size + 1, Len(s))
      block == SubSeq(s, 1, size)
  IN  IF IsNumber(metadata) /\ IsBlock("LZ4", block)
           /\ Len(Content(block)) <= FromChars(metadata)
        THEN Content(block) ELSE Nothing

CompressSnappy(data) == Block("SNAPPY", data)
UncompressSnappy(s) == IF IsBlock("SNAPPY", s) THEN Content(s) ELSE Nothing

CompressZSTD(data) == Block("ZSTD", data)
UncompressZSTD(s) == IF IsBlock("ZSTD", s) THEN Content(s) ELSE Nothing

(* What the header names decides, also on the other side.                  *)
Compress(compressor, data) ==
  CASE compressor = "LZ4" -> CompressLZ4(data)
    [] compressor = "SNAPPY" -> CompressSnappy(data)
    [] compressor = "ZSTD" -> CompressZSTD(data)
    [] OTHER -> data

Uncompress(compressor, s) ==
  CASE compressor = "LZ4" -> UncompressLZ4(s)
    [] compressor = "SNAPPY" -> UncompressSnappy(s)
    [] compressor = "ZSTD" -> UncompressZSTD(s)
    [] OTHER -> s

=============================================================================
