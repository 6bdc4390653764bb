----------------------------- MODULE UTMessage -----------------------------
(***************************************************************************)
(* The bit layout of universal-translator (UT) messages.  A message is     *)
(* [header |-> its index in the dictionary, payload |-> its payload bits]; *)
(* bits are written with the most significant one first.                   *)
(*                                                                         *)
(* A parameter set p is [phyword |-> bits of a PHY word, subword |-> bits  *)
(* of a subword, alignment |-> HeaderAlignment, dictionary |-> the payload *)
(* size of each instruction].                                              *)
(***************************************************************************)
EXTENDS Naturals, Sequences, FiniteSetsExt

Bit == {0, 1}

Zeros(n) == [i \in 1 .. n |-> 0]

(* A number shifted right by one bit after the other. *)
Shifts(n, depth) ==
  LET shifted[k \in 0 .. depth] == IF k = 0 THEN n ELSE shifted[k - 1] \div 2
  IN shifted

Bits(n, width) == [i \in 1 .. width |-> Shifts(n, width)[width - i] % 2]
ValueOf(bits) ==
  LET value[k \in 0 .. Len(bits)] == IF k = 0 THEN 0 ELSE 2 * value[k - 1] + bits[k]
  IN value[Len(bits)]

RoundUp(n, multiple) == multiple * ((n + multiple - 1) \div multiple)

(* hate::math::num_bits *)
NumBits(n) == CHOOSE k \in 0 .. n : Shifts(n, n)[k] = 0 /\ \A j \in 0 .. k - 1 : Shifts(n, n)[j] # 0

(* One bit for the comma, and the highest header index. *)
HeaderWidth(p) == RoundUp(1 + NumBits(Len(p.dictionary) - 1), p.alignment)

(* A message fills whole subwords, and at least one PHY word.              *)
WordWidth(p, header) ==
  LET size == RoundUp(HeaderWidth(p) + p.dictionary[header + 1], p.subword)
  IN IF size < p.phyword THEN p.phyword ELSE size

LargestSize(p) == Max({WordWidth(p, h) : h \in 0 .. Len(p.dictionary) - 1})

(* The buffers of the encoder and of the decoder. *)
BufferSize(p) == RoundUp(LargestSize(p), p.phyword) + p.phyword

(* get_raw: the header on the left, its comma bit zero, the payload on the *)
(* right.                                                                  *)
Raw(p, m) ==
  Bits(m.header, HeaderWidth(p))
    \o Zeros(WordWidth(p, m.header) - HeaderWidth(p) - Len(m.payload))
    \o m.payload

(* The message of a header in the first bits of a buffer. *)
MessageIn(p, header, bits) ==
  LET size == WordWidth(p, header)
  IN [header |-> header,
      payload |-> SubSeq(bits, size - p.dictionary[header + 1] + 1, size)]
=============================================================================
