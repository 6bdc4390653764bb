------------------------------- MODULE Codec -------------------------------
(***************************************************************************)
(* Encoder and Decoder with the words between them.  The encoder packs     *)
(* messages of different sizes into PHY words without gaps; a flush fills  *)
(* its last word up, beginning with a comma, a bit that is zero at the     *)
(* start of every message.  The decoder finds the messages again: it drops *)
(* what follows a comma up to the end of the word.                         *)
(*                                                                         *)
(* The host encodes for the FPGA and decodes what the FPGA encoded; in a   *)
(* LoopbackConnection both are its own.                                    *)
(***************************************************************************)
EXTENDS UTMessage, SequencesExt

CONSTANTS
  Parameter,        \* parameter sets of UT messages
  PayloadsOf(_),    \* the payloads tried, by payload size
  MaxUnderway       \* bound: messages encoded and not yet taken

(* Words and subwords are integers of the machine, so that the one divides *)
(* the other.  The decoder looks for commas at word boundaries where it    *)
(* has less than a header in its buffer, which must mean: nothing at all.  *)
ASSUME ParameterAssumption ==
  \A p \in Parameter :
    /\ {p.phyword, p.subword, p.alignment} \subseteq Nat \ {0}
    /\ p.dictionary \in Seq(Nat) /\ p.dictionary # <<>>
    /\ p.phyword % p.subword = 0 \/ p.subword % p.phyword = 0
    /\ HeaderWidth(p) <= p.subword
ASSUME PayloadsOfAssumption ==
  \A p \in Parameter : \A k \in DOMAIN p.dictionary :
    PayloadsOf(p.dictionary[k]) \subseteq [1 .. p.dictionary[k] -> Bit]

VARIABLES
  parameter,               \* the template parameters
  underway,                \* messages encoded and not yet taken, oldest first
  m_buffer_encoder,        \* bits in the buffer of the encoder
  words,                   \* the words between encoder and decoder
  m_buffer,                \* bits in the buffer of the decoder
  m_state,                 \* what the decoder does with the next word
  label,                   \* where it is in its operator()
  m_current_header,
  m_current_message_size,
  m_message_queue          \* decoded messages

encoder == <<underway, m_buffer_encoder>>
current == <<m_current_header, m_current_message_size>>
vars == <<parameter, encoder, words, m_buffer, m_state, label, current, m_message_queue>>

UTMessages ==
  UNION {{[header |-> h, payload |-> bits] : bits \in PayloadsOf(parameter.dictionary[h + 1])} :
           h \in 0 .. Len(parameter.dictionary) - 1}

Init ==
  /\ parameter \in Parameter
  /\ underway = <<>> /\ m_buffer_encoder = <<>>
  /\ words = <<>>
  /\ m_buffer = <<>>
  /\ m_state = "dropping_leading_comma" /\ label = "word"
  /\ m_current_header = 0 /\ m_current_message_size = 0
  /\ m_message_queue = <<>>

----------------------------------------------------------------------------
(* Encoder. *)

(* The first n words of a buffer. *)
WordsOf(bits, n) ==
  [i \in 1 .. n |-> SubSeq(bits, (i - 1) * parameter.phyword + 1, i * parameter.phyword)]

(* Mutant of EncodeMessage: at most one word is shifted out. *)
EncodeOneWord(m) ==
  LET filled == m_buffer_encoder \o Raw(parameter, m)
      n == IF Len(filled) >= parameter.phyword THEN 1 ELSE 0
  IN /\ Len(underway) < MaxUnderway
     /\ underway' = Append(underway, m)
     /\ words' = words \o WordsOf(filled, n)
     /\ m_buffer_encoder' = SubSeq(filled, n * parameter.phyword + 1, Len(filled))
     /\ UNCHANGED <<parameter, m_buffer, m_state, label, current, m_message_queue>>

(* operator(): the message joins the buffer and full words are shifted out.*)
EncodeMessage(m) ==
  LET filled == m_buffer_encoder \o Raw(parameter, m)
      n == Len(filled) \div parameter.phyword
  IN /\ Len(underway) < MaxUnderway
     /\ underway' = Append(underway, m)
     /\ words' = words \o WordsOf(filled, n)
     /\ m_buffer_encoder' = SubSeq(filled, n * parameter.phyword + 1, Len(filled))
     /\ UNCHANGED <<parameter, m_buffer, m_state, label, current, m_message_queue>>

(* Mutants of Flush: the word is filled up without a comma; the buffer is  *)
(* emptied and its word not pushed.                                        *)
FlushWithoutComma ==
  LET level == Len(m_buffer_encoder)
  IN /\ level > 0
     /\ words' = Append(words, m_buffer_encoder \o Zeros(parameter.phyword - level))
     /\ m_buffer_encoder' = <<>>
     /\ UNCHANGED <<parameter, underway, m_buffer, m_state, label, current, m_message_queue>>

FlushWithoutPush ==
  /\ Len(m_buffer_encoder) > 0
  /\ m_buffer_encoder' = <<>>
  /\ UNCHANGED <<parameter, underway, words, m_buffer, m_state, label, current, m_message_queue>>

Flush ==
  LET level == Len(m_buffer_encoder)
  IN /\ level > 0
     /\ words' = Append(words, m_buffer_encoder \o <<1>> \o Zeros(parameter.phyword - level - 1))
     /\ m_buffer_encoder' = <<>>
     /\ UNCHANGED <<parameter, underway, m_buffer, m_state, label, current, m_message_queue>>

(* The FPGA may fill its packets up with words that begin with a comma.    *)
Idle ==
  /\ m_buffer_encoder = <<>> /\ words = <<>>
  /\ words' = << <<1>> \o Zeros(parameter.phyword - 1) >>
  /\ UNCHANGED <<parameter, encoder, m_buffer, m_state, label, current, m_message_queue>>

----------------------------------------------------------------------------
(* Decoder::operator()(word), label by label. *)

(* A word with a leading comma is dropped between messages. *)
DropWord ==
  /\ label = "word" /\ words # <<>>
  /\ m_state = "dropping_leading_comma" /\ Head(Head(words)) = 1
  /\ words' = Tail(words)
  /\ UNCHANGED <<parameter, encoder, m_buffer, m_state, label, current, m_message_queue>>

(* Any other word is shifted in, until the header, or the message of the   *)
(* current header, is complete.                                            *)
ShiftInWord ==
  /\ label = "word" /\ words # <<>>
  /\ words' = Tail(words)
  /\ m_buffer' = m_buffer \o Head(words)
  /\ \/ /\ m_state = "dropping_leading_comma" /\ Head(Head(words)) = 0
        /\ IF HeaderWidth(parameter) > parameter.phyword /\ Len(m_buffer') < HeaderWidth(parameter)
           THEN m_state' = "filling_until_header_size" /\ UNCHANGED label
           ELSE label' = "decoding_header" /\ UNCHANGED m_state
     \/ /\ m_state = "filling_until_header_size"
        /\ label' = IF Len(m_buffer') < HeaderWidth(parameter) THEN "word" ELSE "decoding_header"
        /\ UNCHANGED m_state
     \/ /\ m_state = "filling_until_message_size"
        /\ label' = IF Len(m_buffer') < m_current_message_size THEN "word" ELSE "decoding_message"
        /\ UNCHANGED m_state
  /\ UNCHANGED <<parameter, encoder, current, m_message_queue>>

HeaderInBuffer == ValueOf(SubSeq(m_buffer, 1, HeaderWidth(parameter)))

(* An unknown header throws, which DecodedInOrder excludes. *)
DecodeHeader ==
  /\ label = "decoding_header"
  /\ m_current_header' = HeaderInBuffer
  /\ m_current_message_size' = WordWidth(parameter, HeaderInBuffer)
  /\ IF Len(m_buffer) < m_current_message_size'
     THEN label' = "word" /\ m_state' = "filling_until_message_size"
     ELSE label' = "decoding_message" /\ UNCHANGED m_state
  /\ UNCHANGED <<parameter, encoder, words, m_buffer, m_message_queue>>

(* The message is pushed; if a comma follows it the rest of its word is    *)
(* dropped; if a header is left it is decoded next.                        *)
DecodeMessage ==
  LET rest == SubSeq(m_buffer, m_current_message_size + 1, Len(m_buffer))
      comma == rest # <<>> /\ Head(rest) = 1
      dropped == IF comma THEN Len(rest) % parameter.phyword ELSE 0
  IN /\ label = "decoding_message"
     /\ m_message_queue' =
          Append(m_message_queue, MessageIn(parameter, m_current_header, m_buffer))
     /\ m_buffer' = SubSeq(rest, dropped + 1, Len(rest))
     /\ IF Len(m_buffer') < HeaderWidth(parameter)
        THEN label' = "word" /\ m_state' = "dropping_leading_comma"
        ELSE label' = "decoding_header" /\ UNCHANGED m_state
     /\ UNCHANGED <<parameter, encoder, words, current>>

(* receive_all takes the decoded messages between two words. *)
Take ==
  /\ label = "word" /\ m_message_queue # <<>>
  /\ underway' = SubSeq(underway, Len(m_message_queue) + 1, Len(underway))
  /\ m_message_queue' = <<>>
  /\ UNCHANGED <<parameter, m_buffer_encoder, words, m_buffer, m_state, label, current>>

----------------------------------------------------------------------------
DecodeWord == DropWord \/ ShiftInWord \/ DecodeHeader \/ DecodeMessage

Next ==
  \/ \E m \in UTMessages : EncodeMessage(m)
  \/ Flush \/ Idle
  \/ DecodeWord
  \/ Take

Spec == Init /\ [][Next]_vars
----------------------------------------------------------------------------
(* Every variable keeps its type; less than a word stays in the encoder,   *)
(* and the bits in the decoder fit into its buffer.                        *)
TypeOK ==
  /\ parameter \in Parameter
  /\ underway \in Seq(UTMessages) /\ m_message_queue \in Seq(UTMessages)
  /\ m_buffer_encoder \in Seq(Bit) /\ Len(m_buffer_encoder) < parameter.phyword
  /\ words \in Seq([1 .. parameter.phyword -> Bit])
  /\ m_buffer \in Seq(Bit) /\ Len(m_buffer) <= BufferSize(parameter)
  /\ m_state \in {"dropping_leading_comma", "filling_until_header_size",
                  "filling_until_message_size"}
  /\ label \in {"word", "decoding_header", "decoding_message"}
  /\ m_current_header \in 0 .. Len(parameter.dictionary) - 1
  /\ m_current_message_size \in 0 .. LargestSize(parameter)

(* What is decoded is what was encoded, in order, wherever the messages    *)
(* lie in the words and wherever flushes and idle words are in between.    *)
(* The decoder keeps in step: it meets no header outside the dictionary,   *)
(* for which operator() throws in the receiver thread and ends the         *)
(* program, and tests a word for a leading comma only where a message may  *)
(* begin.                                                                  *)
DecodedInOrder ==
  /\ IsPrefix(m_message_queue, underway)
  /\ label = "decoding_header" => HeaderInBuffer < Len(parameter.dictionary)
  /\ label = "word" /\ m_state = "dropping_leading_comma" => m_buffer = <<>>

(* After a flush nothing is held back: when all words have been decoded    *)
(* every message has been, and the decoder waits for a message to begin.   *)
FlushCompletes ==
  m_buffer_encoder = <<>> /\ words = <<>> /\ label = "word" =>
    m_message_queue = underway /\ m_buffer = <<>>

=============================================================================
