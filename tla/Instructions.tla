----------------------------- MODULE Instructions -----------------------------
(* The payloads of the instructions to and from the FPGA.  A bitset is the  *)
(* set of its bits that are one; a payload is the bitsets of its fields.  A *)
(* layout is what encode and decode, which are separate functions, do with  *)
(* the fields: encode shifts one of a width to its place, <<place, width>>; *)
(* decode shifts the payload back and keeps some bits, <<place, bits>>.     *)
EXTENDS Naturals

Lowest(width) == 0 .. width - 1

(* Payloads of one field are payload::Bitset and payload::Number, which     *)
(* encode and decode as they are.                                           *)
Empty == [size |-> 0, encode |-> [f \in {} |-> <<0, 0>>], decode |-> [f \in {} |-> <<0, {}>>]]
Value(width) ==
  [size |-> width, encode |-> [value |-> <<0, width>>], decode |-> [value |-> <<0, Lowest(width)>>]]

BitsOf(n) == {i \in 0 .. 7 : (n \div 2 ^ i) % 2 = 1}

----------------------------------------------------------------------------
(* Events.  The first element of a pack has the highest bits.               *)
max_num_packed == 3
spike_size == 16

MADCSample ==
  [size |-> 24,
   encode |-> [value |-> <<0, 14>>, timestamp |-> <<16, 8>>],
   decode |-> [value |-> <<0, Lowest(14)>>, timestamp |-> <<16, Lowest(8)>>]]
Spike ==
  [size |-> spike_size + 8,
   encode |-> [spike |-> <<0, spike_size>>, timestamp |-> <<spike_size, 8>>],
   decode |-> [spike |-> <<0, Lowest(spike_size)>>, timestamp |-> <<spike_size, Lowest(8)>>]]
SpikeToFPGA ==
  [size |-> spike_size,
   encode |-> [spike |-> <<0, spike_size>>],
   decode |-> [spike |-> <<0, Lowest(spike_size)>>]]

EncodePack(element, n) ==
  [f \in (1 .. n) \X DOMAIN element.encode |->
     <<(n - f[1]) * element.size + element.encode[f[2]][1], element.encode[f[2]][2]>>]
(* Mutant: decode takes the elements from the lowest bits on. *)
DecodeLowestFirst(element, n) ==
  [f \in (1 .. n) \X DOMAIN element.decode |->
     <<(f[1] - 1) * element.size + element.decode[f[2]][1], element.decode[f[2]][2]>>]
DecodePack(element, n) ==
  [f \in (1 .. n) \X DOMAIN element.decode |->
     <<(n - f[1]) * element.size + element.decode[f[2]][1], element.decode[f[2]][2]>>]
Pack(element, n) ==
  [size |-> n * element.size, encode |-> EncodePack(element, n), decode |-> DecodePack(element, n)]

MADCSamplePack == [n \in 1 .. max_num_packed |-> Pack(MADCSample, n)]
SpikePack == [n \in 1 .. max_num_packed |-> Pack(Spike, n)]
SpikePackToFPGA == [n \in 1 .. max_num_packed |-> Pack(SpikeToFPGA, n)]

----------------------------------------------------------------------------
(* JTAG and Omnibus.  Fields of the JTAG data instruction begin at bytes;   *)
(* the number of bits is decoded without the bit of keep_response only.     *)
JTAGData ==
  [size |-> 40 + 8 + 8,
   encode |-> [payload |-> <<0, 33>>, num_bits |-> <<40, 8>>, keep_response |-> <<48, 1>>],
   decode |-> [payload |-> <<0, Lowest(33)>>, num_bits |-> <<40, Lowest(8 + 8) \ {8}>>,
               keep_response |-> <<48, Lowest(1)>>]]

OmnibusAddress ==
  [size |-> 37,
   encode |-> [address |-> <<0, 32>>, byte_enables |-> <<32, 4>>, is_read |-> <<36, 1>>],
   decode |-> [address |-> <<0, Lowest(32)>>, byte_enables |-> <<32, Lowest(4)>>, is_read |-> <<36, Lowest(1)>>]]

(* The dictionaries: pairs of an instruction and the layout of its payload. *)
ToFPGAJTAG ==
  {<<"to_fpga_jtag::Init", Empty>>, <<"to_fpga_jtag::Scaler", Value(8)>>,
   <<"to_fpga_jtag::Ins", Value(7)>>, <<"to_fpga_jtag::Data", JTAGData>>}
Timing ==
  {<<"timing::Setup", Empty>>, <<"timing::WaitUntil", Value(32)>>, <<"timing::SystimeInit", Value(1)>>,
   <<"timing::Barrier", Value(5)>>, <<"timing::PollingOmnibusBlock", Value(1)>>}
System == {<<"system::Reset", Value(1)>>, <<"system::Loopback", Value(1)>>}
OmnibusToFPGA == {<<"omnibus_to_fpga::Address", OmnibusAddress>>, <<"omnibus_to_fpga::Data", Value(32)>>}
EventToFPGA ==
  {<<"event_to_fpga::SpikePack1", SpikePackToFPGA[1]>>, <<"event_to_fpga::SpikePack2", SpikePackToFPGA[2]>>,
   <<"event_to_fpga::SpikePack3", SpikePackToFPGA[3]>>}

ToFPGADictionary == ToFPGAJTAG \cup Timing \cup System \cup OmnibusToFPGA \cup EventToFPGA

JTAGFromHicann == {<<"jtag_from_hicann::Data", Value(33)>>}
OmnibusFromFPGA == {<<"omnibus_from_fpga::Data", Value(32)>>}
FromFPGASystem ==
  {<<"from_fpga_system::Loopback", Value(1)>>, <<"from_fpga_system::HighspeedLinkNotification", Value(8)>>,
   <<"from_fpga_system::TimeoutNotification", Value(45)>>}
TimingFromFPGA == {<<"timing_from_fpga::Systime", Value(43)>>, <<"timing_from_fpga::Sysdelta", Value(8)>>}
EventFromFPGA ==
  {<<"event_from_fpga::MADCSamplePack1", MADCSamplePack[1]>>, <<"event_from_fpga::MADCSamplePack2", MADCSamplePack[2]>>,
   <<"event_from_fpga::MADCSamplePack3", MADCSamplePack[3]>>, <<"event_from_fpga::SpikePack1", SpikePack[1]>>,
   <<"event_from_fpga::SpikePack2", SpikePack[2]>>, <<"event_from_fpga::SpikePack3", SpikePack[3]>>}

FromFPGADictionary ==
  JTAGFromHicann \cup OmnibusFromFPGA \cup FromFPGASystem \cup TimingFromFPGA \cup EventFromFPGA

Dictionary ==
  LET entries == ToFPGADictionary \cup FromFPGADictionary
  IN [instruction \in {e[1] : e \in entries} |-> (CHOOSE e \in entries : e[1] = instruction)[2]]

----------------------------------------------------------------------------
(* A message is an instruction and the bits of its payload.                 *)

Message(instruction, bits) == [instruction |-> instruction, bits |-> bits]

Encode(instruction, payload) ==
  LET layout == Dictionary[instruction]
      shifted(f) == {layout.encode[f][1] + b : b \in payload[f]}
  IN Message(instruction, (UNION {shifted(f) : f \in DOMAIN layout.encode}) \cap Lowest(layout.size))

Decode(message) ==
  LET fields == Dictionary[message.instruction].decode
  IN [f \in DOMAIN fields |-> {b \in fields[f][2] : fields[f][1] + b \in message.bits}]

(* A payload has a bitset for each field, no wider than that.               *)
IsPayload(instruction, payload) ==
  LET fields == Dictionary[instruction].encode
  IN /\ payload = [f \in DOMAIN fields |-> payload[f]]
     /\ \A f \in DOMAIN fields : payload[f] \subseteq Lowest(fields[f][2])

(* Instructions of the loopback: what the payload of a halt is.             *)
HaltBits == {}
TickBits == {0}
=============================================================================
