------------------------ MODULE MCSoftwareConnections ------------------------
EXTENDS MultiConnection, LoopbackConnection, Codec
CONSTANTS t1, t2
Symmetric == Permutations({t1, t2})
VARIABLE used
allVars == <<multiVars, loopbackVars, vars, used>>

(* A process uses one of the connections, or encoder and decoder on their   *)
(* own.  The parameters matter to these only.                               *)
MCInit ==
  /\ MultiInit /\ LoopbackInit /\ Init
  /\ \/ used \in {"multi", "loopback"} /\ parameter = CHOOSE p \in Parameter : TRUE
     \/ used = "codec"
MCNext ==
  \/ used = "multi" /\ MultiNext /\ UNCHANGED <<loopbackVars, vars, used>>
  \/ used = "loopback" /\ LoopbackNext /\ UNCHANGED <<multiVars, vars, used>>
  \/ used = "codec" /\ Next /\ UNCHANGED <<multiVars, loopbackVars, used>>
MCSpec == MCInit /\ [][MCNext]_allVars

Bytes(n) == 0 .. 8 * n - 1
Address(bits, read) ==
  Encode("omnibus_to_fpga::Address", [address |-> bits, byte_enables |-> 0 .. 3, is_read |-> read])
Data(keep) == Encode("to_fpga_jtag::Data", [payload |-> Bytes(4), num_bits |-> BitsOf(33), keep_response |-> keep])
Loopback(bits) == Encode("system::Loopback", [value |-> bits])

(* Three registers with different data. *)
MCRegister == ({} :> {0}) @@ ({31} :> Bytes(4)) @@ ({0} :> {})

(* Reads and writes that differ in one bit, a read without an answer, and   *)
(* halts that are not the last.                                             *)
MCProgram ==
  {<<Address({}, {0}), Address(Bytes(4), {}), Message("omnibus_to_fpga::Data", Bytes(4)), Address({31}, {0})>>,
   <<Data({}), Address(Bytes(4), {0}), Loopback(HaltBits), Address({0}, {0}), Data({0})>>,
   <<Message("event_to_fpga::SpikePack3", Bytes(6)), Loopback(TickBits)>>}

(* One field of all ones among zeros, for each field.  The number of bits   *)
(* that JTAG shifts is from 3 to 33.                                        *)
Extreme(instruction, f, high) ==
  IF instruction = "to_fpga_jtag::Data" /\ f = "num_bits" THEN BitsOf(IF high THEN 33 ELSE 3)
  ELSE IF high THEN 0 .. Dictionary[instruction].encode[f][2] - 1 ELSE {}
ExtremePayloads(instruction) ==
  LET fields == DOMAIN Dictionary[instruction].encode
  IN IF fields = {} THEN {<<>>}
     ELSE {[f \in fields |-> Extreme(instruction, f, f = g)] : g \in fields}

(* The first message is any; those behind it can be told apart from it.     *)
MCPayloads(instruction, k) ==
  IF k = 1 THEN ExtremePayloads(instruction)
  ELSE IF instruction = (IF k = 2 THEN "event_to_fpga::SpikePack1" ELSE "timing::Setup")
  THEN ExtremePayloads(instruction)
  ELSE {}

(* Small stand-ins for the parameter sets of the repository: subwords       *)
(* smaller than PHY words (from the FPGA), as large (to the FPGA) and       *)
(* larger, with headers longer than one and longer than two PHY words.      *)
MCParameter ==
  {[phyword |-> 4, subword |-> 2, alignment |-> 1, dictionary |-> <<2, 4>>],
   [phyword |-> 4, subword |-> 4, alignment |-> 2, dictionary |-> <<2, 6>>],
   [phyword |-> 2, subword |-> 4, alignment |-> 3, dictionary |-> <<1, 1, 3>>],
   [phyword |-> 2, subword |-> 8, alignment |-> 5, dictionary |-> <<1, 3>>]}

(* Payloads that look like headers, commas, and paddings. *)
MCPayloadsOf(size) ==
  {Zeros(size), [i \in 1 .. size |-> 1], <<1>> \o Zeros(size - 1)}
=============================================================================
