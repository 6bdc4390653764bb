---------------------------- MODULE MultiConnection ----------------------------
(* execute_messages on a MultiConnection: a thread for each connection, and *)
(* the results put together; and what is done with the results to take a    *)
(* snapshot.  The connections are ZeroMockConnections, which answer every   *)
(* message as it is added; with MayFail, execution throws, and by Register  *)
(* reads get other data or none, as may be on other connections.            *)
EXTENDS Instructions, SequencesExt

CONSTANTS
  Thread,    \* threads that share one MultiConnection
  Size,      \* connections in it
  Program,   \* message lists for one connection
  MayFail,   \* may an execution throw?
  Register,  \* what is answered to reads, by address; reads elsewhere have no answer
  MaxCalls   \* bound: calls of all threads together

ASSUME SizeAssumption == Size \in Nat \ {0}
ASSUME FailAssumption == MayFail \in BOOLEAN
ASSUME RegisterAssumption == \A a \in DOMAIN Register : Register[a] \subseteq 0 .. 31
ASSUME CallsAssumption == MaxCalls \in Nat
ASSUME ProgramAssumption == Program \subseteq Seq([instruction : DOMAIN Dictionary, bits : SUBSET Nat])

VARIABLES
  connection,  \* the state of each connection
  call,        \* call[t]: what t executes
  task,        \* task[t][i]: the execution of t on connection i
  result,      \* result[t]: what the last call of t has returned
  calls        \* calls so far

multiVars == <<connection, call, task, result, calls>>

Index == 1 .. Size
Free == <<>>
NoCall == [stage |-> "none", joined |-> 0, snapshot |-> FALSE, messages |-> <<>>]
NoTask == [stage |-> "none", clean |-> TRUE, responses |-> <<>>]
NoResult == [messages |-> <<>>, snapshot |-> FALSE, status |-> "none", value |-> <<>>, clean |-> TRUE]

MultiInit ==
  /\ connection = [i \in Index |->
                     [m_receive_queue |-> <<>>, m_halt |-> FALSE, m_mutex |-> Free, clean |-> TRUE]]
  /\ call = [t \in Thread |-> NoCall]
  /\ task = [t \in Thread |-> [i \in Index |-> NoTask]]
  /\ result = [t \in Thread |-> NoResult]
  /\ calls = 0

----------------------------------------------------------------------------
(* ZeroMockConnection.  ProcessMessage answers loopbacks, and with zeros    *)
(* the JTAG data whose bits ask for an answer and, where all of Register is *)
(* zeros, the Omnibus addresses.                                            *)

Responses(message) ==
  CASE message.instruction = "system::Loopback" ->
         <<Message("from_fpga_system::Loopback", message.bits)>>
    [] message.instruction = "to_fpga_jtag::Data" /\ JTAGData.size - 8 \in message.bits ->
         <<Message("jtag_from_hicann::Data", {})>>
    [] message.instruction = "omnibus_to_fpga::Address" /\ 4 * (8 + 1) \in message.bits ->
         LET address == Decode(message).address
         IN IF address \in DOMAIN Register THEN <<Message("omnibus_from_fpga::Data", Register[address])>> ELSE <<>>
    [] OTHER -> <<>>

IsHalt(message) == message = Message("system::Loopback", HaltBits)

Add(c, messages) ==
  [c EXCEPT !.m_receive_queue = @ \o FlattenSeq([k \in DOMAIN messages |-> Responses(messages[k])]),
            !.m_halt = @ \/ \E k \in DOMAIN messages : IsHalt(messages[k])]

(* run_until_halt throws if no halt was added. *)
ReachesHalt(c) == c.m_halt
RunUntilHalt(c) == [c EXCEPT !.m_halt = FALSE]
ReceiveAll(c) == [c EXCEPT !.m_receive_queue = <<>>, !.clean = TRUE]

----------------------------------------------------------------------------
(* ExecutorMessages. *)

(* The call begins, unless the number of message lists is wrong.            *)
Execute(t, messages, snapshot) ==
  /\ call[t] = NoCall /\ calls < MaxCalls /\ calls' = calls + 1
  /\ IF Len(messages) = Size
     THEN /\ call' = [call EXCEPT ![t] = [stage |-> "launch", joined |-> 0, snapshot |-> snapshot,
                                           messages |-> messages]]
          /\ result' = [result EXCEPT ![t] = NoResult]
     ELSE /\ UNCHANGED call
          /\ result' = [result EXCEPT ![t] = [NoResult EXCEPT !.status = "invalid"]]
  /\ UNCHANGED <<connection, task>>

(* std::async starts a thread for each connection.                          *)
Launch(t) ==
  LET i == Cardinality({k \in Index : task[t][k].stage # "none"}) + 1
  IN /\ call[t].stage = "launch"
     /\ task' = [task EXCEPT ![t][i].stage = "lock"]
     /\ call' = [call EXCEPT ![t].stage = IF i = Size THEN "join" ELSE @]
     /\ UNCHANGED <<connection, result, calls>>

(* Mutant: the connection's mutex is not taken. *)
AddUnlocked(t, i) ==
  LET halted == Append(call[t].messages[i], Message("system::Loopback", HaltBits))
  IN /\ task[t][i].stage = "lock"
     /\ connection' = [connection EXCEPT ![i] = Add(@, halted)]
     /\ task' = [task EXCEPT ![t][i] = [@ EXCEPT !.stage = "run", !.clean = connection[i].clean]]
     /\ UNCHANGED <<call, result, calls>>

(* The Stream takes the connection's mutex; messages and halt are added.    *)
LockAndAdd(t, i) ==
  LET halted == Append(call[t].messages[i], Message("system::Loopback", HaltBits))
  IN /\ task[t][i].stage = "lock" /\ connection[i].m_mutex = Free
     /\ connection' = [connection EXCEPT ![i] = [Add(@, halted) EXCEPT !.m_mutex = <<t>>]]
     /\ task' = [task EXCEPT ![t][i] = [@ EXCEPT !.stage = "run", !.clean = connection[i].clean]]
     /\ UNCHANGED <<call, result, calls>>

(* Where execution throws the stream goes, and answers stay behind.         *)
Run(t, i) ==
  /\ task[t][i].stage = "run"
  /\ \/ /\ ReachesHalt(connection[i])
        /\ connection' = [connection EXCEPT ![i] = RunUntilHalt(@)]
        /\ task' = [task EXCEPT ![t][i].stage = "receive"]
     \/ /\ MayFail \/ ~ReachesHalt(connection[i])
        /\ connection' = [connection EXCEPT ![i] = [@ EXCEPT !.m_mutex = Free, !.clean = FALSE]]
        /\ task' = [task EXCEPT ![t][i].stage = "failed"]
  /\ UNCHANGED <<call, result, calls>>

ReceiveAndUnlock(t, i) ==
  /\ task[t][i].stage = "receive"
  /\ task' = [task EXCEPT ![t][i] = [@ EXCEPT !.stage = "done", !.responses = connection[i].m_receive_queue]]
  /\ connection' = [connection EXCEPT ![i] = [ReceiveAll(@) EXCEPT !.m_mutex = Free]]
  /\ UNCHANGED <<call, result, calls>>

----------------------------------------------------------------------------
(* QuiggeldyScheduleOutToInTransform: from the reads of a snapshot and      *)
(* their answers to writes of what was read.                                *)

IsAddress(message) == message.instruction = "omnibus_to_fpga::Address"
IsRead(message) == IsAddress(message) /\ Decode(message).is_read # {}
AsWrite(message) == Encode(message.instruction, [Decode(message) EXCEPT !.is_read = {}])
IsReadData(response) == response.instruction = "omnibus_from_fpga::Data"
AsWriteData(response) == Message("omnibus_to_fpga::Data", response.bits)

Selected(messages, Test(_)) ==
  FlattenSeq([k \in DOMAIN messages |-> IF Test(messages[k]) THEN <<messages[k]>> ELSE <<>>])

Barrier == Message("timing::Barrier", BitsOf(1))

(* That answers match reads is not checked list by list: with more data     *)
(* the rest is ignored, with less vector::at throws.                        *)
Enough(responses, snapshots) ==
  \A i \in Index : Len(Selected(responses[i], IsReadData)) >= Len(Selected(snapshots[i], IsRead))

(* Mutant: the data are taken from the end. *)
TransformLastFirst(responses, snapshots) ==
  [i \in Index |->
     LET addresses == Selected(snapshots[i], IsRead)
         data == Reverse(Selected(responses[i], IsReadData))
     IN FlattenSeq([j \in DOMAIN addresses |-> <<AsWrite(addresses[j]), AsWriteData(data[j])>>])
          \o <<Barrier>>]

Transform(responses, snapshots) ==
  [i \in Index |->
     LET addresses == Selected(snapshots[i], IsRead)
         data == Selected(responses[i], IsReadData)
     IN FlattenSeq([j \in DOMAIN addresses |-> <<AsWrite(addresses[j]), AsWriteData(data[j])>>])
          \o <<Barrier>>]

----------------------------------------------------------------------------
(* The futures are waited for in order; the first that throws ends this,    *)
(* and the destructors of the others wait for their threads.                *)
Return(t, status, value) ==
  /\ result' = [result EXCEPT ![t] =
                  [messages |-> call[t].messages, snapshot |-> call[t].snapshot, status |-> status,
                   value |-> value, clean |-> \A i \in Index : task[t][i].clean]]
  /\ call' = [call EXCEPT ![t] = NoCall]
  /\ task' = [task EXCEPT ![t] = [i \in Index |-> NoTask]]

Get(t) ==
  LET i == call[t].joined + 1
      collected == [k \in Index |-> task[t][k].responses]
  IN /\ call[t].stage = "join"
     /\ \/ /\ call[t].joined < Size /\ task[t][i].stage = "done"
           /\ call' = [call EXCEPT ![t].joined = i]
           /\ UNCHANGED <<task, result>>
        \/ /\ call[t].joined < Size /\ task[t][i].stage = "failed"
           /\ call' = [call EXCEPT ![t].stage = "destroy"]
           /\ UNCHANGED <<task, result>>
        \/ /\ call[t].joined = Size /\ ~call[t].snapshot
           /\ Return(t, "ok", collected)
        \/ /\ call[t].joined = Size /\ call[t].snapshot
           /\ IF Enough(collected, call[t].messages)
              THEN Return(t, "ok", Transform(collected, call[t].messages))
              ELSE Return(t, "failed", <<>>)
     /\ UNCHANGED <<connection, calls>>

Destroy(t) ==
  /\ call[t].stage = "destroy"
  /\ \A i \in Index : task[t][i].stage \in {"done", "failed"}
  /\ Return(t, "failed", <<>>)
  /\ UNCHANGED <<connection, calls>>

----------------------------------------------------------------------------
Calls == {<<p>> : p \in Program} \cup [Index -> Program]

MultiNext ==
  \E t \in Thread :
    \/ \E messages \in Calls, snapshot \in BOOLEAN : Execute(t, messages, snapshot)
    \/ Launch(t) \/ Get(t) \/ Destroy(t)
    \/ \E i \in Index : LockAndAdd(t, i) \/ Run(t, i) \/ ReceiveAndUnlock(t, i)

----------------------------------------------------------------------------
(* What a program asks for, by the fields of its instructions.              *)
Asks(message) ==
  \/ message.instruction = "system::Loopback"
  \/ message.instruction = "to_fpga_jtag::Data" /\ Decode(message).keep_response = {0}
  \/ /\ message.instruction = "omnibus_to_fpga::Address" /\ Decode(message).is_read = {0}
     /\ Decode(message).address \in DOMAIN Register

Answer(message) ==
  CASE message.instruction = "system::Loopback" -> Message("from_fpga_system::Loopback", message.bits)
    [] message.instruction = "to_fpga_jtag::Data" -> Message("jtag_from_hicann::Data", {})
    [] message.instruction = "omnibus_to_fpga::Address" ->
         Message("omnibus_from_fpga::Data", Register[Decode(message).address])

(* The registers that a list of writes sets, each to the last value.        *)
Registers(writes) ==
  LET sets(k) == IsAddress(writes[k]) /\ ~IsRead(writes[k])
      address(k) == Decode(writes[k]).address
  IN [a \in {address(k) : k \in {j \in DOMAIN writes : sets(j)}} |->
        LET last == CHOOSE k \in DOMAIN writes : /\ sets(k) /\ address(k) = a
                                                /\ \A j \in DOMAIN writes : sets(j) /\ address(j) = a => j <= k
        IN writes[last + 1].bits]

(* Each connection answers exactly what its message list asked for, in      *)
(* order, and the halt behind it, whoever else executes at the same time,   *)
(* unless an execution that threw left answers on it.  A snapshot comes     *)
(* back as a program that writes exactly the registers that it read, each   *)
(* with its own data: it fails where a read had no answer, as the data of   *)
(* the reads behind would move to the addresses before them.                *)
CallsGetTheirAnswers ==
  \A t \in Thread : \A i \in Index :
    LET r == result[t]
        asked == Append(Selected(r.messages[i], Asks), Message("system::Loopback", HaltBits))
        read == {Decode(m).address : m \in {n \in ToSet(r.messages[i]) : IsRead(n)}}
    IN r.status = "ok" /\ r.clean =>
         IF r.snapshot
         THEN /\ read \subseteq DOMAIN Register
              /\ Registers(r.value[i]) = [a \in read |-> Register[a]] /\ Last(r.value[i]) = Barrier
         ELSE r.value[i] = [k \in DOMAIN asked |-> Answer(asked[k])]
=============================================================================
