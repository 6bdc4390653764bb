--------------------------- MODULE ARQConnection ---------------------------
(***************************************************************************)
(* The connection to the FPGA over the reliable HostARQ protocol, and the  *)
(* threads that execute programs through it.                               *)
(*                                                                         *)
(* A caller takes the connection mutex (Stream), encodes the messages of   *)
(* its program and a halt, flushes them to the FPGA, polls the flag which  *)
(* the halt listener sets, and takes the receive queue.  The receiver      *)
(* thread of the connection decodes packets into that queue; the decoder   *)
(* tells the listener of a message before it queues the message.           *)
(*                                                                         *)
(* Messages that are underway are kept in sequences, oldest first:         *)
(*                                                                         *)
(*   m_encoder -> m_packet -> unflushed -> to_fpga -> (FPGA) -> from_fpga  *)
(*             -> packet -> m_receive_queue                                *)
(***************************************************************************)
EXTENDS Naturals, Sequences

CONSTANTS
  Thread,         \* host threads that call execute_messages
  Instruction,    \* the messages of programs
  Program,        \* the message sequences the threads execute
  Halt,           \* Loopback::halt, sent after each program, and its answer
  NoProgram,      \* no call in progress
  NoThread,       \* a free mutex
  Receiver,       \* the connection's own thread, work_receive
  MAX_PDUWORDS    \* words in a packet

ASSUME ProgramAssumption == Program \subseteq Seq(Instruction)
ASSUME HaltAssumption == Halt \notin Instruction
ASSUME NoProgramAssumption == NoProgram \notin Seq(Instruction)
ASSUME ThreadAssumption == NoThread \notin Thread /\ Receiver \notin Thread /\ NoThread # Receiver
ASSUME PacketAssumption == MAX_PDUWORDS \in Nat \ {0}

Message == Instruction \cup {Halt}

VARIABLES
  pc,                     \* pc[t]: where thread t is in execute_messages
  request,                \* request[t]: the messages of its call
  reply,                  \* reply[t]: what its last call returned
  m_mutex,                \* holder of the connection mutex
  todo,                   \* messages the holder has still to add
  m_encoder,              \* messages of which bits remain in the encoder
  m_packet,               \* messages completed in the words of the send queue's packet
  len,                    \* the number of these words
  unflushed,              \* sent to the HostARQ stream, which need not transmit yet
  to_fpga,                \* on their way to the FPGA
  from_fpga,              \* answers not yet fetched from the HostARQ stream
  receiver,               \* where work_receive is
  m_run_receive,          \* may it go on?
  packet,                 \* what it has still to decode of the packet in hand
  m_receive_queue_mutex,  \* holder of the receive queue's mutex
  m_receive_queue,
  m_listener_halt,
  executed,               \* history: what the FPGA did since the mutex was taken
  answered                \* history: what it answered since then

callers == <<pc, request, reply>>
host_queues == <<todo, m_encoder, m_packet, len>>
wire == <<unflushed, to_fpga, from_fpga>>
receiving == <<receiver, m_run_receive, packet, m_receive_queue_mutex>>
history == <<executed, answered>>
vars == <<callers, m_mutex, host_queues, wire, receiving, m_receive_queue, m_listener_halt, history>>

Init ==
  /\ pc = [t \in Thread |-> "idle"]
  /\ request = [t \in Thread |-> NoProgram]
  /\ reply = [t \in Thread |-> <<>>]
  /\ m_mutex = NoThread
  /\ todo = <<>> /\ m_encoder = <<>> /\ m_packet = <<>> /\ len = 0
  /\ unflushed = <<>> /\ to_fpga = <<>> /\ from_fpga = <<>>
  /\ receiver = "poll" /\ m_run_receive = TRUE
  /\ packet = <<>> /\ m_receive_queue_mutex = NoThread
  /\ m_receive_queue = <<>>
  /\ m_listener_halt = FALSE
  /\ executed = <<>> /\ answered = <<>>

At(t, from, to) == pc[t] = from /\ pc' = [pc EXCEPT ![t] = to]

----------------------------------------------------------------------------
(* The callers. *)

Call(t) ==
  /\ m_run_receive
  /\ At(t, "idle", "lock")
  /\ \E p \in Program : request' = [request EXCEPT ![t] = p]
  /\ UNCHANGED <<reply, m_mutex, host_queues, wire, receiving, m_receive_queue,
                 m_listener_halt, history>>

(* Mutant of Lock: the Stream does not wait for the connection mutex.      *)
LockUnguarded(t) ==
  /\ At(t, "lock", "add")
  /\ m_mutex' = t
  /\ todo' = Append(request[t], Halt)
  /\ executed' = <<>> /\ answered' = <<>>
  /\ UNCHANGED <<request, reply, m_encoder, m_packet, len, wire, receiving,
                 m_receive_queue, m_listener_halt>>

(* Stream(conn): the constructor takes the connection mutex.               *)
Lock(t) ==
  /\ m_mutex = NoThread
  /\ At(t, "lock", "add")
  /\ m_mutex' = t
  /\ todo' = Append(request[t], Halt)
  /\ executed' = <<>> /\ answered' = <<>>
  /\ UNCHANGED <<request, reply, m_encoder, m_packet, len, wire, receiving,
                 m_receive_queue, m_listener_halt>>

(* Mutant of Push: the packet is sent one word too late.                   *)
PushOneTooMany(ms) ==
  IF len = MAX_PDUWORDS
  THEN /\ unflushed' = unflushed \o m_packet \o ms
       /\ m_packet' = <<>> /\ len' = 0
  ELSE /\ m_packet' = m_packet \o ms /\ len' = len + 1
       /\ UNCHANGED unflushed

(* SendQueue::push of one word that completes the messages ms; a full      *)
(* packet goes to the stream with Mode::NOTHING.                           *)
Push(ms) ==
  IF len + 1 = MAX_PDUWORDS
  THEN /\ unflushed' = unflushed \o m_packet \o ms
       /\ m_packet' = <<>> /\ len' = 0
  ELSE /\ m_packet' = m_packet \o ms /\ len' = len + 1
       /\ UNCHANGED unflushed

(* add of the next message.  Its bits join those in the encoder; either    *)
(* they fill a word, which then completes the first k messages underway in *)
(* the encoder, or they do not.                                            *)
Add(t) ==
  /\ todo # <<>>
  /\ At(t, "add", IF Tail(todo) = <<>> THEN "commit" ELSE "add")
  /\ todo' = Tail(todo)
  /\ LET underway == Append(m_encoder, Head(todo))
     IN \/ /\ m_encoder' = underway
           /\ UNCHANGED <<m_packet, len, unflushed>>
        \/ \E k \in 1 .. Len(underway) :
             /\ m_encoder' = SubSeq(underway, k + 1, Len(underway))
             /\ Push(SubSeq(underway, 1, k))
  /\ UNCHANGED <<request, reply, m_mutex, to_fpga, from_fpga, receiving,
                 m_receive_queue, m_listener_halt, history>>

(* Mutant of Commit: the stream is not flushed when the packet is empty.   *)
CommitPacketOnly(t) ==
  /\ At(t, "commit", "wait")
  /\ IF m_packet \o m_encoder = <<>>
     THEN UNCHANGED <<unflushed, to_fpga>>
     ELSE to_fpga' = to_fpga \o unflushed \o m_packet \o m_encoder /\ unflushed' = <<>>
  /\ m_encoder' = <<>> /\ m_packet' = <<>> /\ len' = 0
  /\ UNCHANGED <<request, reply, m_mutex, todo, from_fpga, receiving,
                 m_receive_queue, m_listener_halt, history>>

(* commit: Encoder::flush pads the last word with commas and pushes it;    *)
(* SendQueue::flush sends what is in the packet, if anything is, and       *)
(* flushes the stream in either case.                                      *)
Commit(t) ==
  /\ At(t, "commit", "wait")
  /\ to_fpga' = to_fpga \o unflushed \o m_packet \o m_encoder
  /\ m_encoder' = <<>> /\ m_packet' = <<>> /\ len' = 0 /\ unflushed' = <<>>
  /\ UNCHANGED <<request, reply, m_mutex, todo, from_fpga, receiving,
                 m_receive_queue, m_listener_halt, history>>

(* run_until_halt: the loop is left when the listener has seen a halt ...  *)
SeeHalt(t) ==
  /\ m_listener_halt
  /\ At(t, "wait", "reset")
  /\ UNCHANGED <<request, reply, m_mutex, host_queues, wire, receiving,
                 m_receive_queue, m_listener_halt, history>>

(* ... and the listener is reset after it.                                 *)
ResetHalt(t) ==
  /\ At(t, "reset", "receive")
  /\ m_listener_halt' = FALSE
  /\ UNCHANGED <<request, reply, m_mutex, host_queues, wire, receiving,
                 m_receive_queue, history>>

(* Mutants of ReceiveAll: the queue is taken without its mutex; it is      *)
(* copied instead of swapped out.                                          *)
ReceiveAllUnlocked(t) ==
  /\ At(t, "receive", "idle")
  /\ reply' = [reply EXCEPT ![t] = m_receive_queue]
  /\ m_receive_queue' = <<>>
  /\ m_mutex' = NoThread
  /\ request' = [request EXCEPT ![t] = NoProgram]
  /\ UNCHANGED <<host_queues, wire, receiving, m_listener_halt, history>>

ReceiveAllCopied(t) ==
  /\ m_receive_queue_mutex = NoThread
  /\ At(t, "receive", "idle")
  /\ reply' = [reply EXCEPT ![t] = m_receive_queue]
  /\ m_mutex' = NoThread
  /\ request' = [request EXCEPT ![t] = NoProgram]
  /\ UNCHANGED <<host_queues, wire, receiving, m_receive_queue, m_listener_halt, history>>

(* receive_all swaps the queue out under its mutex; the Stream goes out of *)
(* scope and execute_messages returns.                                     *)
ReceiveAll(t) ==
  /\ m_receive_queue_mutex = NoThread
  /\ At(t, "receive", "idle")
  /\ reply' = [reply EXCEPT ![t] = m_receive_queue]
  /\ m_receive_queue' = <<>>
  /\ m_mutex' = NoThread
  /\ request' = [request EXCEPT ![t] = NoProgram]
  /\ UNCHANGED <<host_queues, wire, receiving, m_listener_halt, history>>

----------------------------------------------------------------------------
(* The HostARQ stream and the FPGA. *)

(* The stream may transmit before it is told to.                           *)
Transmit ==
  /\ unflushed # <<>>
  /\ to_fpga' = to_fpga \o unflushed
  /\ unflushed' = <<>>
  /\ UNCHANGED <<callers, m_mutex, host_queues, from_fpga, receiving, m_receive_queue,
                 m_listener_halt, history>>

(* The FPGA executes the next message.  It answers a halt; it may or may   *)
(* not answer another one.                                                 *)
Execute ==
  /\ to_fpga # <<>>
  /\ to_fpga' = Tail(to_fpga)
  /\ executed' = Append(executed, Head(to_fpga))
  /\ \/ /\ from_fpga' = Append(from_fpga, Head(to_fpga))
        /\ answered' = Append(answered, Head(to_fpga))
     \/ /\ Head(to_fpga) # Halt
        /\ UNCHANGED <<from_fpga, answered>>
  /\ UNCHANGED <<callers, m_mutex, host_queues, unflushed, receiving, m_receive_queue,
                 m_listener_halt>>

----------------------------------------------------------------------------
(* work_receive. *)

(* received_packet_available and receive: the FPGA packs its answers into  *)
(* packets as it likes.                                                    *)
ReceivePacket ==
  /\ receiver = "poll" /\ m_run_receive
  /\ \E k \in 1 .. Len(from_fpga) :
       /\ packet' = SubSeq(from_fpga, 1, k)
       /\ from_fpga' = SubSeq(from_fpga, k + 1, Len(from_fpga))
  /\ receiver' = "lock"
  /\ UNCHANGED <<callers, m_mutex, host_queues, unflushed, to_fpga, m_run_receive,
                 m_receive_queue_mutex, m_receive_queue, m_listener_halt, history>>

LockReceiveQueue ==
  /\ receiver = "lock" /\ m_receive_queue_mutex = NoThread
  /\ m_receive_queue_mutex' = Receiver
  /\ receiver' = "listen"
  /\ UNCHANGED <<callers, m_mutex, host_queues, wire, m_run_receive, packet,
                 m_receive_queue, m_listener_halt, history>>

(* Mutant of Listen: every message of the halt's type raises the flag.     *)
ListenToAnything ==
  /\ receiver = "listen"
  /\ m_listener_halt' = TRUE
  /\ receiver' = "push"
  /\ UNCHANGED <<callers, m_mutex, host_queues, wire, m_run_receive, packet,
                 m_receive_queue_mutex, m_receive_queue, history>>

(* Decoder::decode_message: the listener is called first.  It sets the     *)
(* flag on a halt and never clears it.                                     *)
Listen ==
  /\ receiver = "listen"
  /\ m_listener_halt' = (m_listener_halt \/ Head(packet) = Halt)
  /\ receiver' = "push"
  /\ UNCHANGED <<callers, m_mutex, host_queues, wire, m_run_receive, packet,
                 m_receive_queue_mutex, m_receive_queue, history>>

(* ... and the message is queued after it.                                 *)
PushMessage ==
  /\ receiver = "push"
  /\ m_receive_queue' = Append(m_receive_queue, Head(packet))
  /\ packet' = Tail(packet)
  /\ receiver' = IF Tail(packet) = <<>> THEN "unlock" ELSE "listen"
  /\ UNCHANGED <<callers, m_mutex, host_queues, wire, m_run_receive,
                 m_receive_queue_mutex, m_listener_halt, history>>

UnlockReceiveQueue ==
  /\ receiver = "unlock"
  /\ m_receive_queue_mutex' = NoThread
  /\ receiver' = "poll"
  /\ UNCHANGED <<callers, m_mutex, host_queues, wire, m_run_receive, packet,
                 m_receive_queue, m_listener_halt, history>>

Exit ==
  /\ receiver = "poll" /\ ~m_run_receive
  /\ receiver' = "exited"
  /\ UNCHANGED <<callers, m_mutex, host_queues, wire, m_run_receive, packet,
                 m_receive_queue_mutex, m_receive_queue, m_listener_halt, history>>

----------------------------------------------------------------------------
(* Move construction of the connection by its only user, between calls. *)

MoveBegin ==
  /\ m_run_receive
  /\ \A t \in Thread : pc[t] = "idle"
  /\ m_run_receive' = FALSE
  /\ UNCHANGED <<callers, m_mutex, host_queues, wire, receiver, packet,
                 m_receive_queue_mutex, m_receive_queue, m_listener_halt, history>>

(* After the join the new object has the stream, the queues, the encoder   *)
(* and the decoder of the old one, but a halt listener and a receiver      *)
(* thread of its own.                                                      *)
MoveEnd ==
  /\ ~m_run_receive /\ receiver = "exited"
  /\ m_run_receive' = TRUE
  /\ receiver' = "poll"
  /\ m_listener_halt' = FALSE
  /\ UNCHANGED <<callers, m_mutex, host_queues, wire, packet, m_receive_queue_mutex,
                 m_receive_queue, history>>

----------------------------------------------------------------------------
ExecuteMessages(t) ==
  Lock(t) \/ Add(t) \/ Commit(t) \/ SeeHalt(t) \/ ResetHalt(t) \/ ReceiveAll(t)

WorkReceive ==
  ReceivePacket \/ LockReceiveQueue \/ Listen \/ PushMessage \/ UnlockReceiveQueue \/ Exit

Next ==
  \/ \E t \in Thread : Call(t) \/ ExecuteMessages(t)
  \/ Transmit \/ Execute
  \/ WorkReceive
  \/ MoveBegin \/ MoveEnd

(* Threads that can run are scheduled and the FPGA goes on executing; a    *)
(* call or a move need not happen, a mutex may favour a thread for ever,   *)
(* and the stream need not transmit before it is flushed.                  *)
Fairness ==
  /\ \A t \in Thread : WF_vars(Add(t) \/ Commit(t) \/ SeeHalt(t) \/ ResetHalt(t) \/ ReceiveAll(t))
  /\ WF_vars(\E t \in Thread : Lock(t))
  /\ WF_vars(Execute)
  /\ WF_vars(WorkReceive)
  /\ WF_vars(MoveEnd)

Spec == Init /\ [][Next]_vars /\ Fairness
----------------------------------------------------------------------------
(* Every variable keeps its type; in particular the send queue's packet    *)
(* has room for another word between two calls of SendQueue::push, which   *)
(* therefore never writes behind the end of pdu.                           *)
TypeOK ==
  /\ pc \in [Thread -> {"idle", "lock", "add", "commit", "wait", "reset", "receive"}]
  /\ request \in [Thread -> Program \cup {NoProgram}]
  /\ reply \in [Thread -> Seq(Message)]
  /\ m_mutex \in Thread \cup {NoThread}
  /\ todo \in Seq(Message) /\ m_encoder \in Seq(Message) /\ m_packet \in Seq(Message)
  /\ len \in 0 .. MAX_PDUWORDS - 1
  /\ unflushed \in Seq(Message) /\ to_fpga \in Seq(Message) /\ from_fpga \in Seq(Message)
  /\ receiver \in {"poll", "lock", "listen", "push", "unlock", "exited"}
  /\ m_run_receive \in BOOLEAN
  /\ packet \in Seq(Message)
  /\ m_receive_queue_mutex \in {NoThread, Receiver}
  /\ m_receive_queue \in Seq(Message)
  /\ m_listener_halt \in BOOLEAN
  /\ executed \in Seq(Message) /\ answered \in Seq(Message)

Returns(t) == pc[t] = "receive" /\ pc'[t] = "idle"

(* Every call returns all the answers the FPGA gave to its program, in     *)
(* order and nothing else, after the FPGA executed that program and its    *)
(* halt as a whole: nothing is lost in the encoder, the send queue or the  *)
(* stream, no caller mixes with another, and the receiver thread, which    *)
(* raises the halt flag before it queues the halt, never lets receive_all  *)
(* run too early (execute_messages.h, test-halt.cpp).                      *)
EachCallGetsItsAnswers ==
  [][\A t \in Thread : Returns(t) =>
       /\ reply'[t] = answered
       /\ executed = Append(request[t], Halt)]_vars

(* When nobody holds the connection nothing of a finished call is left     *)
(* anywhere, and no halt is pending that would end the next call early.    *)
NothingLeftOver ==
  m_mutex = NoThread =>
    /\ m_encoder = <<>> /\ m_packet = <<>> /\ unflushed = <<>>
    /\ to_fpga = <<>> /\ from_fpga = <<>>
    /\ packet = <<>> /\ m_receive_queue = <<>>
    /\ ~m_listener_halt

(* The raised halt flag means that all is over, wherever the holder of the *)
(* connection is: the FPGA has executed the whole program and its answers  *)
(* are queued or in the hands of the receiver thread.                      *)
HaltMeansDone ==
  m_listener_halt =>
    /\ m_mutex # NoThread
    /\ executed = Append(request[m_mutex], Halt)
    /\ m_receive_queue \o packet = answered

(* A program that is being sent comes back: run_until_halt, which polls    *)
(* without a timeout, sees its halt and the call returns.                  *)
CallsReturn == \A t \in Thread : pc[t] = "add" ~> pc[t] = "idle"

(* The connection implements the abstract promise of execute_messages.     *)
Promise ==
  INSTANCE Execution WITH
    executed <- [t \in Thread |-> m_mutex = t /\ executed = Append(request[t], Halt)]
ImplementsExecution == Promise!Spec
=============================================================================
