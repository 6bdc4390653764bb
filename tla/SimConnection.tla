--------------------------- MODULE SimConnection ---------------------------
(***************************************************************************)
(* The connection to the RTL simulation of the chip.  Callers use it as    *)
(* they use ARQConnection, with two differences: the simulation runs only  *)
(* during run_until_halt, and the receiver thread decodes into the receive *)
(* queue without taking m_receive_queue_mutex, which receive_all takes.    *)
(* A push that meets the swap of receive_all is a data race on two         *)
(* std::vectors: it may leave them in any state, and then nothing is known *)
(* of what follows (corrupted).                                            *)
(*                                                                         *)
(* Messages underway are kept in sequences, oldest first:                  *)
(*                                                                         *)
(*   m_send_queue -> to_sim -> (simulation) -> from_sim -> words           *)
(*                -> m_receive_queue                                       *)
(***************************************************************************)
EXTENDS Naturals, SequencesExt

CONSTANTS
  Thread,         \* host threads that call execute_messages
  Instruction,    \* the messages of programs
  Program,        \* the message sequences the threads execute
  Halt,           \* Loopback::halt, sent after each program, and its answer
  Undefined,      \* whatever a call returns of corrupted queues
  NoProgram,      \* no call in progress
  NoThread        \* a free mutex

ASSUME ProgramAssumption == Program \subseteq Seq(Instruction)
ASSUME HaltAssumption == Halt \notin Instruction
ASSUME NoProgramAssumption == NoProgram \notin Seq(Instruction)
ASSUME ThreadAssumption == NoThread \notin Thread

ASSUME UndefinedAssumption == Undefined \notin Instruction \cup {Halt}

Message == Instruction \cup {Halt}

VARIABLES
  pc,                     \* pc[t]: where thread t is in execute_messages
  request,                \* request[t]: the messages of its call
  reply,                  \* reply[t]: what its last call returned
  m_mutex,                \* holder of the connection mutex
  todo,                   \* messages the holder has still to add
  m_send_queue,           \* messages in the encoder and in the words queued behind it
  to_sim,                 \* sent to the simulator, not yet executed
  from_sim,               \* answers not yet fetched from the simulator
  runnable,               \* does the simulation run?
  receiver,               \* where work_receive is
  m_run_receive,          \* may it go on?
  words,                  \* what it has still to decode of the words in hand
  m_receive_queue,
  m_listener_halt,
  executed,               \* history: what the simulation did since the mutex was taken
  answered,               \* history: what it answered since then
  corrupted               \* history: has a push wrecked the queues in the swap?

callers == <<pc, request, reply, m_mutex, todo>>
simulator == <<to_sim, from_sim, runnable>>
receiving == <<receiver, m_run_receive, words>>
history == <<executed, answered, corrupted>>
vars == <<callers, m_send_queue, simulator, receiving, m_receive_queue, m_listener_halt, history>>

Init ==
  /\ pc = [t \in Thread |-> "idle"]
  /\ request = [t \in Thread |-> NoProgram]
  /\ reply = [t \in Thread |-> <<>>]
  /\ m_mutex = NoThread /\ todo = <<>>
  /\ m_send_queue = <<>>
  /\ to_sim = <<>> /\ from_sim = <<>> /\ runnable = FALSE
  /\ receiver = "poll" /\ m_run_receive = TRUE /\ words = <<>>
  /\ m_receive_queue = <<>>
  /\ m_listener_halt = FALSE
  /\ executed = <<>> /\ answered = <<>>
  /\ corrupted = FALSE

At(t, from, to) == pc[t] = from /\ pc' = [pc EXCEPT ![t] = to]

----------------------------------------------------------------------------
(* The callers. *)

Call(t) ==
  /\ m_run_receive
  /\ At(t, "idle", "lock")
  /\ \E p \in Program : request' = [request EXCEPT ![t] = p]
  /\ UNCHANGED <<reply, m_mutex, todo, m_send_queue, simulator, receiving,
                 m_receive_queue, m_listener_halt, history>>

(* Stream(conn): the constructor takes the connection mutex.               *)
Lock(t) ==
  /\ m_mutex = NoThread
  /\ At(t, "lock", "add")
  /\ m_mutex' = t
  /\ todo' = Append(request[t], Halt)
  /\ executed' = <<>> /\ answered' = <<>>
  /\ UNCHANGED <<request, reply, m_send_queue, simulator, receiving, m_receive_queue,
                 m_listener_halt, corrupted>>

Add(t) ==
  /\ todo # <<>>
  /\ At(t, "add", IF Tail(todo) = <<>> THEN "commit" ELSE "add")
  /\ todo' = Tail(todo)
  /\ m_send_queue' = Append(m_send_queue, Head(todo))
  /\ UNCHANGED <<request, reply, m_mutex, simulator, receiving, m_receive_queue,
                 m_listener_halt, history>>

(* commit flushes the encoder and sends the queue word by word.            *)
Commit(t) ==
  /\ At(t, "commit", "run")
  /\ to_sim' = to_sim \o m_send_queue
  /\ m_send_queue' = <<>>
  /\ UNCHANGED <<request, reply, m_mutex, todo, from_sim, runnable, receiving,
                 m_receive_queue, m_listener_halt, history>>

(* Mutant of StartSimulation: the run is entered and nothing is started.   *)
StartNothing(t) ==
  /\ At(t, "run", "wait")
  /\ UNCHANGED <<request, reply, m_mutex, todo, m_send_queue, simulator,
                 receiving, m_receive_queue, m_listener_halt, history>>

(* run_until_halt: ScopedSimulationRun throws if the simulation runs       *)
(* already, which OnlyHaltsGoAstray excludes, and starts it otherwise.     *)
StartSimulation(t) ==
  /\ ~runnable
  /\ At(t, "run", "wait")
  /\ runnable' = TRUE
  /\ UNCHANGED <<request, reply, m_mutex, todo, m_send_queue, to_sim, from_sim,
                 receiving, m_receive_queue, m_listener_halt, history>>

SeeHalt(t) ==
  /\ m_listener_halt
  /\ At(t, "wait", "stop")
  /\ UNCHANGED <<request, reply, m_mutex, todo, m_send_queue, simulator, receiving,
                 m_receive_queue, m_listener_halt, history>>

(* Mutant of StopSimulation: the scope is left and the simulation runs on. *)
StopNothing(t) ==
  /\ At(t, "stop", "reset")
  /\ UNCHANGED <<request, reply, m_mutex, todo, m_send_queue, simulator,
                 receiving, m_receive_queue, m_listener_halt, history>>

(* The scopes are left in the reverse order: the simulation is stopped ... *)
StopSimulation(t) ==
  /\ At(t, "stop", "reset")
  /\ runnable' = FALSE
  /\ UNCHANGED <<request, reply, m_mutex, todo, m_send_queue, to_sim, from_sim,
                 receiving, m_receive_queue, m_listener_halt, history>>

(* ... and then the listener is reset.                                     *)
ResetHalt(t) ==
  /\ At(t, "reset", "receive")
  /\ m_listener_halt' = FALSE
  /\ UNCHANGED <<request, reply, m_mutex, todo, m_send_queue, simulator, receiving,
                 m_receive_queue, history>>

(* receive_all takes m_receive_queue_mutex, which nobody else holds; the   *)
(* receiver thread may touch both queues until the swap is done.           *)
BeginReceiveAll(t) ==
  /\ At(t, "receive", "swap")
  /\ UNCHANGED <<request, reply, m_mutex, todo, m_send_queue, simulator, receiving,
                 m_receive_queue, m_listener_halt, history>>

(* What the swap finds: once the queues are corrupted, nobody can know.    *)
Received == IF corrupted THEN <<Undefined>> ELSE m_receive_queue

(* Mutant of EndReceiveAll: the queue is copied and not swapped out.       *)
EndReceiveAllCopied(t) ==
  /\ At(t, "swap", "idle")
  /\ reply' = [reply EXCEPT ![t] = Received]
  /\ m_mutex' = NoThread
  /\ request' = [request EXCEPT ![t] = NoProgram]
  /\ UNCHANGED <<todo, m_send_queue, simulator, receiving, m_receive_queue,
                 m_listener_halt, history>>

EndReceiveAll(t) ==
  /\ At(t, "swap", "idle")
  /\ reply' = [reply EXCEPT ![t] = Received]
  /\ m_receive_queue' = <<>>
  /\ m_mutex' = NoThread
  /\ request' = [request EXCEPT ![t] = NoProgram]
  /\ UNCHANGED <<todo, m_send_queue, simulator, receiving, m_listener_halt, history>>

----------------------------------------------------------------------------
(* The simulation. *)

(* The simulation executes the next message while it is runnable.  It      *)
(* answers a halt; it may or may not answer another message.               *)
Execute ==
  /\ runnable
  /\ to_sim # <<>>
  /\ to_sim' = Tail(to_sim)
  /\ executed' = Append(executed, Head(to_sim))
  /\ \/ /\ from_sim' = Append(from_sim, Head(to_sim))
        /\ answered' = Append(answered, Head(to_sim))
     \/ /\ Head(to_sim) # Halt
        /\ UNCHANGED <<from_sim, answered>>
  /\ UNCHANGED <<callers, m_send_queue, runnable, receiving, m_receive_queue,
                 m_listener_halt, corrupted>>

----------------------------------------------------------------------------
(* work_receive. *)

ReceiveWords ==
  /\ receiver = "poll" /\ m_run_receive
  /\ \E k \in 1 .. Len(from_sim) :
       /\ words' = SubSeq(from_sim, 1, k)
       /\ from_sim' = SubSeq(from_sim, k + 1, Len(from_sim))
  /\ receiver' = "listen"
  /\ UNCHANGED <<callers, m_send_queue, to_sim, runnable, m_run_receive, m_receive_queue,
                 m_listener_halt, history>>

(* Mutant of Listen: the listener takes any message for the halt.          *)
ListenToAnything ==
  /\ receiver = "listen"
  /\ m_listener_halt' = TRUE
  /\ receiver' = "push"
  /\ UNCHANGED <<callers, m_send_queue, simulator, m_run_receive, words, m_receive_queue,
                 history>>

(* Decoder::decode_message: the listener is called first ...               *)
Listen ==
  /\ receiver = "listen"
  /\ m_listener_halt' = (m_listener_halt \/ Head(words) = Halt)
  /\ receiver' = "push"
  /\ UNCHANGED <<callers, m_send_queue, simulator, m_run_receive, words, m_receive_queue,
                 history>>

(* Mutant of PushMessage: only the first word in hand is decoded.          *)
PushFirstOnly ==
  /\ receiver = "push"
  /\ m_receive_queue' = Append(m_receive_queue, Head(words))
  /\ words' = Tail(words)
  /\ receiver' = "poll"
  /\ UNCHANGED <<callers, m_send_queue, simulator, m_run_receive, m_listener_halt, history>>

(* ... and the message is queued after it, without the mutex: an append,   *)
(* unless it meets the swap of receive_all.  Then std::vector is written   *)
(* by two threads: the push may come before the swap as well, its message  *)
(* may be lost, or a push into buffers half exchanged, or reallocated      *)
(* under the swap, corrupts both vectors and all the answers in them.      *)
PushMessage ==
  /\ receiver = "push"
  /\ \/ /\ m_receive_queue' = Append(m_receive_queue, Head(words))
        /\ UNCHANGED corrupted
     \/ /\ \E t \in Thread : pc[t] = "swap"
        /\ UNCHANGED m_receive_queue
        /\ corrupted' \in BOOLEAN
  /\ words' = Tail(words)
  /\ receiver' = IF Tail(words) = <<>> THEN "poll" ELSE "listen"
  /\ UNCHANGED <<callers, m_send_queue, simulator, m_run_receive, m_listener_halt, executed,
                 answered>>

Exit ==
  /\ receiver = "poll" /\ ~m_run_receive
  /\ receiver' = "exited"
  /\ UNCHANGED <<callers, m_send_queue, simulator, m_run_receive, words, m_receive_queue,
                 m_listener_halt, history>>

----------------------------------------------------------------------------
(* Move construction of the connection by its only user, between calls. *)

MoveBegin ==
  /\ m_run_receive
  /\ \A t \in Thread : pc[t] = "idle"
  /\ m_run_receive' = FALSE
  /\ UNCHANGED <<callers, m_send_queue, simulator, receiver, words, m_receive_queue,
                 m_listener_halt, history>>

(* The new object has a halt listener and a receiver thread of its own.    *)
MoveEnd ==
  /\ ~m_run_receive /\ receiver = "exited"
  /\ m_run_receive' = TRUE
  /\ receiver' = "poll"
  /\ m_listener_halt' = FALSE
  /\ UNCHANGED <<callers, m_send_queue, simulator, words, m_receive_queue, history>>

----------------------------------------------------------------------------
RunUntilHalt(t) == StartSimulation(t) \/ SeeHalt(t) \/ StopSimulation(t) \/ ResetHalt(t)

ReceiveAll(t) == BeginReceiveAll(t) \/ EndReceiveAll(t)

WorkReceive == ReceiveWords \/ Listen \/ PushMessage \/ Exit

Proceed ==
  \/ \E t \in Thread : Call(t) \/ Lock(t) \/ Add(t) \/ Commit(t) \/ RunUntilHalt(t) \/ ReceiveAll(t)
  \/ Execute
  \/ WorkReceive
  \/ MoveBegin \/ MoveEnd

(* Undefined behaviour: the call may still return, with anything, and that *)
(* is all that is said of a process whose queues are corrupted.            *)
Aftermath ==
  /\ corrupted
  /\ \/ \E t \in Thread : EndReceiveAll(t)
     \/ UNCHANGED vars

Next == (~corrupted /\ Proceed) \/ Aftermath

(* As for ARQConnection: threads that can run are scheduled, the running   *)
(* simulation goes on, and calls and moves need not happen.  Nothing is    *)
(* assumed of a process with corrupted queues.                             *)
Fairness ==
  /\ \A t \in Thread :
       WF_vars(~corrupted /\ (Add(t) \/ Commit(t) \/ RunUntilHalt(t) \/ ReceiveAll(t)))
  /\ WF_vars(~corrupted /\ \E t \in Thread : Lock(t))
  /\ WF_vars(~corrupted /\ Execute)
  /\ WF_vars(~corrupted /\ WorkReceive)
  /\ WF_vars(~corrupted /\ MoveEnd)

Spec == Init /\ [][Next]_vars /\ Fairness
----------------------------------------------------------------------------
(* Every variable keeps its type, and the receiver thread has words in     *)
(* hand exactly while it decodes: it polls again after the last of them.   *)
TypeOK ==
  /\ pc \in [Thread -> {"idle", "lock", "add", "commit", "run", "wait", "stop", "reset",
                        "receive", "swap"}]
  /\ request \in [Thread -> Program \cup {NoProgram}]
  /\ reply \in [Thread -> Seq(Message) \cup {<<Undefined>>}]
  /\ m_mutex \in Thread \cup {NoThread}
  /\ todo \in Seq(Message) /\ m_send_queue \in Seq(Message)
  /\ to_sim \in Seq(Message) /\ from_sim \in Seq(Message) /\ runnable \in BOOLEAN
  /\ receiver \in {"poll", "listen", "push", "exited"}
  /\ m_run_receive \in BOOLEAN
  /\ words \in Seq(Message) /\ (words # <<>> <=> receiver \in {"listen", "push"})
  /\ m_receive_queue \in Seq(Message)
  /\ m_listener_halt \in BOOLEAN
  /\ executed \in Seq(Message) /\ answered \in Seq(Message) /\ corrupted \in BOOLEAN

Returns(t) == pc[t] = "swap" /\ pc'[t] = "idle"

(* Where a halt may be left over, or be missing.                           *)
MaybeHalt == {<<>>, <<Halt>>}

(* Of all the pushes of a call only the last can meet its swap, that of    *)
(* the answer to its halt: by then the receiver thread has queued all the  *)
(* other answers, and the listener has been told of the halt.              *)
OnlyHaltMeetsSwap ==
  \A t \in Thread : pc[t] = "swap" =>
    /\ from_sim = <<>>
    /\ words # <<>> => words = <<Halt>> /\ receiver = "push"

(* A call returns only after the simulation executed its whole program and *)
(* with the simulator stopped and empty, so that the next call finds       *)
(* nothing of it.  Only the push of its halt can meet its swap.  Unless    *)
(* that corrupted the queues, it returns all the answers of its program    *)
(* and no other call's, in order, and the missing lock misplaces only the  *)
(* answer to a halt: that of the call before may come first, and its own   *)
(* may be missing.                                                         *)
OnlyHaltsGoAstray ==
  [][/\ OnlyHaltMeetsSwap
     /\ \A t \in Thread : Returns(t) =>
          /\ corrupted \/ \E early, late \in MaybeHalt : reply'[t] = early \o Front(answered) \o late
          /\ answered # <<>> /\ Last(answered) = Halt
          /\ executed = Append(request[t], Halt)
          /\ ~runnable /\ from_sim = <<>>]_vars

(* A program that is being sent comes back from run_until_halt, which      *)
(* polls without a timeout.                                                *)
CallsReturn == \A t \in Thread : pc[t] = "add" ~> pc[t] = "idle" \/ corrupted

(* test-halt.cpp: a run of nothing but a halt is answered with that one    *)
(* halt and nothing else.                                                  *)
OneHaltIsOneAnswer ==
  [][\A t \in Thread : Returns(t) /\ request[t] = <<>> => reply'[t] = <<Halt>>]_vars
=============================================================================
