-------------------------- MODULE LoopbackConnection --------------------------
(* The LoopbackConnection: what its user adds and commits, its worker moves *)
(* through an intermediate queue back to the user.  Codec has the words of  *)
(* its encoder and decoder; here a message is encoded and decoded as one.   *)
EXTENDS Instructions, Sequences

CONSTANTS
  Payloads(_, _),  \* the payloads tried, by instruction and number of the message
  MaxMessages      \* bound: messages that are added

ASSUME MessagesAssumption == MaxMessages \in Nat
ASSUME PayloadsAssumption ==
  \A instruction \in DOMAIN Dictionary, k \in 1 .. MaxMessages :
    \A payload \in Payloads(instruction, k) : IsPayload(instruction, payload)

VARIABLES
  user,                  \* the user's thread
  worker,                \* the worker thread
  m_send_queue,          \* encoded, in the encoder's buffer or behind it
  m_intermediate_queue,
  m_receive_queue,
  intermediate_mutex,    \* m_intermediate_queue_mutex: who has it
  receive_mutex,         \* m_receive_queue_mutex
  m_run_receive,
  committed,             \* history: instructions that were committed
  received               \* history: instructions that were received

queues == <<m_send_queue, m_intermediate_queue, m_receive_queue>>
mutexes == <<intermediate_mutex, receive_mutex>>
history == <<committed, received>>
loopbackVars == <<user, worker, queues, mutexes, m_run_receive, history>>

LoopbackInit ==
  /\ user = "using" /\ worker = "check"
  /\ m_send_queue = <<>> /\ m_intermediate_queue = <<>> /\ m_receive_queue = <<>>
  /\ intermediate_mutex = "free" /\ receive_mutex = "free"
  /\ m_run_receive = TRUE
  /\ committed = <<>> /\ received = <<>>

DecodeAll(messages) ==
  [k \in DOMAIN messages |->
     [instruction |-> messages[k].instruction, payload |-> Decode(messages[k])]]

----------------------------------------------------------------------------
(* The user. *)

Added == Len(m_send_queue) + Len(committed)
AddMessage(instruction, payload) ==
  /\ user = "using" /\ Added < MaxMessages
  /\ m_send_queue' = Append(m_send_queue, [instruction |-> instruction, payload |-> payload])
  /\ UNCHANGED <<user, worker, m_intermediate_queue, m_receive_queue, mutexes, m_run_receive, history>>

(* The encoder is flushed, and its words are moved with the mutex locked.   *)
Commit ==
  /\ user = "using" /\ intermediate_mutex = "free" /\ m_send_queue # <<>>
  /\ m_intermediate_queue' =
       m_intermediate_queue \o
         [k \in DOMAIN m_send_queue |-> Encode(m_send_queue[k].instruction, m_send_queue[k].payload)]
  /\ m_send_queue' = <<>>
  /\ committed' = committed \o m_send_queue
  /\ UNCHANGED <<user, worker, m_receive_queue, mutexes, m_run_receive, received>>

ReceiveAllLooped ==
  /\ user = "using" /\ receive_mutex = "free" /\ m_receive_queue # <<>>
  /\ received' = received \o DecodeAll(m_receive_queue)
  /\ m_receive_queue' = <<>>
  /\ UNCHANGED <<user, worker, m_send_queue, m_intermediate_queue, mutexes, m_run_receive, committed>>

(* The destructor stops the worker and joins it. *)
Destruct ==
  /\ user = "using"
  /\ m_run_receive' = FALSE /\ user' = "joining"
  /\ UNCHANGED <<worker, queues, mutexes, history>>

Joined ==
  /\ user = "joining" /\ worker = "ended"
  /\ user' = "gone"
  /\ UNCHANGED <<worker, queues, mutexes, m_run_receive, history>>

----------------------------------------------------------------------------
(* The worker: work_receive. *)

WorkerStep(from, to) == worker = from /\ worker' = to /\ UNCHANGED <<user, m_send_queue, m_run_receive, history>>

CheckRun ==
  /\ WorkerStep("check", IF m_run_receive THEN "lock" ELSE "ended")
  /\ UNCHANGED <<m_intermediate_queue, m_receive_queue, mutexes>>

LockIntermediate ==
  /\ WorkerStep("lock", "decode")
  /\ intermediate_mutex = "free" /\ intermediate_mutex' = "worker"
  /\ UNCHANGED <<m_intermediate_queue, m_receive_queue, receive_mutex>>

LockReceiveAndDecode ==
  /\ WorkerStep("decode", "decoded")
  /\ receive_mutex = "free" /\ receive_mutex' = "worker"
  /\ m_receive_queue' = m_receive_queue \o m_intermediate_queue
  /\ UNCHANGED <<m_intermediate_queue, intermediate_mutex>>

(* Mutant: both mutexes are unlocked before the queue is cleared.           *)
UnlockBoth ==
  /\ WorkerStep("decoded", "clear")
  /\ receive_mutex' = "free" /\ intermediate_mutex' = "free"
  /\ UNCHANGED <<m_intermediate_queue, m_receive_queue>>

UnlockReceive ==
  /\ WorkerStep("decoded", "clear")
  /\ receive_mutex' = "free"
  /\ UNCHANGED <<m_intermediate_queue, m_receive_queue, intermediate_mutex>>

ClearAndUnlock ==
  /\ WorkerStep("clear", "check")
  /\ m_intermediate_queue' = <<>> /\ intermediate_mutex' = "free"
  /\ UNCHANGED <<m_receive_queue, receive_mutex>>

Worker == CheckRun \/ LockIntermediate \/ LockReceiveAndDecode \/ UnlockReceive \/ ClearAndUnlock

LoopbackNext ==
  \/ \E instruction \in DOMAIN Dictionary :
       \E payload \in Payloads(instruction, Added + 1) : AddMessage(instruction, payload)
  \/ Commit \/ ReceiveAllLooped \/ Destruct \/ Joined
  \/ Worker

----------------------------------------------------------------------------
(* What was committed is received, in order and once, or is still on its    *)
(* way, whatever the user and the worker do at the same time; and every     *)
(* field of every instruction comes back as it was.                         *)
EchoedInOrder ==
  LET underway == IF worker \in {"decoded", "clear"} THEN <<>> ELSE m_intermediate_queue
  IN committed = received \o DecodeAll(m_receive_queue) \o DecodeAll(underway)
=============================================================================
