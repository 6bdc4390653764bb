------------------------ MODULE ARQConnectionProofs ------------------------
(***************************************************************************)
(* Theorems about ARQConnection, for any number of threads, any programs   *)
(* and any packet size.  The inductive invariant IInv says where the       *)
(* messages of the one call that holds the connection are: the program and *)
(* its halt lie, in order, along the outbound path (InvOutbound), the      *)
(* answers along the inbound path (InvInbound), a halt can only be the     *)
(* last answer and only to a finished program (InvHaltLast), and a raised  *)
(* halt flag means that at most the halt is still to be queued (InvFlag).  *)
(* The last part is the refinement of Execution, step by step.             *)
(***************************************************************************)
EXTENDS ARQConnection, SequenceTheorems, TLAPS

Holding == {"add", "commit", "wait", "reset", "receive"}
Whole == Append(request[m_mutex], Halt)

InvOwner ==
  /\ \A t \in Thread : pc[t] \in Holding <=> m_mutex = t
  /\ \A t \in Thread : pc[t] # "idle" => request[t] \in Program

InvMove ==
  /\ ~m_run_receive => \A t \in Thread : pc[t] = "idle"
  /\ receiver = "exited" => ~m_run_receive

InvReceiver ==
  /\ packet # <<>> <=> receiver \in {"lock", "listen", "push"}
  /\ m_receive_queue_mutex = Receiver <=> receiver \in {"listen", "push", "unlock"}

InvFree ==
  m_mutex = NoThread =>
    /\ todo = <<>> /\ m_encoder = <<>> /\ m_packet = <<>> /\ unflushed = <<>>
    /\ to_fpga = <<>> /\ from_fpga = <<>>
    /\ packet = <<>> /\ m_receive_queue = <<>>
    /\ ~m_listener_halt

InvStage ==
  \A t \in Thread :
    /\ pc[t] = "add" => todo # <<>>
    /\ pc[t] \in {"commit", "wait", "reset", "receive"} => todo = <<>>
    /\ pc[t] \in {"wait", "reset", "receive"} =>
         m_encoder = <<>> /\ m_packet = <<>> /\ unflushed = <<>>

Outbound == executed \o (to_fpga \o (unflushed \o (m_packet \o (m_encoder \o todo))))
Inbound == m_receive_queue \o (packet \o from_fpga)

InvOutbound == m_mutex # NoThread => Outbound = Whole
InvInbound == m_mutex # NoThread => Inbound = answered

InvHaltLast ==
  m_mutex # NoThread =>
    \A i \in 1 .. Len(answered) :
      answered[i] = Halt => i = Len(answered) /\ executed = Whole

AllQueued ==
  /\ executed = Whole
  /\ from_fpga = <<>>
  /\ packet # <<>> => receiver = "push" /\ packet = <<Halt>>

InvFlag ==
  /\ m_listener_halt => m_mutex # NoThread /\ pc[m_mutex] \in {"commit", "wait", "reset"}
  /\ m_listener_halt => AllQueued
  /\ m_mutex # NoThread /\ pc[m_mutex] \in {"reset", "receive"} => AllQueued

IInv ==
  /\ TypeOK
  /\ InvOwner /\ InvMove /\ InvReceiver /\ InvFree /\ InvStage
  /\ InvOutbound /\ InvInbound /\ InvHaltLast /\ InvFlag
----------------------------------------------------------------------------
(* Concatenated queues, and messages handed over from one to the next.     *)

(* A sequence cut after its first k elements.                              *)
LEMMA Cut ==
  ASSUME NEW S, NEW s \in Seq(S), NEW k \in 1 .. Len(s)
  PROVE  /\ SubSeq(s, 1, k) \in Seq(S)
         /\ SubSeq(s, 1, k) # <<>>
         /\ SubSeq(s, k + 1, Len(s)) \in Seq(S)
         /\ SubSeq(s, 1, k) \o SubSeq(s, k + 1, Len(s)) = s
  <1>1. Len(s) \in Nat /\ \A i \in 1 .. Len(s) : s[i] \in S
    BY LenProperties, ElementOfSeq
  <1>2. /\ SubSeq(s, 1, k) \in Seq(S)
        /\ Len(SubSeq(s, 1, k)) = k
    BY <1>1, SubSeqProperties
  <1>3. SubSeq(s, k + 1, Len(s)) \in Seq(S)
    BY <1>1, SubSeqProperties
  <1>4. SubSeq(s, 1, k) \o SubSeq(s, k + 1, Len(s)) = SubSeq(s, 1, Len(s))
    BY <1>1, ConcatAdjacentSubSeq
  <1> QED BY <1>1, <1>2, <1>3, <1>4, SubSeqFull, EmptySeq

(* A sequence to which an element was appended is not empty.               *)
LEMMA AppendNotEmpty ==
  ASSUME NEW S, NEW s \in Seq(S), NEW e \in S
  PROVE  Append(s, e) \in Seq(S) /\ Append(s, e) # <<>>
  BY AppendProperties

(* Moving the head of a queue to the end of the queue before it.           *)
LEMMA HandOver ==
  ASSUME NEW S, NEW s \in Seq(S), NEW u \in Seq(S), u # <<>>
  PROVE  Append(s, Head(u)) \o Tail(u) = s \o u
  <1>1. Head(u) \in S /\ Tail(u) \in Seq(S)
    BY HeadTailProperties
  <1>2. u = <<Head(u)>> \o Tail(u)
    <2>1. Len(u) \in 1 .. Len(u)
      BY EmptySeq, LenProperties
    <2>2. SubSeq(u, 1, Len(u)) = <<u[1]>> \o SubSeq(u, 2, Len(u))
      BY <2>1, SubSeqRecursiveFirst
    <2> QED BY <2>2, SubSeqFull, TailIsSubSeq
  <1>3. <<Head(u)>> \in Seq(S)
    BY <1>1
  <1>4. Append(s, Head(u)) = s \o <<Head(u)>>
    BY <1>1, AppendIsConcat
  <1>5. (s \o <<Head(u)>>) \o Tail(u) = s \o (<<Head(u)>> \o Tail(u))
    BY <1>1, <1>3, ConcatAssociative
  <1> QED BY <1>2, <1>4, <1>5

(* Moving the head of a queue to the end of what was handed over before.   *)
LEMMA HandOverBefore ==
  ASSUME NEW S
  PROVE  \A s, u, v \in Seq(S) :
           u # <<>> => Append(s, Head(u)) \o (Tail(u) \o v) = s \o (u \o v)
  <1> SUFFICES ASSUME NEW s \in Seq(S), NEW u \in Seq(S), NEW v \in Seq(S), u # <<>>
               PROVE  Append(s, Head(u)) \o (Tail(u) \o v) = s \o (u \o v)
    OBVIOUS
  <1>1. Head(u) \in S /\ Tail(u) \in Seq(S)
    BY HeadTailProperties
  <1>2. Append(s, Head(u)) \in Seq(S)
    BY <1>1, AppendProperties
  <1>3. Append(s, Head(u)) \o (Tail(u) \o v) = (Append(s, Head(u)) \o Tail(u)) \o v
    BY <1>1, <1>2, ConcatAssociative
  <1>4. Append(s, Head(u)) \o Tail(u) = s \o u
    BY HandOver
  <1>5. (s \o u) \o v = s \o (u \o v)
    BY ConcatAssociative
  <1> QED BY <1>3, <1>4, <1>5

(* Appending to the right part of a concatenation.                         *)
LEMMA AppendRight ==
  ASSUME NEW S, NEW s \in Seq(S), NEW u \in Seq(S), NEW e \in S
  PROVE  s \o Append(u, e) = Append(s \o u, e)
  <1>1. <<e>> \in Seq(S) /\ s \o u \in Seq(S)
    BY ConcatProperties
  <1>2. s \o (u \o <<e>>) = (s \o u) \o <<e>>
    BY <1>1, ConcatAssociative
  <1> QED BY <1>1, <1>2, AppendIsConcat

(* The first element of what follows s in a longer sequence.               *)
LEMMA HeadAt ==
  ASSUME NEW S, NEW s \in Seq(S), NEW u \in Seq(S), u # <<>>
  PROVE  /\ Len(s) + 1 \in 1 .. Len(s \o u)
         /\ (s \o u)[Len(s) + 1] = Head(u)
         /\ Len(s \o u) = Len(s) + Len(u)
  <1>1. Len(s) \in Nat /\ Len(u) \in Nat \ {0}
    BY EmptySeq, LenProperties
  <1>2. /\ Len(s \o u) = Len(s) + Len(u)
        /\ \A i \in 1 .. Len(s) + Len(u) :
             (s \o u)[i] = IF i <= Len(s) THEN s[i] ELSE u[i - Len(s)]
    BY ConcatProperties
  <1>3. Len(s) + 1 \in 1 .. Len(s) + Len(u) /\ ~(Len(s) + 1 <= Len(s)) /\ Len(s) + 1 - Len(s) = 1
    BY <1>1
  <1>4. (s \o u)[Len(s) + 1] = u[1]
    BY <1>2, <1>3
  <1>5. u[1] = Head(u)
    OBVIOUS
  <1> QED BY <1>2, <1>3, <1>4, <1>5

----------------------------------------------------------------------------
USE DEF callers, host_queues, wire, receiving, history, vars

(* The steps of Next, one case each: a lemma the step lemmas start from.   *)
LEMMA NextCases ==
  ASSUME [Next]_vars
  PROVE  \/ UNCHANGED vars
         \/ \E t \in Thread : \/ Call(t) \/ Lock(t) \/ Add(t) \/ Commit(t)
                              \/ SeeHalt(t) \/ ResetHalt(t) \/ ReceiveAll(t)
         \/ Transmit \/ Execute
         \/ ReceivePacket \/ LockReceiveQueue \/ Listen \/ PushMessage
         \/ UnlockReceiveQueue \/ Exit \/ MoveBegin \/ MoveEnd
  BY DEF Next, ExecuteMessages, WorkReceive

(* A message is an instruction or the halt; programs are made of them.     *)
LEMMA MessageFacts ==
  /\ Halt \in Message
  /\ \A p \in Program : p \in Seq(Message)
  /\ NoProgram \notin Program
  <1>1. Program \subseteq Seq(Message)
    <2> SUFFICES ASSUME NEW p \in Program PROVE p \in Seq(Message)
      OBVIOUS
    <2>1. p \in Seq(Instruction)
      BY ProgramAssumption
    <2> QED BY <2>1, SeqMonotonic, Zenon DEF Message
  <1> QED BY <1>1, ProgramAssumption, NoProgramAssumption DEF Message

HostQueuesTyped ==
  /\ m_encoder \in Seq(Message)
  /\ m_packet \in Seq(Message)
  /\ len \in 0 .. MAX_PDUWORDS - 1
  /\ unflushed \in Seq(Message)

(* Pushing a word into the send queue keeps its packet below its size.     *)
LEMMA PushType ==
  ASSUME TypeOK, NEW ms \in Seq(Message), Push(ms)
  PROVE  /\ m_packet' \in Seq(Message) /\ unflushed' \in Seq(Message)
         /\ len' \in 0 .. MAX_PDUWORDS - 1
  <1>1. /\ m_packet \o ms \in Seq(Message)
        /\ unflushed \o m_packet \o ms \in Seq(Message)
    BY ConcatProperties DEF TypeOK
  <1>2. len \in 0 .. MAX_PDUWORDS - 1 /\ unflushed \in Seq(Message)
    BY DEF TypeOK
  <1>3. <<>> \in Seq(Message)
    BY EmptySeq
  <1>4. CASE len + 1 = MAX_PDUWORDS
    <2>1. m_packet' = <<>> /\ len' = 0 /\ unflushed' = unflushed \o m_packet \o ms
      BY <1>4 DEF Push
    <2>2. 0 \in 0 .. MAX_PDUWORDS - 1
      BY PacketAssumption
    <2> QED BY <2>1, <2>2, <1>1, <1>3, Zenon
  <1>5. CASE len + 1 # MAX_PDUWORDS
    <2>1. m_packet' = m_packet \o ms /\ len' = len + 1 /\ unflushed' = unflushed
      BY <1>5 DEF Push
    <2>2. len + 1 \in 0 .. MAX_PDUWORDS - 1
      BY <1>2, <1>5, PacketAssumption
    <2> QED BY <2>1, <2>2, <1>1, <1>2, Zenon
  <1> QED BY <1>4, <1>5

(* Every variable keeps its type, and a thread that is calling has a       *)
(* program to execute.                                                     *)
LEMMA TypeStep ==
  ASSUME TypeOK, InvOwner, InvReceiver, [Next]_vars
  PROVE  TypeOK'
  <1> USE MessageFacts, PacketAssumption
  <1>1. ASSUME NEW t \in Thread, Call(t) PROVE TypeOK'
    BY <1>1 DEF TypeOK, Call, At
  <1>2. ASSUME NEW t \in Thread, Lock(t) PROVE TypeOK'
    BY <1>2 DEF TypeOK, Lock, At, InvOwner
  <1>3. ASSUME NEW t \in Thread, Add(t) PROVE TypeOK'
    <2>1. pc' \in [Thread -> {"idle", "lock", "add", "commit", "wait", "reset", "receive"}]
      BY <1>3 DEF TypeOK, Add, At
    <2>2. todo' \in Seq(Message) /\ Append(m_encoder, Head(todo)) \in Seq(Message)
      BY <1>3 DEF TypeOK, Add
    <2> DEFINE underway == Append(m_encoder, Head(todo))
    <2>3. HostQueuesTyped'
      <3>1. CASE m_encoder' = underway /\ UNCHANGED <<m_packet, len, unflushed>>
        BY <2>2, <3>1 DEF TypeOK, HostQueuesTyped
      <3>2. ASSUME NEW k \in 1 .. Len(underway),
                   m_encoder' = SubSeq(underway, k + 1, Len(underway)),
                   Push(SubSeq(underway, 1, k))
            PROVE  HostQueuesTyped'
        <4> HIDE DEF underway
        <4>1. SubSeq(underway, 1, k) \in Seq(Message) /\ m_encoder' \in Seq(Message)
          BY <2>2, <3>2, Cut DEF underway
        <4> QED BY <4>1, <3>2, PushType, Zenon DEF HostQueuesTyped
      <3>3. \/ m_encoder' = underway /\ UNCHANGED <<m_packet, len, unflushed>>
            \/ \E k \in 1 .. Len(underway) :
                 /\ m_encoder' = SubSeq(underway, k + 1, Len(underway))
                 /\ Push(SubSeq(underway, 1, k))
        BY <1>3, Zenon DEF Add
      <3> HIDE DEF underway
      <3> QED BY <3>1, <3>2, <3>3, Zenon
    <2> QED BY <1>3, <2>1, <2>2, <2>3 DEF TypeOK, HostQueuesTyped, Add
  <1>4. ASSUME NEW t \in Thread, Commit(t) PROVE TypeOK'
    BY <1>4 DEF TypeOK, Commit, At
  <1>5. ASSUME NEW t \in Thread, SeeHalt(t) PROVE TypeOK'
    BY <1>5 DEF TypeOK, SeeHalt, At
  <1>6. ASSUME NEW t \in Thread, ResetHalt(t) PROVE TypeOK'
    BY <1>6 DEF TypeOK, ResetHalt, At
  <1>7. ASSUME NEW t \in Thread, ReceiveAll(t) PROVE TypeOK'
    BY <1>7 DEF TypeOK, ReceiveAll, At
  <1>8. ASSUME Transmit PROVE TypeOK'
    BY <1>8 DEF TypeOK, Transmit
  <1>9. ASSUME Execute PROVE TypeOK'
    <2>1. Head(to_fpga) \in Message /\ Tail(to_fpga) \in Seq(Message)
      BY <1>9, HeadTailProperties DEF TypeOK, Execute
    <2>2. /\ executed' \in Seq(Message) /\ from_fpga' \in Seq(Message)
          /\ answered' \in Seq(Message) /\ to_fpga' \in Seq(Message)
      <3> DEFINE m == Head(to_fpga)
      <3>1. /\ Append(executed, m) \in Seq(Message)
            /\ Append(from_fpga, m) \in Seq(Message)
            /\ Append(answered, m) \in Seq(Message)
        BY <2>1, AppendProperties DEF TypeOK
      <3>2. /\ executed' = Append(executed, m) /\ to_fpga' = Tail(to_fpga)
            /\ \/ from_fpga' = Append(from_fpga, m) /\ answered' = Append(answered, m)
               \/ UNCHANGED <<from_fpga, answered>>
        BY <1>9, Zenon DEF Execute
      <3>3. from_fpga \in Seq(Message) /\ answered \in Seq(Message)
        BY DEF TypeOK
      <3> HIDE DEF m
      <3> QED BY <2>1, <3>1, <3>2, <3>3, Zenon
    <2>3. UNCHANGED <<callers, m_mutex, host_queues, unflushed, receiving, m_receive_queue,
                      m_listener_halt>>
      BY <1>9 DEF Execute
    <2> QED BY <2>2, <2>3 DEF TypeOK
  <1>10. ASSUME ReceivePacket PROVE TypeOK'
    <2>1. PICK k \in 1 .. Len(from_fpga) :
            /\ packet' = SubSeq(from_fpga, 1, k)
            /\ from_fpga' = SubSeq(from_fpga, k + 1, Len(from_fpga))
      BY <1>10 DEF ReceivePacket
    <2>2. from_fpga \in Seq(Message)
      BY DEF TypeOK
    <2>3. packet' \in Seq(Message) /\ from_fpga' \in Seq(Message)
      BY <2>1, <2>2, Cut
    <2> QED BY <1>10, <2>3 DEF TypeOK, ReceivePacket
  <1>11. ASSUME LockReceiveQueue PROVE TypeOK'
    BY <1>11 DEF TypeOK, LockReceiveQueue
  <1>12. ASSUME Listen PROVE TypeOK'
    BY <1>12 DEF TypeOK, Listen
  <1>13. ASSUME PushMessage PROVE TypeOK'
    <2>1. packet # <<>>
      BY <1>13 DEF InvReceiver, PushMessage
    <2> QED BY <1>13, <2>1 DEF TypeOK, PushMessage
  <1>14. ASSUME UnlockReceiveQueue PROVE TypeOK'
    BY <1>14 DEF TypeOK, UnlockReceiveQueue
  <1>15. ASSUME Exit PROVE TypeOK'
    BY <1>15 DEF TypeOK, Exit
  <1>16. ASSUME MoveBegin PROVE TypeOK'
    BY <1>16 DEF TypeOK, MoveBegin
  <1>17. ASSUME MoveEnd PROVE TypeOK'
    BY <1>17 DEF TypeOK, MoveEnd
  <1>18. ASSUME UNCHANGED vars PROVE TypeOK'
    BY <1>18 DEF TypeOK
  <1> QED BY NextCases, <1>1, <1>2, <1>3, <1>4, <1>5, <1>6, <1>7, <1>8, <1>9, <1>10, <1>11, <1>12, <1>13, <1>14, <1>15, <1>16, <1>17, <1>18, Zenon

(* The steps that concern neither the callers nor the connection mutex.    *)
Elsewhere ==
  \/ UNCHANGED vars
  \/ Transmit \/ Execute
  \/ ReceivePacket \/ LockReceiveQueue \/ Listen \/ PushMessage
  \/ UnlockReceiveQueue \/ Exit \/ MoveBegin \/ MoveEnd

(* Steps that leave the callers and the mutex alone.                       *)
LEMMA ElsewhereUnchanged ==
  ASSUME Elsewhere
  PROVE  UNCHANGED <<pc, request, reply, m_mutex, todo, m_encoder, m_packet, len>>
  BY DEF Elsewhere, Transmit, Execute, ReceivePacket, LockReceiveQueue, Listen, PushMessage,
         UnlockReceiveQueue, Exit, MoveBegin, MoveEnd

(* The threads inside a Stream and the connection mutex agree.             *)
LEMMA OwnerStep ==
  ASSUME TypeOK, InvOwner, [Next]_vars
  PROVE  InvOwner'
  <1> USE DEF InvOwner, Holding, At, TypeOK
  <1> USE MessageFacts, ThreadAssumption
  <1>1. ASSUME NEW t \in Thread, Call(t) PROVE InvOwner'
    BY <1>1 DEF Call
  <1>2. ASSUME NEW t \in Thread, Lock(t) PROVE InvOwner'
    BY <1>2 DEF Lock
  <1>3. ASSUME NEW t \in Thread, Add(t) PROVE InvOwner'
    <2>1. /\ pc[t] = "add" /\ pc' = [pc EXCEPT ![t] = pc'[t]] /\ pc'[t] \in {"commit", "add"}
          /\ UNCHANGED <<request, m_mutex>>
      BY <1>3 DEF Add
    <2> QED BY <2>1
  <1>4. ASSUME NEW t \in Thread, Commit(t) PROVE InvOwner'
    BY <1>4 DEF Commit
  <1>5. ASSUME NEW t \in Thread, SeeHalt(t) PROVE InvOwner'
    BY <1>5 DEF SeeHalt
  <1>6. ASSUME NEW t \in Thread, ResetHalt(t) PROVE InvOwner'
    BY <1>6 DEF ResetHalt
  <1>7. ASSUME NEW t \in Thread, ReceiveAll(t) PROVE InvOwner'
    BY <1>7 DEF ReceiveAll
  <1>8. CASE Elsewhere
    BY <1>8, ElsewhereUnchanged
  <1> QED BY NextCases, <1>1, <1>2, <1>3, <1>4, <1>5, <1>6, <1>7, <1>8, Zenon DEF Elsewhere

(* While the connection is being moved nobody calls, and only a move ends  *)
(* the receiver thread.                                                    *)
LEMMA MoveStep ==
  ASSUME TypeOK, InvOwner, InvMove, [Next]_vars
  PROVE  InvMove'
  <1> USE DEF InvMove, At, TypeOK
  <1>1. ASSUME NEW t \in Thread, Call(t) PROVE InvMove'
    BY <1>1 DEF Call
  <1>2. ASSUME NEW t \in Thread,
               Lock(t) \/ Add(t) \/ Commit(t) \/ SeeHalt(t) \/ ResetHalt(t) \/ ReceiveAll(t)
        PROVE  InvMove'
    <2>1. pc[t] # "idle" /\ UNCHANGED <<m_run_receive, receiver>>
      BY <1>2 DEF Lock, Add, Commit, SeeHalt, ResetHalt, ReceiveAll
    <2> QED BY <2>1
  <1>3. CASE UNCHANGED vars \/ Transmit \/ Execute
    BY <1>3 DEF Transmit, Execute
  <1>4. CASE ReceivePacket \/ LockReceiveQueue \/ Listen \/ PushMessage
    BY <1>4 DEF ReceivePacket, LockReceiveQueue, Listen, PushMessage
  <1>5. CASE UnlockReceiveQueue \/ Exit \/ MoveBegin \/ MoveEnd
    BY <1>5 DEF UnlockReceiveQueue, Exit, MoveBegin, MoveEnd
  <1> QED BY NextCases, <1>1, <1>2, <1>3, <1>4, <1>5, Zenon

(* The receiver thread holds a packet, and the mutex of the receive queue, *)
(* exactly where its code says so.                                         *)
LEMMA ReceiverStep ==
  ASSUME TypeOK, InvReceiver, [Next]_vars
  PROVE  InvReceiver'
  <1> USE DEF InvReceiver, TypeOK
  <1> USE ThreadAssumption
  <1>1. ASSUME NEW t \in Thread,
               \/ Call(t) \/ Lock(t) \/ Add(t) \/ Commit(t)
               \/ SeeHalt(t) \/ ResetHalt(t) \/ ReceiveAll(t)
        PROVE  InvReceiver'
    <2>1. UNCHANGED receiving
      BY <1>1 DEF Call, Lock, Add, Commit, SeeHalt, ResetHalt, ReceiveAll
    <2> QED BY <2>1
  <1>2. CASE UNCHANGED vars \/ Transmit \/ Execute
    BY <1>2 DEF Transmit, Execute
  <1>3. CASE ReceivePacket
    <2>1. packet' # <<>>
      BY <1>3, Cut DEF ReceivePacket
    <2> QED BY <1>3, <2>1 DEF ReceivePacket
  <1>4. CASE LockReceiveQueue \/ Listen
    BY <1>4 DEF LockReceiveQueue, Listen
  <1>5. CASE PushMessage
    BY <1>5 DEF PushMessage
  <1>6. CASE UnlockReceiveQueue \/ Exit \/ MoveBegin \/ MoveEnd
    BY <1>6 DEF UnlockReceiveQueue, Exit, MoveBegin, MoveEnd
  <1> QED BY NextCases, <1>1, <1>2, <1>3, <1>4, <1>5, <1>6, Zenon

----------------------------------------------------------------------------
(* Sequences of messages on their way. *)

(* HandOverBefore, for messages.                                           *)
LEMMA MessageHandOver ==
  \A s, u, v \in Seq(Message) :
    u # <<>> => Append(s, Head(u)) \o (Tail(u) \o v) = s \o (u \o v)
  BY HandOverBefore

(* A word w is pushed behind the packet p; or p and w are sent behind q.   *)
LEMMA PushKeepsOrder ==
  \A q, p, w, r \in Seq(Message) :
    /\ (p \o w) \o r = p \o (w \o r)
    /\ (q \o p \o w) \o (<<>> \o r) = q \o (p \o (w \o r))
  <1>1. \A x, y, z \in Seq(Message) : (x \o y) \o z = x \o (y \o z)
    BY ConcatAssociative
  <1>2. \A x, y \in Seq(Message) : x \o y \in Seq(Message)
    BY ConcatProperties
  <1>3. \A x \in Seq(Message) : <<>> \o x = x
    BY ConcatEmptySeq
  <1> SUFFICES ASSUME NEW q \in Seq(Message), NEW p \in Seq(Message),
                      NEW w \in Seq(Message), NEW r \in Seq(Message)
               PROVE  /\ (p \o w) \o r = p \o (w \o r)
                      /\ (q \o p \o w) \o (<<>> \o r) = q \o (p \o (w \o r))
    OBVIOUS
  <1>4. (p \o w) \o r = p \o (w \o r) /\ (q \o p) \o w = q \o (p \o w)
    BY <1>1, Zenon
  <1>5. p \o w \in Seq(Message) /\ <<>> \o r = r
    BY <1>2, <1>3, Zenon
  <1>6. (q \o (p \o w)) \o r = q \o ((p \o w) \o r)
    BY <1>1, <1>5, Zenon
  <1> QED BY <1>4, <1>5, <1>6, Zenon

(* Concatenation keeps the type of sequences of messages.                  *)
LEMMA ConcatTyped ==
  ASSUME TypeOK
  PROVE  /\ m_encoder \o todo \in Seq(Message)
         /\ m_packet \o (m_encoder \o todo) \in Seq(Message)
         /\ unflushed \o (m_packet \o (m_encoder \o todo)) \in Seq(Message)
         /\ to_fpga \o (unflushed \o (m_packet \o (m_encoder \o todo))) \in Seq(Message)
         /\ packet \o from_fpga \in Seq(Message)
  BY ConcatProperties DEF TypeOK

(* A holder of the connection whose program is executed has nothing left   *)
(* on the way out.                                                         *)
LEMMA NothingOutbound ==
  ASSUME TypeOK, InvOutbound, m_mutex # NoThread, executed = Whole
  PROVE  /\ to_fpga = <<>> /\ unflushed = <<>> /\ m_packet = <<>>
         /\ m_encoder = <<>> /\ todo = <<>>
  <1> DEFINE rest == to_fpga \o (unflushed \o (m_packet \o (m_encoder \o todo)))
  <1>1. rest \in Seq(Message) /\ executed \in Seq(Message)
    BY ConcatTyped DEF TypeOK
  <1>2. executed \o rest = executed
    BY DEF InvOutbound, Outbound
  <1>3. rest = <<>>
    <2> HIDE DEF rest
    <2> QED BY <1>1, <1>2, ConcatEqualIffEmpty
  <1> QED BY <1>3, ConcatTyped, ConcatEqualIffEmpty DEF TypeOK

(* Only taking and giving back the mutex changes the program underway.     *)
LEMMA WholeUnchanged ==
  ASSUME TypeOK, InvOwner, [Next]_vars, m_mutex # NoThread,
         \A t \in Thread : ~ReceiveAll(t)
  PROVE  m_mutex' = m_mutex /\ Whole' = Whole
  <1> USE DEF TypeOK
  <1>1. ASSUME NEW t \in Thread, Call(t) PROVE m_mutex' = m_mutex /\ Whole' = Whole
    <2>1. m_mutex # t
      BY <1>1 DEF Call, At, InvOwner, Holding
    <2>2. m_mutex' = m_mutex /\ request'[m_mutex] = request[m_mutex]
      BY <1>1, <2>1 DEF Call
    <2> QED BY <2>2 DEF Whole
  <1>2. ASSUME NEW t \in Thread, Lock(t) PROVE FALSE
    BY <1>2 DEF Lock
  <1>3. ASSUME NEW t \in Thread, Add(t) \/ Commit(t) \/ SeeHalt(t) \/ ResetHalt(t)
        PROVE m_mutex' = m_mutex /\ Whole' = Whole
    BY <1>3 DEF Add, Commit, SeeHalt, ResetHalt, Whole
  <1>4. CASE Elsewhere
    BY <1>4, ElsewhereUnchanged DEF Whole
  <1> QED BY NextCases, <1>1, <1>2, <1>3, <1>4, Zenon DEF Elsewhere

(* What the holder has passed on at each stage of execute_messages.        *)
LEMMA StageStep ==
  ASSUME TypeOK, InvOwner, InvStage, [Next]_vars
  PROVE  InvStage'
  <1> USE DEF InvStage, TypeOK, At
  <1>1. ASSUME NEW t \in Thread, Call(t) PROVE InvStage'
    BY <1>1 DEF Call
  <1>2. ASSUME NEW t \in Thread, Lock(t) PROVE InvStage'
    <2>1. todo' # <<>>
      <3>1. request[t] \in Seq(Message)
        <4>1. pc[t] # "idle"
          BY <1>2 DEF Lock
        <4>2. request[t] \in Program
          BY <4>1, Zenon DEF InvOwner
        <4> QED BY <4>2, MessageFacts, Zenon
      <3>2. Append(request[t], Halt) # <<>>
        BY <3>1, MessageFacts, AppendNotEmpty, Zenon
      <3>3. todo' = Append(request[t], Halt)
        BY <1>2 DEF Lock
      <3> QED BY <3>2, <3>3, Zenon
    <2>2. \A u \in Thread : u # t => pc'[u] \notin Holding
      BY <1>2, ThreadAssumption DEF Lock, InvOwner
    <2>3. pc'[t] = "add"
      BY <1>2 DEF Lock
    <2> QED BY <2>1, <2>2, <2>3 DEF Holding
  <1>3. ASSUME NEW t \in Thread, Add(t) PROVE InvStage'
    <2>1. \A u \in Thread : u # t => pc'[u] \notin Holding
      BY <1>3 DEF Add, InvOwner, Holding
    <2>2. /\ pc'[t] = "add" => todo' # <<>>
          /\ pc'[t] = "commit" => todo' = <<>>
          /\ pc'[t] \in {"add", "commit"}
      BY <1>3 DEF Add
    <2> QED BY <2>1, <2>2 DEF Holding
  <1>4. ASSUME NEW t \in Thread, Commit(t) PROVE InvStage'
    BY <1>4 DEF Commit
  <1>5. ASSUME NEW t \in Thread, SeeHalt(t) \/ ResetHalt(t) \/ ReceiveAll(t) PROVE InvStage'
    BY <1>5 DEF SeeHalt, ResetHalt, ReceiveAll
  <1>6. CASE Elsewhere
    <2>1. UNCHANGED unflushed \/ unflushed' = <<>>
      BY <1>6 DEF Elsewhere, Transmit, Execute, ReceivePacket, LockReceiveQueue, Listen,
                  PushMessage, UnlockReceiveQueue, Exit, MoveBegin, MoveEnd
    <2> QED BY <1>6, <2>1, ElsewhereUnchanged
  <1> QED BY NextCases, <1>1, <1>2, <1>3, <1>4, <1>5, <1>6, Zenon DEF Elsewhere

(* A call leaves nothing behind when it gives the connection back.         *)
LEMMA FreeStep ==
  ASSUME IInv, [Next]_vars
  PROVE  InvFree'
  <1> USE DEF IInv
  <1>1. ASSUME NEW t \in Thread, Lock(t) PROVE InvFree'
    BY <1>1, ThreadAssumption DEF Lock, InvFree
  <1>2. ASSUME NEW t \in Thread, ReceiveAll(t) PROVE InvFree'
    <2>1. m_mutex = t /\ m_mutex # NoThread /\ pc[m_mutex] = "receive"
      BY <1>2, ThreadAssumption DEF ReceiveAll, At, InvOwner, Holding
    <2>2. AllQueued /\ ~m_listener_halt
      BY <2>1 DEF InvFlag
    <2>3. packet = <<>>
      BY <1>2, <2>2, ThreadAssumption DEF AllQueued, InvReceiver, ReceiveAll
    <2>4. /\ to_fpga = <<>> /\ unflushed = <<>> /\ m_packet = <<>>
          /\ m_encoder = <<>> /\ todo = <<>>
      BY <2>1, <2>2, NothingOutbound DEF AllQueued
    <2> QED BY <1>2, <2>2, <2>3, <2>4 DEF InvFree, ReceiveAll, AllQueued
  <1>3. ASSUME NEW t \in Thread, Add(t) \/ Commit(t) \/ SeeHalt(t) \/ ResetHalt(t)
        PROVE  InvFree'
    <2>1. m_mutex = t
      BY <1>3 DEF Add, Commit, SeeHalt, ResetHalt, At, InvOwner, Holding
    <2>2. m_mutex' = m_mutex
      BY <1>3 DEF Add, Commit, SeeHalt, ResetHalt
    <2> QED BY <2>1, <2>2, ThreadAssumption DEF InvFree
  <1>4. ASSUME NEW t \in Thread, Call(t) PROVE InvFree'
    BY <1>4 DEF Call, InvFree
  <1>5. CASE Elsewhere
    <2> SUFFICES ASSUME m_mutex = NoThread PROVE InvFree'
      BY <1>5, ElsewhereUnchanged DEF InvFree
    <2>1. InvFree!2
      BY DEF InvFree
    <2>2. CASE Transmit \/ Execute \/ UNCHANGED vars
      BY <2>1, <2>2 DEF Transmit, Execute, InvFree
    <2>3. CASE ReceivePacket
      <3>1. Len(from_fpga) = 0
        BY <2>1, EmptySeq
      <3> QED BY <2>3, <3>1 DEF ReceivePacket
    <2>4. CASE LockReceiveQueue \/ Listen \/ PushMessage
      BY <2>1, <2>4 DEF LockReceiveQueue, Listen, PushMessage, InvReceiver
    <2>5. CASE UnlockReceiveQueue \/ Exit \/ MoveBegin \/ MoveEnd
      BY <2>1, <2>5 DEF UnlockReceiveQueue, Exit, MoveBegin, MoveEnd, InvFree
    <2> QED BY <1>5, <2>2, <2>3, <2>4, <2>5 DEF Elsewhere
  <1> QED BY NextCases, <1>1, <1>2, <1>3, <1>4, <1>5, Zenon DEF Elsewhere

(* The program and its halt lie along the outbound path, in order.         *)
LEMMA OutboundStep ==
  ASSUME IInv, [Next]_vars
  PROVE  InvOutbound'
  <1> USE DEF IInv
  <1> USE MessageFacts
  <1>1. ASSUME NEW t \in Thread, Lock(t) PROVE InvOutbound'
    <2>1. InvFree!2
      BY <1>1 DEF InvFree, Lock
    <2>2. /\ executed' = <<>> /\ to_fpga' = <<>> /\ unflushed' = <<>>
          /\ m_packet' = <<>> /\ m_encoder' = <<>> /\ todo' = Append(request[t], Halt)
          /\ Whole' = Append(request[t], Halt)
      BY <1>1, <2>1 DEF Lock, Whole
    <2>3. Append(request[t], Halt) \in Seq(Message)
      <3>1. pc[t] # "idle"
        BY <1>1 DEF Lock, At
      <3>2. request[t] \in Seq(Message)
        BY <3>1, Zenon DEF InvOwner
      <3> QED BY <3>2, AppendProperties
    <2> QED BY <2>2, <2>3, ConcatEmptySeq DEF InvOutbound, Outbound
  <1>2. ASSUME NEW t \in Thread, ReceiveAll(t) PROVE InvOutbound'
    BY <1>2 DEF ReceiveAll, InvOutbound
  <1>3. ASSUME m_mutex' = m_mutex, Whole' = Whole, Outbound' = Outbound PROVE InvOutbound'
    BY <1>3, Zenon DEF InvOutbound
  <1>4. ASSUME NEW t \in Thread, Add(t) \/ Commit(t) \/ SeeHalt(t) \/ ResetHalt(t)
        PROVE  m_mutex # NoThread /\ \A u \in Thread : ~ReceiveAll(u)
    <2>1. m_mutex = t /\ pc[t] # "receive"
      BY <1>4 DEF Add, Commit, SeeHalt, ResetHalt, At, InvOwner, Holding
    <2>2. ASSUME NEW u \in Thread, ReceiveAll(u) PROVE FALSE
      BY <2>1, <2>2 DEF ReceiveAll, At, InvOwner, Holding
    <2> QED BY <2>1, <2>2, ThreadAssumption
  <1>5. ASSUME NEW t \in Thread, Add(t) PROVE InvOutbound'
    <2> DEFINE underway == Append(m_encoder, Head(todo))
    <2>1. /\ todo # <<>> /\ todo' = Tail(todo) /\ UNCHANGED <<executed, to_fpga>>
          /\ \/ m_encoder' = underway /\ UNCHANGED <<m_packet, unflushed>>
             \/ \E k \in 1 .. Len(underway) :
                  /\ m_encoder' = SubSeq(underway, k + 1, Len(underway))
                  /\ Push(SubSeq(underway, 1, k))
      BY <1>5, Zenon DEF Add
    <2>2. /\ Head(todo) \in Message /\ Tail(todo) \in Seq(Message)
          /\ todo \in Seq(Message) /\ m_encoder \in Seq(Message)
          /\ m_packet \in Seq(Message) /\ unflushed \in Seq(Message)
      BY <2>1, HeadTailProperties DEF TypeOK
    <2>3. underway \in Seq(Message) /\ underway \o Tail(todo) = m_encoder \o todo
      BY <2>1, <2>2, HandOver, AppendProperties
    <2>4. unflushed' \o (m_packet' \o (m_encoder' \o todo'))
            = unflushed \o (m_packet \o (m_encoder \o todo))
      <3> HIDE DEF underway
      <3>1. CASE m_encoder' = underway /\ UNCHANGED <<m_packet, unflushed>>
        BY <2>1, <2>3, <3>1
      <3>2. ASSUME NEW k \in 1 .. Len(underway),
                   m_encoder' = SubSeq(underway, k + 1, Len(underway)),
                   Push(SubSeq(underway, 1, k))
            PROVE  <2>4
        <4> DEFINE word == SubSeq(underway, 1, k)
        <4>1. /\ word \in Seq(Message) /\ m_encoder' \in Seq(Message)
              /\ word \o m_encoder' = underway
          BY <2>3, <3>2, Cut
        <4>2. word \o (m_encoder' \o todo') = m_encoder \o todo
          <5>1. (word \o m_encoder') \o Tail(todo) = word \o (m_encoder' \o Tail(todo))
            BY <2>2, <4>1, ConcatAssociative
          <5> QED BY <2>1, <2>3, <4>1, <5>1
        <4>3. m_encoder' \o todo' \in Seq(Message)
          BY <2>1, <2>2, <4>1, ConcatProperties
        <4>4. \/ unflushed' = unflushed \o m_packet \o word /\ m_packet' = <<>>
              \/ unflushed' = unflushed /\ m_packet' = m_packet \o word
          BY <3>2 DEF Push
        <4> HIDE DEF word
        <4> DEFINE r == m_encoder' \o todo'
        <4>5. /\ (m_packet \o word) \o r = m_packet \o (word \o r)
              /\ (unflushed \o m_packet \o word) \o (<<>> \o r)
                   = unflushed \o (m_packet \o (word \o r))
          <5> HIDE DEF r
          <5>1. r \in Seq(Message)
            BY <4>3 DEF r
          <5>2. word \in Seq(Message) /\ m_packet \in Seq(Message) /\ unflushed \in Seq(Message)
            BY <2>2, <4>1
          <5>3. \A p, w, x \in Seq(Message) :
                  /\ (p \o w) \o x = p \o (w \o x)
                  /\ (unflushed \o p \o w) \o (<<>> \o x) = unflushed \o (p \o (w \o x))
            BY <5>2, PushKeepsOrder, Zenon
          <5>4. \A w, x \in Seq(Message) :
                  /\ (m_packet \o w) \o x = m_packet \o (w \o x)
                  /\ (unflushed \o m_packet \o w) \o (<<>> \o x)
                       = unflushed \o (m_packet \o (w \o x))
            BY <5>2, <5>3, Zenon
          <5> QED BY <5>1, <5>2, <5>4, Zenon
        <4>6. CASE unflushed' = unflushed \o m_packet \o word /\ m_packet' = <<>>
          BY <4>2, <4>5, <4>6, Zenon
        <4>7. CASE unflushed' = unflushed /\ m_packet' = m_packet \o word
          BY <4>2, <4>5, <4>7, Zenon
        <4> QED BY <4>4, <4>6, <4>7, Zenon
      <3> QED BY <2>1, <3>1, <3>2
    <2>5. Outbound' = Outbound
      BY <2>1, <2>4 DEF Outbound
    <2> QED BY <1>3, <1>4, <1>5, <2>5, WholeUnchanged
  <1>6. ASSUME NEW t \in Thread, Commit(t) PROVE InvOutbound'
    <2>1. todo = <<>>
      BY <1>6 DEF Commit, At, InvStage
    <2>2. /\ to_fpga' = to_fpga \o unflushed \o m_packet \o m_encoder
          /\ m_encoder' = <<>> /\ m_packet' = <<>> /\ unflushed' = <<>>
          /\ UNCHANGED <<executed, todo>>
      BY <1>6 DEF Commit
    <2>3. /\ to_fpga \in Seq(Message) /\ unflushed \in Seq(Message)
          /\ m_packet \in Seq(Message) /\ m_encoder \in Seq(Message)
          /\ <<>> \in Seq(Message)
      BY EmptySeq DEF TypeOK
    <2>4. m_packet \o m_encoder \in Seq(Message) /\ to_fpga \o unflushed \in Seq(Message)
      BY <2>3, ConcatProperties
    <2>5. to_fpga \o unflushed \o m_packet \o m_encoder
            = to_fpga \o (unflushed \o (m_packet \o m_encoder))
      <3>1. ((to_fpga \o unflushed) \o m_packet) \o m_encoder
              = (to_fpga \o unflushed) \o (m_packet \o m_encoder)
        BY <2>3, <2>4, ConcatAssociative
      <3> QED BY <3>1, <2>3, <2>4, ConcatAssociative
    <2>6. m_encoder \o todo = m_encoder /\ <<>> \o (<<>> \o (<<>> \o <<>>)) = <<>>
      BY <2>1, <2>3, ConcatEmptySeq
    <2>7. to_fpga' \o <<>> = to_fpga'
      BY <2>2, <2>3, <2>4, ConcatEmptySeq, ConcatProperties
    <2>8. Outbound' = Outbound
      BY <2>1, <2>2, <2>5, <2>6, <2>7 DEF Outbound
    <2> QED BY <1>3, <1>4, <1>6, <2>8, WholeUnchanged
  <1>7. ASSUME NEW t \in Thread, SeeHalt(t) \/ ResetHalt(t) PROVE InvOutbound'
    <2>1. Outbound' = Outbound
      BY <1>7 DEF SeeHalt, ResetHalt, Outbound
    <2> QED BY <1>3, <1>4, <1>7, <2>1, WholeUnchanged
  <1>8. CASE Transmit
    <2>1. to_fpga' = to_fpga \o unflushed /\ unflushed' = <<>>
      BY <1>8 DEF Transmit
    <2> DEFINE rest == m_packet \o (m_encoder \o todo)
    <2>2. rest \in Seq(Message) /\ to_fpga \in Seq(Message) /\ unflushed \in Seq(Message)
      BY ConcatTyped DEF TypeOK
    <2>3. (to_fpga \o unflushed) \o (<<>> \o rest) = to_fpga \o (unflushed \o rest)
      <3> HIDE DEF rest
      <3> QED BY <2>2, ConcatEmptySeq, ConcatAssociative
    <2>4. Outbound' = Outbound
      BY <1>8, <2>1, <2>3 DEF Outbound, Transmit
    <2> QED BY <1>8, <2>4 DEF InvOutbound, Whole, Transmit
  <1>9. CASE Execute
    <2> DEFINE rest == unflushed \o (m_packet \o (m_encoder \o todo))
    <2>1. /\ to_fpga # <<>> /\ to_fpga' = Tail(to_fpga)
          /\ executed' = Append(executed, Head(to_fpga))
      BY <1>9 DEF Execute
    <2>2. /\ rest \in Seq(Message) /\ to_fpga \in Seq(Message) /\ executed \in Seq(Message)
          /\ Head(to_fpga) \in Message /\ Tail(to_fpga) \in Seq(Message)
          /\ Append(executed, Head(to_fpga)) \in Seq(Message)
      BY <2>1, ConcatTyped, HeadTailProperties, AppendProperties DEF TypeOK
    <2>3. Append(executed, Head(to_fpga)) \o (Tail(to_fpga) \o rest)
            = executed \o (to_fpga \o rest)
      <3> HIDE DEF rest
      <3> QED BY <2>1, <2>2, MessageHandOver, Zenon
    <2>4. Outbound' = Outbound
      BY <1>9, <2>1, <2>3 DEF Outbound, Execute
    <2> QED BY <1>9, <2>4 DEF InvOutbound, Whole, Execute
  <1>10. CASE UNCHANGED vars \/ ReceivePacket \/ LockReceiveQueue \/ Listen \/ PushMessage
    BY <1>10 DEF InvOutbound, Outbound, Whole, ReceivePacket, LockReceiveQueue, Listen, PushMessage
  <1>11. CASE UnlockReceiveQueue \/ Exit \/ MoveBegin \/ MoveEnd
    BY <1>11 DEF InvOutbound, Outbound, Whole, UnlockReceiveQueue, Exit, MoveBegin, MoveEnd
  <1>12. ASSUME NEW t \in Thread, Call(t) PROVE InvOutbound'
    <2>1. m_mutex = NoThread => InvOutbound'
      BY <1>12 DEF Call, InvOutbound
    <2>2. \A u \in Thread : ~ReceiveAll(u)
      BY <1>12 DEF Call, ReceiveAll, TypeOK, At
    <2>3. Outbound' = Outbound
      BY <1>12 DEF Call, Outbound
    <2> QED BY <1>3, <2>1, <2>2, <2>3, WholeUnchanged
  <1> QED BY NextCases, <1>1, <1>2, <1>5, <1>6, <1>7, <1>8, <1>9, <1>10, <1>11, <1>12, Zenon

(* The answers since the mutex was taken lie along the inbound path.       *)
LEMMA InboundStep ==
  ASSUME IInv, [Next]_vars
  PROVE  InvInbound'
  <1> USE DEF IInv
  <1>1. ASSUME NEW t \in Thread, Lock(t) PROVE InvInbound'
    <2>1. /\ m_receive_queue' = <<>> /\ packet' = <<>> /\ from_fpga' = <<>>
          /\ answered' = <<>>
      BY <1>1 DEF InvFree, Lock
    <2>2. <<>> \o (<<>> \o <<>>) = <<>>
      BY ConcatEmptySeq, EmptySeq
    <2> QED BY <2>1, <2>2 DEF InvInbound, Inbound
  <1>2. ASSUME NEW t \in Thread, ReceiveAll(t) PROVE InvInbound'
    BY <1>2 DEF ReceiveAll, InvInbound
  <1>3. ASSUME NEW t \in Thread, Call(t) \/ Add(t) \/ Commit(t) \/ SeeHalt(t) \/ ResetHalt(t)
        PROVE  InvInbound'
    <2>1. UNCHANGED <<m_mutex, m_receive_queue, packet, from_fpga, answered>>
      BY <1>3 DEF Call, Add, Commit, SeeHalt, ResetHalt
    <2> QED BY <2>1 DEF InvInbound, Inbound
  <1>4. CASE Execute
    <2>1. CASE UNCHANGED <<from_fpga, answered>>
      BY <1>4, <2>1 DEF InvInbound, Inbound, Execute
    <2>2. CASE /\ from_fpga' = Append(from_fpga, Head(to_fpga))
               /\ answered' = Append(answered, Head(to_fpga))
      <3> DEFINE m == Head(to_fpga)
      <3>1. /\ m \in Message /\ m_receive_queue \in Seq(Message)
            /\ packet \in Seq(Message) /\ from_fpga \in Seq(Message)
            /\ packet \o from_fpga \in Seq(Message)
        BY <1>4, HeadTailProperties, ConcatTyped DEF Execute, TypeOK
      <3> HIDE DEF m
      <3>2. packet \o Append(from_fpga, m) = Append(packet \o from_fpga, m)
        BY <3>1, AppendRight
      <3>3. m_receive_queue \o Append(packet \o from_fpga, m) = Append(Inbound, m)
        BY <3>1, AppendRight DEF Inbound
      <3>4. Inbound' = Append(Inbound, m)
        BY <1>4, <2>2, <3>2, <3>3 DEF Inbound, Execute, m
      <3> QED BY <1>4, <2>2, <3>4 DEF InvInbound, Execute, m
    <2> QED BY <1>4, <2>1, <2>2 DEF Execute
  <1>5. CASE ReceivePacket
    <2>1. packet = <<>> /\ from_fpga \in Seq(Message)
      BY <1>5 DEF ReceivePacket, InvReceiver, TypeOK
    <2>2. packet' \o from_fpga' = from_fpga
      BY <1>5, <2>1, Cut DEF ReceivePacket
    <2>3. <<>> \o from_fpga = from_fpga
      BY <2>1, ConcatEmptySeq
    <2> QED BY <1>5, <2>1, <2>2, <2>3 DEF InvInbound, Inbound, ReceivePacket
  <1>6. CASE PushMessage
    <2>1. packet # <<>>
      BY <1>6 DEF PushMessage, InvReceiver
    <2>2. /\ m_receive_queue \in Seq(Message) /\ packet \in Seq(Message)
          /\ from_fpga \in Seq(Message)
      BY DEF TypeOK
    <2>3. Append(m_receive_queue, Head(packet)) \o (Tail(packet) \o from_fpga) = Inbound
      BY <2>1, <2>2, MessageHandOver, Zenon DEF Inbound
    <2> QED BY <1>6, <2>3 DEF InvInbound, Inbound, PushMessage
  <1>7. CASE UNCHANGED vars \/ Transmit \/ LockReceiveQueue \/ Listen
    BY <1>7 DEF InvInbound, Inbound, Transmit, LockReceiveQueue, Listen
  <1>8. CASE UnlockReceiveQueue \/ Exit \/ MoveBegin \/ MoveEnd
    BY <1>8 DEF InvInbound, Inbound, UnlockReceiveQueue, Exit, MoveBegin, MoveEnd
  <1> QED BY NextCases, <1>1, <1>2, <1>3, <1>4, <1>5, <1>6, <1>7, <1>8, Zenon

(* A halt can only be the last message of a program that is being run.     *)
LEMMA HaltEndsProgram ==
  ASSUME NEW p \in Program, NEW i \in 1 .. Len(Append(p, Halt)), Append(p, Halt)[i] = Halt
  PROVE  i = Len(Append(p, Halt))
  <1>1. p \in Seq(Instruction) /\ p \in Seq(Message) /\ Halt \in Message
    BY ProgramAssumption, MessageFacts
  <1>2. Len(p) \in Nat /\ \A j \in 1 .. Len(p) : p[j] \in Instruction
    BY <1>1, LenProperties, ElementOfSeq
  <1>3. /\ Len(Append(p, Halt)) = Len(p) + 1
        /\ \A j \in 1 .. Len(p) : Append(p, Halt)[j] = p[j]
    BY <1>1, AppendProperties
  <1> QED BY <1>2, <1>3, HaltAssumption

(* The holder's program is one of the programs.                            *)
LEMMA HoldersProgram ==
  ASSUME InvOwner, m_mutex \in Thread
  PROVE  /\ pc[m_mutex] \in Holding
         /\ request[m_mutex] \in Program
         /\ Whole \in Seq(Message)
  <1>1. pc[m_mutex] \in Holding
    BY DEF InvOwner
  <1>2. request[m_mutex] \in Program
    BY <1>1 DEF InvOwner, Holding
  <1> QED BY <1>1, <1>2, MessageFacts, AppendNotEmpty DEF Whole

(* Once a halt was answered nothing of the program remains to be executed. *)
LEMMA HaltAnswered ==
  ASSUME IInv, m_mutex # NoThread, NEW i \in 1 .. Len(answered), answered[i] = Halt
  PROVE  to_fpga = <<>>
  <1>1. executed = Whole
    BY DEF IInv, InvHaltLast
  <1> QED BY <1>1, NothingOutbound DEF IInv

(* When the FPGA executes a halt the whole program is executed with it.    *)
LEMMA HaltExecuted ==
  ASSUME IInv, InvOutbound', TypeOK', m_mutex # NoThread, m_mutex' = m_mutex, Whole' = Whole,
         to_fpga # <<>>, Head(to_fpga) = Halt, executed' = Append(executed, Halt)
  PROVE  executed' = Whole
  <1> DEFINE rest == unflushed \o (m_packet \o (m_encoder \o todo))
  <1> DEFINE ahead == to_fpga \o rest
  <1> DEFINE behind == (to_fpga \o rest)'
  <1>1. /\ executed \in Seq(Message) /\ ahead \in Seq(Message) /\ to_fpga \in Seq(Message)
        /\ rest \in Seq(Message)
    BY ConcatTyped DEF IInv, TypeOK
  <1>2. ahead # <<>> /\ Head(ahead) = Halt
    <2> HIDE DEF rest
    <2>1. ahead[1] = to_fpga[1] /\ Len(ahead) # 0
      <3>1. Len(to_fpga) \in Nat \ {0} /\ Len(rest) \in Nat
        BY <1>1, EmptySeq, LenProperties
      <3> QED BY <1>1, <3>1, ConcatProperties
    <2> QED BY <1>1, <2>1, EmptySeq
  <1>3. executed \o ahead = Whole
    BY DEF IInv, InvOutbound, Outbound
  <1>4. m_mutex \in Thread
    BY DEF IInv, TypeOK
  <1>5. Len(executed) + 1 = Len(Whole)
    <2> HIDE DEF ahead
    <2>1. /\ Len(executed) + 1 \in 1 .. Len(Whole)
          /\ Whole[Len(executed) + 1] = Halt
      BY <1>1, <1>2, <1>3, HeadAt
    <2>2. request[m_mutex] \in Program
      BY <1>4, HoldersProgram DEF IInv
    <2> QED BY <2>1, <2>2, HaltEndsProgram DEF Whole
  <1>6. executed' \in Seq(Message) /\ behind \in Seq(Message)
    BY ConcatProperties DEF TypeOK
  <1>7. executed' \o behind = Whole
    BY DEF InvOutbound, Outbound
  <1>8. Len(executed') = Len(Whole)
    BY <1>1, <1>5, MessageFacts, AppendProperties
  <1> HIDE DEF behind
  <1>9. Len(behind) = 0
    <2>1. Len(executed') \in Nat /\ Len(behind) \in Nat
      BY <1>6, LenProperties
    <2>2. Len(Whole) = Len(executed') + Len(behind)
      BY <1>6, <1>7, ConcatProperties
    <2> QED BY <1>8, <2>1, <2>2
  <1>10. behind = <<>>
    BY <1>6, <1>9, EmptySeq
  <1> QED BY <1>6, <1>7, <1>10, ConcatEmptySeq

(* A halt is the last answer, and to a finished program.                   *)
LEMMA HaltLastStep ==
  ASSUME IInv, [Next]_vars, TypeOK', InvOutbound'
  PROVE  InvHaltLast'
  <1> USE DEF IInv
  <1>1. ASSUME NEW t \in Thread, Lock(t) PROVE InvHaltLast'
    <2>1. answered' = <<>> /\ Len(<<>>) = 0
      BY <1>1, EmptySeq DEF Lock
    <2> QED BY <2>1 DEF InvHaltLast
  <1>2. ASSUME NEW t \in Thread, ReceiveAll(t) PROVE InvHaltLast'
    BY <1>2 DEF ReceiveAll, InvHaltLast
  <1>3. ASSUME m_mutex # NoThread => m_mutex' = m_mutex /\ Whole' = Whole,
               m_mutex = NoThread => m_mutex' = NoThread,
               UNCHANGED <<executed, answered>>
        PROVE  InvHaltLast'
    BY <1>3 DEF InvHaltLast
  <1>4. ASSUME \A t \in Thread : ~ReceiveAll(t)
        PROVE  m_mutex # NoThread => m_mutex' = m_mutex /\ Whole' = Whole
    BY <1>4, WholeUnchanged
  <1>5. ASSUME NEW t \in Thread, Call(t) \/ Add(t) \/ Commit(t) \/ SeeHalt(t) \/ ResetHalt(t)
        PROVE  InvHaltLast'
    <2>1. pc[t] # "receive" /\ UNCHANGED <<m_mutex, executed, answered>>
      BY <1>5 DEF Call, Add, Commit, SeeHalt, ResetHalt, At
    <2>2. \A u \in Thread : u # t => pc'[u] = pc[u]
      BY <1>5 DEF Call, Add, Commit, SeeHalt, ResetHalt, At, TypeOK
    <2>3. ASSUME NEW u \in Thread, ReceiveAll(u) PROVE FALSE
      BY <2>1, <2>2, <2>3 DEF ReceiveAll, At, TypeOK
    <2> QED BY <1>3, <1>4, <2>1, <2>3, Zenon
  <1>6. CASE Elsewhere
    <2>1. UNCHANGED <<pc, request, m_mutex>> /\ Whole' = Whole
      BY <1>6, ElsewhereUnchanged DEF Whole
    <2>2. CASE UNCHANGED <<executed, answered>>
      BY <1>3, <2>1, <2>2
    <2>3. CASE Execute
      <3> SUFFICES ASSUME m_mutex # NoThread,
                          NEW i \in 1 .. Len(answered'), answered'[i] = Halt
                   PROVE  i = Len(answered') /\ executed' = Whole
        BY <2>1 DEF InvHaltLast
      <3>1. /\ to_fpga # <<>> /\ executed' = Append(executed, Head(to_fpga))
            /\ Head(to_fpga) \in Message /\ answered \in Seq(Message)
        BY <2>3, HeadTailProperties DEF Execute, TypeOK
      <3>2. \A j \in 1 .. Len(answered) : answered[j] # Halt
        BY <3>1, HaltAnswered
      <3>3. answered' # answered
        BY <3>2
      <3>4. answered' = Append(answered, Head(to_fpga))
        BY <2>3, <3>3 DEF Execute
      <3>5. /\ Len(answered) \in Nat
            /\ Len(answered') = Len(answered) + 1
            /\ \A j \in 1 .. Len(answered) : answered'[j] = answered[j]
            /\ answered'[Len(answered) + 1] = Head(to_fpga)
        BY <3>1, <3>4, AppendProperties, LenProperties
      <3>6. i = Len(answered) + 1
        BY <3>2, <3>5
      <3>7. Head(to_fpga) = Halt
        BY <3>5, <3>6
      <3> QED BY <2>1, <3>1, <3>5, <3>6, <3>7, HaltExecuted
    <2>4. Execute \/ UNCHANGED <<executed, answered>>
      BY <1>6 DEF Elsewhere, Transmit, ReceivePacket, LockReceiveQueue, Listen, PushMessage,
                  UnlockReceiveQueue, Exit, MoveBegin, MoveEnd
    <2> QED BY <2>2, <2>3, <2>4
  <1> QED BY NextCases, <1>1, <1>2, <1>5, <1>6, Zenon DEF Elsewhere

(* The next message in the hands of the receiver thread is a halt: then it *)
(* is the only one left, and the caller has sent everything.               *)
LEMMA HaltInHand ==
  ASSUME IInv, packet # <<>>, Head(packet) = Halt
  PROVE  /\ m_mutex \in Thread
         /\ executed = Whole
         /\ packet = <<Halt>> /\ from_fpga = <<>>
         /\ todo = <<>>
  <1>1. m_mutex # NoThread /\ m_mutex \in Thread
    BY DEF IInv, InvFree, TypeOK
  <1>2. /\ m_receive_queue \in Seq(Message) /\ packet \in Seq(Message)
        /\ from_fpga \in Seq(Message) /\ packet \o from_fpga \in Seq(Message)
    BY ConcatTyped DEF IInv, TypeOK
  <1>3. m_receive_queue \o (packet \o from_fpga) = answered
    BY <1>1 DEF IInv, InvInbound, Inbound
  <1>4. Len(packet) \in Nat \ {0} /\ Len(from_fpga) \in Nat /\ Len(m_receive_queue) \in Nat
    BY <1>2, EmptySeq, LenProperties
  <1> DEFINE left == packet \o from_fpga
  <1>5. /\ Len(left) = Len(packet) + Len(from_fpga)
        /\ left # <<>> /\ Head(left) = Halt
    <2>1. Len(left) = Len(packet) + Len(from_fpga) /\ left[1] = packet[1]
      BY <1>2, <1>4, ConcatProperties
    <2>2. left # <<>>
      BY <1>2, <1>4, <2>1, EmptySeq
    <2> QED BY <1>2, <2>1, <2>2
  <1> DEFINE i == Len(m_receive_queue) + 1
  <1>6. i \in 1 .. Len(answered) /\ answered[i] = Halt
        /\ Len(answered) = Len(m_receive_queue) + Len(left)
    <2> HIDE DEF left
    <2>1. m_receive_queue \o left = answered /\ left \in Seq(Message)
      BY <1>2, <1>3 DEF left
    <2> QED BY <1>2, <1>5, <2>1, HeadAt
  <1>7. i = Len(answered) /\ executed = Whole
    <2> HIDE DEF i
    <2> QED BY <1>1, <1>6 DEF IInv, InvHaltLast
  <1>8. Len(packet) = 1 /\ Len(from_fpga) = 0
    <2>1. Len(m_receive_queue) + 1 = Len(m_receive_queue) + Len(left)
      BY <1>6, <1>7, Zenon
    <2>2. Len(left) = Len(packet) + Len(from_fpga)
      BY <1>5
    <2> HIDE DEF left
    <2> QED BY <1>4, <2>1, <2>2
  <1>9. packet = <<Halt>> /\ from_fpga = <<>>
    BY <1>2, <1>8, EmptySeq
  <1> QED BY <1>1, <1>7, <1>9, NothingOutbound DEF IInv

(* The flag is raised, and seen, only when all the answers but the halt    *)
(* are queued and the halt is being queued.                                *)
LEMMA FlagStep ==
  ASSUME IInv, [Next]_vars
  PROVE  InvFlag'
  <1> USE DEF IInv
  <1>1. ASSUME NEW t \in Thread, Lock(t) PROVE InvFlag'
    <2>1. ~m_listener_halt' /\ m_mutex' = t /\ pc'[t] = "add"
      BY <1>1 DEF Lock, At, InvFree, TypeOK
    <2> QED BY <2>1 DEF InvFlag
  <1>2. ASSUME NEW t \in Thread, ReceiveAll(t) PROVE InvFlag'
    <2>1. m_mutex = t /\ pc[t] = "receive"
      BY <1>2 DEF ReceiveAll, At, InvOwner, Holding
    <2>2. ~m_listener_halt
      BY <2>1 DEF InvFlag
    <2> QED BY <1>2, <2>2 DEF InvFlag, ReceiveAll
  <1>3. ASSUME NEW t \in Thread, Call(t) PROVE InvFlag'
    <2>1. UNCHANGED <<m_mutex, m_listener_halt, executed, from_fpga, packet, receiver>>
      BY <1>3 DEF Call
    <2>2. m_mutex # NoThread => /\ m_mutex # t /\ m_mutex \in Thread
                                /\ pc'[m_mutex] = pc[m_mutex]
                                /\ request'[m_mutex] = request[m_mutex]
      BY <1>3 DEF Call, At, InvOwner, Holding, TypeOK
    <2> QED BY <2>1, <2>2 DEF InvFlag, AllQueued, Whole
  <1>4. ASSUME NEW t \in Thread, Add(t) PROVE InvFlag'
    <2>1. m_mutex = t /\ pc[t] = "add"
      BY <1>4 DEF Add, At, InvOwner, Holding
    <2>2. m_mutex' = t /\ m_listener_halt' = m_listener_halt /\ pc'[t] \in {"add", "commit"}
      BY <1>4, <2>1 DEF Add, At, TypeOK
    <2> QED BY <2>1, <2>2 DEF InvFlag
  <1>5. ASSUME NEW t \in Thread, Commit(t) \/ SeeHalt(t) \/ ResetHalt(t) PROVE InvFlag'
    <2>1. m_mutex = t /\ m_mutex # NoThread
      BY <1>5, ThreadAssumption DEF Commit, SeeHalt, ResetHalt, At, InvOwner, Holding
    <2>2. UNCHANGED <<m_mutex, request, executed, from_fpga, packet, receiver>>
      BY <1>5 DEF Commit, SeeHalt, ResetHalt
    <2>3. AllQueued => AllQueued'
      BY <2>2 DEF AllQueued, Whole
    <2>4. CASE Commit(t)
      BY <2>1, <2>2, <2>3, <2>4 DEF Commit, At, InvFlag, TypeOK
    <2>5. CASE SeeHalt(t)
      BY <2>1, <2>2, <2>3, <2>5 DEF SeeHalt, At, InvFlag, TypeOK
    <2>6. CASE ResetHalt(t)
      BY <2>1, <2>2, <2>3, <2>6 DEF ResetHalt, At, InvFlag, TypeOK
    <2> QED BY <1>5, <2>4, <2>5, <2>6
  <1>6. CASE Elsewhere
    <2>1. UNCHANGED <<pc, m_mutex>> /\ Whole' = Whole
      BY <1>6, ElsewhereUnchanged DEF Whole
    (* The flag means as much as before, or it was not yet raised.          *)
    <2>2. ASSUME m_listener_halt' => m_listener_halt,
                 m_mutex # NoThread /\ AllQueued => AllQueued'
          PROVE  InvFlag'
      BY <2>1, <2>2 DEF InvFlag
    <2>3. CASE Execute
      <3>1. m_mutex # NoThread => ~AllQueued
        BY <2>3, NothingOutbound DEF Execute, AllQueued
      <3> QED BY <2>2, <2>3, <3>1 DEF Execute
    <2>4. CASE ReceivePacket
      <3>1. Len(from_fpga) # 0
        BY <2>4 DEF ReceivePacket, TypeOK
      <3>2. ~AllQueued
        BY <3>1, EmptySeq DEF AllQueued
      <3> QED BY <2>2, <2>4, <3>2 DEF ReceivePacket
    <2>5. CASE LockReceiveQueue
      <3>1. ~AllQueued
        BY <2>5 DEF LockReceiveQueue, AllQueued, InvReceiver
      <3> QED BY <2>2, <2>5, <3>1 DEF LockReceiveQueue
    <2>6. CASE Listen
      <3>1. packet # <<>> /\ ~AllQueued
        BY <2>6 DEF Listen, AllQueued, InvReceiver
      <3>2. CASE Head(packet) = Halt
        <4>1. m_mutex \in Thread /\ executed = Whole /\ packet = <<Halt>>
              /\ from_fpga = <<>> /\ todo = <<>>
          BY <3>1, <3>2, HaltInHand
        <4>2. AllQueued'
          BY <2>1, <2>6, <4>1 DEF AllQueued, Listen
        <4>3. pc[m_mutex] \in {"commit", "wait", "reset"}
          <5>1. pc[m_mutex] \in Holding /\ pc[m_mutex] # "add"
            BY <4>1, HoldersProgram DEF InvStage
          <5>2. pc[m_mutex] # "receive"
            BY <3>1, <4>1, ThreadAssumption DEF InvFlag
          <5> QED BY <5>1, <5>2 DEF Holding
        <4> QED BY <2>1, <4>1, <4>2, <4>3, ThreadAssumption DEF InvFlag
      <3>3. CASE Head(packet) # Halt
        BY <2>2, <2>6, <3>1, <3>3 DEF Listen
      <3> QED BY <3>2, <3>3
    <2>7. CASE PushMessage
      <3>1. packet # <<>>
        BY <2>7 DEF PushMessage, InvReceiver
      <3>2. AllQueued => AllQueued'
        <4>1. packet = <<Halt>> => Tail(packet) = <<>>
          OBVIOUS
        <4> QED BY <2>1, <2>7, <3>1, <4>1 DEF AllQueued, PushMessage
      <3> QED BY <2>2, <2>7, <3>2 DEF PushMessage
    <2>8. CASE UnlockReceiveQueue \/ Exit
      <3>1. packet' = <<>> /\ UNCHANGED <<executed, from_fpga, m_listener_halt>>
        BY <2>8 DEF UnlockReceiveQueue, Exit, InvReceiver
      <3>2. AllQueued => AllQueued'
        BY <2>1, <3>1 DEF AllQueued
      <3> QED BY <2>2, <3>1, <3>2
    <2>9. CASE MoveEnd
      <3>1. \A t \in Thread : pc[t] = "idle"
        BY <2>9 DEF MoveEnd, InvMove
      <3>2. m_mutex \notin Thread
        BY <3>1 DEF InvOwner, Holding
      <3>3. m_mutex = NoThread
        BY <3>2 DEF TypeOK
      <3> QED BY <2>2, <2>9, <3>3 DEF MoveEnd
    <2>10. CASE UNCHANGED vars \/ Transmit \/ MoveBegin
      <3>1. UNCHANGED <<executed, from_fpga, packet, receiver, m_listener_halt>>
        BY <2>10 DEF Transmit, MoveBegin
      <3> QED BY <2>1, <2>2, <3>1 DEF AllQueued
    <2> QED BY <1>6, <2>3, <2>4, <2>5, <2>6, <2>7, <2>8, <2>9, <2>10, Zenon DEF Elsewhere
  <1> QED BY NextCases, <1>1, <1>2, <1>3, <1>4, <1>5, <1>6, Zenon DEF Elsewhere

(* The invariant holds initially.                                          *)
LEMMA InvInit ==
  ASSUME Init
  PROVE  IInv
  <1> USE DEF Init
  <1>1. <<>> \in Seq(Message) /\ Len(<<>>) = 0
    BY EmptySeq
  <1>2. TypeOK
    <2>1. 0 \in 0 .. MAX_PDUWORDS - 1
      BY PacketAssumption
    <2>2. /\ pc \in [Thread -> {"idle", "lock", "add", "commit", "wait", "reset", "receive"}]
          /\ request \in [Thread -> Program \cup {NoProgram}]
          /\ reply \in [Thread -> Seq(Message)]
      BY <1>1
    <2> QED BY <1>1, <2>1, <2>2 DEF TypeOK
  <1>3. InvOwner
    BY ThreadAssumption DEF InvOwner, Holding
  <1>4. InvMove /\ InvReceiver
    BY ThreadAssumption DEF InvMove, InvReceiver
  <1>5. InvFree /\ InvStage
    BY DEF InvFree, InvStage
  <1>6. InvOutbound /\ InvInbound /\ InvHaltLast /\ InvFlag
    BY DEF InvOutbound, InvInbound, InvHaltLast, InvFlag
  <1> QED BY <1>2, <1>3, <1>4, <1>5, <1>6 DEF IInv

(* Every step keeps the invariant.                                         *)
LEMMA InvStep ==
  ASSUME IInv, [Next]_vars
  PROVE  IInv'
  <1>1. TypeOK'
    BY TypeStep DEF IInv
  <1>2. InvOwner' /\ InvMove' /\ InvReceiver' /\ InvStage'
    BY OwnerStep, MoveStep, ReceiverStep, StageStep DEF IInv
  <1>3. InvFree' /\ InvOutbound' /\ InvInbound' /\ InvFlag'
    BY FreeStep, OutboundStep, InboundStep, FlagStep
  <1>4. InvHaltLast'
    BY <1>1, <1>3, HaltLastStep
  <1> QED BY <1>1, <1>2, <1>3, <1>4 DEF IInv

(* The messages of a call are where IInv says in every state.              *)
THEOREM Invariance == Spec => []IInv
  BY InvInit, InvStep, PTL DEF Spec

(* Every variable keeps its type; in particular the send queue's packet    *)
(* never reaches its size between two calls of push.                       *)
THEOREM TypeCorrect == Spec => []TypeOK
  <1>1. IInv => TypeOK
    BY DEF IInv
  <1> QED BY <1>1, Invariance, PTL

(* A call that gives the connection back leaves nothing behind in any      *)
(* queue of the host, of the stream or of the FPGA, and no pending halt.   *)
THEOREM NothingStaysBehind == Spec => []NothingLeftOver
  <1>1. IInv => NothingLeftOver
    BY DEF IInv, InvFree, NothingLeftOver
  <1> QED BY <1>1, Invariance, PTL

(* The flag that run_until_halt polls is raised only after the FPGA        *)
(* executed the program, and with all its answers received.                *)
THEOREM HaltIsReliable == Spec => []HaltMeansDone
  <1>1. ASSUME IInv PROVE HaltMeansDone
    <2> SUFFICES ASSUME m_listener_halt PROVE HaltMeansDone!2
      BY DEF HaltMeansDone
    <2>1. m_mutex # NoThread /\ AllQueued
      BY <1>1 DEF IInv, InvFlag
    <2>2. /\ m_receive_queue \o (packet \o from_fpga) = answered
          /\ from_fpga = <<>> /\ packet \in Seq(Message)
      BY <1>1, <2>1 DEF IInv, InvInbound, Inbound, AllQueued, TypeOK
    <2>3. packet \o <<>> = packet
      BY <2>2, ConcatEmptySeq
    <2> QED BY <2>1, <2>2, <2>3 DEF AllQueued, Whole
  <1> QED BY <1>1, Invariance, PTL

(* What receive_all takes when it can take the mutex of its queue.         *)
LEMMA QueueIsAnswers ==
  ASSUME IInv, NEW t \in Thread, ReceiveAll(t)
  PROVE  /\ m_mutex = t /\ executed = Append(request[t], Halt)
         /\ m_receive_queue = answered
  <1>1. m_mutex = t /\ m_mutex # NoThread /\ pc[m_mutex] = "receive"
    BY ThreadAssumption DEF ReceiveAll, At, IInv, InvOwner, Holding
  <1>2. AllQueued
    BY <1>1 DEF IInv, InvFlag
  <1>3. packet = <<>>
    BY <1>2, ThreadAssumption DEF AllQueued, IInv, InvReceiver, ReceiveAll
  <1>4. m_receive_queue \o (<<>> \o <<>>) = answered /\ m_receive_queue \in Seq(Message)
    BY <1>1, <1>2, <1>3 DEF IInv, InvInbound, Inbound, AllQueued, TypeOK
  <1>5. m_receive_queue = answered
    BY <1>4, ConcatEmptySeq, EmptySeq
  <1> QED BY <1>1, <1>2, <1>5 DEF AllQueued, Whole

(* A call returns the answers the FPGA gave to its program, all of them    *)
(* and nothing else, in order, and it returns after the FPGA executed that *)
(* program and its halt without another call's messages in between.        *)
THEOREM CallsGetTheirAnswers == Spec => EachCallGetsItsAnswers
  <1> DEFINE Step == \A t \in Thread : Returns(t) =>
                       /\ reply'[t] = answered
                       /\ executed = Append(request[t], Halt)
  <1>1. ASSUME IInv, [Next]_vars PROVE [Step]_vars
    <2> SUFFICES ASSUME NEW t \in Thread, Returns(t)
                 PROVE  reply'[t] = answered /\ executed = Append(request[t], Halt)
      OBVIOUS
    <2>1. ReceiveAll(t)
      <3>1. /\ pc[t] = "receive" /\ pc'[t] = "idle"
             /\ pc \in [Thread -> {"idle", "lock", "add", "commit", "wait", "reset", "receive"}]
        BY <1>1 DEF Returns, IInv, TypeOK
      <3>2. ASSUME NEW u \in Thread, u # t \/ ~ReceiveAll(u),
                   \/ Call(u) \/ Lock(u) \/ Add(u) \/ Commit(u)
                   \/ SeeHalt(u) \/ ResetHalt(u) \/ ReceiveAll(u)
            PROVE  FALSE
        BY <3>1, <3>2 DEF Call, Lock, Add, Commit, SeeHalt, ResetHalt, ReceiveAll, At
      <3>3. CASE Elsewhere
        BY <3>1, <3>3, ElsewhereUnchanged
      <3> QED BY <1>1, <3>2, <3>3, NextCases, Zenon DEF Elsewhere
    <2>2. m_mutex = t /\ executed = Append(request[t], Halt) /\ m_receive_queue = answered
      BY <1>1, <2>1, QueueIsAnswers
    <2>3. reply'[t] = m_receive_queue
      BY <1>1, <2>1 DEF ReceiveAll, IInv, TypeOK
    <2> QED BY <2>2, <2>3
  <1>2. Spec => [][Next]_vars
    BY PTL DEF Spec
  <1> QED BY <1>1, <1>2, Invariance, PTL DEF EachCallGetsItsAnswers
----------------------------------------------------------------------------
(* The refinement of Execution.  What it needs beyond IInv is that the     *)
(* answers are answers to what was executed: place[i] is the position of   *)
(* the message to which the i-th answer belongs.                           *)

Belongs(place, a, e) ==
  /\ \A i, j \in 1 .. Len(a) : i < j => place[i] < place[j]
  /\ \A i \in 1 .. Len(a) : a[i] = e[place[i]]
  /\ e # <<>> /\ e[Len(e)] = Halt => a # <<>> /\ place[Len(a)] = Len(e)

AnswersTo(a, e) ==
  /\ Len(a) <= Len(e)
  /\ \E place \in [1 .. Len(a) -> 1 .. Len(e)] : Belongs(place, a, e)

InvAnswers == AnswersTo(answered, executed)
InvIdle == \A t \in Thread : pc[t] = "idle" => request[t] = NoProgram
RInv == IInv /\ InvIdle /\ InvAnswers

LEMMA NothingAnswered == AnswersTo(<<>>, <<>>)
  <1> DEFINE place == [i \in 1 .. 0 |-> 1]
  <1>1. Len(<<>>) = 0 /\ 1 .. 0 = {}
    BY EmptySeq
  <1>2. place \in [1 .. Len(<<>>) -> 1 .. Len(<<>>)]
    BY <1>1
  <1>3. Belongs(place, <<>>, <<>>)
    BY <1>1 DEF Belongs
  <1>4. Len(<<>>) <= Len(<<>>)
    BY <1>1
  <1> HIDE DEF place
  <1> QED BY <1>2, <1>3, <1>4, Zenon DEF AnswersTo

(* A message that is not a halt is executed without an answer.             *)
LEMMA NotAnswered ==
  ASSUME NEW a \in Seq(Message), NEW e \in Seq(Message), NEW m \in Message, m # Halt,
         AnswersTo(a, e)
  PROVE  AnswersTo(a, Append(e, m))
  <1> DEFINE more == Append(e, m)
  <1>1. PICK place \in [1 .. Len(a) -> 1 .. Len(e)] : Belongs(place, a, e)
    BY DEF AnswersTo
  <1>2. /\ Len(a) \in Nat /\ Len(e) \in Nat /\ Len(a) <= Len(e)
        /\ Len(more) = Len(e) + 1 /\ more[Len(more)] = m
        /\ \A k \in 1 .. Len(e) : more[k] = e[k]
    BY AppendProperties, LenProperties DEF AnswersTo
  <1> HIDE DEF more
  <1>3. place \in [1 .. Len(a) -> 1 .. Len(more)]
    BY <1>2
  <1>4. Belongs(place, a, more)
    <2>1. \A i \in 1 .. Len(a) : a[i] = more[place[i]]
      BY <1>1, <1>2 DEF Belongs
    <2> QED BY <1>1, <1>2, <2>1 DEF Belongs
  <1>5. Len(a) <= Len(more)
    BY <1>2
  <1> QED BY <1>3, <1>4, <1>5 DEF AnswersTo, more

(* A message is executed and answered.                                     *)
LEMMA Answered ==
  ASSUME NEW a \in Seq(Message), NEW e \in Seq(Message), NEW m \in Message, AnswersTo(a, e)
  PROVE  AnswersTo(Append(a, m), Append(e, m))
  <1> DEFINE longer == Append(a, m)
  <1> DEFINE more == Append(e, m)
  <1>1. PICK place \in [1 .. Len(a) -> 1 .. Len(e)] : Belongs(place, a, e)
    BY DEF AnswersTo
  <1> DEFINE extended == [i \in 1 .. Len(longer) |-> IF i = Len(longer) THEN Len(more) ELSE place[i]]
  <1>2. /\ Len(a) \in Nat /\ Len(e) \in Nat /\ Len(a) <= Len(e)
        /\ Len(more) = Len(e) + 1 /\ more[Len(more)] = m
        /\ \A k \in 1 .. Len(e) : more[k] = e[k]
    BY AppendProperties, LenProperties DEF AnswersTo
  <1>3. /\ Len(longer) = Len(a) + 1 /\ longer[Len(longer)] = m /\ longer # <<>>
        /\ \A i \in 1 .. Len(a) : longer[i] = a[i]
    BY <1>2, AppendProperties, AppendNotEmpty
  <1> HIDE DEF longer, more
  <1>4. ASSUME NEW i \in 1 .. Len(longer), i # Len(longer)
        PROVE  /\ i \in 1 .. Len(a) /\ extended[i] = place[i]
               /\ place[i] \in 1 .. Len(e) /\ extended[i] < Len(more)
    <2>1. i \in 1 .. Len(a) /\ extended[i] = place[i]
      BY <1>2, <1>3, <1>4
    <2>2. place[i] \in 1 .. Len(e)
      BY <2>1
    <2> QED BY <1>2, <2>1, <2>2
  <1>5. extended[Len(longer)] = Len(more) /\ Len(longer) \in 1 .. Len(longer)
    BY <1>2, <1>3
  <1>6. extended \in [1 .. Len(longer) -> 1 .. Len(more)]
    <2> SUFFICES ASSUME NEW i \in 1 .. Len(longer) PROVE extended[i] \in 1 .. Len(more)
      OBVIOUS
    <2> HIDE DEF extended
    <2> QED BY <1>2, <1>4, <1>5
  <1> HIDE DEF extended
  <1>7. Belongs(extended, longer, more)
    <2>1. ASSUME NEW i \in 1 .. Len(longer), NEW j \in 1 .. Len(longer), i < j
          PROVE  extended[i] < extended[j]
      <3>1. i # Len(longer)
        BY <1>2, <1>3, <2>1
      <3>2. CASE j = Len(longer)
        BY <1>4, <1>5, <3>1, <3>2
      <3>3. CASE j # Len(longer)
        <4>1. i \in 1 .. Len(a) /\ j \in 1 .. Len(a)
          BY <1>4, <3>1, <3>3
        <4>2. place[i] < place[j]
          BY <1>1, <2>1, <4>1 DEF Belongs
        <4> QED BY <1>4, <3>1, <3>3, <4>2
      <3> QED BY <3>2, <3>3
    <2>2. ASSUME NEW i \in 1 .. Len(longer) PROVE longer[i] = more[extended[i]]
      <3>1. CASE i = Len(longer)
        BY <1>2, <1>3, <1>5, <3>1
      <3>2. CASE i # Len(longer)
        <4>1. i \in 1 .. Len(a) /\ extended[i] = place[i] /\ place[i] \in 1 .. Len(e)
          BY <1>4, <3>2
        <4>2. a[i] = e[place[i]]
          BY <1>1, <4>1 DEF Belongs
        <4> QED BY <1>2, <1>3, <4>1, <4>2
      <3> QED BY <3>1, <3>2
    <2> QED BY <1>3, <1>5, <2>1, <2>2 DEF Belongs
  <1>8. Len(longer) <= Len(more)
    BY <1>2, <1>3
  <1> QED BY <1>6, <1>7, <1>8 DEF AnswersTo, longer, more

(* The answers stay answers to what was executed.                          *)
LEMMA AnswersStep ==
  ASSUME TypeOK, InvAnswers, [Next]_vars
  PROVE  InvAnswers'
  <1>1. ASSUME NEW t \in Thread, Lock(t) PROVE InvAnswers'
    <2>1. answered' = <<>> /\ executed' = <<>> /\ Len(<<>>) = 0
      BY <1>1, EmptySeq DEF Lock
    <2> QED BY <2>1, NothingAnswered DEF InvAnswers
  <1>2. CASE Execute
    <2> DEFINE m == Head(to_fpga)
    <2>1. m \in Message /\ answered \in Seq(Message) /\ executed \in Seq(Message)
      BY <1>2, HeadTailProperties DEF Execute, TypeOK
    <2>2. executed' = Append(executed, m)
      BY <1>2 DEF Execute
    <2>3. \/ answered' = Append(answered, m)
          \/ m # Halt /\ answered' = answered
      BY <1>2 DEF Execute
    <2> HIDE DEF m
    <2>4. CASE answered' = Append(answered, m)
      BY <2>1, <2>2, <2>4, Answered DEF InvAnswers
    <2>5. CASE m # Halt /\ answered' = answered
      BY <2>1, <2>2, <2>5, NotAnswered DEF InvAnswers
    <2> QED BY <2>3, <2>4, <2>5
  <1>3. ASSUME UNCHANGED <<answered, executed>> PROVE InvAnswers'
    BY <1>3 DEF InvAnswers, AnswersTo
  <1>4. ASSUME NEW t \in Thread,
               Call(t) \/ Add(t) \/ Commit(t) \/ SeeHalt(t) \/ ResetHalt(t) \/ ReceiveAll(t)
        PROVE  UNCHANGED <<answered, executed>>
    BY <1>4 DEF Call, Add, Commit, SeeHalt, ResetHalt, ReceiveAll
  <1>5. ASSUME Elsewhere, ~Execute PROVE UNCHANGED <<answered, executed>>
    BY <1>5 DEF Elsewhere, Transmit, ReceivePacket, LockReceiveQueue, Listen, PushMessage,
                UnlockReceiveQueue, Exit, MoveBegin, MoveEnd
  <1> QED BY NextCases, <1>1, <1>2, <1>3, <1>4, <1>5, Zenon DEF Elsewhere

(* A thread that is not calling has nothing to execute.                    *)
LEMMA IdleStep ==
  ASSUME TypeOK, InvIdle, [Next]_vars
  PROVE  InvIdle'
  <1> USE DEF TypeOK, InvIdle, At
  <1>1. ASSUME NEW t \in Thread, Call(t) PROVE InvIdle'
    BY <1>1 DEF Call
  <1>2. ASSUME NEW t \in Thread,
               Lock(t) \/ Add(t) \/ Commit(t) \/ SeeHalt(t) \/ ResetHalt(t)
        PROVE  InvIdle'
    <2>1. request' = request /\ pc'[t] # "idle"
      BY <1>2 DEF Lock, Add, Commit, SeeHalt, ResetHalt
    <2>2. \A u \in Thread : u # t => pc'[u] = pc[u]
      BY <1>2 DEF Lock, Add, Commit, SeeHalt, ResetHalt
    <2> QED BY <2>1, <2>2
  <1>3. ASSUME NEW t \in Thread, ReceiveAll(t) PROVE InvIdle'
    BY <1>3 DEF ReceiveAll
  <1>4. CASE Elsewhere
    BY <1>4, ElsewhereUnchanged
  <1> QED BY NextCases, <1>1, <1>2, <1>3, <1>4, Zenon DEF Elsewhere

LEMMA RefinementInvariant == Spec => []RInv
  <1>1. ASSUME Init PROVE InvIdle /\ InvAnswers
    BY <1>1, NothingAnswered DEF Init, InvIdle, InvAnswers
  <1>2. IInv /\ InvIdle /\ InvAnswers /\ [Next]_vars => InvIdle' /\ InvAnswers'
    BY IdleStep, AnswersStep DEF IInv
  <1> QED BY <1>1, <1>2, Invariance, PTL DEF Spec, RInv

(* The answers to a program that was executed with its halt are answers    *)
(* the abstract specification allows.                                      *)
LEMMA AllowedAnswers ==
  ASSUME NEW a \in Seq(Message), NEW p \in Seq(Message), AnswersTo(a, Append(p, Halt))
  PROVE  a \in Promise!Answers(Append(p, Halt))
  <1> DEFINE e == Append(p, Halt)
  <1>1. PICK place \in [1 .. Len(a) -> 1 .. Len(e)] : Belongs(place, a, e)
    BY DEF AnswersTo
  <1>2. /\ e \in Seq(Message) /\ e # <<>> /\ e[Len(e)] = Halt
    BY MessageFacts, AppendProperties, AppendNotEmpty
  <1>3. Len(a) \in Nat /\ Len(e) \in Nat /\ Len(a) <= Len(e)
    BY <1>2, LenProperties DEF AnswersTo
  <1> HIDE DEF e
  <1>4. a # <<>> /\ place[Len(a)] = Len(e)
    BY <1>1, <1>2 DEF Belongs
  <1>5. Len(a) \in 1 .. Len(e)
    BY <1>3, <1>4, EmptySeq
  <1>6. a \in [1 .. Len(a) -> {e[i] : i \in DOMAIN e}]
    <2>1. a = [i \in 1 .. Len(a) |-> a[i]] /\ DOMAIN e = 1 .. Len(e)
      BY <1>2, LenProperties
    <2>2. \A i \in 1 .. Len(a) : a[i] = e[place[i]] /\ place[i] \in 1 .. Len(e)
      BY <1>1 DEF Belongs
    <2> QED BY <2>1, <2>2
  <1>7. a \in UNION {[1 .. n -> {e[i] : i \in DOMAIN e}] : n \in 1 .. Len(e)}
    BY <1>5, <1>6
  <1> QED BY <1>1, <1>4, <1>7 DEF Promise!Answers, Belongs, e

(* Is the request of t executed?  The state function that stands for       *)
(* Execution's variable.                                                   *)
Served(t) == m_mutex = t /\ executed = Append(request[t], Halt)

(* Steps in which Execution sees nothing happen.                           *)
LEMMA Stutters ==
  ASSUME UNCHANGED <<request, reply>>, \A t \in Thread : Served(t)' <=> Served(t)
  PROVE  UNCHANGED Promise!vars
  <1>1. \A t \in Thread : Served(t)' = Served(t)
    BY DEF Served
  <1>2. [t \in Thread |-> Served(t)]' = [t \in Thread |-> Served(t)]
    BY <1>1
  <1> QED BY <1>2 DEF Promise!vars, Served

(* A thread asks.                                                          *)
LEMMA CallIsCall ==
  ASSUME RInv, NEW t \in Thread, Call(t)
  PROVE  Promise!Call(t)
  <1>1. /\ m_mutex # t /\ m_mutex' = m_mutex /\ executed' = executed
        /\ pc[t] = "idle" /\ reply' = reply
        /\ \E p \in Program : request' = [request EXCEPT ![t] = p]
    BY DEF Call, At, RInv, IInv, InvOwner, Holding
  <1>2. request[t] = NoProgram
    BY <1>1 DEF RInv, InvIdle
  <1>3. \A u \in Thread : Served(u)' = Served(u)
    BY <1>1 DEF Served
  <1>4. [u \in Thread |-> Served(u)]' = [u \in Thread |-> Served(u)]
    BY <1>3
  <1> QED BY <1>1, <1>2, <1>4 DEF Promise!Call, Served

(* The first message of a program is not the last: a thread that has just  *)
(* taken the connection is not served yet.                                 *)
LEMMA LockStutters ==
  ASSUME RInv, NEW t \in Thread, Lock(t)
  PROVE  UNCHANGED Promise!vars
  <1>1. /\ m_mutex = NoThread /\ m_mutex' = t /\ executed' = <<>> /\ pc[t] = "lock"
        /\ UNCHANGED <<request, reply>>
    BY DEF Lock, At
  <1>2. Append(request[t], Halt) # <<>>
    <2>1. request[t] \in Seq(Message)
      BY <1>1, MessageFacts DEF RInv, IInv, InvOwner
    <2> QED BY <2>1, MessageFacts, AppendNotEmpty
  <1>3. \A u \in Thread : ~Served(u) /\ ~Served(u)'
    BY <1>1, <1>2, ThreadAssumption DEF Served
  <1> QED BY <1>1, <1>3, Stutters

(* The FPGA executes a message: that of the halt executes the request.     *)
LEMMA ExecuteIsExecute ==
  ASSUME RInv, Execute
  PROVE  UNCHANGED Promise!vars \/ \E t \in Thread : Promise!Execute(t)
  <1>1. to_fpga # <<>> /\ UNCHANGED <<request, reply, m_mutex, pc>>
    BY DEF Execute
  <1>2. m_mutex \in Thread /\ m_mutex # NoThread
    BY <1>1, ThreadAssumption DEF RInv, IInv, TypeOK, InvFree
  <1>3. \A u \in Thread : ~Served(u)
    <2>1. executed # Whole
      BY <1>1, <1>2, NothingOutbound DEF RInv, IInv
    <2> QED BY <2>1 DEF Served, Whole
  <1>4. \A u \in Thread : u # m_mutex => ~Served(u)'
    BY <1>1 DEF Served
  <1>5. CASE ~Served(m_mutex)'
    <2>1. \A u \in Thread : ~Served(u)'
      BY <1>1, <1>4, <1>5 DEF Served
    <2> QED BY <1>1, <1>3, <2>1, Stutters
  <1>6. CASE Served(m_mutex)'
    <2>1. request[m_mutex] # NoProgram
      BY <1>2, HoldersProgram, MessageFacts DEF RInv, IInv
    <2>2. [u \in Thread |-> Served(u)]' = [[u \in Thread |-> Served(u)] EXCEPT ![m_mutex] = TRUE]
      BY <1>1, <1>2, <1>3, <1>4, <1>6 DEF Served
    <2> QED BY <1>1, <1>2, <1>3, <2>1, <2>2 DEF Promise!Execute, Served
  <1> QED BY <1>5, <1>6

(* A call returns answers to the request that was executed.                *)
LEMMA ReceiveIsReturn ==
  ASSUME RInv, NEW t \in Thread, ReceiveAll(t)
  PROVE  Promise!Return(t)
  <1>1. /\ reply' = [reply EXCEPT ![t] = m_receive_queue]
        /\ request' = [request EXCEPT ![t] = NoProgram]
        /\ m_mutex' = NoThread
    BY DEF ReceiveAll
  <1>2. m_mutex = t /\ executed = Append(request[t], Halt) /\ m_receive_queue = answered
    BY QueueIsAnswers DEF RInv
  <1>3. request[t] \in Seq(Message) /\ answered \in Seq(Message)
    BY <1>2, HoldersProgram, MessageFacts DEF RInv, IInv, TypeOK
  <1>4. answered \in Promise!Answers(Append(request[t], Halt))
    BY <1>2, <1>3, AllowedAnswers DEF RInv, InvAnswers
  <1>5. \A u \in Thread : ~Served(u)' /\ (Served(u) <=> u = t)
    BY <1>1, <1>2, ThreadAssumption DEF Served
  <1>6. [u \in Thread |-> Served(u)]' = [[u \in Thread |-> Served(u)] EXCEPT ![t] = FALSE]
    BY <1>5 DEF Served
  <1> QED BY <1>1, <1>2, <1>4, <1>5, <1>6 DEF Promise!Return, Served

LEMMA StepIsStep ==
  ASSUME RInv, [Next]_vars
  PROVE  [Promise!Next]_(Promise!vars)
  <1>1. ASSUME NEW t \in Thread, Call(t) PROVE Promise!Next
    BY <1>1, CallIsCall DEF Promise!Next
  <1>2. ASSUME NEW t \in Thread, Lock(t) PROVE UNCHANGED Promise!vars
    BY <1>2, LockStutters
  <1>3. ASSUME UNCHANGED <<request, reply, m_mutex, executed>> PROVE UNCHANGED Promise!vars
    <2>1. \A t \in Thread : Served(t)' <=> Served(t)
      BY <1>3 DEF Served
    <2> QED BY <1>3, <2>1, Stutters
  <1>4. ASSUME NEW t \in Thread, Add(t) \/ Commit(t) \/ SeeHalt(t) \/ ResetHalt(t)
        PROVE  UNCHANGED Promise!vars
    BY <1>3, <1>4 DEF Add, Commit, SeeHalt, ResetHalt
  <1>5. ASSUME NEW t \in Thread, ReceiveAll(t) PROVE Promise!Next
    BY <1>5, ReceiveIsReturn DEF Promise!Next
  <1>6. CASE Execute
    BY <1>6, ExecuteIsExecute DEF Promise!Next
  <1>7. ASSUME Elsewhere, ~Execute PROVE UNCHANGED Promise!vars
    <2>1. UNCHANGED <<request, reply, m_mutex, executed>>
      BY <1>7 DEF Elsewhere, Transmit, ReceivePacket, LockReceiveQueue, Listen, PushMessage,
                  UnlockReceiveQueue, Exit, MoveBegin, MoveEnd
    <2> QED BY <1>3, <2>1
  <1> QED BY NextCases, <1>1, <1>2, <1>4, <1>5, <1>6, <1>7, Zenon DEF Elsewhere

(* The connection implements the promise of execute_messages, step by      *)
(* step: whatever the encoder, the packets, the stream and the receiver    *)
(* thread do is invisible, but for the halt that makes a request executed. *)
THEOREM StepsImplementExecution == Spec => Promise!Init /\ [][Promise!Next]_(Promise!vars)
  <1>1. ASSUME Init PROVE Promise!Init
    <2>1. \A t \in Thread : ~(m_mutex = t /\ executed = Append(request[t], Halt))
      BY <1>1, ThreadAssumption DEF Init
    <2> QED BY <1>1, <2>1 DEF Init, Promise!Init
  <1>2. RInv /\ [Next]_vars => [Promise!Next]_(Promise!vars)
    BY StepIsStep
  <1> QED BY <1>1, <1>2, RefinementInvariant, PTL DEF Spec
=============================================================================
