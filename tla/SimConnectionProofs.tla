------------------------ MODULE SimConnectionProofs ------------------------
(***************************************************************************)
(* Theorems about SimConnection, for any number of threads and any         *)
(* programs.  The inductive invariant IInv is that of ARQConnectionProofs  *)
(* but for the halts: the receiver thread may still have the halt of the   *)
(* last call in hand when the next call takes the connection, or queue it  *)
(* only then (InvFree).  So the inbound path holds, in order, at most one  *)
(* halt left over and the answers (InvInbound); and once the flag is seen  *)
(* all answers but the halt are queued (InvFlag), so that of all pushes    *)
(* only that of the halt can meet the swap of receive_all.  Where it       *)
(* corrupts the queues nothing is claimed of what the call returns.        *)
(***************************************************************************)
EXTENDS SimConnection, SequenceTheorems, TLAPS

Holding == {"add", "commit", "run", "wait", "stop", "reset", "receive", "swap"}
Whole == Append(request[m_mutex], Halt)

InvOwner ==
  /\ \A t \in Thread : pc[t] \in Holding <=> m_mutex = t
  /\ \A t \in Thread : pc[t] # "idle" => request[t] \in Program

InvMove ==
  /\ ~m_run_receive => \A t \in Thread : pc[t] = "idle"
  /\ receiver = "exited" => ~m_run_receive

InvFree ==
  m_mutex = NoThread =>
    /\ todo = <<>> /\ m_send_queue = <<>> /\ to_sim = <<>> /\ from_sim = <<>>
    /\ m_receive_queue \o words \in MaybeHalt
    /\ words # <<>> => receiver = "push"
    /\ ~m_listener_halt /\ ~runnable

(* What the holder has passed on, and whether the simulation runs.         *)
InvStage ==
  \A t \in Thread :
    /\ pc[t] = "add" => todo # <<>>
    /\ pc[t] \in Holding \ {"add"} => todo = <<>>
    /\ pc[t] \in Holding \ {"add", "commit"} => m_send_queue = <<>>
    /\ pc[t] \in {"add", "commit", "run"} => answered = <<>>
    /\ pc[t] \in Holding => (runnable <=> pc[t] \in {"wait", "stop"})

Outbound == executed \o (to_sim \o (m_send_queue \o todo))
Inbound == m_receive_queue \o (words \o from_sim)

InvOutbound == m_mutex # NoThread => Outbound = Whole

(* What arrives while early is left over from the last call; the second    *)
(* case is that of a halt that was lost in the swap.                       *)
Arriving(early) ==
  /\ early # <<>> /\ m_receive_queue = <<>> => receiver = "push"
  /\ \/ Inbound = early \o answered
     \/ pc[m_mutex] = "swap" /\ words = <<>> /\ Append(m_receive_queue, Halt) = early \o answered

InvInbound == m_mutex # NoThread => \E early \in MaybeHalt : Arriving(early)

InvHaltLast ==
  m_mutex # NoThread =>
    \A i \in 1 .. Len(answered) :
      answered[i] = Halt => i = Len(answered) /\ executed = Whole

AllQueued ==
  /\ executed = Whole
  /\ answered # <<>> /\ Last(answered) = Halt
  /\ from_sim = <<>>
  /\ words # <<>> => receiver = "push" /\ words = <<Halt>>

InvFlag ==
  /\ m_listener_halt => m_mutex # NoThread /\ pc[m_mutex] \in {"wait", "stop", "reset"}
  /\ m_listener_halt => AllQueued
  /\ m_mutex # NoThread /\ pc[m_mutex] \in {"stop", "reset", "receive", "swap"} => AllQueued

IInv ==
  /\ TypeOK
  /\ InvOwner /\ InvMove /\ InvFree /\ InvStage
  /\ InvOutbound /\ InvInbound /\ InvHaltLast /\ InvFlag
----------------------------------------------------------------------------
(* Concatenated queues, and messages handed over from one to the next.     *)

(* A sequence cut after its first k elements.                              *)
LEMMA Cut ==
  ASSUME NEW S, NEW s \in Seq(S), NEW k \in 1 .. Len(s)
  PROVE  /\ SubSeq(s, 1, k) \in Seq(S)
         /\ SubSeq(s, 1, k) # <<>>
         /\ SubSeq(s, k + 1, Len(s)) \in Seq(S)
         /\ SubSeq(s, 1, k) \o SubSeq(s, k + 1, Len(s)) = s
  <1>1. Len(s) \in Nat /\ \A i \in 1 .. Len(s) : s[i] \in S
    BY LenProperties, ElementOfSeq
  <1>2. /\ SubSeq(s, 1, k) \in Seq(S)
        /\ Len(SubSeq(s, 1, k)) = k
    BY <1>1, SubSeqProperties
  <1>3. SubSeq(s, k + 1, Len(s)) \in Seq(S)
    BY <1>1, SubSeqProperties
  <1>4. SubSeq(s, 1, k) \o SubSeq(s, k + 1, Len(s)) = SubSeq(s, 1, Len(s))
    BY <1>1, ConcatAdjacentSubSeq
  <1> QED BY <1>1, <1>2, <1>3, <1>4, SubSeqFull, EmptySeq

(* A sequence cut before its last element.                                 *)
LEMMA CutLast ==
  ASSUME NEW S, NEW s \in Seq(S), s # <<>>
  PROVE  /\ Len(s) \in Nat \ {0} /\ s[Len(s)] \in S
         /\ SubSeq(s, 1, Len(s) - 1) \in Seq(S)
         /\ s = Append(SubSeq(s, 1, Len(s) - 1), s[Len(s)])
  <1>1. Len(s) \in Nat \ {0} /\ \A i \in 1 .. Len(s) : s[i] \in S
    BY EmptySeq, LenProperties, ElementOfSeq
  <1>2. s[Len(s)] \in S /\ Len(s) - 1 \in Int /\ \A i \in 1 .. Len(s) - 1 : s[i] \in S
    BY <1>1
  <1>3. SubSeq(s, 1, Len(s) - 1) \in Seq(S)
    BY <1>2, SubSeqProperties
  <1>4. PICK front \in Seq(S), last \in S : s = Append(front, last)
    BY SequenceEmptyOrAppend
  <1>5. /\ Len(s) = Len(front) + 1 /\ s[Len(s)] = last
        /\ Len(front) \in Nat /\ \A i \in 1 .. Len(front) : s[i] = front[i]
    BY <1>4, AppendProperties, LenProperties
  <1>6. SubSeq(s, 1, Len(s) - 1) = front
    <2>1. /\ Len(SubSeq(s, 1, Len(s) - 1)) = Len(front)
          /\ \A i \in 1 .. Len(front) : SubSeq(s, 1, Len(s) - 1)[i] = s[i]
      BY <1>2, <1>5, SubSeqProperties
    <2> QED BY <1>3, <1>5, <2>1, SeqEqual
  <1> QED BY <1>1, <1>2, <1>3, <1>4, <1>5, <1>6

(* A sequence to which an element was appended is not empty.               *)
LEMMA AppendNotEmpty ==
  ASSUME NEW S, NEW s \in Seq(S), NEW e \in S
  PROVE  Append(s, e) \in Seq(S) /\ Append(s, e) # <<>>
  BY AppendProperties

(* Moving the head of a queue to the end of the queue before it.           *)
LEMMA HandOver ==
  ASSUME NEW S, NEW s \in Seq(S), NEW u \in Seq(S), u # <<>>
  PROVE  Append(s, Head(u)) \o Tail(u) = s \o u
  <1>1. Head(u) \in S /\ Tail(u) \in Seq(S)
    BY HeadTailProperties
  <1>2. u = <<Head(u)>> \o Tail(u)
    <2>1. Len(u) \in 1 .. Len(u)
      BY EmptySeq, LenProperties
    <2>2. SubSeq(u, 1, Len(u)) = <<u[1]>> \o SubSeq(u, 2, Len(u))
      BY <2>1, SubSeqRecursiveFirst
    <2> QED BY <2>2, SubSeqFull, TailIsSubSeq
  <1>3. <<Head(u)>> \in Seq(S)
    BY <1>1
  <1>4. Append(s, Head(u)) = s \o <<Head(u)>>
    BY <1>1, AppendIsConcat
  <1>5. (s \o <<Head(u)>>) \o Tail(u) = s \o (<<Head(u)>> \o Tail(u))
    BY <1>1, <1>3, ConcatAssociative
  <1> QED BY <1>2, <1>4, <1>5

(* Moving the head of a queue to the end of what was handed over before.   *)
LEMMA HandOverBefore ==
  ASSUME NEW S
  PROVE  \A s, u, v \in Seq(S) :
           u # <<>> => Append(s, Head(u)) \o (Tail(u) \o v) = s \o (u \o v)
  <1> SUFFICES ASSUME NEW s \in Seq(S), NEW u \in Seq(S), NEW v \in Seq(S), u # <<>>
               PROVE  Append(s, Head(u)) \o (Tail(u) \o v) = s \o (u \o v)
    OBVIOUS
  <1>1. Head(u) \in S /\ Tail(u) \in Seq(S)
    BY HeadTailProperties
  <1>2. Append(s, Head(u)) \in Seq(S)
    BY <1>1, AppendProperties
  <1>3. Append(s, Head(u)) \o (Tail(u) \o v) = (Append(s, Head(u)) \o Tail(u)) \o v
    BY <1>1, <1>2, ConcatAssociative
  <1>4. Append(s, Head(u)) \o Tail(u) = s \o u
    BY HandOver
  <1>5. (s \o u) \o v = s \o (u \o v)
    BY ConcatAssociative
  <1> QED BY <1>3, <1>4, <1>5

(* Appending to the right part of a concatenation.                         *)
LEMMA AppendRight ==
  ASSUME NEW S, NEW s \in Seq(S), NEW u \in Seq(S), NEW e \in S
  PROVE  s \o Append(u, e) = Append(s \o u, e)
  <1>1. <<e>> \in Seq(S) /\ s \o u \in Seq(S)
    BY ConcatProperties
  <1>2. s \o (u \o <<e>>) = (s \o u) \o <<e>>
    BY <1>1, ConcatAssociative
  <1> QED BY <1>1, <1>2, AppendIsConcat

(* The first element of what follows s in a longer sequence.               *)
LEMMA HeadAt ==
  ASSUME NEW S, NEW s \in Seq(S), NEW u \in Seq(S), u # <<>>
  PROVE  /\ Len(s) + 1 \in 1 .. Len(s \o u)
         /\ (s \o u)[Len(s) + 1] = Head(u)
         /\ Len(s \o u) = Len(s) + Len(u)
  <1>1. Len(s) \in Nat /\ Len(u) \in Nat \ {0}
    BY EmptySeq, LenProperties
  <1>2. /\ Len(s \o u) = Len(s) + Len(u)
        /\ \A i \in 1 .. Len(s) + Len(u) :
             (s \o u)[i] = IF i <= Len(s) THEN s[i] ELSE u[i - Len(s)]
    BY ConcatProperties
  <1>3. Len(s) + 1 \in 1 .. Len(s) + Len(u) /\ ~(Len(s) + 1 <= Len(s)) /\ Len(s) + 1 - Len(s) = 1
    BY <1>1
  <1>4. (s \o u)[Len(s) + 1] = u[1]
    BY <1>2, <1>3
  <1>5. u[1] = Head(u)
    OBVIOUS
  <1> QED BY <1>2, <1>3, <1>4, <1>5

----------------------------------------------------------------------------
USE DEF callers, simulator, receiving, history, vars

(* The steps of a thread that holds the connection, but for the last one.  *)
Holds(t) ==
  \/ Add(t) \/ Commit(t)
  \/ StartSimulation(t) \/ SeeHalt(t) \/ StopSimulation(t) \/ ResetHalt(t)
  \/ BeginReceiveAll(t)

(* The steps that concern neither the callers nor the connection mutex.    *)
Elsewhere ==
  \/ UNCHANGED vars
  \/ Execute
  \/ ReceiveWords \/ Listen \/ PushMessage \/ Exit
  \/ MoveBegin \/ MoveEnd

(* The steps of Next, one case each: a lemma the step lemmas start from.   *)
LEMMA NextCases ==
  ASSUME [Next]_vars
  PROVE  \/ Elsewhere
         \/ \E t \in Thread : Call(t) \/ Lock(t) \/ Holds(t) \/ EndReceiveAll(t)
  BY DEF Next, Proceed, Aftermath, RunUntilHalt, ReceiveAll, WorkReceive, Holds, Elsewhere

(* A message is an instruction or the halt; programs are made of them.     *)
LEMMA MessageFacts ==
  /\ Halt \in Message /\ <<Halt>> \in Seq(Message)
  /\ \A p \in Program : p \in Seq(Message)
  /\ NoProgram \notin Program
  /\ \A s \in MaybeHalt : s \in Seq(Message)
  <1>1. Program \subseteq Seq(Message)
    <2> SUFFICES ASSUME NEW p \in Program PROVE p \in Seq(Message)
      OBVIOUS
    <2>1. p \in Seq(Instruction)
      BY ProgramAssumption
    <2> QED BY <2>1, SeqMonotonic, Zenon DEF Message
  <1>2. Halt \in Message /\ <<Halt>> \in Seq(Message) /\ <<>> \in Seq(Message)
    BY EmptySeq DEF Message
  <1> QED BY <1>1, <1>2, ProgramAssumption, NoProgramAssumption DEF MaybeHalt

(* HandOverBefore, for messages.                                           *)
LEMMA MessageHandOver ==
  \A s, u, v \in Seq(Message) :
    u # <<>> => Append(s, Head(u)) \o (Tail(u) \o v) = s \o (u \o v)
  BY HandOverBefore

(* Steps that leave the callers and the mutex alone.                       *)
LEMMA ElsewhereUnchanged ==
  ASSUME Elsewhere
  PROVE  UNCHANGED <<pc, request, reply, m_mutex, todo, m_send_queue, runnable>>
  BY DEF Elsewhere, Execute, ReceiveWords, Listen, PushMessage, Exit, MoveBegin, MoveEnd

(* Every variable keeps its type, and the receiver thread has words in     *)
(* hand exactly while it decodes.                                          *)
LEMMA TypeStep ==
  ASSUME TypeOK, InvOwner, [Next]_vars
  PROVE  TypeOK'
  <1> USE MessageFacts
  <1>1. ASSUME NEW t \in Thread, Call(t) PROVE TypeOK'
    BY <1>1 DEF TypeOK, Call, At
  <1>2. ASSUME NEW t \in Thread, Lock(t) PROVE TypeOK'
    BY <1>2 DEF TypeOK, Lock, At, InvOwner
  <1>3. ASSUME NEW t \in Thread, Add(t) PROVE TypeOK'
    <2>1. Head(todo) \in Message /\ Tail(todo) \in Seq(Message)
      BY <1>3, HeadTailProperties DEF TypeOK, Add
    <2>2. Append(m_send_queue, Head(todo)) \in Seq(Message)
      BY <2>1, AppendProperties DEF TypeOK
    <2> QED BY <1>3, <2>1, <2>2 DEF TypeOK, Add, At
  <1>4. ASSUME NEW t \in Thread, Commit(t) PROVE TypeOK'
    BY <1>4 DEF TypeOK, Commit, At
  <1>5. ASSUME NEW t \in Thread, StartSimulation(t) \/ StopSimulation(t) PROVE TypeOK'
    BY <1>5 DEF TypeOK, StartSimulation, StopSimulation, At
  <1>6. ASSUME NEW t \in Thread, SeeHalt(t) \/ ResetHalt(t) PROVE TypeOK'
    BY <1>6 DEF TypeOK, SeeHalt, ResetHalt, At
  <1>7. ASSUME NEW t \in Thread, BeginReceiveAll(t) PROVE TypeOK'
    BY <1>7 DEF TypeOK, BeginReceiveAll, At
  <1>8. ASSUME NEW t \in Thread, EndReceiveAll(t) PROVE TypeOK'
    BY <1>8 DEF TypeOK, EndReceiveAll, At, Received
  <1>9. ASSUME Execute PROVE TypeOK'
    <2> DEFINE m == Head(to_sim)
    <2>1. m \in Message /\ Tail(to_sim) \in Seq(Message)
      BY <1>9, HeadTailProperties DEF TypeOK, Execute
    <2>2. /\ Append(executed, m) \in Seq(Message)
          /\ Append(from_sim, m) \in Seq(Message)
          /\ Append(answered, m) \in Seq(Message)
      BY <2>1, AppendProperties DEF TypeOK
    <2>3. /\ executed' = Append(executed, m) /\ to_sim' = Tail(to_sim)
          /\ \/ from_sim' = Append(from_sim, m) /\ answered' = Append(answered, m)
             \/ UNCHANGED <<from_sim, answered>>
          /\ UNCHANGED <<callers, m_send_queue, runnable, receiving, m_receive_queue, m_listener_halt,
                         corrupted>>
      BY <1>9, Zenon DEF Execute
    <2> HIDE DEF m
    <2> QED BY <2>1, <2>2, <2>3 DEF TypeOK
  <1>10. ASSUME ReceiveWords PROVE TypeOK'
    <2>1. PICK k \in 1 .. Len(from_sim) :
            /\ words' = SubSeq(from_sim, 1, k)
            /\ from_sim' = SubSeq(from_sim, k + 1, Len(from_sim))
      BY <1>10 DEF ReceiveWords
    <2>2. from_sim \in Seq(Message)
      BY DEF TypeOK
    <2>3. words' \in Seq(Message) /\ words' # <<>> /\ from_sim' \in Seq(Message)
      BY <2>1, <2>2, Cut
    <2> QED BY <1>10, <2>3 DEF TypeOK, ReceiveWords
  <1>11. ASSUME Listen PROVE TypeOK'
    BY <1>11 DEF TypeOK, Listen
  <1>12. ASSUME PushMessage PROVE TypeOK'
    <2>1. words # <<>> /\ words \in Seq(Message)
      BY <1>12 DEF TypeOK, PushMessage
    <2>2. Head(words) \in Message /\ Tail(words) \in Seq(Message)
      BY <2>1, HeadTailProperties
    <2>3. m_receive_queue' \in Seq(Message)
      <3>1. m_receive_queue \in Seq(Message)
        BY DEF TypeOK
      <3>2. Append(m_receive_queue, Head(words)) \in Seq(Message)
        BY <2>2, <3>1, AppendProperties
      <3>3. m_receive_queue' = Append(m_receive_queue, Head(words)) \/ UNCHANGED m_receive_queue
        BY <1>12 DEF PushMessage
      <3> QED BY <3>1, <3>2, <3>3
    <2>4. words' = Tail(words) /\ (words' # <<>> <=> receiver' \in {"listen", "push"})
          /\ receiver' \in {"poll", "listen"}
      BY <1>12 DEF PushMessage
    <2>5. /\ UNCHANGED <<callers, m_send_queue, simulator, m_run_receive, m_listener_halt,
                        executed, answered>>
          /\ corrupted' \in BOOLEAN
      BY <1>12 DEF PushMessage, TypeOK
    <2> QED BY <2>2, <2>3, <2>4, <2>5 DEF TypeOK
  <1>13. ASSUME Exit \/ MoveBegin \/ MoveEnd PROVE TypeOK'
    BY <1>13 DEF TypeOK, Exit, MoveBegin, MoveEnd
  <1>14. ASSUME UNCHANGED vars PROVE TypeOK'
    BY <1>14 DEF TypeOK
  <1> QED BY NextCases, <1>1, <1>2, <1>3, <1>4, <1>5, <1>6, <1>7, <1>8, <1>9, <1>10, <1>11, <1>12, <1>13, <1>14, Zenon
          DEF Holds, Elsewhere

(* The threads inside a Stream and the connection mutex agree.             *)
LEMMA OwnerStep ==
  ASSUME TypeOK, InvOwner, [Next]_vars
  PROVE  InvOwner'
  <1> USE DEF InvOwner, Holding, At, TypeOK
  <1> USE MessageFacts, ThreadAssumption
  <1>1. ASSUME NEW t \in Thread, Call(t) PROVE InvOwner'
    BY <1>1 DEF Call
  <1>2. ASSUME NEW t \in Thread, Lock(t) PROVE InvOwner'
    BY <1>2 DEF Lock
  <1>3. ASSUME NEW t \in Thread, Holds(t) PROVE InvOwner'
    <2>1. /\ pc[t] \in Holding /\ pc' = [pc EXCEPT ![t] = pc'[t]] /\ pc'[t] \in Holding
          /\ UNCHANGED <<request, m_mutex>>
      BY <1>3 DEF Holds, Add, Commit, StartSimulation, SeeHalt, StopSimulation, ResetHalt, BeginReceiveAll
    <2> QED BY <2>1
  <1>4. ASSUME NEW t \in Thread, EndReceiveAll(t) PROVE InvOwner'
    BY <1>4 DEF EndReceiveAll
  <1>5. CASE Elsewhere
    BY <1>5, ElsewhereUnchanged
  <1> QED BY NextCases, <1>1, <1>2, <1>3, <1>4, <1>5, Zenon

(* A step of the holder changes where it is, and nobody else.              *)
LEMMA HoldsFacts ==
  ASSUME TypeOK, InvOwner, NEW t \in Thread, Holds(t) \/ EndReceiveAll(t)
  PROVE  /\ m_mutex = t /\ m_mutex # NoThread
         /\ \A u \in Thread : u # t => pc'[u] = pc[u] /\ pc[u] \notin Holding
         /\ UNCHANGED <<from_sim, to_sim, receiving, history>> \/ Commit(t)
         /\ UNCHANGED <<from_sim, receiving, history>>
  <1>1. pc[t] \in Holding
    BY DEF Holds, Add, Commit, StartSimulation, SeeHalt, StopSimulation, ResetHalt, BeginReceiveAll,
           EndReceiveAll, At, Holding
  <1>2. \A u \in Thread : u # t => pc'[u] = pc[u]
    BY DEF Holds, Add, Commit, StartSimulation, SeeHalt, StopSimulation, ResetHalt, BeginReceiveAll,
           EndReceiveAll, At, TypeOK
  <1>3. /\ UNCHANGED <<from_sim, to_sim, receiving, history>> \/ Commit(t)
        /\ UNCHANGED <<from_sim, receiving, history>>
    BY DEF Holds, Add, Commit, StartSimulation, SeeHalt, StopSimulation, ResetHalt, BeginReceiveAll,
           EndReceiveAll
  <1> QED BY <1>1, <1>2, <1>3, ThreadAssumption DEF InvOwner

(* While the connection is being moved nobody calls, and only a move ends  *)
(* the receiver thread.                                                    *)
LEMMA MoveStep ==
  ASSUME TypeOK, InvOwner, InvMove, [Next]_vars
  PROVE  InvMove'
  <1> USE DEF InvMove, At, TypeOK
  <1>1. ASSUME NEW t \in Thread, Call(t) PROVE InvMove'
    BY <1>1 DEF Call
  <1>2. ASSUME NEW t \in Thread, Lock(t) \/ Holds(t) \/ EndReceiveAll(t) PROVE InvMove'
    <2>1. pc[t] # "idle" /\ UNCHANGED <<m_run_receive, receiver>>
      BY <1>2 DEF Lock, Holds, Add, Commit, StartSimulation, SeeHalt, StopSimulation, ResetHalt,
                  BeginReceiveAll, EndReceiveAll
    <2> QED BY <2>1
  <1>3. CASE UNCHANGED vars \/ Execute
    BY <1>3 DEF Execute
  <1>4. CASE ReceiveWords \/ Listen \/ PushMessage
    BY <1>4 DEF ReceiveWords, Listen, PushMessage
  <1>5. CASE Exit \/ MoveBegin \/ MoveEnd
    BY <1>5 DEF Exit, MoveBegin, MoveEnd
  <1> QED BY NextCases, <1>1, <1>2, <1>3, <1>4, <1>5, Zenon DEF Elsewhere

----------------------------------------------------------------------------
(* Concatenation keeps the type of sequences of messages.                  *)
LEMMA ConcatTyped ==
  ASSUME TypeOK
  PROVE  /\ m_send_queue \o todo \in Seq(Message)
         /\ to_sim \o (m_send_queue \o todo) \in Seq(Message)
         /\ words \o from_sim \in Seq(Message)
         /\ Inbound \in Seq(Message)
  BY ConcatProperties DEF TypeOK, Inbound

(* A holder of the connection whose program is executed has nothing left   *)
(* on the way out.                                                         *)
LEMMA NothingOutbound ==
  ASSUME TypeOK, InvOutbound, m_mutex # NoThread, executed = Whole
  PROVE  to_sim = <<>> /\ m_send_queue = <<>> /\ todo = <<>>
  <1> DEFINE rest == to_sim \o (m_send_queue \o todo)
  <1>1. rest \in Seq(Message) /\ executed \in Seq(Message)
    BY ConcatTyped DEF TypeOK
  <1>2. executed \o rest = executed
    BY DEF InvOutbound, Outbound
  <1>3. rest = <<>>
    <2> HIDE DEF rest
    <2> QED BY <1>1, <1>2, ConcatEqualIffEmpty
  <1> QED BY <1>3, ConcatTyped, ConcatEqualIffEmpty DEF TypeOK

(* The holder's program is one of the programs.                            *)
LEMMA HoldersProgram ==
  ASSUME TypeOK, InvOwner, m_mutex # NoThread
  PROVE  /\ m_mutex \in Thread /\ pc[m_mutex] \in Holding
         /\ request[m_mutex] \in Program
         /\ Whole \in Seq(Message)
  <1>1. m_mutex \in Thread
    BY DEF TypeOK
  <1>2. pc[m_mutex] \in Holding
    BY <1>1 DEF InvOwner
  <1>3. request[m_mutex] \in Program
    BY <1>1, <1>2 DEF InvOwner, Holding
  <1> QED BY <1>1, <1>2, <1>3, MessageFacts, AppendNotEmpty DEF Whole

(* Only taking and giving back the mutex changes the program underway.     *)
LEMMA WholeUnchanged ==
  ASSUME TypeOK, InvOwner, [Next]_vars, m_mutex # NoThread,
         \A t \in Thread : ~EndReceiveAll(t)
  PROVE  m_mutex' = m_mutex /\ Whole' = Whole
  <1> USE DEF TypeOK
  <1>1. ASSUME NEW t \in Thread, Call(t) PROVE m_mutex' = m_mutex /\ Whole' = Whole
    <2>1. m_mutex # t
      BY <1>1 DEF Call, At, InvOwner, Holding
    <2>2. m_mutex' = m_mutex /\ request'[m_mutex] = request[m_mutex]
      BY <1>1, <2>1 DEF Call
    <2> QED BY <2>2 DEF Whole
  <1>2. ASSUME NEW t \in Thread, Lock(t) PROVE FALSE
    BY <1>2 DEF Lock
  <1>3. ASSUME NEW t \in Thread, Holds(t) PROVE m_mutex' = m_mutex /\ Whole' = Whole
    BY <1>3 DEF Holds, Add, Commit, StartSimulation, SeeHalt, StopSimulation, ResetHalt,
                BeginReceiveAll, Whole
  <1>4. CASE Elsewhere
    BY <1>4, ElsewhereUnchanged DEF Whole
  <1> QED BY NextCases, <1>1, <1>2, <1>3, <1>4, Zenon

(* The simulation runs, and answers, only between its start and its stop.  *)
LEMMA OnlyWhileRunning ==
  ASSUME TypeOK, InvOwner, InvFree, InvStage, Execute
  PROVE  m_mutex \in Thread /\ m_mutex # NoThread /\ pc[m_mutex] \in {"wait", "stop"}
  <1>1. runnable /\ to_sim # <<>>
    BY DEF Execute
  <1>2. m_mutex # NoThread
    BY <1>1 DEF InvFree
  <1> QED BY <1>1, <1>2, HoldersProgram DEF InvStage

(* What the holder has passed on at each stage of execute_messages.        *)
LEMMA StageStep ==
  ASSUME TypeOK, InvOwner, InvFree, InvStage, [Next]_vars
  PROVE  InvStage'
  <1> USE DEF InvStage, TypeOK, At
  <1>1. ASSUME NEW t \in Thread, Call(t) PROVE InvStage'
    BY <1>1 DEF Call, Holding
  <1>2. ASSUME NEW t \in Thread, Lock(t) PROVE InvStage'
    <2>1. todo' # <<>>
      <3>1. request[t] \in Seq(Message)
        <4>1. pc[t] # "idle"
          BY <1>2 DEF Lock
        <4>2. request[t] \in Program
          BY <4>1, Zenon DEF InvOwner
        <4> QED BY <4>2, MessageFacts, Zenon
      <3>2. Append(request[t], Halt) # <<>>
        BY <3>1, MessageFacts, AppendNotEmpty, Zenon
      <3>3. todo' = Append(request[t], Halt)
        BY <1>2 DEF Lock
      <3> QED BY <3>2, <3>3, Zenon
    <2>2. \A u \in Thread : u # t => pc'[u] \notin Holding
      BY <1>2, ThreadAssumption DEF Lock, InvOwner
    <2>3. pc'[t] = "add" /\ answered' = <<>> /\ ~runnable'
      BY <1>2 DEF Lock, InvFree
    <2> QED BY <2>1, <2>2, <2>3 DEF Holding
  <1>3. ASSUME NEW t \in Thread, Holds(t) \/ EndReceiveAll(t) PROVE InvStage'
    <2>1. /\ pc[t] \in Holding /\ m_mutex = t
          /\ \A u \in Thread : u # t => pc'[u] \notin Holding
          /\ answered' = answered
      BY <1>3, HoldsFacts DEF InvOwner
    <2>2. CASE Add(t)
      <3>1. /\ pc'[t] = "add" => todo' # <<>>
            /\ pc'[t] = "commit" => todo' = <<>>
            /\ pc[t] = "add" /\ pc'[t] \in {"add", "commit"} /\ runnable' = runnable
        BY <2>2 DEF Add
      <3> QED BY <2>1, <3>1 DEF Holding
    <2>3. CASE Commit(t) \/ StartSimulation(t) \/ SeeHalt(t)
      BY <2>1, <2>3 DEF Commit, StartSimulation, SeeHalt, Holding
    <2>4. CASE StopSimulation(t) \/ ResetHalt(t) \/ BeginReceiveAll(t) \/ EndReceiveAll(t)
      BY <2>1, <2>4 DEF StopSimulation, ResetHalt, BeginReceiveAll, EndReceiveAll, Holding
    <2> QED BY <1>3, <2>2, <2>3, <2>4 DEF Holds
  <1>4. CASE Execute
    <2>1. m_mutex \in Thread /\ pc[m_mutex] \in {"wait", "stop"}
      BY <1>4, OnlyWhileRunning
    <2>2. \A t \in Thread : pc[t] \in Holding => t = m_mutex
      BY DEF InvOwner
    <2>3. UNCHANGED <<pc, todo, m_send_queue, runnable>>
      BY <1>4, ElsewhereUnchanged DEF Elsewhere
    <2> QED BY <2>1, <2>2, <2>3 DEF Holding
  <1>5. CASE Elsewhere /\ ~Execute
    <2>1. answered' = answered
      BY <1>5 DEF Elsewhere, ReceiveWords, Listen, PushMessage, Exit, MoveBegin, MoveEnd
    <2> QED BY <1>5, <2>1, ElsewhereUnchanged
  <1> QED BY NextCases, <1>1, <1>2, <1>3, <1>4, <1>5, Zenon

(* A word in hand beside at most one halt is that halt.                    *)
LEMMA StrayWord ==
  ASSUME NEW s \in Seq(Message), NEW u \in Seq(Message), u # <<>>, s \o u \in MaybeHalt
  PROVE  s = <<>> /\ u = <<Halt>> /\ Tail(u) = <<>> /\ Head(u) = Halt
  <1>1. Len(s) \in Nat /\ Len(u) \in Nat \ {0} /\ Len(s \o u) = Len(s) + Len(u)
    BY EmptySeq, LenProperties, ConcatProperties
  <1>2. s \o u = <<Halt>> /\ Len(<<Halt>>) = 1
    BY <1>1, EmptySeq DEF MaybeHalt
  <1>3. Len(s) = 0
    BY <1>1, <1>2
  <1>4. s = <<>>
    BY <1>3, EmptySeq
  <1>5. u = <<Halt>>
    BY <1>2, <1>4, ConcatEmptySeq
  <1> QED BY <1>4, <1>5

(* A call leaves at most the answer to its halt behind.                    *)
LEMMA FreeStep ==
  ASSUME IInv, [Next]_vars
  PROVE  InvFree'
  <1> USE DEF IInv
  <1>1. ASSUME NEW t \in Thread, Lock(t) PROVE InvFree'
    BY <1>1, ThreadAssumption DEF Lock, InvFree
  <1>2. ASSUME NEW t \in Thread, EndReceiveAll(t) PROVE InvFree'
    <2>1. m_mutex = t /\ m_mutex # NoThread /\ pc[t] = "swap"
      BY <1>2, HoldsFacts DEF EndReceiveAll, At
    <2>2. AllQueued /\ ~m_listener_halt /\ ~runnable
      BY <2>1 DEF InvFlag, InvStage, Holding
    <2>3. to_sim = <<>> /\ m_send_queue = <<>> /\ todo = <<>> /\ from_sim = <<>>
      BY <2>1, <2>2, NothingOutbound DEF AllQueued
    <2>4. /\ m_receive_queue' = <<>>
          /\ UNCHANGED <<todo, m_send_queue, simulator, receiving, m_listener_halt>>
      BY <1>2 DEF EndReceiveAll
    <2>5. m_receive_queue' \o words' \in MaybeHalt
      BY <2>2, <2>4, MessageFacts, ConcatEmptySeq, EmptySeq DEF AllQueued, MaybeHalt
    <2> QED BY <2>2, <2>3, <2>4, <2>5 DEF InvFree, AllQueued
  <1>3. ASSUME NEW t \in Thread, Holds(t) PROVE InvFree'
    <2>1. m_mutex # NoThread
      BY <1>3, HoldsFacts
    <2>2. m_mutex' = m_mutex
      BY <1>3 DEF Holds, Add, Commit, StartSimulation, SeeHalt, StopSimulation, ResetHalt, BeginReceiveAll
    <2> QED BY <2>1, <2>2 DEF InvFree
  <1>4. ASSUME NEW t \in Thread, Call(t) PROVE InvFree'
    BY <1>4 DEF Call, InvFree
  <1>5. CASE Elsewhere
    <2> SUFFICES ASSUME m_mutex = NoThread PROVE InvFree'
      BY <1>5, ElsewhereUnchanged DEF InvFree
    <2>1. InvFree!2
      BY DEF InvFree
    <2>2. CASE Execute \/ UNCHANGED vars
      BY <2>1, <2>2 DEF Execute, InvFree
    <2>3. CASE ReceiveWords
      <3>1. Len(from_sim) = 0
        BY <2>1, EmptySeq
      <3> QED BY <2>3, <3>1 DEF ReceiveWords
    <2>4. CASE Listen
      BY <2>1, <2>4 DEF Listen, TypeOK
    <2>5. CASE PushMessage
      <3>1. /\ words # <<>> /\ words \in Seq(Message) /\ m_receive_queue \in Seq(Message)
            /\ m_receive_queue \o words \in MaybeHalt
        BY <2>1, <2>5 DEF PushMessage, TypeOK
      <3>2. m_receive_queue = <<>> /\ Tail(words) = <<>> /\ Head(words) = Halt
        BY <3>1, StrayWord
      <3>3. \A t \in Thread : pc[t] # "swap"
        BY ThreadAssumption DEF InvOwner, Holding
      <3>4. m_receive_queue' = Append(<<>>, Halt) /\ words' = <<>>
        BY <2>5, <3>2, <3>3 DEF PushMessage
      <3>5. m_receive_queue' \o words' \in MaybeHalt
        BY <3>4, MessageFacts, ConcatEmptySeq DEF MaybeHalt
      <3> QED BY <2>1, <2>5, <3>4, <3>5 DEF PushMessage, InvFree
    <2>6. CASE Exit \/ MoveBegin \/ MoveEnd
      BY <2>1, <2>6 DEF Exit, MoveBegin, MoveEnd, InvFree, TypeOK
    <2> QED BY <1>5, <2>2, <2>3, <2>4, <2>5, <2>6 DEF Elsewhere
  <1> QED BY NextCases, <1>1, <1>2, <1>3, <1>4, <1>5, Zenon

(* The program and its halt lie along the outbound path, in order.         *)
LEMMA OutboundStep ==
  ASSUME IInv, [Next]_vars
  PROVE  InvOutbound'
  <1> USE DEF IInv
  <1>1. ASSUME NEW t \in Thread, Lock(t) PROVE InvOutbound'
    <2>1. InvFree!2
      BY <1>1 DEF InvFree, Lock
    <2>2. /\ executed' = <<>> /\ to_sim' = <<>> /\ m_send_queue' = <<>>
          /\ todo' = Append(request[t], Halt) /\ Whole' = Append(request[t], Halt)
      BY <1>1, <2>1 DEF Lock, Whole
    <2>3. Append(request[t], Halt) \in Seq(Message)
      <3>1. pc[t] # "idle"
        BY <1>1 DEF Lock, At
      <3>2. request[t] \in Seq(Message)
        BY <3>1, MessageFacts, Zenon DEF InvOwner
      <3> QED BY <3>2, MessageFacts, AppendProperties
    <2> QED BY <2>2, <2>3, ConcatEmptySeq DEF InvOutbound, Outbound
  <1>2. ASSUME NEW t \in Thread, EndReceiveAll(t) PROVE InvOutbound'
    BY <1>2 DEF EndReceiveAll, InvOutbound
  <1>3. ASSUME Outbound' = Outbound, \A t \in Thread : ~EndReceiveAll(t), ~\E t \in Thread : Lock(t)
        PROVE  InvOutbound'
    <2>1. CASE m_mutex = NoThread
      <3>1. m_mutex' = m_mutex
        BY <1>3, <2>1, HoldsFacts, ElsewhereUnchanged, NextCases DEF Call
      <3> QED BY <2>1, <3>1 DEF InvOutbound
    <2>2. CASE m_mutex # NoThread
      BY <1>3, <2>2, WholeUnchanged DEF InvOutbound
    <2> QED BY <2>1, <2>2
  <1>4. ASSUME NEW t \in Thread, Holds(t)
        PROVE  (\A u \in Thread : ~EndReceiveAll(u)) /\ ~\E u \in Thread : Lock(u)
    <2>1. m_mutex = t /\ m_mutex # NoThread /\ pc[t] # "swap"
      BY <1>4, HoldsFacts DEF Holds, Add, Commit, StartSimulation, SeeHalt, StopSimulation, ResetHalt,
                              BeginReceiveAll, At
    <2>2. ASSUME NEW u \in Thread, EndReceiveAll(u) PROVE FALSE
      BY <2>1, <2>2, HoldsFacts DEF EndReceiveAll, At
    <2> QED BY <2>1, <2>2 DEF Lock
  <1>5. ASSUME NEW t \in Thread, Add(t) PROVE InvOutbound'
    <2>1. /\ todo # <<>> /\ todo' = Tail(todo) /\ m_send_queue' = Append(m_send_queue, Head(todo))
          /\ UNCHANGED <<executed, to_sim>>
      BY <1>5 DEF Add
    <2>2. m_send_queue' \o todo' = m_send_queue \o todo
      BY <2>1, HandOver DEF TypeOK
    <2>3. Outbound' = Outbound
      BY <2>1, <2>2 DEF Outbound
    <2> QED BY <1>3, <1>4, <1>5, <2>3 DEF Holds
  <1>6. ASSUME NEW t \in Thread, Commit(t) PROVE InvOutbound'
    <2>1. todo = <<>>
      BY <1>6 DEF Commit, At, InvStage, Holding
    <2>2. /\ to_sim' = to_sim \o m_send_queue /\ m_send_queue' = <<>>
          /\ UNCHANGED <<executed, todo>>
      BY <1>6 DEF Commit
    <2>3. to_sim \in Seq(Message) /\ m_send_queue \in Seq(Message) /\ to_sim \o m_send_queue \in Seq(Message)
      BY ConcatProperties DEF TypeOK
    <2>4. /\ m_send_queue \o <<>> = m_send_queue /\ <<>> \o <<>> = <<>>
          /\ (to_sim \o m_send_queue) \o <<>> = to_sim \o m_send_queue
      BY <2>3, ConcatEmptySeq, EmptySeq
    <2>5. Outbound' = Outbound
      BY <2>1, <2>2, <2>4 DEF Outbound
    <2> QED BY <1>3, <1>4, <1>6, <2>5 DEF Holds
  <1>7. ASSUME NEW t \in Thread,
               StartSimulation(t) \/ SeeHalt(t) \/ StopSimulation(t) \/ ResetHalt(t) \/ BeginReceiveAll(t)
        PROVE  InvOutbound'
    <2>1. Outbound' = Outbound
      BY <1>7 DEF StartSimulation, SeeHalt, StopSimulation, ResetHalt, BeginReceiveAll, Outbound
    <2> QED BY <1>3, <1>4, <1>7, <2>1 DEF Holds
  <1>8. CASE Execute
    <2> DEFINE rest == m_send_queue \o todo
    <2>1. /\ to_sim # <<>> /\ to_sim' = Tail(to_sim)
          /\ executed' = Append(executed, Head(to_sim))
          /\ UNCHANGED <<m_send_queue, todo, m_mutex, request>>
      BY <1>8 DEF Execute
    <2>2. rest \in Seq(Message) /\ to_sim \in Seq(Message) /\ executed \in Seq(Message)
      BY ConcatTyped DEF TypeOK
    <2>3. Append(executed, Head(to_sim)) \o (Tail(to_sim) \o rest) = executed \o (to_sim \o rest)
      <3> HIDE DEF rest
      <3> QED BY <2>1, <2>2, MessageHandOver, Zenon
    <2>4. Outbound' = Outbound
      BY <2>1, <2>3 DEF Outbound
    <2> QED BY <2>1, <2>4 DEF InvOutbound, Whole
  <1>9. CASE Elsewhere /\ ~Execute
    BY <1>9 DEF InvOutbound, Outbound, Whole, Elsewhere, ReceiveWords, Listen, PushMessage,
                Exit, MoveBegin, MoveEnd
  <1>10. ASSUME NEW t \in Thread, Call(t) PROVE InvOutbound'
    <2>1. m_mutex = NoThread => InvOutbound'
      BY <1>10 DEF Call, InvOutbound
    <2>2. \A u \in Thread : ~EndReceiveAll(u)
      BY <1>10 DEF Call, EndReceiveAll, TypeOK, At
    <2>3. Outbound' = Outbound
      BY <1>10 DEF Call, Outbound
    <2> QED BY <1>10, <2>1, <2>2, <2>3, WholeUnchanged DEF InvOutbound
  <1> QED BY NextCases, <1>1, <1>2, <1>5, <1>6, <1>7, <1>8, <1>9, <1>10, Zenon DEF Holds

----------------------------------------------------------------------------
(* With all answers queued nothing of them is left over from the last call.*)
LEMMA QueuedFacts ==
  ASSUME TypeOK, AllQueued
  PROVE  /\ Len(answered) \in Nat \ {0} /\ answered[Len(answered)] = Halt
         /\ Front(answered) \in Seq(Message)
         /\ answered = Append(Front(answered), Halt)
  <1>1. answered \in Seq(Message) /\ answered # <<>>
    BY DEF TypeOK, AllQueued
  <1>2. answered[Len(answered)] = Halt
    BY DEF AllQueued, Last
  <1> QED BY <1>1, <1>2, CutLast DEF Front

(* The answers since the mutex was taken lie along the inbound path, after *)
(* what was left over.                                                     *)
LEMMA InboundStep ==
  ASSUME IInv, [Next]_vars
  PROVE  InvInbound'
  <1> USE DEF IInv
  <1>1. ASSUME NEW t \in Thread, Lock(t) PROVE InvInbound'
    <2>1. /\ m_mutex = NoThread /\ answered' = <<>> /\ m_mutex' = t /\ pc'[t] = "add"
          /\ UNCHANGED <<receiver, words, from_sim, m_receive_queue>>
      BY <1>1 DEF Lock, At, TypeOK
    <2> DEFINE early == m_receive_queue \o words
    <2>2. early \in MaybeHalt /\ from_sim = <<>> /\ (words # <<>> => receiver = "push")
      BY <2>1 DEF InvFree
    <2>3. words \o <<>> = words /\ early \o <<>> = early
      BY <2>2, MessageFacts, ConcatEmptySeq DEF TypeOK
    <2>4. early # <<>> /\ m_receive_queue = <<>> => words # <<>>
      BY ConcatEmptySeq, EmptySeq
    <2>5. Arriving(early)'
      BY <2>1, <2>2, <2>3, <2>4 DEF Arriving, Inbound
    <2> HIDE DEF early
    <2> QED BY <2>1, <2>2, <2>3, <2>5 DEF InvInbound, Arriving, Inbound, MaybeHalt, early
  <1>2. ASSUME NEW t \in Thread, EndReceiveAll(t) PROVE InvInbound'
    BY <1>2 DEF EndReceiveAll, InvInbound
  (* In what follows early is the same before and after the step.           *)
  <1>3. SUFFICES ASSUME m_mutex # NoThread, \A t \in Thread : ~EndReceiveAll(t),
                        NEW early \in MaybeHalt, Arriving(early)
                 PROVE  /\ early # <<>> /\ m_receive_queue' = <<>> => receiver' = "push"
                        /\ \/ Inbound' = early \o answered'
                           \/ /\ pc'[m_mutex] = "swap" /\ words' = <<>>
                              /\ Append(m_receive_queue', Halt) = early \o answered'
    <2> SUFFICES ASSUME m_mutex' # NoThread, \A t \in Thread : ~EndReceiveAll(t), ~\E t \in Thread : Lock(t)
                 PROVE  \E early \in MaybeHalt : Arriving(early)'
      BY <1>1, <1>2 DEF InvInbound, MaybeHalt
    <2>1. m_mutex # NoThread
      <3>1. ASSUME m_mutex = NoThread PROVE m_mutex' = m_mutex
        BY <3>1, NextCases, HoldsFacts, ElsewhereUnchanged DEF Call
      <3> QED BY <3>1
    <2>2. m_mutex' = m_mutex
      BY <2>1, WholeUnchanged
    <2>3. PICK early \in MaybeHalt : Arriving(early)
      BY <2>1 DEF InvInbound
    <2>4. /\ early # <<>> /\ m_receive_queue' = <<>> => receiver' = "push"
          /\ \/ Inbound' = early \o answered'
             \/ /\ pc'[m_mutex] = "swap" /\ words' = <<>>
                /\ Append(m_receive_queue', Halt) = early \o answered'
      BY <1>3, <2>1, <2>3
    <2> QED BY <2>2, <2>4 DEF Arriving
  <1> DEFINE Goal == /\ early # <<>> /\ m_receive_queue' = <<>> => receiver' = "push"
                     /\ \/ Inbound' = early \o answered'
                        \/ /\ pc'[m_mutex] = "swap" /\ words' = <<>>
                           /\ Append(m_receive_queue', Halt) = early \o answered'
  <1>4. /\ m_mutex \in Thread /\ early \in Seq(Message) /\ answered \in Seq(Message)
        /\ words \in Seq(Message) /\ from_sim \in Seq(Message) /\ m_receive_queue \in Seq(Message)
    BY <1>3, MessageFacts DEF TypeOK
  <1>5. pc[m_mutex] = "swap" => AllQueued
    BY <1>3 DEF InvFlag
  <1>6. ASSUME NEW t \in Thread, Call(t) \/ Holds(t) PROVE Goal
    <2>1. UNCHANGED <<words, receiver, m_receive_queue, from_sim, answered>>
      BY <1>6, HoldsFacts DEF Holds, Call, Add, Commit, StartSimulation, SeeHalt, StopSimulation,
                              ResetHalt, BeginReceiveAll
    <2>2. pc[m_mutex] = "swap" => pc'[m_mutex] = "swap"
      BY <1>4, <1>6, HoldsFacts
         DEF Holds, Call, Add, Commit, StartSimulation, SeeHalt, StopSimulation, ResetHalt,
             BeginReceiveAll, At, TypeOK
    <2> QED BY <1>3, <2>1, <2>2 DEF Arriving, Inbound
  <1>7. CASE Execute
    <2>1. pc[m_mutex] # "swap" /\ UNCHANGED <<words, receiver, m_receive_queue>>
      BY <1>7, OnlyWhileRunning DEF Execute
    <2>2. Inbound = early \o answered
      BY <1>3, <2>1 DEF Arriving
    <2>3. CASE UNCHANGED <<from_sim, answered>>
      BY <1>3, <2>1, <2>2, <2>3 DEF Arriving, Inbound
    <2>4. CASE /\ from_sim' = Append(from_sim, Head(to_sim))
               /\ answered' = Append(answered, Head(to_sim))
      <3> DEFINE m == Head(to_sim)
      <3>1. m \in Message /\ words \o from_sim \in Seq(Message)
        BY <1>7, HeadTailProperties, ConcatTyped DEF Execute, TypeOK
      <3> HIDE DEF m
      <3>2. words \o Append(from_sim, m) = Append(words \o from_sim, m)
        BY <1>4, <3>1, AppendRight
      <3>3. m_receive_queue \o Append(words \o from_sim, m) = Append(Inbound, m)
        BY <1>4, <3>1, AppendRight DEF Inbound
      <3>4. early \o Append(answered, m) = Append(early \o answered, m)
        BY <1>4, <3>1, AppendRight
      <3>5. Inbound' = early \o answered'
        BY <2>1, <2>2, <2>4, <3>2, <3>3, <3>4 DEF Inbound, m
      <3> QED BY <1>3, <2>1, <3>5 DEF Arriving
    <2> QED BY <1>7, <2>3, <2>4 DEF Execute
  <1>8. CASE ReceiveWords
    <2>1. words = <<>> /\ UNCHANGED <<answered, m_receive_queue>>
      BY <1>8 DEF ReceiveWords, TypeOK
    <2>2. words' \o from_sim' = from_sim
      BY <1>4, <1>8, Cut DEF ReceiveWords
    <2>3. <<>> \o from_sim = from_sim
      BY <1>4, ConcatEmptySeq
    <2>4. from_sim # <<>>
      BY <1>8, EmptySeq DEF ReceiveWords
    <2>5. Inbound = early \o answered
      BY <1>3, <1>5, <2>4 DEF Arriving, AllQueued
    <2>6. ~(early # <<>> /\ m_receive_queue = <<>>)
      BY <1>3, <1>8 DEF Arriving, ReceiveWords
    <2> QED BY <2>1, <2>2, <2>3, <2>5, <2>6 DEF Inbound
  <1>9. CASE Listen
    <2>1. receiver' = "push" /\ UNCHANGED <<pc, words, m_receive_queue, from_sim, answered>>
      BY <1>9 DEF Listen
    <2> QED BY <1>3, <2>1 DEF Arriving, Inbound
  <1>10. CASE PushMessage
    <2>1. words # <<>> /\ words' = Tail(words) /\ UNCHANGED <<pc, from_sim, answered>>
      BY <1>10 DEF PushMessage, TypeOK
    <2>2. Inbound = early \o answered
      BY <1>3, <2>1 DEF Arriving
    <2>3. CASE m_receive_queue' = Append(m_receive_queue, Head(words))
      <3>1. Append(m_receive_queue, Head(words)) \o (Tail(words) \o from_sim) = Inbound
        BY <1>4, <2>1, MessageHandOver, Zenon DEF Inbound
      <3>2. Inbound' = early \o answered'
        BY <2>1, <2>2, <2>3, <3>1 DEF Inbound
      <3>3. Head(words) \in Message
        BY <1>4, <2>1, HeadTailProperties
      <3>4. m_receive_queue' # <<>>
        BY <1>4, <2>3, <3>3, AppendNotEmpty
      <3> QED BY <3>2, <3>4
    <2>4. CASE (\E t \in Thread : pc[t] = "swap") /\ UNCHANGED m_receive_queue
      <3>1. pc[m_mutex] = "swap"
        BY <2>4 DEF InvOwner, Holding
      <3>2. AllQueued /\ words = <<Halt>> /\ from_sim = <<>>
        BY <1>5, <2>1, <3>1 DEF AllQueued
      <3>3. Append(m_receive_queue, Halt) = early \o answered
        <4>1. <<Halt>> \o <<>> = <<Halt>> /\ Append(m_receive_queue, Halt) = m_receive_queue \o <<Halt>>
          BY <1>4, MessageFacts, ConcatEmptySeq, AppendIsConcat
        <4> QED BY <2>2, <3>2, <4>1 DEF Inbound
      <3>4. ~(early # <<>> /\ m_receive_queue = <<>>)
        <4>1. Len(answered) \in Nat \ {0}
          BY <3>2, QueuedFacts
        <4>2. Len(early) \in Nat /\ Len(early \o answered) = Len(early) + Len(answered)
          BY <1>4, LenProperties, ConcatProperties
        <4>3. Len(early \o answered) = Len(m_receive_queue) + 1
          BY <1>4, <3>3, MessageFacts, AppendProperties
        <4>4. m_receive_queue = <<>> => Len(m_receive_queue) = 0
          BY EmptySeq
        <4>5. Len(early) = 0 => early = <<>>
          BY <1>4, EmptySeq
        <4> QED BY <4>1, <4>2, <4>3, <4>4, <4>5
      <3>5. Tail(words) = <<>>
        BY <3>2
      <3> QED BY <2>1, <2>4, <3>1, <3>3, <3>4, <3>5
    <2> QED BY <1>10, <2>3, <2>4 DEF PushMessage
  <1>11. CASE Exit \/ MoveBegin \/ MoveEnd \/ UNCHANGED vars
    <2>1. UNCHANGED <<pc, words, m_receive_queue, from_sim, answered>>
          /\ (receiver = "push" => receiver' = "push")
      BY <1>11 DEF Exit, MoveBegin, MoveEnd
    <2> QED BY <1>3, <2>1 DEF Arriving, Inbound
  <1>12. ASSUME NEW t \in Thread, Lock(t) PROVE FALSE
    BY <1>3, <1>12 DEF Lock
  <1>13. Elsewhere \/ \E t \in Thread : Call(t) \/ Holds(t)
    BY <1>3, <1>12, NextCases, Zenon
  <1>14. Elsewhere => Goal
    BY <1>7, <1>8, <1>9, <1>10, <1>11, Zenon DEF Elsewhere
  <1> QED BY <1>6, <1>13, <1>14, Zenon

----------------------------------------------------------------------------
(* A halt can only be the last message of a program that is being run.     *)
LEMMA HaltEndsProgram ==
  ASSUME NEW p \in Program, NEW i \in 1 .. Len(Append(p, Halt)), Append(p, Halt)[i] = Halt
  PROVE  i = Len(Append(p, Halt))
  <1>1. p \in Seq(Instruction) /\ p \in Seq(Message) /\ Halt \in Message
    BY ProgramAssumption, MessageFacts
  <1>2. Len(p) \in Nat /\ \A j \in 1 .. Len(p) : p[j] \in Instruction
    BY <1>1, LenProperties, ElementOfSeq
  <1>3. /\ Len(Append(p, Halt)) = Len(p) + 1
        /\ \A j \in 1 .. Len(p) : Append(p, Halt)[j] = p[j]
    BY <1>1, AppendProperties
  <1> QED BY <1>2, <1>3, HaltAssumption

(* When the simulation executes a halt the whole program is executed.      *)
LEMMA HaltExecuted ==
  ASSUME IInv, InvOutbound', TypeOK', m_mutex # NoThread, m_mutex' = m_mutex, Whole' = Whole,
         to_sim # <<>>, Head(to_sim) = Halt, executed' = Append(executed, Halt)
  PROVE  executed' = Whole
  <1> DEFINE rest == m_send_queue \o todo
  <1> DEFINE ahead == to_sim \o rest
  <1> DEFINE behind == (to_sim \o rest)'
  <1>1. /\ executed \in Seq(Message) /\ ahead \in Seq(Message) /\ to_sim \in Seq(Message)
        /\ rest \in Seq(Message)
    BY ConcatTyped DEF IInv, TypeOK
  <1>2. ahead # <<>> /\ Head(ahead) = Halt
    <2> HIDE DEF rest
    <2>1. ahead[1] = to_sim[1] /\ Len(ahead) # 0
      <3>1. Len(to_sim) \in Nat \ {0} /\ Len(rest) \in Nat
        BY <1>1, EmptySeq, LenProperties
      <3> QED BY <1>1, <3>1, ConcatProperties
    <2> QED BY <1>1, <2>1, EmptySeq
  <1>3. executed \o ahead = Whole
    BY DEF IInv, InvOutbound, Outbound
  <1>4. Len(executed) + 1 = Len(Whole)
    <2> HIDE DEF ahead
    <2>1. /\ Len(executed) + 1 \in 1 .. Len(Whole)
          /\ Whole[Len(executed) + 1] = Halt
      BY <1>1, <1>2, <1>3, HeadAt
    <2>2. request[m_mutex] \in Program
      BY HoldersProgram DEF IInv
    <2> QED BY <2>1, <2>2, HaltEndsProgram DEF Whole
  <1>5. executed' \in Seq(Message) /\ behind \in Seq(Message)
    BY ConcatProperties DEF TypeOK
  <1>6. executed' \o behind = Whole
    BY DEF InvOutbound, Outbound
  <1>7. Len(executed') = Len(Whole)
    BY <1>1, <1>4, MessageFacts, AppendProperties
  <1> HIDE DEF behind
  <1>8. Len(behind) = 0
    <2>1. Len(executed') \in Nat /\ Len(behind) \in Nat
      BY <1>5, LenProperties
    <2>2. Len(Whole) = Len(executed') + Len(behind)
      BY <1>5, <1>6, ConcatProperties
    <2> QED BY <1>7, <2>1, <2>2
  <1>9. behind = <<>>
    BY <1>5, <1>8, EmptySeq
  <1> QED BY <1>5, <1>6, <1>9, ConcatEmptySeq

(* A halt is the last answer, and to a finished program.                   *)
LEMMA HaltLastStep ==
  ASSUME IInv, [Next]_vars, TypeOK', InvOutbound'
  PROVE  InvHaltLast'
  <1> USE DEF IInv
  <1>1. ASSUME NEW t \in Thread, Lock(t) PROVE InvHaltLast'
    <2>1. answered' = <<>> /\ Len(<<>>) = 0
      BY <1>1, EmptySeq DEF Lock
    <2> QED BY <2>1 DEF InvHaltLast
  <1>2. ASSUME NEW t \in Thread, EndReceiveAll(t) PROVE InvHaltLast'
    BY <1>2 DEF EndReceiveAll, InvHaltLast
  <1>3. CASE m_mutex = NoThread /\ ~\E t \in Thread : Lock(t)
    <2>1. m_mutex' = NoThread
      BY <1>3, NextCases, HoldsFacts, ElsewhereUnchanged DEF Call
    <2> QED BY <2>1 DEF InvHaltLast
  <1>4. CASE m_mutex # NoThread /\ \A t \in Thread : ~EndReceiveAll(t)
    <2>1. m_mutex' = m_mutex /\ Whole' = Whole
      BY <1>4, WholeUnchanged
    <2>2. CASE UNCHANGED <<executed, answered>>
      BY <2>1, <2>2 DEF InvHaltLast
    <2>3. CASE Execute
      <3> SUFFICES ASSUME NEW i \in 1 .. Len(answered'), answered'[i] = Halt
                   PROVE  i = Len(answered') /\ executed' = Whole
        BY <2>1 DEF InvHaltLast
      <3>1. /\ to_sim # <<>> /\ executed' = Append(executed, Head(to_sim))
            /\ Head(to_sim) \in Message /\ answered \in Seq(Message)
        BY <2>3, HeadTailProperties DEF Execute, TypeOK
      <3>2. \A j \in 1 .. Len(answered) : answered[j] # Halt
        BY <1>4, <3>1, NothingOutbound DEF InvHaltLast
      <3>3. answered' # answered
        BY <3>2
      <3>4. answered' = Append(answered, Head(to_sim))
        BY <2>3, <3>3 DEF Execute
      <3>5. /\ Len(answered) \in Nat
            /\ Len(answered') = Len(answered) + 1
            /\ \A j \in 1 .. Len(answered) : answered'[j] = answered[j]
            /\ answered'[Len(answered) + 1] = Head(to_sim)
        BY <3>1, <3>4, AppendProperties, LenProperties
      <3>6. i = Len(answered) + 1
        BY <3>2, <3>5
      <3>7. Head(to_sim) = Halt
        BY <3>5, <3>6
      <3> QED BY <1>4, <2>1, <3>1, <3>5, <3>6, <3>7, HaltExecuted
    <2>4. ASSUME NEW t \in Thread, Lock(t) PROVE FALSE
      BY <1>4, <2>4 DEF Lock
    <2>5. ASSUME NEW t \in Thread, Call(t) \/ Holds(t) PROVE UNCHANGED <<executed, answered>>
      BY <2>5, HoldsFacts DEF Call
    <2>6. CASE Elsewhere
      BY <2>2, <2>3, <2>6 DEF Elsewhere, ReceiveWords, Listen, PushMessage, Exit, MoveBegin, MoveEnd
    <2> QED BY <1>4, <2>2, <2>4, <2>5, <2>6, NextCases, Zenon
  <1> QED BY <1>1, <1>2, <1>3, <1>4, Zenon

(* A halt that the receiver thread comes upon, and not the one left over,  *)
(* is the last message that is underway.                                   *)
LEMMA HaltInHand ==
  ASSUME IInv, receiver = "listen", Head(words) = Halt
  PROVE  /\ m_mutex \in Thread /\ m_mutex # NoThread /\ pc[m_mutex] = "wait"
         /\ executed = Whole
         /\ answered # <<>> /\ Last(answered) = Halt
         /\ words = <<Halt>> /\ from_sim = <<>>
  <1>1. words # <<>> /\ m_mutex # NoThread
    BY DEF IInv, InvFree, TypeOK
  <1>2. m_mutex \in Thread /\ pc[m_mutex] \in Holding
    BY <1>1, HoldersProgram DEF IInv
  <1>3. PICK early \in MaybeHalt : Arriving(early)
    BY <1>1 DEF IInv, InvInbound
  <1> DEFINE left == words \o from_sim
  <1>4. /\ m_receive_queue \in Seq(Message) /\ words \in Seq(Message)
        /\ from_sim \in Seq(Message) /\ left \in Seq(Message)
        /\ early \in Seq(Message) /\ answered \in Seq(Message)
    BY MessageFacts, ConcatTyped DEF IInv, TypeOK
  <1>5. /\ m_receive_queue \o left = early \o answered
        /\ early # <<>> => m_receive_queue # <<>>
    BY <1>1, <1>3 DEF Arriving, Inbound
  <1>6. /\ Len(words) \in Nat \ {0} /\ Len(from_sim) \in Nat
        /\ Len(m_receive_queue) \in Nat /\ Len(early) \in {0, 1}
        /\ Len(early) <= Len(m_receive_queue) /\ Len(answered) \in Nat /\ Len(early) \in Nat
    <2>1. Len(early) \in {0, 1} /\ (Len(early) = 1 => early # <<>>)
      BY EmptySeq DEF MaybeHalt
    <2>2. m_receive_queue # <<>> => Len(m_receive_queue) # 0
      BY <1>4, EmptySeq
    <2>3. Len(words) # 0
      BY <1>1, <1>4, EmptySeq
    <2>4. /\ Len(words) \in Nat /\ Len(from_sim) \in Nat
          /\ Len(m_receive_queue) \in Nat /\ Len(answered) \in Nat /\ Len(early) \in Nat
      BY <1>4, LenProperties
    <2>5. Len(early) <= Len(m_receive_queue)
      <3>1. Len(early) = 1 => Len(m_receive_queue) # 0
        BY <1>5, <2>1, <2>2, Zenon
      <3>2. Len(early) = 0 \/ Len(early) = 1
        BY <2>1, Zenon
      <3>3. Len(early) \in Nat /\ Len(m_receive_queue) \in Nat
        BY <2>4
      <3>4. CASE Len(early) = 0
        BY <3>3, <3>4
      <3>5. CASE Len(early) = 1
        <4>1. Len(m_receive_queue) # 0
          BY <3>1, <3>5
        <4> QED BY <3>3, <3>5, <4>1
      <3> QED BY <3>2, <3>4, <3>5, Zenon
    <2> QED BY <2>1, <2>3, <2>4, <2>5
  <1>7. Len(left) = Len(words) + Len(from_sim) /\ left # <<>> /\ Head(left) = Halt
    <2>1. Len(left) = Len(words) + Len(from_sim) /\ left[1] = words[1]
      BY <1>4, <1>6, ConcatProperties
    <2>2. left # <<>>
      BY <1>4, <1>6, <2>1, EmptySeq
    <2> QED BY <1>4, <2>1, <2>2
  <1> DEFINE i == Len(m_receive_queue) + 1 - Len(early)
  <1>8. i \in 1 .. Len(answered) /\ answered[i] = Halt
        /\ Len(answered) = Len(m_receive_queue) + Len(left) - Len(early)
    <2> HIDE DEF left
    <2>1. /\ Len(m_receive_queue) + 1 \in 1 .. Len(early \o answered)
          /\ (early \o answered)[Len(m_receive_queue) + 1] = Halt
          /\ Len(early \o answered) = Len(m_receive_queue) + Len(left)
      <3>1. /\ Len(m_receive_queue) + 1 \in 1 .. Len(m_receive_queue \o left)
            /\ (m_receive_queue \o left)[Len(m_receive_queue) + 1] = Head(left)
            /\ Len(m_receive_queue \o left) = Len(m_receive_queue) + Len(left)
        BY <1>4, <1>7, HeadAt
      <3> QED BY <1>5, <1>7, <3>1, Zenon
    <2>2. /\ Len(early \o answered) = Len(early) + Len(answered)
          /\ \A k \in 1 .. Len(early) + Len(answered) :
               (early \o answered)[k] = IF k <= Len(early) THEN early[k] ELSE answered[k - Len(early)]
      BY <1>4, ConcatProperties
    <2>3. Len(answered) = Len(m_receive_queue) + Len(left) - Len(early)
      BY <1>4, <1>6, <1>7, <2>1, <2>2
    <2>4. i \in 1 .. Len(answered)
      BY <1>6, <2>1, <2>2
    <2>5. answered[i] = Halt
      <3>1. ~(Len(m_receive_queue) + 1 <= Len(early))
        BY <1>6
      <3> QED BY <2>1, <2>2, <3>1
    <2> QED BY <2>3, <2>4, <2>5
  <1>9. i = Len(answered) /\ executed = Whole
    <2> HIDE DEF i
    <2> QED BY <1>1, <1>8 DEF IInv, InvHaltLast
  <1>10. Len(words) = 1 /\ Len(from_sim) = 0
    <2> HIDE DEF left
    <2>1. Len(m_receive_queue) + 1 - Len(early) = Len(answered)
      BY <1>9
    <2>2. /\ Len(answered) = Len(m_receive_queue) + Len(left) - Len(early)
          /\ Len(left) = Len(words) + Len(from_sim)
      BY <1>7, <1>8
    <2>3. Len(left) = 1
      <3>1. /\ Len(left) \in Nat /\ Len(answered) \in Nat
            /\ Len(m_receive_queue) \in Nat /\ Len(early) \in Nat
        BY <1>4, LenProperties
      <3>2. \A a, q, e, l \in Nat : q + 1 - e = a /\ a = q + l - e => l = 1
        OBVIOUS
      <3> QED BY <2>1, <2>2, <3>1, <3>2, Zenon
    <2>4. \A w \in Nat \ {0}, f \in Nat : w + f = 1 => w = 1 /\ f = 0
      OBVIOUS
    <2> QED BY <1>6, <2>2, <2>3, <2>4, Zenon
  <1>11. words = <<Halt>> /\ from_sim = <<>>
    BY <1>4, <1>10, EmptySeq
  <1>12. answered # <<>> /\ Last(answered) = Halt
    <2>1. Len(answered) # 0 /\ answered[Len(answered)] = Halt
      BY <1>6, <1>8, <1>9
    <2> QED BY <2>1, EmptySeq DEF Last
  <1>13. ~AllQueued
    BY <1>1 DEF AllQueued
  <1>14. pc[m_mutex] = "wait"
    BY <1>1, <1>2, <1>12, <1>13 DEF IInv, InvFlag, InvStage, Holding
  <1> QED BY <1>1, <1>2, <1>9, <1>11, <1>12, <1>14

(* The flag is raised, and seen, only when all the answers but the halt    *)
(* are queued.                                                             *)
LEMMA FlagStep ==
  ASSUME IInv, [Next]_vars
  PROVE  InvFlag'
  <1> USE DEF IInv
  <1>1. ASSUME NEW t \in Thread, Lock(t) PROVE InvFlag'
    <2>1. ~m_listener_halt' /\ m_mutex' = t /\ pc'[t] = "add"
      BY <1>1 DEF Lock, At, InvFree, TypeOK
    <2> QED BY <2>1 DEF InvFlag
  <1>2. ASSUME NEW t \in Thread, EndReceiveAll(t) PROVE InvFlag'
    <2>1. m_mutex = t /\ pc[t] = "swap"
      BY <1>2, HoldsFacts DEF EndReceiveAll, At
    <2>2. ~m_listener_halt
      BY <2>1 DEF InvFlag
    <2> QED BY <1>2, <2>2 DEF InvFlag, EndReceiveAll
  <1>3. ASSUME NEW t \in Thread, Call(t) PROVE InvFlag'
    <2>1. UNCHANGED <<m_mutex, m_listener_halt, executed, answered, from_sim, words, receiver>>
      BY <1>3 DEF Call
    <2>2. m_mutex # NoThread => /\ m_mutex # t /\ m_mutex \in Thread
                                /\ pc'[m_mutex] = pc[m_mutex]
                                /\ request'[m_mutex] = request[m_mutex]
      BY <1>3 DEF Call, At, InvOwner, Holding, TypeOK
    <2> QED BY <2>1, <2>2 DEF InvFlag, AllQueued, Whole, Last
  <1>4. ASSUME NEW t \in Thread, Holds(t) PROVE InvFlag'
    <2>1. /\ m_mutex = t /\ m_mutex # NoThread
          /\ UNCHANGED <<m_mutex, request, executed, answered, from_sim, words, receiver>>
      BY <1>4, HoldsFacts DEF Holds, Add, Commit, StartSimulation, SeeHalt, StopSimulation, ResetHalt,
                              BeginReceiveAll
    <2>2. AllQueued => AllQueued'
      BY <2>1 DEF AllQueued, Whole, Last
    <2>3. CASE Add(t)
      <3>1. pc[t] = "add" /\ pc'[t] \in {"add", "commit"} /\ UNCHANGED m_listener_halt
        BY <2>3 DEF Add, At, TypeOK
      <3> QED BY <2>1, <3>1 DEF InvFlag
    <2>4. CASE Commit(t) \/ StartSimulation(t)
      BY <2>1, <2>2, <2>4 DEF Commit, StartSimulation, At, InvFlag, TypeOK
    <2>5. CASE SeeHalt(t)
      BY <2>1, <2>2, <2>5 DEF SeeHalt, At, InvFlag, TypeOK
    <2>6. CASE StopSimulation(t)
      BY <2>1, <2>2, <2>6 DEF StopSimulation, At, InvFlag, TypeOK
    <2>7. CASE ResetHalt(t) \/ BeginReceiveAll(t)
      BY <2>1, <2>2, <2>7 DEF ResetHalt, BeginReceiveAll, At, InvFlag, TypeOK
    <2> QED BY <1>4, <2>3, <2>4, <2>5, <2>6, <2>7, Zenon DEF Holds
  <1>5. CASE Elsewhere
    <2>1. UNCHANGED <<pc, m_mutex>> /\ Whole' = Whole
      BY <1>5, ElsewhereUnchanged DEF Whole
    (* The flag means as much as before, or it was not yet raised.          *)
    <2>2. ASSUME m_listener_halt' => m_listener_halt,
                 m_mutex # NoThread /\ AllQueued => AllQueued'
          PROVE  InvFlag'
      BY <2>1, <2>2 DEF InvFlag
    <2>3. CASE Execute
      <3>1. m_mutex # NoThread => ~AllQueued
        BY <2>3, NothingOutbound DEF Execute, AllQueued
      <3> QED BY <2>2, <2>3, <3>1 DEF Execute
    <2>4. CASE ReceiveWords
      <3>1. Len(from_sim) # 0
        BY <2>4 DEF ReceiveWords, TypeOK
      <3>2. ~AllQueued
        BY <3>1, EmptySeq DEF AllQueued
      <3> QED BY <2>2, <2>4, <3>2 DEF ReceiveWords
    <2>5. CASE Listen
      <3>1. words # <<>> /\ ~AllQueued
        BY <2>5 DEF Listen, AllQueued, TypeOK
      <3>2. CASE Head(words) = Halt
        <4>1. /\ m_mutex # NoThread /\ pc[m_mutex] = "wait"
              /\ executed = Whole /\ answered # <<>> /\ Last(answered) = Halt
              /\ words = <<Halt>> /\ from_sim = <<>>
          BY <2>5, <3>2, HaltInHand DEF Listen
        <4>2. AllQueued'
          BY <2>1, <2>5, <4>1 DEF AllQueued, Listen, Last
        <4> QED BY <2>1, <4>1, <4>2 DEF InvFlag
      <3>3. CASE Head(words) # Halt
        BY <2>2, <2>5, <3>1, <3>3 DEF Listen
      <3> QED BY <3>2, <3>3
    <2>6. CASE PushMessage
      <3>1. words # <<>>
        BY <2>6 DEF PushMessage, TypeOK
      <3>2. AllQueued => AllQueued'
        <4>1. words = <<Halt>> => Tail(words) = <<>>
          OBVIOUS
        <4> QED BY <2>1, <2>6, <3>1, <4>1 DEF AllQueued, PushMessage, Last
      <3> QED BY <2>2, <2>6, <3>2 DEF PushMessage
    <2>7. CASE Exit
      <3>1. words' = <<>> /\ UNCHANGED <<executed, answered, from_sim, m_listener_halt>>
        BY <2>7 DEF Exit, TypeOK
      <3>2. AllQueued => AllQueued'
        BY <2>1, <3>1 DEF AllQueued, Last
      <3> QED BY <2>2, <3>1, <3>2
    <2>8. CASE MoveEnd
      <3>1. words' = <<>> /\ UNCHANGED <<executed, answered, from_sim>> /\ ~m_listener_halt'
        BY <2>8 DEF MoveEnd, TypeOK
      <3>2. AllQueued => AllQueued'
        BY <2>1, <3>1 DEF AllQueued, Last
      <3> QED BY <2>2, <3>1, <3>2
    <2>9. CASE UNCHANGED vars \/ MoveBegin
      <3>1. UNCHANGED <<executed, answered, from_sim, words, receiver, m_listener_halt>>
        BY <2>9 DEF MoveBegin
      <3> QED BY <2>1, <2>2, <3>1 DEF AllQueued, Last
    <2> QED BY <1>5, <2>3, <2>4, <2>5, <2>6, <2>7, <2>8, <2>9, Zenon DEF Elsewhere
  <1> QED BY NextCases, <1>1, <1>2, <1>3, <1>4, <1>5, Zenon

----------------------------------------------------------------------------
(* The invariant holds initially.                                          *)
LEMMA InvInit ==
  ASSUME Init
  PROVE  IInv
  <1> USE DEF Init
  <1>1. <<>> \in Seq(Message) /\ <<>> \o <<>> = <<>>
    BY EmptySeq, ConcatEmptySeq
  <1>2. TypeOK
    BY <1>1 DEF TypeOK
  <1>3. InvOwner
    BY ThreadAssumption DEF InvOwner, Holding
  <1>4. InvMove /\ InvFree /\ InvStage
    BY <1>1 DEF InvMove, InvFree, InvStage, MaybeHalt, Holding
  <1>5. InvOutbound /\ InvInbound /\ InvHaltLast /\ InvFlag
    BY DEF InvOutbound, InvInbound, InvHaltLast, InvFlag
  <1> QED BY <1>2, <1>3, <1>4, <1>5 DEF IInv

(* Every step keeps the invariant.                                         *)
LEMMA InvStep ==
  ASSUME IInv, [Next]_vars
  PROVE  IInv'
  <1>1. TypeOK'
    BY TypeStep DEF IInv
  <1>2. InvOwner' /\ InvMove' /\ InvStage'
    BY OwnerStep, MoveStep, StageStep DEF IInv
  <1>3. InvFree' /\ InvOutbound' /\ InvInbound' /\ InvFlag'
    BY FreeStep, OutboundStep, InboundStep, FlagStep
  <1>4. InvHaltLast'
    BY <1>1, <1>3, HaltLastStep
  <1> QED BY <1>1, <1>2, <1>3, <1>4 DEF IInv

(* The messages of a call are where IInv says in every state.              *)
THEOREM Invariance == Spec => []IInv
  BY InvInit, InvStep, PTL DEF Spec

(* Every variable keeps its type; the receiver thread has words in hand    *)
(* exactly while it decodes.                                               *)
THEOREM TypeCorrect == Spec => []TypeOK
  <1>1. IInv => TypeOK
    BY DEF IInv
  <1> QED BY <1>1, Invariance, PTL

(* By the time of the swap all the other answers have been queued.         *)
LEMMA OnlyHaltInHand ==
  ASSUME IInv
  PROVE  OnlyHaltMeetsSwap
  <1> SUFFICES ASSUME NEW t \in Thread, pc[t] = "swap"
               PROVE  from_sim = <<>> /\ (words # <<>> => words = <<Halt>> /\ receiver = "push")
    BY DEF OnlyHaltMeetsSwap
  <1>1. m_mutex = t /\ m_mutex # NoThread
    BY ThreadAssumption DEF IInv, InvOwner, Holding
  <1>2. AllQueued
    BY <1>1 DEF IInv, InvFlag
  <1> QED BY <1>2 DEF AllQueued

(* Of all the pushes without the mutex only that of the answer to the      *)
(* call's halt can meet the swap of its receive_all.                       *)
THEOREM LastPushOnly == Spec => []OnlyHaltMeetsSwap
  BY OnlyHaltInHand, Invariance, PTL

(* A call returns after the simulation executed its program as a whole and *)
(* was stopped.  Unless the push of a halt met a swap and corrupted the    *)
(* queues, it loses none of its answers and gets no other call's but a     *)
(* halt, in order, although the receiver thread queues without the mutex.  *)
THEOREM AnswersComeBack == Spec => OnlyHaltsGoAstray
  <1> DEFINE Step == \A t \in Thread : Returns(t) =>
                       /\ corrupted \/ \E early, late \in MaybeHalt : reply'[t] = early \o Front(answered) \o late
                       /\ answered # <<>> /\ Last(answered) = Halt
                       /\ executed = Append(request[t], Halt)
                       /\ ~runnable /\ from_sim = <<>>
  <1>1. ASSUME IInv, [Next]_vars PROVE [OnlyHaltMeetsSwap /\ Step]_vars
    <2> SUFFICES ASSUME NEW t \in Thread, Returns(t)
                 PROVE  /\ corrupted \/ \E early, late \in MaybeHalt : reply'[t] = early \o Front(answered) \o late
                        /\ answered # <<>> /\ Last(answered) = Halt
                        /\ executed = Append(request[t], Halt)
                        /\ ~runnable /\ from_sim = <<>>
      BY <1>1, OnlyHaltInHand
    <2> USE <1>1 DEF IInv
    <2>1. EndReceiveAll(t)
      <3>1. pc[t] = "swap" /\ pc'[t] = "idle"
        BY DEF Returns
      <3>2. ASSUME NEW u \in Thread, u # t \/ ~EndReceiveAll(u),
                   Call(u) \/ Lock(u) \/ Holds(u) \/ EndReceiveAll(u)
            PROVE  FALSE
        <4>1. u # t => pc'[t] = pc[t]
          <5>1. Call(u) \/ Lock(u) \/ EndReceiveAll(u) => (u # t => pc'[t] = pc[t])
            BY DEF Call, Lock, EndReceiveAll, At, TypeOK
          <5>2. Holds(u) => (u # t => pc'[t] = pc[t])
            BY HoldsFacts
          <5> QED BY <3>2, <5>1, <5>2
        <4>2. u = t => pc[t] # "swap"
          BY <3>2 DEF Call, Lock, Holds, Add, Commit, StartSimulation, SeeHalt, StopSimulation, ResetHalt,
                      BeginReceiveAll, At
        <4> QED BY <3>1, <4>1, <4>2
      <3>3. CASE Elsewhere
        BY <3>1, <3>3, ElsewhereUnchanged
      <3> QED BY <3>2, <3>3, NextCases, Zenon
    <2>2. m_mutex = t /\ m_mutex # NoThread /\ pc[t] = "swap"
      BY <2>1, HoldsFacts DEF EndReceiveAll, At
    <2>3. AllQueued /\ ~runnable
      BY <2>2 DEF InvFlag, InvStage, Holding
    <2>4. PICK early \in MaybeHalt : Arriving(early)
      BY <2>2 DEF InvInbound
    <2>5. ~corrupted => reply'[t] = m_receive_queue
      BY <2>1 DEF EndReceiveAll, TypeOK, Received
    <2> DEFINE front == Front(answered)
    <2>6. /\ front \in Seq(Message) /\ answered = Append(front, Halt)
          /\ early \in Seq(Message) /\ m_receive_queue \in Seq(Message)
          /\ early \o front \in Seq(Message) /\ Halt \in Message
      BY <2>3, <2>4, QueuedFacts, MessageFacts, ConcatProperties DEF TypeOK
    <2> HIDE DEF front
    <2>7. early \o answered = Append(early \o front, Halt)
      BY <2>6, AppendRight
    <2>8. CASE words # <<>> \/ Inbound # early \o answered
      <3>1. Append(m_receive_queue, Halt) = Append(early \o front, Halt)
        <4>1. CASE Inbound # early \o answered
          BY <2>4, <2>7, <4>1 DEF Arriving
        <4>2. CASE Inbound = early \o answered /\ words = <<Halt>>
          <5>1. from_sim = <<>> /\ <<Halt>> \o <<>> = <<Halt>>
            BY <2>3, MessageFacts, ConcatEmptySeq DEF AllQueued
          <5>2. Append(m_receive_queue, Halt) = m_receive_queue \o <<Halt>>
            BY <2>6, AppendIsConcat
          <5> QED BY <2>7, <4>2, <5>1, <5>2 DEF Inbound
        <4> QED BY <2>3, <2>8, <4>1, <4>2 DEF AllQueued
      <3>2. m_receive_queue = early \o front
        <4>1. \A u, v \in Seq(Message) : Append(u, Halt) = Append(v, Halt) => u = v
          BY <2>6, AppendInjective
        <4> QED BY <2>6, <3>1, <4>1, Zenon
      <3>3. (early \o front) \o <<>> = early \o front /\ <<>> \in MaybeHalt
        BY <2>6, ConcatEmptySeq DEF MaybeHalt
      <3> QED BY <2>2, <2>3, <2>4, <2>5, <3>2, <3>3 DEF AllQueued, Whole, front
    <2>9. CASE words = <<>> /\ Inbound = early \o answered
      <3>1. Inbound = m_receive_queue
        BY <2>3, <2>6, <2>9, ConcatEmptySeq, EmptySeq DEF Inbound, AllQueued
      <3>2. Append(early \o front, Halt) = (early \o front) \o <<Halt>> /\ <<Halt>> \in MaybeHalt
        BY <2>6, AppendIsConcat DEF MaybeHalt
      <3> QED BY <2>2, <2>3, <2>4, <2>5, <2>7, <2>9, <3>1, <3>2 DEF AllQueued, Whole, front
    <2> QED BY <2>8, <2>9
  <1>2. Spec => [][Next]_vars
    BY PTL DEF Spec
  <1> QED BY <1>1, <1>2, Invariance, PTL DEF OnlyHaltsGoAstray
=============================================================================
