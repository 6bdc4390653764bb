------------------------------ MODULE Execution ------------------------------
(***************************************************************************)
(* What execute_messages promises its callers, whatever the connection     *)
(* underneath: the FPGA executes the messages of one call as a whole, in   *)
(* order and not mixed with those of another call, and the call returns    *)
(* the answers to its own messages, in order, the last of them the answer  *)
(* to the halt that execute_messages appends.                              *)
(***************************************************************************)
EXTENDS Naturals, Sequences

CONSTANTS
  Thread,      \* host threads that share one connection
  Program,     \* the message sequences they may ask to execute
  Halt,        \* the halt message, and its answer
  NoProgram    \* stands for "no call in progress"

VARIABLES
  request,     \* request[t]: the messages t has asked to execute
  executed,    \* is the request of t executed, its answers not yet returned?
  reply        \* reply[t]: what the last call of t returned

vars == <<request, executed, reply>>

(* An answer sequence to the messages p: messages of p in the order of p,  *)
(* some of them without an answer, and always ending with that of the halt.*)
Answers(p) ==
  { a \in UNION { [1 .. n -> {p[i] : i \in DOMAIN p}] : n \in 1 .. Len(p) } :
      \E place \in [1 .. Len(a) -> 1 .. Len(p)] :
        /\ \A i, j \in 1 .. Len(a) : i < j => place[i] < place[j]
        /\ \A i \in 1 .. Len(a) : a[i] = p[place[i]]
        /\ place[Len(a)] = Len(p) }

Init ==
  /\ request = [t \in Thread |-> NoProgram]
  /\ executed = [t \in Thread |-> FALSE]
  /\ reply = [t \in Thread |-> <<>>]

Call(t) ==
  /\ request[t] = NoProgram
  /\ \E p \in Program : request' = [request EXCEPT ![t] = p]
  /\ UNCHANGED <<executed, reply>>

(* The whole program of t runs, while no other executed call is waiting    *)
(* for its answers.                                                        *)
Execute(t) ==
  /\ request[t] # NoProgram
  /\ \A u \in Thread : ~executed[u]
  /\ executed' = [executed EXCEPT ![t] = TRUE]
  /\ UNCHANGED <<request, reply>>

Return(t) ==
  /\ executed[t]
  /\ \E a \in Answers(Append(request[t], Halt)) : reply' = [reply EXCEPT ![t] = a]
  /\ request' = [request EXCEPT ![t] = NoProgram]
  /\ executed' = [executed EXCEPT ![t] = FALSE]

Next == \E t \in Thread : Call(t) \/ Execute(t) \/ Return(t)

(* A call is never abandoned: as long as some thread has asked, some       *)
(* thread is served. Which one is left open, as std::mutex leaves it open. *)
Spec ==
  /\ Init
  /\ [][Next]_vars
  /\ WF_vars(\E t \in Thread : Execute(t))
  /\ \A t \in Thread : WF_vars(Return(t))
=============================================================================
