------------------------- MODULE QuiggeldyConnection -------------------------
(* The client of the quiggeldy service: connection objects that are        *)
(* constructed, moved, assigned and destroyed, and threads that submit     *)
(* programs through them, blocking or with a QuiggeldyFuture, while        *)
(* connects fail, answers are lost and submissions are retried.  The RCF   *)
(* library and the server's scheduler are external: a program is executed  *)
(* when the number of its submission is the next of its session, or at any *)
(* time if it carries none.                                                *)
EXTENDS Naturals, Sequences, FiniteSets, SequencesExt

CONSTANTS
  Thread,       \* threads that use connections
  Object,       \* places in memory for QuiggeldyConnection objects
  ServerSize,   \* sizes of the MultiConnections of the servers connected to
  Attempts,     \* m_connection_attempt_num_max
  MaxRequests,  \* bound: submissions
  OutOfOrder,   \* SequenceNumber::out_of_order()
  Nothing       \* a null pointer

ASSUME ClientAssumption ==
  /\ Nothing \notin Object /\ OutOfOrder \notin Nat
  /\ Attempts \in Nat \ {0} /\ MaxRequests \in Nat
  /\ ServerSize \in Seq(Nat)

VARIABLES
  connection,  \* object -> its members, or Nothing where there is none
  sessions,    \* how many sessions there were
  pc,          \* where each thread is in submit
  submission,  \* what each thread is submitting
  requests,    \* submissions so far
  calls,       \* remote calls and the futures that wait for them
  expected,    \* the server: session -> the next number
  executed,    \* history: session -> the programs executed, in order
  abandoned    \* history: session and count of submissions given up or cancelled

threads == <<pc, submission, requests>>
server == <<expected, executed>>
vars == <<connection, sessions, threads, calls, server, abandoned>>

Session == DOMAIN ServerSize

(* Members of an object that matter: whose lambda is in the uploader, how  *)
(* many answers were added to the time information (Nothing: moved away).  *)
Connection ==
  [session : Session \cup {Nothing}, m_sequence_num : Nat \cup {OutOfOrder}, m_size : Nat,
   m_time_info : Nat \cup {Nothing}, m_reinit_uploader : Object \cup {Nothing}]

ASSUME NullAssumption == Nothing \notin Connection \cup Nat

Idle == [object |-> Nothing, mode |-> "none", count |-> 0, number |-> 0, attempts |-> 0]

Init ==
  /\ connection = [o \in Object |-> Nothing]
  /\ sessions = 0
  /\ pc = [t \in Thread |-> "idle"]
  /\ submission = [t \in Thread |-> Idle]
  /\ requests = 0
  /\ calls = {}
  /\ expected = [s \in Session |-> 0]
  /\ executed = [s \in Session |-> <<>>]
  /\ abandoned = {}

Alive(o) == connection[o] # Nothing
Holds(o) == Alive(o) /\ connection[o].m_reinit_uploader # Nothing
InUse(o) == \E t \in Thread : pc[t] # "idle" /\ submission[t].object = o
SessionOf(o) == connection[o].session

----------------------------------------------------------------------------
(* Life of the objects.  Their users do not move or destroy them while a   *)
(* thread is inside submit; futures may still be underway.                 *)

(* The constructor asks the server for its size; with no answer to the     *)
(* last attempt it throws, and there is no object.                         *)
New(o) ==
  [session |-> sessions + 1, m_sequence_num |-> 0, m_size |-> ServerSize[sessions + 1],
   m_time_info |-> 0, m_reinit_uploader |-> o]

Construct(o) ==
  /\ ~Alive(o) /\ sessions < Len(ServerSize)
  /\ sessions' = sessions + 1
  /\ connection' = [connection EXCEPT ![o] = New(o)]
  /\ UNCHANGED <<threads, calls, server, abandoned>>

(* Of what is left in an object that was moved from only m_size is ever    *)
(* looked at again.                                                        *)
MovedFrom(c) ==
  [session |-> Nothing, m_sequence_num |-> 0, m_size |-> c.m_size,
   m_time_info |-> Nothing, m_reinit_uploader |-> Nothing]

(* Mutant: the uploader keeps the lambda of the other object.              *)
MoveConstructOnly(o, p) ==
  /\ Holds(p) /\ ~Alive(o) /\ ~InUse(p)
  /\ connection' = [connection EXCEPT ![o] = connection[p], ![p] = MovedFrom(@)]
  /\ UNCHANGED <<sessions, threads, calls, server, abandoned>>

(* The lambda in the uploader is replaced by one of the new object.        *)
MoveConstruct(o, p) ==
  /\ Holds(p) /\ ~Alive(o) /\ ~InUse(p)
  /\ connection' = [connection EXCEPT ![o] = [connection[p] EXCEPT !.m_reinit_uploader = o],
                                      ![p] = MovedFrom(@)]
  /\ UNCHANGED <<sessions, threads, calls, server, abandoned>>

(* Mutant: the time information is not taken over.                         *)
MoveAssignTimeless(o, p) ==
  /\ o # p /\ Holds(p) /\ Holds(o) /\ ~InUse(p) /\ ~InUse(o)
  /\ connection' = [connection EXCEPT
       ![o] = [connection[p] EXCEPT !.m_reinit_uploader = o, !.m_time_info = connection[o].m_time_info],
       ![p] = MovedFrom(@)]
  /\ UNCHANGED <<sessions, threads, calls, server, abandoned>>

(* operator= takes everything but m_size.                                  *)
MoveAssign(o, p) ==
  /\ o # p /\ Holds(p) /\ Alive(o) /\ ~InUse(p) /\ ~InUse(o)
  /\ connection' = [connection EXCEPT
       ![o] = [connection[p] EXCEPT !.m_reinit_uploader = o, !.m_size = connection[o].m_size],
       ![p] = MovedFrom(@)]
  /\ UNCHANGED <<sessions, threads, calls, server, abandoned>>

Destroy(o) ==
  /\ Alive(o) /\ ~InUse(o)
  /\ connection' = [connection EXCEPT ![o] = Nothing]
  /\ UNCHANGED <<sessions, threads, calls, server, abandoned>>

(* Bound: only before the first submission. *)
SetOutOfOrder(o) ==
  /\ Holds(o) /\ connection[o].m_sequence_num = 0
  /\ connection' = [connection EXCEPT ![o].m_sequence_num = OutOfOrder]
  /\ UNCHANGED <<sessions, threads, calls, server, abandoned>>

----------------------------------------------------------------------------
(* submit, by thread t. *)

(* Mutant: the number is drawn before refresh, which may throw.            *)
SubmitNumberFirst(t, o, mode) ==
  /\ pc[t] = "idle" /\ Holds(o) /\ requests < MaxRequests
  /\ requests' = requests + 1
  /\ \/ /\ pc' = [pc EXCEPT ![t] = "number"]
        /\ submission' = [submission EXCEPT ![t] =
             [object |-> o, mode |-> mode, count |-> requests', number |-> 0, attempts |-> 0]]
        /\ UNCHANGED connection
     \/ /\ connection[o].m_sequence_num # OutOfOrder
        /\ connection' = [connection EXCEPT ![o].m_sequence_num = @ + 1]
        /\ UNCHANGED <<pc, submission>>
  /\ UNCHANGED <<sessions, calls, server, abandoned>>

(* First the reinit stack is refreshed, which creates its client from the  *)
(* object in the uploader's lambda.  It is not retried: where that fails,  *)
(* submit throws before it drew a number, and nothing has changed.         *)
Submit(t, o, mode) ==
  /\ pc[t] = "idle" /\ Holds(o) /\ requests < MaxRequests
  /\ Holds(connection[o].m_reinit_uploader)
  /\ pc' = [pc EXCEPT ![t] = "number"]
  /\ requests' = requests + 1
  /\ submission' = [submission EXCEPT ![t] =
       [object |-> o, mode |-> mode, count |-> requests', number |-> 0, attempts |-> 0]]
  /\ UNCHANGED <<connection, sessions, calls, server, abandoned>>

Successor(n) == IF n = OutOfOrder THEN n ELSE n + 1

NextSequenceNumber(t) ==
  LET o == submission[t].object
  IN /\ pc[t] = "number"
     /\ submission' = [submission EXCEPT ![t].number = connection[o].m_sequence_num]
     /\ connection' = [connection EXCEPT ![o].m_sequence_num = Successor(@)]
     /\ pc' = [pc EXCEPT ![t] = "connect"]
     /\ UNCHANGED <<sessions, requests, calls, server, abandoned>>

CallOf(t) ==
  LET s == submission[t]
  IN [thread |-> t, count |-> s.count, attempt |-> s.attempts, mode |-> s.mode,
      session |-> SessionOf(s.object), number |-> s.number, this |-> s.object,
      state |-> "sent"]

(* submit returns or throws. *)
Leave(t) ==
  /\ pc' = [pc EXCEPT ![t] = "idle"]
  /\ submission' = [submission EXCEPT ![t] = Idle]

(* retrying_client_invoke sets a new client up for each attempt and calls  *)
(* submit_work with the number that was drawn.                             *)
Invoke(t) ==
  /\ pc[t] = "connect"
  /\ calls' = calls \cup {CallOf(t)}
  /\ IF submission[t].mode = "async" THEN Leave(t)
     ELSE pc' = [pc EXCEPT ![t] = "wait"] /\ UNCHANGED submission
  /\ UNCHANGED <<connection, sessions, requests, server, abandoned>>

(* Mutants: the number is drawn again for each attempt; there is one       *)
(* attempt more.                                                           *)
RetryWithNewNumber(t) ==
  /\ submission' = [submission EXCEPT ![t].attempts = @ + 1]
  /\ submission'[t].attempts < Attempts
  /\ pc' = [pc EXCEPT ![t] = "number"]
  /\ UNCHANGED abandoned

RetryOnceMore(t) ==
  /\ submission' = [submission EXCEPT ![t].attempts = @ + 1]
  /\ submission'[t].attempts <= Attempts
  /\ pc' = [pc EXCEPT ![t] = "connect"]
  /\ UNCHANGED abandoned

(* An attempt that failed is repeated with the same number until there     *)
(* have been m_connection_attempt_num_max of them; then submit throws.     *)
Retry(t) ==
  LET s == submission[t]
  IN \/ /\ s.attempts + 1 < Attempts
        /\ submission' = [submission EXCEPT ![t].attempts = @ + 1]
        /\ pc' = [pc EXCEPT ![t] = "connect"]
        /\ UNCHANGED abandoned
     \/ /\ s.attempts + 1 = Attempts
        /\ Leave(t)
        /\ abandoned' = abandoned \cup {<<SessionOf(s.object), s.count>>}

ConnectFails(t) ==
  /\ pc[t] = "connect"
  /\ Retry(t)
  /\ UNCHANGED <<connection, sessions, requests, calls, server>>

(* The call of thread t that submit waits for. *)
Waits(t, c) ==
  /\ pc[t] = "wait" /\ c.thread = t
  /\ c.count = submission[t].count /\ c.attempt = submission[t].attempts

(* What becomes of a call nobody waits for any more: it is forgotten,      *)
(* unless the server has still to read it.                                 *)
Forget(c) ==
  calls' = IF c.state = "sent" THEN (calls \ {c}) \cup {[c EXCEPT !.mode = "forgotten", !.this = Nothing]}
           ELSE calls \ {c}

(* The client loses its server while it waits.  Whatever has become of the *)
(* call, the same number is submitted again.                               *)
LoseAnswer(t) ==
  /\ \E c \in calls : Waits(t, c) /\ Forget(c)
  /\ Retry(t)
  /\ UNCHANGED <<connection, sessions, requests, server>>

(* Sizes of answer, object and time information have to agree. *)
Agree(o, s) ==
  Alive(o) /\ connection[o].m_size = ServerSize[s] /\ connection[o].m_time_info # Nothing

Accumulate(o) == connection' = [connection EXCEPT ![o].m_time_info = @ + 1]

(* A blocking submission adds the time before it returns; where the sizes  *)
(* disagree it throws, with the answer in its hands.                       *)
Return(t) ==
  /\ \E c \in calls :
       /\ Waits(t, c) /\ c.state \in {"executed", "stale"}
       /\ calls' = calls \ {c}
       /\ IF c.state = "executed" /\ Agree(c.this, c.session)
          THEN Accumulate(c.this)
          ELSE UNCHANGED connection
  /\ Leave(t)
  /\ UNCHANGED <<sessions, requests, server, abandoned>>

----------------------------------------------------------------------------
(* Futures. *)

IsFuture(c) == c.mode = "async"
Replace(c, state) == calls' = (calls \ {c}) \cup {[c EXCEPT !.state = state]}

(* The answer arrives: the future is ready, and the callback adds the time *)
(* to the object that submitted, which may have been moved from, assigned  *)
(* to or destroyed in the meantime.  Taking the value changes nothing      *)
(* here, and may come before it or after.                                  *)
Callback(c) ==
  /\ IsFuture(c) /\ c.state = "executed"
  /\ IF Agree(c.this, c.session) THEN Accumulate(c.this) ELSE UNCHANGED connection
  /\ calls' = calls \ {c}
  /\ UNCHANGED <<sessions, threads, server, abandoned>>

(* cancel, or the destruction of the future, before there is a value.      *)
Cancel(c) ==
  /\ IsFuture(c) /\ c.state \in {"sent", "executed"}
  /\ Forget(c)
  /\ abandoned' = abandoned \cup {<<c.session, c.count>>}
  /\ UNCHANGED <<connection, sessions, threads, server>>

----------------------------------------------------------------------------
(* The server. *)

Program(c) == [number |-> c.number, thread |-> c.thread, count |-> c.count]

Execute(c) ==
  /\ c.state = "sent" /\ c.number \in {expected[c.session], OutOfOrder}
  /\ expected' = [expected EXCEPT ![c.session] = IF c.number = OutOfOrder THEN @ ELSE @ + 1]
  /\ executed' = [executed EXCEPT ![c.session] = Append(@, Program(c))]
  /\ IF c.mode = "forgotten" THEN calls' = calls \ {c} ELSE Replace(c, "executed")
  /\ UNCHANGED <<connection, sessions, threads, abandoned>>

(* A number that was used before is answered with an exception, which only *)
(* a blocking submission hears of at once.                                 *)
Refuse(c) ==
  /\ c.state = "sent" /\ c.number # OutOfOrder /\ c.number < expected[c.session]
  /\ IF c.mode = "blocking" THEN Replace(c, "stale") ELSE calls' = calls \ {c}
  /\ UNCHANGED <<connection, sessions, threads, server, abandoned>>

(* A connection that broke off may take the call on it along.              *)
Vanish(c) ==
  /\ c.mode = "forgotten"
  /\ calls' = calls \ {c}
  /\ UNCHANGED <<connection, sessions, threads, server, abandoned>>
=============================================================================
