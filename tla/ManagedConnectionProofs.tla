----------------------- MODULE ManagedConnectionProofs -----------------------
(***************************************************************************)
(* Theorems about ManagedConnection and the QuiggeldyConnection below it,  *)
(* for any number of threads, objects, managers and submissions.  The      *)
(* inductive invariant IInv says who owns a session (InvOwner, InvHandles, *)
(* OneOwner), where each of its numbers is once it was drawn (InvDrawn,    *)
(* InvNumbers), that the numbers are drawn and executed in their order     *)
(* (InvOrder, InvExecuted), and that of the calls made for one submission  *)
(* at most one is waited for, and none once it was given up (InvCalls,     *)
(* InvOneCall, InvAbandoned).                                              *)
(***************************************************************************)
EXTENDS ManagedConnection, SequenceTheorems, FiniteSetTheorems, TLAPS

(* What TypeOK leaves out. *)
Submission ==
  [object : Object \cup {Nothing}, mode : {"none", "blocking", "async"}, count : 0 .. MaxRequests,
   number : Nat \cup {OutOfOrder}, attempts : 0 .. Attempts - 1]
Entry == [number : Nat \cup {OutOfOrder}, thread : Thread, count : 1 .. MaxRequests]

TypeThreads ==
  /\ submission \in [Thread -> Submission]
  /\ requests \in 0 .. MaxRequests
  /\ executed \in [Session -> Seq(Entry)]
  /\ abandoned \subseteq Session \X (1 .. MaxRequests)

(* A session has one owner, whose uploader refers to it.                   *)
InvOwner ==
  /\ \A o \in Object : Holds(o) =>
       /\ connection[o].m_reinit_uploader = o /\ SessionOf(o) \in 1 .. sessions
       /\ connection[o].m_time_info # Nothing
  /\ \A o, p \in Object : Holds(o) /\ Holds(p) /\ SessionOf(o) = SessionOf(p) => o = p

(* No two handles own the same connection.                                 *)
InvHandles ==
  /\ \A h \in handles : Alive(h.m_connection)
  /\ \A g, h \in handles : g.m_connection = h.m_connection => g = h

(* Threads that submit do so through objects that hold a session, and no   *)
(* two of them submit the same.                                            *)
InvUse ==
  \A t \in Thread :
    /\ pc[t] # "idle" => /\ submission[t].object \in Object /\ Holds(submission[t].object)
                         /\ submission[t].count \in 1 .. requests
                         /\ submission[t].mode \in {"blocking", "async"}
    /\ pc[t] = "idle" => submission[t].count = 0
    /\ pc[t] = "wait" => submission[t].mode = "blocking"
    /\ \A u \in Thread : pc[t] # "idle" /\ submission[t].count = submission[u].count => t = u

(* A number that was drawn: the server has executed a program with it, a   *)
(* call carries it, or a thread has it in hand.                            *)
Ticket == [session : Session, number : Nat, thread : Thread, count : 1 .. MaxRequests]
Carries(x, d) == x.number = d.number /\ x.thread = d.thread /\ x.count = d.count
AtServer(d) == \E i \in DOMAIN executed[d.session] : Carries(executed[d.session][i], d)
InCall(d) == \E c \in calls : c.session = d.session /\ Carries(c, d)
InHand(d) ==
  /\ pc[d.thread] \in {"connect", "wait"}
  /\ SessionOf(submission[d.thread].object) = d.session
  /\ submission[d.thread].number = d.number /\ submission[d.thread].count = d.count
Drawn(d) == AtServer(d) \/ InCall(d) \/ InHand(d)

(* A session's numbers are drawn in their order, and each only once.       *)
InvDrawn ==
  \A d \in Ticket : Drawn(d) =>
    /\ d.count <= requests /\ d.session <= sessions
    /\ pc[d.thread] = "number" => d.count < submission[d.thread].count
    /\ \A o \in Object : Holds(o) /\ SessionOf(o) = d.session =>
         connection[o].m_sequence_num # OutOfOrder /\ d.number < connection[o].m_sequence_num
InvOrder ==
  \A d, e \in Ticket : Drawn(d) /\ Drawn(e) /\ d.session = e.session =>
    /\ d.number = e.number => d = e
    /\ d.thread = e.thread /\ d.number < e.number => d.count < e.count

(* The server executes the numbers of a session in ascending order.        *)
InvExecuted ==
  \A s \in Session :
    /\ \A i \in DOMAIN executed[s] :
         executed[s][i].number # OutOfOrder => executed[s][i].number < expected[s]
    /\ \A i, j \in DOMAIN executed[s] :
         i < j /\ OutOfOrder \notin {executed[s][i].number, executed[s][j].number}
           => executed[s][i].number < executed[s][j].number

(* A call and the thread that made it, while that thread is inside submit. *)
CallGood(c) ==
  /\ c.count <= requests
  /\ c.mode = "forgotten" <=> c.this = Nothing
  /\ c.mode = "forgotten" => c.state = "sent"
  /\ c.mode = "blocking" => \E t \in Thread : c.count = submission[t].count
  /\ \A t \in Thread : c.count = submission[t].count =>
       /\ c.thread = t /\ pc[t] \in {"connect", "wait"}
       /\ c.session = SessionOf(submission[t].object) /\ c.number = submission[t].number
       /\ c.mode \in {"blocking", "forgotten"}
       /\ c.mode = "blocking" => pc[t] = "wait" /\ c.attempt = submission[t].attempts
       /\ c.mode = "forgotten" => c.attempt < submission[t].attempts
InvCalls == \A c \in calls : CallGood(c)

(* Of the calls with the same program at most one is waited for.          *)
InvOneCall ==
  \A c, e \in calls : c.count = e.count /\ "forgotten" \notin {c.mode, e.mode} => c = e

(* Nobody waits for what was given up.                                     *)
GivenUp(n) ==
  /\ n <= requests
  /\ \A c \in calls : c.count = n => c.mode = "forgotten"
  /\ \A t \in Thread : submission[t].count # n
InvAbandoned == \A x \in abandoned : GivenUp(x[2])

(* NumbersReachServer, but for calls on connections that broke off: those  *)
(* may vanish.                                                             *)
OnItsWay(s, n) ==
  \/ \E c \in calls : c.session = s /\ c.number = n /\ c.state = "sent" /\ c.mode # "forgotten"
  \/ \E t \in Thread : /\ pc[t] = "connect" /\ submission[t].number = n
                       /\ SessionOf(submission[t].object) = s
InvNumbers ==
  \A o \in Object :
    /\ Holds(o) /\ connection[o].m_sequence_num # OutOfOrder
    /\ \A x \in abandoned : x[1] # SessionOf(o)
    => \A n \in expected[SessionOf(o)] .. connection[o].m_sequence_num - 1 : OnItsWay(SessionOf(o), n)

IInv ==
  /\ TypeOK /\ TypeThreads
  /\ InvOwner /\ InvHandles /\ OneOwner /\ InvUse
  /\ InvDrawn /\ InvOrder /\ InvExecuted
  /\ InvCalls /\ InvOneCall /\ InvAbandoned /\ InvNumbers
----------------------------------------------------------------------------
USE DEF threads, server, vars, managed, allVars

(* What may happen to the objects in a step that leaves the threads, the   *)
(* calls and the server alone.                                             *)
Removes(x) ==
  /\ CanDisconnect(x)
  /\ connection' = Without(x) /\ sessions' = sessions
Adds(x, o) ==
  /\ CanDisconnect(x) /\ Without(x)[o] = Nothing
  /\ sessions < Len(ServerSize) /\ sessions' = sessions + 1
  /\ connection' = [Without(x) EXCEPT ![o] = New(o)]
Moves(o, p) ==
  /\ o # p /\ Holds(p) /\ ~InUse(o) /\ ~InUse(p)
  /\ \E size \in Nat :
       connection' = [connection EXCEPT
         ![o] = [connection[p] EXCEPT !.m_reinit_uploader = o, !.m_size = size], ![p] = MovedFrom(@)]
  /\ sessions' = sessions

Place == Object \cup {Nothing}
LifeStep ==
  /\ UNCHANGED <<threads, calls, server, abandoned>>
  /\ \/ \E x \in Place : Removes(x)
     \/ \E x \in Place, o \in Object : Adds(x, o)
     \/ \E o, p \in Object : Moves(o, p)
     \/ \E o \in Object : SetOutOfOrder(o)

(* The steps of the threads and of the server. *)
SubmitStep == \E t \in Thread, o \in Object, mode \in {"blocking", "async"} : Submit(t, o, mode)
WorkStep ==
  /\ \/ SubmitStep
     \/ \E t \in Thread : \/ NextSequenceNumber(t) \/ Invoke(t) \/ Return(t)
                         \/ ConnectFails(t) \/ LoseAnswer(t)
     \/ \E c \in calls : Execute(c) \/ Refuse(c) \/ Callback(c) \/ Cancel(c) \/ Vanish(c)
  /\ UNCHANGED managed

(* An object is told from a null pointer, and what holds a session is a    *)
(* proper object.                                                          *)
LEMMA ConnectionFacts ==
  ASSUME TypeOK
  PROVE  /\ \A o \in Object : Alive(o) => connection[o] \in Connection
         /\ Nothing \notin Connection /\ Nothing \notin Object /\ OutOfOrder \notin Nat
         /\ \A c \in Connection : MovedFrom(c) \in Connection
         /\ \A o \in Object : sessions < Len(ServerSize) => New(o) \in Connection
  <1>1. \A o \in Object : Alive(o) => connection[o] \in Connection
    BY DEF TypeOK, Alive
  <1>2. Nothing \notin Connection /\ Nothing \notin Object /\ OutOfOrder \notin Nat
    BY ClientAssumption, NullAssumption
  <1>3. \A c \in Connection : MovedFrom(c) \in Connection
    BY DEF MovedFrom, Connection
  <1>4. ASSUME NEW o \in Object, sessions < Len(ServerSize) PROVE New(o) \in Connection
    <2>1. Len(ServerSize) \in Nat /\ Session = 1 .. Len(ServerSize)
      BY ClientAssumption, LenProperties DEF Session
    <2>2. sessions + 1 \in 1 .. Len(ServerSize)
      BY <1>4, <2>1 DEF TypeOK
    <2>3. ServerSize[sessions + 1] \in Nat
      BY <2>2, ClientAssumption, ElementOfSeq
    <2> QED BY <2>1, <2>2, <2>3 DEF New, Connection
  <1> QED BY <1>1, <1>2, <1>3, <1>4

(* Without, place by place.                                                *)
LEMMA WithoutFacts ==
  ASSUME TypeOK, NEW x \in Place
  PROVE  /\ Without(x) \in [Object -> Connection \cup {Nothing}]
         /\ \A q \in Object : Without(x)[q] = IF q = x THEN Nothing ELSE connection[q]
  <1>1. connection \in [Object -> Connection \cup {Nothing}]
    BY DEF TypeOK
  <1>2. Nothing \notin Object
    BY ClientAssumption
  <1>3. CASE x = Nothing
    BY <1>1, <1>2, <1>3 DEF Without
  <1>4. CASE x # Nothing
    BY <1>1, <1>4 DEF Without, Place
  <1> QED BY <1>3, <1>4

(* The steps of Next: a lemma the step lemmas start from.                  *)
LEMMA NextCases ==
  ASSUME TypeOK, InvUse, [Next]_allVars
  PROVE  LifeStep \/ WorkStep \/ UNCHANGED allVars
  <1>1. Nothing \in Place /\ CanDisconnect(Nothing) /\ Without(Nothing) = connection
    BY DEF Place, CanDisconnect, Without
  <1>2. \A m \in Manager : m_handle[m] \in Place
    BY DEF TypeOK, Place
  <1>3. \A h \in handles : h.m_connection \in Place
    BY DEF TypeOK, Handle, Place
  <1>4. ASSUME NEW m \in Manager, Enter(m) PROVE LifeStep
    BY <1>2, <1>4 DEF Enter, LifeStep, Adds
  <1>5. ASSUME NEW x \in Place, Disconnect(x) PROVE LifeStep
    BY <1>5 DEF Disconnect, LifeStep, Removes
  <1>6. ASSUME NEW m \in Manager, EnterFails(m) \/ Exit(m) PROVE LifeStep
    BY <1>2, <1>5, <1>6 DEF EnterFails, Exit
  <1>7. ASSUME NEW h \in handles, Drop(h) PROVE LifeStep
    BY <1>3, <1>5, <1>7 DEF Drop
  <1>8. ASSUME NEW h \in handles, Release(h) PROVE LifeStep
    <2>1. Removes(Nothing)
      BY <1>1, <1>8 DEF Release, Removes
    <2> QED BY <1>1, <1>8, <2>1 DEF Release, LifeStep
  <1>9. ASSUME NEW o \in Object, Construct(o) PROVE LifeStep
    <2>1. Adds(Nothing, o)
      BY <1>1, <1>9 DEF Construct, Adds, Alive
    <2> QED BY <1>1, <1>9, <2>1 DEF Construct, LifeStep
  <1>10. ASSUME NEW o \in Object, Destroy(o) PROVE LifeStep
    <2>1. Removes(o) /\ o \in Place
      BY <1>10, ConnectionFacts DEF Destroy, Removes, CanDisconnect, Without, Place
    <2> QED BY <1>10, <2>1 DEF Destroy, LifeStep
  <1>11. ASSUME NEW o \in Object, NEW p \in Object, MoveConstruct(o, p) PROVE LifeStep
    <2>1. o # p /\ ~InUse(o)
      BY <1>11 DEF MoveConstruct, Holds, InvUse, InUse
    <2>2. connection[p] \in Connection
      BY <1>11, ConnectionFacts DEF MoveConstruct, Holds
    <2>3. [connection[p] EXCEPT !.m_reinit_uploader = o]
            = [connection[p] EXCEPT !.m_reinit_uploader = o, !.m_size = connection[p].m_size]
          /\ connection[p].m_size \in Nat
      BY <2>2 DEF Connection
    <2>4. Moves(o, p)
      BY <1>11, <2>1, <2>3 DEF MoveConstruct, Moves
    <2> QED BY <1>11, <2>4 DEF MoveConstruct, LifeStep
  <1>12. ASSUME NEW o \in Object, NEW p \in Object, MoveAssign(o, p) PROVE LifeStep
    <2>1. connection[o].m_size \in Nat
      BY <1>12, ConnectionFacts DEF MoveAssign, Connection
    <2>2. Moves(o, p)
      BY <1>12, <2>1 DEF MoveAssign, Moves
    <2> QED BY <1>12, <2>2 DEF MoveAssign, LifeStep
  <1>13. ASSUME NEW o \in Object, Unmanaged(o) PROVE LifeStep
    BY <1>9, <1>10, <1>11, <1>12, <1>13, Zenon DEF Unmanaged
  <1>14. ASSUME NEW o \in Object, Use(o) PROVE LifeStep \/ WorkStep
    BY <1>14 DEF Use, LifeStep, SetOutOfOrder, WorkStep, SubmitStep
  <1>15. ASSUME NEW t \in Thread, ThreadStep(t) PROVE WorkStep
    BY <1>15, Zenon DEF ThreadStep, WorkStep
  <1>16. ASSUME NEW c \in calls, CallStep(c) PROVE WorkStep
    BY <1>16, Zenon DEF CallStep, WorkStep
  <1> QED BY <1>4, <1>6, <1>7, <1>8, <1>13, <1>14, <1>15, <1>16 DEF Next

(* The objects keep their types in a step of LifeStep.                     *)
LEMMA LifeTyped ==
  ASSUME TypeOK, LifeStep
  PROVE  connection' \in [Object -> Connection \cup {Nothing}] /\ sessions' \in 0 .. Len(ServerSize)
  <1>1. Len(ServerSize) \in Nat
    BY ClientAssumption, LenProperties
  <1>2. ASSUME NEW x \in Place, Removes(x)
        PROVE  connection' \in [Object -> Connection \cup {Nothing}] /\ sessions' = sessions
    BY <1>2, WithoutFacts DEF Removes
  <1>3. ASSUME NEW x \in Place, NEW o \in Object, Adds(x, o)
        PROVE  /\ connection' \in [Object -> Connection \cup {Nothing}]
               /\ sessions' \in 0 .. Len(ServerSize)
    <2>1. New(o) \in Connection
      BY <1>3, ConnectionFacts DEF Adds
    <2>2. sessions' \in 0 .. Len(ServerSize)
      BY <1>1, <1>3 DEF Adds, TypeOK
    <2> QED BY <1>3, <2>1, <2>2, WithoutFacts DEF Adds
  <1>4. ASSUME NEW o \in Object, NEW p \in Object, Moves(o, p)
        PROVE  connection' \in [Object -> Connection \cup {Nothing}] /\ sessions' = sessions
    <2>1. connection[p] \in Connection /\ MovedFrom(connection[p]) \in Connection
      BY <1>4, ConnectionFacts DEF Moves, Holds
    <2>2. \A size \in Nat :
            [connection[p] EXCEPT !.m_reinit_uploader = o, !.m_size = size] \in Connection
      BY <2>1 DEF Connection
    <2> QED BY <1>4, <2>1, <2>2 DEF Moves, TypeOK
  <1>5. ASSUME NEW o \in Object, SetOutOfOrder(o)
        PROVE  connection' \in [Object -> Connection \cup {Nothing}] /\ sessions' = sessions
    <2>1. [connection[o] EXCEPT !.m_sequence_num = OutOfOrder] \in Connection
      BY <1>5, ConnectionFacts DEF SetOutOfOrder, Holds, Connection
    <2> QED BY <1>5, <2>1 DEF SetOutOfOrder, TypeOK
  <1>6. sessions \in 0 .. Len(ServerSize)
    BY DEF TypeOK
  <1> QED BY <1>2, <1>3, <1>4, <1>5, <1>6 DEF LifeStep

(* What an object that holds a session has from the one that held it.      *)
Keeps(c, d) ==
  /\ d.session = c.session /\ d.m_time_info = c.m_time_info
  /\ \/ d.m_sequence_num = c.m_sequence_num
     \/ c.m_sequence_num = 0 /\ d.m_sequence_num = OutOfOrder
Source(o, p) == Holds(o) /\ Keeps(connection[o], connection'[p])
Fresh(p) ==
  /\ sessions' = sessions + 1
  /\ connection'[p].session = sessions' /\ connection'[p].m_sequence_num = 0
Origin(p) ==
  /\ connection'[p].m_reinit_uploader = p /\ connection'[p].m_time_info # Nothing
  /\ Fresh(p) \/ \E o \in Object : Source(o, p)
OneHolder ==
  \A p, q \in Object : Holds(p)' /\ Holds(q)' /\ SessionOf(p)' = SessionOf(q)' => p = q

(* A step of LifeStep leaves the sessions of objects in use where they are; *)
(* an object that holds a session afterwards has it from another, or has a *)
(* new one.                                                                *)
LEMMA LifeFacts ==
  ASSUME TypeOK, InvOwner, LifeStep
  PROVE  /\ \A o \in Object : InUse(o) /\ Holds(o) => Holds(o)' /\ Keeps(connection[o], connection'[o])
         /\ \A p \in Object : Holds(p)' => Origin(p)
         /\ OneHolder
         /\ sessions' \in {sessions, sessions + 1}
  <1> DEFINE Still == \A o \in Object : InUse(o) /\ Holds(o)
                        => Holds(o)' /\ Keeps(connection[o], connection'[o])
             Given == \A p \in Object : Holds(p)' => Origin(p)
  <1>1. connection \in [Object -> Connection \cup {Nothing}] /\ sessions \in Nat
    <2>1. Len(ServerSize) \in Nat
      BY ClientAssumption, LenProperties
    <2> QED BY <2>1 DEF TypeOK
  <1>2. Nothing \notin Connection /\ Nothing \notin Object
    BY ConnectionFacts
  <1>3. \A o \in Object : Holds(o) =>
          /\ connection[o] \in Connection /\ connection[o].m_reinit_uploader = o
          /\ connection[o].m_time_info # Nothing /\ connection[o].session \in 1 .. sessions
    BY ConnectionFacts DEF InvOwner, Holds, SessionOf
  <1>4. \A o, p \in Object : Holds(o) /\ Holds(p) /\ connection[o].session = connection[p].session => o = p
    BY DEF InvOwner, SessionOf
  <1>5. ASSUME NEW x \in Place, Removes(x) PROVE Still /\ Given /\ OneHolder /\ sessions' = sessions
    <2>1. \A q \in Object : connection'[q] = IF q = x THEN Nothing ELSE connection[q]
      BY <1>5, WithoutFacts DEF Removes
    <2>2. \A q \in Object : Holds(q)' => Holds(q) /\ connection'[q] = connection[q]
      BY <2>1 DEF Holds, Alive
    <2>3. Still
      <3> SUFFICES ASSUME NEW o \in Object, InUse(o), Holds(o)
                   PROVE  Holds(o)' /\ Keeps(connection[o], connection'[o])
        OBVIOUS
      <3>1. o # x
        BY <1>2, <1>5 DEF Removes, CanDisconnect
      <3> QED BY <2>1, <3>1 DEF Holds, Alive, Keeps
    <2>4. Given
      BY <1>3, <2>2 DEF Origin, Source, Keeps
    <2>5. OneHolder
      BY <1>4, <2>2 DEF OneHolder, SessionOf
    <2> QED BY <1>5, <2>3, <2>4, <2>5 DEF Removes
  <1>6. ASSUME NEW x \in Place, NEW a \in Object, Adds(x, a)
        PROVE  Still /\ Given /\ OneHolder /\ sessions' = sessions + 1
    <2>1. \A q \in Object : connection'[q] = IF q = a THEN New(a)
                                             ELSE IF q = x THEN Nothing ELSE connection[q]
      BY <1>6, WithoutFacts DEF Adds
    <2>2. a = x \/ connection[a] = Nothing
      BY <1>6, WithoutFacts DEF Adds
    <2>3. \A q \in Object : Holds(q)' /\ q # a => Holds(q) /\ connection'[q] = connection[q]
      BY <2>1 DEF Holds, Alive
    <2>4. sessions' = sessions + 1
      BY <1>6 DEF Adds
    <2>5. /\ connection'[a].session = sessions + 1 /\ connection'[a].m_sequence_num = 0
          /\ connection'[a].m_reinit_uploader = a /\ connection'[a].m_time_info = 0
      BY <2>1 DEF New
    <2>6. Still
      <3> SUFFICES ASSUME NEW o \in Object, InUse(o), Holds(o)
                   PROVE  Holds(o)' /\ Keeps(connection[o], connection'[o])
        OBVIOUS
      <3>1. o # x
        BY <1>2, <1>6 DEF Adds, CanDisconnect
      <3>2. o # a
        BY <2>2, <3>1 DEF Holds, Alive
      <3> QED BY <2>1, <3>1, <3>2 DEF Holds, Alive, Keeps
    <2>7. 0 # Nothing
      BY NullAssumption
    <2>8. Given
      BY <1>3, <2>3, <2>4, <2>5, <2>7 DEF Origin, Source, Keeps, Fresh
    <2>9. ASSUME NEW q \in Object, q # a, Holds(q)' PROVE connection'[q].session # sessions + 1
      <3>1. connection'[q].session \in 1 .. sessions
        BY <1>3, <2>3, <2>9
      <3> QED BY <1>1, <3>1
    <2>10. OneHolder
      BY <1>4, <2>3, <2>5, <2>9 DEF OneHolder, SessionOf
    <2> QED BY <2>4, <2>6, <2>8, <2>10
  <1>7. ASSUME NEW a \in Object, NEW b \in Object, Moves(a, b)
        PROVE  Still /\ Given /\ OneHolder /\ sessions' = sessions
    <2>1. PICK size \in Nat : connection' = [connection EXCEPT
            ![a] = [connection[b] EXCEPT !.m_reinit_uploader = a, !.m_size = size], ![b] = MovedFrom(@)]
      BY <1>7 DEF Moves
    <2>2. a # b /\ Holds(b) /\ ~InUse(a) /\ ~InUse(b) /\ sessions' = sessions
      BY <1>7 DEF Moves
    <2>3. /\ connection'[a] = [connection[b] EXCEPT !.m_reinit_uploader = a, !.m_size = size]
          /\ connection'[b] = MovedFrom(connection[b])
          /\ \A q \in Object \ {a, b} : connection'[q] = connection[q]
      BY <1>1, <2>1, <2>2
    <2>4. connection[b] \in Connection
      BY <1>3, <2>2
    <2>5. /\ connection'[a].session = connection[b].session
          /\ connection'[a].m_sequence_num = connection[b].m_sequence_num
          /\ connection'[a].m_time_info = connection[b].m_time_info
          /\ connection'[a].m_reinit_uploader = a
      BY <2>3, <2>4 DEF Connection
    <2>6. ~Holds(b)'
      BY <2>3 DEF Holds, MovedFrom
    <2>7. \A q \in Object : Holds(q)' /\ q # a => Holds(q) /\ q # b /\ connection'[q] = connection[q]
      BY <2>3, <2>6 DEF Holds, Alive
    <2>8. Still
      BY <2>2, <2>3 DEF Holds, Alive, Keeps
    <2>9. Given
      BY <1>3, <2>2, <2>5, <2>7 DEF Origin, Source, Keeps
    <2>10. OneHolder
      BY <1>4, <2>2, <2>5, <2>7 DEF OneHolder, SessionOf
    <2> QED BY <2>2, <2>8, <2>9, <2>10
  <1>8. ASSUME NEW a \in Object, SetOutOfOrder(a)
        PROVE  Still /\ Given /\ OneHolder /\ sessions' = sessions
    <2>1. Holds(a) /\ connection[a].m_sequence_num = 0 /\ sessions' = sessions
      BY <1>8 DEF SetOutOfOrder
    <2>2. connection[a] \in Connection
      BY <1>3, <2>1
    <2>3. /\ connection'[a] = [connection[a] EXCEPT !.m_sequence_num = OutOfOrder]
          /\ \A q \in Object \ {a} : connection'[q] = connection[q]
      BY <1>1, <1>8 DEF SetOutOfOrder
    <2>4. connection'[a] \in Connection
      BY <2>2, <2>3 DEF Connection
    <2>5. /\ connection'[a].session = connection[a].session
          /\ connection'[a].m_sequence_num = OutOfOrder
          /\ connection'[a].m_time_info = connection[a].m_time_info
          /\ connection'[a].m_reinit_uploader = connection[a].m_reinit_uploader
      BY <2>2, <2>3 DEF Connection
    <2>6. \A q \in Object : Holds(q)' <=> Holds(q)
      BY <1>2, <2>1, <2>3, <2>4, <2>5 DEF Holds, Alive
    <2>7. \A q \in Object : Holds(q) => /\ Keeps(connection[q], connection'[q])
                                       /\ connection'[q].m_reinit_uploader = connection[q].m_reinit_uploader
      BY <2>1, <2>3, <2>5 DEF Keeps
    <2>8. Still
      BY <2>6, <2>7
    <2>9. Given
      BY <1>3, <2>6, <2>7 DEF Origin, Source, Keeps
    <2>10. OneHolder
      BY <1>4, <2>6, <2>7 DEF OneHolder, SessionOf, Keeps
    <2> QED BY <2>1, <2>8, <2>9, <2>10
  <1> QED BY <1>5, <1>6, <1>7, <1>8 DEF LifeStep

(* What threads have in hand stays in their hands.                         *)
LEMMA LifeInUse ==
  ASSUME TypeOK, InvOwner, InvUse, LifeStep, NEW t \in Thread, pc[t] # "idle"
  PROVE  /\ submission[t].object \in Object
         /\ Holds(submission[t].object) /\ Holds(submission[t].object)'
         /\ SessionOf(submission[t].object)' = SessionOf(submission[t].object)
  <1>1. submission[t].object \in Object /\ Holds(submission[t].object)
    BY DEF InvUse
  <1>2. InUse(submission[t].object)
    BY DEF InUse
  <1>3. \A o \in Object : InUse(o) /\ Holds(o) => Holds(o)' /\ Keeps(connection[o], connection'[o])
    BY LifeFacts
  <1>4. submission' = submission
    BY DEF LifeStep
  <1> QED BY <1>1, <1>2, <1>3, <1>4 DEF Keeps, SessionOf, Holds, Alive

LEMMA LifeUse ==
  ASSUME TypeOK, InvOwner, InvUse, LifeStep
  PROVE  InvUse'
  <1>1. pc' = pc /\ submission' = submission /\ requests' = requests
    BY DEF LifeStep
  <1> SUFFICES ASSUME NEW t \in Thread
               PROVE  /\ pc[t] # "idle" => /\ submission[t].object \in Object /\ Holds(submission[t].object)'
                                           /\ submission[t].count \in 1 .. requests
                                           /\ submission[t].mode \in {"blocking", "async"}
                      /\ pc[t] = "idle" => submission[t].count = 0
                      /\ pc[t] = "wait" => submission[t].mode = "blocking"
                      /\ \A u \in Thread :
                           pc[t] # "idle" /\ submission[t].count = submission[u].count => t = u
    BY <1>1 DEF InvUse
  <1> QED BY LifeInUse, Zenon DEF InvUse

LEMMA LifeOwner ==
  ASSUME TypeOK, InvOwner, LifeStep
  PROVE  InvOwner'
  <1>1. sessions \in Nat
    <2>1. Len(ServerSize) \in Nat
      BY ClientAssumption, LenProperties
    <2> QED BY <2>1 DEF TypeOK
  <1>2. \A p \in Object : Holds(p)' => Origin(p)
    BY LifeFacts
  <1>3. sessions' \in {sessions, sessions + 1} /\ OneHolder
    BY LifeFacts
  <1>4. ASSUME NEW p \in Object, Holds(p)' PROVE connection'[p].session \in 1 .. sessions'
    <2>1. CASE Fresh(p)
      BY <1>1, <2>1 DEF Fresh
    <2>2. ASSUME NEW o \in Object, Source(o, p) PROVE connection'[p].session \in 1 .. sessions'
      <3>1. connection[o].session \in 1 .. sessions
        BY <2>2 DEF Source, InvOwner, SessionOf
      <3> QED BY <1>1, <1>3, <2>2, <3>1 DEF Source, Keeps
    <2> QED BY <1>2, <1>4, <2>1, <2>2 DEF Origin
  <1> QED BY <1>2, <1>3, <1>4 DEF InvOwner, Origin, OneHolder, SessionOf

(* Nothing is drawn in a step of LifeStep.                                 *)
LEMMA LifeDraws ==
  ASSUME TypeOK, InvOwner, InvUse, LifeStep, NEW d \in Ticket
  PROVE  Drawn(d)' <=> Drawn(d)
  <1>1. pc' = pc /\ submission' = submission /\ calls' = calls /\ executed' = executed
    BY DEF LifeStep
  <1>2. d.thread \in Thread
    BY DEF Ticket
  <1>3. InHand(d)' <=> InHand(d)
    BY <1>1, <1>2, LifeInUse DEF InHand, SessionOf
  <1> QED BY <1>1, <1>3 DEF Drawn, AtServer, InCall

LEMMA LifeDrawn ==
  ASSUME TypeOK, InvOwner, InvUse, InvDrawn, LifeStep
  PROVE  InvDrawn'
  <1>1. pc' = pc /\ submission' = submission /\ requests' = requests
    BY DEF LifeStep
  <1>2. sessions \in Nat /\ sessions' \in {sessions, sessions + 1}
    <2>1. Len(ServerSize) \in Nat
      BY ClientAssumption, LenProperties
    <2> QED BY <2>1, LifeFacts DEF TypeOK
  <1> SUFFICES ASSUME NEW d \in Ticket, Drawn(d)'
               PROVE  /\ d.count <= requests /\ d.session <= sessions'
                      /\ pc[d.thread] = "number" => d.count < submission[d.thread].count
                      /\ \A p \in Object : Holds(p)' /\ SessionOf(p)' = d.session =>
                           /\ connection'[p].m_sequence_num # OutOfOrder
                           /\ d.number < connection'[p].m_sequence_num
    BY <1>1 DEF InvDrawn
  <1>3. Drawn(d)
    BY LifeDraws
  <1>4. /\ d.count <= requests /\ d.session <= sessions
        /\ pc[d.thread] = "number" => d.count < submission[d.thread].count
    BY <1>3 DEF InvDrawn
  <1>5. d.session \in Nat /\ d.number \in Nat /\ OutOfOrder \notin Nat
    <2>1. Session = 1 .. Len(ServerSize) /\ Len(ServerSize) \in Nat
      BY ClientAssumption, LenProperties DEF Session
    <2> QED BY <2>1, ClientAssumption DEF Ticket
  <1>6. ASSUME NEW p \in Object, Holds(p)', connection'[p].session = d.session
        PROVE  /\ connection'[p].m_sequence_num # OutOfOrder
               /\ d.number < connection'[p].m_sequence_num
    <2>1. ~Fresh(p)
      BY <1>2, <1>4, <1>5, <1>6 DEF Fresh
    <2>2. PICK o \in Object : Source(o, p)
      BY <1>6, <2>1, LifeFacts DEF Origin
    <2>3. connection[o].m_sequence_num # OutOfOrder /\ d.number < connection[o].m_sequence_num
      BY <1>3, <1>6, <2>2 DEF Source, Keeps, InvDrawn, SessionOf
    <2> QED BY <1>5, <2>2, <2>3 DEF Source, Keeps
  <1>7. d.session <= sessions'
    BY <1>2, <1>4, <1>5
  <1> QED BY <1>4, <1>6, <1>7 DEF SessionOf

LEMMA LifeCalls ==
  ASSUME TypeOK, TypeThreads, InvOwner, InvUse, InvCalls, LifeStep
  PROVE  InvCalls'
  <1>1. /\ pc' = pc /\ submission' = submission /\ requests' = requests /\ calls' = calls
    BY DEF LifeStep
  <1>2. ASSUME NEW c \in calls, NEW t \in Thread, c.count = submission[t].count
        PROVE  connection'[submission[t].object].session = connection[submission[t].object].session
    <2>1. pc[t] # "idle"
      BY <1>2 DEF InvCalls, CallGood
    <2> QED BY <1>1, <2>1, LifeInUse DEF SessionOf
  <1> QED BY <1>1, <1>2 DEF InvCalls, CallGood, SessionOf

LEMMA LifeNumbers ==
  ASSUME TypeOK, InvOwner, InvUse, InvNumbers, LifeStep
  PROVE  InvNumbers'
  <1>1. /\ pc' = pc /\ submission' = submission /\ calls' = calls
        /\ abandoned' = abandoned /\ expected' = expected
    BY DEF LifeStep
  <1>2. ASSUME NEW s, NEW n, OnItsWay(s, n) PROVE OnItsWay(s, n)'
    BY <1>1, <1>2, LifeInUse DEF OnItsWay, SessionOf
  <1>3. sessions' \in 1 .. Len(ServerSize) => expected[sessions'] \in Nat
    BY ClientAssumption, LenProperties DEF TypeOK, Session
  <1>4. ASSUME NEW s, NEW p \in Object, Holds(p)', connection'[p].session = s,
               connection'[p].m_sequence_num # OutOfOrder, \A x \in abandoned : x[1] # s,
               NEW n \in expected[s] .. connection'[p].m_sequence_num - 1
        PROVE  OnItsWay(s, n)'
    <2>1. CASE Fresh(p)
      <3>1. s \in 1 .. Len(ServerSize)
        <4>1. s \in 1 .. sessions'
          BY <1>4, LifeOwner DEF InvOwner, SessionOf
        <4>2. sessions' \in 0 .. Len(ServerSize) /\ Len(ServerSize) \in Nat
          BY LifeTyped, ClientAssumption, LenProperties
        <4> QED BY <4>1, <4>2
      <3>2. expected[s] \in Nat
        BY <1>3, <1>4, <2>1, <3>1 DEF Fresh
      <3>3. connection'[p].m_sequence_num = 0
        BY <2>1 DEF Fresh
      <3> QED BY <1>4, <3>2, <3>3
    <2>2. ASSUME NEW o \in Object, Source(o, p) PROVE OnItsWay(s, n)'
      <3>1. /\ Holds(o) /\ s = connection[o].session
            /\ connection'[p].m_sequence_num = connection[o].m_sequence_num
        BY <1>4, <2>2 DEF Source, Keeps
      <3>2. OnItsWay(s, n)
        BY <1>4, <3>1 DEF InvNumbers, SessionOf
      <3> QED BY <1>2, <3>2
    <2> QED BY <1>4, <2>1, <2>2, LifeFacts DEF Origin
  <1>5. ASSUME NEW p \in Object, Holds(p)', connection'[p].m_sequence_num # OutOfOrder,
               \A x \in abandoned : x[1] # connection'[p].session
        PROVE  \A n \in expected[SessionOf(p)'] .. connection'[p].m_sequence_num - 1 :
                 OnItsWay(SessionOf(p), n)'
    BY <1>4, <1>5 DEF SessionOf
  <1> QED BY <1>1, <1>5 DEF InvNumbers, SessionOf

----------------------------------------------------------------------------
(* The handles of the context managers. *)

TypeHandles == handles \subseteq Handle /\ m_handle \in [Manager -> Object \cup {Nothing}]
LastHandle == \A h \in handles : h.maker \in inside /\ m_handle[h.maker] = h.m_connection
HandlesOwn == TypeHandles /\ LastHandle /\ InvHandles

LEMMA DisconnectHandles ==
  ASSUME TypeOK, HandlesOwn, NEW x \in Place, Disconnect(x),
         inside' = inside \/ \E m \in Manager : x = m_handle[m] /\ inside' = inside \ {m}
  PROVE  HandlesOwn'
  <1>1. /\ handles' = {h \in handles : h.m_connection # x}
        /\ m_handle' = [m \in Manager |-> IF m_handle[m] = x THEN Nothing ELSE m_handle[m]]
        /\ connection' = Without(x)
    BY DEF Disconnect, Disconnected, NowEmpty
  <1>2. \A q \in Object : connection'[q] = IF q = x THEN Nothing ELSE connection[q]
    BY <1>1, WithoutFacts
  <1>3. TypeHandles'
    BY <1>1 DEF HandlesOwn, TypeHandles
  <1>4. \A h \in handles : h.m_connection \in Object /\ h.maker \in Manager
    BY DEF HandlesOwn, TypeHandles, Handle
  <1>5. LastHandle'
    <2> SUFFICES ASSUME NEW h \in handles, h.m_connection # x
                 PROVE  h.maker \in inside' /\ m_handle'[h.maker] = h.m_connection
      BY <1>1 DEF LastHandle
    <2>1. h.maker \in inside /\ m_handle[h.maker] = h.m_connection
      BY DEF HandlesOwn, LastHandle
    <2> QED BY <1>1, <1>4, <2>1
  <1>6. InvHandles'
    BY <1>1, <1>2, <1>4 DEF HandlesOwn, InvHandles, Alive
  <1> QED BY <1>3, <1>5, <1>6 DEF HandlesOwn

LEMMA EnterHandles ==
  ASSUME TypeOK, HandlesOwn, NEW m \in Manager, Enter(m)
  PROVE  HandlesOwn'
  <1> DEFINE x == m_handle[m]
  <1>1. x \in Place
    BY DEF HandlesOwn, TypeHandles, Place
  <1>2. PICK o \in Object :
          /\ Without(x)[o] = Nothing /\ connection' = [Without(x) EXCEPT ![o] = New(o)]
          /\ handles' = {h \in handles : h.m_connection # x} \cup {[m_connection |-> o, maker |-> m]}
          /\ m_handle' = [m_handle EXCEPT ![m] = o]
    BY DEF Enter, Disconnected
  <1>3. inside' = inside \cup {m} /\ sessions < Len(ServerSize)
    BY DEF Enter
  <1>4. \A q \in Object : Without(x)[q] = IF q = x THEN Nothing ELSE connection[q]
    BY <1>1, WithoutFacts
  <1>5. \A q \in Object : connection'[q] = IF q = o THEN New(o) ELSE Without(x)[q]
    BY <1>1, <1>2, WithoutFacts
  <1>6. New(o) # Nothing
    BY <1>3, ConnectionFacts
  <1>7. \A h \in handles : h.m_connection \in Object /\ h.maker \in Manager
    BY DEF HandlesOwn, TypeHandles, Handle
  <1> HIDE DEF x
  <1>8. TypeHandles'
    <2>1. [m_connection |-> o, maker |-> m] \in Handle
      BY DEF Handle
    <2> QED BY <1>2, <2>1 DEF HandlesOwn, TypeHandles
  <1>9. LastHandle'
    <2>1. ASSUME NEW h \in handles, h.m_connection # x
          PROVE  h.maker \in inside' /\ m_handle'[h.maker] = h.m_connection
      <3>1. h.maker \in inside /\ m_handle[h.maker] = h.m_connection
        BY DEF HandlesOwn, LastHandle
      <3>2. h.maker # m
        BY <2>1, <3>1 DEF x
      <3> QED BY <1>2, <1>3, <1>7, <3>1, <3>2 DEF HandlesOwn, TypeHandles
    <2>2. m \in inside' /\ m_handle'[m] = o
      BY <1>2, <1>3 DEF HandlesOwn, TypeHandles
    <2> QED BY <1>2, <2>1, <2>2 DEF LastHandle
  <1>10. \A h \in handles : h.m_connection # x => h.m_connection # o
    BY <1>2, <1>4, <1>7 DEF HandlesOwn, InvHandles, Alive
  <1>11. InvHandles'
    <2>1. \A h \in handles' : Alive(h.m_connection)'
      BY <1>2, <1>4, <1>5, <1>6, <1>7 DEF HandlesOwn, InvHandles, Alive
    <2>2. \A g, h \in handles' : g.m_connection = h.m_connection => g = h
      BY <1>2, <1>10 DEF HandlesOwn, InvHandles
    <2> QED BY <2>1, <2>2 DEF InvHandles
  <1> QED BY <1>8, <1>9, <1>11 DEF HandlesOwn

LEMMA ReleaseHandles ==
  ASSUME TypeOK, HandlesOwn, NEW h \in handles, Release(h)
  PROVE  HandlesOwn'
  <1>1. /\ handles' = handles \ {h} /\ connection' = connection /\ inside' = inside
        /\ m_handle' = [m \in Manager |-> IF m_handle[m] = h.m_connection THEN Nothing ELSE m_handle[m]]
    BY DEF Release, NowEmpty
  <1>2. \A g \in handles : g.maker \in Manager
    BY DEF HandlesOwn, TypeHandles, Handle
  <1>3. TypeHandles'
    BY <1>1 DEF HandlesOwn, TypeHandles
  <1>4. \A g \in handles : g # h => g.m_connection # h.m_connection
    BY DEF HandlesOwn, InvHandles
  <1>5. LastHandle'
    BY <1>1, <1>2, <1>4 DEF HandlesOwn, LastHandle
  <1>6. InvHandles'
    BY <1>1 DEF HandlesOwn, InvHandles, Alive
  <1> QED BY <1>3, <1>5, <1>6 DEF HandlesOwn

(* Steps that leave the handles alone leave their objects in place.        *)
LEMMA OtherHandles ==
  ASSUME TypeOK, HandlesOwn, UNCHANGED managed, \A h \in handles : Alive(h.m_connection)'
  PROVE  HandlesOwn'
  BY DEF HandlesOwn, TypeHandles, LastHandle, InvHandles

LEMMA UnmanagedHandles ==
  ASSUME TypeOK, HandlesOwn, NEW o \in Object, Unmanaged(o)
  PROVE  HandlesOwn'
  <1>1. ~OwnedByHandle(o)
    BY DEF Unmanaged
  <1>2. \A h \in handles : h.m_connection \in Object /\ Alive(h.m_connection) /\ h.m_connection # o
    BY <1>1 DEF HandlesOwn, TypeHandles, InvHandles, Handle, OwnedByHandle
  <1>3. connection \in [Object -> Connection \cup {Nothing}]
    BY DEF TypeOK
  <1>4. CASE Construct(o) \/ Destroy(o)
    <2>1. \A q \in Object : q # o => connection'[q] = connection[q]
      BY <1>3, <1>4 DEF Construct, Destroy
    <2> QED BY <1>2, <2>1, OtherHandles DEF Unmanaged, Alive
  <1>5. ASSUME NEW p \in Object, MoveConstruct(o, p) \/ MoveAssign(o, p), ~OwnedByHandle(p)
        PROVE  HandlesOwn'
    <2>1. \A h \in handles : h.m_connection # p
      BY <1>5 DEF OwnedByHandle
    <2>2. \A q \in Object : q # o /\ q # p => connection'[q] = connection[q]
      BY <1>3, <1>5 DEF MoveConstruct, MoveAssign
    <2> QED BY <1>2, <2>1, <2>2, OtherHandles DEF Unmanaged, Alive
  <1> QED BY <1>4, <1>5 DEF Unmanaged

----------------------------------------------------------------------------
(* Steps of threads, calls and the server. *)

CallStepOf(c) == Execute(c) \/ Refuse(c) \/ Callback(c) \/ Cancel(c) \/ Vanish(c)
QuietStep ==
  \/ SubmitStep
  \/ \E t \in Thread : Invoke(t) \/ Return(t) \/ ConnectFails(t) \/ LoseAnswer(t)
  \/ \E c \in calls : CallStepOf(c)

LEMMA WorkCases ==
  ASSUME WorkStep
  PROVE  QuietStep \/ \E t \in Thread : NextSequenceNumber(t)
  BY Zenon DEF WorkStep, QuietStep, CallStepOf

Same(c, d) ==
  /\ d.session = c.session /\ d.m_reinit_uploader = c.m_reinit_uploader
  /\ d.m_time_info # Nothing <=> c.m_time_info # Nothing
SameObjects ==
  /\ connection' \in [Object -> Connection \cup {Nothing}] /\ sessions' = sessions
  /\ \A o \in Object : Alive(o)' <=> Alive(o)
  /\ \A o \in Object : Alive(o) => Same(connection[o], connection'[o])
SameNumbers ==
  \A o \in Object : Alive(o) => connection'[o].m_sequence_num = connection[o].m_sequence_num

(* Adding up time touches nothing else.                                    *)
LEMMA AccumulateFacts ==
  ASSUME TypeOK, NEW o \in Object, NEW s, Agree(o, s), Accumulate(o), sessions' = sessions
  PROVE  /\ SameObjects /\ SameNumbers
         /\ \A q \in Object : connection'[q].m_time_info =
              IF q = o THEN connection[o].m_time_info + 1 ELSE connection[q].m_time_info
  <1>1. connection \in [Object -> Connection \cup {Nothing}] /\ Alive(o)
    BY DEF TypeOK, Agree
  <1>2. connection[o] \in Connection /\ connection[o].m_time_info \in Nat
    BY <1>1, ConnectionFacts DEF Agree, Connection
  <1>3. connection'[o] = [connection[o] EXCEPT !.m_time_info = @ + 1]
    BY <1>1, <1>2 DEF Accumulate
  <1>4. /\ connection'[o] \in Connection
        /\ connection'[o].session = connection[o].session
        /\ connection'[o].m_reinit_uploader = connection[o].m_reinit_uploader
        /\ connection'[o].m_sequence_num = connection[o].m_sequence_num
        /\ connection'[o].m_time_info = connection[o].m_time_info + 1
    BY <1>2, <1>3 DEF Connection
  <1>5. connection' \in [Object -> Connection \cup {Nothing}]
        /\ \A q \in Object : q # o => connection'[q] = connection[q]
    BY <1>1, <1>4 DEF Accumulate
  <1>6. connection[o].m_time_info + 1 # Nothing /\ connection[o].m_time_info # Nothing
    BY <1>2, NullAssumption
  <1>7. Nothing \notin Connection
    BY NullAssumption
  <1>8. \A q \in Object : Alive(q)' <=> Alive(q)
    BY <1>1, <1>2, <1>4, <1>5, <1>7 DEF Alive
  <1>9. \A q \in Object : Alive(q) => Same(connection[q], connection'[q])
    BY <1>4, <1>5, <1>6 DEF Same
  <1>10. SameNumbers
    BY <1>4, <1>5 DEF SameNumbers
  <1> QED BY <1>4, <1>5, <1>8, <1>9, <1>10 DEF SameObjects

LEMMA UnchangedFacts ==
  ASSUME TypeOK, connection' = connection, sessions' = sessions
  PROVE  SameObjects /\ SameNumbers
  BY DEF TypeOK, SameObjects, SameNumbers, Same, Alive

(* The answers that are counted belong to an object.                       *)
LEMMA AnswerHasObject ==
  ASSUME TypeOK, InvCalls, NEW c \in calls, c.state # "sent"
  PROVE  c.this \in Object /\ c.mode # "forgotten"
  BY DEF TypeOK, InvCalls, CallGood, CallType

LEMMA ReturnFacts ==
  ASSUME TypeOK, InvCalls, NEW t \in Thread, Return(t)
  PROVE  \E c \in calls :
           /\ Waits(t, c) /\ c.state \in {"executed", "stale"} /\ calls' = calls \ {c}
           /\ c.this \in Object /\ c.mode # "forgotten"
           /\ \/ c.state = "executed" /\ Agree(c.this, c.session) /\ Accumulate(c.this)
              \/ ~(c.state = "executed" /\ Agree(c.this, c.session)) /\ connection' = connection
  <1>1. PICK c \in calls :
          /\ Waits(t, c) /\ c.state \in {"executed", "stale"} /\ calls' = calls \ {c}
          /\ IF c.state = "executed" /\ Agree(c.this, c.session)
             THEN Accumulate(c.this) ELSE UNCHANGED connection
    BY DEF Return
  <1>2. c.this \in Object /\ c.mode # "forgotten"
    BY <1>1, AnswerHasObject
  <1>3. \/ c.state = "executed" /\ Agree(c.this, c.session) /\ Accumulate(c.this)
        \/ ~(c.state = "executed" /\ Agree(c.this, c.session)) /\ connection' = connection
    BY <1>1
  <1> QED BY <1>1, <1>2, <1>3

LEMMA QuietObjects ==
  ASSUME TypeOK, InvCalls, QuietStep
  PROVE  SameObjects /\ SameNumbers
  <1>1. CASE SubmitStep
    BY <1>1, UnchangedFacts DEF SubmitStep, Submit
  <1>2. ASSUME NEW t \in Thread, Invoke(t) \/ ConnectFails(t) \/ LoseAnswer(t)
        PROVE  SameObjects /\ SameNumbers
    BY <1>2, UnchangedFacts DEF Invoke, ConnectFails, LoseAnswer
  <1>3. ASSUME NEW t \in Thread, Return(t) PROVE SameObjects /\ SameNumbers
    <2>1. sessions' = sessions
      BY <1>3 DEF Return
    <2>2. PICK c \in calls :
            /\ c.this \in Object
            /\ \/ Agree(c.this, c.session) /\ Accumulate(c.this)
               \/ connection' = connection
      BY <1>3, ReturnFacts
    <2> QED BY <2>1, <2>2, AccumulateFacts, UnchangedFacts
  <1>4. ASSUME NEW c \in calls, CallStepOf(c) PROVE SameObjects /\ SameNumbers
    <2>1. CASE Callback(c)
      <3>1. c.this \in Object /\ sessions' = sessions
        BY <2>1, AnswerHasObject DEF Callback
      <3>2. \/ Agree(c.this, c.session) /\ Accumulate(c.this)
            \/ connection' = connection
        BY <2>1 DEF Callback
      <3> QED BY <3>1, <3>2, AccumulateFacts, UnchangedFacts
    <2>2. CASE Execute(c) \/ Refuse(c) \/ Cancel(c) \/ Vanish(c)
      BY <2>2, UnchangedFacts DEF Execute, Refuse, Cancel, Vanish
    <2> QED BY <1>4, <2>1, <2>2 DEF CallStepOf
  <1> QED BY <1>1, <1>2, <1>3, <1>4 DEF QuietStep

(* Drawing a number counts its object up.                                  *)
LEMMA NextObjects ==
  ASSUME TypeOK, TypeThreads, InvUse, NEW t \in Thread, NextSequenceNumber(t)
  PROVE  LET o == submission[t].object
         IN /\ o \in Object /\ Holds(o) /\ SameObjects
            /\ connection[o].m_sequence_num \in Nat \cup {OutOfOrder}
            /\ connection'[o].m_sequence_num = Successor(connection[o].m_sequence_num)
            /\ \A q \in Object : q # o => connection'[q] = connection[q]
            /\ connection'[o].m_time_info = connection[o].m_time_info
  <1> DEFINE o == submission[t].object
  <1>1. o \in Object /\ Holds(o)
    BY DEF NextSequenceNumber, InvUse
  <1>2. connection \in [Object -> Connection \cup {Nothing}] /\ connection[o] \in Connection
    BY <1>1, ConnectionFacts DEF TypeOK, Holds
  <1> HIDE DEF o
  <1>3. connection' = [connection EXCEPT ![o].m_sequence_num = Successor(@)] /\ sessions' = sessions
    BY DEF NextSequenceNumber, o
  <1>4. connection[o].m_sequence_num \in Nat \cup {OutOfOrder}
    BY <1>2 DEF Connection
  <1>5. Successor(connection[o].m_sequence_num) \in Nat \cup {OutOfOrder}
    BY <1>4 DEF Successor
  <1>6. connection'[o] = [connection[o] EXCEPT !.m_sequence_num = Successor(connection[o].m_sequence_num)]
        /\ \A q \in Object : q # o => connection'[q] = connection[q]
    BY <1>1, <1>2, <1>3
  <1>7. /\ connection'[o] \in Connection
        /\ connection'[o].session = connection[o].session
        /\ connection'[o].m_reinit_uploader = connection[o].m_reinit_uploader
        /\ connection'[o].m_sequence_num = Successor(connection[o].m_sequence_num)
        /\ connection'[o].m_time_info = connection[o].m_time_info
    BY <1>2, <1>5, <1>6 DEF Connection
  <1>8. connection' \in [Object -> Connection \cup {Nothing}]
    BY <1>2, <1>3, <1>7
  <1>9. Nothing \notin Connection
    BY NullAssumption
  <1>10. SameObjects
    BY <1>2, <1>3, <1>6, <1>7, <1>8, <1>9 DEF SameObjects, Same, Alive
  <1> QED BY <1>1, <1>4, <1>6, <1>7, <1>10 DEF o

(* So the objects stay whose they are.                                     *)
LEMMA WorkObjects ==
  ASSUME TypeOK, TypeThreads, InvOwner, InvUse, InvCalls, WorkStep
  PROVE  /\ SameObjects /\ InvOwner'
         /\ \A o \in Object : Holds(o)' <=> Holds(o)
         /\ \A o \in Object : Holds(o) => connection'[o].session = connection[o].session
  <1>1. SameObjects
    BY WorkCases, QuietObjects, NextObjects
  <1>2. \A o \in Object : Holds(o)' <=> Holds(o)
    BY <1>1 DEF SameObjects, Same, Holds
  <1>3. \A o \in Object : Holds(o) => connection'[o].session = connection[o].session
    BY <1>1 DEF SameObjects, Same, Holds
  <1>4. InvOwner'
    BY <1>1, <1>2, <1>3 DEF InvOwner, SameObjects, Same, SessionOf, Holds
  <1> QED BY <1>1, <1>2, <1>3, <1>4

LEMMA HandlesStep ==
  ASSUME TypeOK, TypeThreads, InvOwner, InvUse, InvCalls, HandlesOwn, Next
  PROVE  HandlesOwn'
  <1>1. ASSUME NEW m \in Manager, Enter(m) \/ EnterFails(m) \/ Exit(m) PROVE HandlesOwn'
    <2>1. m_handle[m] \in Place
      BY DEF HandlesOwn, TypeHandles, Place
    <2> QED BY <1>1, <2>1, EnterHandles, DisconnectHandles DEF EnterFails, Exit
  <1>2. ASSUME NEW h \in handles, Drop(h) \/ Release(h) PROVE HandlesOwn'
    <2>1. h.m_connection \in Place
      BY DEF HandlesOwn, TypeHandles, Handle, Place
    <2> QED BY <1>2, <2>1, ReleaseHandles, DisconnectHandles DEF Drop
  <1>3. \A h \in handles : h.m_connection \in Object /\ Alive(h.m_connection)
    BY DEF HandlesOwn, TypeHandles, InvHandles, Handle
  <1>4. ASSUME NEW o \in Object, SetOutOfOrder(o) PROVE \A q \in Object : Alive(q) => Alive(q)'
    <2>1. [connection[o] EXCEPT !.m_sequence_num = OutOfOrder] \in Connection
      BY <1>4, ConnectionFacts DEF SetOutOfOrder, Holds, Connection
    <2>2. [connection[o] EXCEPT !.m_sequence_num = OutOfOrder] # Nothing
      BY <2>1, NullAssumption
    <2> QED BY <1>4, <2>2 DEF SetOutOfOrder, Alive, TypeOK
  <1>5. ASSUME WorkStep PROVE HandlesOwn'
    <2>1. SameObjects
      BY <1>5, WorkObjects
    <2> QED BY <1>3, <1>5, <2>1, OtherHandles DEF SameObjects, WorkStep
  <1>6. ASSUME NEW o \in Object, Use(o) PROVE HandlesOwn'
    <2>1. CASE SetOutOfOrder(o)
      BY <1>3, <1>4, <1>6, <2>1, OtherHandles DEF Use
    <2>2. CASE ~SetOutOfOrder(o)
      BY <1>5, <1>6, <2>2 DEF Use, WorkStep, SubmitStep
    <2> QED BY <2>1, <2>2
  <1>7. ASSUME NEW t \in Thread, ThreadStep(t) PROVE WorkStep
    BY <1>7, Zenon DEF ThreadStep, WorkStep
  <1>8. ASSUME NEW c \in calls, CallStep(c) PROVE WorkStep
    BY <1>8, Zenon DEF CallStep, WorkStep
  <1>9. ASSUME NEW o \in Object, Unmanaged(o) PROVE HandlesOwn'
    BY <1>9, UnmanagedHandles
  <1> QED BY <1>1, <1>2, <1>5, <1>6, <1>7, <1>8, <1>9 DEF Next

----------------------------------------------------------------------------
(* What a thread has in hand. *)
LEMMA InHandFacts ==
  ASSUME TypeOK, TypeThreads, InvOwner, InvUse, NEW t \in Thread, pc[t] # "idle"
  PROVE  /\ submission[t] \in Submission /\ submission[t].object \in Object
         /\ Holds(submission[t].object)
         /\ SessionOf(submission[t].object) \in Session
         /\ submission[t].count \in 1 .. MaxRequests /\ submission[t].count <= requests
         /\ submission[t].number \in Nat \cup {OutOfOrder}
         /\ submission[t].attempts \in 0 .. Attempts - 1
         /\ submission[t].mode \in {"blocking", "async"}
  <1>1. /\ submission[t] \in Submission /\ submission[t].object \in Object
        /\ Holds(submission[t].object) /\ submission[t].count \in 1 .. requests
        /\ submission[t].mode \in {"blocking", "async"}
    BY DEF InvUse, TypeThreads
  <1>2. sessions \in 0 .. Len(ServerSize) /\ Len(ServerSize) \in Nat /\ Session = 1 .. Len(ServerSize)
    BY ClientAssumption, LenProperties DEF TypeOK, Session
  <1>3. SessionOf(submission[t].object) \in 1 .. sessions
    BY <1>1 DEF InvOwner
  <1>4. SessionOf(submission[t].object) \in Session
    BY <1>2, <1>3
  <1>5. submission[t].count \in 1 .. MaxRequests /\ submission[t].count <= requests
    <2>1. requests \in 0 .. MaxRequests /\ MaxRequests \in Nat
      BY ClientAssumption DEF TypeThreads
    <2> QED BY <1>1, <2>1
  <1> QED BY <1>1, <1>4, <1>5 DEF Submission

(* What the steps do to the thread that takes them.                        *)
Left(t) ==
  /\ pc'[t] = "idle" /\ submission'[t].count = 0
Again(t) ==
  /\ pc'[t] = "connect" /\ submission[t].attempts + 1 < Attempts
  /\ submission'[t] = [submission[t] EXCEPT !.attempts = submission[t].attempts + 1]
Others(t) == \A u \in Thread : u # t => pc'[u] = pc[u] /\ submission'[u] = submission[u]
ThreadsTyped ==
  /\ pc' \in [Thread -> {"idle", "number", "connect", "wait"}]
  /\ submission' \in [Thread -> Submission]

LEMMA LeaveFacts ==
  ASSUME TypeOK, TypeThreads, NEW t \in Thread, Leave(t)
  PROVE  Left(t) /\ Others(t) /\ ThreadsTyped
  <1>1. Idle \in Submission
    BY ClientAssumption DEF Idle, Submission
  <1>2. pc' = [pc EXCEPT ![t] = "idle"] /\ submission' = [submission EXCEPT ![t] = Idle]
    BY DEF Leave
  <1>3. /\ pc \in [Thread -> {"idle", "number", "connect", "wait"}]
        /\ submission \in [Thread -> Submission]
    BY DEF TypeOK, TypeThreads
  <1>4. ThreadsTyped
    BY <1>1, <1>2, <1>3 DEF ThreadsTyped
  <1>5. Others(t)
    BY <1>2, <1>3 DEF Others
  <1>6. Left(t)
    BY <1>2, <1>3 DEF Left, Idle
  <1> QED BY <1>4, <1>5, <1>6

LEMMA RetryFacts ==
  ASSUME TypeOK, TypeThreads, InvOwner, InvUse, NEW t \in Thread, pc[t] # "idle", Retry(t)
  PROVE  /\ Others(t) /\ ThreadsTyped
         /\ \/ Again(t) /\ abandoned' = abandoned
            \/ /\ Left(t)
               /\ abandoned' = abandoned \cup {<<SessionOf(submission[t].object), submission[t].count>>}
         /\ abandoned' \subseteq Session \X (1 .. MaxRequests)
  <1>1. /\ pc \in [Thread -> {"idle", "number", "connect", "wait"}]
        /\ submission \in [Thread -> Submission]
        /\ abandoned \subseteq Session \X (1 .. MaxRequests)
    BY DEF TypeOK, TypeThreads
  <1>2. /\ submission[t] \in Submission /\ submission[t].attempts \in 0 .. Attempts - 1
        /\ SessionOf(submission[t].object) \in Session /\ submission[t].count \in 1 .. MaxRequests
    BY InHandFacts
  <1>3. CASE /\ submission[t].attempts + 1 < Attempts
             /\ submission' = [submission EXCEPT ![t].attempts = @ + 1]
             /\ pc' = [pc EXCEPT ![t] = "connect"]
             /\ UNCHANGED abandoned
    <2>1. submission'[t] = [submission[t] EXCEPT !.attempts = submission[t].attempts + 1]
      BY <1>1, <1>3
    <2>2. submission[t].attempts + 1 \in 0 .. Attempts - 1
      BY <1>2, <1>3, ClientAssumption
    <2>3. submission'[t] \in Submission
      BY <1>2, <2>1, <2>2 DEF Submission
    <2>4. \A u \in Thread : u # t => pc'[u] = pc[u] /\ submission'[u] = submission[u]
      BY <1>1, <1>3
    <2>5. ThreadsTyped
      BY <1>1, <1>3, <2>3 DEF ThreadsTyped
    <2> QED BY <1>1, <1>3, <2>1, <2>4, <2>5 DEF Again, Others
  <1>4. CASE Leave(t) /\ abandoned' = abandoned \cup {<<SessionOf(submission[t].object), submission[t].count>>}
    BY <1>1, <1>2, <1>4, LeaveFacts
  <1> QED BY <1>3, <1>4 DEF Retry

LEMMA SubmitFacts ==
  ASSUME TypeOK, TypeThreads, NEW t \in Thread, NEW o \in Object, NEW mode \in {"blocking", "async"},
         Submit(t, o, mode)
  PROVE  /\ pc[t] = "idle" /\ Holds(o) /\ requests' = requests + 1 /\ requests' \in 1 .. MaxRequests
         /\ pc'[t] = "number" /\ Others(t) /\ ThreadsTyped
         /\ submission'[t].object = o /\ submission'[t].mode = mode
         /\ submission'[t].count = requests + 1
  <1> DEFINE new == [object |-> o, mode |-> mode, count |-> requests + 1, number |-> 0, attempts |-> 0]
  <1>1. /\ pc \in [Thread -> {"idle", "number", "connect", "wait"}]
        /\ submission \in [Thread -> Submission]
    BY DEF TypeOK, TypeThreads
  <1>2. /\ pc[t] = "idle" /\ Holds(o) /\ requests < MaxRequests /\ requests' = requests + 1
        /\ pc' = [pc EXCEPT ![t] = "number"]
        /\ submission' = [submission EXCEPT ![t] = new]
    BY DEF Submit
  <1>3. requests' \in 1 .. MaxRequests
    BY <1>2, ClientAssumption DEF TypeThreads
  <1>4. new \in Submission
    BY <1>2, <1>3, ClientAssumption DEF Submission
  <1>5. ThreadsTyped
    BY <1>1, <1>2, <1>4 DEF ThreadsTyped
  <1>6. submission'[t] = new
    BY <1>1, <1>2
  <1>7. Others(t) /\ pc'[t] = "number"
    BY <1>1, <1>2 DEF Others
  <1> QED BY <1>2, <1>3, <1>5, <1>6, <1>7

LEMMA NextFacts ==
  ASSUME TypeOK, TypeThreads, InvOwner, InvUse, NEW t \in Thread, NextSequenceNumber(t)
  PROVE  /\ pc[t] = "number" /\ pc'[t] = "connect" /\ Others(t) /\ ThreadsTyped
         /\ submission'[t] = [submission[t] EXCEPT
              !.number = connection[submission[t].object].m_sequence_num]
  <1>1. /\ pc \in [Thread -> {"idle", "number", "connect", "wait"}]
        /\ submission \in [Thread -> Submission]
    BY DEF TypeOK, TypeThreads
  <1>2. /\ pc[t] = "number" /\ pc' = [pc EXCEPT ![t] = "connect"]
        /\ submission' = [submission EXCEPT
             ![t].number = connection[submission[t].object].m_sequence_num]
    BY DEF NextSequenceNumber
  <1>3. submission'[t] = [submission[t] EXCEPT !.number = connection[submission[t].object].m_sequence_num]
    BY <1>1, <1>2
  <1>4. connection[submission[t].object].m_sequence_num \in Nat \cup {OutOfOrder}
    BY NextObjects
  <1>5. submission'[t] \in Submission
    BY <1>1, <1>3, <1>4 DEF Submission
  <1>6. ThreadsTyped
    BY <1>1, <1>2, <1>5 DEF ThreadsTyped
  <1>7. Others(t) /\ pc'[t] = "connect"
    BY <1>1, <1>2 DEF Others
  <1> QED BY <1>2, <1>3, <1>6, <1>7

LEMMA InvokeFacts ==
  ASSUME TypeOK, TypeThreads, InvOwner, InvUse, NEW t \in Thread, Invoke(t)
  PROVE  /\ pc[t] = "connect" /\ Others(t) /\ ThreadsTyped
         /\ calls' = calls \cup {CallOf(t)} /\ CallOf(t) \in CallType
         /\ \/ submission[t].mode = "async" /\ Left(t)
            \/ submission[t].mode = "blocking" /\ pc'[t] = "wait" /\ submission'[t] = submission[t]
  <1>1. /\ pc \in [Thread -> {"idle", "number", "connect", "wait"}]
        /\ submission \in [Thread -> Submission]
    BY DEF TypeOK, TypeThreads
  <1>2. pc[t] = "connect" /\ calls' = calls \cup {CallOf(t)}
    BY DEF Invoke
  <1>3. CallOf(t) \in CallType
    BY <1>2, InHandFacts DEF CallOf, CallType
  <1>4. CASE submission[t].mode = "async"
    BY <1>2, <1>3, <1>4, LeaveFacts DEF Invoke
  <1>5. CASE submission[t].mode # "async"
    <2>1. pc' = [pc EXCEPT ![t] = "wait"] /\ submission' = submission
      BY <1>5 DEF Invoke
    <2>2. submission[t].mode = "blocking"
      BY <1>2, <1>5, InHandFacts
    <2>3. Others(t) /\ ThreadsTyped /\ pc'[t] = "wait"
      BY <1>1, <2>1 DEF Others, ThreadsTyped
    <2> QED BY <1>2, <1>3, <2>1, <2>2, <2>3
  <1> QED BY <1>4, <1>5

(* What becomes of a call: its thread, program, session and number stay.   *)
Descends(e, c) ==
  /\ e.thread = c.thread /\ e.count = c.count /\ e.attempt = c.attempt
  /\ e.session = c.session /\ e.number = c.number
Forgotten(c) == [c EXCEPT !.mode = "forgotten", !.this = Nothing]
InState(c, state) == [c EXCEPT !.state = state]

LEMMA CallForms ==
  ASSUME NEW c \in CallType, NEW state \in {"sent", "executed", "stale"}
  PROVE  /\ Forgotten(c) \in CallType /\ Descends(Forgotten(c), c) /\ Forgotten(c).state = c.state
         /\ Forgotten(c).mode = "forgotten" /\ Forgotten(c).this = Nothing
         /\ InState(c, state) \in CallType /\ Descends(InState(c, state), c)
         /\ InState(c, state).mode = c.mode /\ InState(c, state).this = c.this
         /\ InState(c, state).state = state
  <1>1. c = [thread |-> c.thread, count |-> c.count, attempt |-> c.attempt, mode |-> c.mode,
             session |-> c.session, number |-> c.number, this |-> c.this, state |-> c.state]
    BY DEF CallType
  <1> QED BY <1>1 DEF CallType, Forgotten, InState, Descends

(* Steps that take call c and may put e in its place.                      *)
Gone(c) == calls' = calls \ {c}
Becomes(c, e) == calls' = (calls \ {c}) \cup {e}

LEMMA ForgetFacts ==
  ASSUME NEW c \in calls, Forget(c)
  PROVE  \/ c.state # "sent" /\ Gone(c)
         \/ c.state = "sent" /\ Becomes(c, Forgotten(c))
  <1>1. CASE c.state = "sent"
    <2>1. calls' = (calls \ {c}) \cup {[c EXCEPT !.mode = "forgotten", !.this = Nothing]}
      BY <1>1 DEF Forget
    <2> QED BY <1>1, <2>1 DEF Becomes, Forgotten
  <1>2. CASE c.state # "sent"
    BY <1>2 DEF Forget, Gone
  <1> QED BY <1>1, <1>2

(* The effects of the server's steps, and of those of futures.             *)
LEMMA CallStepCases ==
  ASSUME TypeOK, NEW c \in calls, CallStepOf(c)
  PROVE  /\ UNCHANGED <<pc, submission, requests>> /\ c \in CallType
         /\ \/ Execute(c)
            \/ /\ UNCHANGED <<expected, executed>>
               /\ \/ /\ UNCHANGED abandoned /\ Gone(c)
                     /\ \/ Refuse(c) /\ c.mode # "blocking"
                        \/ Callback(c) \/ Vanish(c)
                  \/ /\ UNCHANGED abandoned /\ Becomes(c, InState(c, "stale"))
                     /\ Refuse(c) /\ c.mode = "blocking"
                  \/ Cancel(c)
  <1>1. c \in CallType /\ c.mode \in {"blocking", "async", "forgotten"}
    BY DEF TypeOK, CallType
  <1>2. CASE Execute(c)
    BY <1>1, <1>2 DEF Execute
  <1>3. CASE Refuse(c)
    BY <1>1, <1>3 DEF Refuse, Replace, Gone, Becomes, InState
  <1>4. CASE Callback(c)
    BY <1>1, <1>4 DEF Callback, Gone
  <1>5. CASE Cancel(c)
    BY <1>1, <1>5 DEF Cancel
  <1>6. CASE Vanish(c)
    BY <1>1, <1>6 DEF Vanish, Gone
  <1> QED BY <1>2, <1>3, <1>4, <1>5, <1>6 DEF CallStepOf

LEMMA ExecuteFacts ==
  ASSUME TypeOK, TypeThreads, NEW c \in calls, Execute(c)
  PROVE  /\ c.state = "sent" /\ c.session \in Session /\ Program(c) \in Entry
         /\ \/ c.number = OutOfOrder /\ expected' = expected
            \/ /\ c.number = expected[c.session] /\ c.number \in Nat
               /\ expected'[c.session] = expected[c.session] + 1
               /\ \A s \in Session : s # c.session => expected'[s] = expected[s]
         /\ executed'[c.session] = Append(executed[c.session], Program(c))
         /\ \A s \in Session : s # c.session => executed'[s] = executed[s]
         /\ expected' \in [Session -> Nat] /\ executed' \in [Session -> Seq(Entry)]
         /\ abandoned' = abandoned /\ UNCHANGED <<pc, submission, requests>>
         /\ \/ c.mode = "forgotten" /\ Gone(c)
            \/ c.mode # "forgotten" /\ Becomes(c, InState(c, "executed"))
  <1>1. c \in CallType /\ expected \in [Session -> Nat] /\ executed \in [Session -> Seq(Entry)]
    BY DEF TypeOK, TypeThreads
  <1>2. /\ c.session \in Session /\ c.number \in Nat \cup {OutOfOrder}
        /\ c.thread \in Thread /\ c.count \in 1 .. MaxRequests
    BY <1>1 DEF CallType
  <1>3. Program(c) \in Entry
    BY <1>2 DEF Program, Entry
  <1>4. /\ c.state = "sent" /\ c.number \in {expected[c.session], OutOfOrder}
        /\ expected' = [expected EXCEPT ![c.session] = IF c.number = OutOfOrder THEN @ ELSE @ + 1]
        /\ executed' = [executed EXCEPT ![c.session] = Append(@, Program(c))]
        /\ abandoned' = abandoned /\ UNCHANGED <<pc, submission, requests>>
    BY DEF Execute
  <1>5. /\ expected' \in [Session -> Nat]
        /\ \/ c.number = OutOfOrder /\ expected' = expected
           \/ /\ c.number = expected[c.session] /\ c.number \in Nat
              /\ expected'[c.session] = expected[c.session] + 1
              /\ \A s \in Session : s # c.session => expected'[s] = expected[s]
    BY <1>1, <1>2, <1>4
  <1>6. Append(executed[c.session], Program(c)) \in Seq(Entry)
    BY <1>1, <1>2, <1>3
  <1>7. /\ executed'[c.session] = Append(executed[c.session], Program(c))
        /\ \A s \in Session : s # c.session => executed'[s] = executed[s]
        /\ executed' \in [Session -> Seq(Entry)]
    BY <1>1, <1>2, <1>4, <1>6
  <1>8. \/ c.mode = "forgotten" /\ Gone(c)
        \/ c.mode # "forgotten" /\ Becomes(c, InState(c, "executed"))
    BY DEF Execute, Replace, Gone, Becomes, InState
  <1> QED BY <1>2, <1>3, <1>4, <1>5, <1>7, <1>8

LEMMA CancelFacts ==
  ASSUME TypeOK, TypeThreads, NEW c \in calls, Cancel(c)
  PROVE  /\ c.mode = "async" /\ c.state \in {"sent", "executed"}
         /\ abandoned' = abandoned \cup {<<c.session, c.count>>}
         /\ abandoned' \subseteq Session \X (1 .. MaxRequests)
         /\ \/ c.state # "sent" /\ Gone(c)
            \/ c.state = "sent" /\ Becomes(c, Forgotten(c))
  <1>1. c.session \in Session /\ c.count \in 1 .. MaxRequests
    BY DEF TypeOK, CallType
  <1>2. abandoned \subseteq Session \X (1 .. MaxRequests)
    BY DEF TypeThreads
  <1>3. /\ c.mode = "async" /\ c.state \in {"sent", "executed"}
        /\ abandoned' = abandoned \cup {<<c.session, c.count>>}
    BY DEF Cancel, IsFuture
  <1>4. Forget(c)
    BY DEF Cancel
  <1> QED BY <1>1, <1>2, <1>3, <1>4, ForgetFacts

LEMMA LoseFacts ==
  ASSUME TypeOK, NEW t \in Thread, LoseAnswer(t)
  PROVE  /\ pc[t] = "wait" /\ Retry(t)
         /\ UNCHANGED <<requests, expected, executed>>
         /\ \E c \in calls :
              /\ Waits(t, c)
              /\ \/ c.state # "sent" /\ Gone(c)
                 \/ c.state = "sent" /\ Becomes(c, Forgotten(c))
  <1>1. PICK c \in calls : Waits(t, c) /\ Forget(c)
    BY DEF LoseAnswer
  <1>2. pc[t] = "wait"
    BY <1>1 DEF Waits
  <1> QED BY <1>1, <1>2, ForgetFacts DEF LoseAnswer

LEMMA TakeTyped ==
  ASSUME TypeOK, NEW c \in calls, Gone(c) \/ \E e \in CallType : Becomes(c, e)
  PROVE  calls' \subseteq CallType
  BY DEF TypeOK, Gone, Becomes

(* The types in the steps of threads, calls and the server.                *)
WorkTyped ==
  /\ ThreadsTyped /\ requests' \in 0 .. MaxRequests /\ calls' \subseteq CallType
  /\ expected' \in [Session -> Nat] /\ executed' \in [Session -> Seq(Entry)]
  /\ abandoned' \subseteq Session \X (1 .. MaxRequests)
LEMMA WorkTypes ==
  ASSUME TypeOK, TypeThreads, InvOwner, InvUse, InvCalls, WorkStep
  PROVE  WorkTyped
  <1>1. /\ requests \in 0 .. MaxRequests /\ calls \subseteq CallType
        /\ expected \in [Session -> Nat] /\ executed \in [Session -> Seq(Entry)]
        /\ abandoned \subseteq Session \X (1 .. MaxRequests)
        /\ pc \in [Thread -> {"idle", "number", "connect", "wait"}]
        /\ submission \in [Thread -> Submission]
    BY DEF TypeOK, TypeThreads
  <1>2. ASSUME NEW t \in Thread, NEW o \in Object, NEW mode \in {"blocking", "async"}, Submit(t, o, mode)
        PROVE  WorkTyped
    <2>1. UNCHANGED <<calls, expected, executed, abandoned>>
      BY <1>2 DEF Submit
    <2>2. ThreadsTyped /\ requests' \in 1 .. MaxRequests
      BY <1>2, SubmitFacts
    <2>3. requests' \in 0 .. MaxRequests
      BY <2>2
    <2> QED BY <1>1, <2>1, <2>2, <2>3 DEF WorkTyped
  <1>3. ASSUME NEW t \in Thread, NextSequenceNumber(t) PROVE WorkTyped
    <2>1. UNCHANGED <<requests, calls, expected, executed, abandoned>>
      BY <1>3 DEF NextSequenceNumber
    <2> QED BY <1>1, <1>3, <2>1, NextFacts DEF WorkTyped
  <1>4. ASSUME NEW t \in Thread, Invoke(t) PROVE WorkTyped
    <2>1. UNCHANGED <<requests, expected, executed, abandoned>>
      BY <1>4 DEF Invoke
    <2>2. ThreadsTyped /\ calls' = calls \cup {CallOf(t)} /\ CallOf(t) \in CallType
      BY <1>4, InvokeFacts
    <2> QED BY <1>1, <2>1, <2>2 DEF WorkTyped
  <1>5. ASSUME NEW t \in Thread, Return(t) PROVE WorkTyped
    <2>1. UNCHANGED <<requests, expected, executed, abandoned>> /\ Leave(t)
      BY <1>5 DEF Return
    <2>2. calls' \subseteq CallType
      BY <1>1, <1>5 DEF Return
    <2> QED BY <1>1, <2>1, <2>2, LeaveFacts DEF WorkTyped
  <1>6. ASSUME NEW t \in Thread, ConnectFails(t) PROVE WorkTyped
    <2>1. UNCHANGED <<requests, calls, expected, executed>> /\ Retry(t) /\ pc[t] # "idle"
      BY <1>6 DEF ConnectFails
    <2> QED BY <1>1, <2>1, RetryFacts DEF WorkTyped
  <1>7. ASSUME NEW t \in Thread, LoseAnswer(t) PROVE WorkTyped
    <2>1. UNCHANGED <<requests, expected, executed>> /\ Retry(t) /\ pc[t] # "idle"
      BY <1>7, LoseFacts
    <2>2. PICK c \in calls : Gone(c) \/ Becomes(c, Forgotten(c))
      BY <1>7, LoseFacts
    <2>3. Forgotten(c) \in CallType
      BY <1>1, CallForms
    <2>4. calls' \subseteq CallType
      BY <2>2, <2>3, TakeTyped
    <2> QED BY <1>1, <2>1, <2>4, RetryFacts DEF WorkTyped
  <1>8. ASSUME NEW c \in calls, CallStepOf(c) PROVE WorkTyped
    <2>1. c \in CallType /\ UNCHANGED <<pc, submission, requests>>
      BY <1>8, CallStepCases
    <2>2. ThreadsTyped /\ requests' \in 0 .. MaxRequests
      BY <1>1, <2>1 DEF ThreadsTyped
    <2>3. Forgotten(c) \in CallType /\ InState(c, "stale") \in CallType /\ InState(c, "executed") \in CallType
      BY <2>1, CallForms
    <2>4. CASE Execute(c)
      <3>1. Gone(c) \/ Becomes(c, InState(c, "executed"))
        BY <2>4, ExecuteFacts
      <3>2. calls' \subseteq CallType
        BY <2>3, <3>1, TakeTyped
      <3> QED BY <1>1, <2>2, <2>4, <3>2, ExecuteFacts DEF WorkTyped
    <2>5. CASE Cancel(c)
      <3>1. Gone(c) \/ Becomes(c, Forgotten(c))
        BY <2>5, CancelFacts
      <3>2. calls' \subseteq CallType
        BY <2>3, <3>1, TakeTyped
      <3>3. expected' = expected /\ executed' = executed
        BY <2>5 DEF Cancel
      <3> QED BY <1>1, <2>2, <2>5, <3>2, <3>3, CancelFacts DEF WorkTyped
    <2>6. CASE ~Execute(c) /\ ~Cancel(c)
      <3>1. /\ UNCHANGED <<expected, executed, abandoned>>
            /\ Gone(c) \/ Becomes(c, InState(c, "stale"))
        BY <1>8, <2>6, CallStepCases
      <3>2. calls' \subseteq CallType
        BY <2>3, <3>1, TakeTyped
      <3> QED BY <1>1, <2>2, <3>1, <3>2 DEF WorkTyped
    <2> QED BY <2>4, <2>5, <2>6
  <1> QED BY <1>2, <1>3, <1>4, <1>5, <1>6, <1>7, <1>8 DEF WorkStep, SubmitStep, CallStepOf

----------------------------------------------------------------------------
(* Numbers are drawn by NextSequenceNumber, and nowhere else. *)

(* What a thread has in hand it had before; it submits something new       *)
(* before it draws a number.                                               *)
SteadyAt(u) ==
  /\ pc'[u] \in {"connect", "wait"} =>
       /\ pc[u] \in {"connect", "wait"} /\ submission'[u].object = submission[u].object
       /\ submission'[u].number = submission[u].number /\ submission'[u].count = submission[u].count
  /\ pc'[u] = "number" =>
       \/ pc[u] = "number" /\ submission'[u] = submission[u]
       \/ submission'[u].count = requests + 1
Steady ==
  /\ \A u \in Thread : SteadyAt(u)
  /\ requests' \in {requests, requests + 1}

LEMMA RetrySteady ==
  ASSUME TypeOK, TypeThreads, InvOwner, InvUse, NEW t \in Thread,
         pc[t] \in {"connect", "wait"}, Retry(t)
  PROVE  /\ Others(t) /\ SteadyAt(t)
         /\ pc'[t] = "idle" \/ submission'[t].count = submission[t].count
  <1>1. /\ submission[t] \in Submission /\ Others(t)
        /\ Left(t) \/ Again(t)
    BY InHandFacts, RetryFacts
  <1>2. CASE Left(t)
    BY <1>1, <1>2 DEF SteadyAt, Left
  <1>3. CASE Again(t)
    BY <1>1, <1>3 DEF SteadyAt, Again, Submission
  <1> QED BY <1>1, <1>2, <1>3

LEMMA QuietThreads ==
  ASSUME TypeOK, TypeThreads, InvOwner, InvUse, QuietStep
  PROVE  Steady
  <1>1. ASSUME NEW u \in Thread, pc'[u] = pc[u], submission'[u] = submission[u] PROVE SteadyAt(u)
    BY <1>1 DEF SteadyAt
  <1>2. ASSUME NEW t \in Thread, Others(t), SteadyAt(t), requests' \in {requests, requests + 1} PROVE Steady
    BY <1>1, <1>2 DEF Steady, Others
  <1>3. ASSUME NEW t \in Thread, NEW o \in Object, NEW mode \in {"blocking", "async"}, Submit(t, o, mode)
        PROVE  Steady
    <2>1. SteadyAt(t)
      BY <1>3, SubmitFacts DEF SteadyAt
    <2> QED BY <1>2, <1>3, <2>1, SubmitFacts
  <1>4. ASSUME NEW t \in Thread, Invoke(t) PROVE Steady
    <2>1. SteadyAt(t)
      BY <1>4, InvokeFacts DEF SteadyAt, Left
    <2>2. requests' = requests
      BY <1>4 DEF Invoke
    <2> QED BY <1>2, <1>4, <2>1, <2>2, InvokeFacts
  <1>5. ASSUME NEW t \in Thread, Return(t) PROVE Steady
    <2>1. Leave(t) /\ requests' = requests
      BY <1>5 DEF Return
    <2>2. Left(t) /\ Others(t)
      BY <2>1, LeaveFacts
    <2> QED BY <1>2, <2>1, <2>2 DEF SteadyAt, Left
  <1>6. ASSUME NEW t \in Thread, ConnectFails(t) PROVE Steady
    <2>1. Retry(t) /\ requests' = requests /\ pc[t] = "connect"
      BY <1>6 DEF ConnectFails
    <2> QED BY <1>2, <2>1, RetrySteady
  <1>7. ASSUME NEW t \in Thread, LoseAnswer(t) PROVE Steady
    <2>1. Retry(t) /\ requests' = requests /\ pc[t] = "wait"
      BY <1>7, LoseFacts
    <2> QED BY <1>2, <2>1, RetrySteady
  <1>8. ASSUME NEW c \in calls, CallStepOf(c) PROVE Steady
    BY <1>1, <1>8, CallStepCases DEF Steady
  <1> QED BY <1>3, <1>4, <1>5, <1>6, <1>7, <1>8 DEF QuietStep, SubmitStep

(* Every call was there before, or is made for what its thread has in      *)
(* hand.                                                                   *)
CallsDescend ==
  \A e \in calls' : \/ \E c \in calls : Descends(e, c)
                    \/ \E t \in Thread : pc[t] = "connect" /\ e = CallOf(t)

LEMMA TakeDescends ==
  ASSUME TypeOK, NEW c \in calls, NEW e,
         Gone(c) \/ (Becomes(c, e) /\ Descends(e, c))
  PROVE  CallsDescend
  <1>1. \A x \in calls : Descends(x, x)
    BY DEF Descends
  <1> QED BY <1>1 DEF CallsDescend, Gone, Becomes

LEMMA QuietCalls ==
  ASSUME TypeOK, TypeThreads, InvOwner, InvUse, InvCalls, QuietStep
  PROVE  CallsDescend
  <1>1. \A x \in calls : Descends(x, x)
    BY DEF Descends
  <1>2. ASSUME calls' = calls PROVE CallsDescend
    BY <1>1, <1>2 DEF CallsDescend
  <1>3. ASSUME NEW t \in Thread, Invoke(t) PROVE CallsDescend
    BY <1>1, <1>3 DEF CallsDescend, Invoke
  <1>4. ASSUME NEW t \in Thread, Return(t) PROVE CallsDescend
    BY <1>4, ReturnFacts, TakeDescends DEF Gone
  <1>5. \A c \in calls : /\ c \in CallType /\ Descends(Forgotten(c), c)
                        /\ Descends(InState(c, "stale"), c) /\ Descends(InState(c, "executed"), c)
    BY CallForms DEF TypeOK
  <1>6. ASSUME NEW t \in Thread, LoseAnswer(t) PROVE CallsDescend
    <2>1. PICK c \in calls : Gone(c) \/ Becomes(c, Forgotten(c))
      BY <1>6, LoseFacts
    <2> QED BY <1>5, <2>1, TakeDescends
  <1>7. ASSUME NEW c \in calls, CallStepOf(c) PROVE CallsDescend
    <2>1. CASE Execute(c)
      BY <1>5, <2>1, ExecuteFacts, TakeDescends
    <2>2. CASE Cancel(c)
      BY <1>5, <2>2, CancelFacts, TakeDescends
    <2>3. CASE ~Execute(c) /\ ~Cancel(c)
      BY <1>5, <1>7, <2>3, CallStepCases, TakeDescends
    <2> QED BY <2>1, <2>2, <2>3
  <1>8. SubmitStep => calls' = calls
    BY DEF SubmitStep, Submit
  <1>9. \A t \in Thread : ConnectFails(t) => calls' = calls
    BY DEF ConnectFails
  <1> QED BY <1>2, <1>3, <1>4, <1>6, <1>7, <1>8, <1>9 DEF QuietStep

(* Every program was executed before, or is that of a call.                *)
ProgramsDescend ==
  \A s \in Session : \A i \in DOMAIN executed'[s] :
    \/ i \in DOMAIN executed[s] /\ executed'[s][i] = executed[s][i]
    \/ \E c \in calls : c.session = s /\ executed'[s][i] = Program(c)

LEMMA QuietPrograms ==
  ASSUME TypeOK, TypeThreads, QuietStep
  PROVE  ProgramsDescend
  <1>1. ASSUME executed' = executed PROVE ProgramsDescend
    BY <1>1 DEF ProgramsDescend
  <1>2. ASSUME NEW c \in calls, Execute(c) PROVE ProgramsDescend
    <2> SUFFICES ASSUME NEW s \in Session, NEW i \in DOMAIN executed'[s]
                 PROVE  \/ i \in DOMAIN executed[s] /\ executed'[s][i] = executed[s][i]
                        \/ \E x \in calls : x.session = s /\ executed'[s][i] = Program(x)
      BY DEF ProgramsDescend
    <2>1. CASE s # c.session
      BY <1>2, <2>1, ExecuteFacts
    <2>2. CASE s = c.session
      <3>1. /\ executed[s] \in Seq(Entry) /\ Program(c) \in Entry
            /\ executed'[s] = Append(executed[s], Program(c))
        BY <1>2, <2>2, ExecuteFacts DEF TypeThreads
      <3>2. DOMAIN executed'[s] = 1 .. Len(executed[s]) + 1 /\ DOMAIN executed[s] = 1 .. Len(executed[s])
        BY <3>1, AppendProperties, LenProperties
      <3>3. i \in DOMAIN executed[s] \/ i = Len(executed[s]) + 1
        BY <3>1, <3>2, LenProperties
      <3>4. i \in DOMAIN executed[s] => executed'[s][i] = executed[s][i]
        BY <3>1, <3>2, AppendProperties
      <3>5. i = Len(executed[s]) + 1 => executed'[s][i] = Program(c)
        BY <3>1, AppendProperties
      <3> QED BY <2>2, <3>3, <3>4, <3>5
    <2> QED BY <2>1, <2>2
  <1>3. ASSUME NEW c \in calls, CallStepOf(c), ~Execute(c) PROVE executed' = executed
    <2>1. Cancel(c) => executed' = executed
      BY DEF Cancel
    <2> QED BY <1>3, <2>1, CallStepCases
  <1>4. SubmitStep => executed' = executed
    BY DEF SubmitStep, Submit
  <1>5. \A t \in Thread : Invoke(t) \/ Return(t) \/ ConnectFails(t) \/ LoseAnswer(t) => executed' = executed
    BY DEF Invoke, Return, ConnectFails, LoseAnswer
  <1> QED BY <1>1, <1>2, <1>3, <1>4, <1>5 DEF QuietStep

LEMMA QuietDraws ==
  ASSUME TypeOK, TypeThreads, InvOwner, InvUse, InvCalls, QuietStep, NEW d \in Ticket, Drawn(d)'
  PROVE  Drawn(d)
  <1>1. d.thread \in Thread /\ d.session \in Session /\ d.number \in Nat
    BY DEF Ticket
  <1>2. CASE AtServer(d)'
    <2>1. PICK i \in DOMAIN executed'[d.session] : Carries(executed'[d.session][i], d)
      BY <1>2 DEF AtServer
    <2>2. CASE i \in DOMAIN executed[d.session] /\ executed'[d.session][i] = executed[d.session][i]
      BY <2>1, <2>2 DEF Drawn, AtServer
    <2>3. ASSUME NEW c \in calls, c.session = d.session, executed'[d.session][i] = Program(c) PROVE InCall(d)
      BY <2>1, <2>3 DEF InCall, Carries, Program
    <2> QED BY <1>1, <2>2, <2>3, QuietPrograms DEF ProgramsDescend, Drawn
  <1>3. CASE InCall(d)'
    <2>1. PICK e \in calls' : e.session = d.session /\ Carries(e, d)
      BY <1>3 DEF InCall
    <2>2. ASSUME NEW c \in calls, Descends(e, c) PROVE InCall(d)
      BY <2>1, <2>2 DEF InCall, Carries, Descends
    <2>3. ASSUME NEW t \in Thread, pc[t] = "connect", e = CallOf(t) PROVE InHand(d)
      BY <2>1, <2>3 DEF InHand, Carries, CallOf
    <2> QED BY <2>2, <2>3, QuietCalls DEF CallsDescend, Drawn
  <1>4. CASE InHand(d)'
    <2> DEFINE u == d.thread
    <2>1. /\ pc'[u] \in {"connect", "wait"} /\ submission'[u].number = d.number
          /\ submission'[u].count = d.count
          /\ connection'[submission'[u].object].session = d.session
      BY <1>4 DEF InHand, SessionOf
    <2>2. /\ pc[u] \in {"connect", "wait"} /\ submission'[u].object = submission[u].object
          /\ submission[u].number = d.number /\ submission[u].count = d.count
      BY <1>1, <2>1, QuietThreads DEF Steady, SteadyAt
    <2>3. submission[u].object \in Object /\ Alive(submission[u].object)
      BY <1>1, <2>2, InHandFacts DEF Holds
    <2>4. SessionOf(submission[u].object) = d.session
      BY <2>1, <2>2, <2>3, QuietObjects DEF SameObjects, Same, SessionOf
    <2> QED BY <2>2, <2>4 DEF Drawn, InHand
  <1> QED BY <1>2, <1>3, <1>4 DEF Drawn

LEMMA TicketFacts ==
  ASSUME NEW d \in Ticket
  PROVE  /\ d.thread \in Thread /\ d.session \in Session /\ d.session \in Nat
         /\ d.number \in Nat /\ d.count \in Nat /\ OutOfOrder \notin Nat
  <1>1. Session = 1 .. Len(ServerSize) /\ Len(ServerSize) \in Nat /\ OutOfOrder \notin Nat
    BY ClientAssumption, LenProperties DEF Session
  <1>2. MaxRequests \in Nat
    BY ClientAssumption
  <1>3. d.session \in Nat /\ d.count \in Nat
    BY <1>1, <1>2 DEF Ticket
  <1> QED BY <1>1, <1>3 DEF Ticket

LEMMA QuietDrawn ==
  ASSUME TypeOK, TypeThreads, InvOwner, InvUse, InvCalls, InvDrawn, QuietStep
  PROVE  InvDrawn'
  <1>1. SameObjects /\ SameNumbers /\ Steady
    BY QuietObjects, QuietThreads
  <1> SUFFICES ASSUME NEW d \in Ticket, Drawn(d)'
               PROVE  /\ d.count <= requests' /\ d.session <= sessions'
                      /\ pc'[d.thread] = "number" => d.count < submission'[d.thread].count
                      /\ \A o \in Object : Holds(o)' /\ SessionOf(o)' = d.session =>
                           /\ connection'[o].m_sequence_num # OutOfOrder
                           /\ d.number < connection'[o].m_sequence_num
    BY DEF InvDrawn
  <1>2. Drawn(d)
    BY QuietDraws
  <1>3. /\ d.count <= requests /\ d.session <= sessions
        /\ pc[d.thread] = "number" => d.count < submission[d.thread].count
        /\ \A o \in Object : Holds(o) /\ SessionOf(o) = d.session =>
             /\ connection[o].m_sequence_num # OutOfOrder
             /\ d.number < connection[o].m_sequence_num
    BY <1>2 DEF InvDrawn
  <1>4. d.count \in Nat /\ d.thread \in Thread /\ requests \in Nat
    <2>1. requests \in Nat
      BY ClientAssumption DEF TypeThreads
    <2> QED BY <2>1, TicketFacts
  <1>5. d.count <= requests'
    BY <1>1, <1>3, <1>4 DEF Steady
  <1>6. d.count < requests + 1
    BY <1>3, <1>4
  <1>7. pc'[d.thread] = "number" => d.count < submission'[d.thread].count
    BY <1>1, <1>3, <1>4, <1>6 DEF Steady, SteadyAt
  <1>8. ASSUME NEW o \in Object, Holds(o)', connection'[o].session = d.session
        PROVE  Holds(o) /\ connection[o].session = d.session
               /\ connection'[o].m_sequence_num = connection[o].m_sequence_num
    BY <1>1, <1>8 DEF SameObjects, SameNumbers, Same, Holds
  <1>9. d.session <= sessions'
    BY <1>1, <1>3 DEF SameObjects
  <1> QED BY <1>3, <1>5, <1>7, <1>8, <1>9 DEF SessionOf

LEMMA QuietOrder ==
  ASSUME TypeOK, TypeThreads, InvOwner, InvUse, InvCalls, InvOrder, QuietStep
  PROVE  InvOrder'
  <1> SUFFICES ASSUME NEW d \in Ticket, NEW e \in Ticket, Drawn(d)', Drawn(e)', d.session = e.session
               PROVE  /\ d.number = e.number => d = e
                      /\ d.thread = e.thread /\ d.number < e.number => d.count < e.count
    BY DEF InvOrder
  <1>1. Drawn(d) /\ Drawn(e)
    BY QuietDraws
  <1> QED BY <1>1 DEF InvOrder

(* The number drawn by thread t.                                           *)
Draws(t, d) ==
  /\ d.thread = t /\ d.count = submission[t].count
  /\ d.session = connection[submission[t].object].session
  /\ d.number = connection[submission[t].object].m_sequence_num

LEMMA NextDraws ==
  ASSUME TypeOK, TypeThreads, InvOwner, InvUse, InvCalls, NEW t \in Thread, NextSequenceNumber(t),
         NEW d \in Ticket, Drawn(d)'
  PROVE  Drawn(d) \/ Draws(t, d)
  <1>1. calls' = calls /\ executed' = executed
    BY DEF NextSequenceNumber
  <1>2. CASE AtServer(d)' \/ InCall(d)'
    BY <1>1, <1>2 DEF AtServer, InCall, Drawn
  <1>3. CASE InHand(d)'
    <2> DEFINE u == d.thread
    <2>1. /\ pc'[u] \in {"connect", "wait"} /\ submission'[u].number = d.number
          /\ submission'[u].count = d.count
          /\ connection'[submission'[u].object].session = d.session
      BY <1>3 DEF InHand, SessionOf
    <2>2. u \in Thread /\ Others(t) /\ SameObjects
      BY TicketFacts, NextFacts, NextObjects
    <2>3. CASE u = t
      <3>1. /\ submission[t] \in Submission /\ pc[t] # "idle"
            /\ submission'[t] = [submission[t] EXCEPT
                 !.number = connection[submission[t].object].m_sequence_num]
        BY NextFacts, InHandFacts
      <3>2. /\ submission'[t].number = connection[submission[t].object].m_sequence_num
            /\ submission'[t].count = submission[t].count
            /\ submission'[t].object = submission[t].object
        BY <3>1 DEF Submission
      <3>3. submission[t].object \in Object /\ Alive(submission[t].object)
        BY <3>1, InHandFacts DEF Holds
      <3>4. connection[submission[t].object].session = d.session
        BY <2>1, <2>2, <2>3, <3>2, <3>3 DEF SameObjects, Same
      <3> QED BY <2>1, <2>3, <3>2, <3>4 DEF Draws
    <2>4. CASE u # t
      <3>1. pc[u] = pc'[u] /\ submission'[u] = submission[u]
        BY <2>2, <2>4 DEF Others
      <3>2. submission[u].object \in Object /\ Alive(submission[u].object)
        BY <2>1, <2>2, <3>1, InHandFacts DEF Holds
      <3>3. connection[submission[u].object].session = d.session
        BY <2>1, <2>2, <3>1, <3>2 DEF SameObjects, Same
      <3> QED BY <2>1, <3>1, <3>3 DEF Drawn, InHand, SessionOf
    <2> QED BY <2>3, <2>4
  <1> QED BY <1>2, <1>3 DEF Drawn

LEMMA NextDrawn ==
  ASSUME TypeOK, TypeThreads, InvOwner, InvUse, InvCalls, InvDrawn,
         NEW t \in Thread, NextSequenceNumber(t)
  PROVE  InvDrawn'
  <1> DEFINE p == submission[t].object
             num == connection[p].m_sequence_num
  <1>1. /\ p \in Object /\ Holds(p) /\ SameObjects
        /\ num \in Nat \cup {OutOfOrder} /\ connection'[p].m_sequence_num = Successor(num)
        /\ \A q \in Object : q # p => connection'[q] = connection[q]
    BY NextObjects
  <1>2. /\ pc[t] = "number" /\ pc'[t] = "connect" /\ Others(t)
        /\ requests' = requests
    BY NextFacts DEF NextSequenceNumber
  <1> SUFFICES ASSUME NEW d \in Ticket, Drawn(d)'
               PROVE  /\ d.count <= requests' /\ d.session <= sessions'
                      /\ pc'[d.thread] = "number" => d.count < submission'[d.thread].count
                      /\ \A o \in Object : Holds(o)' /\ SessionOf(o)' = d.session =>
                           /\ connection'[o].m_sequence_num # OutOfOrder
                           /\ d.number < connection'[o].m_sequence_num
    BY DEF InvDrawn
  <1>3. /\ d.thread \in Thread /\ d.number \in Nat /\ OutOfOrder \notin Nat
        /\ sessions' = sessions
    BY <1>1, TicketFacts DEF SameObjects
  <1>4. \A o \in Object : Holds(o)' => Holds(o) /\ connection'[o].session = connection[o].session
    BY <1>1 DEF SameObjects, Same, Holds
  <1>5. pc'[d.thread] = "number" => /\ pc[d.thread] = "number" /\ submission'[d.thread] = submission[d.thread]
    BY <1>2, <1>3 DEF Others
  <1> HIDE DEF p, num
  <1>6. CASE Drawn(d)
    <2>1. /\ d.count <= requests /\ d.session <= sessions
          /\ pc[d.thread] = "number" => d.count < submission[d.thread].count
          /\ \A o \in Object : Holds(o) /\ connection[o].session = d.session =>
               /\ connection[o].m_sequence_num # OutOfOrder
               /\ d.number < connection[o].m_sequence_num
      BY <1>6 DEF InvDrawn, SessionOf
    <2>2. ASSUME NEW o \in Object, Holds(o)', connection'[o].session = d.session
          PROVE  /\ connection'[o].m_sequence_num # OutOfOrder
                 /\ d.number < connection'[o].m_sequence_num
      <3>1. connection[o].m_sequence_num # OutOfOrder /\ d.number < connection[o].m_sequence_num
        BY <1>4, <2>1, <2>2
      <3>2. CASE o = p
        <4>1. num \in Nat /\ d.number < num
          BY <1>1, <3>1, <3>2 DEF num
        <4>2. connection'[p].m_sequence_num = num + 1
          BY <1>1, <1>3, <4>1 DEF Successor
        <4> QED BY <1>3, <3>2, <4>1, <4>2
      <3> QED BY <1>1, <3>1, <3>2
    <2> QED BY <1>2, <1>3, <1>5, <2>1, <2>2 DEF SessionOf
  <1>7. CASE Draws(t, d)
    <2>1. d.thread = t /\ d.count = submission[t].count /\ d.session = connection[p].session /\ d.number = num
      BY <1>7 DEF Draws, p, num
    <2>2. d.count <= requests /\ d.session <= sessions
      <3>1. submission[t].count <= requests
        BY <1>2, InHandFacts
      <3>2. connection[p].session \in 1 .. sessions
        BY <1>1 DEF InvOwner, SessionOf
      <3> QED BY <2>1, <3>1, <3>2
    <2>3. ASSUME NEW o \in Object, Holds(o)', connection'[o].session = d.session
          PROVE  /\ connection'[o].m_sequence_num # OutOfOrder
                 /\ d.number < connection'[o].m_sequence_num
      <3>1. o = p
        BY <1>1, <1>4, <2>1, <2>3 DEF InvOwner, SessionOf
      <3>2. connection'[p].m_sequence_num = num + 1
        BY <1>1, <1>3, <2>1 DEF Successor
      <3> QED BY <1>3, <2>1, <3>1, <3>2
    <2>4. pc'[d.thread] # "number"
      BY <1>2, <2>1
    <2> QED BY <1>2, <1>3, <2>2, <2>3, <2>4 DEF SessionOf
  <1> QED BY <1>6, <1>7, NextDraws

LEMMA NextOrder ==
  ASSUME TypeOK, TypeThreads, InvOwner, InvUse, InvCalls, InvDrawn, InvOrder,
         NEW t \in Thread, NextSequenceNumber(t)
  PROVE  InvOrder'
  <1> DEFINE p == submission[t].object
  <1>1. p \in Object /\ Holds(p) /\ pc[t] = "number"
    BY NextObjects, NextFacts
  <1>2. ASSUME NEW d \in Ticket, NEW e \in Ticket, Drawn(d), Draws(t, e), d.session = e.session
        PROVE  /\ d.number < e.number /\ ~(e.number < d.number) /\ d.number # e.number
               /\ d.thread = e.thread => d.count < e.count
    <2>1. d.number < connection[p].m_sequence_num
      BY <1>1, <1>2 DEF InvDrawn, Draws, SessionOf
    <2>2. d.number < e.number
      BY <1>2, <2>1 DEF Draws
    <2>3. d.thread = e.thread => d.count < e.count
      BY <1>1, <1>2 DEF InvDrawn, Draws
    <2> QED BY <2>2, <2>3, TicketFacts
  <1>3. ASSUME NEW d \in Ticket, NEW e \in Ticket, Draws(t, d), Draws(t, e)
        PROVE  d = e
    BY <1>3 DEF Draws, Ticket
  <1> SUFFICES ASSUME NEW d \in Ticket, NEW e \in Ticket, Drawn(d)', Drawn(e)', d.session = e.session
               PROVE  /\ d.number = e.number => d = e
                      /\ d.thread = e.thread /\ d.number < e.number => d.count < e.count
    BY DEF InvOrder
  <1>4. (Drawn(d) \/ Draws(t, d)) /\ (Drawn(e) \/ Draws(t, e))
    BY NextDraws
  <1>5. CASE Drawn(d) /\ Drawn(e)
    BY <1>5 DEF InvOrder
  <1>6. CASE Drawn(d) /\ Draws(t, e)
    BY <1>2, <1>6
  <1>7. CASE Draws(t, d) /\ Drawn(e)
    BY <1>2, <1>7
  <1>8. CASE Draws(t, d) /\ Draws(t, e)
    <2>1. d = e
      BY <1>3, <1>8
    <2> QED BY <2>1, TicketFacts
  <1> QED BY <1>4, <1>5, <1>6, <1>7, <1>8

----------------------------------------------------------------------------
(* The threads, the calls and what was given up. *)

(* Thread t goes on with its submission.                                   *)
GoesOn(t) ==
  /\ pc[t] # "idle" /\ pc'[t] # "idle"
  /\ submission'[t].object = submission[t].object /\ submission'[t].mode = submission[t].mode
  /\ submission'[t].count = submission[t].count
  /\ pc'[t] = "wait" => submission[t].mode = "blocking"

(* Holds in the next state, of an object known there. *)
HoldsAfter(o) == connection'[o] # Nothing /\ connection'[o].m_reinit_uploader # Nothing

LEMMA UseKept ==
  ASSUME TypeOK, TypeThreads, InvUse, \A o \in Object : Holds(o)' <=> Holds(o),
         NEW t \in Thread, Others(t), requests' = requests, Left(t) \/ GoesOn(t)
  PROVE  InvUse'
  <1>1. \A u \in Thread : submission[u].count \in Nat
    <2>1. MaxRequests \in Nat
      BY ClientAssumption
    <2>2. \A u \in Thread : submission[u].count \in 0 .. MaxRequests
      BY DEF TypeThreads, Submission
    <2> QED BY <2>1, <2>2
  <1>2. \A u \in Thread : pc[u] # "idle" => submission[u].count # 0
    <2>1. \A u \in Thread : pc[u] # "idle" => submission[u].count \in 1 .. requests
      BY DEF InvUse
    <2> QED BY <2>1, ClientAssumption DEF TypeThreads
  <1>3. ASSUME NEW u \in Thread
        PROVE  /\ pc'[u] # "idle" => /\ submission'[u].object \in Object /\ HoldsAfter(submission'[u].object)
                                     /\ submission'[u].count \in 1 .. requests
                                     /\ submission'[u].mode \in {"blocking", "async"}
               /\ pc'[u] = "idle" => submission'[u].count = 0
               /\ pc'[u] = "wait" => submission'[u].mode = "blocking"
    <2>1. /\ pc[u] # "idle" => /\ submission[u].object \in Object /\ Holds(submission[u].object)
                               /\ submission[u].count \in 1 .. requests
                               /\ submission[u].mode \in {"blocking", "async"}
          /\ pc[u] = "idle" => submission[u].count = 0
          /\ pc[u] = "wait" => submission[u].mode = "blocking"
      BY DEF InvUse
    <2>2. \A o \in Object : Holds(o) => HoldsAfter(o)
      BY DEF Holds, Alive, HoldsAfter
    <2>3. CASE u # t
      <3>1. pc'[u] = pc[u] /\ submission'[u] = submission[u]
        BY <2>3 DEF Others
      <3> QED BY <2>1, <2>2, <3>1
    <2>4. CASE u = t /\ Left(t)
      BY <2>4 DEF Left
    <2>5. CASE u = t /\ GoesOn(t)
      BY <2>1, <2>2, <2>5 DEF GoesOn
    <2> QED BY <2>3, <2>4, <2>5
  <1>4. ASSUME NEW u \in Thread, NEW v \in Thread, pc'[u] # "idle", submission'[u].count = submission'[v].count
        PROVE  u = v
    <2>1. pc[u] # "idle" /\ submission'[u].count = submission[u].count
      BY <1>4 DEF Others, Left, GoesOn
    <2>2. submission'[v].count = submission[v].count \/ submission'[v].count = 0
      BY DEF Others, Left, GoesOn
    <2>3. submission[v].count = submission[u].count
      BY <1>2, <1>4, <2>1, <2>2
    <2> QED BY <2>1, <2>3 DEF InvUse
  <1> QED BY <1>3, <1>4 DEF InvUse, Holds, Alive, HoldsAfter

LEMMA SubmitUse ==
  ASSUME TypeOK, TypeThreads, InvOwner, InvUse, InvCalls,
         NEW t \in Thread, NEW o \in Object, NEW mode \in {"blocking", "async"}, Submit(t, o, mode)
  PROVE  InvUse'
  <1>1. /\ pc[t] = "idle" /\ Holds(o) /\ requests' = requests + 1
        /\ pc'[t] = "number" /\ Others(t)
        /\ submission'[t].object = o /\ submission'[t].mode = mode
        /\ submission'[t].count = requests + 1
    BY SubmitFacts
  <1>2. connection' = connection /\ requests \in Nat
    BY ClientAssumption DEF Submit, TypeThreads
  <1>3. \A u \in Thread : submission[u].count \in 1 .. requests \/ submission[u].count = 0
    BY DEF InvUse
  <1>4. \A u \in Thread : submission[u].count \in Nat /\ submission[u].count < requests + 1
    BY <1>2, <1>3
  <1>5. ASSUME NEW u \in Thread
        PROVE  /\ pc'[u] # "idle" => /\ submission'[u].object \in Object /\ HoldsAfter(submission'[u].object)
                                     /\ submission'[u].count \in 1 .. requests'
                                     /\ submission'[u].mode \in {"blocking", "async"}
               /\ pc'[u] = "idle" => submission'[u].count = 0
               /\ pc'[u] = "wait" => submission'[u].mode = "blocking"
    <2>0. \A q \in Object : Holds(q) => HoldsAfter(q)
      BY <1>2 DEF Holds, Alive, HoldsAfter
    <2>1. CASE u = t
      <3>1. HoldsAfter(o)
        BY <1>1, <2>0
      <3>2. requests + 1 \in 1 .. requests'
        BY <1>1, <1>2
      <3> QED BY <1>1, <2>1, <3>1, <3>2
    <2>2. CASE u # t
      <3>1. pc'[u] = pc[u] /\ submission'[u] = submission[u]
        BY <1>1, <2>2 DEF Others
      <3>2. submission[u].count \in 1 .. requests => submission[u].count \in 1 .. requests'
        BY <1>1, <1>2
      <3> QED BY <2>0, <3>1, <3>2 DEF InvUse
    <2> QED BY <2>1, <2>2
  <1>6. ASSUME NEW u \in Thread, NEW v \in Thread, pc'[u] # "idle", submission'[u].count = submission'[v].count
        PROVE  u = v
    <2>1. \A w \in Thread : w # t => submission'[w] = submission[w] /\ pc'[w] = pc[w]
      BY <1>1 DEF Others
    <2>2. CASE u # t /\ v # t
      BY <1>6, <2>1, <2>2 DEF InvUse
    <2>3. \A w \in Thread : w # t => submission'[w].count # submission'[t].count
      <3>1. ASSUME NEW w \in Thread, w # t, submission[w].count = requests + 1 PROVE FALSE
        BY <1>2, <1>4, <3>1
      <3> QED BY <1>1, <2>1, <3>1
    <2> QED BY <1>6, <2>2, <2>3
  <1> QED BY <1>5, <1>6 DEF InvUse, Holds, Alive, HoldsAfter

LEMMA WorkUse ==
  ASSUME TypeOK, TypeThreads, InvOwner, InvUse, InvCalls, WorkStep
  PROVE  InvUse'
  <1>1. \A o \in Object : Holds(o)' <=> Holds(o)
    BY WorkObjects
  <1>2. ASSUME NEW t \in Thread, NextSequenceNumber(t) PROVE InvUse'
    <2>1. /\ pc[t] = "number" /\ pc'[t] = "connect" /\ Others(t) /\ requests' = requests
          /\ submission'[t] = [submission[t] EXCEPT
               !.number = connection[submission[t].object].m_sequence_num]
      BY <1>2, NextFacts DEF NextSequenceNumber
    <2>2. GoesOn(t)
      BY <2>1, InHandFacts DEF GoesOn, Submission
    <2> QED BY <1>1, <2>1, <2>2, UseKept
  <1>3. ASSUME NEW t \in Thread, Invoke(t) PROVE InvUse'
    <2>1. /\ pc[t] = "connect" /\ Others(t) /\ requests' = requests
          /\ \/ Left(t)
             \/ submission[t].mode = "blocking" /\ pc'[t] = "wait" /\ submission'[t] = submission[t]
      BY <1>3, InvokeFacts DEF Invoke
    <2>2. Left(t) \/ GoesOn(t)
      BY <2>1 DEF GoesOn
    <2> QED BY <1>1, <2>1, <2>2, UseKept
  <1>4. ASSUME NEW t \in Thread, Return(t) PROVE InvUse'
    <2>1. Leave(t) /\ requests' = requests
      BY <1>4 DEF Return
    <2> QED BY <1>1, <2>1, LeaveFacts, UseKept
  <1>5. ASSUME NEW t \in Thread, pc[t] # "idle", Retry(t), requests' = requests PROVE InvUse'
    <2>1. Others(t) /\ submission[t] \in Submission
      BY <1>5, RetryFacts, InHandFacts
    <2>2. Left(t) \/ Again(t)
      BY <1>5, RetryFacts
    <2>3. Again(t) => GoesOn(t)
      BY <1>5, <2>1 DEF Again, GoesOn, Submission
    <2> QED BY <1>1, <1>5, <2>1, <2>2, <2>3, UseKept
  <1>6. ASSUME NEW t \in Thread, ConnectFails(t) PROVE InvUse'
    BY <1>5, <1>6 DEF ConnectFails
  <1>7. ASSUME NEW t \in Thread, LoseAnswer(t) PROVE InvUse'
    BY <1>5, <1>7, LoseFacts
  <1>8. ASSUME NEW c \in calls, CallStepOf(c) PROVE InvUse'
    <2>1. pc' = pc /\ submission' = submission /\ requests' = requests
      BY <1>8, CallStepCases
    <2>2. \A t \in Thread : pc[t] # "idle" => HoldsAfter(submission'[t].object)
      BY <1>1, <2>1, InHandFacts DEF Holds, Alive, HoldsAfter
    <2> QED BY <2>1, <2>2 DEF InvUse, Holds, Alive, HoldsAfter
  <1>9. SubmitStep => InvUse'
    BY SubmitUse DEF SubmitStep
  <1> QED BY <1>2, <1>3, <1>4, <1>6, <1>7, <1>8, <1>9 DEF WorkStep, CallStepOf

(* The server executes a session's programs in the order of their numbers. *)
LEMMA WorkExecuted ==
  ASSUME TypeOK, TypeThreads, InvExecuted, WorkStep
  PROVE  InvExecuted'
  <1>1. ASSUME executed' = executed, expected' = expected PROVE InvExecuted'
    BY <1>1 DEF InvExecuted
  <1>2. ASSUME NEW c \in calls, Execute(c) PROVE InvExecuted'
    <2> DEFINE Ordered(seq, bound) ==
                 /\ \A i \in DOMAIN seq : seq[i].number # OutOfOrder => seq[i].number < bound
                 /\ \A i, j \in DOMAIN seq :
                      i < j /\ OutOfOrder \notin {seq[i].number, seq[j].number}
                        => seq[i].number < seq[j].number
    <2>1. \A s \in Session : Ordered(executed[s], expected[s])
      BY DEF InvExecuted
    <2>2. ASSUME NEW s \in Session, s # c.session PROVE executed'[s] = executed[s] /\ expected'[s] = expected[s]
      BY <1>2, <2>2, ExecuteFacts
    <2> DEFINE old == executed[c.session]
               new == Append(old, Program(c))
    <2>3. /\ c.session \in Session /\ old \in Seq(Entry) /\ Program(c) \in Entry
          /\ executed'[c.session] = new /\ expected[c.session] \in Nat /\ OutOfOrder \notin Nat
      BY <1>2, ExecuteFacts, ClientAssumption DEF TypeThreads, TypeOK
    <2>4. /\ DOMAIN old = 1 .. Len(old) /\ DOMAIN new = 1 .. Len(old) + 1 /\ Len(old) \in Nat
          /\ \A i \in 1 .. Len(old) : new[i] = old[i] /\ old[i] \in Entry
          /\ new[Len(old) + 1] = Program(c)
      BY <2>3, AppendProperties, LenProperties, ElementOfSeq
    <2>5. \A i \in 1 .. Len(old) : old[i].number \in Nat \cup {OutOfOrder}
      BY <2>4 DEF Entry
    <2>6. Program(c).number = c.number
      BY DEF Program
    <2>7. Ordered(old, expected[c.session])
      BY <2>1, <2>3
    <2> HIDE DEF old, new
    <2>8. CASE c.number = OutOfOrder
      <3>1. expected' = expected
        BY <1>2, <2>3, <2>8, ExecuteFacts
      <3>2. Ordered(new, expected[c.session])
        BY <2>4, <2>6, <2>7, <2>8
      <3> QED BY <2>1, <2>2, <2>3, <3>1, <3>2 DEF InvExecuted
    <2>9. CASE c.number # OutOfOrder
      <3>1. c.number = expected[c.session] /\ expected'[c.session] = expected[c.session] + 1
        BY <1>2, <2>9, ExecuteFacts
      <3>2. \A i \in 1 .. Len(old) : old[i].number # OutOfOrder => old[i].number < c.number
        BY <2>4, <2>7, <3>1
      <3>3. \A i \in DOMAIN new : new[i].number # OutOfOrder => new[i].number < expected[c.session] + 1
        <4> SUFFICES ASSUME NEW i \in 1 .. Len(old) + 1, new[i].number # OutOfOrder
                     PROVE  new[i].number < expected[c.session] + 1
          BY <2>4
        <4>1. CASE i = Len(old) + 1
          BY <2>3, <2>4, <2>6, <3>1, <4>1
        <4>2. CASE i # Len(old) + 1
          <5>1. i \in 1 .. Len(old)
            BY <2>4, <4>2
          <5>2. new[i].number \in Nat /\ new[i].number < expected[c.session]
            BY <2>4, <2>5, <3>1, <3>2, <5>1
          <5> QED BY <2>3, <5>2
        <4> QED BY <4>1, <4>2
      <3>4. ASSUME NEW i \in DOMAIN new, NEW j \in DOMAIN new, i < j,
                   OutOfOrder \notin {new[i].number, new[j].number}
            PROVE  new[i].number < new[j].number
        <4>1. i \in 1 .. Len(old)
          BY <2>4, <3>4
        <4>2. CASE j = Len(old) + 1
          BY <2>4, <2>6, <3>2, <3>4, <4>1, <4>2
        <4>3. CASE j # Len(old) + 1
          <5>1. j \in 1 .. Len(old)
            BY <2>4, <3>4, <4>3
          <5> QED BY <2>4, <2>7, <3>4, <4>1, <5>1
        <4> QED BY <4>2, <4>3
      <3> QED BY <2>1, <2>2, <2>3, <3>1, <3>3, <3>4 DEF InvExecuted
    <2> QED BY <2>8, <2>9
  <1>3. ASSUME NEW c \in calls, CallStepOf(c), ~Execute(c) PROVE InvExecuted'
    <2>1. Cancel(c) => expected' = expected /\ executed' = executed
      BY DEF Cancel
    <2> QED BY <1>1, <1>3, <2>1, CallStepCases
  <1>4. SubmitStep => executed' = executed /\ expected' = expected
    BY DEF SubmitStep, Submit
  <1>5. \A t \in Thread : NextSequenceNumber(t) \/ Invoke(t) \/ Return(t) \/ ConnectFails(t) \/ LoseAnswer(t)
                         => executed' = executed /\ expected' = expected
    BY DEF NextSequenceNumber, Invoke, Return, ConnectFails, LoseAnswer
  <1> QED BY <1>1, <1>2, <1>3, <1>4, <1>5 DEF WorkStep, CallStepOf

LEMMA CountFacts ==
  ASSUME TypeOK, TypeThreads, InvUse
  PROVE  /\ requests \in Nat /\ \A t \in Thread : submission[t].count \in Nat
         /\ \A c \in calls : c.count \in Nat /\ c.count # 0 /\ c.attempt \in Nat
         /\ \A t \in Thread : pc[t] # "idle" => /\ submission[t].count # 0 /\ submission[t].count <= requests
                                                /\ submission[t].attempts \in Nat
         /\ \A t \in Thread : pc[t] = "idle" => submission[t].count = 0
         /\ \A t, u \in Thread : pc[t] # "idle" /\ submission[u].count = submission[t].count => u = t
  <1>1. MaxRequests \in Nat /\ Attempts \in Nat
    BY ClientAssumption
  <1>2. requests \in Nat
    BY <1>1 DEF TypeThreads
  <1>3. \A t \in Thread : submission[t].count \in 0 .. MaxRequests /\ submission[t].attempts \in 0 .. Attempts - 1
    BY DEF TypeThreads, Submission
  <1>4. \A c \in calls : c.count \in 1 .. MaxRequests /\ c.attempt \in 0 .. Attempts - 1
    BY DEF TypeOK, CallType
  <1>5. \A t \in Thread : pc[t] # "idle" => submission[t].count \in 1 .. requests
    BY DEF InvUse
  <1>6. \A t \in Thread : pc[t] = "idle" => submission[t].count = 0
    BY DEF InvUse
  <1>7. \A t, u \in Thread : pc[t] # "idle" /\ submission[u].count = submission[t].count => u = t
    BY DEF InvUse
  <1> QED BY <1>1, <1>2, <1>3, <1>4, <1>5, <1>6, <1>7

(* A call of a thread other than the one that steps.                       *)
LEMMA CallAside ==
  ASSUME TypeOK, TypeThreads, InvOwner, InvUse, InvCalls, WorkStep, NEW t \in Thread, Others(t),
         requests' \in {requests, requests + 1},
         NEW c \in calls, c.count # submission[t].count, c.count # submission'[t].count
  PROVE  CallGood(c)'
  <1>1. CallGood(c)
    BY DEF InvCalls
  <1>2. \A u \in Thread : u # t => submission'[u] = submission[u] /\ pc'[u] = pc[u]
    BY DEF Others
  <1>3. c.count <= requests'
    BY <1>1, CountFacts DEF CallGood
  <1>4. c.mode = "blocking" => \E u \in Thread : c.count = submission'[u].count
    BY <1>1, <1>2 DEF CallGood
  <1>5. ASSUME NEW u \in Thread, c.count = submission'[u].count
        PROVE  /\ c.thread = u /\ pc'[u] \in {"connect", "wait"}
               /\ c.session = connection'[submission'[u].object].session
               /\ c.number = submission'[u].number /\ c.mode \in {"blocking", "forgotten"}
               /\ c.mode = "blocking" => pc'[u] = "wait" /\ c.attempt = submission'[u].attempts
               /\ c.mode = "forgotten" => c.attempt < submission'[u].attempts
    <2>1. submission'[u] = submission[u] /\ pc'[u] = pc[u]
      BY <1>2, <1>5
    <2>2. /\ c.thread = u /\ pc[u] \in {"connect", "wait"}
          /\ c.session = connection[submission[u].object].session
          /\ c.number = submission[u].number /\ c.mode \in {"blocking", "forgotten"}
          /\ c.mode = "blocking" => pc[u] = "wait" /\ c.attempt = submission[u].attempts
          /\ c.mode = "forgotten" => c.attempt < submission[u].attempts
      BY <1>1, <1>5, <2>1 DEF CallGood, SessionOf
    <2>3. connection'[submission[u].object].session = connection[submission[u].object].session
      BY <2>2, InHandFacts, WorkObjects
    <2> QED BY <2>1, <2>2, <2>3
  <1> QED BY <1>1, <1>3, <1>4, <1>5 DEF CallGood, SessionOf

(* A call of a thread that has left submit.                                *)
LEMMA CallOrphan ==
  ASSUME NEW e, e.count <= requests', e.mode = "forgotten" <=> e.this = Nothing,
         e.mode = "forgotten" => e.state = "sent", e.mode # "blocking",
         \A u \in Thread : submission'[u].count # e.count
  PROVE  CallGood(e)'
  BY DEF CallGood

(* A call given up by a thread that tries again.                           *)
LEMMA CallAgain ==
  ASSUME TypeOK, TypeThreads, InvOwner, InvUse, InvCalls, WorkStep, requests' = requests,
         NEW t \in Thread, pc[t] # "idle", Again(t), Others(t),
         NEW e, e.count = submission[t].count, e.thread = t, e.number = submission[t].number,
         e.session = SessionOf(submission[t].object), e.mode = "forgotten", e.this = Nothing,
         e.state = "sent", e.attempt \in Nat, e.attempt <= submission[t].attempts
  PROVE  CallGood(e)'
  <1>1. /\ submission'[t].object = submission[t].object /\ submission'[t].number = submission[t].number
        /\ submission'[t].count = submission[t].count /\ submission'[t].attempts = submission[t].attempts + 1
        /\ pc'[t] = "connect"
    BY InHandFacts DEF Again, Submission
  <1>2. \A u \in Thread : u # t => submission'[u].count # e.count
    BY CountFacts DEF Others
  <1>3. connection'[submission'[t].object].session = e.session
    BY <1>1, InHandFacts, WorkObjects DEF SessionOf
  <1>4. e.attempt < submission'[t].attempts /\ e.count <= requests'
    BY <1>1, CountFacts
  <1> QED BY <1>1, <1>2, <1>3, <1>4 DEF CallGood, SessionOf

(* The call a thread waits for is the only one of its submission that is   *)
(* not forgotten.                                                          *)
LEMMA WaitedFacts ==
  ASSUME TypeOK, TypeThreads, InvUse, InvCalls, InvOneCall,
         NEW t \in Thread, NEW c \in calls, Waits(t, c)
  PROVE  /\ pc[t] = "wait" /\ c.mode = "blocking" /\ c.thread = t /\ c.count = submission[t].count
         /\ c.attempt = submission[t].attempts /\ c.session = SessionOf(submission[t].object)
         /\ c.number = submission[t].number
         /\ \A e \in calls : e.count = submission[t].count /\ e # c => e.mode = "forgotten"
  <1>1. pc[t] = "wait" /\ c.count = submission[t].count /\ c.attempt = submission[t].attempts /\ c.thread = t
    BY DEF Waits
  <1>2. CallGood(c)
    BY DEF InvCalls
  <1>3. c.mode = "blocking"
    BY <1>1, <1>2, CountFacts DEF CallGood
  <1>4. ASSUME NEW e \in calls, e.count = submission[t].count, e # c PROVE e.mode = "forgotten"
    <2>1. e.mode \in {"blocking", "forgotten"}
      BY <1>4 DEF InvCalls, CallGood
    <2> QED BY <1>1, <1>3, <1>4, <2>1 DEF InvOneCall
  <1> QED BY <1>1, <1>2, <1>3, <1>4 DEF CallGood

(* While a thread connects, all calls of its submission are forgotten.     *)
LEMMA ConnectingFacts ==
  ASSUME TypeOK, TypeThreads, InvUse, InvCalls, NEW t \in Thread, pc[t] = "connect",
         NEW c \in calls, c.count = submission[t].count
  PROVE  c.mode = "forgotten"
  BY DEF InvCalls, CallGood

(* A forgotten call of a thread that goes on or leaves.                    *)
LEMMA CallForgotten ==
  ASSUME TypeOK, TypeThreads, InvOwner, InvUse, InvCalls, WorkStep, requests' = requests,
         NEW t \in Thread, pc[t] # "idle", Others(t), Again(t) \/ Left(t),
         NEW c \in calls, c.count = submission[t].count, c.mode = "forgotten"
  PROVE  CallGood(c)'
  <1>1. CallGood(c)
    BY DEF InvCalls
  <1>2. CASE Again(t)
    <2>1. /\ c.thread = t /\ c.number = submission[t].number
          /\ c.session = SessionOf(submission[t].object) /\ c.this = Nothing /\ c.state = "sent"
          /\ c.attempt < submission[t].attempts
      BY <1>1 DEF CallGood
    <2>2. c.attempt \in Nat /\ c.attempt <= submission[t].attempts
      BY <2>1, CountFacts
    <2> QED BY <1>2, <2>1, <2>2, CallAgain
  <1>3. CASE Left(t)
    <2>1. \A u \in Thread : submission'[u].count # c.count
      <3>1. submission'[t].count # c.count
        BY <1>3, CountFacts DEF Left
      <3> QED BY <3>1, CountFacts DEF Others
    <2>2. c.count <= requests'
      BY <1>1 DEF CallGood
    <2> QED BY <1>1, <2>1, <2>2, CallOrphan DEF CallGood
  <1> QED BY <1>2, <1>3

LEMMA SubmitCalls ==
  ASSUME TypeOK, TypeThreads, InvOwner, InvUse, InvCalls, WorkStep,
         NEW t \in Thread, NEW o \in Object, NEW mode \in {"blocking", "async"}, Submit(t, o, mode)
  PROVE  InvCalls'
  <1>1. /\ pc[t] = "idle" /\ requests' = requests + 1 /\ Others(t)
        /\ submission'[t].count = requests + 1 /\ calls' = calls
    BY SubmitFacts DEF Submit
  <1>2. ASSUME NEW c \in calls PROVE CallGood(c)'
    <2>1. c.count <= requests
      BY DEF InvCalls, CallGood
    <2>2. c.count # submission[t].count /\ c.count # submission'[t].count
      BY <1>1, <2>1, CountFacts
    <2> QED BY <1>1, <2>2, CallAside
  <1> QED BY <1>1, <1>2 DEF InvCalls

LEMMA NextCalls ==
  ASSUME TypeOK, TypeThreads, InvOwner, InvUse, InvCalls, WorkStep,
         NEW t \in Thread, NextSequenceNumber(t)
  PROVE  InvCalls'
  <1>1. /\ pc[t] = "number" /\ Others(t) /\ requests' = requests /\ calls' = calls
        /\ submission'[t].count = submission[t].count
    <2>1. /\ pc[t] = "number" /\ Others(t)
          /\ submission'[t] = [submission[t] EXCEPT
               !.number = connection[submission[t].object].m_sequence_num]
      BY NextFacts
    <2>2. submission[t] \in Submission
      BY DEF TypeThreads
    <2> QED BY <2>1, <2>2 DEF NextSequenceNumber, Submission
  <1>2. ASSUME NEW c \in calls PROVE CallGood(c)'
    <2>1. c.count # submission[t].count
      BY <1>1 DEF InvCalls, CallGood
    <2> QED BY <1>1, <2>1, CallAside
  <1> QED BY <1>1, <1>2 DEF InvCalls

LEMMA InvokeCalls ==
  ASSUME TypeOK, TypeThreads, InvOwner, InvUse, InvCalls, WorkStep, NEW t \in Thread, Invoke(t)
  PROVE  InvCalls'
  <1>1. /\ pc[t] = "connect" /\ Others(t) /\ requests' = requests
        /\ calls' = calls \cup {CallOf(t)} /\ connection' = connection
    BY InvokeFacts DEF Invoke
  <1>2. CASE submission[t].mode = "async" /\ Left(t)
    <2>1. \A u \in Thread : submission'[u].count # submission[t].count
      <3>1. submission'[t].count # submission[t].count
        BY <1>1, <1>2, CountFacts DEF Left
      <3> QED BY <1>1, <3>1, CountFacts DEF Others
    <2>2. ASSUME NEW c \in calls PROVE CallGood(c)'
      <3>1. CASE c.count = submission[t].count
        BY <1>1, <1>2, <3>1, ConnectingFacts, CallForgotten
      <3>2. CASE c.count # submission[t].count
        <4>1. c.count # submission'[t].count
          BY <1>2, CountFacts DEF Left
        <4> QED BY <1>1, <3>2, <4>1, CallAside
      <3> QED BY <3>1, <3>2
    <2>3. ASSUME NEW e, e = CallOf(t) PROVE CallGood(e)'
      <3>1. /\ e.count = submission[t].count /\ e.mode = "async" /\ e.this = submission[t].object
        BY <1>2, <2>3 DEF CallOf
      <3>2. e.this # Nothing
        BY <1>1, <3>1, InHandFacts, ClientAssumption
      <3>3. e.count <= requests'
        BY <1>1, <3>1, CountFacts
      <3> QED BY <2>1, <3>1, <3>2, <3>3, CallOrphan
    <2> QED BY <1>1, <2>2, <2>3 DEF InvCalls
  <1>3. CASE submission[t].mode = "blocking" /\ pc'[t] = "wait" /\ submission'[t] = submission[t]
    <2>1. submission' = submission /\ \A u \in Thread : u # t => pc'[u] = pc[u]
      BY <1>1, <1>3 DEF Others, TypeThreads, Invoke
    <2>2. ASSUME NEW c \in calls PROVE CallGood(c)'
      <3>1. CASE c.count = submission[t].count
        <4>1. c.mode = "forgotten" /\ CallGood(c)
          BY <1>1, <3>1, ConnectingFacts DEF InvCalls
        <4>2. \A u \in Thread : u # t => submission[u].count # c.count
          BY <1>1, <3>1, CountFacts
        <4> QED BY <1>1, <1>3, <2>1, <3>1, <4>1, <4>2 DEF CallGood, SessionOf
      <3>2. CASE c.count # submission[t].count
        <4>1. c.count # submission'[t].count
          BY <2>1, <3>2
        <4> QED BY <1>1, <3>2, <4>1, CallAside
      <3> QED BY <3>1, <3>2
    <2>3. ASSUME NEW e, e = CallOf(t) PROVE CallGood(e)'
      <3>1. \A u \in Thread : u # t => submission[u].count # submission[t].count
        BY <1>1, CountFacts
      <3>2. submission[t].object # Nothing
        BY <1>1, InHandFacts, ClientAssumption
      <3>3. submission[t].count <= requests
        BY <1>1, CountFacts
      <3>4. /\ e.thread = t /\ e.count = submission[t].count /\ e.attempt = submission[t].attempts
            /\ e.mode = "blocking" /\ e.session = connection[submission[t].object].session
            /\ e.number = submission[t].number /\ e.this = submission[t].object
        BY <1>3, <2>3 DEF CallOf, SessionOf
      <3> QED BY <1>1, <1>3, <2>1, <3>1, <3>2, <3>3, <3>4 DEF CallGood, SessionOf
    <2> QED BY <1>1, <2>2, <2>3 DEF InvCalls
  <1> QED BY <1>2, <1>3, InvokeFacts

LEMMA ReturnCalls ==
  ASSUME TypeOK, TypeThreads, InvOwner, InvUse, InvCalls, InvOneCall, WorkStep,
         NEW t \in Thread, Return(t)
  PROVE  InvCalls'
  <1>1. PICK c \in calls : Waits(t, c) /\ calls' = calls \ {c}
    BY ReturnFacts
  <1>2. /\ Left(t) /\ Others(t) /\ requests' = requests
    BY LeaveFacts DEF Return
  <1>3. pc[t] # "idle" /\ \A e \in calls : e.count = submission[t].count /\ e # c => e.mode = "forgotten"
    BY <1>1, WaitedFacts
  <1>4. ASSUME NEW e \in calls, e # c PROVE CallGood(e)'
    <2>1. CASE e.count = submission[t].count
      BY <1>2, <1>3, <1>4, <2>1, CallForgotten
    <2>2. CASE e.count # submission[t].count
      <3>1. e.count # submission'[t].count
        BY <1>2, CountFacts DEF Left
      <3> QED BY <1>2, <2>2, <3>1, CallAside
    <2> QED BY <2>1, <2>2
  <1> QED BY <1>1, <1>4 DEF InvCalls

LEMMA FailCalls ==
  ASSUME TypeOK, TypeThreads, InvOwner, InvUse, InvCalls, WorkStep,
         NEW t \in Thread, pc[t] # "idle", Retry(t), requests' = requests,
         NEW e \in calls, e.count = submission[t].count => e.mode = "forgotten"
  PROVE  CallGood(e)'
  <1>1. Others(t) /\ submission[t] \in Submission
    BY RetryFacts, InHandFacts
  <1>2. Left(t) \/ Again(t)
    BY RetryFacts
  <1>3. CASE e.count = submission[t].count
    BY <1>1, <1>2, <1>3, CallForgotten
  <1>4. CASE e.count # submission[t].count
    <2>1. e.count # submission'[t].count
      BY <1>1, <1>2, <1>4, CountFacts DEF Left, Again, Submission
    <2> QED BY <1>1, <1>4, <2>1, CallAside
  <1> QED BY <1>3, <1>4

LEMMA LoseCalls ==
  ASSUME TypeOK, TypeThreads, InvOwner, InvUse, InvCalls, InvOneCall, WorkStep,
         NEW t \in Thread, LoseAnswer(t)
  PROVE  InvCalls'
  <1>1. pc[t] = "wait" /\ Retry(t) /\ requests' = requests
    BY LoseFacts
  <1>2. PICK c \in calls : /\ Waits(t, c)
                          /\ \/ c.state # "sent" /\ Gone(c)
                             \/ c.state = "sent" /\ Becomes(c, Forgotten(c))
    BY LoseFacts
  <1>3. ASSUME NEW e \in calls, e # c PROVE CallGood(e)'
    <2>1. e.count = submission[t].count => e.mode = "forgotten"
      BY <1>2, <1>3, WaitedFacts
    <2> QED BY <1>1, <2>1, FailCalls
  <1>4. CASE Gone(c)
    BY <1>3, <1>4 DEF InvCalls, Gone
  <1>5. CASE c.state = "sent" /\ Becomes(c, Forgotten(c))
    <2> SUFFICES ASSUME NEW e, e = Forgotten(c) PROVE CallGood(e)'
      BY <1>3, <1>5 DEF InvCalls, Becomes
    <2>1. /\ Descends(e, c) /\ e.mode = "forgotten" /\ e.this = Nothing /\ e.state = "sent"
      BY <1>5, CallForms DEF TypeOK
    <2>2. /\ c.thread = t /\ c.count = submission[t].count /\ c.attempt = submission[t].attempts
          /\ c.session = SessionOf(submission[t].object) /\ c.number = submission[t].number
      BY <1>2, WaitedFacts
    <2>3. /\ e.thread = t /\ e.count = submission[t].count /\ e.number = submission[t].number
          /\ e.session = SessionOf(submission[t].object)
          /\ e.attempt \in Nat /\ e.attempt <= submission[t].attempts
      BY <2>1, <2>2, CountFacts DEF Descends
    <2>4. Others(t) /\ (Left(t) \/ Again(t))
      BY <1>1, RetryFacts
    <2>5. CASE Again(t)
      BY <1>1, <2>1, <2>3, <2>4, <2>5, CallAgain
    <2>6. CASE Left(t)
      <3>1. \A u \in Thread : submission'[u].count # e.count
        <4>1. submission'[t].count # e.count
          BY <1>1, <2>3, <2>6, CountFacts DEF Left
        <4> QED BY <1>1, <2>3, <2>4, <4>1, CountFacts DEF Others
      <3>2. e.count <= requests'
        BY <1>1, <2>3, CountFacts
      <3> QED BY <2>1, <3>1, <3>2, CallOrphan
    <2> QED BY <2>4, <2>5, <2>6
  <1> QED BY <1>2, <1>4, <1>5

(* Calls, in steps of the server and of futures.                           *)
LEMMA CallStepCalls ==
  ASSUME TypeOK, TypeThreads, InvOwner, InvUse, InvCalls, WorkStep, NEW c \in calls, CallStepOf(c)
  PROVE  InvCalls'
  <1>1. pc' = pc /\ submission' = submission /\ requests' = requests /\ c \in CallType
    BY CallStepCases
  <1>2. ASSUME NEW t \in Thread, NEW e \in calls, e.count = submission[t].count
        PROVE  connection'[submission[t].object].session = connection[submission[t].object].session
    <2>1. pc[t] # "idle"
      BY <1>2 DEF InvCalls, CallGood
    <2> QED BY <2>1, InHandFacts, WorkObjects
  <1>3. ASSUME NEW e \in calls PROVE CallGood(e)'
    <2>1. CallGood(e)
      BY DEF InvCalls
    <2> QED BY <1>1, <1>2, <2>1 DEF CallGood, SessionOf
  <1>4. ASSUME Gone(c) PROVE InvCalls'
    BY <1>3, <1>4 DEF InvCalls, Gone
  <1>5. ASSUME NEW state \in {"executed", "stale"}, c.mode # "forgotten", Becomes(c, InState(c, state))
        PROVE  InvCalls'
    <2>1. ASSUME NEW e, e = InState(c, state) PROVE CallGood(e)'
      <3>1. Descends(e, c) /\ e.mode = c.mode /\ e.this = c.this
        BY <1>1, <2>1, CallForms
      <3>2. CallGood(c)
        BY DEF InvCalls
      <3>3. \A t \in Thread : c.count = submission[t].count =>
              connection'[submission[t].object].session = connection[submission[t].object].session
        BY <1>2
      <3> QED BY <1>1, <1>5, <3>1, <3>2, <3>3 DEF CallGood, Descends, SessionOf
    <2> QED BY <1>3, <1>5, <2>1 DEF InvCalls, Becomes
  <1>6. CASE Execute(c)
    <2>1. Gone(c) \/ (c.mode # "forgotten" /\ Becomes(c, InState(c, "executed")))
      BY <1>6, ExecuteFacts
    <2> QED BY <1>4, <1>5, <2>1
  <1>7. CASE Cancel(c)
    <2>1. c.mode = "async" /\ (Gone(c) \/ (c.state = "sent" /\ Becomes(c, Forgotten(c))))
      BY <1>7, CancelFacts
    <2>2. \A t \in Thread : submission'[t].count # c.count
      BY <1>1, <2>1 DEF InvCalls, CallGood
    <2>3. ASSUME NEW e, c.state = "sent", e = Forgotten(c) PROVE CallGood(e)'
      <3>1. Descends(e, c) /\ e.mode = "forgotten" /\ e.this = Nothing /\ e.state = "sent"
        BY <1>1, <2>3, CallForms
      <3>2. c.count <= requests'
        BY <1>1 DEF InvCalls, CallGood
      <3>3. e.count = c.count
        BY <3>1 DEF Descends
      <3> QED BY <2>2, <3>1, <3>2, <3>3, CallOrphan
    <2>4. CASE c.state = "sent" /\ Becomes(c, Forgotten(c))
      BY <1>3, <2>3, <2>4 DEF InvCalls, Becomes
    <2> QED BY <1>4, <2>1, <2>4
  <1>8. CASE ~Execute(c) /\ ~Cancel(c)
    <2>1. Gone(c) \/ (c.mode # "forgotten" /\ Becomes(c, InState(c, "stale")))
      BY <1>8, CallStepCases
    <2> QED BY <1>4, <1>5, <2>1
  <1> QED BY <1>6, <1>7, <1>8

LEMMA WorkCalls ==
  ASSUME TypeOK, TypeThreads, InvOwner, InvUse, InvCalls, InvOneCall, WorkStep
  PROVE  InvCalls'
  <1>1. ASSUME NEW t \in Thread, ConnectFails(t) PROVE InvCalls'
    <2>1. pc[t] = "connect" /\ Retry(t) /\ requests' = requests /\ calls' = calls
      BY <1>1 DEF ConnectFails
    <2>2. \A e \in calls : e.count = submission[t].count => e.mode = "forgotten"
      BY <2>1, ConnectingFacts
    <2>3. \A e \in calls : CallGood(e)'
      BY <2>1, <2>2, FailCalls
    <2> QED BY <2>1, <2>3 DEF InvCalls
  <1>2. ASSUME NEW c \in calls, CallStepOf(c) PROVE InvCalls'
    BY <1>2, CallStepCalls
  <1>3. SubmitStep => InvCalls'
    BY SubmitCalls DEF SubmitStep
  <1>4. ASSUME NEW t \in Thread, NextSequenceNumber(t) \/ Invoke(t) \/ Return(t) \/ LoseAnswer(t)
        PROVE  InvCalls'
    BY <1>4, NextCalls, InvokeCalls, ReturnCalls, LoseCalls
  <1> QED BY <1>1, <1>2, <1>3, <1>4 DEF WorkStep, CallStepOf

(* How a step changes the set of calls.                                    *)
Takes(c) ==
  \/ Gone(c)
  \/ Becomes(c, Forgotten(c))
  \/ c.mode # "forgotten" /\ \E state \in {"executed", "stale"} : Becomes(c, InState(c, state))

LEMMA WorkTakes ==
  ASSUME TypeOK, TypeThreads, InvCalls, WorkStep
  PROVE  \/ calls' = calls
         \/ \E t \in Thread : Invoke(t)
         \/ \E c \in calls : Takes(c)
  <1>1. SubmitStep => calls' = calls
    BY DEF SubmitStep, Submit
  <1>2. \A t \in Thread : NextSequenceNumber(t) \/ ConnectFails(t) => calls' = calls
    BY DEF NextSequenceNumber, ConnectFails
  <1>3. ASSUME NEW t \in Thread, Return(t) PROVE \E c \in calls : Takes(c)
    BY <1>3, ReturnFacts DEF Takes, Gone
  <1>4. ASSUME NEW t \in Thread, LoseAnswer(t) PROVE \E c \in calls : Takes(c)
    BY <1>4, LoseFacts DEF Takes
  <1>5. ASSUME NEW c \in calls, CallStepOf(c) PROVE Takes(c)
    <2>1. CASE Execute(c)
      BY <2>1, ExecuteFacts DEF Takes
    <2>2. CASE Cancel(c)
      BY <2>2, CancelFacts DEF Takes
    <2>3. CASE ~Execute(c) /\ ~Cancel(c)
      BY <1>5, <2>3, CallStepCases DEF Takes
    <2> QED BY <2>1, <2>2, <2>3
  <1> QED BY <1>1, <1>2, <1>3, <1>4, <1>5 DEF WorkStep, CallStepOf

(* A call stays forgotten.                                                 *)
Remains(e) == \E c \in calls : e.count = c.count /\ (c.mode = "forgotten" => e.mode = "forgotten")

LEMMA TakesFacts ==
  ASSUME TypeOK, InvOneCall, NEW c \in calls, Takes(c)
  PROVE  InvOneCall' /\ \A e \in calls' : Remains(e)
  <1>1. c \in CallType
    BY DEF TypeOK
  <1>2. ASSUME Gone(c) PROVE InvOneCall' /\ \A e \in calls' : Remains(e)
    BY <1>2 DEF InvOneCall, Gone, Remains
  <1>3. ASSUME NEW e, e.count = c.count, c.mode = "forgotten" => e.mode = "forgotten", Becomes(c, e)
        PROVE  InvOneCall' /\ \A x \in calls' : Remains(x)
    <2>1. \A x \in calls' : x = e \/ (x \in calls /\ x # c)
      BY <1>3 DEF Becomes
    <2>2. \A x \in calls : x # c /\ x.count = e.count /\ e.mode # "forgotten" => x.mode = "forgotten"
      BY <1>3 DEF InvOneCall
    <2>3. \A x, y \in calls : x.count = y.count /\ x.mode # "forgotten" /\ y.mode # "forgotten" => x = y
      BY DEF InvOneCall
    <2>4. \A x, y \in calls' : x.count = y.count /\ x.mode # "forgotten" /\ y.mode # "forgotten" => x = y
      BY <2>1, <2>2, <2>3
    <2>5. InvOneCall'
      BY <2>4 DEF InvOneCall
    <2>6. \A x \in calls' : Remains(x)
      BY <1>3, <2>1 DEF Remains
    <2> QED BY <2>5, <2>6
  <1>4. CASE Becomes(c, Forgotten(c))
    BY <1>1, <1>3, <1>4, CallForms DEF Descends
  <1>5. ASSUME NEW state \in {"executed", "stale"}, c.mode # "forgotten", Becomes(c, InState(c, state))
        PROVE  InvOneCall' /\ \A x \in calls' : Remains(x)
    BY <1>1, <1>3, <1>5, CallForms DEF Descends
  <1> QED BY <1>2, <1>4, <1>5 DEF Takes

LEMMA WorkOneCall ==
  ASSUME TypeOK, TypeThreads, InvOwner, InvUse, InvCalls, InvOneCall, WorkStep
  PROVE  InvOneCall'
  <1>1. ASSUME calls' = calls PROVE InvOneCall'
    BY <1>1 DEF InvOneCall
  <1>2. ASSUME NEW t \in Thread, Invoke(t) PROVE InvOneCall'
    <2>1. pc[t] = "connect" /\ calls' = calls \cup {CallOf(t)}
      BY <1>2 DEF Invoke
    <2>2. \A c \in calls : c.count = submission[t].count => c.mode = "forgotten"
      BY <2>1, ConnectingFacts
    <2>3. CallOf(t).count = submission[t].count
      BY DEF CallOf
    <2>4. \A x, y \in calls : x.count = y.count /\ x.mode # "forgotten" /\ y.mode # "forgotten" => x = y
      BY DEF InvOneCall
    <2>5. \A x, y \in calls' : x.count = y.count /\ x.mode # "forgotten" /\ y.mode # "forgotten" => x = y
      BY <2>1, <2>2, <2>3, <2>4
    <2> QED BY <2>5 DEF InvOneCall
  <1> QED BY <1>1, <1>2, WorkTakes, TakesFacts

LEMMA WorkCounts ==
  ASSUME TypeOK, TypeThreads, InvOwner, InvUse, WorkStep
  PROVE  /\ \A u \in Thread : submission'[u].count \in {submission[u].count, 0, requests + 1}
         /\ requests' \in {requests, requests + 1}
  <1> DEFINE Goal == /\ \A u \in Thread : submission'[u].count \in {submission[u].count, 0, requests + 1}
                     /\ requests' \in {requests, requests + 1}
  <1>1. ASSUME NEW t \in Thread, Others(t), requests' \in {requests, requests + 1},
               submission'[t].count \in {submission[t].count, 0, requests + 1}
        PROVE  Goal
    BY <1>1 DEF Others
  <1>2. ASSUME NEW t \in Thread, NEW o \in Object, NEW mode \in {"blocking", "async"}, Submit(t, o, mode)
        PROVE  Goal
    BY <1>1, <1>2, SubmitFacts
  <1>3. ASSUME NEW t \in Thread, NextSequenceNumber(t) PROVE Goal
    <2>1. /\ Others(t) /\ requests' = requests /\ submission[t] \in Submission
          /\ submission'[t] = [submission[t] EXCEPT
               !.number = connection[submission[t].object].m_sequence_num]
      BY <1>3, NextFacts DEF NextSequenceNumber, TypeThreads
    <2>2. submission'[t].count = submission[t].count
      BY <2>1 DEF Submission
    <2> QED BY <1>1, <2>1, <2>2
  <1>4. ASSUME NEW t \in Thread, Invoke(t) PROVE Goal
    <2>1. Others(t) /\ requests' = requests /\ (Left(t) \/ submission'[t] = submission[t])
      BY <1>4, InvokeFacts DEF Invoke
    <2> QED BY <1>1, <2>1 DEF Left
  <1>5. ASSUME NEW t \in Thread, Return(t) PROVE Goal
    BY <1>1, <1>5, LeaveFacts DEF Return, Left
  <1>6. ASSUME NEW t \in Thread, pc[t] # "idle", Retry(t), requests' = requests PROVE Goal
    <2>1. Others(t) /\ submission[t] \in Submission
      BY <1>6, RetryFacts, InHandFacts
    <2>2. Left(t) \/ Again(t)
      BY <1>6, RetryFacts
    <2>3. submission'[t].count \in {submission[t].count, 0}
      BY <2>1, <2>2 DEF Left, Again, Submission
    <2> QED BY <1>1, <1>6, <2>1, <2>3
  <1>7. ASSUME NEW t \in Thread, ConnectFails(t) \/ LoseAnswer(t) PROVE Goal
    BY <1>6, <1>7, LoseFacts DEF ConnectFails
  <1>8. ASSUME NEW c \in calls, CallStepOf(c) PROVE Goal
    BY <1>8, CallStepCases
  <1> QED BY <1>2, <1>3, <1>4, <1>5, <1>7, <1>8 DEF WorkStep, SubmitStep, CallStepOf

(* What was given up stays so.                                             *)
LEMMA StillGivenUp ==
  ASSUME TypeOK, TypeThreads, InvOwner, InvUse, InvCalls, InvOneCall, WorkStep,
         NEW n \in Nat, n # 0, GivenUp(n)
  PROVE  GivenUp(n)'
  <1>1. /\ requests \in Nat /\ requests' \in {requests, requests + 1} /\ n <= requests
    BY CountFacts, WorkCounts DEF GivenUp
  <1>2. \A u \in Thread : submission'[u].count # n
    <2>1. n # requests + 1
      BY <1>1
    <2>2. \A u \in Thread : submission[u].count # n
      BY DEF GivenUp
    <2> QED BY <2>1, <2>2, WorkCounts
  <1>3. ASSUME NEW e, Remains(e), e.count = n PROVE e.mode = "forgotten"
    BY <1>3 DEF Remains, GivenUp
  <1>4. ASSUME NEW e \in calls', e.count = n PROVE e.mode = "forgotten"
    <2>1. CASE calls' = calls
      BY <1>4, <2>1 DEF GivenUp
    <2>2. ASSUME NEW t \in Thread, Invoke(t) PROVE e.mode = "forgotten"
      <3>1. calls' = calls \cup {CallOf(t)} /\ CallOf(t).count = submission[t].count
        BY <2>2 DEF Invoke, CallOf
      <3>2. submission[t].count # n
        BY DEF GivenUp
      <3> QED BY <1>4, <3>1, <3>2 DEF GivenUp
    <2>3. ASSUME NEW c \in calls, Takes(c) PROVE e.mode = "forgotten"
      BY <1>3, <1>4, <2>3, TakesFacts
    <2> QED BY <2>1, <2>2, <2>3, WorkTakes
  <1>5. n <= requests'
    BY <1>1
  <1> QED BY <1>2, <1>4, <1>5 DEF GivenUp

LEMMA LeavingGivesUp ==
  ASSUME TypeOK, TypeThreads, InvUse, NEW t \in Thread, pc[t] # "idle", Left(t), Others(t), requests' = requests,
         \A e \in calls' : e.count = submission[t].count => e.mode = "forgotten",
         NEW n, n = submission[t].count
  PROVE  GivenUp(n)'
  <1>1. \A u \in Thread : submission'[u].count # n
    <2>1. submission'[t].count # n
      BY CountFacts DEF Left
    <2> QED BY <2>1, CountFacts DEF Others
  <1>2. n <= requests'
    BY CountFacts
  <1> QED BY <1>1, <1>2 DEF GivenUp

LEMMA WorkAbandoned ==
  ASSUME TypeOK, TypeThreads, InvOwner, InvUse, InvCalls, InvOneCall, InvAbandoned, WorkStep
  PROVE  InvAbandoned'
  <1>1. ASSUME NEW x \in abandoned PROVE GivenUp(x[2])'
    <2>1. x[2] \in Nat /\ x[2] # 0
      BY ClientAssumption DEF TypeThreads
    <2> QED BY <2>1, StillGivenUp DEF InvAbandoned
  <1>2. ASSUME abandoned' = abandoned PROVE InvAbandoned'
    BY <1>1, <1>2 DEF InvAbandoned
  <1>3. ASSUME NEW s, NEW n, abandoned' = abandoned \cup {<<s, n>>}, GivenUp(n)' PROVE InvAbandoned'
    BY <1>1, <1>3 DEF InvAbandoned
  <1>4. ASSUME NEW t \in Thread, pc[t] # "idle", Retry(t), requests' = requests,
               \A e \in calls' : e.count = submission[t].count => e.mode = "forgotten"
        PROVE  InvAbandoned'
    <2>1. Others(t)
      BY <1>4, RetryFacts
    <2>2. CASE Again(t) /\ abandoned' = abandoned
      BY <1>2, <2>2
    <2>3. CASE Left(t) /\ abandoned' = abandoned \cup {<<SessionOf(submission[t].object), submission[t].count>>}
      <3>1. \A n : n = submission[t].count => GivenUp(n)'
        BY <1>4, <2>1, <2>3, LeavingGivesUp
      <3> QED BY <1>3, <2>3, <3>1
    <2> QED BY <1>4, <2>2, <2>3, RetryFacts
  <1>5. ASSUME NEW t \in Thread, ConnectFails(t) PROVE InvAbandoned'
    BY <1>4, <1>5, ConnectingFacts DEF ConnectFails
  <1>6. ASSUME NEW t \in Thread, LoseAnswer(t) PROVE InvAbandoned'
    <2>1. pc[t] # "idle" /\ Retry(t) /\ requests' = requests
      BY <1>6, LoseFacts
    <2>2. PICK c \in calls : Waits(t, c) /\ (Gone(c) \/ Becomes(c, Forgotten(c)))
      BY <1>6, LoseFacts
    <2>3. \A e \in calls : e.count = submission[t].count /\ e # c => e.mode = "forgotten"
      BY <2>2, WaitedFacts
    <2>4. Forgotten(c).mode = "forgotten"
      BY CallForms DEF TypeOK
    <2>5. \A e \in calls' : e.count = submission[t].count => e.mode = "forgotten"
      BY <2>2, <2>3, <2>4 DEF Gone, Becomes
    <2> QED BY <1>4, <2>1, <2>5
  <1>7. ASSUME NEW c \in calls, Cancel(c) PROVE InvAbandoned'
    <2>1. /\ c.mode = "async" /\ abandoned' = abandoned \cup {<<c.session, c.count>>}
          /\ Gone(c) \/ Becomes(c, Forgotten(c))
      BY <1>7, CancelFacts
    <2>2. submission' = submission /\ requests' = requests
      BY <1>7, CallStepCases DEF CallStepOf
    <2>3. Forgotten(c).mode = "forgotten"
      BY CallForms DEF TypeOK
    <2>4. c.count <= requests /\ \A t \in Thread : submission[t].count # c.count
      BY <2>1 DEF InvCalls, CallGood
    <2>5. \A e \in calls : e.count = c.count /\ e # c => e.mode = "forgotten"
      BY <2>1 DEF InvOneCall
    <2>6. \A e \in calls' : e.count = c.count => e.mode = "forgotten"
      BY <2>1, <2>3, <2>5 DEF Gone, Becomes
    <2>7. \A n : n = c.count => GivenUp(n)'
      BY <2>2, <2>4, <2>6 DEF GivenUp
    <2> QED BY <1>3, <2>1, <2>7
  <1>8. ASSUME NEW c \in calls, CallStepOf(c), ~Cancel(c) PROVE abandoned' = abandoned
    BY <1>8, CallStepCases, ExecuteFacts
  <1>9. SubmitStep => abandoned' = abandoned
    BY DEF SubmitStep, Submit
  <1>10. \A t \in Thread : NextSequenceNumber(t) \/ Invoke(t) \/ Return(t) => abandoned' = abandoned
    BY DEF NextSequenceNumber, Invoke, Return
  <1> QED BY <1>2, <1>5, <1>6, <1>7, <1>8, <1>9, <1>10 DEF WorkStep, CallStepOf

----------------------------------------------------------------------------
(* Numbers that were drawn reach the server. *)

InvokesNext(u, s, n) ==
  pc[u] = "connect" /\ submission[u].number = n /\ SessionOf(submission[u].object) = s
Underway(c, s, n) == c.session = s /\ c.number = n /\ c.state = "sent" /\ c.mode # "forgotten"

LEMMA WayCases ==
  ASSUME NEW s, NEW n
  PROVE  OnItsWay(s, n) <=> \/ \E c \in calls : Underway(c, s, n)
                            \/ \E u \in Thread : InvokesNext(u, s, n)
  BY DEF OnItsWay, Underway, InvokesNext

(* A thread with the number stays there.                                   *)
LEMMA ThreadStays ==
  ASSUME TypeOK, TypeThreads, InvOwner, InvUse, InvCalls, WorkStep,
         NEW u \in Thread, NEW s, NEW n, InvokesNext(u, s, n),
         pc'[u] = "connect", submission'[u].number = submission[u].number,
         submission'[u].object = submission[u].object
  PROVE  OnItsWay(s, n)'
  <1>1. connection'[submission[u].object].session = connection[submission[u].object].session
    BY InHandFacts, WorkObjects DEF InvokesNext
  <1> QED BY <1>1 DEF OnItsWay, InvokesNext, SessionOf

LEMMA OthersStay ==
  ASSUME TypeOK, TypeThreads, InvOwner, InvUse, InvCalls, WorkStep, NEW t \in Thread, Others(t),
         NEW u \in Thread, u # t, NEW s, NEW n, InvokesNext(u, s, n)
  PROVE  OnItsWay(s, n)'
  BY ThreadStays DEF Others, InvokesNext

LEMMA CallStays ==
  ASSUME NEW c \in calls', NEW s, NEW n, Underway(c, s, n)
  PROVE  OnItsWay(s, n)'
  BY DEF OnItsWay, Underway

(* What a step has to show for InvNumbers: numbers the server still        *)
(* expects stay on their way, but in sessions where something is given up. *)
Stays ==
  \A s \in Session, n \in Nat :
    OnItsWay(s, n) /\ expected'[s] <= n /\ (\A x \in abandoned' : x[1] # s) => OnItsWay(s, n)'

LEMMA StaysNumbers ==
  ASSUME TypeOK, TypeThreads, InvOwner, InvNumbers, Stays, SameObjects, SameNumbers,
         abandoned \subseteq abandoned', expected' \in [Session -> Nat],
         \A s \in Session : expected[s] <= expected'[s]
  PROVE  InvNumbers'
  <1>1. ASSUME NEW s, NEW o \in Object, Holds(o)', connection'[o].session = s,
               connection'[o].m_sequence_num # OutOfOrder, \A x \in abandoned' : x[1] # s,
               NEW n \in expected'[s] .. connection'[o].m_sequence_num - 1
        PROVE  OnItsWay(s, n)'
    <2>1. Holds(o)
      BY <1>1 DEF SameObjects, Same, Holds
    <2>2. connection[o].session = s /\ connection'[o].m_sequence_num = connection[o].m_sequence_num
      BY <1>1, <2>1 DEF SameObjects, SameNumbers, Same, Holds
    <2>3. s \in Session
      <3>1. s \in 1 .. sessions
        BY <2>1, <2>2 DEF InvOwner, SessionOf
      <3>2. sessions \in 0 .. Len(ServerSize) /\ Len(ServerSize) \in Nat /\ Session = 1 .. Len(ServerSize)
        BY ClientAssumption, LenProperties DEF TypeOK, Session
      <3> QED BY <3>1, <3>2
    <2>4. connection[o].m_sequence_num \in Nat
      BY <1>1, <2>1, <2>2, ConnectionFacts DEF Holds, Connection
    <2>5. expected[s] \in Nat /\ expected'[s] \in Nat /\ expected[s] <= expected'[s]
      BY <2>3 DEF TypeOK
    <2>6. /\ n \in expected[s] .. connection[o].m_sequence_num - 1
          /\ n \in Nat /\ expected'[s] <= n
      BY <1>1, <2>2, <2>4, <2>5
    <2>7. OnItsWay(s, n)
      BY <1>1, <2>1, <2>2, <2>6 DEF InvNumbers, SessionOf
    <2> QED BY <1>1, <2>3, <2>6, <2>7 DEF Stays
  <1> QED BY <1>1 DEF InvNumbers, SessionOf

LEMMA InvokeStays ==
  ASSUME TypeOK, TypeThreads, InvOwner, InvUse, InvCalls, WorkStep, NEW t \in Thread, Invoke(t)
  PROVE  Stays
  <1> SUFFICES ASSUME NEW s \in Session, NEW n \in Nat, OnItsWay(s, n) PROVE OnItsWay(s, n)'
    BY DEF Stays
  <1>1. pc[t] = "connect" /\ Others(t) /\ calls' = calls \cup {CallOf(t)}
    BY InvokeFacts
  <1>2. ASSUME NEW c \in calls, Underway(c, s, n) PROVE OnItsWay(s, n)'
    BY <1>1, <1>2, CallStays
  <1>3. ASSUME InvokesNext(t, s, n) PROVE OnItsWay(s, n)'
    <2>1. ASSUME NEW c, c = CallOf(t) PROVE Underway(c, s, n) /\ c \in calls'
      <3>1. c.mode = submission[t].mode /\ c.state = "sent" /\ c.number = n /\ c.session = s
        BY <1>3, <2>1 DEF CallOf, InvokesNext
      <3>2. submission[t].mode # "forgotten"
        BY <1>1, InHandFacts
      <3> QED BY <1>1, <2>1, <3>1, <3>2 DEF Underway
    <2> QED BY <2>1, CallStays
  <1>4. ASSUME NEW u \in Thread, u # t, InvokesNext(u, s, n) PROVE OnItsWay(s, n)'
    BY <1>1, <1>4, OthersStay
  <1> QED BY <1>2, <1>3, <1>4, WayCases

LEMMA ReturnStays ==
  ASSUME TypeOK, TypeThreads, InvOwner, InvUse, InvCalls, WorkStep, NEW t \in Thread, Return(t)
  PROVE  Stays
  <1> SUFFICES ASSUME NEW s \in Session, NEW n \in Nat, OnItsWay(s, n) PROVE OnItsWay(s, n)'
    BY DEF Stays
  <1>1. PICK c \in calls : Waits(t, c) /\ c.state \in {"executed", "stale"} /\ calls' = calls \ {c}
    BY ReturnFacts
  <1>2. pc[t] = "wait" /\ Others(t)
    BY <1>1, LeaveFacts DEF Waits, Return
  <1>3. ASSUME NEW e \in calls, Underway(e, s, n) PROVE OnItsWay(s, n)'
    <2>1. e \in calls'
      BY <1>1, <1>3 DEF Underway
    <2> QED BY <1>3, <2>1, CallStays
  <1>4. ASSUME NEW u \in Thread, InvokesNext(u, s, n) PROVE OnItsWay(s, n)'
    BY <1>2, <1>4, OthersStay DEF InvokesNext
  <1> QED BY <1>3, <1>4, WayCases

(* Where an attempt fails, the number is in hand again, or given up.       *)
LEMMA FailStays ==
  ASSUME TypeOK, TypeThreads, InvOwner, InvUse, InvCalls, WorkStep,
         NEW t \in Thread, pc[t] \in {"connect", "wait"}, Retry(t),
         NEW s \in Session, NEW n \in Nat, \A x \in abandoned' : x[1] # s,
         \/ \E u \in Thread : InvokesNext(u, s, n)
         \/ submission[t].number = n /\ SessionOf(submission[t].object) = s
  PROVE  OnItsWay(s, n)'
  <1>1. Others(t) /\ submission[t] \in Submission /\ submission[t].object \in Object /\ Holds(submission[t].object)
    BY RetryFacts, InHandFacts
  <1>2. CASE submission[t].number = n /\ SessionOf(submission[t].object) = s
    <2>1. <<SessionOf(submission[t].object), submission[t].count>> \notin abandoned'
      BY <1>2
    <2>2. Again(t)
      BY <2>1, RetryFacts
    <2>3. /\ pc'[t] = "connect" /\ submission'[t].number = submission[t].number
          /\ submission'[t].object = submission[t].object
      BY <1>1, <2>2 DEF Again, Submission
    <2>4. connection'[submission[t].object].session = s
      BY <1>1, <1>2, WorkObjects DEF SessionOf
    <2> QED BY <1>2, <2>3, <2>4 DEF OnItsWay, SessionOf
  <1>3. ASSUME NEW u \in Thread, u # t, InvokesNext(u, s, n) PROVE OnItsWay(s, n)'
    BY <1>1, <1>3, OthersStay
  <1>4. CASE InvokesNext(t, s, n)
    BY <1>2, <1>4 DEF InvokesNext
  <1> QED BY <1>2, <1>3, <1>4

LEMMA FailsStays ==
  ASSUME TypeOK, TypeThreads, InvOwner, InvUse, InvCalls, WorkStep, NEW t \in Thread, ConnectFails(t)
  PROVE  Stays
  <1> SUFFICES ASSUME NEW s \in Session, NEW n \in Nat, OnItsWay(s, n), \A x \in abandoned' : x[1] # s
               PROVE  OnItsWay(s, n)'
    BY DEF Stays
  <1>1. pc[t] = "connect" /\ Retry(t) /\ calls' = calls
    BY DEF ConnectFails
  <1>2. ASSUME NEW c \in calls, Underway(c, s, n) PROVE OnItsWay(s, n)'
    BY <1>1, <1>2, CallStays
  <1>3. ASSUME NEW u \in Thread, InvokesNext(u, s, n) PROVE OnItsWay(s, n)'
    BY <1>1, <1>3, FailStays
  <1> QED BY <1>2, <1>3, WayCases

LEMMA LoseStays ==
  ASSUME TypeOK, TypeThreads, InvOwner, InvUse, InvCalls, InvOneCall, WorkStep,
         NEW t \in Thread, LoseAnswer(t)
  PROVE  Stays
  <1> SUFFICES ASSUME NEW s \in Session, NEW n \in Nat, OnItsWay(s, n), \A x \in abandoned' : x[1] # s
               PROVE  OnItsWay(s, n)'
    BY DEF Stays
  <1>1. pc[t] = "wait" /\ Retry(t)
    BY LoseFacts
  <1>2. PICK c \in calls : Waits(t, c) /\ (Gone(c) \/ Becomes(c, Forgotten(c)))
    BY LoseFacts
  <1>3. c.session = SessionOf(submission[t].object) /\ c.number = submission[t].number
    BY <1>2, WaitedFacts
  <1>4. ASSUME NEW e \in calls, Underway(e, s, n) PROVE OnItsWay(s, n)'
    <2>1. CASE e = c
      BY <1>1, <1>3, <1>4, <2>1, FailStays DEF Underway
    <2>2. CASE e # c
      <3>1. e \in calls'
        BY <1>2, <2>2 DEF Gone, Becomes
      <3> QED BY <1>4, <3>1, CallStays
    <2> QED BY <2>1, <2>2
  <1>5. ASSUME NEW u \in Thread, InvokesNext(u, s, n) PROVE OnItsWay(s, n)'
    BY <1>1, <1>5, FailStays
  <1> QED BY <1>4, <1>5, WayCases

(* The server and the futures take a call away only where its number is    *)
(* executed, stale or given up.                                            *)
LEMMA CallStepStays ==
  ASSUME TypeOK, TypeThreads, InvOwner, InvUse, InvCalls, WorkStep, NEW c \in calls, CallStepOf(c)
  PROVE  Stays
  <1> SUFFICES ASSUME NEW s \in Session, NEW n \in Nat, OnItsWay(s, n), expected'[s] <= n,
                      \A x \in abandoned' : x[1] # s
               PROVE  OnItsWay(s, n)'
    BY DEF Stays
  <1>1. pc' = pc /\ submission' = submission
    BY CallStepCases
  <1>2. ASSUME NEW u \in Thread, InvokesNext(u, s, n) PROVE OnItsWay(s, n)'
    BY <1>1, <1>2, ThreadStays DEF InvokesNext
  <1>3. \A e \in calls : e # c => e \in calls'
    <2>1. Execute(c) => Gone(c) \/ Becomes(c, InState(c, "executed"))
      BY ExecuteFacts
    <2>2. Cancel(c) => Gone(c) \/ Becomes(c, Forgotten(c))
      BY CancelFacts
    <2>3. ~Execute(c) /\ ~Cancel(c) => Gone(c) \/ Becomes(c, InState(c, "stale"))
      BY CallStepCases
    <2> QED BY <2>1, <2>2, <2>3 DEF Gone, Becomes
  <1>4. expected[s] \in Nat /\ OutOfOrder \notin Nat
    BY ClientAssumption DEF TypeOK
  <1>5. ASSUME Underway(c, s, n) PROVE FALSE
    <2>1. c.session = s /\ c.number = n /\ c.state = "sent" /\ c.mode # "forgotten"
      BY <1>5 DEF Underway
    <2>2. CASE Execute(c)
      <3>1. expected'[s] = expected[s] + 1 /\ n = expected[s]
        BY <1>4, <2>1, <2>2, ExecuteFacts
      <3>2. ~(expected[s] + 1 <= expected[s])
        BY <1>4
      <3> QED BY <3>1, <3>2
    <2>3. CASE Refuse(c)
      <3>1. n < expected[s] /\ expected'[s] = expected[s]
        BY <2>1, <2>3 DEF Refuse
      <3> QED BY <1>4, <3>1
    <2>4. CASE Callback(c)
      BY <2>1, <2>4 DEF Callback
    <2>5. CASE Cancel(c)
      <3>1. <<s, c.count>> \in abandoned'
        BY <2>1, <2>5, CancelFacts
      <3> QED BY <3>1
    <2>6. CASE Vanish(c)
      BY <2>1, <2>6 DEF Vanish
    <2> QED BY <2>2, <2>3, <2>4, <2>5, <2>6 DEF CallStepOf
  <1>6. ASSUME NEW e \in calls, Underway(e, s, n) PROVE OnItsWay(s, n)'
    <2>1. e \in calls'
      BY <1>3, <1>5, <1>6
    <2> QED BY <1>6, <2>1, CallStays
  <1> QED BY <1>2, <1>6, WayCases

LEMMA NextNumbers ==
  ASSUME TypeOK, TypeThreads, InvOwner, InvUse, InvCalls, InvNumbers, WorkStep,
         NEW t \in Thread, NextSequenceNumber(t)
  PROVE  InvNumbers'
  <1> DEFINE p == submission[t].object
             num == connection[p].m_sequence_num
  <1>1. /\ p \in Object /\ Holds(p) /\ SameObjects
        /\ num \in Nat \cup {OutOfOrder} /\ connection'[p].m_sequence_num = Successor(num)
        /\ \A q \in Object : q # p => connection'[q] = connection[q]
    BY NextObjects
  <1>2. /\ pc[t] = "number" /\ pc'[t] = "connect" /\ Others(t) /\ submission[t] \in Submission
        /\ submission'[t] = [submission[t] EXCEPT !.number = num]
        /\ expected' = expected /\ abandoned' = abandoned /\ calls' = calls
    BY NextFacts DEF NextSequenceNumber, TypeThreads
  <1>3. submission'[t].number = num /\ submission'[t].object = p
    BY <1>2 DEF Submission
  <1>4. connection'[p].session = connection[p].session
    BY <1>1, WorkObjects
  <1>5. ASSUME NEW s, NEW n, OnItsWay(s, n) PROVE OnItsWay(s, n)'
    <2>1. ASSUME NEW c \in calls, Underway(c, s, n) PROVE OnItsWay(s, n)'
      BY <1>2, <2>1, CallStays
    <2>2. ASSUME NEW u \in Thread, InvokesNext(u, s, n) PROVE OnItsWay(s, n)'
      BY <1>2, <2>2, OthersStay DEF InvokesNext
    <2> QED BY <1>5, <2>1, <2>2, WayCases
  <1> HIDE DEF p, num
  <1>6. ASSUME NEW s, s = connection[p].session PROVE \A n : n = num => OnItsWay(s, n)'
    BY <1>2, <1>3, <1>4, <1>6 DEF OnItsWay, SessionOf
  <1>7. ASSUME NEW s, NEW o \in Object, Holds(o)', connection'[o].session = s,
               connection'[o].m_sequence_num # OutOfOrder, \A x \in abandoned : x[1] # s,
               NEW n \in expected[s] .. connection'[o].m_sequence_num - 1
        PROVE  OnItsWay(s, n)'
    <2>1. Holds(o) /\ connection[o].session = s
      BY <1>1, <1>7 DEF SameObjects, Same, Holds
    <2>2. CASE o # p
      BY <1>1, <1>5, <1>7, <2>1, <2>2 DEF InvNumbers, SessionOf
    <2>3. CASE o = p
      <3>1. num \in Nat /\ connection'[p].m_sequence_num = num + 1 /\ num # OutOfOrder
        BY <1>1, <1>7, <2>3, ClientAssumption DEF Successor
      <3>2. expected[s] \in Nat
        <4>1. s \in Session
          BY <1>2, <2>1, <2>3, InHandFacts DEF SessionOf, p
        <4> QED BY <4>1 DEF TypeOK
      <3>3. n = num \/ n \in expected[s] .. num - 1
        BY <1>7, <2>3, <3>1, <3>2
      <3>4. CASE n = num
        BY <1>6, <2>1, <2>3, <3>4
      <3>5. CASE n \in expected[s] .. num - 1
        BY <1>5, <1>7, <2>1, <2>3, <3>1, <3>5 DEF InvNumbers, SessionOf, num
      <3> QED BY <3>3, <3>4, <3>5
    <2> QED BY <2>2, <2>3
  <1> QED BY <1>2, <1>7 DEF InvNumbers, SessionOf

LEMMA WorkNumbers ==
  ASSUME TypeOK, TypeThreads, InvOwner, InvUse, InvCalls, InvOneCall, InvNumbers, WorkStep
  PROVE  InvNumbers'
  <1>1. ASSUME QuietStep PROVE InvNumbers'
    <2>1. Stays
      <3>1. CASE SubmitStep
        <4>1. PICK t \in Thread, o \in Object, mode \in {"blocking", "async"} : Submit(t, o, mode)
          BY <3>1 DEF SubmitStep
        <4>2. pc[t] = "idle" /\ Others(t) /\ calls' = calls
          BY <4>1, SubmitFacts DEF Submit
        <4>3. ASSUME NEW s \in Session, NEW n \in Nat, OnItsWay(s, n) PROVE OnItsWay(s, n)'
          <5>1. ASSUME NEW c \in calls, Underway(c, s, n) PROVE OnItsWay(s, n)'
            BY <4>2, <5>1, CallStays
          <5>2. ASSUME NEW u \in Thread, InvokesNext(u, s, n) PROVE OnItsWay(s, n)'
            BY <4>2, <5>2, OthersStay DEF InvokesNext
          <5> QED BY <4>3, <5>1, <5>2, WayCases
        <4> QED BY <4>3 DEF Stays
      <3> QED BY <1>1, <3>1, InvokeStays, ReturnStays, FailsStays, LoseStays, CallStepStays DEF QuietStep
    <2>2. SameObjects /\ SameNumbers
      BY <1>1, QuietObjects
    <2>3. expected' \in [Session -> Nat] /\ expected \in [Session -> Nat]
      BY WorkTypes DEF WorkTyped, TypeOK
    <2>4. abandoned \subseteq abandoned' /\ \A s \in Session : expected[s] <= expected'[s]
      <3>1. ASSUME expected' = expected PROVE \A s \in Session : expected[s] <= expected'[s]
        BY <2>3, <3>1
      <3>2. CASE SubmitStep
        BY <3>1, <3>2 DEF SubmitStep, Submit
      <3>3. ASSUME NEW t \in Thread, Invoke(t) \/ Return(t) PROVE abandoned' = abandoned /\ expected' = expected
        BY <3>3 DEF Invoke, Return
      <3>4. ASSUME NEW t \in Thread, ConnectFails(t) \/ LoseAnswer(t)
            PROVE  abandoned \subseteq abandoned' /\ expected' = expected
        BY <3>4 DEF ConnectFails, LoseAnswer, Retry
      <3>5. ASSUME NEW c \in calls, CallStepOf(c)
            PROVE  abandoned \subseteq abandoned' /\ \A s \in Session : expected[s] <= expected'[s]
        <4>1. CASE Execute(c)
          <5>1. abandoned' = abandoned /\ c.session \in Session
            BY <4>1, ExecuteFacts
          <5>2. expected' = expected
                \/ /\ expected'[c.session] = expected[c.session] + 1
                   /\ \A s \in Session : s # c.session => expected'[s] = expected[s]
            BY <4>1, ExecuteFacts
          <5>3. \A s \in Session : expected'[s] = expected[s] \/ expected'[s] = expected[s] + 1
            BY <5>1, <5>2
          <5> QED BY <2>3, <5>1, <5>3
        <4>2. CASE Cancel(c)
          BY <3>1, <4>2 DEF Cancel
        <4>3. CASE ~Execute(c) /\ ~Cancel(c)
          BY <3>1, <3>5, <4>3, CallStepCases
        <4> QED BY <4>1, <4>2, <4>3
      <3> QED BY <1>1, <3>1, <3>2, <3>3, <3>4, <3>5 DEF QuietStep
    <2> QED BY <2>1, <2>2, <2>3, <2>4, StaysNumbers
  <1> QED BY <1>1, NextNumbers, WorkCases

----------------------------------------------------------------------------
(* The invariant. *)

LEMMA InvInit ==
  ASSUME ManagedInit
  PROVE  IInv
  <1>1. /\ connection = [o \in Object |-> Nothing] /\ sessions = 0
        /\ pc = [t \in Thread |-> "idle"] /\ submission = [t \in Thread |-> Idle]
        /\ requests = 0 /\ calls = {} /\ expected = [s \in Session |-> 0]
        /\ executed = [s \in Session |-> <<>>] /\ abandoned = {}
        /\ handles = {} /\ m_handle = [m \in Manager |-> Nothing] /\ inside = {}
    BY DEF ManagedInit, Init
  <1>2. Idle \in Submission /\ Idle.count = 0 /\ MaxRequests \in Nat /\ Len(ServerSize) \in Nat
    BY ClientAssumption, LenProperties DEF Idle, Submission
  <1>3. TypeOK
    BY <1>1, <1>2 DEF TypeOK
  <1>4. TypeThreads
    <2>1. <<>> \in Seq(Entry)
      BY EmptySeq
    <2> QED BY <1>1, <1>2, <2>1 DEF TypeThreads
  <1>5. \A o \in Object : ~Alive(o) /\ ~Holds(o)
    BY <1>1 DEF Alive, Holds
  <1>6. InvOwner /\ InvHandles /\ OneOwner /\ InvNumbers
    BY <1>1, <1>5 DEF InvOwner, InvHandles, OneOwner, InvNumbers
  <1>7. InvUse
    BY <1>1, <1>2 DEF InvUse
  <1>8. \A d \in Ticket : ~Drawn(d)
    <2> SUFFICES ASSUME NEW d \in Ticket PROVE ~Drawn(d)
      OBVIOUS
    <2>1. d.thread \in Thread /\ d.session \in Session
      BY DEF Ticket
    <2>2. ~InHand(d) /\ ~InCall(d)
      BY <1>1, <2>1 DEF InHand, InCall
    <2>3. ~AtServer(d)
      BY <1>1, <2>1 DEF AtServer
    <2> QED BY <2>2, <2>3 DEF Drawn
  <1>9. InvDrawn /\ InvOrder
    BY <1>8 DEF InvDrawn, InvOrder
  <1>10. InvExecuted
    BY <1>1 DEF InvExecuted
  <1>11. InvCalls /\ InvOneCall /\ InvAbandoned
    BY <1>1 DEF InvCalls, InvOneCall, InvAbandoned
  <1> QED BY <1>3, <1>4, <1>6, <1>7, <1>9, <1>10, <1>11 DEF IInv

LEMMA LifeInv ==
  ASSUME IInv, LifeStep, HandlesOwn'
  PROVE  IInv'
  <1>1. /\ TypeOK /\ TypeThreads /\ InvOwner /\ InvUse /\ InvDrawn /\ InvOrder /\ InvExecuted
        /\ InvCalls /\ InvOneCall /\ InvAbandoned /\ InvNumbers
    BY DEF IInv
  <1>2. /\ pc' = pc /\ submission' = submission /\ requests' = requests /\ calls' = calls
        /\ expected' = expected /\ executed' = executed /\ abandoned' = abandoned
    BY DEF LifeStep
  <1>3. TypeOK' /\ TypeThreads'
    BY <1>1, <1>2, LifeTyped DEF TypeOK, TypeThreads, HandlesOwn, TypeHandles
  <1>4. InvOwner' /\ InvUse' /\ InvDrawn' /\ InvCalls' /\ InvNumbers'
    BY <1>1, LifeOwner, LifeUse, LifeDrawn, LifeCalls, LifeNumbers
  <1>5. InvOrder'
    BY <1>1, LifeDraws DEF InvOrder
  <1>6. InvExecuted' /\ InvOneCall' /\ InvAbandoned'
    BY <1>1, <1>2 DEF InvExecuted, InvOneCall, InvAbandoned, GivenUp
  <1>7. OneOwner' /\ InvHandles'
    <2>1. \A o \in Object : Holds(o)' => connection'[o].m_reinit_uploader = o
      BY <1>4 DEF InvOwner
    <2>2. LastHandle' /\ InvHandles'
      BY DEF HandlesOwn
    <2> QED BY <2>1, <2>2 DEF OneOwner, LastHandle, Holds, Alive, SessionOf
  <1> QED BY <1>3, <1>4, <1>5, <1>6, <1>7 DEF IInv

LEMMA WorkInv ==
  ASSUME IInv, WorkStep, HandlesOwn'
  PROVE  IInv'
  <1>1. /\ TypeOK /\ TypeThreads /\ InvOwner /\ InvUse /\ InvDrawn /\ InvOrder /\ InvExecuted
        /\ InvCalls /\ InvOneCall /\ InvAbandoned /\ InvNumbers
    BY DEF IInv
  <1>2. SameObjects /\ InvOwner' /\ WorkTyped
    BY <1>1, WorkObjects, WorkTypes
  <1>3. TypeOK' /\ TypeThreads'
    BY <1>1, <1>2 DEF TypeOK, TypeThreads, SameObjects, WorkTyped, ThreadsTyped, HandlesOwn, TypeHandles
  <1>4. InvUse' /\ InvExecuted' /\ InvCalls' /\ InvOneCall' /\ InvAbandoned' /\ InvNumbers'
    BY <1>1, WorkUse, WorkExecuted, WorkCalls, WorkOneCall, WorkAbandoned, WorkNumbers
  <1>5. InvDrawn' /\ InvOrder'
    BY <1>1, WorkCases, QuietDrawn, QuietOrder, NextDrawn, NextOrder
  <1>6. OneOwner' /\ InvHandles'
    <2>1. \A o \in Object : Holds(o)' => connection'[o].m_reinit_uploader = o
      BY <1>2 DEF InvOwner
    <2>2. LastHandle' /\ InvHandles'
      BY DEF HandlesOwn
    <2> QED BY <2>1, <2>2 DEF OneOwner, LastHandle, Holds, Alive, SessionOf
  <1> QED BY <1>2, <1>3, <1>4, <1>5, <1>6 DEF IInv

LEMMA InvStep ==
  ASSUME IInv, [Next]_allVars
  PROVE  IInv'
  <1>1. /\ TypeOK /\ TypeThreads /\ InvOwner /\ InvUse /\ InvCalls /\ InvHandles /\ OneOwner
    BY DEF IInv
  <1>2. HandlesOwn
    BY <1>1 DEF HandlesOwn, TypeHandles, TypeOK, OneOwner, LastHandle
  <1>3. CASE Next
    <2>1. HandlesOwn'
      BY <1>1, <1>2, <1>3, HandlesStep
    <2>2. LifeStep \/ WorkStep \/ UNCHANGED allVars
      BY <1>1, <1>3, NextCases
    <2>3. UNCHANGED allVars => LifeStep
      <3>1. Nothing \in Place /\ Removes(Nothing) <=> connection' = connection /\ sessions' = sessions
        BY DEF Place, Removes, CanDisconnect, Without
      <3> QED BY <3>1 DEF LifeStep, Place
    <2> QED BY <2>1, <2>2, <2>3, LifeInv, WorkInv
  <1>4. CASE UNCHANGED allVars
    <2>1. HandlesOwn'
      BY <1>2, <1>4 DEF HandlesOwn, TypeHandles, LastHandle, InvHandles, Alive
    <2>2. LifeStep
      <3>1. Removes(Nothing)
        BY <1>4 DEF Removes, CanDisconnect, Without
      <3> QED BY <1>4, <3>1 DEF LifeStep, Place
    <2> QED BY <2>1, <2>2, LifeInv
  <1> QED BY <1>3, <1>4

(* The inductive invariant, of all behaviours of clients, their managers   *)
(* and the server.                                                         *)
THEOREM Invariance == Spec => []IInv
  BY InvInit, InvStep, PTL DEF Spec

(* The variables have their types: in particular, the connection objects,  *)
(* calls and handles of the program are always what their types say.       *)
THEOREM TypeCorrect == Spec => []TypeOK
  <1>1. IInv => TypeOK
    BY DEF IInv
  <1> QED BY <1>1, Invariance, PTL

(* A session has one owner and its uploader refers to it, wherever the     *)
(* connection was moved; of a manager's handles only the last one owns a   *)
(* connection, and only while the manager is entered.                      *)
THEOREM SessionHasOneOwner == Spec => []OneOwner
  <1>1. IInv => OneOwner
    BY DEF IInv
  <1> QED BY <1>1, Invariance, PTL

(* No program of a session in order is executed twice, and those of a      *)
(* thread are executed in the order it submitted them, for all retries,    *)
(* lost answers and moves.                                                 *)
THEOREM ExecutedInOrderOnce == Spec => []InOrderOnce
  <1>1. ASSUME IInv PROVE InOrderOnce
    <2>1. TypeThreads /\ InvExecuted /\ InvOrder
      BY <1>1 DEF IInv
    <2> SUFFICES ASSUME NEW s \in Session, NEW i \in DOMAIN executed[s], NEW j \in DOMAIN executed[s],
                        i < j, executed[s][i].thread = executed[s][j].thread,
                        OutOfOrder \notin {executed[s][i].number, executed[s][j].number}
                 PROVE  executed[s][i].count < executed[s][j].count
      BY DEF InOrderOnce
    <2> DEFINE p == executed[s][i]
               q == executed[s][j]
               Made(x) == [session |-> s, number |-> x.number, thread |-> x.thread, count |-> x.count]
    <2>2. p \in Entry /\ q \in Entry
      <3>1. executed[s] \in Seq(Entry)
        BY <2>1 DEF TypeThreads
      <3> QED BY <3>1, ElementOfSeq, LenProperties
    <2>3. p.number < q.number
      BY <2>1 DEF InvExecuted
    <2>4. p.number \in Nat /\ q.number \in Nat
      BY <2>2 DEF Entry
    <2>5. Made(p) \in Ticket /\ Made(q) \in Ticket
      BY <2>2, <2>4 DEF Entry, Ticket
    <2>6. AtServer(Made(p)) /\ AtServer(Made(q))
      BY DEF AtServer, Carries
    <2> HIDE DEF p, q
    <2>7. p.count < q.count
      <3>1. Drawn(Made(p)) /\ Drawn(Made(q))
        BY <2>6 DEF Drawn
      <3>2. /\ Made(p).session = Made(q).session /\ Made(p).thread = Made(q).thread
            /\ Made(p).number < Made(q).number
        BY <2>3 DEF p, q
      <3>3. Made(p).count < Made(q).count
        BY <2>1, <2>5, <3>1, <3>2 DEF InvOrder
      <3> QED BY <3>3
    <2> QED BY <2>7 DEF p, q
  <1> QED BY <1>1, Invariance, PTL

(* A number that was drawn reaches the server or is still on its way, for  *)
(* any number of attempts, unless somebody gave up or cancelled a          *)
(* submission of the session.                                              *)
THEOREM DrawnNumbersReachServer == Spec => []NumbersReachServer
  <1>1. ASSUME IInv PROVE NumbersReachServer
    <2>1. InvNumbers
      BY <1>1 DEF IInv
    <2> SUFFICES ASSUME NEW o \in Object, Holds(o), connection[o].m_sequence_num # OutOfOrder,
                        SessionOf(o) \notin {x[1] : x \in abandoned},
                        NEW n \in expected[SessionOf(o)] .. connection[o].m_sequence_num - 1
                 PROVE  \/ \E c \in calls : c.session = SessionOf(o) /\ c.number = n /\ c.state = "sent"
                        \/ \E t \in Thread : /\ pc[t] = "connect" /\ submission[t].number = n
                                            /\ SessionOf(submission[t].object) = SessionOf(o)
      BY DEF NumbersReachServer
    <2>2. \A x \in abandoned : x[1] # SessionOf(o)
      OBVIOUS
    <2>3. OnItsWay(SessionOf(o), n)
      BY <2>1, <2>2 DEF InvNumbers
    <2> QED BY <2>3 DEF OnItsWay
  <1> QED BY <1>1, Invariance, PTL

----------------------------------------------------------------------------
(* The time information. *)

TimeOf(o) == connection[o].m_time_info
TimeAfter(o) == connection'[o].m_time_info
GrowsRight(o) == TimeAfter(o) = TimeOf(o) + Cardinality(Counted(o))

LEMMA GrowsFacts ==
  ASSUME TypeOK, InvOwner, NEW o \in Object, Holds(o)
  PROVE  /\ Counted(o) = {} /\ TimeAfter(o) = TimeOf(o) => GrowsRight(o)
         /\ \A c : Counted(o) = {c} /\ TimeAfter(o) = TimeOf(o) + 1 => GrowsRight(o)
         /\ TimeOf(o) \in Nat
  <1>1. TimeOf(o) \in Nat
    BY ConnectionFacts DEF InvOwner, Holds, Connection, TimeOf
  <1>2. Cardinality({}) = 0 /\ \A c : Cardinality({c}) = 1
    BY FS_EmptySet, FS_Singleton
  <1>3. Counted(o) = {} /\ TimeAfter(o) = TimeOf(o) => GrowsRight(o)
    <2> SUFFICES ASSUME Counted(o) = {}, TimeAfter(o) = TimeOf(o) PROVE GrowsRight(o)
      OBVIOUS
    <2>1. Cardinality(Counted(o)) = 0
      BY <1>2
    <2>2. TimeOf(o) + 0 = TimeOf(o)
      BY <1>1
    <2>3. TimeOf(o) + Cardinality(Counted(o)) = TimeOf(o) + 0
      BY <2>1
    <2> QED BY <2>2, <2>3 DEF GrowsRight
  <1>4. ASSUME NEW c, Counted(o) = {c}, TimeAfter(o) = TimeOf(o) + 1 PROVE GrowsRight(o)
    <2>1. Cardinality(Counted(o)) = 1
      BY <1>2, <1>4
    <2> QED BY <1>4, <2>1 DEF GrowsRight
  <1> QED BY <1>1, <1>3, <1>4

(* A submission that ends with its answer was neither given up nor is it   *)
(* still underway.                                                         *)
LEMMA ReturnEnds ==
  ASSUME TypeOK, TypeThreads, InvUse, InvCalls, InvOneCall, InvAbandoned,
         NEW t \in Thread, Return(t), NEW c \in calls, Waits(t, c)
  PROVE  Ended(c)
  <1>1. pc[t] # "idle" /\ c.mode = "blocking" /\ c.count = submission[t].count
    BY WaitedFacts
  <1>2. Left(t) /\ Others(t) /\ abandoned' = abandoned
    BY LeaveFacts DEF Return
  <1>3. \A u \in Thread : submission'[u].count # c.count
    <2>1. submission'[t].count # c.count
      BY <1>1, <1>2, CountFacts DEF Left
    <2> QED BY <1>1, <1>2, <2>1, CountFacts DEF Others
  <1>4. <<c.session, c.count>> \notin abandoned
    BY <1>1 DEF InvAbandoned, GivenUp
  <1> QED BY <1>2, <1>3, <1>4 DEF Ended

LEMMA CallbackEnds ==
  ASSUME TypeOK, TypeThreads, InvCalls, InvAbandoned, NEW c \in calls, Callback(c)
  PROVE  Ended(c)
  <1>1. c.mode = "async" /\ submission' = submission /\ abandoned' = abandoned
    BY DEF Callback, IsFuture
  <1>2. \A u \in Thread : submission[u].count # c.count
    BY <1>1 DEF InvCalls, CallGood
  <1>3. <<c.session, c.count>> \notin abandoned
    BY <1>1 DEF InvAbandoned, GivenUp
  <1> QED BY <1>1, <1>2, <1>3 DEF Ended

LEMMA LoseEndsNot ==
  ASSUME TypeOK, TypeThreads, InvOwner, InvUse, InvCalls, InvOneCall, NEW t \in Thread, LoseAnswer(t),
         NEW c \in calls, Waits(t, c)
  PROVE  ~Ended(c)
  <1>1. /\ pc[t] # "idle" /\ Retry(t) /\ c.count = submission[t].count
        /\ c.session = SessionOf(submission[t].object) /\ submission[t] \in Submission
    BY LoseFacts, WaitedFacts DEF TypeThreads
  <1>2. CASE Again(t)
    <2>1. submission'[t].count = c.count
      BY <1>1, <1>2 DEF Again, Submission
    <2> QED BY <2>1 DEF Ended
  <1>3. CASE abandoned' = abandoned \cup {<<SessionOf(submission[t].object), submission[t].count>>}
    BY <1>1, <1>3 DEF Ended
  <1> QED BY <1>1, <1>2, <1>3, RetryFacts

(* The answer c is counted where its time is added.                        *)
LEMMA AnswerCounted ==
  ASSUME TypeOK, InvOwner, NEW c \in calls, calls' = calls \ {c}, c.this \in Object, sessions' = sessions,
         \/ /\ c.state = "executed" /\ Agree(c.this, c.session)
            /\ Accumulate(c.this) /\ Ended(c)
         \/ ~(c.state = "executed" /\ Agree(c.this, c.session)) /\ connection' = connection,
         NEW o \in Object, Holds(o)
  PROVE  GrowsRight(o)
  <1>1. \A x \in calls \ calls' : x = c
    OBVIOUS
  <1>2. CASE c.state = "executed" /\ Agree(c.this, c.session) /\ Accumulate(c.this) /\ Ended(c)
    <2>1. TimeAfter(o) = IF o = c.this THEN TimeOf(o) + 1 ELSE TimeOf(o)
      BY <1>2, AccumulateFacts DEF TimeAfter, TimeOf
    <2>2. CASE o = c.this
      <3>1. Counted(o) = {c}
        BY <1>1, <1>2, <2>2 DEF Counted
      <3> QED BY <2>1, <2>2, <3>1, GrowsFacts
    <2>3. CASE o # c.this
      <3>1. Counted(o) = {}
        BY <1>1, <2>3 DEF Counted
      <3> QED BY <2>1, <2>3, <3>1, GrowsFacts
    <2> QED BY <2>2, <2>3
  <1>3. CASE ~(c.state = "executed" /\ Agree(c.this, c.session)) /\ connection' = connection
    <2>1. Counted(o) = {}
      BY <1>1, <1>3 DEF Counted
    <2> QED BY <1>3, <2>1, GrowsFacts DEF TimeAfter, TimeOf
  <1> QED BY <1>2, <1>3

LEMMA WorkTime ==
  ASSUME IInv, WorkStep, NEW o \in Object, Holds(o)
  PROVE  GrowsRight(o)
  <1>1. /\ TypeOK /\ TypeThreads /\ InvOwner /\ InvUse /\ InvCalls /\ InvOneCall /\ InvAbandoned
    BY DEF IInv
  <1>2. ASSUME calls \subseteq calls', connection' = connection PROVE GrowsRight(o)
    <2>1. Counted(o) = {}
      BY <1>2 DEF Counted
    <2> QED BY <1>1, <1>2, <2>1, GrowsFacts DEF TimeAfter, TimeOf
  <1>3. ASSUME NEW c \in calls, Gone(c) \/ \E e : Becomes(c, e), c.state # "executed" \/ ~Ended(c),
               connection' = connection
        PROVE  GrowsRight(o)
    <2>1. \A x \in calls \ calls' : x = c
      BY <1>3 DEF Gone, Becomes
    <2>2. Counted(o) = {}
      BY <1>3, <2>1 DEF Counted
    <2> QED BY <1>1, <1>3, <2>2, GrowsFacts DEF TimeAfter, TimeOf
  <1>4. CASE SubmitStep
    BY <1>2, <1>4 DEF SubmitStep, Submit
  <1>5. ASSUME NEW t \in Thread, Invoke(t) \/ ConnectFails(t) PROVE GrowsRight(o)
    BY <1>2, <1>5 DEF Invoke, ConnectFails
  <1>6. ASSUME NEW t \in Thread, NextSequenceNumber(t) PROVE GrowsRight(o)
    <2>1. TimeAfter(o) = TimeOf(o)
      BY <1>1, <1>6, NextObjects DEF TimeAfter, TimeOf
    <2>2. Counted(o) = {}
      BY <1>6 DEF NextSequenceNumber, Counted
    <2> QED BY <1>1, <2>1, <2>2, GrowsFacts
  <1>7. ASSUME NEW t \in Thread, Return(t) PROVE GrowsRight(o)
    <2>1. PICK c \in calls :
            /\ Waits(t, c) /\ calls' = calls \ {c} /\ c.this \in Object
            /\ \/ c.state = "executed" /\ Agree(c.this, c.session) /\ Accumulate(c.this)
               \/ ~(c.state = "executed" /\ Agree(c.this, c.session)) /\ connection' = connection
      BY <1>1, <1>7, ReturnFacts
    <2>2. Ended(c) /\ sessions' = sessions
      BY <1>1, <1>7, <2>1, ReturnEnds DEF Return
    <2> QED BY <1>1, <2>1, <2>2, AnswerCounted
  <1>8. ASSUME NEW t \in Thread, LoseAnswer(t) PROVE GrowsRight(o)
    <2>1. connection' = connection
      BY <1>8 DEF LoseAnswer
    <2>2. PICK c \in calls : Waits(t, c) /\ (Gone(c) \/ Becomes(c, Forgotten(c)))
      BY <1>1, <1>8, LoseFacts
    <2>3. ~Ended(c)
      BY <1>1, <1>8, <2>2, LoseEndsNot
    <2> QED BY <1>3, <2>1, <2>2, <2>3
  <1>9. ASSUME NEW c \in calls, CallStepOf(c) PROVE GrowsRight(o)
    <2>1. CASE Execute(c)
      <3>1. connection' = connection /\ c.state = "sent"
        BY <2>1 DEF Execute
      <3>2. Gone(c) \/ Becomes(c, InState(c, "executed"))
        BY <1>1, <2>1, ExecuteFacts
      <3> QED BY <1>3, <3>1, <3>2
    <2>2. CASE Cancel(c)
      <3>1. connection' = connection /\ abandoned' = abandoned \cup {<<c.session, c.count>>}
        BY <2>2 DEF Cancel
      <3>2. Gone(c) \/ Becomes(c, Forgotten(c))
        BY <1>1, <2>2, CancelFacts
      <3>3. ~Ended(c)
        BY <3>1 DEF Ended
      <3> QED BY <1>3, <3>1, <3>2, <3>3
    <2>3. CASE Callback(c)
      <3>1. /\ c.state = "executed" /\ calls' = calls \ {c} /\ sessions' = sessions
            /\ c.this \in Object
        BY <1>1, <2>3, AnswerHasObject DEF Callback
      <3>2. \/ c.state = "executed" /\ Agree(c.this, c.session) /\ Accumulate(c.this)
            \/ ~(c.state = "executed" /\ Agree(c.this, c.session)) /\ connection' = connection
        BY <2>3 DEF Callback
      <3>3. Ended(c)
        BY <1>1, <2>3, CallbackEnds
      <3> QED BY <1>1, <3>1, <3>2, <3>3, AnswerCounted
    <2>4. CASE Refuse(c) \/ Vanish(c)
      <3>1. connection' = connection
        BY <2>4 DEF Refuse, Vanish
      <3>2. c.state = "sent"
        BY <1>1, <2>4 DEF Refuse, Vanish, InvCalls, CallGood
      <3>3. Gone(c) \/ \E e : Becomes(c, e)
        BY <2>4 DEF Refuse, Vanish, Gone, Becomes, Replace
      <3> QED BY <1>3, <3>1, <3>2, <3>3
    <2> QED BY <1>9, <2>1, <2>2, <2>3, <2>4 DEF CallStepOf
  <1> QED BY <1>4, <1>5, <1>6, <1>7, <1>8, <1>9 DEF WorkStep, CallStepOf

(* The time information moves with its session and grows by exactly the    *)
(* answers that ended a submission through its object, in every step.      *)
THEOREM TimeMovesAlong == Spec => TimeIsKept
  <1>1. ASSUME IInv, LifeStep PROVE TimeMoves
    <2>1. TypeOK /\ InvOwner /\ sessions \in Nat
      <3>1. Len(ServerSize) \in Nat
        BY ClientAssumption, LenProperties
      <3> QED BY <1>1, <3>1 DEF IInv, TypeOK
    <2> SUFFICES ASSUME NEW o \in Object, NEW p \in Object, Holds(o), Holds(p)',
                        connection[o].session = connection'[p].session
                 PROVE  connection'[p].m_time_info = connection[o].m_time_info + Cardinality(Counted(o))
      BY DEF TimeMoves, SessionOf
    <2>2. connection[o].session \in 1 .. sessions
      BY <2>1 DEF InvOwner, SessionOf
    <2>3. ~Fresh(p)
      BY <2>1, <2>2 DEF Fresh
    <2>4. PICK q \in Object : Source(q, p)
      BY <1>1, <2>1, <2>3, LifeFacts DEF Origin
    <2>5. q = o
      BY <2>1, <2>4 DEF Source, Keeps, InvOwner, SessionOf
    <2>6. connection'[p].m_time_info = connection[o].m_time_info
      BY <2>4, <2>5 DEF Source, Keeps
    <2>7. Counted(o) = {}
      BY <1>1 DEF LifeStep, Counted
    <2>8. connection[o].m_time_info \in Nat
      BY <2>1, GrowsFacts DEF TimeOf
    <2> QED BY <2>6, <2>7, <2>8, FS_EmptySet
  <1>2. ASSUME IInv, WorkStep PROVE TimeMoves
    <2>1. TypeOK /\ TypeThreads /\ InvOwner /\ InvUse /\ InvCalls
      BY <1>2 DEF IInv
    <2> SUFFICES ASSUME NEW o \in Object, NEW p \in Object, Holds(o), Holds(p)',
                        connection[o].session = connection'[p].session
                 PROVE  connection'[p].m_time_info = connection[o].m_time_info + Cardinality(Counted(o))
      BY DEF TimeMoves, SessionOf
    <2>2. Holds(p) /\ connection'[p].session = connection[p].session
      BY <1>2, <2>1, WorkObjects
    <2>3. o = p
      BY <2>1, <2>2 DEF InvOwner, SessionOf
    <2>4. GrowsRight(o)
      BY <1>2, WorkTime
    <2> QED BY <2>3, <2>4 DEF GrowsRight, TimeOf, TimeAfter
  <1>3. IInv /\ [Next]_allVars => [TimeMoves]_allVars
    <2> SUFFICES ASSUME IInv, Next PROVE TimeMoves \/ UNCHANGED allVars
      OBVIOUS
    <2>1. TypeOK /\ InvUse
      BY DEF IInv
    <2> QED BY <1>1, <1>2, <2>1, NextCases
  <1> QED BY <1>3, Invariance, PTL DEF Spec, TimeIsKept
=============================================================================
