-------------------------- MODULE ManagedConnection --------------------------
(* The context managers of pyhxcomm on top of QuiggeldyConnection: a       *)
(* Managed constructs a connection when it is entered and gives out a      *)
(* Handle that owns it; Python keeps the handle for as long as it likes.   *)
(* Beside them C++ code owns connections of its own.                       *)
EXTENDS QuiggeldyConnection

CONSTANT Manager

VARIABLES
  handles,   \* the handles that own a connection; get throws in all others
  m_handle,  \* manager -> the connection of the handle it points to, if any
  inside     \* history: managers that were entered and not exited since

managed == <<handles, m_handle, inside>>
allVars == <<vars, managed>>

Handle == [m_connection : Object, maker : Manager]

ManagedInit ==
  /\ Init
  /\ handles = {}
  /\ m_handle = [m \in Manager |-> Nothing]
  /\ inside = {}

OwnedByHandle(o) == \E h \in handles : h.m_connection = o

(* Handle::disconnect of the handle that owns connection o; a handle that  *)
(* is expired or empty is left alone.  Python does not exit a manager      *)
(* while one of its threads submits through the handle.                    *)
CanDisconnect(o) == o # Nothing => ~InUse(o)
Without(o) == IF o = Nothing THEN connection ELSE [connection EXCEPT ![o] = Nothing]
Disconnected(o) == {h \in handles : h.m_connection # o}
NowEmpty(o) == [m \in Manager |-> IF m_handle[m] = o THEN Nothing ELSE m_handle[m]]

(* Mutant: what an earlier enter made is left connected.                   *)
EnterAgain(m) ==
  /\ sessions < Len(ServerSize) /\ sessions' = sessions + 1
  /\ \E o \in Object :
       /\ connection[o] = Nothing
       /\ connection' = [connection EXCEPT ![o] = New(o)]
       /\ handles' = handles \cup {[m_connection |-> o, maker |-> m]}
       /\ m_handle' = [m_handle EXCEPT ![m] = o]
  /\ inside' = inside \cup {m}
  /\ UNCHANGED <<threads, calls, server, abandoned>>

(* Managed::enter disconnects what an earlier enter made, and constructs a *)
(* connection in a new handle; where the environment chooses its type, it  *)
(* is constructed elsewhere and moved in.                                  *)
Enter(m) ==
  LET old == m_handle[m]
  IN /\ CanDisconnect(old) /\ sessions < Len(ServerSize)
     /\ sessions' = sessions + 1
     /\ \E o \in Object :
          /\ Without(old)[o] = Nothing
          /\ connection' = [Without(old) EXCEPT ![o] = New(o)]
          /\ handles' = Disconnected(old) \cup {[m_connection |-> o, maker |-> m]}
          /\ m_handle' = [m_handle EXCEPT ![m] = o]
     /\ inside' = inside \cup {m}
     /\ UNCHANGED <<threads, calls, server, abandoned>>

(* disconnect, and so the destructor of the connection. *)
Disconnect(o) ==
  /\ CanDisconnect(o)
  /\ connection' = Without(o)
  /\ handles' = Disconnected(o)
  /\ m_handle' = NowEmpty(o)
  /\ UNCHANGED <<sessions, threads, calls, server, abandoned>>

(* The constructor throws; the previous connection is gone already.        *)
EnterFails(m) == m_handle[m] # Nothing /\ Disconnect(m_handle[m]) /\ UNCHANGED inside

Exit(m) == m \in inside /\ Disconnect(m_handle[m]) /\ inside' = inside \ {m}

(* Python drops its last reference: the destructor disconnects.            *)
Drop(h) == Disconnect(h.m_connection) /\ UNCHANGED inside

(* release gives the connection to the caller, who owns it from now on.    *)
Release(h) ==
  /\ ~InUse(h.m_connection)
  /\ handles' = handles \ {h}
  /\ m_handle' = NowEmpty(h.m_connection)
  /\ UNCHANGED <<vars, inside>>

----------------------------------------------------------------------------
(* C++ code does as it likes with objects no handle owns. *)
Unmanaged(o) ==
  /\ \/ Construct(o) \/ Destroy(o)
     \/ \E p \in Object : ~OwnedByHandle(p) /\ (MoveConstruct(o, p) \/ MoveAssign(o, p))
  /\ ~OwnedByHandle(o)
  /\ UNCHANGED managed

Use(o) ==
  /\ \/ SetOutOfOrder(o)
     \/ \E t \in Thread, mode \in {"blocking", "async"} : Submit(t, o, mode)
  /\ UNCHANGED managed

ThreadStep(t) ==
  /\ NextSequenceNumber(t) \/ Invoke(t) \/ Return(t) \/ ConnectFails(t) \/ LoseAnswer(t)
  /\ UNCHANGED managed

CallStep(c) ==
  /\ Execute(c) \/ Refuse(c) \/ Callback(c) \/ Cancel(c) \/ Vanish(c)
  /\ UNCHANGED managed

Next ==
  \/ \E m \in Manager : Enter(m) \/ EnterFails(m) \/ Exit(m)
  \/ \E h \in handles : Drop(h) \/ Release(h)
  \/ \E o \in Object : Unmanaged(o) \/ Use(o)
  \/ \E t \in Thread : ThreadStep(t)
  \/ \E c \in calls : CallStep(c)

Spec == ManagedInit /\ [][Next]_allVars
----------------------------------------------------------------------------
CallType ==
  [thread : Thread, count : 1 .. MaxRequests, attempt : 0 .. Attempts - 1,
   mode : {"blocking", "async", "forgotten"}, session : Session, number : Nat \cup {OutOfOrder},
   this : Object \cup {Nothing}, state : {"sent", "executed", "stale"}]

TypeOK ==
  /\ connection \in [Object -> Connection \cup {Nothing}]
  /\ sessions \in 0 .. Len(ServerSize)
  /\ pc \in [Thread -> {"idle", "number", "connect", "wait"}]
  /\ calls \subseteq CallType
  /\ expected \in [Session -> Nat]
  /\ handles \subseteq Handle
  /\ m_handle \in [Manager -> Object \cup {Nothing}]

(* However often submissions are retried, their answers lost and their     *)
(* connection moved, a session that is in order executes each of its       *)
(* programs at most once, and those of a thread in the order it submitted  *)
(* them: the number is drawn once per submission and moves with the        *)
(* object.                                                                 *)
InOrderOnce ==
  \A s \in Session : \A i, j \in DOMAIN executed[s] :
    LET p == executed[s][i]
        q == executed[s][j]
    IN i < j /\ p.thread = q.thread /\ OutOfOrder \notin {p.number, q.number} => p.count < q.count

(* Wherever a session moves, its time information moves with it, loses     *)
(* nothing, and grows by exactly the answers of submissions through the    *)
(* object that holds it: those of futures whose callback runs, and those   *)
(* blocking submissions return, but not those lost or cancelled.           *)
Ended(c) ==
  /\ <<c.session, c.count>> \notin abandoned'
  /\ \A t \in Thread : submission'[t].count # c.count
Counted(o) ==
  {c \in calls \ calls' : /\ c.this = o /\ c.state = "executed"
                         /\ Agree(o, c.session) /\ Ended(c)}
TimeMoves ==
  \A o, p \in Object : Holds(o) /\ Holds(p)' /\ SessionOf(o) = SessionOf(p)'
    => connection'[p].m_time_info = connection[o].m_time_info + Cardinality(Counted(o))
TimeIsKept == [][TimeMoves]_allVars

(* A session belongs to one object, through which its uploader creates     *)
(* clients: moving the connection updates the lambda.  Of the handles a    *)
(* manager made, at most the last one owns a connection, and none does     *)
(* outside of the manager's context.                                       *)
OneOwner ==
  /\ \A o \in Object : Holds(o) =>
       LET creator == connection[o].m_reinit_uploader
       IN Holds(creator) /\ SessionOf(creator) = SessionOf(o)
  /\ \A h \in handles : h.maker \in inside /\ m_handle[h.maker] = h.m_connection

(* A number that was drawn is used: the server has executed it, or a call  *)
(* with it is on its way, or a thread is about to make one.  Otherwise all *)
(* later submissions of the session would wait for ever; that happens only *)
(* where a submission was given up after its last attempt, or cancelled.   *)
NumbersReachServer ==
  \A o \in Object :
    LET s == SessionOf(o)
        drawn == connection[o].m_sequence_num
    IN Holds(o) /\ drawn # OutOfOrder /\ s \notin {x[1] : x \in abandoned} =>
         \A n \in expected[s] .. drawn - 1 :
           \/ \E c \in calls : c.session = s /\ c.number = n /\ c.state = "sent"
           \/ \E t \in Thread : /\ pc[t] = "connect" /\ submission[t].number = n
                               /\ SessionOf(submission[t].object) = s
=============================================================================
