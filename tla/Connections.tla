---------------------------- MODULE Connections ----------------------------
(***************************************************************************)
(* The life of connections: threads open lists of endpoints as             *)
(* MultiConnections, move the ARQConnections in them from object to        *)
(* object, assign one to another and destroy them, while the               *)
(* ConnectionRegistry keeps endpoints from being opened twice.             *)
(*                                                                         *)
(* A constructor and what unwinds it, a move and a destructor are taken in *)
(* the steps another thread can observe: the registry of the process, the  *)
(* stream to the FPGA and the receiver thread.  Members are destroyed in   *)
(* the reverse of their order, the stream before the registry's entry.     *)
(* A moved-from object is destroyed at once and not assigned from again.   *)
(***************************************************************************)
EXTENDS Naturals

CONSTANTS
  Thread,
  Object,                    \* storage for ARQConnections
  NoObject,
  Endpoint,                  \* init parameters: IP addresses
  NoEndpoint                 \* a null pointer in place of registry or stream

ASSUME NullAssumption == NoObject \notin Object /\ NoEndpoint \notin Endpoint

VARIABLES
  registry,                  \* ConnectionRegistry::registry()
  m_registry,                \* m_registry[o]: the endpoint that o registered
  m_arq_stream,              \* m_arq_stream[o]: the endpoint o has a stream to
  m_run_receive,
  m_worker_receive,          \* the receiver thread: "none", "running", or "ended" and not joined
  pc,
  this,                      \* this[t]: the object t constructs, assigns to or destroys
  other,                     \* other[t]: the object it moves from
  parameters,                \* parameters[t]: what it constructs this[t] with
  todo,                      \* todo[t]: the connection_inits that are left
  m_connections,             \* m_connections[t]: the objects in its MultiConnection
  wanted                     \* wanted[t]: history, the endpoints that t is to have

object == <<m_registry, m_arq_stream, m_run_receive, m_worker_receive>>
vars == <<registry, object, pc, this, other, parameters, todo, m_connections, wanted>>

Init ==
  /\ registry = {}
  /\ m_registry = [o \in Object |-> NoEndpoint]
  /\ m_arq_stream = [o \in Object |-> NoEndpoint]
  /\ m_run_receive = [o \in Object |-> FALSE]
  /\ m_worker_receive = [o \in Object |-> "none"]
  /\ pc = [t \in Thread |-> "idle"]
  /\ this = [t \in Thread |-> NoObject] /\ other = [t \in Thread |-> NoObject]
  /\ parameters = [t \in Thread |-> NoEndpoint]
  /\ todo = [t \in Thread |-> {}]
  /\ m_connections = [t \in Thread |-> {}]
  /\ wanted = [t \in Thread |-> {}]

(* Storage that holds no object.                                           *)
Free ==
  {o \in Object : \A t \in Thread :
     o # this[t] /\ o # other[t] /\ o \notin m_connections[t]}

Goto(t, step) == pc' = [pc EXCEPT ![t] = step]

----------------------------------------------------------------------------
(* MultiConnection(connection_inits): one temporary connection after the   *)
(* other is constructed and moved into the vector.                         *)

OpenAll(t) ==
  /\ pc[t] = "idle" /\ m_connections[t] = {}
  /\ \E inits \in SUBSET Endpoint \ {{}} :
       todo' = [todo EXCEPT ![t] = inits] /\ wanted' = [wanted EXCEPT ![t] = inits]
  /\ Goto(t, "next")
  /\ UNCHANGED <<registry, object, this, other, parameters, m_connections>>

Construct(t) ==
  /\ pc[t] = "next"
  /\ \E e \in todo[t], o \in Free :
       /\ parameters' = [parameters EXCEPT ![t] = e]
       /\ todo' = [todo EXCEPT ![t] = @ \ {e}]
       /\ this' = [this EXCEPT ![t] = o]
  /\ Goto(t, "register")
  /\ UNCHANGED <<registry, object, other, m_connections, wanted>>

Opened(t) ==
  /\ pc[t] = "next" /\ todo[t] = {}
  /\ Goto(t, "idle")
  /\ UNCHANGED <<registry, object, this, other, parameters, todo, m_connections, wanted>>

(* An exception leaves the constructors; the vector is destroyed.          *)
Throw(t, step) ==
  /\ Goto(t, step)
  /\ todo' = [todo EXCEPT ![t] = {}] /\ wanted' = [wanted EXCEPT ![t] = {}]

(* Mutant: the registry is not asked.                                      *)
RegisterAlways(t) ==
  /\ pc[t] = "register"
  /\ registry' = registry \cup {parameters[t]}
  /\ m_registry' = [m_registry EXCEPT ![this[t]] = parameters[t]]
  /\ parameters' = [parameters EXCEPT ![t] = NoEndpoint]
  /\ Goto(t, "open")
  /\ UNCHANGED <<m_arq_stream, m_run_receive, m_worker_receive, this, other, todo,
                 m_connections, wanted>>

(* The constructor of the registry's entry, under the registry's mutex.    *)
Register(t) ==
  /\ pc[t] = "register"
  /\ \/ /\ parameters[t] \in registry
        /\ Throw(t, "destroy")
        /\ this' = [this EXCEPT ![t] = NoObject]
        /\ UNCHANGED <<registry, m_registry>>
     \/ /\ parameters[t] \notin registry
        /\ registry' = registry \cup {parameters[t]}
        /\ m_registry' = [m_registry EXCEPT ![this[t]] = parameters[t]]
        /\ Goto(t, "open") /\ UNCHANGED <<this, todo, wanted>>
  /\ parameters' = [parameters EXCEPT ![t] = NoEndpoint]
  /\ UNCHANGED <<m_arq_stream, m_run_receive, m_worker_receive, other, m_connections>>

OpenStream(t) ==
  /\ pc[t] = "open"
  /\ m_arq_stream' = [m_arq_stream EXCEPT ![this[t]] = m_registry[this[t]]]
  /\ Goto(t, "check")
  /\ UNCHANGED <<registry, m_registry, m_run_receive, m_worker_receive, this, other,
                 parameters, todo, m_connections, wanted>>

OpenFails(t) ==
  /\ pc[t] = "open"
  /\ Throw(t, "unregister")
  /\ UNCHANGED <<registry, object, this, other, parameters, m_connections>>

(* Mutant: the connection is given up without being destroyed.             *)
CheckFailsLeaky(t) ==
  /\ pc[t] = "check"
  /\ Throw(t, "destroy")
  /\ this' = [this EXCEPT ![t] = NoObject]
  /\ UNCHANGED <<registry, object, other, parameters, m_connections>>

(* check_compatibility throws.                                             *)
CheckFails(t) ==
  /\ pc[t] = "check"
  /\ Throw(t, "close")
  /\ UNCHANGED <<registry, object, this, other, parameters, m_connections>>

(* It returns, and the receiver thread is started.                         *)
Start(t) ==
  /\ pc[t] = "check"
  /\ m_run_receive' = [m_run_receive EXCEPT ![this[t]] = TRUE]
  /\ m_worker_receive' = [m_worker_receive EXCEPT ![this[t]] = "running"]
  /\ Goto(t, "emplace")
  /\ UNCHANGED <<registry, m_registry, m_arq_stream, this, other, parameters, todo,
                 m_connections, wanted>>

----------------------------------------------------------------------------
(* Moves. *)

(* The move constructor of o, from p.                                      *)
BeginMove(t, o, p) ==
  /\ this' = [this EXCEPT ![t] = o] /\ other' = [other EXCEPT ![t] = p]
  /\ m_run_receive' = [m_run_receive EXCEPT ![o] = TRUE]
  /\ Goto(t, "stop")

(* The temporary is moved into the vector.                                 *)
Emplace(t) ==
  /\ pc[t] = "emplace"
  /\ \E o \in Free : BeginMove(t, o, this[t])
  /\ UNCHANGED <<registry, m_registry, m_arq_stream, m_worker_receive, parameters, todo,
                 m_connections, wanted>>

(* A vector that grows moves what it has, and so does the user.            *)
Move(t) ==
  /\ pc[t] \in {"next", "idle"}
  /\ \E o \in Free, p \in m_connections[t] :
       BeginMove(t, o, p) /\ m_connections' = [m_connections EXCEPT ![t] = @ \ {p}]
  /\ UNCHANGED <<registry, m_registry, m_arq_stream, m_worker_receive, parameters, todo,
                 wanted>>

(* operator=: the connection of o goes, that of p takes its place.         *)
Assign(t) ==
  /\ pc[t] = "idle"
  /\ \E o, p \in m_connections[t] :
       /\ o # p
       /\ this' = [this EXCEPT ![t] = o] /\ other' = [other EXCEPT ![t] = p]
       /\ m_connections' = [m_connections EXCEPT ![t] = @ \ {o, p}]
       /\ wanted' = [wanted EXCEPT ![t] = @ \ {m_registry[o]}]
       /\ m_run_receive' = [m_run_receive EXCEPT ![o] = FALSE]
  /\ Goto(t, "join_own")
  /\ UNCHANGED <<registry, m_registry, m_arq_stream, m_worker_receive, parameters, todo>>

Join(t, o) ==
  /\ m_worker_receive[o] = "ended"
  /\ m_worker_receive' = [m_worker_receive EXCEPT ![o] = "none"]

JoinOwn(t) ==
  /\ pc[t] = "join_own" /\ Join(t, this[t])
  /\ m_run_receive' = [m_run_receive EXCEPT ![this[t]] = m_run_receive[other[t]]]
  /\ Goto(t, "stop")
  /\ UNCHANGED <<registry, m_registry, m_arq_stream, this, other, parameters, todo,
                 m_connections, wanted>>

(* Mutant: other's receiver thread is not told to end.                     *)
StopNobody(t) ==
  /\ pc[t] = "stop" /\ Goto(t, "join")
  /\ UNCHANGED <<registry, object, this, other, parameters, todo, m_connections, wanted>>

StopOther(t) ==
  /\ pc[t] = "stop"
  /\ m_run_receive' = [m_run_receive EXCEPT ![other[t]] = FALSE]
  /\ Goto(t, "join")
  /\ UNCHANGED <<registry, m_registry, m_arq_stream, m_worker_receive, this, other,
                 parameters, todo, m_connections, wanted>>

(* Mutant: its end is not waited for.                                      *)
DetachOther(t) ==
  /\ pc[t] = "join" /\ Goto(t, "take_registry")
  /\ UNCHANGED <<registry, object, this, other, parameters, todo, m_connections, wanted>>

JoinOther(t) ==
  /\ pc[t] = "join" /\ Join(t, other[t])
  /\ Goto(t, "take_registry")
  /\ UNCHANGED <<registry, m_registry, m_arq_stream, m_run_receive, this, other,
                 parameters, todo, m_connections, wanted>>

(* An entry that is replaced is destroyed, and leaves the registry.        *)
TakeRegistry(t) ==
  /\ pc[t] = "take_registry"
  /\ m_registry' = [m_registry EXCEPT ![this[t]] = m_registry[other[t]],
                                      ![other[t]] = NoEndpoint]
  /\ registry' = registry \ {m_registry[this[t]]}
  /\ Goto(t, "take_stream")
  /\ UNCHANGED <<m_arq_stream, m_run_receive, m_worker_receive, this, other, parameters,
                 todo, m_connections, wanted>>

TakeStream(t) ==
  /\ pc[t] = "take_stream"
  /\ m_arq_stream' = [m_arq_stream EXCEPT ![this[t]] = m_arq_stream[other[t]],
                                          ![other[t]] = NoEndpoint]
  /\ Goto(t, "restart")
  /\ UNCHANGED <<registry, m_registry, m_run_receive, m_worker_receive, this, other,
                 parameters, todo, m_connections, wanted>>

(* Mutant: the moved-from object is kept.                                  *)
RestartBoth(t) ==
  /\ pc[t] = "restart"
  /\ m_worker_receive' = [m_worker_receive EXCEPT ![this[t]] = "running"]
  /\ m_connections' = [m_connections EXCEPT ![t] = @ \cup {this[t]}]
  /\ this' = [this EXCEPT ![t] = NoObject]
  /\ Goto(t, "next")
  /\ UNCHANGED <<registry, m_registry, m_arq_stream, m_run_receive, parameters, todo,
                 other, wanted>>

(* The new receiver thread; other, which has nothing left, is destroyed.   *)
Restart(t) ==
  /\ pc[t] = "restart"
  /\ m_worker_receive' = [m_worker_receive EXCEPT ![this[t]] = "running"]
  /\ m_connections' = [m_connections EXCEPT ![t] = @ \cup {this[t]}]
  /\ this' = [this EXCEPT ![t] = NoObject] /\ other' = [other EXCEPT ![t] = NoObject]
  /\ Goto(t, "next")
  /\ UNCHANGED <<registry, m_registry, m_arq_stream, m_run_receive, parameters, todo,
                 wanted>>

----------------------------------------------------------------------------
(* Destructors. *)

CloseAll(t) ==
  /\ pc[t] = "idle" /\ m_connections[t] # {}
  /\ wanted' = [wanted EXCEPT ![t] = {}]
  /\ Goto(t, "destroy")
  /\ UNCHANGED <<registry, object, this, other, parameters, todo, m_connections>>

Destroy(t) ==
  /\ pc[t] = "destroy"
  /\ \E o \in m_connections[t] :
       /\ this' = [this EXCEPT ![t] = o]
       /\ m_connections' = [m_connections EXCEPT ![t] = @ \ {o}]
       /\ m_run_receive' = [m_run_receive EXCEPT ![o] = FALSE]
  /\ Goto(t, "join_this")
  /\ UNCHANGED <<registry, m_registry, m_arq_stream, m_worker_receive, other, parameters,
                 todo, wanted>>

(* Mutant: the vector of a constructor that failed is not destroyed.       *)
DestroyedEarly(t) ==
  /\ pc[t] = "destroy" /\ Goto(t, "idle")
  /\ UNCHANGED <<registry, object, this, other, parameters, todo, m_connections, wanted>>

Destroyed(t) ==
  /\ pc[t] = "destroy" /\ m_connections[t] = {}
  /\ Goto(t, "idle")
  /\ UNCHANGED <<registry, object, this, other, parameters, todo, m_connections, wanted>>

JoinThis(t) ==
  /\ pc[t] = "join_this" /\ Join(t, this[t])
  /\ Goto(t, "close")
  /\ UNCHANGED <<registry, m_registry, m_arq_stream, m_run_receive, this, other,
                 parameters, todo, m_connections, wanted>>

CloseStream(t) ==
  /\ pc[t] = "close"
  /\ m_arq_stream' = [m_arq_stream EXCEPT ![this[t]] = NoEndpoint]
  /\ Goto(t, "unregister")
  /\ UNCHANGED <<registry, m_registry, m_run_receive, m_worker_receive, this, other,
                 parameters, todo, m_connections, wanted>>

(* The destructor of the registry's entry, under the registry's mutex.     *)
Unregister(t) ==
  /\ pc[t] = "unregister"
  /\ registry' = registry \ {m_registry[this[t]]}
  /\ m_registry' = [m_registry EXCEPT ![this[t]] = NoEndpoint]
  /\ this' = [this EXCEPT ![t] = NoObject]
  /\ Goto(t, "destroy")
  /\ UNCHANGED <<m_arq_stream, m_run_receive, m_worker_receive, other, parameters, todo,
                 m_connections, wanted>>

----------------------------------------------------------------------------
(* The receiver thread leaves its loop when it is told to.                 *)
WorkReceive(o) ==
  /\ m_worker_receive[o] = "running" /\ ~m_run_receive[o]
  /\ m_worker_receive' = [m_worker_receive EXCEPT ![o] = "ended"]
  /\ UNCHANGED <<registry, m_registry, m_arq_stream, m_run_receive, pc, this, other,
                 parameters, todo, m_connections, wanted>>

(* What a thread goes on with, once it has begun.                          *)
Continue(t) ==
  \/ Construct(t) \/ Opened(t) \/ Register(t) \/ OpenStream(t) \/ OpenFails(t)
  \/ CheckFails(t) \/ Start(t) \/ Emplace(t) \/ JoinOwn(t) \/ StopOther(t)
  \/ JoinOther(t) \/ TakeRegistry(t) \/ TakeStream(t) \/ Restart(t) \/ Destroy(t)
  \/ Destroyed(t) \/ JoinThis(t) \/ CloseStream(t) \/ Unregister(t)

Next ==
  \/ \E t \in Thread : OpenAll(t) \/ Move(t) \/ Assign(t) \/ CloseAll(t) \/ Continue(t)
  \/ \E o \in Object : WorkReceive(o)

(* Threads run; a vector grows only so often.                              *)
Spec ==
  /\ Init /\ [][Next]_vars
  /\ \A t \in Thread : WF_vars(Continue(t)) /\ SF_vars(Construct(t)) /\ SF_vars(Opened(t))
  /\ \A o \in Object : WF_vars(WorkReceive(o))

----------------------------------------------------------------------------
(* Properties. *)

Moving == {"join_own", "stop", "join", "take_registry", "take_stream", "restart"}
Resting == {"idle", "next", "destroy"}

TypeOK ==
  /\ registry \subseteq Endpoint
  /\ m_registry \in [Object -> Endpoint \cup {NoEndpoint}]
  /\ m_arq_stream \in [Object -> Endpoint \cup {NoEndpoint}]
  /\ m_run_receive \in [Object -> BOOLEAN]
  /\ m_worker_receive \in [Object -> {"none", "running", "ended"}]
  /\ pc \in [Thread -> Moving \cup Resting \cup
             {"register", "open", "check", "emplace", "join_this", "close", "unregister"}]
  /\ this \in [Thread -> Object \cup {NoObject}]
  /\ other \in [Thread -> Object \cup {NoObject}]
  /\ parameters \in [Thread -> Endpoint \cup {NoEndpoint}]
  /\ todo \in [Thread -> SUBSET Endpoint]
  /\ m_connections \in [Thread -> SUBSET Object]
  /\ wanted \in [Thread -> SUBSET Endpoint]
  /\ \A t \in Thread : /\ this[t] = NoObject <=> pc[t] \in Resting
                       /\ other[t] # NoObject <=> pc[t] \in Moving

(* "Trying to construct Connection to already connected endpoint" throws:  *)
(* whatever constructors, moves and destructors of several threads are     *)
(* underway, two streams go to the same FPGA only where an assignment      *)
(* gave up the place of the one it is about to close.                      *)
OnlyReplacedStreamsOverlap ==
  \A o, p \in Object :
    o # p /\ m_arq_stream[o] = m_arq_stream[p] /\ m_arq_stream[o] # NoEndpoint =>
      \E t \in Thread : pc[t] = "take_stream" /\ this[t] \in {o, p}

(* work_receive dereferences m_arq_stream as long as it runs: neither a    *)
(* move nor a destructor takes the stream away under it.                   *)
ReceiverHasStream ==
  \A o \in Object : m_worker_receive[o] = "running" => m_arq_stream[o] # NoEndpoint

(* A MultiConnection has all of its connections or, if one of them failed, *)
(* none; each that it has is registered and has its receiver thread.       *)
AllOrNothing ==
  \A t \in Thread :
    pc[t] = "idle" =>
      /\ {m_arq_stream[o] : o \in m_connections[t]} = wanted[t]
      /\ \A o \in m_connections[t] :
           /\ m_registry[o] = m_arq_stream[o]
           /\ m_worker_receive[o] = "running" /\ m_run_receive[o]

(* After failed constructors, moves and destructors exactly the endpoints  *)
(* that are connected are registered: no other is lost to the process.     *)
NothingLeaks ==
  (\A t \in Thread : pc[t] = "idle") => registry = UNION {wanted[t] : t \in Thread}

(* Constructors, moves and destructors return: the joins in them end.      *)
OperationsEnd == \A t \in Thread : pc[t] # "idle" ~> pc[t] = "idle"
=============================================================================
