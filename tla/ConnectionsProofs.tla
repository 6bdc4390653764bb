------------------------- MODULE ConnectionsProofs -------------------------
(***************************************************************************)
(* Theorems about Connections, for any threads, endpoints and storage.     *)
(***************************************************************************)
EXTENDS Connections, TLAPS

(* What can be said of an object. *)
Open(o) == m_registry[o] \in Endpoint /\ m_arq_stream[o] = m_registry[o]
Empty(o) == m_registry[o] = NoEndpoint /\ m_arq_stream[o] = NoEndpoint
Unstarted(o) == m_worker_receive[o] = "none"
Listening(o) == Open(o) /\ m_run_receive[o] = TRUE /\ m_worker_receive[o] = "running"
Stopping(o) == Open(o) /\ m_run_receive[o] = FALSE /\ m_worker_receive[o] # "none"

(* The objects in a thread's hands.                                        *)
Held(t) == m_connections[t] \cup ({this[t], other[t]} \ {NoObject})

Apart(t) ==
  /\ this[t] \notin m_connections[t] /\ other[t] \notin m_connections[t]
  /\ other[t] # NoObject => this[t] # other[t]
  /\ \A o \in m_connections[t] : Listening(o)

(* How far the one is that it constructs or destroys ...                   *)
InThis(t) ==
  /\ pc[t] = "register" =>
       Empty(this[t]) /\ Unstarted(this[t]) /\ parameters[t] \in Endpoint
  /\ pc[t] \in {"open", "unregister"} =>
       /\ m_registry[this[t]] \in Endpoint /\ m_arq_stream[this[t]] = NoEndpoint
       /\ Unstarted(this[t])
  /\ pc[t] \in {"check", "close"} => Open(this[t]) /\ Unstarted(this[t])
  /\ pc[t] = "emplace" => Listening(this[t])
  /\ pc[t] \in {"join_this", "join_own"} => Stopping(this[t])

(* ... and the two of a move.                                              *)
InMove(t) ==
  /\ pc[t] \in {"stop", "join", "take_registry"} =>
       /\ Empty(this[t]) \/ Open(this[t])
       /\ Unstarted(this[t]) /\ m_run_receive[this[t]] = TRUE
  /\ pc[t] \in {"join_own", "stop"} => Listening(other[t])
  /\ pc[t] = "join" => Stopping(other[t])
  /\ pc[t] = "take_registry" => Open(other[t]) /\ Unstarted(other[t])
  /\ pc[t] = "take_stream" =>
       /\ m_registry[this[t]] \in Endpoint /\ m_registry[other[t]] = NoEndpoint
       /\ m_arq_stream[other[t]] = m_registry[this[t]]
       /\ Unstarted(this[t]) /\ Unstarted(other[t]) /\ m_run_receive[this[t]] = TRUE
  /\ pc[t] = "restart" =>
       /\ Open(this[t]) /\ Unstarted(this[t]) /\ m_run_receive[this[t]] = TRUE
       /\ Empty(other[t]) /\ Unstarted(other[t])

(* What a thread wants is connected, in hand or to be opened.              *)
InHand(t, e) ==
  \/ pc[t] = "register" /\ e = parameters[t]
  \/ pc[t] \in {"open", "check", "emplace", "take_stream", "restart"} /\ e = m_registry[this[t]]
  \/ pc[t] \in {"join_own", "stop", "join", "take_registry"} /\ e = m_registry[other[t]]

Dropped == {"destroy", "join_this", "close", "unregister"}

Want(t) ==
  /\ pc[t] \in Dropped \cup {"idle"} => todo[t] = {}
  /\ pc[t] \in Dropped => wanted[t] = {}
  /\ pc[t] \notin Dropped =>
       \A e \in Endpoint :
         e \in wanted[t] <=> \/ e \in todo[t] \/ InHand(t, e)
                             \/ \E o \in m_connections[t] : m_registry[o] = e

Role(t) == Apart(t) /\ InThis(t) /\ InMove(t) /\ Want(t)

(* No object is in two hands, and one in nobody's hands holds nothing.     *)
InvHeld ==
  /\ \A t, u \in Thread : t # u => Held(t) \cap Held(u) = {}
  /\ \A o \in Object : (\A t \in Thread : o \notin Held(t)) => Empty(o) /\ Unstarted(o)

(* The registry holds what the objects registered, each endpoint once.     *)
InvRegistry ==
  /\ \A e \in Endpoint : e \in registry <=> \E o \in Object : m_registry[o] = e
  /\ \A o, p \in Object : o # p /\ m_registry[o] = m_registry[p] => m_registry[o] = NoEndpoint

IInv == TypeOK /\ InvHeld /\ InvRegistry /\ \A t \in Thread : Role(t)

----------------------------------------------------------------------------
(* A step of t leaves the other threads and their objects alone, takes     *)
(* objects from free storage only, and returns empty ones.                 *)
SameThread(u) ==
  /\ pc'[u] = pc[u] /\ this'[u] = this[u] /\ other'[u] = other[u]
  /\ parameters'[u] = parameters[u] /\ todo'[u] = todo[u]
  /\ m_connections'[u] = m_connections[u] /\ wanted'[u] = wanted[u]

SameObject(o) ==
  /\ m_registry'[o] = m_registry[o] /\ m_arq_stream'[o] = m_arq_stream[o]
  /\ m_run_receive'[o] = m_run_receive[o] /\ m_worker_receive'[o] = m_worker_receive[o]

Frame(t) ==
  /\ \A u \in Thread : u # t => SameThread(u)
  /\ \A o \in Object : o \notin Held(t) /\ o \notin Free => SameObject(o)
  /\ \A o \in Held(t)' : o \in Held(t) \/ o \in Free
  /\ \A o \in Object : (o \in Held(t) \/ o \in Free) /\ o \notin Held(t)' =>
       Empty(o)' /\ Unstarted(o)'


LEMMA Initially == Init => IInv
<1> SUFFICES ASSUME Init PROVE IInv
  OBVIOUS
<1> USE NullAssumption DEF Init
<1>1. TypeOK
  BY DEF TypeOK, Moving, Resting
<1>2. InvHeld
  BY DEF InvHeld, Held, Empty, Unstarted
<1>3. InvRegistry
  BY DEF InvRegistry
<1>4. ASSUME NEW t \in Thread PROVE Role(t)
  BY DEF Role, Apart, InThis, InMove, Want, InHand
<1>. QED BY <1>1, <1>2, <1>3, <1>4 DEF IInv

LEMMA FreeIsEmpty ==
  ASSUME IInv, NEW o \in Free
  PROVE  /\ o \in Object /\ Empty(o) /\ Unstarted(o)
         /\ \A u \in Thread : o \notin Held(u)
BY DEF IInv, InvHeld, Free, Held

(* What others do does not matter to a thread.                             *)
LEMMA RoleOfOthers ==
  ASSUME TypeOK, NEW u \in Thread, Role(u), SameThread(u),
         \A o \in Held(u) : SameObject(o)
  PROVE  Role(u)'
<1> USE DEF SameThread, SameObject, Held
<1>1. Apart(u)'
  BY DEF Role, Apart, Listening, Open
<1>2. InThis(u)'
  BY DEF Role, InThis, Listening, Stopping, Open, Empty, Unstarted, TypeOK, Resting
<1>3. InMove(u)'
  BY DEF Role, InMove, Listening, Stopping, Open, Empty, Unstarted, TypeOK, Resting
<1>4. \A e \in Endpoint : InHand(u, e)' <=> InHand(u, e)
  BY DEF InHand, TypeOK, Resting
<1>5. Want(u)'
  BY <1>4 DEF Role, Want
<1>. QED BY <1>1, <1>2, <1>3, <1>5 DEF Role

LEMMA Framed ==
  ASSUME IInv, NEW t \in Thread, Frame(t), TypeOK', InvRegistry', Role(t)'
  PROVE  IInv'
<1>1. ASSUME NEW u \in Thread, u # t PROVE Held(u)' = Held(u)
  BY <1>1 DEF Frame, SameThread, Held
<1>2. ASSUME NEW u \in Thread, u # t, NEW o \in Held(u)
      PROVE  o \in Object /\ o \notin Held(t) /\ o \notin Free
  <2>1. o \in Object
    BY DEF Held, IInv, TypeOK
  <2>2. o \notin Held(t)
    BY <1>2 DEF IInv, InvHeld
  <2>3. o \notin Free
    BY FreeIsEmpty
  <2>. QED BY <2>1, <2>2, <2>3
<1>3. ASSUME NEW u \in Thread, u # t PROVE Role(u)'
  <2>1. SameThread(u) /\ \A o \in Held(u) : SameObject(o)
    BY <1>2, <1>3 DEF Frame
  <2>. QED BY <2>1, RoleOfOthers DEF IInv
<1>4. ASSUME NEW u \in Thread, NEW v \in Thread, u # v
      PROVE  Held(u)' \cap Held(v)' = {}
  <2>1. CASE u # t /\ v # t
    BY <1>1, <1>4, <2>1 DEF IInv, InvHeld
  <2>2. ASSUME NEW w \in Thread, w # t PROVE Held(w)' \cap Held(t)' = {}
    BY <1>1, <1>2, <2>2 DEF Frame
  <2>. QED BY <1>4, <2>1, <2>2
<1>5. ASSUME NEW o \in Object, \A u \in Thread : o \notin Held(u)'
      PROVE  Empty(o)' /\ Unstarted(o)'
  <2>1. \A u \in Thread : u # t => o \notin Held(u)
    BY <1>1, <1>5
  <2>2. o \in Held(t) \/ o \in Free
    BY <2>1, NullAssumption DEF Free, Held
  <2>. QED BY <1>5, <2>2 DEF Frame
<1>6. InvHeld'
  BY <1>4, <1>5 DEF InvHeld
<1>. QED BY <1>3, <1>6 DEF IInv

LEMMA RegistryKept ==
  ASSUME InvRegistry, registry' = registry, m_registry' = m_registry
  PROVE  InvRegistry'
BY DEF InvRegistry

(* An entry taken over from p in place of that of o.                       *)
LEMMA EntryTaken ==
  ASSUME InvRegistry, NullAssumption, NEW o \in Object, NEW p \in Object, o # p,
         m_registry[p] \in Endpoint, registry' = registry \ {m_registry[o]},
         \A q \in Object : m_registry'[q] = IF q = p THEN NoEndpoint
                                        ELSE IF q = o THEN m_registry[p]
                                        ELSE m_registry[q]
  PROVE  InvRegistry'
BY DEF InvRegistry

----------------------------------------------------------------------------
(* One lemma for each action, on what it does to the thread that takes it; *)
(* Framed does the rest.                                                   *)
LEMMA OpenAllStep == ASSUME IInv, NEW t \in Thread, OpenAll(t) PROVE IInv'
<1> USE NullAssumption DEF OpenAll, Goto, object
<1>1. TypeOK /\ Role(t)
  BY DEF IInv
<1>2. TypeOK'
  BY <1>1 DEF TypeOK, Moving, Resting
<1>3. Frame(t)
  BY FreeIsEmpty DEF Frame, SameThread, SameObject, Held, Empty, Unstarted
<1>4. InvRegistry'
  BY RegistryKept DEF IInv
<1>5. Apart(t)'
  BY <1>2 DEF Apart, TypeOK, Resting
<1>6. InThis(t)' /\ InMove(t)'
  BY DEF InThis, InMove
<1>7. Want(t)'
  BY <1>1 DEF Want, InHand, Dropped, TypeOK
<1>. QED BY <1>2, <1>3, <1>4, <1>5, <1>6, <1>7, Framed DEF Role

LEMMA ConstructStep == ASSUME IInv, NEW t \in Thread, Construct(t) PROVE IInv'
<1> USE NullAssumption DEF Construct, Goto, object
<1>1. TypeOK /\ Role(t)
  BY DEF IInv
<1>2. TypeOK'
  BY <1>1, FreeIsEmpty DEF TypeOK, Moving, Resting
<1>3. Frame(t)
  BY <1>1, FreeIsEmpty
     DEF Frame, SameThread, SameObject, Held, TypeOK, Empty, Unstarted, Resting
<1>4. InvRegistry'
  BY RegistryKept DEF IInv
<1>5. Apart(t)'
  BY <1>1, FreeIsEmpty DEF Role, Apart, Listening, Open, Held
<1>6. InThis(t)'
  BY <1>1, FreeIsEmpty DEF InThis, TypeOK, Empty, Unstarted
<1>7. InMove(t)'
  BY DEF InMove
<1>8. Want(t)'
  BY <1>1 DEF Role, Want, InHand, Dropped, TypeOK
<1>. QED BY <1>2, <1>3, <1>4, <1>5, <1>6, <1>7, <1>8, Framed DEF Role

LEMMA OpenedStep == ASSUME IInv, NEW t \in Thread, Opened(t) PROVE IInv'
<1> USE NullAssumption DEF Opened, Goto, object
<1>1. TypeOK /\ Role(t)
  BY DEF IInv
<1>2. TypeOK'
  BY <1>1 DEF TypeOK, Moving, Resting
<1>3. Frame(t)
  BY FreeIsEmpty DEF Frame, SameThread, SameObject, Held, Empty, Unstarted
<1>4. InvRegistry'
  BY RegistryKept DEF IInv
<1>5. Apart(t)'
  BY <1>1 DEF Role, Apart, Listening, Open
<1>6. InThis(t)' /\ InMove(t)'
  BY DEF InThis, InMove
<1>7. Want(t)'
  BY <1>1 DEF Role, Want, InHand, Dropped
<1>. QED BY <1>2, <1>3, <1>4, <1>5, <1>6, <1>7, Framed DEF Role

LEMMA RegisterStep == ASSUME IInv, NEW t \in Thread, Register(t) PROVE IInv'
<1> USE NullAssumption DEF Register, Throw, Goto, object
<1>1. TypeOK /\ Role(t)
  BY DEF IInv
<1>2. TypeOK'
  BY <1>1 DEF TypeOK, Role, InThis, Apart, Moving, Resting
<1>3. Frame(t)
  <2>1. \A u \in Thread : u # t => SameThread(u)
    BY <1>1 DEF SameThread, TypeOK
  <2>2. \A o \in Object : o \notin Held(t) /\ o \notin Free => SameObject(o)
    BY <1>1 DEF SameObject, Held, TypeOK
  <2>3. \A o \in Held(t)' : o \in Held(t) \/ o \in Free
    BY <1>1 DEF Held, TypeOK
  <2>4. \A o \in Object : (o \in Held(t) \/ o \in Free) /\ o \notin Held(t)' =>
          Empty(o)' /\ Unstarted(o)'
    BY <1>1, FreeIsEmpty DEF Role, InThis, Held, TypeOK, Empty, Unstarted
  <2>. QED BY <2>1, <2>2, <2>3, <2>4 DEF Frame
<1>4. InvRegistry'
  <2>1. CASE parameters[t] \in registry
    BY <2>1, RegistryKept DEF IInv
  <2>2. CASE parameters[t] \notin registry
    <3>1. this[t] \in Object /\ m_registry[this[t]] = NoEndpoint /\ parameters[t] \in Endpoint
      BY <1>1 DEF TypeOK, Role, InThis, Empty, Resting
    <3>2. /\ \A o \in Object : m_registry'[o] = IF o = this[t] THEN parameters[t] ELSE m_registry[o]
          /\ registry' = registry \cup {parameters[t]}
      BY <2>2, <1>1 DEF TypeOK
    <3>. QED BY <3>1, <3>2 DEF IInv, InvRegistry
  <2>. QED BY <2>1, <2>2
<1>5. Apart(t)'
  BY <1>1 DEF Role, Apart, TypeOK, Listening, Open
<1>6. InThis(t)'
  BY <1>1 DEF Role, InThis, TypeOK, Empty, Unstarted, Resting
<1>7. InMove(t)'
  BY <1>1 DEF InMove, TypeOK
<1>8. Want(t)'
  BY <1>1 DEF Role, InThis, Want, InHand, Dropped, TypeOK, Empty, Resting
<1>. QED BY <1>2, <1>3, <1>4, <1>5, <1>6, <1>7, <1>8, Framed DEF Role

LEMMA OpenStreamStep == ASSUME IInv, NEW t \in Thread, OpenStream(t) PROVE IInv'
<1> USE NullAssumption DEF OpenStream, Goto, object
<1>1. TypeOK /\ Role(t)
  BY DEF IInv
<1>2. TypeOK'
  BY <1>1 DEF TypeOK, Moving, Resting
<1>3. Frame(t)
  BY FreeIsEmpty DEF Frame, SameThread, SameObject, Held, Empty, Unstarted
<1>4. InvRegistry'
  BY RegistryKept DEF IInv
<1>5. Apart(t)'
  BY <1>1 DEF Role, Apart, Listening, Open
<1>6. InThis(t)'
  BY <1>1 DEF Role, InThis, TypeOK, Open, Unstarted, Resting
<1>7. InMove(t)'
  BY DEF InMove
<1>8. Want(t)'
  BY <1>1 DEF Role, Want, InHand, Dropped
<1>. QED BY <1>2, <1>3, <1>4, <1>5, <1>6, <1>7, <1>8, Framed DEF Role

LEMMA OpenFailsStep == ASSUME IInv, NEW t \in Thread, OpenFails(t) PROVE IInv'
<1> USE NullAssumption DEF OpenFails, Throw, Goto, object
<1>1. TypeOK /\ Role(t)
  BY DEF IInv
<1>2. TypeOK'
  BY <1>1 DEF TypeOK, Moving, Resting
<1>3. Frame(t)
  BY FreeIsEmpty DEF Frame, SameThread, SameObject, Held, Empty, Unstarted
<1>4. InvRegistry'
  BY RegistryKept DEF IInv
<1>5. Apart(t)'
  BY <1>1 DEF Role, Apart, Listening, Open
<1>6. InThis(t)'
  BY <1>1 DEF Role, InThis, Unstarted
<1>7. InMove(t)'
  BY DEF InMove
<1>8. Want(t)'
  BY <1>1 DEF Want, Dropped, TypeOK
<1>. QED BY <1>2, <1>3, <1>4, <1>5, <1>6, <1>7, <1>8, Framed DEF Role

LEMMA CheckFailsStep == ASSUME IInv, NEW t \in Thread, CheckFails(t) PROVE IInv'
<1> USE NullAssumption DEF CheckFails, Throw, Goto, object
<1>1. TypeOK /\ Role(t)
  BY DEF IInv
<1>2. TypeOK'
  BY <1>1 DEF TypeOK, Moving, Resting
<1>3. Frame(t)
  BY FreeIsEmpty DEF Frame, SameThread, SameObject, Held, Empty, Unstarted
<1>4. InvRegistry'
  BY RegistryKept DEF IInv
<1>5. Apart(t)'
  BY <1>1 DEF Role, Apart, Listening, Open
<1>6. InThis(t)'
  BY <1>1 DEF Role, InThis, Open, Unstarted
<1>7. InMove(t)'
  BY DEF InMove
<1>8. Want(t)'
  BY <1>1 DEF Want, Dropped, TypeOK
<1>. QED BY <1>2, <1>3, <1>4, <1>5, <1>6, <1>7, <1>8, Framed DEF Role

LEMMA StartStep == ASSUME IInv, NEW t \in Thread, Start(t) PROVE IInv'
<1> USE NullAssumption DEF Start, Goto, object
<1>1. TypeOK /\ Role(t)
  BY DEF IInv
<1>2. TypeOK'
  BY <1>1 DEF TypeOK, Moving, Resting
<1>3. Frame(t)
  <2>1. \A u \in Thread : u # t => SameThread(u)
    BY DEF SameThread
  <2>2. \A o \in Object : o \notin Held(t) /\ o \notin Free => SameObject(o)
    BY <1>1 DEF SameObject, Held, TypeOK
  <2>3. \A o \in Held(t)' : o \in Held(t) \/ o \in Free
    BY DEF Held
  <2>4. \A o \in Object : (o \in Held(t) \/ o \in Free) /\ o \notin Held(t)' =>
          Empty(o)' /\ Unstarted(o)'
    BY FreeIsEmpty DEF Held, Empty, Unstarted
  <2>. QED BY <2>1, <2>2, <2>3, <2>4 DEF Frame
<1>4. InvRegistry'
  BY RegistryKept DEF IInv
<1>5. Apart(t)'
  BY <1>1 DEF Role, Apart, Listening, Open
<1>6. InThis(t)'
  BY <1>1 DEF Role, InThis, TypeOK, Listening, Open, Resting
<1>7. InMove(t)'
  BY DEF InMove
<1>8. Want(t)'
  BY <1>1 DEF Role, Want, InHand, Dropped
<1>. QED BY <1>2, <1>3, <1>4, <1>5, <1>6, <1>7, <1>8, Framed DEF Role

LEMMA EmplaceStep == ASSUME IInv, NEW t \in Thread, Emplace(t) PROVE IInv'
<1> USE NullAssumption DEF Emplace, BeginMove, Goto, object
<1>1. TypeOK /\ Role(t)
  BY DEF IInv
<1>2. TypeOK'
  BY <1>1, FreeIsEmpty DEF TypeOK, Moving, Resting
<1>3. Frame(t)
  <2>1. \A u \in Thread : u # t => SameThread(u)
    BY DEF SameThread
  <2>2. \A o \in Object : o \notin Held(t) /\ o \notin Free => SameObject(o)
    BY <1>1 DEF SameObject, TypeOK
  <2>3. \A o \in Held(t)' : o \in Held(t) \/ o \in Free
    BY DEF Held
  <2>4. \A o \in Object : (o \in Held(t) \/ o \in Free) /\ o \notin Held(t)' =>
          Empty(o)' /\ Unstarted(o)'
    BY <1>1, FreeIsEmpty DEF Held, TypeOK, Empty, Unstarted, Moving
  <2>. QED BY <2>1, <2>2, <2>3, <2>4 DEF Frame
<1>4. InvRegistry'
  BY RegistryKept DEF IInv
<1>5. Apart(t)'
  BY <1>1, FreeIsEmpty DEF Role, Apart, TypeOK, Listening, Open, Held
<1>6. InThis(t)'
  BY <1>1 DEF InThis, TypeOK
<1>7. InMove(t)'
  BY <1>1, FreeIsEmpty DEF Role, InThis, InMove, TypeOK, Listening, Open, Empty, Unstarted
<1>8. Want(t)'
  BY <1>1 DEF Role, Want, InHand, Dropped, TypeOK
<1>. QED BY <1>2, <1>3, <1>4, <1>5, <1>6, <1>7, <1>8, Framed DEF Role

LEMMA MoveStep == ASSUME IInv, NEW t \in Thread, Move(t) PROVE IInv'
<1> USE NullAssumption DEF Move, BeginMove, Goto, object
<1>1. TypeOK /\ Role(t)
  BY DEF IInv
<1>2. TypeOK'
  BY <1>1, FreeIsEmpty DEF TypeOK, Moving, Resting
<1>3. Frame(t)
  <2>1. \A u \in Thread : u # t => SameThread(u)
    BY DEF SameThread
  <2>2. \A o \in Object : o \notin Held(t) /\ o \notin Free => SameObject(o)
    BY <1>1 DEF SameObject, TypeOK
  <2>3. \A o \in Held(t)' : o \in Held(t) \/ o \in Free
    BY DEF Held
  <2>4. \A o \in Object : (o \in Held(t) \/ o \in Free) /\ o \notin Held(t)' =>
          Empty(o)' /\ Unstarted(o)'
    BY <1>1, FreeIsEmpty DEF Held, TypeOK, Empty, Unstarted, Moving
  <2>. QED BY <2>1, <2>2, <2>3, <2>4 DEF Frame
<1>4. InvRegistry'
  BY RegistryKept DEF IInv
<1>5. Apart(t)'
  BY <1>1, FreeIsEmpty DEF Role, Apart, TypeOK, Listening, Open, Held
<1>6. InThis(t)'
  BY DEF InThis
<1>7. InMove(t)'
  BY <1>1, FreeIsEmpty DEF Role, Apart, InMove, TypeOK, Listening, Open, Empty, Unstarted
<1>8. Want(t)'
  BY <1>1 DEF Role, Want, InHand, Dropped, TypeOK
<1>. QED BY <1>2, <1>3, <1>4, <1>5, <1>6, <1>7, <1>8, Framed DEF Role

LEMMA AssignStep == ASSUME IInv, NEW t \in Thread, Assign(t) PROVE IInv'
<1> USE NullAssumption DEF Assign, Goto, object
<1>1. TypeOK /\ Role(t)
  BY DEF IInv
<1>2. TypeOK'
  BY <1>1 DEF TypeOK, Moving, Resting
<1>3. Frame(t)
  <2>1. \A u \in Thread : u # t => SameThread(u)
    BY DEF SameThread
  <2>2. \A o \in Object : o \notin Held(t) /\ o \notin Free => SameObject(o)
    <3>1. PICK o, p \in m_connections[t] :
            m_run_receive' = [m_run_receive EXCEPT ![o] = FALSE]
      OBVIOUS
    <3>. QED BY <1>1, <3>1 DEF SameObject, Held, TypeOK
  <2>3. \A o \in Held(t)' : o \in Held(t) \/ o \in Free
    BY DEF Held
  <2>4. \A o \in Object : (o \in Held(t) \/ o \in Free) /\ o \notin Held(t)' =>
          Empty(o)' /\ Unstarted(o)'
    BY <1>1, FreeIsEmpty DEF Held, TypeOK, Empty, Unstarted, Moving
  <2>. QED BY <2>1, <2>2, <2>3, <2>4 DEF Frame
<1>4. InvRegistry'
  BY RegistryKept DEF IInv
<1>5. Apart(t)'
  BY <1>1 DEF Role, Apart, TypeOK, Listening, Open
<1>6. InThis(t)'
  BY <1>1 DEF Role, Apart, InThis, TypeOK, Listening, Stopping, Open
<1>7. InMove(t)'
  BY <1>1 DEF Role, Apart, InMove, TypeOK, Listening, Open
<1>8. Want(t)'
  <2>1. PICK o, p \in m_connections[t] :
          /\ o # p
          /\ this' = [this EXCEPT ![t] = o] /\ other' = [other EXCEPT ![t] = p]
          /\ m_connections' = [m_connections EXCEPT ![t] = @ \ {o, p}]
          /\ wanted' = [wanted EXCEPT ![t] = @ \ {m_registry[o]}]
    OBVIOUS
  <2>2. /\ other'[t] = p /\ m_connections'[t] = m_connections[t] \ {o, p}
        /\ wanted'[t] = wanted[t] \ {m_registry[o]} /\ pc'[t] = "join_own"
        /\ todo'[t] = {} /\ m_registry' = m_registry
    BY <1>1, <2>1 DEF TypeOK, Role, Want
  <2>3. \A e \in Endpoint : e \in wanted[t] <=> \E q \in m_connections[t] : m_registry[q] = e
    BY <1>1 DEF Role, Want, InHand, Dropped
  <2>4. \A q \in m_connections[t] : q # o => m_registry[q] # m_registry[o]
    BY DEF IInv, InvRegistry, TypeOK, Role, Apart, Listening, Open
  <2>. QED BY <2>2, <2>3, <2>4 DEF Want, InHand, Dropped
<1>. QED BY <1>2, <1>3, <1>4, <1>5, <1>6, <1>7, <1>8, Framed DEF Role

LEMMA JoinOwnStep == ASSUME IInv, NEW t \in Thread, JoinOwn(t) PROVE IInv'
<1> USE NullAssumption DEF JoinOwn, Join, Goto, object
<1>1. TypeOK /\ Role(t)
  BY DEF IInv
<1>2. TypeOK'
  BY <1>1 DEF TypeOK, Moving, Resting
<1>3. Frame(t)
  BY FreeIsEmpty DEF Frame, SameThread, SameObject, Held, Empty, Unstarted
<1>4. InvRegistry'
  BY RegistryKept DEF IInv
<1>5. Apart(t)'
  BY <1>1 DEF Role, Apart, Listening, Open
<1>6. InThis(t)'
  BY <1>1 DEF InThis, TypeOK
<1>7. InMove(t)'
  BY <1>1 DEF Role, InThis, InMove, TypeOK, Listening, Stopping, Open, Unstarted, Resting
<1>8. Want(t)'
  BY <1>1 DEF Role, Want, InHand, Dropped
<1>. QED BY <1>2, <1>3, <1>4, <1>5, <1>6, <1>7, <1>8, Framed DEF Role

LEMMA StopOtherStep == ASSUME IInv, NEW t \in Thread, StopOther(t) PROVE IInv'
<1> USE NullAssumption DEF StopOther, Goto, object
<1>1. TypeOK /\ Role(t)
  BY DEF IInv
<1>2. TypeOK'
  BY <1>1 DEF TypeOK, Moving, Resting
<1>3. Frame(t)
  BY <1>1, FreeIsEmpty
     DEF Frame, SameThread, SameObject, Held, TypeOK, Empty, Unstarted, Moving, Resting
<1>4. InvRegistry'
  BY RegistryKept DEF IInv
<1>5. Apart(t)'
  BY <1>1 DEF Role, Apart, Listening, Open
<1>6. InThis(t)'
  BY DEF InThis
<1>7. InMove(t)'
  BY <1>1 DEF Role, InMove, TypeOK, Listening, Stopping, Open, Empty, Unstarted
<1>8. Want(t)'
  BY <1>1 DEF Role, Want, InHand, Dropped
<1>. QED BY <1>2, <1>3, <1>4, <1>5, <1>6, <1>7, <1>8, Framed DEF Role

LEMMA JoinOtherStep == ASSUME IInv, NEW t \in Thread, JoinOther(t) PROVE IInv'
<1> USE NullAssumption DEF JoinOther, Join, Goto, object
<1>1. TypeOK /\ Role(t)
  BY DEF IInv
<1>2. TypeOK'
  BY <1>1 DEF TypeOK, Moving, Resting
<1>3. Frame(t)
  BY FreeIsEmpty DEF Frame, SameThread, SameObject, Held, Empty, Unstarted
<1>4. InvRegistry'
  BY RegistryKept DEF IInv
<1>5. Apart(t)'
  BY <1>1 DEF Role, Apart, Listening, Open
<1>6. InThis(t)'
  BY DEF InThis
<1>7. InMove(t)'
  BY <1>1 DEF Role, InMove, TypeOK, Stopping, Open, Empty, Unstarted
<1>8. Want(t)'
  BY <1>1 DEF Role, Want, InHand, Dropped
<1>. QED BY <1>2, <1>3, <1>4, <1>5, <1>6, <1>7, <1>8, Framed DEF Role

LEMMA TakeRegistryStep == ASSUME IInv, NEW t \in Thread, TakeRegistry(t) PROVE IInv'
<1> USE NullAssumption DEF TakeRegistry, Goto, object
<1>1. TypeOK /\ Role(t)
  BY DEF IInv
<1>2. TypeOK'
  BY <1>1 DEF TypeOK, Moving, Resting
<1>3. Frame(t)
  BY <1>1, FreeIsEmpty DEF Frame, SameThread, SameObject, Held, TypeOK, Empty, Unstarted
<1>4. InvRegistry'
  <2>1. /\ this[t] \in Object /\ other[t] \in Object /\ this[t] # other[t]
        /\ m_registry[other[t]] \in Endpoint
    BY <1>1 DEF TypeOK, Role, InMove, Open, Resting
  <2>2. \A o \in Object : m_registry'[o] = IF o = other[t] THEN NoEndpoint
                                         ELSE IF o = this[t] THEN m_registry[other[t]]
                                         ELSE m_registry[o]
    BY <1>1 DEF TypeOK
  <2>3. InvRegistry
    BY DEF IInv
  <2>. QED BY <2>1, <2>2, <2>3, EntryTaken
<1>5. Apart(t)'
  BY <1>1 DEF Role, Apart, TypeOK, Listening, Open
<1>6. InThis(t)'
  BY DEF InThis
<1>7. InMove(t)'
  BY <1>1 DEF Role, InMove, TypeOK, Open, Unstarted, Resting
<1>8. Want(t)'
  BY <1>1 DEF Role, Apart, Want, InHand, Dropped, TypeOK, Resting
<1>. QED BY <1>2, <1>3, <1>4, <1>5, <1>6, <1>7, <1>8, Framed DEF Role

LEMMA TakeStreamStep == ASSUME IInv, NEW t \in Thread, TakeStream(t) PROVE IInv'
<1> USE NullAssumption DEF TakeStream, Goto, object
<1>1. TypeOK /\ Role(t)
  BY DEF IInv
<1>2. TypeOK'
  BY <1>1 DEF TypeOK, Moving, Resting
<1>3. Frame(t)
  BY <1>1, FreeIsEmpty DEF Frame, SameThread, SameObject, Held, TypeOK, Empty, Unstarted
<1>4. InvRegistry'
  BY RegistryKept DEF IInv
<1>5. Apart(t)'
  BY <1>1 DEF Role, Apart, TypeOK, Listening, Open
<1>6. InThis(t)'
  BY DEF InThis
<1>7. InMove(t)'
  BY <1>1 DEF Role, InMove, TypeOK, Open, Empty, Unstarted, Resting
<1>8. Want(t)'
  BY <1>1 DEF Role, Want, InHand, Dropped
<1>. QED BY <1>2, <1>3, <1>4, <1>5, <1>6, <1>7, <1>8, Framed DEF Role

LEMMA RestartStep == ASSUME IInv, NEW t \in Thread, Restart(t) PROVE IInv'
<1> USE NullAssumption DEF Restart, Goto, object
<1>1. TypeOK /\ Role(t)
  BY DEF IInv
<1>2. TypeOK'
  BY <1>1 DEF TypeOK, Moving, Resting
<1>3. Frame(t)
  <2>1. \A u \in Thread : u # t => SameThread(u)
    BY DEF SameThread
  <2>2. \A o \in Object : o \notin Held(t) /\ o \notin Free => SameObject(o)
    BY DEF SameObject, Held
  <2>3. \A o \in Held(t)' : o \in Held(t) \/ o \in Free
    BY <1>1 DEF Held, TypeOK, Resting
  <2>4. \A o \in Object : (o \in Held(t) \/ o \in Free) /\ o \notin Held(t)' =>
          Empty(o)' /\ Unstarted(o)'
    BY <1>1, FreeIsEmpty DEF Role, InMove, Held, TypeOK, Empty, Unstarted
  <2>. QED BY <2>1, <2>2, <2>3, <2>4 DEF Frame
<1>4. InvRegistry'
  BY RegistryKept DEF IInv
<1>5. Apart(t)'
  BY <1>1, <1>2 DEF Role, Apart, InMove, TypeOK, Listening, Open
<1>6. InThis(t)'
  BY DEF InThis
<1>7. InMove(t)'
  BY <1>1 DEF InMove, TypeOK
<1>8. Want(t)'
  BY <1>1 DEF Role, Want, InHand, Dropped, TypeOK
<1>. QED BY <1>2, <1>3, <1>4, <1>5, <1>6, <1>7, <1>8, Framed DEF Role

LEMMA CloseAllStep == ASSUME IInv, NEW t \in Thread, CloseAll(t) PROVE IInv'
<1> USE NullAssumption DEF CloseAll, Goto, object
<1>1. TypeOK /\ Role(t)
  BY DEF IInv
<1>2. TypeOK'
  BY <1>1 DEF TypeOK, Moving, Resting
<1>3. Frame(t)
  BY FreeIsEmpty DEF Frame, SameThread, SameObject, Held, Empty, Unstarted
<1>4. InvRegistry'
  BY RegistryKept DEF IInv
<1>5. Apart(t)'
  BY <1>1 DEF Role, Apart, Listening, Open
<1>6. InThis(t)' /\ InMove(t)'
  BY DEF InThis, InMove
<1>7. Want(t)'
  BY <1>1 DEF Role, Want, Dropped, TypeOK
<1>. QED BY <1>2, <1>3, <1>4, <1>5, <1>6, <1>7, Framed DEF Role

LEMMA DestroyStep == ASSUME IInv, NEW t \in Thread, Destroy(t) PROVE IInv'
<1> USE NullAssumption DEF Destroy, Goto, object
<1>1. TypeOK /\ Role(t)
  BY DEF IInv
<1>2. TypeOK'
  BY <1>1 DEF TypeOK, Moving, Resting
<1>3. Frame(t)
  <2>1. \A u \in Thread : u # t => SameThread(u)
    BY DEF SameThread
  <2>2. \A o \in Object : o \notin Held(t) /\ o \notin Free => SameObject(o)
    BY <1>1 DEF SameObject, Held, TypeOK, Moving, Resting
  <2>3. \A o \in Held(t)' : o \in Held(t) \/ o \in Free
    BY DEF Held
  <2>4. \A o \in Object : (o \in Held(t) \/ o \in Free) /\ o \notin Held(t)' =>
          Empty(o)' /\ Unstarted(o)'
    BY <1>1, FreeIsEmpty DEF Held, TypeOK, Empty, Unstarted, Resting
  <2>. QED BY <2>1, <2>2, <2>3, <2>4 DEF Frame
<1>4. InvRegistry'
  BY RegistryKept DEF IInv
<1>5. Apart(t)'
  BY <1>1 DEF Role, Apart, TypeOK, Listening, Open
<1>6. InThis(t)'
  BY <1>1 DEF Role, Apart, InThis, TypeOK, Listening, Stopping, Open
<1>7. InMove(t)'
  BY DEF InMove
<1>8. Want(t)'
  BY <1>1 DEF Role, Want, Dropped
<1>. QED BY <1>2, <1>3, <1>4, <1>5, <1>6, <1>7, <1>8, Framed DEF Role

LEMMA DestroyedStep == ASSUME IInv, NEW t \in Thread, Destroyed(t) PROVE IInv'
<1> USE NullAssumption DEF Destroyed, Goto, object
<1>1. TypeOK /\ Role(t)
  BY DEF IInv
<1>2. TypeOK'
  BY <1>1 DEF TypeOK, Moving, Resting
<1>3. Frame(t)
  BY FreeIsEmpty DEF Frame, SameThread, SameObject, Held, Empty, Unstarted
<1>4. InvRegistry'
  BY RegistryKept DEF IInv
<1>5. Apart(t)'
  BY <1>2 DEF Apart, TypeOK, Resting
<1>6. InThis(t)' /\ InMove(t)'
  BY DEF InThis, InMove
<1>7. Want(t)'
  BY <1>1 DEF Role, Want, InHand, Dropped
<1>. QED BY <1>2, <1>3, <1>4, <1>5, <1>6, <1>7, Framed DEF Role

LEMMA JoinThisStep == ASSUME IInv, NEW t \in Thread, JoinThis(t) PROVE IInv'
<1> USE NullAssumption DEF JoinThis, Join, Goto, object
<1>1. TypeOK /\ Role(t)
  BY DEF IInv
<1>2. TypeOK'
  BY <1>1 DEF TypeOK, Moving, Resting
<1>3. Frame(t)
  BY FreeIsEmpty DEF Frame, SameThread, SameObject, Held, Empty, Unstarted
<1>4. InvRegistry'
  BY RegistryKept DEF IInv
<1>5. Apart(t)'
  BY <1>1 DEF Role, Apart, Listening, Open
<1>6. InThis(t)'
  BY <1>1 DEF Role, InThis, TypeOK, Stopping, Open, Unstarted, Resting
<1>7. InMove(t)'
  BY DEF InMove
<1>8. Want(t)'
  BY <1>1 DEF Role, Want, Dropped
<1>. QED BY <1>2, <1>3, <1>4, <1>5, <1>6, <1>7, <1>8, Framed DEF Role

LEMMA CloseStreamStep == ASSUME IInv, NEW t \in Thread, CloseStream(t) PROVE IInv'
<1> USE NullAssumption DEF CloseStream, Goto, object
<1>1. TypeOK /\ Role(t)
  BY DEF IInv
<1>2. TypeOK'
  BY <1>1 DEF TypeOK, Moving, Resting
<1>3. Frame(t)
  BY FreeIsEmpty DEF Frame, SameThread, SameObject, Held, Empty, Unstarted
<1>4. InvRegistry'
  BY RegistryKept DEF IInv
<1>5. Apart(t)'
  BY <1>1 DEF Role, Apart, Listening, Open
<1>6. InThis(t)'
  BY <1>1 DEF Role, InThis, TypeOK, Open, Unstarted, Resting
<1>7. InMove(t)'
  BY DEF InMove
<1>8. Want(t)'
  BY <1>1 DEF Role, Want, Dropped
<1>. QED BY <1>2, <1>3, <1>4, <1>5, <1>6, <1>7, <1>8, Framed DEF Role

LEMMA UnregisterStep == ASSUME IInv, NEW t \in Thread, Unregister(t) PROVE IInv'
<1> USE NullAssumption DEF Unregister, Goto, object
<1>1. TypeOK /\ Role(t)
  BY DEF IInv
<1>2. TypeOK'
  BY <1>1 DEF TypeOK, Moving, Resting
<1>3. Frame(t)
  <2>1. \A u \in Thread : u # t => SameThread(u)
    BY DEF SameThread
  <2>2. \A o \in Object : o \notin Held(t) /\ o \notin Free => SameObject(o)
    BY DEF SameObject, Held
  <2>3. \A o \in Held(t)' : o \in Held(t) \/ o \in Free
    BY DEF Held
  <2>4. \A o \in Object : (o \in Held(t) \/ o \in Free) /\ o \notin Held(t)' =>
          Empty(o)' /\ Unstarted(o)'
    BY <1>1, FreeIsEmpty DEF Role, InThis, Held, TypeOK, Empty, Unstarted
  <2>. QED BY <2>1, <2>2, <2>3, <2>4 DEF Frame
<1>4. InvRegistry'
  <2>1. this[t] \in Object /\ m_registry[this[t]] \in Endpoint
    BY <1>1 DEF TypeOK, Role, InThis, Resting
  <2>2. /\ \A o \in Object : m_registry'[o] = IF o = this[t] THEN NoEndpoint ELSE m_registry[o]
        /\ registry' = registry \ {m_registry[this[t]]}
    BY <1>1 DEF TypeOK
  <2>. QED BY <2>1, <2>2 DEF IInv, InvRegistry
<1>5. Apart(t)'
  BY <1>1 DEF Role, Apart, TypeOK, Listening, Open
<1>6. InThis(t)'
  BY <1>1 DEF InThis, TypeOK
<1>7. InMove(t)'
  BY DEF InMove
<1>8. Want(t)'
  BY <1>1 DEF Role, Want, Dropped
<1>. QED BY <1>2, <1>3, <1>4, <1>5, <1>6, <1>7, <1>8, Framed DEF Role

(* A receiver thread that ends is that of an object in the hands of the    *)
(* thread that has told it to.                                             *)
LEMMA WorkReceiveStep == ASSUME IInv, NEW o \in Object, WorkReceive(o) PROVE IInv'
<1> USE NullAssumption DEF WorkReceive, object
<1>1. PICK t \in Thread : o \in Held(t)
  BY DEF IInv, InvHeld, Unstarted
<1>2. TypeOK /\ Role(t)
  BY DEF IInv
<1>3. TypeOK'
  BY <1>2 DEF TypeOK
<1>4. Frame(t)
  <2>1. \A u \in Thread : SameThread(u)
    BY DEF SameThread
  <2>2. Held(t)' = Held(t)
    BY DEF Held
  <2>3. \A p \in Object : p # o => SameObject(p)
    BY DEF SameObject
  <2>4. \A p \in Object : p \in Free => Empty(p)' /\ Unstarted(p)'
    BY FreeIsEmpty DEF Empty, Unstarted
  <2>. QED BY <1>1, <2>1, <2>2, <2>3, <2>4 DEF Frame
<1>5. InvRegistry'
  BY RegistryKept DEF IInv
<1>6. Apart(t)'
  BY <1>2 DEF Role, Apart, Listening, Open
<1>7. InThis(t)'
  BY <1>2 DEF Role, InThis, Listening, Stopping, Open, Empty, Unstarted
<1>8. InMove(t)'
  BY <1>2 DEF Role, InMove, Listening, Stopping, Open, Empty, Unstarted
<1>9. Want(t)'
  BY <1>2 DEF Role, Want, InHand
<1>. QED BY <1>3, <1>4, <1>5, <1>6, <1>7, <1>8, <1>9, Framed DEF Role

LEMMA Stutters == ASSUME IInv, UNCHANGED vars PROVE IInv'
<1> USE DEF vars, object
<1>1. TypeOK' /\ InvRegistry'
  BY DEF IInv, TypeOK, InvRegistry
<1>2. InvHeld'
  BY DEF IInv, InvHeld, Held, Empty, Unstarted
<1>3. ASSUME NEW t \in Thread PROVE Role(t)'
  <2>1. TypeOK /\ Role(t) /\ SameThread(t) /\ \A o \in Held(t) : SameObject(o)
    BY DEF IInv, SameThread, SameObject
  <2>. QED BY <2>1, RoleOfOthers
<1>. QED BY <1>1, <1>2, <1>3 DEF IInv

LEMMA Continues == ASSUME IInv, NEW t \in Thread, Continue(t) PROVE IInv'
BY ConstructStep, OpenedStep, RegisterStep, OpenStreamStep, OpenFailsStep, CheckFailsStep,
   StartStep, EmplaceStep, JoinOwnStep, StopOtherStep, JoinOtherStep, TakeRegistryStep,
   TakeStreamStep, RestartStep, DestroyStep, DestroyedStep, JoinThisStep, CloseStreamStep,
   UnregisterStep
   DEF Continue

(* Every state of every execution satisfies the inductive invariant: each  *)
(* object is in one thread's hands, in the state the step the thread has   *)
(* got to says, and the registry holds what the objects registered.        *)
THEOREM Inductive == Spec => []IInv
<1>1. ASSUME IInv, [Next]_vars PROVE IInv'
  <2>1. ASSUME NEW t \in Thread, OpenAll(t) \/ Move(t) \/ Assign(t) \/ CloseAll(t)
        PROVE  IInv'
    BY <1>1, <2>1, OpenAllStep, MoveStep, AssignStep, CloseAllStep
  <2>. QED BY <1>1, <2>1, Continues, WorkReceiveStep, Stutters DEF Next
<1>. QED BY <1>1, Initially, PTL DEF Spec

(* Every variable keeps its type, and a thread has objects in hand exactly *)
(* in the steps of the operation it is in.                                 *)
THEOREM TypeCorrect == Spec => []TypeOK
<1>1. IInv => TypeOK
  BY DEF IInv
<1>. QED BY <1>1, Inductive, PTL

(* Two streams to one FPGA exist only while an assignment, whose entry has *)
(* left the registry, has yet to close the stream of the connection it     *)
(* replaces.                                                               *)
THEOREM OnlyReplaced == Spec => []OnlyReplacedStreamsOverlap
<1>1. ASSUME IInv, NEW o \in Object, NEW p \in Object, o # p,
             m_arq_stream[o] = m_arq_stream[p], m_arq_stream[o] # NoEndpoint
      PROVE  \E t \in Thread : pc[t] = "take_stream" /\ this[t] \in {o, p}
  <2> USE NullAssumption
  <2>1. ASSUME NEW q \in Object, m_arq_stream[q] # NoEndpoint,
               \A t \in Thread : ~(pc[t] = "take_stream" /\ this[t] = q)
        PROVE  \/ m_registry[q] = m_arq_stream[q]
               \/ \E t \in Thread :
                    /\ pc[t] = "take_stream" /\ other[t] = q /\ this[t] \in Object
                    /\ m_registry[this[t]] = m_arq_stream[q]
    <3>1. PICK t \in Thread : q \in Held(t)
      BY <1>1, <2>1 DEF IInv, InvHeld, Empty
    <3>2. TypeOK /\ Role(t)
      BY <1>1 DEF IInv
    <3>. QED
      BY <2>1, <3>1, <3>2
         DEF Held, Role, Apart, InThis, InMove, Listening, Stopping, Open, Empty, TypeOK,
             Moving, Resting
  <2>2. SUFFICES ASSUME \A t \in Thread : ~(pc[t] = "take_stream" /\ this[t] \in {o, p})
                 PROVE  FALSE
    OBVIOUS
  <2>3. PICK q \in Object : m_registry[q] = m_arq_stream[o] /\
           (q = o \/ \E t \in Thread : pc[t] = "take_stream" /\ other[t] = o /\ this[t] = q)
    BY <1>1, <2>1, <2>2
  <2>4. PICK r \in Object : m_registry[r] = m_arq_stream[p] /\
           (r = p \/ \E t \in Thread : pc[t] = "take_stream" /\ other[t] = p /\ this[t] = r)
    BY <1>1, <2>1, <2>2
  <2>5. q = r
    BY <1>1, <2>3, <2>4 DEF IInv, InvRegistry
  <2>6. PICK t \in Thread, u \in Thread :
          /\ pc[t] = "take_stream" /\ other[t] = o /\ this[t] = q
          /\ pc[u] = "take_stream" /\ other[u] = p /\ this[u] = q
    BY <1>1, <2>2, <2>3, <2>4, <2>5
  <2>7. t = u
    <3>1. q \in Held(t) /\ q \in Held(u)
      BY <2>6 DEF Held
    <3>. QED BY <1>1, <3>1 DEF IInv, InvHeld
  <2>. QED BY <1>1, <2>6, <2>7
<1>2. IInv => OnlyReplacedStreamsOverlap
  BY <1>1 DEF OnlyReplacedStreamsOverlap
<1>. QED BY <1>2, Inductive, PTL

(* No receiver thread ever runs without the stream it dereferences.        *)
THEOREM NeverUnderIt == Spec => []ReceiverHasStream
<1>1. ASSUME IInv, NEW o \in Object, m_worker_receive[o] = "running"
      PROVE  m_arq_stream[o] # NoEndpoint
  <2>1. PICK t \in Thread : o \in Held(t)
    BY <1>1 DEF IInv, InvHeld, Unstarted
  <2>2. TypeOK /\ Role(t)
    BY <1>1 DEF IInv
  <2>. QED
    BY <1>1, <2>1, <2>2, NullAssumption
       DEF Held, Role, Apart, InThis, InMove, Listening, Stopping, Open, Unstarted,
           TypeOK, Moving
<1>2. IInv => ReceiverHasStream
  BY <1>1 DEF ReceiverHasStream
<1>. QED BY <1>2, Inductive, PTL

(* When no operation is underway each thread has all of the connections it *)
(* wants, or after a failure none, and each of them listens.               *)
THEOREM NoneHalfOpen == Spec => []AllOrNothing
<1>1. ASSUME IInv, NEW t \in Thread, pc[t] = "idle"
      PROVE  /\ {m_arq_stream[o] : o \in m_connections[t]} = wanted[t]
             /\ \A o \in m_connections[t] :
                  /\ m_registry[o] = m_arq_stream[o]
                  /\ m_worker_receive[o] = "running" /\ m_run_receive[o]
  <2>1. TypeOK /\ Role(t)
    BY <1>1 DEF IInv
  <2>2. \A o \in m_connections[t] :
          /\ m_registry[o] \in Endpoint /\ m_arq_stream[o] = m_registry[o]
          /\ m_worker_receive[o] = "running" /\ m_run_receive[o] = TRUE
    BY <2>1 DEF Role, Apart, Listening, Open
  <2>3. \A e \in Endpoint : e \in wanted[t] <=> \E o \in m_connections[t] : m_registry[o] = e
    BY <1>1, <2>1 DEF Role, Want, InHand, Dropped
  <2>4. wanted[t] \subseteq Endpoint
    BY <2>1 DEF TypeOK
  <2>. QED BY <2>2, <2>3, <2>4
<1>2. IInv => AllOrNothing
  BY <1>1 DEF AllOrNothing
<1>. QED BY <1>2, Inductive, PTL

(* When no operation is underway the registry holds exactly the endpoints  *)
(* the threads have connections to.                                        *)
THEOREM Registered == Spec => []NothingLeaks
<1>1. ASSUME IInv, \A t \in Thread : pc[t] = "idle"
      PROVE  registry = UNION {wanted[t] : t \in Thread}
  <2>1. TypeOK
    BY <1>1 DEF IInv
  <2>2. \A t \in Thread : Held(t) = m_connections[t]
    BY <1>1, <2>1 DEF Held, TypeOK, Moving
  <2>3. ASSUME NEW t \in Thread, NEW e \in Endpoint
        PROVE  e \in wanted[t] <=> \E o \in m_connections[t] : m_registry[o] = e
    BY <1>1 DEF IInv, Role, Want, InHand, Dropped
  <2>4. ASSUME NEW o \in Object, m_registry[o] # NoEndpoint
        PROVE  \E t \in Thread : o \in m_connections[t]
    BY <1>1, <2>2, <2>4 DEF IInv, InvHeld, Empty
  <2>5. ASSUME NEW e \in Endpoint
        PROVE  e \in registry <=> \E t \in Thread : e \in wanted[t]
    <3>1. e \in registry => \E t \in Thread : e \in wanted[t]
      BY <1>1, <2>3, <2>4, NullAssumption DEF IInv, InvRegistry
    <3>2. ASSUME NEW t \in Thread, e \in wanted[t] PROVE e \in registry
      BY <1>1, <2>3, <3>2 DEF IInv, InvRegistry, TypeOK
    <3>. QED BY <3>1, <3>2
  <2>6. registry \subseteq Endpoint /\ \A t \in Thread : wanted[t] \subseteq Endpoint
    BY <2>1 DEF TypeOK
  <2>. QED BY <2>5, <2>6
<1>2. IInv => NothingLeaks
  BY <1>1 DEF NothingLeaks
<1>. QED BY <1>2, Inductive, PTL
=============================================================================
