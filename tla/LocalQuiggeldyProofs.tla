------------------------- MODULE LocalQuiggeldyProofs -------------------------
(***************************************************************************)
(* Theorems about LocalQuiggeldy, for FPGA lists of any length and any     *)
(* number of signals.  The main thread and the signal thread share the     *)
(* server pointer without a lock.  What the inductive invariant IInv says  *)
(* of it: the pointer is set exactly while the object is alive (InvServer);*)
(* the signal thread goes on from its check only after a signal of         *)
(* somebody else, and finds the pointer gone only where the main thread    *)
(* itself has reset it (InvSignal).  The groups of connections are         *)
(* arithmetic, and GroupsCover is about them alone.                        *)
(***************************************************************************)
EXTENDS LocalQuiggeldy, SequenceTheorems, TLAPS

----------------------------------------------------------------------------
(* The groups of FromEnv. *)

(* Min, of two numbers. *)
LEMMA MinOfTwo ==
  ASSUME NEW a \in Nat, NEW b \in Nat
  PROVE  Min({a, b}) = IF a <= b THEN a ELSE b
  <1>1. CASE a <= b
    BY <1>1 DEF Min
  <1>2. CASE ~(a <= b)
    BY <1>2 DEF Min
  <1> QED BY <1>1, <1>2

(* How many groups of p there are: enough for the list, and none too many. *)
LEMMA GroupCount ==
  ASSUME NEW size \in Nat \ {0}, NEW p \in Nat \ {0}
  PROVE  LET count == (size + p - 1) \div p
         IN  /\ count \in Nat \ {0}
             /\ count * p >= size /\ (count - 1) * p < size
  <1> DEFINE count == (size + p - 1) \div p
  <1>1. count \in Int /\ p * count <= size + p - 1 /\ size + p - 1 < p * count + p
    OBVIOUS
  <1> HIDE DEF count
  <1>2. count > 0
    BY <1>1
  <1>3. count * p = p * count /\ (count - 1) * p = p * count - p
    BY <1>1
  <1> QED BY <1>1, <1>2, <1>3 DEF count

(* Groups that come later start later. *)
LEMMA Monotone ==
  ASSUME NEW a \in Nat, NEW b \in Nat, NEW p \in Nat, a <= b
  PROVE  a * p <= b * p
  <1>1. b * p = a * p + (b - a) * p
    OBVIOUS
  <1>2. (b - a) * p >= 0
    OBVIOUS
  <1>3. a * p \in Nat /\ b * p \in Nat /\ (b - a) * p \in Nat
    OBVIOUS
  <1> QED BY <1>1, <1>2, <1>3

(* What the loop that forms groups makes of a list, of whatever length.    *)
Cover(groups, size, per_multi) ==
  /\ groups # <<>> /\ groups[1].first = 0 /\ groups[Len(groups)].last >= size
  /\ \A k \in 1 .. Len(groups) - 1 : groups[k].last = groups[k + 1].first
  /\ \A k \in 1 .. Len(groups) : groups[k].first < size
  /\ size % per_multi = 0 \/ size < per_multi => groups[Len(groups)].last = size

(* A group has room for a connection: a size of 0 asks for one large group.*)
LEMMA PerMultiPositive ==
  ASSUME NEW size \in Nat \ {0}, NEW n \in Nat, NEW all_jboa \in BOOLEAN
  PROVE  PerMulti(size, n, all_jboa) \in Nat \ {0}
  BY DEF PerMulti

(* The loop packs a list of any length into groups of any size without gap *)
(* or overlap, none of them starting behind the list, and the last one     *)
(* ends with the list where the group size divides its length or exceeds   *)
(* it.                                                                     *)
LEMMA GroupsCover ==
  ASSUME NEW size \in Nat \ {0}, NEW n \in Nat, NEW all_jboa \in BOOLEAN
  PROVE  Cover(Groups(size, n, all_jboa), size, PerMulti(size, n, all_jboa))
  <1> DEFINE p == PerMulti(size, n, all_jboa)
             c == (size + p - 1) \div p
             group(k) == [first |-> (k - 1) * p, last |-> (k - 1) * p + Min({p, size})]
             groups == [k \in 1 .. c |-> group(k)]
  <1>1. p \in Nat \ {0}
    BY PerMultiPositive
  <1>2. groups = Groups(size, n, all_jboa)
    BY DEF Groups
  <1> HIDE DEF p
  <1>3. c \in Nat \ {0} /\ c * p >= size /\ (c - 1) * p < size
    BY <1>1, GroupCount
  <1>4. Min({p, size}) = IF p <= size THEN p ELSE size
    BY <1>1, MinOfTwo
  <1>5. p > size => c = 1
    <2> SUFFICES ASSUME p > size, c > 1 PROVE FALSE
      BY <1>3
    <2>1. 1 * p <= (c - 1) * p
      BY <1>1, <1>3, Monotone
    <2> QED BY <1>1, <1>3, <2>1
  <1>6. size % p = 0 => p <= size /\ c * p = size
    <2> HIDE DEF c
    <2> SUFFICES ASSUME size % p = 0 PROVE p <= size /\ c * p = size
      OBVIOUS
    <2>1. PICK q \in Nat : size = q * p
      <3>1. size = p * (size \div p) + (size % p)
        BY <1>1
      <3>2. size \div p \in Nat
        BY <1>1
      <3> QED BY <1>1, <3>1, <3>2
    <2>2. q >= 1
      BY <1>1, <2>1
    <2>3. q * p >= p
      <3>1. 1 * p <= q * p
        BY <1>1, <2>2, Monotone
      <3> QED BY <1>1, <3>1
    <2>4. c <= q
      <3> SUFFICES ASSUME q < c PROVE FALSE
        BY <1>3, <2>1
      <3>1. q * p <= (c - 1) * p
        BY <1>1, <1>3, Monotone
      <3> QED BY <1>1, <1>3, <2>1, <3>1
    <2>5. c * p <= q * p
      BY <1>1, <1>3, <2>4, Monotone
    <2> QED BY <1>1, <1>3, <2>1, <2>3, <2>5
  <1> HIDE DEF c
  <1>7. Len(groups) = c /\ groups # <<>> /\ \A k \in 1 .. c : groups[k] = group(k)
    <2>1. groups # <<>>
      <3>1. DOMAIN groups # {}
        BY <1>3
      <3> QED BY <3>1
    <2>2. Len(groups) = c
      BY <1>3
    <2> QED BY <2>1, <2>2
  <1> HIDE DEF groups
  <1>8. \A k \in 1 .. c : /\ groups[k].first = (k - 1) * p
                          /\ groups[k].last = (k - 1) * p + (IF p <= size THEN p ELSE size)
    <2> SUFFICES ASSUME NEW k \in 1 .. c
                 PROVE  /\ groups[k].first = (k - 1) * p
                        /\ groups[k].last = (k - 1) * p + (IF p <= size THEN p ELSE size)
      OBVIOUS
    <2>1. groups[k] = group(k)
      BY <1>7
    <2> QED BY <1>4, <2>1
  <1>9. /\ c \in 1 .. c /\ groups[1].first = 0
        /\ groups[c].last = (c - 1) * p + (IF p <= size THEN p ELSE size)
    <2>1. 1 \in 1 .. c /\ c \in 1 .. c /\ (1 - 1) * p = 0
      BY <1>1, <1>3
    <2> QED BY <1>8, <2>1
  <1>10. groups[c].last >= size
    <2>1. (c - 1) * p + p = c * p
      BY <1>1, <1>3
    <2>2. (1 - 1) * p = 0
      BY <1>1
    <2>3. CASE p <= size
      BY <1>3, <1>9, <2>1, <2>3
    <2>4. CASE p > size
      BY <1>1, <1>5, <1>9, <2>2, <2>4
    <2> QED BY <1>1, <2>3, <2>4
  <1>11. size % p = 0 \/ size < p => groups[c].last = size
    <2>1. (c - 1) * p + p = c * p /\ (1 - 1) * p = 0
      BY <1>1, <1>3
    <2>2. CASE size % p = 0
      BY <1>1, <1>6, <1>9, <2>1, <2>2
    <2>3. CASE size < p
      BY <1>1, <1>5, <1>9, <2>1, <2>3
    <2> QED BY <2>2, <2>3
  <1>12. ASSUME NEW k \in 1 .. c - 1 PROVE groups[k].last = groups[k + 1].first
    <2>1. k \in 1 .. c /\ k + 1 \in 1 .. c /\ c # 1
      BY <1>3, <1>12
    <2>2. groups[k].last = (k - 1) * p + p
      BY <1>1, <1>5, <1>8, <2>1
    <2>3. groups[k + 1].first = (k + 1 - 1) * p
      BY <1>8, <2>1
    <2>4. (k + 1 - 1) * p = (k - 1) * p + p
      BY <1>1, <2>1
    <2> QED BY <2>2, <2>3, <2>4
  <1>13. ASSUME NEW k \in 1 .. c PROVE groups[k].first < size
    <2>1. (k - 1) * p <= (c - 1) * p
      BY <1>1, <1>3, <1>13, Monotone
    <2>2. groups[k].first = (k - 1) * p
      BY <1>8
    <2>3. (k - 1) * p \in Int /\ (c - 1) * p \in Int
      BY <1>1, <1>3, <1>13
    <2> QED BY <1>3, <2>1, <2>2, <2>3
  <1> QED BY <1>2, <1>7, <1>8, <1>9, <1>10, <1>11, <1>12, <1>13 DEF Cover, p

(* What CommandGetsConnections says of the groups of a list.               *)
Partition(groups, size) ==
  /\ groups # <<>> /\ groups[1].first = 0 /\ groups[Len(groups)].last = size
  /\ \A k \in 1 .. Len(groups) - 1 : groups[k].last = groups[k + 1].first
  /\ \A k \in 1 .. Len(groups) : groups[k].first < size

(* get_connection_list_from_env packs a list of any length into groups of   *)
(* any size so that every connection is in exactly one of them, in the     *)
(* order of the list, unless a group runs behind its end, which happens    *)
(* only where the group size neither divides nor exceeds its length.       *)
THEOREM GroupsPartition ==
  ASSUME NEW size \in Nat \ {0}, NEW n \in Nat, NEW all_jboa \in BOOLEAN
  PROVE  LET groups == Groups(size, n, all_jboa)
             per_multi == PerMulti(size, n, all_jboa)
         IN  IF Overrun(groups, size) THEN per_multi < size /\ size % per_multi # 0
                                      ELSE Partition(groups, size)
  <1> DEFINE p == PerMulti(size, n, all_jboa)
             groups == Groups(size, n, all_jboa)
             len == Len(groups)
  <1>1. p \in Nat \ {0}
    BY PerMultiPositive
  <1>2. Cover(groups, size, p)
    BY GroupsCover
  <1>3. len \in Nat \ {0} /\ \A k \in 1 .. len : groups[k].first \in Int /\ groups[k].last \in Int
    <2> DEFINE c == (size + p - 1) \div p
    <2>1. c \in Nat \ {0}
      BY <1>1, GroupCount
    <2>2. groups = [k \in 1 .. c |-> [first |-> (k - 1) * p, last |-> (k - 1) * p + Min({p, size})]]
      BY DEF Groups
    <2>3. Min({p, size}) \in Nat
      BY <1>1, MinOfTwo
    <2> HIDE DEF c, p
    <2>4. len = c
      BY <2>1, <2>2
    <2>5. ASSUME NEW k \in 1 .. c PROVE groups[k].first \in Int /\ groups[k].last \in Int
      <3>1. groups[k] = [first |-> (k - 1) * p, last |-> (k - 1) * p + Min({p, size})]
        BY <2>2
      <3>2. (k - 1) * p \in Int
        BY <1>1, <2>1
      <3> QED BY <2>3, <3>1, <3>2
    <2> QED BY <2>1, <2>4, <2>5
  <1> HIDE DEF p, groups
  <1>4. CASE Overrun(groups, size)
    <2>1. PICK k \in 1 .. len : groups[k].last > size
      BY <1>4 DEF Overrun
    <2>2. k = len
      <3> SUFFICES ASSUME k # len PROVE FALSE
        OBVIOUS
      <3>1. k \in 1 .. len - 1 /\ k + 1 \in 1 .. len
        BY <1>3
      <3>2. groups[k].last = groups[k + 1].first /\ groups[k + 1].first < size
        BY <1>2, <3>1 DEF Cover
      <3> QED BY <1>3, <2>1, <3>1, <3>2
    <2>3. ~(size % p = 0 \/ size < p)
      BY <1>2, <2>1, <2>2 DEF Cover
    <2>4. p # size
      <3>1. size % size = 0
        OBVIOUS
      <3> QED BY <2>3, <3>1
    <2> QED BY <1>1, <1>4, <2>3, <2>4 DEF p, groups
  <1>5. CASE ~Overrun(groups, size)
    <2>1. groups[len].last = size
      <3>1. len \in 1 .. len
        BY <1>3
      <3>2. ~(groups[len].last > size)
        BY <1>5, <3>1 DEF Overrun
      <3> QED BY <1>2, <1>3, <3>1, <3>2 DEF Cover
    <2>2. Partition(groups, size)
      BY <1>2, <2>1 DEF Partition, Cover
    <2> QED BY <1>5, <2>2 DEF groups
  <1> QED BY <1>4, <1>5 DEF p, groups
----------------------------------------------------------------------------
(* The program before it blocks signals. *)
Early == {"none", "exec", "parse", "prctl", "signals"}

(* The handler, and whether there is a signal thread, follow from where    *)
(* the main thread is.                                                     *)
InvStage ==
  /\ pc = "none" => exit = "none"
  /\ handler = IF pc \in Early THEN "default"
               ELSE IF pc \in {"allocate", "install"} THEN "dummy" ELSE "real"
  /\ sigthread = "none" <=> pc \in Early
  /\ handler = "dummy" => sigthread = "wait"

InvServer ==
  /\ object = "none" <=> pc \in Early \cup {"allocate"}
  /\ server <=> object = "alive"
  /\ sigthread = "deleting" => object = "dying"
  /\ pc = "install" => server
  /\ pc \in {"wake", "join"} => ~server
  /\ pc = "delete" /\ server => old["main"]
  /\ pc \in {"start", "starting", "serve", "reset", "delete"} /\ ~server => signalled

(* Before the main thread wakes the signal thread, all signals come from   *)
(* somebody else.                                                          *)
InvSignal ==
  /\ (pending # {} \/ sigthread = "check") /\ pc # "join" => signalled
  /\ sigthread \in {"continue", "shutdown", "delete", "deleting"} => signalled
  /\ sigthread \in {"continue", "shutdown", "delete"} /\ ~server =>
       old["main"] /\ pc \in {"wake", "join"}

InvProgram == InvStage /\ InvServer /\ InvSignal /\ CrashesOnlyOnSignal

(* What the wrapper has started, and what its child is.                    *)
InvWrapper ==
  /\ w_pc = "launch" => pc = "none" /\ command = "none" /\ ~pid
  /\ by_hand => w_pc \in {"launch", "ended"} /\ command = "none" /\ ~pid
  /\ ~by_hand /\ ~pid => pc = "none"
  /\ w_pc = "fork" => command = "none"
  /\ w_pc \in {"term", "reap", "ended"} => command \in {"none", "ended"}
  /\ pid => env.quiggeldy = "1"

IInv ==
  /\ TypeOK
  /\ InvProgram
  /\ InvWrapper /\ NothingLeftRunning
  /\ CommandGetsConnections
----------------------------------------------------------------------------
USE DEF process, signals, outside, shared, programVars, wrapper, vars

(* A step of the program while it runs. *)
ProgramStep == MainThread \/ SignalThread \/ WorkDone \/ WorkArrives

(* Nothing the program sees. *)
Aside == UNCHANGED <<process, signals, shared, signalled>>

(* A signal gets to the program, or a signal that is meant for nobody.     *)
Hit == Aside \/ \E s \in Signals : Receive(s)

(* The steps that leave the program alone, or only send it a signal.       *)
WrapperStep ==
  \/ Fork \/ WaitForCommand \/ Terminate \/ Reap
  \/ CommandExec \/ CommandEnds \/ WrapperIsKilled
  \/ ConnectFullStream \/ \E n \in 0 .. MaxFPGAs, all_jboa \in BOOLEAN : Connect(n, all_jboa)

OtherSignal == LauncherDies \/ ((\E s \in Signals : UserSignal(s)) /\ UNCHANGED wrapper)

(* The steps of Next, one case each: a lemma the step lemmas start from.   *)
LEMMA NextCases ==
  ASSUME [Next]_vars
  PROVE  \/ Launch \/ LaunchByHand \/ WrapperStep \/ OtherSignal
         \/ ProgramStep /\ UNCHANGED wrapper
         \/ UNCHANGED vars
  BY DEF Next, Program, Wrapper, ProgramStep, WrapperStep, OtherSignal

(* Steps outside of the program only send it signals. *)
LEMMA OutsideHits ==
  ASSUME WrapperStep \/ OtherSignal \/ UNCHANGED vars
  PROVE  Hit
  <1> USE DEF Signals, Hit, Aside
  <1>1. CASE Fork \/ WaitForCommand \/ Reap \/ CommandEnds \/ ConnectFullStream \/ UNCHANGED vars
    BY <1>1 DEF Fork, WaitForCommand, Reap, CommandEnds, ConnectFullStream
  <1>2. CASE Terminate \/ CommandExec
    BY <1>2 DEF Terminate, CommandExec
  <1>3. CASE WrapperIsKilled \/ OtherSignal
    BY <1>3 DEF WrapperIsKilled, OtherSignal, LauncherDies, ParentDies, UserSignal
  <1>4. CASE \E n \in 0 .. MaxFPGAs, all_jboa \in BOOLEAN : Connect(n, all_jboa)
    BY <1>4 DEF Connect
  <1> QED BY <1>1, <1>2, <1>3, <1>4 DEF WrapperStep
(* The variables of the program, and of what is around it, keep their type.*)
TypeProgram ==
  /\ cfg \in Config
  /\ pc \in {"none", "exec", "parse", "prctl", "signals", "allocate", "install", "start",
             "starting", "serve", "reset", "delete", "wake", "join"}
  /\ exit \in {"none", "success", "failure", "killed", "crashed"}
  /\ sigthread \in {"none", "wait", "check", "continue", "shutdown", "delete", "deleting", "ended"}
  /\ signal \in Signals /\ handler \in {"default", "dummy", "real"} /\ pending \subseteq Signals
  /\ server \in BOOLEAN /\ object \in {"none", "alive", "dying", "dead"}
  /\ old \in [{"main", "signal"} -> BOOLEAN]
  /\ work \in BOOLEAN /\ work_left_at_shutdown \in BOOLEAN /\ armed \in BOOLEAN
  /\ signalled \in BOOLEAN

TypeWrapper ==
  /\ parent \in BOOLEAN /\ sent \in 0 .. MaxSignals
  /\ by_hand \in BOOLEAN /\ pid \in BOOLEAN
  /\ env \in Environment(MaxFPGAs)
  /\ w_pc \in {"launch", "fork", "wait", "term", "reap", "ended", "killed"}
  /\ command \in {"none", "forked", "running", "connected", "undefined", "ended"}
  /\ connection.backend \in {"zero_mock", "quiggeldy", "arq", "sim", "none"}

LEMMA TypeParts == (TypeOK <=> TypeProgram /\ TypeWrapper) /\ (TypeOK <=> TypeProgram /\ TypeWrapper)'
  BY DEF TypeOK, TypeProgram, TypeWrapper

(* Every variable keeps its type.                                          *)
LEMMA TypeStep ==
  ASSUME TypeProgram, TypeWrapper, [Next]_vars
  PROVE  TypeProgram' /\ TypeWrapper'
  <1> USE DEF Signals
  <1>1. ASSUME Launch PROVE TypeProgram' /\ TypeWrapper'
    <2>1. [env EXCEPT !.quiggeldy = "1"] \in Environment(MaxFPGAs)
      BY DEF TypeWrapper, Environment, Switch
    <2>2. /\ pc' \in {pc, "exec"} /\ pid' \in BOOLEAN
          /\ env' \in {env, [env EXCEPT !.quiggeldy = "1"]}
          /\ w_pc' \in {"fork", "ended"}
          /\ UNCHANGED <<cfg, exit, armed, signals, shared, outside, by_hand, command, connection>>
      BY <1>1 DEF Launch, LaunchQuiggeldy, TypeWrapper
    <2> QED BY <2>1, <2>2 DEF TypeProgram, TypeWrapper
  <1>2. ASSUME LaunchByHand PROVE TypeProgram' /\ TypeWrapper'
    <2>1. /\ pc' = "exec" /\ w_pc' = "ended"
          /\ UNCHANGED <<cfg, exit, armed, signals, shared, outside, by_hand, env, pid, command,
                         connection>>
      BY <1>2 DEF LaunchByHand
    <2> QED BY <2>1 DEF TypeProgram, TypeWrapper
  <1>3. ASSUME Hit PROVE TypeProgram'
    <2>1. ASSUME NEW s \in Signals, Receive(s) PROVE TypeProgram'
      <3>1. /\ exit' \in {exit, "killed"} /\ pending' \in {pending, pending \cup {s}}
            /\ UNCHANGED <<cfg, pc, armed, sigthread, signal, handler, shared>>
        BY <2>1 DEF Receive, End
      <3>2. signalled' \in BOOLEAN
        BY <2>1 DEF Receive
      <3> QED BY <3>1, <3>2 DEF TypeProgram
    <2>2. Aside => TypeProgram'
      BY DEF Aside, TypeProgram
    <2> QED BY <1>3, <2>1, <2>2, Zenon DEF Hit
  <1>4. ASSUME WrapperStep PROVE TypeProgram' /\ TypeWrapper'
    <2>1. TypeProgram'
      BY <1>3, <1>4, OutsideHits
    <2>2. /\ w_pc' \in {"launch", "fork", "wait", "term", "reap", "ended", "killed"}
          /\ command' \in {"none", "forked", "running", "connected", "undefined", "ended"}
          /\ parent' \in BOOLEAN
          /\ UNCHANGED <<sent, by_hand, env, pid>>
      <3> USE DEF TypeWrapper
      <3>1. CASE Fork \/ WaitForCommand \/ Reap \/ CommandEnds \/ ConnectFullStream
        BY <3>1 DEF Fork, WaitForCommand, Reap, CommandEnds, ConnectFullStream
      <3>2. CASE Terminate \/ CommandExec
        BY <3>2 DEF Terminate, CommandExec
      <3>3. CASE WrapperIsKilled
        BY <3>3 DEF WrapperIsKilled, ParentDies
      <3>4. CASE \E n \in 0 .. MaxFPGAs, all_jboa \in BOOLEAN : Connect(n, all_jboa)
        BY <3>4 DEF Connect
      <3> QED BY <1>4, <3>1, <3>2, <3>3, <3>4 DEF WrapperStep
    <2>3. connection'.backend \in {"zero_mock", "quiggeldy", "arq", "sim", "none"}
      <3>1. CASE UNCHANGED connection
        BY <3>1 DEF TypeWrapper
      <3>2. CASE ConnectFullStream
        BY <3>2 DEF ConnectFullStream, FullStream, HasFullStream, NoConnection, TypeWrapper
      <3>3. ASSUME NEW n \in 0 .. MaxFPGAs, NEW all_jboa \in BOOLEAN, Connect(n, all_jboa)
            PROVE  connection'.backend \in {"zero_mock", "quiggeldy", "arq", "sim", "none"}
        BY <3>3 DEF Connect, Backend, NoConnection
      <3> QED BY <1>4, <3>1, <3>2, <3>3 DEF WrapperStep, Fork, WaitForCommand, Terminate, Reap,
                                            CommandExec, CommandEnds, WrapperIsKilled
    <2> QED BY <2>1, <2>2, <2>3 DEF TypeWrapper
  <1>5. ASSUME OtherSignal PROVE TypeProgram' /\ TypeWrapper'
    <2>1. TypeProgram'
      BY <1>3, <1>5, OutsideHits
    <2>2. UNCHANGED wrapper
      BY <1>5 DEF OtherSignal, LauncherDies
    <2>3. sent' \in 0 .. MaxSignals /\ parent' \in BOOLEAN
      <3>1. CASE LauncherDies
        BY <3>1 DEF LauncherDies, ParentDies, TypeWrapper
      <3>2. ASSUME NEW s \in Signals, UserSignal(s) PROVE sent' \in 0 .. MaxSignals /\ parent' = parent
        BY <3>2, SignalAssumption DEF UserSignal, TypeWrapper
      <3> QED BY <1>5, <3>1, <3>2 DEF OtherSignal, TypeWrapper
    <2> QED BY <2>1, <2>2, <2>3 DEF TypeWrapper
  <1>6. ASSUME ProgramStep PROVE TypeProgram' /\ UNCHANGED <<parent, sent>>
    <2> USE DEF At, Goto, End, SignalAt, SignalGoto, ReadPointer
    <2>1. CASE SigWait
      BY <2>1 DEF SigWait, TypeProgram
    <2>2. CASE CheckServer
      BY <2>2 DEF CheckServer, TypeProgram
    <2>3. CASE WorkArrives \/ WorkDone
      <3>1. work' \in BOOLEAN
        BY <2>3 DEF WorkArrives, WorkDone
      <3>2. UNCHANGED <<process, signals, server, object, old, work_left_at_shutdown, outside>>
        BY <2>3 DEF WorkArrives, WorkDone
      <3> QED BY <3>1, <3>2 DEF TypeProgram
    <2>4. CASE Allocate \/ Reset
      <3>1. /\ pc' \in {pc, "install", "wake"} /\ exit' \in {exit, "failure", "crashed"}
            /\ UNCHANGED <<cfg, armed, signals, old, work, work_left_at_shutdown, outside>>
        BY <2>4 DEF Allocate, Reset
      <3>2. server' \in BOOLEAN /\ object' \in {object, "alive", "dead"}
        BY <2>4 DEF Allocate, Reset, TypeProgram
      <3> QED BY <3>1, <3>2 DEF TypeProgram
    <2>5. CASE ResetIdleTimeout
      <3>1. /\ sigthread' \in {sigthread, "wait"} /\ exit' \in {exit, "crashed"}
            /\ UNCHANGED <<cfg, pc, armed, signal, handler, pending, shared, outside>>
        BY <2>5 DEF ResetIdleTimeout
      <3> QED BY <3>1 DEF TypeProgram
    <2>6. CASE HasWorkLeft
      <3>1. /\ sigthread' \in {sigthread, "delete"} /\ exit' \in {exit, "crashed"}
            /\ work_left_at_shutdown' \in {work_left_at_shutdown, work}
            /\ old' \in {old, [old EXCEPT !["signal"] = server]}
            /\ UNCHANGED <<cfg, pc, armed, signal, handler, pending, server, object, work, outside>>
        BY <2>6 DEF HasWorkLeft
      <3> QED BY <3>1 DEF TypeProgram
    <2>7. CASE BeginShutdown
      <3>1. /\ sigthread' \in {sigthread, "deleting"} /\ exit' \in {exit, "crashed"}
            /\ object' \in {object, "dying"} /\ server' \in BOOLEAN
            /\ UNCHANGED <<cfg, pc, armed, signal, handler, pending, old, work,
                           work_left_at_shutdown, outside>>
        BY <2>7 DEF BeginShutdown
      <3> QED BY <3>1 DEF TypeProgram
    <2>8. CASE EndShutdown
      BY <2>8 DEF EndShutdown, TypeProgram
    <2>9. CASE \/ Exec \/ Parse \/ DereferenceServer \/ StartServer \/ InstallHandler
               \/ SetupSignalHandlerThread
      <3>1. /\ pc' \in {pc, "parse", "prctl", "allocate", "start", "starting", "serve"}
            /\ exit' \in {exit, "failure", "success", "killed", "crashed"}
            /\ handler' \in {handler, "dummy", "real"} /\ sigthread' \in {sigthread, "wait"}
            /\ UNCHANGED <<cfg, armed, signal, pending, shared, outside>>
        BY <2>9 DEF Exec, Parse, DereferenceServer, StartServer, InstallHandler,
                    SetupSignalHandlerThread
      <3> QED BY <3>1 DEF TypeProgram
    <2>10. CASE SetParentDeathSignal
      <3>1. armed' \in BOOLEAN
        BY <2>10 DEF SetParentDeathSignal
      <3> QED BY <2>10, <3>1 DEF SetParentDeathSignal, TypeProgram
    <2>11. CASE IdleTimeout \/ ShutDown \/ BeginReset
      <3>1. /\ pc' \in {"reset", "delete"} /\ old' \in {old, [old EXCEPT !["main"] = server]}
            /\ UNCHANGED <<cfg, exit, armed, signals, server, object, work, work_left_at_shutdown, outside>>
        BY <2>11 DEF IdleTimeout, ShutDown, BeginReset
      <3> QED BY <3>1 DEF TypeProgram
    <2>12. CASE WakeSignalThread \/ Join
      <3>1. /\ pc' \in {pc, "join"} /\ exit' \in {exit, "failure", "success"}
            /\ pending' \in {pending, pending \cup {"CONT"}}
            /\ UNCHANGED <<cfg, armed, sigthread, signal, handler, shared, outside>>
        BY <2>12 DEF WakeSignalThread, Join
      <3> QED BY <3>1 DEF TypeProgram
    <2> QED BY <1>6, <2>1, <2>2, <2>3, <2>4, <2>5, <2>6, <2>7, <2>8, <2>9, <2>10, <2>11, <2>12
            DEF ProgramStep, MainThread, SignalThread
  <1>7. CASE ProgramStep /\ UNCHANGED wrapper
    <2>1. TypeProgram' /\ UNCHANGED <<parent, sent, wrapper>>
      BY <1>6, <1>7
    <2> QED BY <2>1 DEF TypeWrapper
  <1>8. CASE UNCHANGED vars
    BY <1>8 DEF TypeProgram, TypeWrapper
  <1> QED BY <1>1, <1>2, <1>4, <1>5, <1>7, <1>8, NextCases, Zenon

(* The program runs while it takes steps; a signal, or a step, does not    *)
(* bring it back.                                                          *)
LEMMA ProgramRuns ==
  ASSUME ProgramStep \/ Hit
  PROVE  /\ Runs' => Runs
         /\ pc = "none" => pc' = "none"
         /\ ~Runs => UNCHANGED <<pc, exit, old>> /\ ~ProgramStep
  <1>1. ASSUME ProgramStep PROVE Runs /\ pc' # "none"
    <2> USE DEF At, Goto, End, SignalAt, SignalGoto, Runs
    <2>1. Runs
      BY <1>1 DEF ProgramStep, MainThread, SignalThread, Exec, Parse, SetParentDeathSignal,
                  SetupSignalHandlerThread, Allocate, InstallHandler, DereferenceServer,
                  StartServer, IdleTimeout, ShutDown, BeginReset, Reset, WakeSignalThread, Join, SigWait, CheckServer,
                  ResetIdleTimeout, HasWorkLeft, BeginShutdown, EndShutdown, WorkDone, WorkArrives
    <2>2. pc' # "none"
      BY <1>1, <2>1 DEF ProgramStep, MainThread, SignalThread, Exec, Parse, SetParentDeathSignal,
                  SetupSignalHandlerThread, Allocate, InstallHandler, DereferenceServer,
                  StartServer, IdleTimeout, ShutDown, BeginReset, Reset, WakeSignalThread, Join, SigWait, CheckServer,
                  ResetIdleTimeout, HasWorkLeft, BeginShutdown, EndShutdown, WorkDone, WorkArrives
    <2> QED BY <2>1, <2>2
  <1>2. ASSUME NEW s \in Signals, Receive(s)
        PROVE  pc' = pc /\ old' = old /\ (exit' = exit \/ (Runs /\ exit' = "killed"))
    BY <1>2 DEF Receive, End
  <1>3. ASSUME Hit
        PROVE  pc' = pc /\ old' = old /\ (exit' = exit \/ (Runs /\ exit' = "killed"))
    BY <1>2, <1>3, Zenon DEF Hit, Aside
  <1> QED BY <1>1, <1>3 DEF Runs
(* What is proved of the program holds whatever the main thread, the       *)
(* signal thread and the clients do next: one case for each action.        *)
LEMMA ProgramStepInv ==
  ASSUME TypeProgram, InvProgram, ProgramStep
  PROVE  InvProgram'
  <1> USE DEF TypeProgram, InvProgram, InvStage, InvServer, InvSignal, CrashesOnlyOnSignal, Early,
              Signals, Runs, At, Goto, End, SignalAt, SignalGoto, ReadPointer
  <1>1. CASE Exec
    BY <1>1 DEF Exec
  <1>2. CASE Parse
    BY <1>2 DEF Parse
  <1>3. CASE SetParentDeathSignal
    BY <1>3 DEF SetParentDeathSignal
  <1>4. CASE SetupSignalHandlerThread
    BY <1>4 DEF SetupSignalHandlerThread
  <1>5. CASE Allocate
    BY <1>5 DEF Allocate
  <1>6. CASE InstallHandler
    BY <1>6 DEF InstallHandler
  <1>7. CASE DereferenceServer \/ StartServer
    BY <1>7 DEF DereferenceServer, StartServer
  <1>8. CASE WorkArrives
    BY <1>8 DEF WorkArrives
  <1>9. CASE WorkDone
    BY <1>9 DEF WorkDone
  <1>10. CASE IdleTimeout
    BY <1>10 DEF IdleTimeout
  <1>11. CASE ShutDown
    BY <1>11 DEF ShutDown
  <1>12. CASE BeginReset
    BY <1>12 DEF BeginReset
  <1>13. CASE Reset
    BY <1>13 DEF Reset
  <1>14. CASE WakeSignalThread
    BY <1>14 DEF WakeSignalThread
  <1>15. CASE Join
    BY <1>15 DEF Join
  <1>16. CASE SigWait
    BY <1>16 DEF SigWait
  <1>17. CASE CheckServer
    BY <1>17 DEF CheckServer
  <1>18. CASE ResetIdleTimeout
    BY <1>18 DEF ResetIdleTimeout
  <1>19. CASE HasWorkLeft
    BY <1>19 DEF HasWorkLeft
  <1>20. CASE BeginShutdown
    BY <1>20 DEF BeginShutdown
  <1>21. CASE EndShutdown
    BY <1>21 DEF EndShutdown
  <1> QED BY <1>1, <1>2, <1>3, <1>4, <1>5, <1>6, <1>7, <1>8, <1>9, <1>10, <1>11, <1>12, <1>13, <1>14, <1>15, <1>16, <1>17, <1>18, <1>19, <1>20, <1>21
          DEF ProgramStep, MainThread, SignalThread

(* A signal is pending only for somebody's having sent it.                 *)
LEMMA HitInv ==
  ASSUME TypeProgram, InvProgram, Hit
  PROVE  InvProgram'
  <1> USE DEF TypeProgram, InvProgram, InvStage, InvServer, InvSignal, CrashesOnlyOnSignal, Early,
              Signals, Runs, End
  <1>1. ASSUME NEW s \in Signals, Receive(s) PROVE InvProgram'
    <2>1. /\ UNCHANGED <<pc, sigthread, handler, shared>>
          /\ exit' = exit \/ (Runs /\ exit' = "killed")
          /\ pending' = pending \/ signalled'
          /\ signalled => signalled'
      BY <1>1 DEF Receive
    <2> QED BY <2>1
  <1>2. CASE Aside
    BY <1>2 DEF Aside
  <1> QED BY <1>1, <1>2 DEF Hit

(* The program, across a step of the whole.                                *)
LEMMA ProgramInv ==
  ASSUME TypeProgram, InvProgram, InvWrapper, [Next]_vars
  PROVE  InvProgram'
  <1>1. CASE Launch \/ LaunchByHand
    <2>1. /\ pc = "none" /\ pc' \in {pc, "exec"}
          /\ UNCHANGED <<exit, signals, shared, signalled>>
      BY <1>1 DEF Launch, LaunchQuiggeldy, LaunchByHand, InvWrapper
    <2> QED BY <2>1 DEF InvProgram, InvStage, InvServer, InvSignal, CrashesOnlyOnSignal, Early
  <1> QED BY <1>1, NextCases, OutsideHits, HitInv, ProgramStepInv

(* What the wrapper started has ended when the wrapper has.                *)
LEMMA WrapperInv ==
  ASSUME TypeWrapper, InvStage, InvWrapper, NothingLeftRunning, [Next]_vars
  PROVE  InvWrapper' /\ NothingLeftRunning'
  <1> USE DEF TypeWrapper, InvWrapper, NothingLeftRunning
  <1>1. CASE Launch
    <2>1. /\ ~by_hand /\ w_pc = "launch" /\ pc = "none" /\ command = "none" /\ ~pid
          /\ UNCHANGED <<by_hand, command>>
      BY <1>1 DEF Launch
    <2>2. \/ env.quiggeldy # "unset" /\ w_pc' = "fork" /\ UNCHANGED <<pc, env, pid>>
          \/ w_pc' = "fork" /\ pc' = "exec" /\ pid' /\ env'.quiggeldy = "1"
          \/ w_pc' = "ended" /\ UNCHANGED <<pc, env, pid>>
      BY <1>1 DEF Launch, LaunchQuiggeldy, Environment
    <2> QED BY <2>1, <2>2 DEF Runs
  <1>2. CASE LaunchByHand
    <2>1. by_hand /\ w_pc' = "ended" /\ UNCHANGED <<by_hand, env, pid, command>>
      BY <1>2 DEF LaunchByHand
    <2> QED BY <1>2, <2>1 DEF LaunchByHand
  <1>3. CASE Hit /\ UNCHANGED wrapper
    BY <1>3, ProgramRuns
  <1>4. CASE ProgramStep /\ UNCHANGED wrapper
    <2>1. Runs /\ pc # "none"
      BY <1>4, ProgramRuns DEF Runs
    <2>2. ~(w_pc = "ended" /\ ~by_hand) /\ w_pc # "launch"
      BY <2>1
    <2>3. by_hand \/ pid
      BY <2>1
    <2> QED BY <1>4, <2>1, <2>2, <2>3
  <1>5. CASE WrapperStep
    <2>1. Runs' => Runs
      BY <1>5, OutsideHits, ProgramRuns
    <2>2. pc = "none" => pc' = "none"
      BY <1>5, OutsideHits, ProgramRuns
    <2>3. CASE Fork
      BY <2>2, <2>3 DEF Fork
    <2>4. CASE WaitForCommand
      BY <2>2, <2>4 DEF WaitForCommand
    <2>5. CASE Terminate
      <3>1. ~pid /\ ~by_hand => ~Runs
        BY DEF Runs
      <3> QED BY <2>1, <2>2, <2>5, <3>1 DEF Terminate
    <2>6. CASE Reap
      BY <2>1, <2>2, <2>6 DEF Reap
    <2>7. CASE CommandExec
      BY <2>1, <2>2, <2>7 DEF CommandExec
    <2>8. CASE CommandEnds
      BY <2>1, <2>2, <2>8 DEF CommandEnds
    <2>9. CASE WrapperIsKilled
      BY <2>1, <2>2, <2>9 DEF WrapperIsKilled
    <2>10. CASE ConnectFullStream
      BY <2>1, <2>2, <2>10 DEF ConnectFullStream
    <2>11. ASSUME NEW n \in 0 .. MaxFPGAs, NEW all_jboa \in BOOLEAN, Connect(n, all_jboa)
           PROVE  InvWrapper' /\ NothingLeftRunning'
      <3>1. /\ command = "running" /\ command' \in {"ended", "connected", "undefined"}
            /\ UNCHANGED <<programVars, by_hand, env, w_pc, pid>>
        BY <2>11 DEF Connect
      <3> QED BY <2>1, <2>2, <3>1
    <2> QED BY <1>5, <2>3, <2>4, <2>5, <2>6, <2>7, <2>8, <2>9, <2>10, <2>11 DEF WrapperStep
  <1>6. OtherSignal \/ UNCHANGED vars => Hit /\ UNCHANGED wrapper
    BY OutsideHits DEF OtherSignal, LauncherDies
  <1> QED BY <1>1, <1>2, <1>3, <1>4, <1>5, <1>6, NextCases
(* The backend is the one that CommandGetsConnections asks for.            *)
Configured(backend) == pid => backend = IF env.zero_mock = "1" THEN "zero_mock" ELSE "quiggeldy"

(* A command that has connections has them as the environment says, and    *)
(* all that were found are in its groups.                                  *)
LEMMA ConnectionInv ==
  ASSUME TypeWrapper, InvWrapper, CommandGetsConnections, [Next]_vars
  PROVE  CommandGetsConnections'
  <1>1. CommandGetsConnections <=>
          /\ command \in {"connected", "undefined"} => Configured(connection.backend)
          /\ command = "connected" => Partition(connection.groups, connection.size)
          /\ command = "undefined" =>
               connection.per_multi < connection.size /\ connection.size % connection.per_multi # 0
    BY DEF CommandGetsConnections, Partition, Configured
  <1>2. ASSUME Configured(connection'.backend), UNCHANGED <<pid, env>>,
               command' # "undefined", Partition(connection'.groups, connection'.size)
        PROVE  CommandGetsConnections'
    BY <1>2 DEF CommandGetsConnections, Partition, Configured
  <1>3. CASE command' \notin {"connected", "undefined"}
    BY <1>3 DEF CommandGetsConnections
  <1>4. CASE UNCHANGED <<command, connection, pid, env>>
    BY <1>4 DEF CommandGetsConnections
  <1>5. ASSUME ConnectFullStream PROVE CommandGetsConnections'
    <2> DEFINE backend == Backend(env)
    <2> SUFFICES ASSUME command' = "connected" PROVE CommandGetsConnections'
      BY <1>3, <1>5 DEF ConnectFullStream
    <2>1. /\ HasFullStream(backend) /\ UNCHANGED <<pid, env>>
          /\ connection' = FullStream([NoConnection EXCEPT !.backend = backend])
      BY <1>5 DEF ConnectFullStream
    <2>2. connection' = [backend |-> backend, size |-> 1, per_multi |-> 1,
                         groups |-> <<[first |-> 0, last |-> 1]>>]
      BY <2>1 DEF FullStream, NoConnection
    <2>3. Partition(<<[first |-> 0, last |-> 1]>>, 1)
      BY DEF Partition
    <2>4. Configured(backend)
      BY <2>1 DEF Configured, InvWrapper, HasFullStream, Backend, zeromockconnections, quiggeldyclients
    <2> QED BY <1>2, <2>1, <2>2, <2>3, <2>4
  <1>6. ASSUME NEW n \in 0 .. MaxFPGAs, NEW all_jboa \in BOOLEAN, Connect(n, all_jboa)
        PROVE  CommandGetsConnections'
    <2> DEFINE backend == Backend(env)
               size == Found(env)[backend]
               groups == Groups(size, n, all_jboa)
               p == PerMulti(size, n, all_jboa)
    <2>1. UNCHANGED <<pid, env>> /\ (backend = "none" => command' = "ended")
      BY <1>6 DEF Connect
    <2> SUFFICES ASSUME backend # "none" PROVE CommandGetsConnections'
      BY <1>3, <2>1
    <2>2. Configured(backend)
      BY DEF Configured, InvWrapper, Backend, zeromockconnections, quiggeldyclients
    <2>3. n \in Nat /\ size \in Nat \ {0} /\ (backend = "quiggeldy" => size = 1)
      <3>1. env.fpga_ips \in Nat
        BY FPGAAssumption DEF TypeWrapper, Environment
      <3> QED BY <3>1, FPGAAssumption
              DEF Backend, Found, zeromockconnections, quiggeldyclients, arqconnections, simconnections
    <2>4. CASE backend = "quiggeldy"
      <3>1. /\ connection' = [backend |-> backend, size |-> 1, per_multi |-> 1,
                              groups |-> Groups(1, 1, FALSE)]
            /\ command' = "connected"
        BY <1>6, <2>4 DEF Connect
      <3>2. PerMulti(1, 1, FALSE) = 1
        BY DEF PerMulti
      <3>3. 1 < 1 \/ Partition(Groups(1, 1, FALSE), 1)
        <4>1. 1 \in Nat \ {0} /\ 1 \in Nat /\ FALSE \in BOOLEAN
          OBVIOUS
        <4> QED BY <3>2, <4>1, GroupsPartition, Zenon
      <3>4. Partition(Groups(1, 1, FALSE), 1)
        <4>1. ~(1 < 1)
          OBVIOUS
        <4> QED BY <3>3, <4>1, Zenon
      <3>5. connection'.backend = backend /\ connection'.groups = Groups(1, 1, FALSE) /\ connection'.size = 1
        BY <3>1
      <3>6. Configured(connection'.backend) /\ Partition(connection'.groups, connection'.size)
        BY <2>2, <3>4, <3>5
      <3> QED BY <1>2, <2>1, <3>1, <3>6
    <2>5. CASE backend # "quiggeldy"
      <3>1. /\ connection' = [backend |-> backend, size |-> size, per_multi |-> p, groups |-> groups]
            /\ command' \in IF Overrun(groups, size) THEN {"undefined", "ended"} ELSE {"connected"}
        BY <1>6, <2>5 DEF Connect
      <3>2. IF Overrun(groups, size) THEN p < size /\ size % p # 0 ELSE Partition(groups, size)
        BY <2>3, GroupsPartition
      <3> HIDE DEF backend, size, groups, p
      <3>3. /\ connection'.backend = backend /\ connection'.groups = groups
            /\ connection'.size = size /\ connection'.per_multi = p
        BY <3>1
      <3>4. Configured(connection'.backend)
        BY <2>2, <3>3
      <3>5. CASE Overrun(groups, size)
        <4>1. command' # "connected" /\ connection'.per_multi < connection'.size
          BY <3>1, <3>2, <3>3, <3>5
        <4>2. connection'.size % connection'.per_multi # 0
          BY <3>2, <3>3, <3>5
        <4> QED BY <2>1, <3>4, <4>1, <4>2 DEF CommandGetsConnections, Configured
      <3>6. CASE ~Overrun(groups, size)
        <4>1. command' = "connected" /\ Partition(connection'.groups, connection'.size)
          BY <3>1, <3>2, <3>3, <3>6
        <4> QED BY <1>2, <2>1, <3>4, <4>1
      <3> QED BY <3>5, <3>6
    <2> QED BY <2>4, <2>5
  <1>7. CASE Launch \/ LaunchByHand
    BY <1>3, <1>7 DEF Launch, LaunchByHand, InvWrapper
  <1>8. CASE WrapperStep
    <2>1. Fork \/ WaitForCommand \/ Terminate \/ Reap \/ CommandExec \/ CommandEnds \/ WrapperIsKilled
          => /\ UNCHANGED <<connection, pid, env>>
             /\ command' \notin {"connected", "undefined"} \/ UNCHANGED command
      BY DEF Fork, WaitForCommand, Terminate, Reap, CommandExec, CommandEnds, WrapperIsKilled
    <2> QED BY <1>3, <1>4, <1>5, <1>6, <1>8, <2>1 DEF WrapperStep
  <1>9. OtherSignal => UNCHANGED wrapper
    BY DEF OtherSignal, LauncherDies
  <1> QED BY <1>4, <1>7, <1>8, <1>9, NextCases

(* The processes start in a state of the invariant.                        *)
LEMMA InvInit ==
  ASSUME Init
  PROVE  IInv
  <1>1. TypeProgram
    <2>1. cfg \in Config
      <3>1. \A timeout \in BOOLEAN : WrapperCfg(timeout) \in Config
        <4>1. env.has_fpga_ips \in BOOLEAN /\ (~env.has_fpga_ips) \in BOOLEAN
          BY DEF Init, Environment
        <4> QED BY <4>1, Zenon DEF WrapperCfg, Config
      <3> QED BY <3>1 DEF Init
    <2>2. old \in [{"main", "signal"} -> BOOLEAN]
      BY DEF Init, ProgramInit
    <2> QED BY <2>1, <2>2 DEF Init, ProgramInit, TypeProgram, Signals
  <1>2. TypeWrapper
    <2>1. 0 \in 0 .. MaxSignals /\ connection.backend = "none"
      BY SignalAssumption DEF Init, NoConnection
    <2>2. parent = TRUE /\ sent = 0
      BY DEF Init, ProgramInit
    <2> QED BY <2>1, <2>2 DEF Init, TypeWrapper
  <1>3. InvProgram /\ InvWrapper /\ NothingLeftRunning /\ CommandGetsConnections
    BY DEF Init, ProgramInit, InvProgram, InvStage, InvServer, InvSignal, CrashesOnlyOnSignal,
           InvWrapper, NothingLeftRunning, CommandGetsConnections, Early, Runs
  <1> QED BY <1>1, <1>2, <1>3, TypeParts DEF IInv

(* Every step keeps the invariant.                                         *)
LEMMA InvStep ==
  ASSUME IInv, [Next]_vars
  PROVE  IInv'
  <1>1. TypeProgram /\ TypeWrapper /\ InvStage
    BY TypeParts DEF IInv, InvProgram
  <1> QED BY <1>1, TypeParts, TypeStep, ProgramInv, WrapperInv, ConnectionInv DEF IInv

(* The strengthening all the theorems of this module follow from.          *)
THEOREM Invariance == Spec => []IInv
  <1>1. Init => IInv
    BY InvInit
  <1>2. IInv /\ [Next]_vars => IInv'
    BY InvStep
  <1> QED BY <1>1, <1>2, PTL DEF Spec

(* Every variable keeps its type, for any number of signals and FPGAs.     *)
THEOREM TypeCorrect == Spec => []TypeOK
  <1>1. IInv => TypeOK
    BY DEF IInv
  <1> QED BY <1>1, Invariance, PTL

(* The threads of quiggeldy use a server that is gone or being destroyed   *)
(* only where a signal from outside came just before or while the main     *)
(* thread called start_server, or while it was resetting the server itself.*)
THEOREM ServerIsThere == Spec => []CrashesOnlyOnSignal
  <1>1. IInv => CrashesOnlyOnSignal
    BY DEF IInv, InvProgram
  <1> QED BY <1>1, Invariance, PTL

(* A wrapper that returns has left neither quiggeldy nor the command       *)
(* running, whatever signals they get and whichever of them ends first.    *)
THEOREM NoProcessIsLeft == Spec => []NothingLeftRunning
  <1>1. IInv => NothingLeftRunning
    BY DEF IInv
  <1> QED BY <1>1, Invariance, PTL

(* A command connects to the quiggeldy of its wrapper.  A connection list  *)
(* of any length is packed into groups without gap or overlap, or, where   *)
(* the group size neither divides nor exceeds the length, the code runs    *)
(* behind its end and what the command goes on with is undefined.          *)
THEOREM ConnectedAsConfigured == Spec => []CommandGetsConnections
  <1>1. IInv => CommandGetsConnections
    BY DEF IInv
  <1> QED BY <1>1, Invariance, PTL
=============================================================================
