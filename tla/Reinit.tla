------------------------------- MODULE Reinit -------------------------------
(***************************************************************************)
(* Reinit programs of one QuiggeldyConnection: its ReinitStack, the        *)
(* ReinitStackEntry objects that push, set and pop their place in it, the  *)
(* submissions of work, and the QuiggeldyWorker, which executes the        *)
(* uploaded stack before it works for the session.                         *)
(*                                                                         *)
(* Entries and submissions are used by threads of their own.  The mutex of *)
(* the stack is held within single actions only and is left out.           *)
(*                                                                         *)
(* The scheduler that calls the worker is a library.  It is taken to call  *)
(* perform_reinit before each work, and to force it when the session comes *)
(* back to the hardware or the worker gave the hardware up.                *)
(***************************************************************************)
EXTENDS Naturals, Sequences, FiniteSetsExt

CONSTANTS
  Entry,        \* ReinitStackEntry objects
  Submitter,    \* threads that submit work
  Nothing,      \* no index, no request, nobody
  MaxSets,      \* bound: calls of set, of all entries together
  MaxStack      \* bound: places in the stack

ASSUME NothingAssumption == Nothing \notin Nat \cup (Entry \X Nat) \cup Submitter
ASSUME ThreadAssumption == Entry \cap Submitter = {}

(* The requests of an entry: the n-th that is set to it is <<e, n>>.       *)
Request == Entry \X Nat
ReinitEntry == [request : Request \cup {Nothing}, reinit_pending : BOOLEAN]
EmptyEntry == [request |-> Nothing, reinit_pending |-> TRUE]

VARIABLES
  m_stack,         \* the stack of the connection
  m_idx_in_stack,  \* m_idx_in_stack[e]: the place of e, counted from 0
  pc,              \* where the threads of entries and submitters are
  sets,            \* sets[e]: calls of set
  reinit,          \* the stack uploaded for the session
  force,           \* has the session lost the hardware, or enforced its reinit?
  board,           \* the requests executed since the session got the hardware
  serving,         \* the submitter whose work the worker is at
  failed,          \* is the session in m_sessions_with_failed_reinit?
  required,        \* history: required[s]: what was set before s submitted
  overlapping      \* history: entries whose last set overlapped a submission

places == <<m_idx_in_stack, sets>>
worker == <<force, board, serving, failed>>
history == <<required, overlapping>>
vars == <<m_stack, places, pc, reinit, worker, history>>

Init ==
  /\ m_stack = <<>>
  /\ m_idx_in_stack = [e \in Entry |-> Nothing]
  /\ pc = [a \in Entry \cup Submitter |-> "idle"]
  /\ sets = [e \in Entry |-> 0]
  /\ reinit = <<>>
  /\ force = TRUE /\ board = {} /\ serving = Nothing /\ failed = FALSE
  /\ required = [s \in Submitter |-> {}] /\ overlapping = {}

At(a, from, to) == pc[a] = from /\ pc' = [pc EXCEPT ![a] = to]

(* The requests that were last set, by calls that have returned.           *)
Registered == {<<e, sets[e]>> : e \in {f \in Entry : sets[f] > 0 /\ pc[f] # "upload"}}

(* An index beyond the stack is refused. *)
UpdateAt(idx, entry) ==
  m_stack' = IF idx < Len(m_stack) THEN [m_stack EXCEPT ![idx + 1] = entry] ELSE m_stack

----------------------------------------------------------------------------
(* ReinitStackEntry. *)

(* setup pushes a default entry and keeps its place.                       *)
Setup(e) ==
  /\ m_idx_in_stack[e] = Nothing /\ Len(m_stack) < MaxStack
  /\ At(e, "idle", "idle")
  /\ m_idx_in_stack' = [m_idx_in_stack EXCEPT ![e] = Len(m_stack)]
  /\ m_stack' = Append(m_stack, EmptyEntry)
  /\ UNCHANGED <<sets, reinit, worker, history>>

(* set updates the stack; it throws when update_at refuses the index,      *)
(* which OwnPlace excludes.                                                *)
Set(e) ==
  /\ m_idx_in_stack[e] # Nothing /\ MapThenSumSet(LAMBDA f : sets[f], Entry) < MaxSets
  /\ At(e, "idle", "upload")
  /\ UpdateAt(m_idx_in_stack[e], [request |-> <<e, sets[e] + 1>>, reinit_pending |-> TRUE])
  /\ sets' = [sets EXCEPT ![e] = @ + 1]
  /\ overlapping' = IF \E s \in Submitter : pc[s] # "idle"
                     THEN overlapping \cup {e} ELSE overlapping \ {e}
  /\ UNCHANGED <<m_idx_in_stack, reinit, worker, required>>

(* ... and uploads it, as it is by then.                                   *)
Upload(e) ==
  /\ At(e, "upload", "idle")
  /\ reinit' = m_stack
  /\ UNCHANGED <<m_stack, places, worker, history>>

(* Mutants of Pop: the topmost entry is popped, whosever it is; the index  *)
(* is forgotten before the entry is replaced.                              *)
PopTopmost(e) ==
  /\ m_idx_in_stack[e] # Nothing
  /\ At(e, "idle", "idle")
  /\ m_stack' = SubSeq(m_stack, 1, Len(m_stack) - 1)
  /\ m_idx_in_stack' = [m_idx_in_stack EXCEPT ![e] = Nothing]
  /\ UNCHANGED <<sets, reinit, worker, history>>

PopForgetful(e) ==
  /\ m_idx_in_stack[e] # Nothing
  /\ m_idx_in_stack' = [m_idx_in_stack EXCEPT ![e] = Nothing]
  /\ IF m_idx_in_stack[e] + 1 = Len(m_stack)
     THEN At(e, "idle", "idle") /\ m_stack' = SubSeq(m_stack, 1, Len(m_stack) - 1)
     ELSE At(e, "idle", "replace") /\ UNCHANGED m_stack
  /\ UNCHANGED <<sets, reinit, worker, history>>

(* pop, and the destructor: only the topmost entry can be popped ...       *)
Pop(e) ==
  /\ m_idx_in_stack[e] # Nothing
  /\ IF m_idx_in_stack[e] + 1 = Len(m_stack)
     THEN /\ At(e, "idle", "idle")
          /\ m_stack' = SubSeq(m_stack, 1, Len(m_stack) - 1)
          /\ m_idx_in_stack' = [m_idx_in_stack EXCEPT ![e] = Nothing]
     ELSE At(e, "idle", "replace") /\ UNCHANGED <<m_stack, m_idx_in_stack>>
  /\ UNCHANGED <<sets, reinit, worker, history>>

(* ... any other one is replaced by a default entry after the exception.   *)
Replace(e) ==
  /\ At(e, "replace", "idle")
  /\ UpdateAt(m_idx_in_stack[e], EmptyEntry)
  /\ m_idx_in_stack' = [m_idx_in_stack EXCEPT ![e] = Nothing]
  /\ UNCHANGED <<sets, reinit, worker, history>>

(* enforce reaches the scheduler, which executes all entries next time.    *)
Enforce(e) ==
  /\ pc[e] = "idle"
  /\ m_idx_in_stack[e] # Nothing
  /\ force' = TRUE
  /\ UNCHANGED <<m_stack, places, pc, reinit, board, serving, failed, history>>

----------------------------------------------------------------------------
(* QuiggeldyConnection. *)

(* submit_blocking and submit_async: the request goes to the server.       *)
Submit(s) ==
  /\ \E mode \in {"blocking", "async"} : At(s, "idle", mode)
  /\ required' = [required EXCEPT ![s] = Registered]
  /\ overlapping' = overlapping \cup {e \in Entry : pc[e] = "upload"}
  /\ UNCHANGED <<m_stack, places, reinit, worker>>

(* submit_blocking: the response is there and every entry is done.         *)
SetAllDone(s) ==
  /\ At(s, "done", "idle")
  /\ m_stack' = [i \in DOMAIN m_stack |-> [m_stack[i] EXCEPT !.reinit_pending = FALSE]]
  /\ UNCHANGED <<places, reinit, worker, history>>

----------------------------------------------------------------------------
(* QuiggeldyWorker, called by the scheduler. *)

(* Mutant of PerformReinit: a forced reinit executes what is pending only.  *)
PerformPending(s) ==
  LET due == {i \in DOMAIN reinit : reinit[i].reinit_pending}
      empty == {i \in due : reinit[i].request = Nothing}
      executed == {i \in due : \A j \in empty : i < j}
  IN /\ serving = Nothing /\ pc[s] \in {"blocking", "async"}
     /\ serving' = s
     /\ reinit' = [i \in DOMAIN reinit |->
                     [reinit[i] EXCEPT !.reinit_pending = @ /\ i \notin executed]]
     /\ failed' = (failed \/ empty # {})
     /\ force' = (empty # {})
     /\ board' = IF empty = {} THEN board \cup {reinit[i].request : i \in executed} ELSE {}
     /\ UNCHANGED <<m_stack, places, pc, history>>

(* Mutant of PerformReinit: the exception is caught and forgotten.         *)
PerformWithoutFailing(s) ==
  LET due == {i \in DOMAIN reinit : reinit[i].reinit_pending \/ force}
      empty == {i \in due : reinit[i].request = Nothing}
      executed == {i \in due : \A j \in empty : i < j}
  IN /\ serving = Nothing /\ pc[s] \in {"blocking", "async"}
     /\ serving' = s
     /\ reinit' = [i \in DOMAIN reinit |->
                     [reinit[i] EXCEPT !.reinit_pending = @ /\ i \notin executed]]
     /\ force' = FALSE
     /\ board' = board \cup {reinit[i].request : i \in executed}
     /\ UNCHANGED <<m_stack, places, pc, failed, history>>

(* perform_reinit executes the entries that are pending, or all of them    *)
(* when it is forced to.  A default entry has no message list for any      *)
(* connection, for which ExecutorMessages of MultiConnection throws: the   *)
(* session has failed and the hardware is given up.                        *)
PerformReinit(s) ==
  LET due == {i \in DOMAIN reinit : reinit[i].reinit_pending \/ force}
      empty == {i \in due : reinit[i].request = Nothing}
      executed == {i \in due : \A j \in empty : i < j}
  IN /\ serving = Nothing /\ pc[s] \in {"blocking", "async"}
     /\ serving' = s
     /\ reinit' = [i \in DOMAIN reinit |->
                     [reinit[i] EXCEPT !.reinit_pending = @ /\ i \notin executed]]
     /\ failed' = (failed \/ empty # {})
     /\ force' = (empty # {})
     /\ board' = IF empty = {} THEN board \cup {reinit[i].request : i \in executed} ELSE {}
     /\ UNCHANGED <<m_stack, places, pc, history>>

(* work throws once for a session whose reinit failed ...                  *)
Reject(s) ==
  /\ serving = s /\ failed
  /\ pc' = [pc EXCEPT ![s] = "idle"]
  /\ serving' = Nothing /\ failed' = FALSE
  /\ required' = [required EXCEPT ![s] = {}]
  /\ UNCHANGED <<m_stack, places, reinit, force, board, overlapping>>

(* ... and executes the request otherwise.                                 *)
Work(s) ==
  /\ serving = s /\ ~failed
  /\ pc' = [pc EXCEPT ![s] = IF @ = "blocking" THEN "done" ELSE "idle"]
  /\ serving' = Nothing
  /\ required' = [required EXCEPT ![s] = {}]
  /\ UNCHANGED <<m_stack, places, reinit, force, board, failed, overlapping>>

(* The scheduler gives the hardware to another session for a while.        *)
SwitchSession ==
  /\ serving = Nothing
  /\ force' = TRUE /\ board' = {}
  /\ UNCHANGED <<m_stack, places, pc, reinit, serving, failed, history>>

----------------------------------------------------------------------------
Next ==
  \/ \E e \in Entry : Setup(e) \/ Set(e) \/ Upload(e) \/ Pop(e) \/ Replace(e) \/ Enforce(e)
  \/ \E s \in Submitter : \/ Submit(s) \/ SetAllDone(s)
                          \/ PerformReinit(s) \/ Reject(s) \/ Work(s)
  \/ SwitchSession

Spec == Init /\ [][Next]_vars
----------------------------------------------------------------------------
(* Every variable keeps its type; an entry that is being set or replaced   *)
(* has a place, and the worker is at most at one submission.               *)
TypeOK ==
  /\ m_stack \in Seq(ReinitEntry) /\ reinit \in Seq(ReinitEntry)
  /\ m_idx_in_stack \in [Entry -> Nat \cup {Nothing}]
  /\ sets \in [Entry -> Nat]
  /\ pc \in [Entry \cup Submitter -> {"idle", "upload", "replace", "blocking", "async", "done"}]
  /\ \A e \in Entry : pc[e] \in {"upload", "replace"} => m_idx_in_stack[e] # Nothing
  /\ force \in BOOLEAN /\ failed \in BOOLEAN
  /\ serving \in Submitter \cup {Nothing}
  /\ board \subseteq Request
  /\ overlapping \subseteq Entry
  /\ required \in [Submitter -> SUBSET Request]

(* The places of entries are their own, whatever the order in which they   *)
(* are pushed and popped: what is in the place of an entry is what was     *)
(* last set to it, or nothing yet.                                         *)
OwnPlace ==
  \A e \in Entry : m_idx_in_stack[e] # Nothing =>
    /\ m_idx_in_stack[e] < Len(m_stack)
    /\ m_stack[m_idx_in_stack[e] + 1].request \in {Nothing, <<e, sets[e]>>}
    /\ \A f \in Entry : m_idx_in_stack[f] = m_idx_in_stack[e] => f = e

Stacked == {m_stack[i].request : i \in DOMAIN m_stack}
Excused == overlapping \X Nat

(* An entry that is not pending has been executed since the session got    *)
(* the hardware, or will be before the session works again; unless it was  *)
(* set while work was submitted.                                           *)
DoneWasExecuted ==
  \A i \in DOMAIN m_stack :
    \/ m_stack[i].reinit_pending
    \/ m_stack[i].request \in board \cup {Nothing}
    \/ m_stack[i].request \in Excused
    \/ force

Works(s) == serving = s /\ ~failed /\ serving' = Nothing

(* Work finds the hardware initialised: all requests that were set before  *)
(* it was submitted, and that are still in the stack, have been executed   *)
(* since the session got the hardware; unless they were set while other    *)
(* work was submitted.                                                     *)
ReinitPrecedesWork ==
  [][\A s \in Submitter : Works(s) => (required[s] \cap Stacked) \ Excused \subseteq board]_vars

(* quiggeldy_interface_types.h: the pending flag of an entry says that it  *)
(* needs to be executed.  So work finds the hardware initialised by all    *)
(* requests that were set before, whenever they were set.                  *)
PendingIsExecuted ==
  [][\A s \in Submitter : Works(s) => required[s] \cap Stacked \subseteq board]_vars
=============================================================================
