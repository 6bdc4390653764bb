---------------------------- MODULE ReinitProofs ----------------------------
(***************************************************************************)
(* Theorems about Reinit, for any number of entries and submitters and     *)
(* whatever its bounds.  The inductive invariant IInv follows a request    *)
(* from the stack to the hardware: it is in the one place of its entry     *)
(* (OwnPlace, InvStack), uploaded or about to be (InvUploaded), the server *)
(* executes it unless it was done already (InvUploads), and then it is on  *)
(* the board while the work of a submission is done and when every entry   *)
(* is marked as done after it (InvServing, InvDone).  A set that overlaps  *)
(* a submission is excused all along (InvOverlapping).                     *)
(***************************************************************************)
EXTENDS Reinit, SequenceTheorems, TLAPS

(* What is in the stack belongs to the entry that has the place.           *)
InvStack ==
  \A i \in DOMAIN m_stack :
    \/ m_stack[i].request = Nothing
    \/ \E e \in Entry : m_idx_in_stack[e] = i - 1 /\ m_stack[i].request = <<e, sets[e]>>

(* It is uploaded, unless its set has yet to do that.                      *)
InvUploaded ==
  \A i \in DOMAIN m_stack : \A e \in Entry :
    m_stack[i].request = <<e, sets[e]>> /\ pc[e] # "upload" =>
      \E j \in DOMAIN reinit : reinit[j].request = <<e, sets[e]>>

(* A set that overlaps a submission is remembered.                         *)
InvOverlapping ==
  \A s \in Submitter, e \in Entry : pc[s] # "idle" /\ pc[e] = "upload" => e \in overlapping

(* Nothing was uploaded that has not been set yet.                         *)
InvYoungest ==
  \A j \in DOMAIN reinit :
    reinit[j].request # Nothing => reinit[j].request[2] <= sets[reinit[j].request[1]]

(* What the worker need not execute before it works.                       *)
Executed == board \cup {Nothing} \cup Excused

(* DoneWasExecuted, for what was uploaded and is still in the stack.       *)
InvUploads ==
  \A j \in DOMAIN reinit :
    \/ reinit[j].reinit_pending
    \/ reinit[j].request \notin Stacked
    \/ reinit[j].request \in Executed
    \/ force

InvServing == serving # Nothing /\ ~failed => \A i \in DOMAIN m_stack : m_stack[i].request \in Executed

InvDone ==
  \A s \in Submitter : pc[s] = "done" =>
    \A i \in DOMAIN m_stack : m_stack[i].request \in Executed \/ force

(* Threads are where their kind can be; work is done for one that waits.   *)
InvThreads ==
  /\ \A e \in Entry : pc[e] \in {"idle", "upload", "replace"}
  /\ \A s \in Submitter : pc[s] \in {"idle", "blocking", "async", "done"}
  /\ serving # Nothing => serving \in Submitter /\ pc[serving] \in {"blocking", "async"}

IInv ==
  /\ TypeOK /\ InvThreads
  /\ OwnPlace /\ InvStack
  /\ InvUploaded /\ InvOverlapping /\ InvYoungest
  /\ DoneWasExecuted /\ InvUploads /\ InvServing /\ InvDone
----------------------------------------------------------------------------
USE DEF places, worker, history, vars

(* The steps of Next, one case each: a lemma the step lemmas start from.   *)
LEMMA NextCases ==
  ASSUME [Next]_vars
  PROVE  \/ UNCHANGED vars
         \/ \E e \in Entry : Setup(e) \/ Set(e) \/ Upload(e) \/ Pop(e) \/ Replace(e) \/ Enforce(e)
         \/ \E s \in Submitter : Submit(s) \/ SetAllDone(s) \/ PerformReinit(s) \/ Reject(s) \/ Work(s)
         \/ SwitchSession
  BY DEF Next

(* What TypeOK says of the two stacks.                                     *)
LEMMA StackFacts ==
  ASSUME TypeOK
  PROVE  /\ Len(m_stack) \in Nat /\ DOMAIN m_stack = 1 .. Len(m_stack)
         /\ \A i \in DOMAIN m_stack : /\ m_stack[i] \in ReinitEntry
                                      /\ m_stack[i].request \in Request \cup {Nothing}
                                      /\ m_stack[i].reinit_pending \in BOOLEAN
         /\ Len(reinit) \in Nat /\ DOMAIN reinit = 1 .. Len(reinit)
         /\ \A i \in DOMAIN reinit : /\ reinit[i] \in ReinitEntry
                                     /\ reinit[i].request \in Request \cup {Nothing}
                                     /\ reinit[i].reinit_pending \in BOOLEAN
  <1>1. ASSUME NEW q \in Seq(ReinitEntry)
        PROVE  /\ Len(q) \in Nat /\ DOMAIN q = 1 .. Len(q)
               /\ \A i \in DOMAIN q : /\ q[i] \in ReinitEntry
                                      /\ q[i].request \in Request \cup {Nothing}
                                      /\ q[i].reinit_pending \in BOOLEAN
    <2>1. Len(q) \in Nat /\ DOMAIN q = 1 .. Len(q)
      BY LenProperties
    <2>2. \A i \in DOMAIN q : q[i] \in ReinitEntry
      BY <2>1, ElementOfSeq
    <2> QED BY <2>1, <2>2 DEF ReinitEntry
  <1>2. m_stack \in Seq(ReinitEntry) /\ reinit \in Seq(ReinitEntry)
    BY DEF TypeOK
  <1> QED BY <1>1, <1>2

(* Pairs of an entry and a number are no index and not nothing.            *)
LEMMA RequestFacts ==
  /\ EmptyEntry \in ReinitEntry
  /\ EmptyEntry.request = Nothing /\ EmptyEntry.reinit_pending
  /\ Nothing \notin Nat /\ Nothing \notin Request
  /\ \A e \in Entry : \A k \in Nat : <<e, k>> \in Request
  /\ \A r \in Request : r[1] \in Entry /\ r[2] \in Nat /\ r = <<r[1], r[2]>>
  BY NothingAssumption DEF EmptyEntry, ReinitEntry, Request

----------------------------------------------------------------------------
(* How the stack changes, action by action. *)

LEMMA SetupStack ==
  ASSUME TypeOK, NEW e \in Entry, Setup(e)
  PROVE  /\ m_stack' \in Seq(ReinitEntry) /\ Len(m_stack') = Len(m_stack) + 1
         /\ \A i \in 1 .. Len(m_stack) : m_stack'[i] = m_stack[i]
         /\ m_stack'[Len(m_stack) + 1] = EmptyEntry
  BY RequestFacts, AppendProperties DEF TypeOK, Setup

LEMMA UpdateStack ==
  ASSUME TypeOK, NEW idx \in Nat, idx < Len(m_stack), NEW entry \in ReinitEntry, UpdateAt(idx, entry)
  PROVE  /\ m_stack' \in Seq(ReinitEntry) /\ Len(m_stack') = Len(m_stack)
         /\ \A i \in 1 .. Len(m_stack) : i # idx + 1 => m_stack'[i] = m_stack[i]
         /\ m_stack'[idx + 1] = entry
  <1>1. m_stack' = [m_stack EXCEPT ![idx + 1] = entry]
    BY DEF UpdateAt
  <1>2. idx + 1 \in 1 .. Len(m_stack) /\ DOMAIN m_stack = 1 .. Len(m_stack)
    BY StackFacts
  <1>3. m_stack' \in Seq(ReinitEntry) /\ Len(m_stack') = Len(m_stack)
    BY <1>1, <1>2, ExceptSeq DEF TypeOK
  <1> QED BY <1>1, <1>2, <1>3

LEMMA PopStack ==
  ASSUME TypeOK, Len(m_stack) > 0, m_stack' = SubSeq(m_stack, 1, Len(m_stack) - 1)
  PROVE  /\ m_stack' \in Seq(ReinitEntry) /\ Len(m_stack') = Len(m_stack) - 1
         /\ \A i \in 1 .. Len(m_stack) - 1 : m_stack'[i] = m_stack[i]
  <1>1. m_stack \in Seq(ReinitEntry) /\ 1 \in 1 .. Len(m_stack) + 1
        /\ Len(m_stack) - 1 \in 0 .. Len(m_stack)
    BY StackFacts DEF TypeOK
  <1>2. m_stack' \in Seq(ReinitEntry) /\ Len(m_stack') = Len(m_stack) - 1
    BY <1>1, StackFacts, SubSeqProperties
  <1>3. \A i \in 1 .. Len(m_stack) - 1 : m_stack'[i] = m_stack[1 + i - 1]
    BY <1>1, StackFacts, SubSeqProperties
  <1> QED BY <1>2, <1>3, StackFacts

LEMMA DoneStack ==
  ASSUME TypeOK, NEW s \in Submitter, SetAllDone(s)
  PROVE  /\ m_stack' \in Seq(ReinitEntry) /\ Len(m_stack') = Len(m_stack)
         /\ DOMAIN m_stack' = DOMAIN m_stack
         /\ \A i \in DOMAIN m_stack : /\ m_stack'[i].request = m_stack[i].request
                                      /\ ~m_stack'[i].reinit_pending
  <1>1. m_stack' = [i \in 1 .. Len(m_stack) |-> [m_stack[i] EXCEPT !.reinit_pending = FALSE]]
    BY StackFacts DEF SetAllDone
  <1>2. \A i \in 1 .. Len(m_stack) : /\ m_stack'[i] \in ReinitEntry
                                     /\ m_stack'[i].request = m_stack[i].request
                                     /\ ~m_stack'[i].reinit_pending
    <2> SUFFICES ASSUME NEW i \in 1 .. Len(m_stack)
                 PROVE  /\ m_stack'[i] \in ReinitEntry
                        /\ m_stack'[i].request = m_stack[i].request
                        /\ ~m_stack'[i].reinit_pending
      OBVIOUS
    <2>1. m_stack'[i] = [m_stack[i] EXCEPT !.reinit_pending = FALSE] /\ m_stack[i] \in ReinitEntry
      BY <1>1, StackFacts
    <2> QED BY <2>1 DEF ReinitEntry
  <1>3. m_stack' \in Seq(ReinitEntry) /\ Len(m_stack') = Len(m_stack)
    BY <1>1, <1>2, StackFacts, IsASeq
  <1> QED BY <1>1, <1>2, <1>3, StackFacts

(* What a reinit executes: all there is when it is forced, and what is     *)
(* pending otherwise; unless it meets an empty entry.                      *)
LEMMA ReinitStep ==
  ASSUME TypeOK, NEW s \in Submitter, PerformReinit(s)
  PROVE  /\ reinit' \in Seq(ReinitEntry) /\ DOMAIN reinit' = DOMAIN reinit
         /\ \A i \in DOMAIN reinit : reinit'[i].request = reinit[i].request
         /\ failed' \in BOOLEAN /\ force' \in BOOLEAN /\ board' \subseteq Request
         /\ ~failed' => ~force'
         /\ ~force' =>
              /\ board \subseteq board'
              /\ \A i \in DOMAIN reinit :
                   force \/ reinit[i].reinit_pending => reinit[i].request \in board'
  <1> DEFINE due == {i \in DOMAIN reinit : reinit[i].reinit_pending \/ force}
             empty == {i \in due : reinit[i].request = Nothing}
             executed == {i \in due : \A j \in empty : i < j}
  <1>1. /\ reinit' = [i \in 1 .. Len(reinit) |->
                        [reinit[i] EXCEPT !.reinit_pending = @ /\ i \notin executed]]
        /\ failed' = (failed \/ empty # {})
        /\ force' = (empty # {})
        /\ board' = IF empty = {} THEN board \cup {reinit[i].request : i \in executed} ELSE {}
    BY StackFacts DEF PerformReinit
  <1>2. \A i \in DOMAIN reinit : reinit'[i] \in ReinitEntry /\ reinit'[i].request = reinit[i].request
    <2> SUFFICES ASSUME NEW i \in DOMAIN reinit
                 PROVE  reinit'[i] \in ReinitEntry /\ reinit'[i].request = reinit[i].request
      OBVIOUS
    <2> DEFINE pending == reinit[i].reinit_pending /\ i \notin executed
    <2>1. reinit'[i] = [reinit[i] EXCEPT !.reinit_pending = pending]
      BY <1>1, StackFacts
    <2>2. pending \in BOOLEAN
      OBVIOUS
    <2>3. reinit[i] \in ReinitEntry
      BY StackFacts
    <2> HIDE DEF pending
    <2> QED BY <2>1, <2>2, <2>3 DEF ReinitEntry
  <1>3. reinit' \in Seq(ReinitEntry) /\ DOMAIN reinit' = DOMAIN reinit
    BY <1>1, <1>2, StackFacts, IsASeq
  <1>4. empty = {} => executed = due
    OBVIOUS
  <1>5. ASSUME empty = {} PROVE \A i \in executed : reinit[i].request \in Request
    BY <1>5, <1>4, StackFacts
  <1>6. board' \subseteq Request
    BY <1>1, <1>5 DEF TypeOK
  <1>7. failed' \in BOOLEAN /\ force' \in BOOLEAN /\ (~failed' => ~force')
    BY <1>1
  <1>8. ASSUME ~force'
        PROVE  /\ board \subseteq board'
               /\ \A i \in DOMAIN reinit :
                    force \/ reinit[i].reinit_pending => reinit[i].request \in board'
    <2>1. empty = {} /\ executed = due
      BY <1>1, <1>4, <1>8
    <2>2. board' = board \cup {reinit[i].request : i \in due}
      BY <1>1, <2>1
    <2> QED BY <2>2
  <1> QED BY <1>2, <1>3, <1>6, <1>7, <1>8

----------------------------------------------------------------------------
(* Every variable keeps its type, and every thread its kind.               *)
LEMMA TypeStep ==
  ASSUME TypeOK, InvThreads, OwnPlace, [Next]_vars
  PROVE  TypeOK' /\ InvThreads'
  <1> USE DEF TypeOK, InvThreads
  <1>1. ASSUME NEW e \in Entry, Setup(e) PROVE TypeOK' /\ InvThreads'
    <2>1. m_stack' \in Seq(ReinitEntry) /\ Len(m_stack) \in Nat
      BY <1>1, SetupStack, StackFacts
    <2>2. m_idx_in_stack' \in [Entry -> Nat \cup {Nothing}]
      BY <1>1, <2>1 DEF Setup
    <2>3. \A f \in Entry : pc'[f] = pc[f] /\ (f # e => m_idx_in_stack'[f] = m_idx_in_stack[f])
      BY <1>1 DEF Setup, At
    <2>4. pc[e] = "idle"
      BY <1>1 DEF Setup, At
    <2> QED BY <1>1, <2>1, <2>2, <2>3, <2>4, ThreadAssumption DEF Setup, At
  <1>2. ASSUME NEW e \in Entry, Set(e) PROVE TypeOK' /\ InvThreads'
    <2>1. m_idx_in_stack[e] \in Nat /\ m_idx_in_stack[e] < Len(m_stack)
      BY <1>2 DEF Set, OwnPlace
    <2>2. [request |-> <<e, sets[e] + 1>>, reinit_pending |-> TRUE] \in ReinitEntry
      BY DEF ReinitEntry, Request
    <2>3. m_stack' \in Seq(ReinitEntry)
      BY <1>2, <2>1, <2>2, UpdateStack DEF Set
    <2>4. overlapping' \subseteq Entry
      BY <1>2 DEF Set
    <2> QED BY <1>2, <2>3, <2>4, ThreadAssumption DEF Set, At
  <1>3. ASSUME NEW e \in Entry, Upload(e) PROVE TypeOK' /\ InvThreads'
    BY <1>3, ThreadAssumption DEF Upload, At
  <1>4. ASSUME NEW e \in Entry, Pop(e) PROVE TypeOK' /\ InvThreads'
    <2>1. CASE m_idx_in_stack[e] + 1 = Len(m_stack)
      <3>1. Len(m_stack) > 0
        BY <1>4, <2>1 DEF Pop
      <3>2. m_stack' \in Seq(ReinitEntry)
        BY <1>4, <2>1, <3>1, PopStack DEF Pop
      <3> QED BY <1>4, <2>1, <3>2, ThreadAssumption DEF Pop, At
    <2>2. CASE m_idx_in_stack[e] + 1 # Len(m_stack)
      BY <1>4, <2>2, ThreadAssumption DEF Pop, At
    <2> QED BY <2>1, <2>2
  <1>5. ASSUME NEW e \in Entry, Replace(e) PROVE TypeOK' /\ InvThreads'
    <2>1. m_idx_in_stack[e] \in Nat /\ m_idx_in_stack[e] < Len(m_stack)
      BY <1>5 DEF Replace, At, OwnPlace
    <2>2. m_stack' \in Seq(ReinitEntry)
      BY <1>5, <2>1, RequestFacts, UpdateStack DEF Replace
    <2> QED BY <1>5, <2>2, ThreadAssumption DEF Replace, At
  <1>6. ASSUME NEW e \in Entry, Enforce(e) PROVE TypeOK' /\ InvThreads'
    BY <1>6 DEF Enforce
  <1>7. ASSUME NEW s \in Submitter, Submit(s) PROVE TypeOK' /\ InvThreads'
    <2>1. Registered \subseteq Request
      BY DEF Registered, Request
    <2>2. PICK mode \in {"blocking", "async"} : At(s, "idle", mode)
      BY <1>7 DEF Submit
    <2> QED BY <1>7, <2>1, <2>2, ThreadAssumption DEF Submit, At
  <1>8. ASSUME NEW s \in Submitter, SetAllDone(s) PROVE TypeOK' /\ InvThreads'
    BY <1>8, DoneStack, ThreadAssumption DEF SetAllDone, At
  <1>9. ASSUME NEW s \in Submitter, PerformReinit(s) PROVE TypeOK' /\ InvThreads'
    BY <1>9, ReinitStep DEF PerformReinit
  <1>10. ASSUME NEW s \in Submitter, Reject(s) PROVE TypeOK' /\ InvThreads'
    BY <1>10, ThreadAssumption DEF Reject
  <1>11. ASSUME NEW s \in Submitter, Work(s) PROVE TypeOK' /\ InvThreads'
    BY <1>11, ThreadAssumption DEF Work
  <1>12. CASE SwitchSession
    BY <1>12 DEF SwitchSession
  <1>13. CASE UNCHANGED vars
    BY <1>13
  <1> QED BY <1>1, <1>2, <1>3, <1>4, <1>5, <1>6, <1>7, <1>8, <1>9, <1>10, <1>11, <1>12, <1>13, NextCases

(* Where the requests in the stack come from. *)
Kept(i) ==
  /\ i \in DOMAIN m_stack
  /\ m_stack'[i].request = m_stack[i].request
  /\ m_stack'[i].reinit_pending = m_stack[i].reinit_pending \/ \E s \in Submitter : SetAllDone(s)
JustSet(i) ==
  \E e \in Entry : Set(e) /\ m_stack'[i].request = <<e, sets'[e]>> /\ m_stack'[i].reinit_pending
Origin == \A i \in DOMAIN m_stack' : m_stack'[i].request = Nothing \/ Kept(i) \/ JustSet(i)

(* A place in the stack is kept, emptied, or set.                          *)
LEMMA StackOrigin ==
  ASSUME TypeOK, OwnPlace, [Next]_vars
  PROVE  Origin
  <1>1. ASSUME UNCHANGED m_stack PROVE Origin
    BY <1>1 DEF Origin, Kept
  <1>2. ASSUME NEW e \in Entry, Setup(e) PROVE Origin
    BY <1>2, SetupStack, StackFacts, RequestFacts, LenProperties DEF Origin, Kept
  <1>3. ASSUME NEW e \in Entry, Set(e) PROVE Origin
    <2>1. m_idx_in_stack[e] \in Nat /\ m_idx_in_stack[e] < Len(m_stack)
      BY <1>3 DEF Set, OwnPlace, TypeOK
    <2> DEFINE entry == [request |-> <<e, sets[e] + 1>>, reinit_pending |-> TRUE]
    <2>2. entry \in ReinitEntry /\ sets'[e] = sets[e] + 1
      BY <1>3 DEF ReinitEntry, Request, TypeOK, Set
    <2>3. entry.request = <<e, sets[e] + 1>> /\ entry.reinit_pending
      OBVIOUS
    <2>4. UpdateAt(m_idx_in_stack[e], entry)
      BY <1>3 DEF Set
    <2> HIDE DEF entry
    <2>5. /\ m_stack' \in Seq(ReinitEntry) /\ Len(m_stack') = Len(m_stack)
          /\ \A i \in 1 .. Len(m_stack) : i # m_idx_in_stack[e] + 1 => m_stack'[i] = m_stack[i]
          /\ m_stack'[m_idx_in_stack[e] + 1] = entry
      BY <2>1, <2>2, <2>4, UpdateStack
    <2>6. DOMAIN m_stack' = 1 .. Len(m_stack)
      BY <2>5, LenProperties
    <2> QED BY <1>3, <2>2, <2>3, <2>5, <2>6, StackFacts DEF Origin, Kept, JustSet
  <1>4. ASSUME NEW e \in Entry, Pop(e) PROVE Origin
    <2>1. CASE m_idx_in_stack[e] + 1 = Len(m_stack)
      <3>1. Len(m_stack) > 0 /\ m_stack' = SubSeq(m_stack, 1, Len(m_stack) - 1)
        BY <1>4, <2>1 DEF Pop, TypeOK
      <3>2. m_stack' \in Seq(ReinitEntry) /\ Len(m_stack') = Len(m_stack) - 1
            /\ \A i \in 1 .. Len(m_stack) - 1 : m_stack'[i] = m_stack[i]
        BY <3>1, PopStack
      <3> QED BY <3>2, StackFacts, LenProperties DEF Origin, Kept
    <2>2. CASE m_idx_in_stack[e] + 1 # Len(m_stack)
      BY <1>1, <1>4, <2>2 DEF Pop
    <2> QED BY <2>1, <2>2
  <1>5. ASSUME NEW e \in Entry, Replace(e) PROVE Origin
    <2>1. m_idx_in_stack[e] \in Nat /\ m_idx_in_stack[e] < Len(m_stack)
      BY <1>5 DEF Replace, At, OwnPlace, TypeOK
    <2>2. /\ m_stack' \in Seq(ReinitEntry) /\ Len(m_stack') = Len(m_stack)
          /\ \A i \in 1 .. Len(m_stack) : i # m_idx_in_stack[e] + 1 => m_stack'[i] = m_stack[i]
          /\ m_stack'[m_idx_in_stack[e] + 1] = EmptyEntry
      BY <1>5, <2>1, RequestFacts, UpdateStack DEF Replace
    <2> QED BY <2>2, StackFacts, RequestFacts, LenProperties DEF Origin, Kept
  <1>6. ASSUME NEW s \in Submitter, SetAllDone(s) PROVE Origin
    BY <1>6, DoneStack DEF Origin, Kept
  <1> QED BY <1>1, <1>2, <1>3, <1>4, <1>5, <1>6, NextCases
          DEF Upload, Enforce, Submit, PerformReinit, Reject, Work, SwitchSession

(* The uploaded stack is replaced as a whole, or keeps its requests.       *)
LEMMA ReinitOrigin ==
  ASSUME TypeOK, [Next]_vars
  PROVE  \/ reinit' = m_stack /\ UNCHANGED m_stack
         \/ DOMAIN reinit' = DOMAIN reinit /\ \A j \in DOMAIN reinit : reinit'[j].request = reinit[j].request
  <1>1. ASSUME NEW s \in Submitter, PerformReinit(s)
        PROVE  DOMAIN reinit' = DOMAIN reinit /\ \A j \in DOMAIN reinit : reinit'[j].request = reinit[j].request
    BY <1>1, ReinitStep
  <1> QED BY <1>1, NextCases
          DEF Setup, Set, Upload, Pop, Replace, Enforce, Submit, SetAllDone, Reject, Work, SwitchSession

(* Calls of set are counted.                                               *)
LEMMA SetsStep ==
  ASSUME TypeOK, [Next]_vars
  PROVE  \A e \in Entry : sets'[e] = IF Set(e) THEN sets[e] + 1 ELSE sets[e]
  <1>1. ASSUME NEW f \in Entry, Set(f) PROVE \A e \in Entry : Set(e) => e = f
    BY <1>1 DEF Set, At, TypeOK
  <1>2. ASSUME NEW f \in Entry, Set(f)
        PROVE  \A e \in Entry : sets'[e] = IF Set(e) THEN sets[e] + 1 ELSE sets[e]
    BY <1>1, <1>2 DEF Set, TypeOK
  <1>3. ASSUME UNCHANGED sets PROVE \A e \in Entry : ~Set(e)
    BY <1>3 DEF Set, TypeOK
  <1> QED BY <1>2, <1>3, NextCases
          DEF Setup, Upload, Pop, Replace, Enforce, Submit, SetAllDone, PerformReinit, Reject, Work, SwitchSession

----------------------------------------------------------------------------
(* Entries keep the place they pushed until they pop or replace it: only   *)
(* the topmost place goes, and it goes with its entry.                     *)
LEMMA PlaceStep ==
  ASSUME TypeOK, OwnPlace, InvStack, [Next]_vars
  PROVE  OwnPlace' /\ InvStack'
  <1> USE DEF OwnPlace, InvStack
  <1>1. ASSUME UNCHANGED <<m_stack, m_idx_in_stack, sets>> PROVE OwnPlace' /\ InvStack'
    BY <1>1
  <1>2. ASSUME NEW e \in Entry, Setup(e) PROVE OwnPlace' /\ InvStack'
    <2>1. /\ DOMAIN m_stack' = 1 .. Len(m_stack) + 1
          /\ Len(m_stack) \in Nat /\ Len(m_stack') = Len(m_stack) + 1
          /\ \A i \in 1 .. Len(m_stack) : m_stack'[i] = m_stack[i]
          /\ m_stack'[Len(m_stack) + 1].request = Nothing
      BY <1>2, SetupStack, StackFacts, RequestFacts, LenProperties
    <2>2. /\ m_idx_in_stack[e] = Nothing /\ m_idx_in_stack'[e] = Len(m_stack)
          /\ \A f \in Entry : f # e => m_idx_in_stack'[f] = m_idx_in_stack[f]
          /\ sets' = sets
      BY <1>2 DEF Setup, TypeOK
    <2>3. \A f \in Entry : m_idx_in_stack[f] # Nothing => m_idx_in_stack[f] \in Nat
      BY DEF TypeOK
    <2>4. OwnPlace'
      <3> SUFFICES ASSUME NEW f \in Entry, m_idx_in_stack'[f] # Nothing
                   PROVE  /\ m_idx_in_stack'[f] < Len(m_stack')
                          /\ m_stack'[m_idx_in_stack'[f] + 1].request \in {Nothing, <<f, sets'[f]>>}
                          /\ \A g \in Entry : m_idx_in_stack'[g] = m_idx_in_stack'[f] => g = f
        OBVIOUS
      <3>1. CASE f = e
        BY <2>1, <2>2, <2>3, <3>1
      <3>2. CASE f # e
        <4>1. m_idx_in_stack'[f] = m_idx_in_stack[f] /\ m_idx_in_stack[f] \in Nat
              /\ m_idx_in_stack[f] < Len(m_stack)
          BY <2>2, <2>3, <3>2
        <4>2. m_idx_in_stack[f] + 1 \in 1 .. Len(m_stack)
          BY <2>1, <4>1
        <4>3. \A g \in Entry : m_idx_in_stack'[g] = m_idx_in_stack'[f] => g = f
          BY <2>1, <2>2, <4>1
        <4> QED BY <2>1, <2>2, <4>1, <4>2, <4>3
      <3> QED BY <3>1, <3>2
    <2>5. InvStack'
      <3> SUFFICES ASSUME NEW i \in DOMAIN m_stack', m_stack'[i].request # Nothing
                   PROVE  \E f \in Entry : m_idx_in_stack'[f] = i - 1 /\ m_stack'[i].request = <<f, sets'[f]>>
        OBVIOUS
      <3>1. i \in DOMAIN m_stack /\ m_stack'[i] = m_stack[i]
        BY <2>1, StackFacts
      <3>2. PICK f \in Entry : m_idx_in_stack[f] = i - 1 /\ m_stack[i].request = <<f, sets[f]>>
        BY <3>1
      <3>3. f # e
        BY <2>2, <3>1, <3>2, StackFacts, RequestFacts
      <3> QED BY <2>2, <3>1, <3>2, <3>3
    <2> QED BY <2>4, <2>5
  <1>3. ASSUME NEW e \in Entry, Set(e) PROVE OwnPlace' /\ InvStack'
    <2>1. m_idx_in_stack[e] \in Nat /\ m_idx_in_stack[e] < Len(m_stack)
      BY <1>3 DEF Set, TypeOK
    <2> DEFINE entry == [request |-> <<e, sets[e] + 1>>, reinit_pending |-> TRUE]
    <2>2. entry \in ReinitEntry /\ entry.request = <<e, sets[e] + 1>>
      BY DEF ReinitEntry, Request, TypeOK
    <2>3. UpdateAt(m_idx_in_stack[e], entry)
      BY <1>3 DEF Set
    <2> HIDE DEF entry
    <2>4. /\ m_stack' \in Seq(ReinitEntry) /\ Len(m_stack') = Len(m_stack)
          /\ \A i \in 1 .. Len(m_stack) : i # m_idx_in_stack[e] + 1 => m_stack'[i] = m_stack[i]
          /\ m_stack'[m_idx_in_stack[e] + 1] = entry
      BY <2>1, <2>2, <2>3, UpdateStack
    <2>5. DOMAIN m_stack' = 1 .. Len(m_stack)
      BY <2>4, LenProperties
    <2>6. /\ m_idx_in_stack' = m_idx_in_stack /\ sets'[e] = sets[e] + 1
          /\ \A f \in Entry : f # e => sets'[f] = sets[f]
          /\ \A f \in Entry : m_idx_in_stack[f] # Nothing => m_idx_in_stack[f] \in Nat
      BY <1>3 DEF Set, TypeOK
    <2>7. OwnPlace'
      <3> SUFFICES ASSUME NEW f \in Entry, m_idx_in_stack'[f] # Nothing
                   PROVE  /\ m_idx_in_stack'[f] < Len(m_stack')
                          /\ m_stack'[m_idx_in_stack'[f] + 1].request \in {Nothing, <<f, sets'[f]>>}
                          /\ \A g \in Entry : m_idx_in_stack'[g] = m_idx_in_stack'[f] => g = f
        OBVIOUS
      <3>1. m_idx_in_stack[f] \in Nat /\ m_idx_in_stack[f] + 1 \in 1 .. Len(m_stack)
        BY <2>6, StackFacts
      <3>2. CASE f = e
        BY <2>1, <2>2, <2>4, <2>6, <3>2
      <3>3. CASE f # e
        <4>1. m_idx_in_stack[f] + 1 # m_idx_in_stack[e] + 1
          BY <2>1, <2>6, <3>1, <3>3
        <4> QED BY <2>4, <2>6, <3>1, <3>3, <4>1
      <3> QED BY <3>2, <3>3
    <2>8. InvStack'
      <3> SUFFICES ASSUME NEW i \in DOMAIN m_stack', m_stack'[i].request # Nothing
                   PROVE  \E f \in Entry : m_idx_in_stack'[f] = i - 1 /\ m_stack'[i].request = <<f, sets'[f]>>
        OBVIOUS
      <3>1. CASE i = m_idx_in_stack[e] + 1
        BY <2>1, <2>2, <2>4, <2>6, <3>1
      <3>2. CASE i # m_idx_in_stack[e] + 1
        <4>1. i \in DOMAIN m_stack /\ m_stack'[i] = m_stack[i]
          BY <2>4, <2>5, <3>2, StackFacts
        <4>2. PICK f \in Entry : m_idx_in_stack[f] = i - 1 /\ m_stack[i].request = <<f, sets[f]>>
          BY <4>1
        <4>3. f # e
          BY <2>5, <3>2, <4>2
        <4> QED BY <2>6, <4>1, <4>2, <4>3
      <3> QED BY <3>1, <3>2
    <2> QED BY <2>7, <2>8
  <1>4. ASSUME NEW e \in Entry, Pop(e) PROVE OwnPlace' /\ InvStack'
    <2>1. CASE m_idx_in_stack[e] + 1 = Len(m_stack)
      <3>1. /\ m_idx_in_stack[e] # Nothing
            /\ m_stack' = SubSeq(m_stack, 1, Len(m_stack) - 1)
            /\ m_idx_in_stack' = [m_idx_in_stack EXCEPT ![e] = Nothing] /\ sets' = sets
        BY <1>4, <2>1, Zenon DEF Pop
      <3>2. /\ \A f \in Entry : m_idx_in_stack[f] # Nothing => m_idx_in_stack[f] \in Nat
            /\ m_idx_in_stack[e] \in Nat
        BY <1>4 DEF Pop, TypeOK
      <3>3. Len(m_stack) > 0
        BY <2>1, <3>1, <3>2
      <3>8. /\ m_stack' \in Seq(ReinitEntry) /\ Len(m_stack') = Len(m_stack) - 1
            /\ \A i \in 1 .. Len(m_stack) - 1 : m_stack'[i] = m_stack[i]
        BY <3>1, <3>3, PopStack
      <3>4. DOMAIN m_stack' = 1 .. Len(m_stack) - 1
        BY <3>8, LenProperties
      <3>5. /\ m_idx_in_stack'[e] = Nothing
            /\ \A f \in Entry : f # e => m_idx_in_stack'[f] = m_idx_in_stack[f]
        BY <3>1 DEF TypeOK
      <3>6. OwnPlace'
        <4> SUFFICES ASSUME NEW f \in Entry, m_idx_in_stack'[f] # Nothing
                     PROVE  /\ m_idx_in_stack'[f] < Len(m_stack')
                            /\ m_stack'[m_idx_in_stack'[f] + 1].request \in {Nothing, <<f, sets'[f]>>}
                            /\ \A g \in Entry : m_idx_in_stack'[g] = m_idx_in_stack'[f] => g = f
          OBVIOUS
        <4>1. f # e /\ m_idx_in_stack'[f] = m_idx_in_stack[f]
          BY <3>5
        <4>2. m_idx_in_stack[f] \in Nat /\ m_idx_in_stack[f] # m_idx_in_stack[e] /\ m_idx_in_stack[f] < Len(m_stack)
          BY <3>2, <4>1
        <4>3. m_idx_in_stack[f] + 1 \in 1 .. Len(m_stack) - 1
          BY <2>1, <3>2, <4>2, StackFacts
        <4>4. \A g \in Entry : m_idx_in_stack'[g] = m_idx_in_stack'[f] => g = f
          BY <3>5, <4>1
        <4>5. m_stack'[m_idx_in_stack[f] + 1].request \in {Nothing, <<f, sets[f]>>} /\ sets' = sets
          BY <3>1, <3>8, <4>2, <4>3
        <4>6. m_idx_in_stack[f] < Len(m_stack')
          BY <3>8, <4>2, <4>3, StackFacts
        <4> QED BY <4>1, <4>4, <4>5, <4>6
      <3>7. InvStack'
        <4> SUFFICES ASSUME NEW i \in DOMAIN m_stack', m_stack'[i].request # Nothing
                     PROVE  \E f \in Entry : m_idx_in_stack'[f] = i - 1 /\ m_stack'[i].request = <<f, sets'[f]>>
          OBVIOUS
        <4>1. i \in DOMAIN m_stack /\ m_stack'[i] = m_stack[i] /\ i # Len(m_stack)
          BY <3>4, <3>8, StackFacts
        <4>2. PICK f \in Entry : m_idx_in_stack[f] = i - 1 /\ m_stack[i].request = <<f, sets[f]>>
          BY <4>1
        <4>3. f # e
          BY <2>1, <3>2, <4>1, <4>2, StackFacts
        <4> QED BY <3>1, <3>5, <4>1, <4>2, <4>3
      <3> QED BY <3>6, <3>7
    <2>2. CASE m_idx_in_stack[e] + 1 # Len(m_stack)
      BY <1>1, <1>4, <2>2 DEF Pop
    <2> QED BY <2>1, <2>2
  <1>5. ASSUME NEW e \in Entry, Replace(e) PROVE OwnPlace' /\ InvStack'
    <2>1. m_idx_in_stack[e] \in Nat /\ m_idx_in_stack[e] < Len(m_stack)
      BY <1>5 DEF Replace, At, TypeOK
    <2>2. /\ m_stack' \in Seq(ReinitEntry) /\ Len(m_stack') = Len(m_stack)
          /\ \A i \in 1 .. Len(m_stack) : i # m_idx_in_stack[e] + 1 => m_stack'[i] = m_stack[i]
          /\ m_stack'[m_idx_in_stack[e] + 1] = EmptyEntry
      BY <1>5, <2>1, RequestFacts, UpdateStack DEF Replace
    <2>3. DOMAIN m_stack' = 1 .. Len(m_stack)
      BY <2>2, LenProperties
    <2>4. /\ m_idx_in_stack'[e] = Nothing /\ sets' = sets
          /\ \A f \in Entry : f # e => m_idx_in_stack'[f] = m_idx_in_stack[f]
          /\ \A f \in Entry : m_idx_in_stack[f] # Nothing => m_idx_in_stack[f] \in Nat
      BY <1>5 DEF Replace, TypeOK
    <2>5. OwnPlace'
      <3> SUFFICES ASSUME NEW f \in Entry, m_idx_in_stack'[f] # Nothing
                   PROVE  /\ m_idx_in_stack'[f] < Len(m_stack')
                          /\ m_stack'[m_idx_in_stack'[f] + 1].request \in {Nothing, <<f, sets'[f]>>}
                          /\ \A g \in Entry : m_idx_in_stack'[g] = m_idx_in_stack'[f] => g = f
        OBVIOUS
      <3>1. f # e /\ m_idx_in_stack'[f] = m_idx_in_stack[f]
        BY <2>4
      <3>2. m_idx_in_stack[f] \in Nat /\ m_idx_in_stack[f] # m_idx_in_stack[e] /\ m_idx_in_stack[f] < Len(m_stack)
        BY <2>1, <2>4, <3>1, RequestFacts
      <3>3. m_idx_in_stack[f] + 1 \in 1 .. Len(m_stack) /\ m_idx_in_stack[f] + 1 # m_idx_in_stack[e] + 1
        BY <2>1, <3>2, StackFacts
      <3>4. \A g \in Entry : m_idx_in_stack'[g] = m_idx_in_stack'[f] => g = f
        BY <2>4, <3>1
      <3> QED BY <2>2, <2>4, <3>1, <3>2, <3>3, <3>4
    <2>6. InvStack'
      <3> SUFFICES ASSUME NEW i \in DOMAIN m_stack', m_stack'[i].request # Nothing
                   PROVE  \E f \in Entry : m_idx_in_stack'[f] = i - 1 /\ m_stack'[i].request = <<f, sets'[f]>>
        OBVIOUS
      <3>1. i # m_idx_in_stack[e] + 1
        BY <2>2, RequestFacts
      <3>2. i \in DOMAIN m_stack /\ m_stack'[i] = m_stack[i]
        BY <2>2, <2>3, <3>1, StackFacts
      <3>3. PICK f \in Entry : m_idx_in_stack[f] = i - 1 /\ m_stack[i].request = <<f, sets[f]>>
        BY <3>2
      <3>4. f # e
        BY <2>3, <3>1, <3>3
      <3> QED BY <2>4, <3>2, <3>3, <3>4
    <2> QED BY <2>5, <2>6
  <1>6. ASSUME NEW s \in Submitter, SetAllDone(s) PROVE OwnPlace' /\ InvStack'
    <2>1. Len(m_stack') = Len(m_stack) /\ DOMAIN m_stack' = DOMAIN m_stack
          /\ \A i \in DOMAIN m_stack : m_stack'[i].request = m_stack[i].request
      BY <1>6, DoneStack
    <2>2. UNCHANGED <<m_idx_in_stack, sets>>
      BY <1>6 DEF SetAllDone
    <2>3. \A e \in Entry : m_idx_in_stack[e] # Nothing => m_idx_in_stack[e] + 1 \in DOMAIN m_stack
      BY StackFacts DEF TypeOK
    <2> QED BY <2>1, <2>2, <2>3
  <1> QED BY <1>1, <1>2, <1>3, <1>4, <1>5, <1>6, NextCases
          DEF Upload, Enforce, Submit, PerformReinit, Reject, Work, SwitchSession

(* A set that is underway stays so until it uploads. *)
LEMMA UploadWaits ==
  ASSUME TypeOK, InvThreads, [Next]_vars, NEW e \in Entry, pc[e] = "upload", ~Upload(e)
  PROVE  pc'[e] = "upload"
  <1> USE DEF TypeOK
  <1>1. e \notin Submitter
    BY ThreadAssumption
  <1>2. ASSUME NEW f \in Entry, Setup(f) \/ Set(f) \/ Upload(f) \/ Pop(f) \/ Replace(f) PROVE pc'[e] = "upload"
    <2>1. pc[f] # "upload" \/ Upload(f)
      BY <1>2 DEF Setup, Set, Pop, Replace, At
    <2>2. f # e
      BY <2>1
    <2>3. pc'[e] = pc[e]
      BY <1>2, <2>2 DEF Setup, Set, Upload, Pop, Replace, At
    <2> QED BY <2>3
  <1>3. ASSUME NEW s \in Submitter, Submit(s) \/ SetAllDone(s) \/ Reject(s) \/ Work(s) PROVE pc'[e] = "upload"
    BY <1>1, <1>3 DEF Submit, SetAllDone, Reject, Work, At
  <1> QED BY <1>2, <1>3, NextCases DEF Enforce, PerformReinit, SwitchSession

(* The requests in the stack and in what was uploaded.                     *)
LEMMA UploadedStep ==
  ASSUME TypeOK, InvThreads, OwnPlace, InvStack, InvUploaded, InvYoungest, [Next]_vars
  PROVE  InvUploaded' /\ InvYoungest'
  <1>1. InvUploaded'
    <2> SUFFICES ASSUME NEW i \in DOMAIN m_stack', NEW e \in Entry,
                        m_stack'[i].request = <<e, sets'[e]>>, pc'[e] # "upload"
                 PROVE  \E j \in DOMAIN reinit' : reinit'[j].request = <<e, sets'[e]>>
      BY DEF InvUploaded
    <2>1. ~Set(e)
      BY DEF Set, At, TypeOK
    <2>2. sets'[e] = sets[e] /\ sets[e] \in Nat
      BY <2>1, SetsStep DEF TypeOK
    <2>3. Kept(i)
      <3>1. ~JustSet(i)
        BY <2>1 DEF JustSet
      <3>2. m_stack'[i].request # Nothing
        BY <2>2, RequestFacts
      <3> QED BY <3>1, <3>2, StackOrigin DEF Origin
    <2>4. i \in DOMAIN m_stack /\ m_stack[i].request = <<e, sets[e]>>
      BY <2>2, <2>3 DEF Kept
    <2>5. CASE reinit' = m_stack
      BY <2>2, <2>4, <2>5
    <2>6. CASE reinit' # m_stack
      <3>1. ~Upload(e)
        BY <2>6 DEF Upload
      <3>2. pc[e] # "upload"
        BY <3>1, UploadWaits
      <3>3. \E j \in DOMAIN reinit : reinit[j].request = <<e, sets[e]>>
        BY <2>4, <3>2 DEF InvUploaded
      <3> QED BY <2>2, <2>6, <3>3, ReinitOrigin
    <2> QED BY <2>5, <2>6
  <1>2. InvYoungest'
    <2>1. \A e \in Entry : sets[e] \in Nat /\ sets'[e] \in Nat /\ sets[e] <= sets'[e]
      BY SetsStep DEF TypeOK
    <2>2. CASE reinit' = m_stack /\ UNCHANGED m_stack
      <3>1. \A i \in DOMAIN m_stack : m_stack[i].request # Nothing =>
              \E e \in Entry : m_stack[i].request = <<e, sets[e]>>
        BY DEF InvStack
      <3> QED BY <2>1, <2>2, <3>1 DEF InvYoungest
    <2>3. CASE DOMAIN reinit' = DOMAIN reinit
               /\ \A j \in DOMAIN reinit : reinit'[j].request = reinit[j].request
      BY <2>1, <2>3, StackFacts, RequestFacts DEF InvYoungest
    <2> QED BY <2>2, <2>3, ReinitOrigin
  <1> QED BY <1>1, <1>2

(* What was set while work is submitted stays excused until it is set      *)
(* again while there is none.                                              *)
LEMMA OverlappingStep ==
  ASSUME TypeOK, InvThreads, InvOverlapping, [Next]_vars
  PROVE  InvOverlapping'
  <1> SUFFICES ASSUME NEW s \in Submitter, NEW e \in Entry, pc'[s] # "idle", pc'[e] = "upload"
               PROVE  e \in overlapping'
    BY DEF InvOverlapping
  <1> USE DEF TypeOK
  <1>1. s \notin Entry /\ e \notin Submitter
    BY ThreadAssumption
  <1>2. CASE UNCHANGED <<pc, overlapping>>
    BY <1>2 DEF InvOverlapping
  <1>3. ASSUME NEW f \in Entry, Setup(f) \/ Upload(f) \/ Pop(f) \/ Replace(f) PROVE e \in overlapping'
    <2>1. overlapping' = overlapping /\ pc'[s] = pc[s] /\ pc'[f] # "upload"
          /\ (f # e => pc'[e] = pc[e])
      BY <1>1, <1>3 DEF Setup, Upload, Pop, Replace, At
    <2> QED BY <2>1 DEF InvOverlapping
  <1>4. ASSUME NEW f \in Entry, Set(f) PROVE e \in overlapping'
    <2>1. pc'[s] = pc[s] /\ (f # e => pc'[e] = pc[e])
      BY <1>1, <1>4 DEF Set, At
    <2>2. overlapping' = overlapping \cup {f}
      BY <1>4, <2>1 DEF Set
    <2> QED BY <2>1, <2>2 DEF InvOverlapping
  <1>5. ASSUME NEW t \in Submitter, Submit(t) PROVE e \in overlapping'
    BY <1>1, <1>5 DEF Submit, At
  <1>6. ASSUME NEW t \in Submitter, SetAllDone(t) \/ Reject(t) \/ Work(t) PROVE e \in overlapping'
    <2>1. overlapping' = overlapping /\ pc'[e] = pc[e] /\ (t # s => pc'[s] = pc[s])
      BY <1>1, <1>6 DEF SetAllDone, Reject, Work, At
    <2>2. pc[t] # "idle"
      BY <1>6, NothingAssumption DEF SetAllDone, Reject, Work, At, InvThreads
    <2> QED BY <2>1, <2>2 DEF InvOverlapping
  <1> QED BY <1>2, <1>3, <1>4, <1>5, <1>6, NextCases DEF Enforce, PerformReinit, SwitchSession

----------------------------------------------------------------------------
(* A reinit that leaves no force behind has executed all that is stacked.  *)
LEMMA AllExecuted ==
  ASSUME TypeOK, InvStack, InvUploaded, InvOverlapping, InvUploads,
         NEW s \in Submitter, PerformReinit(s), ~force'
  PROVE  \A i \in DOMAIN m_stack : m_stack[i].request \in Executed'
  <1> SUFFICES ASSUME NEW i \in DOMAIN m_stack PROVE m_stack[i].request \in Executed'
    OBVIOUS
  <1>1. overlapping' = overlapping /\ board \subseteq board' /\ pc[s] # "idle"
    BY ReinitStep DEF PerformReinit
  <1>2. CASE m_stack[i].request = Nothing
    BY <1>2 DEF Executed
  <1>3. CASE m_stack[i].request # Nothing
    <2>1. PICK e \in Entry : m_stack[i].request = <<e, sets[e]>>
      BY <1>3 DEF InvStack
    <2>2. CASE pc[e] = "upload"
      <3>1. e \in overlapping' /\ sets[e] \in Nat
        BY <1>1, <2>2 DEF InvOverlapping, TypeOK
      <3> QED BY <2>1, <3>1 DEF Executed, Excused
    <2>3. CASE pc[e] # "upload"
      <3>1. PICK j \in DOMAIN reinit : reinit[j].request = m_stack[i].request
        BY <2>1, <2>3 DEF InvUploaded
      <3>2. reinit[j].request \in Stacked
        BY <3>1 DEF Stacked
      <3>3. CASE force \/ reinit[j].reinit_pending
        BY <3>1, <3>3, ReinitStep DEF Executed
      <3>4. CASE reinit[j].request \in Executed
        BY <1>1, <3>1, <3>4 DEF Executed, Excused
      <3> QED BY <3>2, <3>3, <3>4 DEF InvUploads
    <2> QED BY <2>2, <2>3
  <1> QED BY <1>2, <1>3

(* What stays in the stack and has been executed is so, until the hardware *)
(* is lost.                                                                *)
LEMMA StaysExecuted ==
  ASSUME TypeOK, OwnPlace, InvStack, [Next]_vars, board \subseteq board',
         NEW i \in DOMAIN m_stack', Kept(i), m_stack[i].request \in Executed
  PROVE  m_stack'[i].request \in Executed'
  <1>1. i \in DOMAIN m_stack /\ m_stack'[i].request = m_stack[i].request
    BY DEF Kept
  <1>2. CASE m_stack[i].request \in board \cup {Nothing}
    BY <1>1, <1>2 DEF Executed
  <1>3. CASE m_stack[i].request \notin board \cup {Nothing}
    <2>1. PICK e \in Entry : m_stack[i].request = <<e, sets[e]>>
      BY <1>1, <1>3 DEF InvStack
    <2>2. PICK f \in Entry : m_stack[i].request = <<f, sets'[f]>>
      BY <1>1, <1>3, PlaceStep DEF InvStack
    <2>3. e = f /\ sets'[e] = sets[e] /\ sets[e] \in Nat
      BY <2>1, <2>2 DEF TypeOK
    <2>4. e \in overlapping
      BY <1>3, <2>1 DEF Executed, Excused
    <2>5. ASSUME NEW g \in Entry, Set(g) PROVE e \in overlapping'
      <3>1. g # e
        BY <2>3, <2>5, SetsStep
      <3> QED BY <2>4, <2>5, <3>1 DEF Set
    <2>6. e \in overlapping'
      BY <2>4, <2>5, NextCases
         DEF Setup, Upload, Pop, Replace, Enforce, Submit, SetAllDone, PerformReinit, Reject, Work, SwitchSession
    <2> QED BY <1>1, <2>1, <2>3, <2>6 DEF Executed, Excused
  <1> QED BY <1>2, <1>3

(* The hardware is lost by a failed reinit or to another session, and not  *)
(* while the worker is at a submission; only a reinit ends the force.      *)
LEMMA BoardStep ==
  ASSUME TypeOK, [Next]_vars
  PROVE  /\ board \subseteq board' \/ force'
         /\ serving # Nothing => board' = board
         /\ force /\ ~force' => \E s \in Submitter : PerformReinit(s)
  <1>1. ASSUME NEW s \in Submitter, PerformReinit(s)
        PROVE  (board \subseteq board' \/ force') /\ serving = Nothing
    BY <1>1, ReinitStep DEF PerformReinit
  <1>2. CASE UNCHANGED <<board, force>>
    BY <1>2
  <1>3. CASE SwitchSession \/ \E e \in Entry : Enforce(e)
    BY <1>3 DEF SwitchSession, Enforce
  <1> QED BY <1>1, <1>2, <1>3, NextCases
          DEF Setup, Set, Upload, Pop, Replace, Submit, SetAllDone, Reject, Work

(* The same with a reinit due: it executes what is stacked.                *)
LEMMA ExecutedOrForced ==
  ASSUME TypeOK, OwnPlace, InvStack, InvUploaded, InvOverlapping, InvUploads, [Next]_vars,
         NEW i \in DOMAIN m_stack', Kept(i), m_stack[i].request \in Executed \/ force
  PROVE  m_stack'[i].request \in Executed' \/ force'
  <1>1. CASE \E s \in Submitter : PerformReinit(s)
    BY <1>1, AllExecuted DEF Kept
  <1>2. CASE m_stack[i].request \in Executed
    BY <1>2, BoardStep, StaysExecuted
  <1> QED BY <1>1, <1>2, BoardStep

(* What was set while work is submitted is excused.                        *)
LEMMA SetWhileSubmitted ==
  ASSUME TypeOK, NEW s \in Submitter, pc[s] # "idle", NEW i, JustSet(i)
  PROVE  m_stack'[i].request \in Executed'
  <1>1. PICK e \in Entry : Set(e) /\ m_stack'[i].request = <<e, sets'[e]>>
    BY DEF JustSet
  <1>2. e \in overlapping' /\ sets'[e] \in Nat
    BY <1>1 DEF Set, TypeOK
  <1> QED BY <1>1, <1>2 DEF Executed, Excused

----------------------------------------------------------------------------
(* Entries are executed before the worker works, or pending, or forced.    *)
LEMMA ExecutedStep ==
  ASSUME IInv, [Next]_vars
  PROVE  DoneWasExecuted' /\ InvServing' /\ InvDone'
  <1> USE DEF IInv
  <1>1. DoneWasExecuted'
    <2> SUFFICES ASSUME NEW i \in DOMAIN m_stack',
                        ~m_stack'[i].reinit_pending, m_stack'[i].request # Nothing
                 PROVE  m_stack'[i].request \in Executed' \/ force'
      BY DEF DoneWasExecuted, Executed
    <2>1. Kept(i)
      BY StackOrigin DEF Origin, JustSet
    <2>2. m_stack[i].request \in Executed \/ force
      <3>1. CASE ~m_stack[i].reinit_pending
        BY <2>1, <3>1 DEF DoneWasExecuted, Executed, Kept
      <3>2. CASE \E s \in Submitter : SetAllDone(s)
        BY <2>1, <3>2 DEF InvDone, SetAllDone, At, Kept
      <3> QED BY <2>1, <3>1, <3>2 DEF Kept
    <2> QED BY <2>1, <2>2, ExecutedOrForced
  <1>2. InvServing'
    <2> SUFFICES ASSUME serving' # Nothing, ~failed', NEW i \in DOMAIN m_stack'
                 PROVE  m_stack'[i].request \in Executed'
      BY DEF InvServing
    <2>1. CASE \E s \in Submitter : PerformReinit(s)
      <3>1. PICK s \in Submitter : PerformReinit(s)
        BY <2>1
      <3>2. m_stack' = m_stack /\ ~force'
        BY <3>1, ReinitStep DEF PerformReinit
      <3> QED BY <3>1, <3>2, AllExecuted
    <2>2. CASE ~\E s \in Submitter : PerformReinit(s)
      <3>1. serving' = serving /\ failed' = failed
        BY <2>2, NextCases
           DEF Setup, Set, Upload, Pop, Replace, Enforce, Submit, SetAllDone, Reject, Work, SwitchSession
      <3>2. serving \in Submitter /\ pc[serving] # "idle"
        BY <3>1 DEF InvThreads
      <3>3. CASE m_stack'[i].request = Nothing
        BY <3>3 DEF Executed
      <3>4. CASE Kept(i)
        <4>1. board \subseteq board' /\ m_stack[i].request \in Executed
          BY <3>1, <3>4, BoardStep DEF InvServing, Kept
        <4> QED BY <3>4, <4>1, StaysExecuted
      <3>5. CASE JustSet(i)
        BY <3>2, <3>5, SetWhileSubmitted
      <3> QED BY <3>3, <3>4, <3>5, StackOrigin DEF Origin
    <2> QED BY <2>1, <2>2
  <1>3. InvDone'
    <2> SUFFICES ASSUME NEW s \in Submitter, pc'[s] = "done", NEW i \in DOMAIN m_stack'
                 PROVE  m_stack'[i].request \in Executed' \/ force'
      BY DEF InvDone
    <2>1. pc[s] = "done" \/ (Work(s) /\ pc[s] = "blocking")
      BY NextCases, ThreadAssumption
         DEF Setup, Set, Upload, Pop, Replace, Enforce, Submit, SetAllDone, PerformReinit, Reject, Work,
             SwitchSession, At, TypeOK
    <2>2. pc[s] # "idle"
      BY <2>1
    <2>3. CASE m_stack'[i].request = Nothing
      BY <2>3 DEF Executed
    <2>4. CASE Kept(i)
      <3>1. m_stack[i].request \in Executed \/ force
        BY <2>1, <2>4, NothingAssumption DEF InvDone, InvServing, Work, Kept
      <3> QED BY <2>4, <3>1, ExecutedOrForced
    <2>5. CASE JustSet(i)
      BY <2>2, <2>5, SetWhileSubmitted
    <2> QED BY <2>3, <2>4, <2>5, StackOrigin DEF Origin
  <1> QED BY <1>1, <1>2, <1>3

LEMMA UploadsStep ==
  ASSUME IInv, [Next]_vars
  PROVE  InvUploads'
  <1> USE DEF IInv
  <1>1. CASE reinit' = m_stack /\ UNCHANGED m_stack
    BY <1>1, ExecutedStep DEF InvUploads, DoneWasExecuted, Executed
  <1>2. ASSUME DOMAIN reinit' = DOMAIN reinit,
               \A j \in DOMAIN reinit : reinit'[j].request = reinit[j].request
        PROVE  InvUploads'
    <2> SUFFICES ASSUME NEW j \in DOMAIN reinit, ~reinit'[j].reinit_pending,
                        reinit[j].request \in Stacked', reinit[j].request # Nothing
                 PROVE  reinit[j].request \in Executed' \/ force'
      BY <1>2 DEF InvUploads, Executed
    <2>1. PICK i \in DOMAIN m_stack' : m_stack'[i].request = reinit[j].request
      BY DEF Stacked
    <2>2. ~JustSet(i)
      <3> SUFFICES ASSUME NEW e \in Entry, Set(e), reinit[j].request = <<e, sets'[e]>> PROVE FALSE
        BY <2>1 DEF JustSet
      <3>1. sets'[e] = sets[e] + 1 /\ sets[e] \in Nat
        BY SetsStep DEF TypeOK
      <3> QED BY <3>1 DEF InvYoungest
    <2>3. Kept(i)
      BY <2>1, <2>2, StackOrigin DEF Origin
    <2>4. CASE \E s \in Submitter : PerformReinit(s)
      BY <2>1, <2>3, <2>4, AllExecuted DEF Kept
    <2>5. CASE UNCHANGED reinit
      <3>1. reinit[j].request \in Stacked
        BY <2>1, <2>3 DEF Stacked, Kept
      <3>2. m_stack[i].request \in Executed \/ force
        BY <2>1, <2>3, <2>5, <3>1 DEF InvUploads, Kept
      <3> QED BY <2>1, <2>3, <3>2, ExecutedOrForced
    <2>6. CASE \E e \in Entry : Upload(e)
      <3>1. m_stack' = m_stack /\ reinit' = m_stack
        BY <2>6 DEF Upload
      <3> QED BY <1>1, <1>2, <3>1 DEF InvUploads, Executed
    <2> QED BY <2>4, <2>5, <2>6, NextCases
            DEF Setup, Set, Pop, Replace, Enforce, Submit, SetAllDone, Reject, Work, SwitchSession
  <1> QED BY <1>1, <1>2, ReinitOrigin

----------------------------------------------------------------------------
LEMMA Initially ==
  ASSUME Init
  PROVE  IInv
  <1>1. m_stack = <<>> /\ reinit = <<>> /\ DOMAIN m_stack = {} /\ DOMAIN reinit = {}
    BY DEF Init
  <1>2. TypeOK /\ InvThreads
    <2>1. m_stack \in Seq(ReinitEntry) /\ reinit \in Seq(ReinitEntry)
      BY EmptySeq DEF Init
    <2>2. \A a \in Entry \cup Submitter : pc[a] = "idle"
      BY DEF Init
    <2>3. serving = Nothing
      BY DEF Init
    <2> QED BY <2>1, <2>2, <2>3 DEF Init, TypeOK, InvThreads
  <1>3. OwnPlace
    BY DEF Init, OwnPlace
  <1>4. InvServing /\ InvDone /\ InvOverlapping
    BY NothingAssumption, ThreadAssumption DEF Init, InvServing, InvDone, InvOverlapping
  <1> QED BY <1>1, <1>2, <1>3, <1>4 DEF IInv, InvStack, InvUploaded, InvYoungest, DoneWasExecuted, InvUploads

LEMMA Inductive ==
  ASSUME IInv, [Next]_vars
  PROVE  IInv'
  <1>1. TypeOK' /\ InvThreads'
    BY TypeStep DEF IInv
  <1>2. OwnPlace' /\ InvStack'
    BY PlaceStep DEF IInv
  <1>3. InvUploaded' /\ InvYoungest'
    BY UploadedStep DEF IInv
  <1>4. InvOverlapping'
    BY OverlappingStep DEF IInv
  <1> QED BY <1>1, <1>2, <1>3, <1>4, ExecutedStep, UploadsStep DEF IInv

(* IInv holds in every state the programs and the worker reach.            *)
THEOREM Invariance == Spec => []IInv
  <1>1. Init => IInv
    BY Initially
  <1>2. IInv /\ [Next]_vars => IInv'
    BY Inductive
  <1> QED BY <1>1, <1>2, PTL DEF Spec

(* Every variable keeps its type, an entry that is being set or replaced   *)
(* has a place, and the worker is at most at one submission.               *)
THEOREM TypeCorrect == Spec => []TypeOK
  <1>1. IInv => TypeOK
    BY DEF IInv
  <1> QED BY <1>1, Invariance, PTL

(* Entries are pushed, set, popped and replaced in any order by threads of *)
(* their own, and none ever overwrites or loses the place of another one:  *)
(* what is in its place is the last request it was set to, or nothing.     *)
THEOREM OwnPlaces == Spec => []OwnPlace
  <1>1. IInv => OwnPlace
    BY DEF IInv
  <1> QED BY <1>1, Invariance, PTL

(* An entry that lost its pending flag has been executed since the session *)
(* got the hardware, or a forced reinit is due that executes it; unless it *)
(* was set while work was submitted.                                       *)
THEOREM DoneExecuted == Spec => []DoneWasExecuted
  <1>1. IInv => DoneWasExecuted
    BY DEF IInv
  <1> QED BY <1>1, Invariance, PTL

(* The worker works only on hardware that has seen every request that was  *)
(* set before the submission and is still stacked, for any number of       *)
(* entries, submissions and changes of the session; except the requests    *)
(* that were set while other work was submitted, which may be left out.    *)
THEOREM ReinitFirst == Spec => ReinitPrecedesWork
  <1>1. IInv /\ [Next]_vars =>
          [\A s \in Submitter : Works(s) => (required[s] \cap Stacked) \ Excused \subseteq board]_vars
    <2> SUFFICES ASSUME IInv, NEW s \in Submitter, Works(s)
                 PROVE  (required[s] \cap Stacked) \ Excused \subseteq board
      OBVIOUS
    <2>1. \A i \in DOMAIN m_stack : m_stack[i].request \in Executed
      BY NothingAssumption DEF Works, IInv, InvServing
    <2>2. required[s] \subseteq Request
      BY DEF IInv, TypeOK
    <2> QED BY <2>1, <2>2, RequestFacts DEF Stacked, Executed
  <1> QED BY <1>1, Invariance, PTL DEF Spec, ReinitPrecedesWork
=============================================================================
