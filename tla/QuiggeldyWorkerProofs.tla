----------------------- MODULE QuiggeldyWorkerProofs -----------------------
(***************************************************************************)
(* Theorems about QuiggeldyWorker, for any sessions and any number of      *)
(* connection attempts.                                                    *)
(***************************************************************************)
EXTENDS QuiggeldyWorker, TLAPS

lost == m_sessions_with_failed_reinit_schedule_out
failed == m_sessions_with_failed_reinit

(* What the worker believes about the license is true.                     *)
InvLicense ==
  /\ m_has_slurm_allocation <=> license = "quiggeldy"
  /\ m_allocate_license /\ (m_connection \/ call \in {"connect", "reconnect"}) =>
       m_has_slurm_allocation
  /\ call = "release" => ~m_connection

(* Whom the calls of the scheduler are for.                                *)
Serving ==
  \/ call \in {"acquire", "connect", "reconnect", "reinit", "work"}
  \/ call \in {"disconnect", "release"} /\ after \in {"acquire", "work"}

InvCall ==
  /\ Serving => target \in Session /\ request[target]
  /\ call = "snapshot" => /\ target \in Session => request[target]
                          /\ current \in Session
  /\ call \in {"reinit", "snapshot"} => m_connection
  /\ call = "reinit" => current \in {target, NoSession}
  /\ call \in {"acquire", "connect", "disconnect", "release"} => current = NoSession
  /\ current \in Session => m_connection \/ call = "reconnect"

(* A failed reinit is on its way to the answer it belongs to.              *)
Failing == call = "work" \/ (call \in {"disconnect", "release"} /\ after = "work")

InvFailed ==
  /\ failed \subseteq {target}
  /\ failed # {} => Failing
  /\ call \in {"disconnect", "release"} /\ after = "work" => target \in failed
  /\ call = "work" /\ target \notin failed => current = target /\ m_connection /\ ~set[target]
  /\ call = "reconnect" => current = target

(* The state of a session is on the chip while it is current, and in its   *)
(* reinit entry otherwise.                                                 *)
InvState ==
  m_allocate_license =>
    /\ \A s \in Session : reinit[s].request.owner = s
    /\ current \in Session =>
         /\ chip.owner = current
         /\ ~set[current] => ~reinit[current].reinit_pending
         /\ ~set[current] /\ current \notin lost => chip.version = expected[current]
    /\ \A s \in Snapshotting :
         s # current /\ s \notin lost /\ ~set[s] => reinit[s].request.version = expected[s]

IInv == TypeOK /\ InvLicense /\ InvCall /\ InvFailed /\ InvState

LEMMA Initially == Init => IInv
<1> SUFFICES ASSUME Init PROVE IInv
  OBVIOUS
<1> USE SessionAssumption, AttemptsAssumption DEF Init, State, Unknown
<1>1. num_attempts \in 0 .. m_max_num_connection_attempts
  OBVIOUS
<1>2. m_connection \in BOOLEAN /\ m_has_slurm_allocation \in BOOLEAN
  BY Zenon
<1>3. reinit \in [Session -> ReinitEntry] /\ chip \in ChipState
  BY DEF ReinitEntry, ChipState
<1>4. TypeOK
  BY <1>1, <1>2, <1>3 DEF TypeOK
<1>5. InvLicense /\ InvCall /\ InvFailed
  BY DEF InvLicense, InvCall, Serving, InvFailed, Failing, lost, failed
<1>6. InvState
  BY DEF InvState, lost
<1>. QED BY <1>4, <1>5, <1>6 DEF IInv

LEMMA Inductive ==
  ASSUME SlurmInstalled, IInv, [Next]_vars
  PROVE  IInv'
<1> USE SessionAssumption, AttemptsAssumption DEF bookkeeping, failures, clients, lost, failed
<1>1. ASSUME NEW s \in Session, Submit(s) PROVE IInv'
  <2>1. TypeOK'
    BY <1>1 DEF TypeOK, IInv, InvCall, Serving, Submit, ReinitEntry, ChipState, State, Unknown
  <2>2. InvLicense'
    BY <1>1 DEF InvLicense, IInv, TypeOK, InvCall, InvFailed, InvState, Submit, Serving, Failing, ReinitEntry, ChipState, State, Unknown
  <2>3. InvCall'
    BY <1>1 DEF InvCall, IInv, TypeOK, InvLicense, InvFailed, InvState, Submit, Serving, Failing, ReinitEntry, ChipState, State, Unknown
  <2>4. InvFailed'
    BY <1>1 DEF InvFailed, IInv, TypeOK, InvLicense, InvCall, InvState, Submit, Serving, Failing, ReinitEntry, ChipState, State, Unknown
  <2>5. InvState'
    BY <1>1 DEF InvState, IInv, TypeOK, InvLicense, InvCall, InvFailed, Submit, Serving, Failing, ReinitEntry, ChipState, State, Unknown
  <2>. QED BY <2>1, <2>2, <2>3, <2>4, <2>5 DEF IInv
<1>2. ASSUME NEW s \in Session, Set(s) PROVE IInv'
  <2>1. TypeOK'
    BY <1>2 DEF TypeOK, IInv, InvCall, Serving, Set, ReinitEntry, ChipState, State, Unknown
  <2>2. InvLicense'
    BY <1>2 DEF InvLicense, IInv, TypeOK, InvCall, InvFailed, InvState, Set, Serving, Failing, ReinitEntry, ChipState, State, Unknown
  <2>3. InvCall'
    BY <1>2 DEF InvCall, IInv, TypeOK, InvLicense, InvFailed, InvState, Set, Serving, Failing, ReinitEntry, ChipState, State, Unknown
  <2>4. InvFailed'
    BY <1>2 DEF InvFailed, IInv, TypeOK, InvLicense, InvCall, InvState, Set, Serving, Failing, ReinitEntry, ChipState, State, Unknown
  <2>5. InvState'
    BY <1>2 DEF InvState, IInv, TypeOK, InvLicense, InvCall, InvFailed, Set, Serving, Failing, ReinitEntry, ChipState, State, Unknown
  <2>. QED BY <2>1, <2>2, <2>3, <2>4, <2>5 DEF IInv
<1>3. ASSUME NEW s \in Session, Serve(s) PROVE IInv'
  <2>1. TypeOK'
    BY <1>3 DEF TypeOK, IInv, InvCall, Serving, Serve, ReinitEntry, ChipState, State, Unknown
  <2>2. InvLicense'
    BY <1>3 DEF InvLicense, IInv, TypeOK, InvCall, InvFailed, InvState, Serve, Serving, Failing, ReinitEntry, ChipState, State, Unknown
  <2>3. InvCall'
    BY <1>3 DEF InvCall, IInv, TypeOK, InvLicense, InvFailed, InvState, Serve, Serving, Failing, ReinitEntry, ChipState, State, Unknown
  <2>4. InvFailed'
    BY <1>3 DEF InvFailed, IInv, TypeOK, InvLicense, InvCall, InvState, Serve, Serving, Failing, ReinitEntry, ChipState, State, Unknown
  <2>5. InvState'
    BY <1>3 DEF InvState, IInv, TypeOK, InvLicense, InvCall, InvFailed, Serve, Serving, Failing, ReinitEntry, ChipState, State, Unknown
  <2>. QED BY <2>1, <2>2, <2>3, <2>4, <2>5 DEF IInv
<1>4. CASE Foreign
  <2>1. TypeOK'
    BY <1>4 DEF TypeOK, IInv, InvCall, Serving, Foreign, ReinitEntry, ChipState, State, Unknown
  <2>2. InvLicense'
    BY <1>4 DEF InvLicense, IInv, TypeOK, InvCall, InvFailed, InvState, Foreign, Serving, Failing, ReinitEntry, ChipState, State, Unknown
  <2>3. InvCall'
    BY <1>4 DEF InvCall, IInv, TypeOK, InvLicense, InvFailed, InvState, Foreign, Serving, Failing, ReinitEntry, ChipState, State, Unknown
  <2>4. InvFailed'
    BY <1>4 DEF InvFailed, IInv, TypeOK, InvLicense, InvCall, InvState, Foreign, Serving, Failing, ReinitEntry, ChipState, State, Unknown
  <2>5. InvState'
    BY <1>4 DEF InvState, IInv, TypeOK, InvLicense, InvCall, InvFailed, Foreign, Serving, Failing, ReinitEntry, ChipState, State, Unknown
  <2>. QED BY <2>1, <2>2, <2>3, <2>4, <2>5 DEF IInv
<1>5. CASE GiveUp
  <2>1. TypeOK'
    BY <1>5 DEF TypeOK, IInv, InvCall, Serving, GiveUp, ReinitEntry, ChipState, State, Unknown
  <2>2. InvLicense'
    BY <1>5 DEF InvLicense, IInv, TypeOK, InvCall, InvFailed, InvState, GiveUp, Serving, Failing, ReinitEntry, ChipState, State, Unknown
  <2>3. InvCall'
    BY <1>5 DEF InvCall, IInv, TypeOK, InvLicense, InvFailed, InvState, GiveUp, Serving, Failing, ReinitEntry, ChipState, State, Unknown
  <2>4. InvFailed'
    BY <1>5 DEF InvFailed, IInv, TypeOK, InvLicense, InvCall, InvState, GiveUp, Serving, Failing, ReinitEntry, ChipState, State, Unknown
  <2>5. InvState'
    BY <1>5 DEF InvState, IInv, TypeOK, InvLicense, InvCall, InvFailed, GiveUp, Serving, Failing, ReinitEntry, ChipState, State, Unknown
  <2>. QED BY <2>1, <2>2, <2>3, <2>4, <2>5 DEF IInv
<1>6. CASE Acquire
  <2>1. TypeOK'
    <3>1. num_attempts' \in 0 .. m_max_num_connection_attempts /\ call' = "connect"
      BY <1>6 DEF Acquire, SetupConnection
    <3>2. m_connection' \in BOOLEAN
      BY <1>6, Zenon DEF Acquire, SetupConnection
    <3>3. m_has_slurm_allocation' \in BOOLEAN
      BY <1>6 DEF Acquire, IInv, TypeOK
    <3>4. license' \in {"free", "quiggeldy", "foreign"}
      BY <1>6 DEF Acquire, IInv, TypeOK
    <3>. QED BY <1>6, <3>1, <3>2, <3>3, <3>4 DEF Acquire, IInv, TypeOK
  <2>2. InvLicense'
    BY <1>6 DEF InvLicense, IInv, TypeOK, InvCall, InvFailed, InvState, Acquire, SetupConnection, Serving, Failing, ReinitEntry, ChipState, State, Unknown
  <2>3. InvCall'
    BY <1>6 DEF InvCall, IInv, TypeOK, InvLicense, InvFailed, InvState, Acquire, SetupConnection, Serving, Failing, ReinitEntry, ChipState, State, Unknown
  <2>4. InvFailed'
    BY <1>6 DEF InvFailed, IInv, TypeOK, InvLicense, InvCall, InvState, Acquire, SetupConnection, Serving, Failing, ReinitEntry, ChipState, State, Unknown
  <2>5. InvState'
    BY <1>6 DEF InvState, IInv, TypeOK, InvLicense, InvCall, InvFailed, Acquire, SetupConnection, Serving, Failing, ReinitEntry, ChipState, State, Unknown
  <2>. QED BY <2>1, <2>2, <2>3, <2>4, <2>5 DEF IInv
<1>7. CASE SallocFails
  <2>1. TypeOK'
    BY <1>7 DEF TypeOK, IInv, InvCall, Serving, SallocFails, ReinitEntry, ChipState, State, Unknown
  <2>2. InvLicense'
    BY <1>7 DEF InvLicense, IInv, TypeOK, InvCall, InvFailed, InvState, SallocFails, Serving, Failing, ReinitEntry, ChipState, State, Unknown
  <2>3. InvCall'
    BY <1>7 DEF InvCall, IInv, TypeOK, InvLicense, InvFailed, InvState, SallocFails, Serving, Failing, ReinitEntry, ChipState, State, Unknown
  <2>4. InvFailed'
    BY <1>7 DEF InvFailed, IInv, TypeOK, InvLicense, InvCall, InvState, SallocFails, Serving, Failing, ReinitEntry, ChipState, State, Unknown
  <2>5. InvState'
    BY <1>7 DEF InvState, IInv, TypeOK, InvLicense, InvCall, InvFailed, SallocFails, Serving, Failing, ReinitEntry, ChipState, State, Unknown
  <2>. QED BY <2>1, <2>2, <2>3, <2>4, <2>5 DEF IInv
<1>8. CASE Connect
  <2>1. TypeOK'
    BY <1>8 DEF TypeOK, IInv, InvCall, Serving, Connect, ReinitEntry, ChipState, State, Unknown
  <2>2. InvLicense'
    BY <1>8 DEF InvLicense, IInv, TypeOK, InvCall, InvFailed, InvState, Connect, Serving, Failing, ReinitEntry, ChipState, State, Unknown
  <2>3. InvCall'
    BY <1>8 DEF InvCall, IInv, TypeOK, InvLicense, InvFailed, InvState, Connect, Serving, Failing, ReinitEntry, ChipState, State, Unknown
  <2>4. InvFailed'
    BY <1>8 DEF InvFailed, IInv, TypeOK, InvLicense, InvCall, InvState, Connect, Serving, Failing, ReinitEntry, ChipState, State, Unknown
  <2>5. InvState'
    BY <1>8 DEF InvState, IInv, TypeOK, InvLicense, InvCall, InvFailed, Connect, Serving, Failing, ReinitEntry, ChipState, State, Unknown
  <2>. QED BY <2>1, <2>2, <2>3, <2>4, <2>5 DEF IInv
<1>9. CASE ConnectFails
  <2>1. TypeOK'
    BY <1>9 DEF TypeOK, IInv, InvCall, Serving, ConnectFails, ReinitEntry, ChipState, State, Unknown
  <2>2. InvLicense'
    BY <1>9 DEF InvLicense, IInv, TypeOK, InvCall, InvFailed, InvState, ConnectFails, Serving, Failing, ReinitEntry, ChipState, State, Unknown
  <2>3. InvCall'
    BY <1>9 DEF InvCall, IInv, TypeOK, InvLicense, InvFailed, InvState, ConnectFails, Serving, Failing, ReinitEntry, ChipState, State, Unknown
  <2>4. InvFailed'
    BY <1>9 DEF InvFailed, IInv, TypeOK, InvLicense, InvCall, InvState, ConnectFails, Serving, Failing, ReinitEntry, ChipState, State, Unknown
  <2>5. InvState'
    BY <1>9 DEF InvState, IInv, TypeOK, InvLicense, InvCall, InvFailed, ConnectFails, Serving, Failing, ReinitEntry, ChipState, State, Unknown
  <2>. QED BY <2>1, <2>2, <2>3, <2>4, <2>5 DEF IInv
<1>10. CASE GiveUpConnecting
  <2>1. TypeOK'
    BY <1>10 DEF TypeOK, IInv, InvCall, Serving, GiveUpConnecting, ReinitEntry, ChipState, State, Unknown
  <2>2. InvLicense'
    BY <1>10 DEF InvLicense, IInv, TypeOK, InvCall, InvFailed, InvState, GiveUpConnecting, Serving, Failing, ReinitEntry, ChipState, State, Unknown
  <2>3. InvCall'
    BY <1>10 DEF InvCall, IInv, TypeOK, InvLicense, InvFailed, InvState, GiveUpConnecting, Serving, Failing, ReinitEntry, ChipState, State, Unknown
  <2>4. InvFailed'
    BY <1>10 DEF InvFailed, IInv, TypeOK, InvLicense, InvCall, InvState, GiveUpConnecting, Serving, Failing, ReinitEntry, ChipState, State, Unknown
  <2>5. InvState'
    BY <1>10 DEF InvState, IInv, TypeOK, InvLicense, InvCall, InvFailed, GiveUpConnecting, Serving, Failing, ReinitEntry, ChipState, State, Unknown
  <2>. QED BY <2>1, <2>2, <2>3, <2>4, <2>5 DEF IInv
<1>11. CASE PerformReinit
  <2>1. TypeOK'
    <3>1. target \in Session /\ Uploaded(target) \in ReinitEntry
      BY <1>11 DEF PerformReinit, IInv, TypeOK, InvCall, Serving, Uploaded, ReinitEntry,
                   ChipState, State
    <3>2. [Uploaded(target) EXCEPT !.reinit_pending = FALSE] \in ReinitEntry
      BY <3>1 DEF ReinitEntry
    <3>3. Uploaded(target).request \in ChipState /\ Uploaded(target).request.version \in Nat
      BY <3>1 DEF ReinitEntry, ChipState
    <3>4. reinit' \in [Session -> ReinitEntry] /\ set' \in [Session -> BOOLEAN]
      BY <1>11, <3>1, <3>2 DEF PerformReinit, IInv, TypeOK
    <3>5. chip' \in ChipState /\ expected' \in [Session -> Nat]
      BY <1>11, <3>1, <3>3 DEF PerformReinit, IInv, TypeOK
    <3>. QED BY <1>11, <3>1, <3>4, <3>5 DEF PerformReinit, IInv, TypeOK
  <2>2. InvLicense'
    BY <1>11 DEF InvLicense, IInv, TypeOK, InvCall, InvFailed, InvState, PerformReinit, Due, Uploaded, Serving, Failing, ReinitEntry, ChipState, State, Unknown
  <2>3. InvCall'
    BY <1>11 DEF InvCall, IInv, TypeOK, InvLicense, InvFailed, InvState, PerformReinit, Due, Uploaded, Serving, Failing, ReinitEntry, ChipState, State, Unknown
  <2>4. InvFailed'
    BY <1>11 DEF InvFailed, IInv, TypeOK, InvLicense, InvCall, InvState, PerformReinit, Due, Uploaded, Serving, Failing, ReinitEntry, ChipState, State, Unknown
  <2>5. InvState'
    BY <1>11 DEF InvState, IInv, TypeOK, InvLicense, InvCall, InvFailed, PerformReinit, Due, Uploaded, Serving, Failing, ReinitEntry, ChipState, State, Unknown
  <2>. QED BY <2>1, <2>2, <2>3, <2>4, <2>5 DEF IInv
<1>12. CASE ReinitFails
  <2>1. TypeOK'
    BY <1>12 DEF TypeOK, IInv, InvCall, Serving, ReinitFails, Due, Uploaded, Teardown, ReinitEntry, ChipState, State, Unknown
  <2>2. InvLicense'
    BY <1>12 DEF InvLicense, IInv, TypeOK, InvCall, InvFailed, InvState, ReinitFails, Due, Uploaded, Teardown, Serving, Failing, ReinitEntry, ChipState, State, Unknown
  <2>3. InvCall'
    BY <1>12 DEF InvCall, IInv, TypeOK, InvLicense, InvFailed, InvState, ReinitFails, Due, Uploaded, Teardown, Serving, Failing, ReinitEntry, ChipState, State, Unknown
  <2>4. InvFailed'
    BY <1>12 DEF InvFailed, IInv, TypeOK, InvLicense, InvCall, InvState, ReinitFails, Due, Uploaded, Teardown, Serving, Failing, ReinitEntry, ChipState, State, Unknown
  <2>5. InvState'
    BY <1>12 DEF InvState, IInv, TypeOK, InvLicense, InvCall, InvFailed, ReinitFails, Due, Uploaded, Teardown, Serving, Failing, ReinitEntry, ChipState, State, Unknown
  <2>. QED BY <2>1, <2>2, <2>3, <2>4, <2>5 DEF IInv
<1>13. CASE Snapshot
  <2>1. TypeOK'
    BY <1>13 DEF TypeOK, IInv, InvCall, Serving, Snapshot, Teardown, ReinitEntry, ChipState, State, Unknown
  <2>2. InvLicense'
    BY <1>13 DEF InvLicense, IInv, TypeOK, InvCall, InvFailed, InvState, Snapshot, Teardown, Serving, Failing, ReinitEntry, ChipState, State, Unknown
  <2>3. InvCall'
    BY <1>13 DEF InvCall, IInv, TypeOK, InvLicense, InvFailed, InvState, Snapshot, Teardown, Serving, Failing, ReinitEntry, ChipState, State, Unknown
  <2>4. InvFailed'
    BY <1>13 DEF InvFailed, IInv, TypeOK, InvLicense, InvCall, InvState, Snapshot, Teardown, Serving, Failing, ReinitEntry, ChipState, State, Unknown
  <2>5. InvState'
    BY <1>13 DEF InvState, IInv, TypeOK, InvLicense, InvCall, InvFailed, Snapshot, Teardown, Serving, Failing, ReinitEntry, ChipState, State, Unknown
  <2>. QED BY <2>1, <2>2, <2>3, <2>4, <2>5 DEF IInv
<1>14. CASE SnapshotFails
  <2>1. TypeOK'
    BY <1>14 DEF TypeOK, IInv, InvCall, Serving, SnapshotFails, Teardown, ReinitEntry, ChipState, State, Unknown
  <2>2. InvLicense'
    BY <1>14 DEF InvLicense, IInv, TypeOK, InvCall, InvFailed, InvState, SnapshotFails, Teardown, Serving, Failing, ReinitEntry, ChipState, State, Unknown
  <2>3. InvCall'
    BY <1>14 DEF InvCall, IInv, TypeOK, InvLicense, InvFailed, InvState, SnapshotFails, Teardown, Serving, Failing, ReinitEntry, ChipState, State, Unknown
  <2>4. InvFailed'
    BY <1>14 DEF InvFailed, IInv, TypeOK, InvLicense, InvCall, InvState, SnapshotFails, Teardown, Serving, Failing, ReinitEntry, ChipState, State, Unknown
  <2>5. InvState'
    BY <1>14 DEF InvState, IInv, TypeOK, InvLicense, InvCall, InvFailed, SnapshotFails, Teardown, Serving, Failing, ReinitEntry, ChipState, State, Unknown
  <2>. QED BY <2>1, <2>2, <2>3, <2>4, <2>5 DEF IInv
<1>15. CASE Refuse
  <2>1. TypeOK'
    BY <1>15 DEF TypeOK, IInv, InvCall, Serving, Refuse, ReinitEntry, ChipState, State, Unknown
  <2>2. InvLicense'
    BY <1>15 DEF InvLicense, IInv, TypeOK, InvCall, InvFailed, InvState, Refuse, Serving, Failing, ReinitEntry, ChipState, State, Unknown
  <2>3. InvCall'
    BY <1>15 DEF InvCall, IInv, TypeOK, InvLicense, InvFailed, InvState, Refuse, Serving, Failing, ReinitEntry, ChipState, State, Unknown
  <2>4. InvFailed'
    BY <1>15 DEF InvFailed, IInv, TypeOK, InvLicense, InvCall, InvState, Refuse, Serving, Failing, ReinitEntry, ChipState, State, Unknown
  <2>5. InvState'
    BY <1>15 DEF InvState, IInv, TypeOK, InvLicense, InvCall, InvFailed, Refuse, Serving, Failing, ReinitEntry, ChipState, State, Unknown
  <2>. QED BY <2>1, <2>2, <2>3, <2>4, <2>5 DEF IInv
<1>16. CASE Work
  <2>1. TypeOK'
    <3>1. target \in Session
      BY <1>16 DEF Work, IInv, InvCall, Serving
    <3>2. version' \in [Session -> Nat]
      BY <1>16, <3>1 DEF Work, IInv, TypeOK
    <3>3. expected' \in [Session -> Nat] /\ chip' \in ChipState
      BY <1>16, <3>1, <3>2 DEF Work, IInv, TypeOK, ChipState, State
    <3>4. num_attempts' \in 0 .. m_max_num_connection_attempts /\ call' \in {"idle", "reconnect"}
      BY <1>16 DEF Work, SetupConnection, IInv, TypeOK
    <3>5. m_connection' \in BOOLEAN
      BY <1>16, Zenon DEF Work, SetupConnection, IInv, TypeOK
    <3>6. request' \in [Session -> BOOLEAN]
      BY <1>16, <3>1 DEF Work, IInv, TypeOK
    <3>. QED BY <1>16, <3>2, <3>3, <3>4, <3>5, <3>6 DEF Work, IInv, TypeOK
  <2>2. InvLicense'
    BY <1>16 DEF InvLicense, IInv, TypeOK, InvCall, InvFailed, InvState, Work, SetupConnection, Serving, Failing, ReinitEntry, ChipState, State, Unknown
  <2>3. InvCall'
    BY <1>16 DEF InvCall, IInv, TypeOK, InvLicense, InvFailed, InvState, Work, SetupConnection, Serving, Failing, ReinitEntry, ChipState, State, Unknown
  <2>4. InvFailed'
    BY <1>16 DEF InvFailed, IInv, TypeOK, InvLicense, InvCall, InvState, Work, SetupConnection, Serving, Failing, ReinitEntry, ChipState, State, Unknown
  <2>5. InvState'
    BY <1>16 DEF InvState, IInv, TypeOK, InvLicense, InvCall, InvFailed, Work, SetupConnection, Serving, Failing, ReinitEntry, ChipState, State, Unknown
  <2>. QED BY <2>1, <2>2, <2>3, <2>4, <2>5 DEF IInv
<1>17. CASE Disconnect
  <2>1. TypeOK'
    BY <1>17 DEF TypeOK, IInv, InvCall, Serving, Disconnect, ReinitEntry, ChipState, State, Unknown
  <2>2. InvLicense'
    BY <1>17 DEF InvLicense, IInv, TypeOK, InvCall, InvFailed, InvState, Disconnect, Serving, Failing, ReinitEntry, ChipState, State, Unknown
  <2>3. InvCall'
    BY <1>17 DEF InvCall, IInv, TypeOK, InvLicense, InvFailed, InvState, Disconnect, Serving, Failing, ReinitEntry, ChipState, State, Unknown
  <2>4. InvFailed'
    BY <1>17 DEF InvFailed, IInv, TypeOK, InvLicense, InvCall, InvState, Disconnect, Serving, Failing, ReinitEntry, ChipState, State, Unknown
  <2>5. InvState'
    BY <1>17 DEF InvState, IInv, TypeOK, InvLicense, InvCall, InvFailed, Disconnect, Serving, Failing, ReinitEntry, ChipState, State, Unknown
  <2>. QED BY <2>1, <2>2, <2>3, <2>4, <2>5 DEF IInv
<1>18. CASE Release
  <2>1. TypeOK'
    BY <1>18 DEF TypeOK, IInv, InvCall, Serving, Release, ReinitEntry, ChipState, State, Unknown
  <2>2. InvLicense'
    BY <1>18 DEF InvLicense, IInv, TypeOK, InvCall, InvFailed, InvState, Release, Serving, Failing, ReinitEntry, ChipState, State, Unknown
  <2>3. InvCall'
    BY <1>18 DEF InvCall, IInv, TypeOK, InvLicense, InvFailed, InvState, Release, Serving, Failing, ReinitEntry, ChipState, State, Unknown
  <2>4. InvFailed'
    BY <1>18 DEF InvFailed, IInv, TypeOK, InvLicense, InvCall, InvState, Release, Serving, Failing, ReinitEntry, ChipState, State, Unknown
  <2>5. InvState'
    BY <1>18 DEF InvState, IInv, TypeOK, InvLicense, InvCall, InvFailed, Release, Serving, Failing, ReinitEntry, ChipState, State, Unknown
  <2>. QED BY <2>1, <2>2, <2>3, <2>4, <2>5 DEF IInv
<1>19. CASE UNCHANGED vars
  <2>1. TypeOK'
    BY <1>19 DEF TypeOK, IInv, InvCall, Serving, vars, ReinitEntry, ChipState, State, Unknown
  <2>2. InvLicense'
    BY <1>19 DEF InvLicense, IInv, TypeOK, InvCall, InvFailed, InvState, vars, Serving, Failing, ReinitEntry, ChipState, State, Unknown
  <2>3. InvCall'
    BY <1>19 DEF InvCall, IInv, TypeOK, InvLicense, InvFailed, InvState, vars, Serving, Failing, ReinitEntry, ChipState, State, Unknown
  <2>4. InvFailed'
    BY <1>19 DEF InvFailed, IInv, TypeOK, InvLicense, InvCall, InvState, vars, Serving, Failing, ReinitEntry, ChipState, State, Unknown
  <2>5. InvState'
    BY <1>19 DEF InvState, IInv, TypeOK, InvLicense, InvCall, InvFailed, vars, Serving, Failing, ReinitEntry, ChipState, State, Unknown
  <2>. QED BY <2>1, <2>2, <2>3, <2>4, <2>5 DEF IInv
<1>. QED
  BY <1>1, <1>2, <1>3, <1>4, <1>5, <1>6, <1>7, <1>8, <1>9, <1>10, <1>11, <1>12, <1>13, <1>14, <1>15, <1>16, <1>17, <1>18, <1>19 DEF Next, Worker
(* The inductive invariant holds, if salloc and scancel can be executed.   *)
THEOREM Invariance == ASSUME SlurmInstalled PROVE Spec => []IInv
<1>1. Init => IInv
  BY Initially
<1>2. IInv /\ [Next]_vars => IInv'
  BY Inductive
<1>. QED BY <1>1, <1>2, PTL DEF Spec

(* Every variable keeps its type (quiggeldy_worker.h:288-309).             *)
THEOREM TypeCorrect == ASSUME SlurmInstalled PROVE Spec => []TypeOK
<1>1. IInv => TypeOK
  BY DEF IInv
<1>. QED BY <1>1, Invariance, PTL

(* setup and teardown keep the order of license and connection, whichever  *)
(* call fails.                                                             *)
THEOREM Licensed == ASSUME SlurmInstalled PROVE Spec => []ConnectionIsLicensed
<1>1. IInv => ConnectionIsLicensed
  BY DEF IInv, InvLicense, ConnectionIsLicensed
<1>. QED BY <1>1, Invariance, PTL

(* perform_reinit, perform_reinit_snapshot and work find a connection.     *)
THEOREM Connected == ASSUME SlurmInstalled PROVE Spec => []NoNullConnection
<1>1. IInv => NoNullConnection
  BY DEF IInv, InvCall, InvFailed, NoNullConnection, failed
<1>. QED BY <1>1, Invariance, PTL

(* A failed reinit does not outlive the call of work that it fails.        *)
THEOREM FailsOnce == ASSUME SlurmInstalled PROVE Spec => []FailureIsOneAnswer
<1>1. IInv => FailureIsOneAnswer
  BY DEF IInv, InvFailed, Failing, FailureIsOneAnswer, failed
<1>. QED BY <1>1, Invariance, PTL

(* Work of a session finds the state that the session left or that its     *)
(* reinit program makes, whoever had the board in between and whatever     *)
(* failed.                                                                 *)
THEOREM OwnState == ASSUME SlurmInstalled PROVE Spec => WorksOnOwnState
<1> DEFINE Step == call = "work" /\ version'[target] # version[target] /\ m_allocate_license
                     => chip = State(target, expected[target])
<1>1. IInv /\ [Next]_vars => [Step]_vars
  <2> SUFFICES ASSUME IInv, Next, call = "work", version'[target] # version[target],
                      m_allocate_license
               PROVE  chip = State(target, expected[target])
    BY DEF vars
  <2>1. target \in Session /\ request[target]
    BY DEF IInv, InvCall, Serving
  <2>2. target \notin failed \cup lost
    <3>1. CASE Work
      BY <3>1 DEF Work, failed, lost
    <3>2. CASE \E s \in Session : Set(s)
      BY <2>1, <3>2 DEF Set, IInv, TypeOK
    <3>3. ASSUME ~Work, ~\E s \in Session : Set(s)
          PROVE  version' = version
      BY <3>3 DEF Next, Worker, clients, Submit, Serve, Foreign, GiveUp, Acquire, SallocFails,
                  Connect, ConnectFails, GiveUpConnecting, PerformReinit, ReinitFails, Snapshot,
                  SnapshotFails, Refuse, Disconnect, Release
    <3>. QED BY <3>1, <3>2, <3>3
  <2>3. current = target /\ ~set[target]
    BY <2>2 DEF IInv, InvFailed
  <2>4. chip.owner = target /\ chip.version = expected[target]
    BY <2>1, <2>2, <2>3 DEF IInv, InvState
  <2>. QED BY <2>4 DEF IInv, TypeOK, ChipState, State
<1>. QED BY <1>1, Invariance, PTL DEF Spec, WorksOnOwnState
=============================================================================
