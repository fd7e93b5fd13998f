------------------------ MODULE SessionTeardownProofs ------------------------
(***************************************************************************)
(* SessionTeardown's safety for any number of sessions.  IInv follows each *)
(* session from its create through the registry and the dying set to its   *)
(* end; DInv adds what the shutdown's drain has learnt at each of its      *)
(* steps, which is why a clean report can be trusted.                      *)
(***************************************************************************)
EXTENDS SessionTeardown, TLAPS

\* What a create has done so far: no child before it is spawned, one since, and
\* nothing in the registry before the insert.
Before == {"idle", "entered", "spawning"}
Created ==
    \A s \in Sessions :
        /\ creates[s] \in Before => reader[s] = "none"
        /\ creates[s] \notin Before \cup {"done"} => reader[s] # "none"
        /\ creates[s] \in Before \cup {"spawned", "inserting"} =>
              s \notin registry /\ removals[s] = 0
        /\ creates[s] = "inserting" => owner_lock = s

\* A session without a child is in nobody's hands.
Childless ==
    \A s \in Sessions :
        reader[s] = "none" =>
            /\ s \notin registry \cup dying \cup started \cup drain.live
            /\ \A k \in Closers : closing[k][s] = "none"

\* The write lock is held for a session that is registered.
LockHeld == registry_lock # None => registry_lock \in registry

\* The order in which a shutdown announces, sets its deadline and closes
\* admissions, and who may read that order.
Ordered ==
    /\ drain.pc # "off" => announced
    /\ drain.pc \notin {"off", "announced"} => deadline
    /\ admissions_closed <=> drain.pc \notin {"off", "announced", "bounded"}
    /\ \A s \in Sessions :
          creates[s] \in {"refused_shutdown", "doomed_shutdown"} => admissions_closed

\* What has been deposited stays in the dying set until it has concluded.
Deposited ==
    \A s \in Sessions \ (dying \cup Concluded) :
        /\ creates[s] \notin {"doomed_owner", "doomed_shutdown"}
        /\ \A k \in Closers : closing[k][s] \notin {"deposited", "terminated"}

\* The drain tells to end what it found live.
Listed == drain.pc = "terminate" => drain.todo \subseteq drain.live

\* Who holds on to a session that was told to end.
Tracked ==
    \A s \in started \ Concluded :
        \/ s \in dying
        \/ registry_lock = s
        \/ /\ requested[s] = "shutdown" /\ s \in drain.live
           /\ drain.pc \in {"terminate", "await", "expired"}

\* A concluded session stays registered because its class keeps it, because it
\* was reclassed, or because its create has yet to look.
Retained ==
    \A s \in registry :
        reader[s] \in {"decided", "concluded"} /\ persistence[s] = "exit" =>
            s \in reclassed \/ creates[s] = "inserted"

IInv ==
    /\ TypeOK /\ Created /\ Childless /\ LockHeld /\ Ordered /\ Deposited
    /\ Listed /\ Tracked /\ Retained
    /\ LeavesOnce /\ ReleaseIsSealed /\ ShutdownIsBounded

\* A running child whose create is over, or past its insert, can be found.
Visible ==
    \A s \in Sessions :
        creates[s] \in {"inserted", "done"} /\ reader[s] = "running" =>
            s \in registry \cup dying

\* What the drain has learnt: no insert is under way, then no create at all that
\* may succeed, then nothing registered but what it has seen.
Passed == {"count", "registry", "dying", "terminate", "await", "clean"}
Learnt ==
    /\ drain.pc \in Passed => \A s \in Sessions : creates[s] # "inserting"
    /\ drain.pc \in Passed \ {"count"} /\ ~drain.in_flight =>
          \A s \in Sessions : creates[s] \in {"idle", "entered", "done"}
    /\ drain.pc = "dying" /\ ~drain.in_flight => registry \ Concluded \subseteq drain.live
    /\ drain.pc = "clean" => ~drain.in_flight

DInv == Visible /\ Learnt /\ DrainMissesNothing

-----------------------------------------------------------------------------
(* What taking a session off and telling it to end may change. *)

\* A removal leaves every table with its type.
LEMMA RemoveFacts ==
    ASSUME TypeOK, LeavesOnce, NEW s \in Sessions, Remove(s)
    PROVE  /\ registry' \subseteq Sessions
           /\ tombstones' \in [Sessions -> {None, "closed", "exited"}]
           /\ removals' \in [Sessions -> 0..2]
<1>1. CASE s \in registry
  <2>1. removals[s] = 0
    BY <1>1 DEF TypeOK, LeavesOnce
  <2> QED
    BY <1>1, <2>1 DEF Remove, TypeOK
<1>2. CASE s \notin registry
  BY <1>2 DEF Remove, TypeOK
<1> QED
  BY <1>1, <1>2

\* A termination, heard or not, leaves its records with their types.
LEMMA TerminateFacts ==
    ASSUME TypeOK, NEW s \in Sessions, NEW source \in {"user", "application", "shutdown"},
           Terminate(s, source) \/ TerminateFails(s, source)
    PROVE  /\ started' \subseteq Sessions /\ ladder_failed' \in BOOLEAN
           /\ requested' \in [Sessions -> {None, "user", "application", "shutdown"}]
<1>1. CASE Terminate(s, source)
  BY <1>1 DEF Terminate, TypeOK
<1>2. CASE TerminateFails(s, source)
  BY <1>2 DEF TerminateFails, TypeOK
<1> QED
  BY <1>1, <1>2

-----------------------------------------------------------------------------
(* A create keeps the invariant. *)

LEMMA CreateEnterIInv ==
    ASSUME IInv, NEW s \in Sessions, CreateEnter(s) PROVE IInv'
<1>i. /\ TypeOK /\ Created /\ Childless /\ LockHeld /\ Ordered /\ Deposited /\ Listed
      /\ Tracked /\ Retained /\ LeavesOnce /\ ReleaseIsSealed /\ ShutdownIsBounded
  BY DEF IInv
<1>u. UNCHANGED <<owner_lock, owner_closed, owned, registry, registry_lock, tombstones,
                  removals, reclassed, reader, started, requested, bounded,
                  ladder_failed, views, used, released, closing, dying, announced,
                  deadline, admissions_closed, drain>>
  BY DEF CreateEnter, table, process, use, service
<1>1. TypeOK'
  BY <1>i, <1>u DEF TypeOK, CreateEnter
<1>2. Created'
  BY <1>i, <1>u DEF Created, CreateEnter, Before
<1>3. Ordered'
  BY <1>i, <1>u DEF Ordered, CreateEnter
<1>4. Deposited'
  BY <1>i, <1>u DEF Deposited, CreateEnter, Concluded
<1>5. Retained'
  BY <1>i, <1>u DEF Retained, Created, CreateEnter, Before
<1>6. /\ Childless' /\ LockHeld' /\ Listed' /\ Tracked' /\ LeavesOnce'
      /\ ReleaseIsSealed' /\ ShutdownIsBounded'
  BY <1>i, <1>u
     DEF Childless, LockHeld, Listed, Tracked, LeavesOnce, ReleaseIsSealed,
         ShutdownIsBounded, Concluded
<1> QED
  BY <1>1, <1>2, <1>3, <1>4, <1>5, <1>6 DEF IInv

LEMMA CreateAdmitIInv ==
    ASSUME IInv, NEW s \in Sessions, CreateAdmit(s) PROVE IInv'
<1>i. /\ TypeOK /\ Created /\ Childless /\ LockHeld /\ Ordered /\ Deposited /\ Listed
      /\ Tracked /\ Retained /\ LeavesOnce /\ ReleaseIsSealed /\ ShutdownIsBounded
  BY DEF IInv
<1>u. UNCHANGED <<owner_lock, owner_closed, owned, registry, registry_lock, tombstones,
                  removals, persistence, reclassed, reader, started, requested, bounded,
                  ladder_failed, views, used, released, closing, dying, announced,
                  deadline, admissions_closed, drain>>
  BY DEF CreateAdmit, table, class, process, use, service
<1>1. TypeOK'
  BY <1>i, <1>u DEF TypeOK, CreateAdmit
<1>2. Created'
  BY <1>i, <1>u DEF Created, CreateAdmit, Before
<1>3. Ordered'
  BY <1>i, <1>u DEF Ordered, CreateAdmit
<1>4. Deposited'
  BY <1>i, <1>u DEF Deposited, CreateAdmit, Concluded
<1>5. Retained'
  BY <1>i, <1>u DEF Retained, CreateAdmit
<1>6. /\ Childless' /\ LockHeld' /\ Listed' /\ Tracked' /\ LeavesOnce'
      /\ ReleaseIsSealed' /\ ShutdownIsBounded'
  BY <1>i, <1>u
     DEF Childless, LockHeld, Listed, Tracked, LeavesOnce, ReleaseIsSealed,
         ShutdownIsBounded, Concluded
<1> QED
  BY <1>1, <1>2, <1>3, <1>4, <1>5, <1>6 DEF IInv

LEMMA CreateSpawnIInv ==
    ASSUME IInv, NEW s \in Sessions, CreateSpawn(s) PROVE IInv'
<1>i. /\ TypeOK /\ Created /\ Childless /\ LockHeld /\ Ordered /\ Deposited /\ Listed
      /\ Tracked /\ Retained /\ LeavesOnce /\ ReleaseIsSealed /\ ShutdownIsBounded
  BY DEF IInv
<1>u. UNCHANGED <<owner_lock, owner_closed, owned, registry, registry_lock, tombstones,
                  removals, persistence, reclassed, started, requested, bounded,
                  ladder_failed, views, used, released, closing, dying, announced,
                  deadline, admissions_closed, drain>>
  BY DEF CreateSpawn, table, class, use, service
<1>1. TypeOK'
  BY <1>i, <1>u DEF TypeOK, CreateSpawn
<1>2. Created'
  BY <1>i, <1>u DEF TypeOK, Created, CreateSpawn, Before
<1>3. Childless'
  BY <1>i, <1>u DEF TypeOK, Childless, CreateSpawn
<1>4. Ordered'
  BY <1>i, <1>u DEF TypeOK, Ordered, CreateSpawn
<1>5. Deposited'
  BY <1>i DEF TypeOK, Deposited, Created, CreateSpawn, Concluded, Before
<1>6. Tracked'
  BY <1>i, <1>u DEF TypeOK, Tracked, Created, CreateSpawn, Concluded, Before
<1>7. Retained'
  BY <1>i, <1>u DEF TypeOK, Retained, CreateSpawn
<1>8. LockHeld' /\ Listed' /\ LeavesOnce' /\ ReleaseIsSealed' /\ ShutdownIsBounded'
  BY <1>i, <1>u DEF LockHeld, Listed, LeavesOnce, ReleaseIsSealed, ShutdownIsBounded
<1> QED
  BY <1>1, <1>2, <1>3, <1>4, <1>5, <1>6, <1>7, <1>8 DEF IInv

LEMMA CreateLockIInv ==
    ASSUME IInv, NEW s \in Sessions, CreateLock(s) PROVE IInv'
<1>i. /\ TypeOK /\ Created /\ Childless /\ LockHeld /\ Ordered /\ Deposited /\ Listed
      /\ Tracked /\ Retained /\ LeavesOnce /\ ReleaseIsSealed /\ ShutdownIsBounded
  BY DEF IInv
<1>u. UNCHANGED <<owner_closed, owned, registry, registry_lock, tombstones, removals,
                  persistence, reclassed, reader, started, requested, bounded,
                  ladder_failed, views, used, released, closing, dying, announced,
                  deadline, admissions_closed, drain>>
  BY DEF CreateLock, table, class, process, use, service
<1>1. TypeOK'
  BY <1>i, <1>u DEF TypeOK, CreateLock
<1>2. Created'
  BY <1>i, <1>u, SessionsOK DEF TypeOK, Created, CreateLock, Before
<1>3. Ordered'
  BY <1>i, <1>u DEF TypeOK, Ordered, CreateLock
<1>4. Deposited'
  BY <1>i, <1>u DEF TypeOK, Deposited, CreateLock, Concluded
<1>5. Retained'
  BY <1>i, <1>u DEF TypeOK, Retained, CreateLock
<1>6. /\ Childless' /\ LockHeld' /\ Listed' /\ Tracked' /\ LeavesOnce'
      /\ ReleaseIsSealed' /\ ShutdownIsBounded'
  BY <1>i, <1>u
     DEF Childless, LockHeld, Listed, Tracked, LeavesOnce, ReleaseIsSealed,
         ShutdownIsBounded, Concluded
<1> QED
  BY <1>1, <1>2, <1>3, <1>4, <1>5, <1>6 DEF IInv

LEMMA CreateInsertIInv ==
    ASSUME IInv, NEW s \in Sessions, CreateInsert(s) PROVE IInv'
<1>i. /\ TypeOK /\ Created /\ Childless /\ LockHeld /\ Ordered /\ Deposited /\ Listed
      /\ Tracked /\ Retained /\ LeavesOnce /\ ReleaseIsSealed /\ ShutdownIsBounded
  BY DEF IInv
<1>u. UNCHANGED <<owner_closed, owned, registry_lock, tombstones, removals, persistence,
                  reclassed, reader, started, requested, bounded, ladder_failed, views,
                  used, released, closing, dying, announced, deadline,
                  admissions_closed, drain>>
  BY DEF CreateInsert, class, process, use, service
<1>1. TypeOK'
  BY <1>i, <1>u DEF TypeOK, CreateInsert
<1>2. Created'
  BY <1>i, <1>u DEF TypeOK, Created, CreateInsert, Before
<1>3. Childless'
  BY <1>i, <1>u DEF Childless, Created, CreateInsert, Before
<1>4. LockHeld'
  BY DEF LockHeld, CreateInsert
<1>5. Ordered'
  BY <1>i, <1>u DEF Ordered, CreateInsert
<1>6. Deposited'
  BY <1>i, <1>u DEF Deposited, CreateInsert, Concluded
<1>7. Retained'
  BY <1>i, <1>u DEF TypeOK, Retained, CreateInsert
<1>8. LeavesOnce'
  BY <1>i DEF LeavesOnce, Created, CreateInsert
<1>9. Listed' /\ Tracked' /\ ReleaseIsSealed' /\ ShutdownIsBounded'
  BY <1>i, <1>u DEF Listed, Tracked, ReleaseIsSealed, ShutdownIsBounded, Concluded
<1> QED
  BY <1>1, <1>2, <1>3, <1>4, <1>5, <1>6, <1>7, <1>8, <1>9 DEF IInv

LEMMA CreateRetainIInv ==
    ASSUME IInv, NEW s \in Sessions, CreateRetain(s) PROVE IInv'
<1>i. /\ TypeOK /\ Created /\ Childless /\ LockHeld /\ Ordered /\ Deposited /\ Listed
      /\ Tracked /\ Retained /\ LeavesOnce /\ ReleaseIsSealed /\ ShutdownIsBounded
  BY DEF IInv
<1>u. UNCHANGED <<owner_lock, owner_closed, owned, registry_lock, persistence,
                  reclassed, reader, started, requested, bounded, ladder_failed, views,
                  used, released, closing, dying, announced, deadline,
                  admissions_closed, drain>>
  BY DEF CreateRetain, class, process, use, service
<1>1. TypeOK'
  BY <1>i, <1>u, RemoveFacts DEF TypeOK, CreateRetain
<1>2. Created'
  BY <1>i, <1>u DEF TypeOK, Created, CreateRetain, Remove, Before
<1>3. Childless'
  BY <1>i, <1>u DEF Childless, CreateRetain, Remove
<1>4. LockHeld'
  BY DEF LockHeld, CreateRetain
<1>5. Ordered'
  BY <1>i, <1>u DEF Ordered, CreateRetain
<1>6. Deposited'
  BY <1>i, <1>u DEF Deposited, CreateRetain, Concluded
<1>7. Retained'
  BY <1>i, <1>u DEF Retained, CreateRetain, Remove, HasExited
<1>8. LeavesOnce'
  BY <1>i, SessionsOK DEF TypeOK, LeavesOnce, CreateRetain, Remove
<1>9. Listed' /\ Tracked' /\ ReleaseIsSealed' /\ ShutdownIsBounded'
  BY <1>i, <1>u DEF Listed, Tracked, ReleaseIsSealed, ShutdownIsBounded, Concluded
<1> QED
  BY <1>1, <1>2, <1>3, <1>4, <1>5, <1>6, <1>7, <1>8, <1>9 DEF IInv

LEMMA CreateDepositIInv ==
    ASSUME IInv, NEW s \in Sessions, CreateDeposit(s) PROVE IInv'
<1>i. /\ TypeOK /\ Created /\ Childless /\ LockHeld /\ Ordered /\ Deposited /\ Listed
      /\ Tracked /\ Retained /\ LeavesOnce /\ ReleaseIsSealed /\ ShutdownIsBounded
  BY DEF IInv
<1>u. UNCHANGED <<owner_lock, owner_closed, owned, registry, registry_lock, tombstones,
                  removals, persistence, reclassed, reader, started, requested, bounded,
                  ladder_failed, views, used, released, closing, announced, deadline,
                  admissions_closed, drain>>
  BY DEF CreateDeposit, table, class, process, use, service
<1>1. TypeOK'
  BY <1>i, <1>u DEF TypeOK, CreateDeposit, Deposit
<1>2. Created'
  BY <1>i, <1>u DEF Created, CreateDeposit, Before
<1>3. Childless'
  BY <1>i, <1>u DEF Childless, Created, CreateDeposit, Deposit, Before
<1>4. Ordered'
  BY <1>i, <1>u DEF Ordered, CreateDeposit
<1>5. Deposited'
  BY <1>i, <1>u DEF Deposited, CreateDeposit, Deposit, Concluded
<1>6. Tracked'
  BY <1>i, <1>u DEF Tracked, CreateDeposit, Deposit, Concluded
<1>7. Retained'
  BY <1>i, <1>u DEF Retained, CreateDeposit
<1>8. LockHeld' /\ Listed' /\ LeavesOnce' /\ ReleaseIsSealed' /\ ShutdownIsBounded'
  BY <1>i, <1>u DEF LockHeld, Listed, LeavesOnce, ReleaseIsSealed, ShutdownIsBounded
<1> QED
  BY <1>1, <1>2, <1>3, <1>4, <1>5, <1>6, <1>7, <1>8 DEF IInv

LEMMA CreateRefusedIInv ==
    ASSUME IInv, NEW s \in Sessions, CreateRefused(s) PROVE IInv'
<1>i. /\ TypeOK /\ Created /\ Childless /\ LockHeld /\ Ordered /\ Deposited /\ Listed
      /\ Tracked /\ Retained /\ LeavesOnce /\ ReleaseIsSealed /\ ShutdownIsBounded
  BY DEF IInv
<1>u. UNCHANGED <<owner_lock, owner_closed, owned, registry, registry_lock, tombstones,
                  removals, persistence, reclassed, reader, views, used, released,
                  closing, dying, announced, deadline, admissions_closed, drain>>
  BY DEF CreateRefused, table, class, use, service
<1>1. TypeOK'
  BY <1>i, <1>u, TerminateFacts DEF TypeOK, CreateRefused
<1>2. Created'
  BY <1>i, <1>u DEF Created, CreateRefused, Before
<1>3. Childless'
  BY <1>i, <1>u DEF Childless, Created, CreateRefused, Terminate, TerminateFails, Before
<1>4. Ordered'
  BY <1>i, <1>u DEF Ordered, CreateRefused
<1>5. Deposited'
  BY <1>i DEF Deposited, CreateRefused, Concluded
<1>6. Tracked'
  BY <1>i, <1>u
     DEF TypeOK, Tracked, Deposited, CreateRefused, Terminate, TerminateFails, Concluded
<1>7. Retained'
  BY <1>i, <1>u DEF Retained, CreateRefused
<1>8. ShutdownIsBounded'
  BY <1>i, <1>u
     DEF TypeOK, ShutdownIsBounded, Ordered, CreateRefused, Terminate, TerminateFails
<1>9. LockHeld' /\ Listed' /\ LeavesOnce' /\ ReleaseIsSealed'
  BY <1>i, <1>u DEF LockHeld, Listed, LeavesOnce, ReleaseIsSealed
<1> QED
  BY <1>1, <1>2, <1>3, <1>4, <1>5, <1>6, <1>7, <1>8, <1>9 DEF IInv

-----------------------------------------------------------------------------
(* So do the reader and on_exit, *)

LEMMA ReaderExitIInv ==
    ASSUME IInv, NEW s \in Sessions, ReaderExit(s) PROVE IInv'
<1>i. /\ TypeOK /\ Created /\ Childless /\ LockHeld /\ Ordered /\ Deposited /\ Listed
      /\ Tracked /\ Retained /\ LeavesOnce /\ ReleaseIsSealed /\ ShutdownIsBounded
  BY DEF IInv
<1>u. UNCHANGED <<creates, owner_lock, owner_closed, owned, registry, registry_lock,
                  tombstones, removals, persistence, reclassed, started, requested,
                  bounded, ladder_failed, views, used, released, closing, dying,
                  announced, deadline, admissions_closed, drain>>
  BY DEF ReaderExit, tasks, table, class, use, service
<1>1. TypeOK'
  BY <1>i, <1>u DEF TypeOK, ReaderExit
<1>2. Created'
  BY <1>i, <1>u DEF Created, ReaderExit
<1>3. Childless'
  BY <1>i, <1>u DEF Childless, ReaderExit
<1>4. Deposited'
  BY <1>i, <1>u DEF Deposited, ReaderExit, Concluded
<1>5. Tracked'
  BY <1>i, <1>u DEF Tracked, ReaderExit, Concluded
<1>6. Retained'
  BY <1>i, <1>u DEF Retained, ReaderExit
<1>7. /\ LockHeld' /\ Ordered' /\ Listed' /\ LeavesOnce' /\ ReleaseIsSealed'
      /\ ShutdownIsBounded'
  BY <1>i, <1>u
     DEF LockHeld, Ordered, Listed, LeavesOnce, ReleaseIsSealed, ShutdownIsBounded
<1> QED
  BY <1>1, <1>2, <1>3, <1>4, <1>5, <1>6, <1>7 DEF IInv

LEMMA OnExitIInv ==
    ASSUME IInv, NEW s \in Sessions, OnExit(s) PROVE IInv'
<1>i. /\ TypeOK /\ Created /\ Childless /\ LockHeld /\ Ordered /\ Deposited /\ Listed
      /\ Tracked /\ Retained /\ LeavesOnce /\ ReleaseIsSealed /\ ShutdownIsBounded
  BY DEF IInv
<1>u. UNCHANGED <<creates, owner_lock, owner_closed, owned, registry_lock, persistence,
                  reclassed, started, requested, bounded, ladder_failed, views, used,
                  released, closing, dying, announced, deadline, admissions_closed,
                  drain>>
  BY DEF OnExit, tasks, class, use, service
<1>1. TypeOK'
  BY <1>i, <1>u, RemoveFacts DEF TypeOK, OnExit
<1>2. Created'
  BY <1>i, <1>u DEF TypeOK, Created, OnExit, Remove
<1>3. Childless'
  BY <1>i, <1>u DEF Childless, OnExit, Remove
<1>4. LockHeld'
  BY DEF LockHeld, OnExit
<1>5. Deposited'
  BY <1>i, <1>u DEF Deposited, OnExit, Concluded
<1>6. Tracked'
  BY <1>i, <1>u DEF Tracked, OnExit, Concluded
<1>7. Retained'
  BY <1>i, <1>u DEF Retained, OnExit, Remove
<1>8. LeavesOnce'
  BY <1>i, SessionsOK DEF TypeOK, LeavesOnce, OnExit, Remove
<1>9. Ordered' /\ Listed' /\ ReleaseIsSealed' /\ ShutdownIsBounded'
  BY <1>i, <1>u DEF Ordered, Listed, ReleaseIsSealed, ShutdownIsBounded
<1> QED
  BY <1>1, <1>2, <1>3, <1>4, <1>5, <1>6, <1>7, <1>8, <1>9 DEF IInv

LEMMA ReaderConcludeIInv ==
    ASSUME IInv, NEW s \in Sessions, ReaderConclude(s) PROVE IInv'
<1>i. /\ TypeOK /\ Created /\ Childless /\ LockHeld /\ Ordered /\ Deposited /\ Listed
      /\ Tracked /\ Retained /\ LeavesOnce /\ ReleaseIsSealed /\ ShutdownIsBounded
  BY DEF IInv
<1>u. UNCHANGED <<creates, owner_lock, owner_closed, owned, registry, registry_lock,
                  tombstones, removals, persistence, reclassed, started, requested,
                  bounded, ladder_failed, views, used, released, closing, dying,
                  announced, deadline, admissions_closed, drain>>
  BY DEF ReaderConclude, tasks, table, class, use, service
<1>1. TypeOK'
  BY <1>i, <1>u DEF TypeOK, ReaderConclude
<1>2. Created'
  BY <1>i, <1>u DEF Created, ReaderConclude
<1>3. Childless'
  BY <1>i, <1>u DEF Childless, ReaderConclude
<1>4. Deposited'
  BY <1>i, <1>u DEF Deposited, ReaderConclude, Concluded
<1>5. Tracked'
  BY <1>i, <1>u DEF Tracked, ReaderConclude, Concluded
<1>6. Retained'
  BY <1>i, <1>u DEF Retained, ReaderConclude
<1>7. /\ LockHeld' /\ Ordered' /\ Listed' /\ LeavesOnce' /\ ReleaseIsSealed'
      /\ ShutdownIsBounded'
  BY <1>i, <1>u
     DEF LockHeld, Ordered, Listed, LeavesOnce, ReleaseIsSealed, ShutdownIsBounded
<1> QED
  BY <1>1, <1>2, <1>3, <1>4, <1>5, <1>6, <1>7 DEF IInv

-----------------------------------------------------------------------------
(* the calls of the clients, *)

LEMMA AttachIInv ==
    ASSUME IInv, NEW s \in Sessions, Attach(s) PROVE IInv'
<1>i. /\ TypeOK /\ Created /\ Childless /\ LockHeld /\ Ordered /\ Deposited /\ Listed
      /\ Tracked /\ Retained /\ LeavesOnce /\ ReleaseIsSealed /\ ShutdownIsBounded
  BY DEF IInv
<1>u. UNCHANGED <<creates, owner_lock, owner_closed, owned, registry, registry_lock,
                  tombstones, removals, persistence, reclassed, reader, started,
                  requested, bounded, ladder_failed, used, released, closing, dying,
                  announced, deadline, admissions_closed, drain>>
  BY DEF Attach, tasks, table, class, process, service
<1>1. TypeOK'
  BY <1>i, <1>u DEF TypeOK, Attach
<1>2. ReleaseIsSealed'
  BY <1>i DEF ReleaseIsSealed, Attach
<1>3. /\ Created' /\ Childless' /\ LockHeld' /\ Ordered' /\ Deposited' /\ Listed'
      /\ Tracked' /\ Retained' /\ LeavesOnce' /\ ShutdownIsBounded'
  BY <1>i, <1>u
     DEF Created, Childless, LockHeld, Ordered, Deposited, Listed, Tracked, Retained,
         LeavesOnce, ShutdownIsBounded, Concluded
<1> QED
  BY <1>1, <1>2, <1>3 DEF IInv

LEMMA DetachIInv ==
    ASSUME IInv, NEW s \in Sessions, Detach(s) PROVE IInv'
<1>i. /\ TypeOK /\ Created /\ Childless /\ LockHeld /\ Ordered /\ Deposited /\ Listed
      /\ Tracked /\ Retained /\ LeavesOnce /\ ReleaseIsSealed /\ ShutdownIsBounded
  BY DEF IInv
<1>u. UNCHANGED <<creates, owner_lock, owner_closed, owned, registry, registry_lock,
                  tombstones, removals, persistence, reclassed, reader, started,
                  requested, bounded, ladder_failed, used, released, closing, dying,
                  announced, deadline, admissions_closed, drain>>
  BY DEF Detach, tasks, table, class, process, service
<1>1. TypeOK'
  BY <1>i, <1>u DEF TypeOK, Detach
<1>2. ReleaseIsSealed'
  BY <1>i DEF ReleaseIsSealed, Detach
<1>3. /\ Created' /\ Childless' /\ LockHeld' /\ Ordered' /\ Deposited' /\ Listed'
      /\ Tracked' /\ Retained' /\ LeavesOnce' /\ ShutdownIsBounded'
  BY <1>i, <1>u
     DEF Created, Childless, LockHeld, Ordered, Deposited, Listed, Tracked, Retained,
         LeavesOnce, ShutdownIsBounded, Concluded
<1> QED
  BY <1>1, <1>2, <1>3 DEF IInv

LEMMA InputIInv ==
    ASSUME IInv, NEW s \in Sessions, Input(s) PROVE IInv'
<1>i. /\ TypeOK /\ Created /\ Childless /\ LockHeld /\ Ordered /\ Deposited /\ Listed
      /\ Tracked /\ Retained /\ LeavesOnce /\ ReleaseIsSealed /\ ShutdownIsBounded
  BY DEF IInv
<1>u. UNCHANGED <<creates, owner_lock, owner_closed, owned, registry, registry_lock,
                  tombstones, removals, persistence, reclassed, reader, started,
                  requested, bounded, ladder_failed, views, released, closing, dying,
                  announced, deadline, admissions_closed, drain>>
  BY DEF Input, tasks, table, class, process, service
<1>1. TypeOK'
  BY <1>i, <1>u DEF TypeOK, Input
<1>2. ReleaseIsSealed'
  BY <1>i, SessionsOK DEF ReleaseIsSealed, Input
<1>3. /\ Created' /\ Childless' /\ LockHeld' /\ Ordered' /\ Deposited' /\ Listed'
      /\ Tracked' /\ Retained' /\ LeavesOnce' /\ ShutdownIsBounded'
  BY <1>i, <1>u
     DEF Created, Childless, LockHeld, Ordered, Deposited, Listed, Tracked, Retained,
         LeavesOnce, ShutdownIsBounded, Concluded
<1> QED
  BY <1>1, <1>2, <1>3 DEF IInv

LEMMA SetPersistenceIInv ==
    ASSUME IInv, NEW s \in Sessions, SetPersistence(s) PROVE IInv'
<1>i. /\ TypeOK /\ Created /\ Childless /\ LockHeld /\ Ordered /\ Deposited /\ Listed
      /\ Tracked /\ Retained /\ LeavesOnce /\ ReleaseIsSealed /\ ShutdownIsBounded
  BY DEF IInv
<1>u. UNCHANGED <<creates, owner_lock, owner_closed, owned, registry, registry_lock,
                  tombstones, removals, reader, started, requested, bounded,
                  ladder_failed, views, used, released, closing, dying, announced,
                  deadline, admissions_closed, drain>>
  BY DEF SetPersistence, tasks, table, process, use, service
<1>1. TypeOK'
  BY <1>i, <1>u DEF TypeOK, SetPersistence
<1>2. Retained'
  BY <1>i, <1>u DEF Retained, SetPersistence
<1>3. /\ Created' /\ Childless' /\ LockHeld' /\ Ordered' /\ Deposited' /\ Listed'
      /\ Tracked' /\ LeavesOnce' /\ ReleaseIsSealed' /\ ShutdownIsBounded'
  BY <1>i, <1>u
     DEF Created, Childless, LockHeld, Ordered, Deposited, Listed, Tracked, LeavesOnce,
         ReleaseIsSealed, ShutdownIsBounded, Concluded
<1> QED
  BY <1>1, <1>2, <1>3 DEF IInv

LEMMA TerminateFoundIInv ==
    ASSUME IInv, NEW s \in Sessions, TerminateFound(s) PROVE IInv'
<1>i. /\ TypeOK /\ Created /\ Childless /\ LockHeld /\ Ordered /\ Deposited /\ Listed
      /\ Tracked /\ Retained /\ LeavesOnce /\ ReleaseIsSealed /\ ShutdownIsBounded
  BY DEF IInv
<1>u. UNCHANGED <<creates, owner_lock, owner_closed, owned, registry, registry_lock,
                  tombstones, removals, persistence, reclassed, reader, started,
                  requested, bounded, ladder_failed, used, released, dying, announced,
                  deadline, admissions_closed, drain>>
  BY DEF TerminateFound, tasks, table, class, process, service
<1>1. TypeOK'
  <2>1. closing' \in
          [Closers -> [Sessions -> {"none", "found", "deposited", "terminated"}]]
    BY <1>i DEF TypeOK, TerminateFound, Closers
  <2>2. views' \subseteq Sessions
    BY <1>i DEF TypeOK, TerminateFound
  <2> QED
    BY <1>i, <1>u, <2>1, <2>2 DEF TypeOK
<1>2. Childless'
  BY <1>i, <1>u DEF Childless, TerminateFound
<1>3. Deposited'
  BY <1>i, <1>u DEF Deposited, TerminateFound, Concluded
<1>4. ReleaseIsSealed'
  BY <1>i DEF ReleaseIsSealed, TerminateFound
<1>5. /\ Created' /\ LockHeld' /\ Ordered' /\ Listed' /\ Tracked' /\ Retained'
      /\ LeavesOnce' /\ ShutdownIsBounded'
  BY <1>i, <1>u
     DEF Created, LockHeld, Ordered, Listed, Tracked, Retained, LeavesOnce,
         ShutdownIsBounded, Concluded
<1> QED
  BY <1>1, <1>2, <1>3, <1>4, <1>5 DEF IInv

-----------------------------------------------------------------------------
(* the closes and the two halves of a release, *)

LEMMA CloseOwnerIInv ==
    ASSUME IInv, CloseOwner PROVE IInv'
<1>i. /\ TypeOK /\ Created /\ Childless /\ LockHeld /\ Ordered /\ Deposited /\ Listed
      /\ Tracked /\ Retained /\ LeavesOnce /\ ReleaseIsSealed /\ ShutdownIsBounded
  BY DEF IInv
<1>u. UNCHANGED <<creates, owner_lock, registry, registry_lock, tombstones, removals,
                  persistence, reclassed, reader, started, requested, bounded,
                  ladder_failed, views, used, released, dying, announced, deadline,
                  admissions_closed, drain>>
  BY DEF CloseOwner, table, class, process, use, service
<1>1. TypeOK'
  <2>1. PICK moved \in SUBSET (registry \cap owned) :
          /\ owned' = owned \ moved
          /\ closing' = [closing EXCEPT !["owner"] =
                          [s \in Sessions |-> IF s \in (registry \cap owned) \ moved
                                              THEN "found" ELSE "none"]]
    BY DEF CloseOwner
  <2>2. [s \in Sessions |-> IF s \in (registry \cap owned) \ moved
                            THEN "found" ELSE "none"]
           \in [Sessions -> {"none", "found", "deposited", "terminated"}]
    OBVIOUS
  <2>3. closing' \in
          [Closers -> [Sessions -> {"none", "found", "deposited", "terminated"}]]
    BY <1>i, <2>1, <2>2 DEF TypeOK
  <2>4. owned' \subseteq Owned /\ owner_closed' \in BOOLEAN
    BY <1>i, <2>1 DEF TypeOK, CloseOwner
  <2> QED
    BY <1>i, <1>u, <2>3, <2>4 DEF TypeOK
<1>2. Childless'
  BY <1>i, <1>u DEF Childless, CloseOwner
<1>3. Deposited'
  BY <1>i, <1>u DEF Deposited, CloseOwner, Concluded
<1>4. /\ Created' /\ LockHeld' /\ Ordered' /\ Listed' /\ Tracked' /\ Retained'
      /\ LeavesOnce' /\ ReleaseIsSealed' /\ ShutdownIsBounded'
  BY <1>i, <1>u
     DEF Created, LockHeld, Ordered, Listed, Tracked, Retained, LeavesOnce,
         ReleaseIsSealed, ShutdownIsBounded, Concluded
<1> QED
  BY <1>1, <1>2, <1>3, <1>4 DEF IInv

LEMMA CloseDepositIInv ==
    ASSUME IInv, NEW k \in Closers, NEW s \in Sessions, CloseDeposit(k, s) PROVE IInv'
<1>i. /\ TypeOK /\ Created /\ Childless /\ LockHeld /\ Ordered /\ Deposited /\ Listed
      /\ Tracked /\ Retained /\ LeavesOnce /\ ReleaseIsSealed /\ ShutdownIsBounded
  BY DEF IInv
<1>u. UNCHANGED <<creates, owner_lock, owner_closed, owned, registry, registry_lock,
                  tombstones, removals, persistence, reclassed, reader, started,
                  requested, bounded, ladder_failed, views, used, released, announced,
                  deadline, admissions_closed, drain>>
  BY DEF CloseDeposit, tasks, table, class, process, use, service
<1>1. TypeOK'
  BY <1>i, <1>u DEF TypeOK, CloseDeposit, Deposit
<1>2. Childless'
  BY <1>i, <1>u DEF Childless, CloseDeposit, Deposit
<1>3. Deposited'
  BY <1>i, <1>u DEF Deposited, CloseDeposit, Deposit, Concluded
<1>4. Tracked'
  BY <1>i, <1>u DEF Tracked, CloseDeposit, Deposit, Concluded
<1>5. /\ Created' /\ LockHeld' /\ Ordered' /\ Listed' /\ Retained' /\ LeavesOnce'
      /\ ReleaseIsSealed' /\ ShutdownIsBounded'
  BY <1>i, <1>u
     DEF Created, LockHeld, Ordered, Listed, Retained, LeavesOnce, ReleaseIsSealed,
         ShutdownIsBounded
<1> QED
  BY <1>1, <1>2, <1>3, <1>4, <1>5 DEF IInv

LEMMA CloseLadderIInv ==
    ASSUME IInv, NEW k \in Closers, NEW s \in Sessions, CloseLadder(k, s) PROVE IInv'
<1>i. /\ TypeOK /\ Created /\ Childless /\ LockHeld /\ Ordered /\ Deposited /\ Listed
      /\ Tracked /\ Retained /\ LeavesOnce /\ ReleaseIsSealed /\ ShutdownIsBounded
  BY DEF IInv
<1>u. UNCHANGED <<creates, owner_lock, owner_closed, owned, registry, registry_lock,
                  tombstones, removals, persistence, reclassed, reader, bounded, views,
                  used, released, dying, announced, deadline, admissions_closed, drain>>
  BY DEF CloseLadder, tasks, table, class, use, service
<1>1. TypeOK'
  BY <1>i, <1>u, TerminateFacts DEF TypeOK, CloseLadder
<1>2. Childless'
  BY <1>i, <1>u DEF TypeOK, Childless, CloseLadder, Terminate, TerminateFails
<1>3. Deposited'
  BY <1>i, <1>u DEF TypeOK, Deposited, CloseLadder, Concluded
<1>4. Tracked'
  BY <1>i, <1>u
     DEF TypeOK, Tracked, Deposited, CloseLadder, Terminate, TerminateFails, Concluded
<1>5. ShutdownIsBounded'
  BY <1>i, <1>u DEF TypeOK, ShutdownIsBounded, CloseLadder, Terminate, TerminateFails
<1>6. /\ Created' /\ LockHeld' /\ Ordered' /\ Listed' /\ Retained' /\ LeavesOnce'
      /\ ReleaseIsSealed'
  BY <1>i, <1>u
     DEF Created, LockHeld, Ordered, Listed, Retained, LeavesOnce, ReleaseIsSealed
<1> QED
  BY <1>1, <1>2, <1>3, <1>4, <1>5, <1>6 DEF IInv

LEMMA CloseRemoveIInv ==
    ASSUME IInv, NEW k \in Closers, NEW s \in Sessions, CloseRemove(k, s) PROVE IInv'
<1>i. /\ TypeOK /\ Created /\ Childless /\ LockHeld /\ Ordered /\ Deposited /\ Listed
      /\ Tracked /\ Retained /\ LeavesOnce /\ ReleaseIsSealed /\ ShutdownIsBounded
  BY DEF IInv
<1>u. UNCHANGED <<creates, owner_lock, owner_closed, owned, registry_lock, persistence,
                  reclassed, reader, started, requested, bounded, ladder_failed, views,
                  used, released, dying, announced, deadline, admissions_closed, drain>>
  BY DEF CloseRemove, tasks, class, process, use, service
<1>1. TypeOK'
  BY <1>i, <1>u, RemoveFacts DEF TypeOK, CloseRemove
<1>2. Created'
  BY <1>i, <1>u DEF TypeOK, Created, CloseRemove, Remove
<1>3. Childless'
  BY <1>i, <1>u DEF Childless, CloseRemove, Remove
<1>4. LockHeld'
  BY DEF LockHeld, CloseRemove
<1>5. Deposited'
  BY <1>i, <1>u DEF Deposited, CloseRemove, Concluded
<1>6. Retained'
  BY <1>i, <1>u DEF Retained, CloseRemove, Remove
<1>7. LeavesOnce'
  BY <1>i, SessionsOK DEF TypeOK, LeavesOnce, CloseRemove, Remove
<1>8. Ordered' /\ Listed' /\ Tracked' /\ ReleaseIsSealed' /\ ShutdownIsBounded'
  BY <1>i, <1>u
     DEF Ordered, Listed, Tracked, ReleaseIsSealed, ShutdownIsBounded, Concluded
<1> QED
  BY <1>1, <1>2, <1>3, <1>4, <1>5, <1>6, <1>7, <1>8 DEF IInv

LEMMA ReleaseSealIInv ==
    ASSUME IInv, NEW s \in Sessions, NEW condition \in {"unused", "exited"},
           ReleaseSeal(s, condition)
    PROVE  IInv'
<1>i. /\ TypeOK /\ Created /\ Childless /\ LockHeld /\ Ordered /\ Deposited /\ Listed
      /\ Tracked /\ Retained /\ LeavesOnce /\ ReleaseIsSealed /\ ShutdownIsBounded
  BY DEF IInv
<1>u. UNCHANGED <<creates, owner_lock, owner_closed, owned, registry, tombstones,
                  removals, persistence, reclassed, reader, bounded, views, used,
                  closing, dying, announced, deadline, admissions_closed, drain>>
  BY DEF ReleaseSeal, tasks, class, service
<1>1. TypeOK'
  BY <1>i, <1>u, TerminateFacts DEF TypeOK, ReleaseSeal
<1>2. Childless'
  BY <1>i, <1>u DEF Childless, ReleaseSeal, Terminate, TerminateFails
<1>3. LockHeld'
  BY DEF LockHeld, ReleaseSeal
<1>4. Tracked'
  BY <1>i, <1>u, SessionsOK
     DEF TypeOK, Tracked, ReleaseSeal, Terminate, TerminateFails, Concluded
<1>5. ReleaseIsSealed'
  BY <1>i DEF TypeOK, ReleaseIsSealed, ReleaseSeal, Releasable
<1>6. ShutdownIsBounded'
  BY <1>i, <1>u DEF TypeOK, ShutdownIsBounded, ReleaseSeal, Terminate, TerminateFails
<1>7. Created' /\ Ordered' /\ Deposited' /\ Listed' /\ Retained' /\ LeavesOnce'
  BY <1>i, <1>u DEF Created, Ordered, Deposited, Listed, Retained, LeavesOnce, Concluded
<1> QED
  BY <1>1, <1>2, <1>3, <1>4, <1>5, <1>6, <1>7 DEF IInv

LEMMA ReleaseRemoveIInv ==
    ASSUME IInv, NEW s \in Sessions, ReleaseRemove(s) PROVE IInv'
<1>i. /\ TypeOK /\ Created /\ Childless /\ LockHeld /\ Ordered /\ Deposited /\ Listed
      /\ Tracked /\ Retained /\ LeavesOnce /\ ReleaseIsSealed /\ ShutdownIsBounded
  BY DEF IInv
<1>u. UNCHANGED <<creates, owner_lock, owner_closed, owned, persistence, reclassed,
                  reader, started, requested, bounded, ladder_failed, views, used,
                  released, closing, announced, deadline, admissions_closed, drain>>
  BY DEF ReleaseRemove, tasks, class, process, use, service
<1>1. TypeOK'
  BY <1>i, <1>u, RemoveFacts DEF TypeOK, ReleaseRemove, Deposit
<1>2. Created'
  BY <1>i, <1>u DEF TypeOK, Created, ReleaseRemove, Remove
<1>3. Childless'
  <2>1. s \in registry /\ reader[s] # "none"
    BY <1>i, SessionsOK DEF LockHeld, ReleaseRemove, Childless
  <2>2. registry' \subseteq registry
    BY DEF ReleaseRemove, Remove
  <2>3. dying' \subseteq dying \cup {s}
    BY DEF ReleaseRemove, Deposit
  <2> QED
    BY <1>i, <1>u, <2>1, <2>2, <2>3 DEF Childless
<1>4. LockHeld'
  BY DEF LockHeld, ReleaseRemove
<1>5. Deposited'
  BY <1>i, <1>u DEF Deposited, ReleaseRemove, Deposit, Concluded
<1>6. Tracked'
  BY <1>i, <1>u DEF Tracked, ReleaseRemove, Deposit, Concluded
<1>7. Retained'
  BY <1>i, <1>u DEF Retained, ReleaseRemove, Remove
<1>8. LeavesOnce'
  BY <1>i, SessionsOK DEF TypeOK, LeavesOnce, ReleaseRemove, Remove
<1>9. Ordered' /\ Listed' /\ ReleaseIsSealed' /\ ShutdownIsBounded'
  BY <1>i, <1>u DEF Ordered, Listed, ReleaseIsSealed, ShutdownIsBounded
<1> QED
  BY <1>1, <1>2, <1>3, <1>4, <1>5, <1>6, <1>7, <1>8, <1>9 DEF IInv

-----------------------------------------------------------------------------
(* and the drain. *)

LEMMA DrainAnnounceIInv ==
    ASSUME IInv, DrainAnnounce PROVE IInv'
<1>i. /\ TypeOK /\ Created /\ Childless /\ LockHeld /\ Ordered /\ Deposited /\ Listed
      /\ Tracked /\ Retained /\ LeavesOnce /\ ReleaseIsSealed /\ ShutdownIsBounded
  BY DEF IInv
<1>u. UNCHANGED <<creates, owner_lock, owner_closed, owned, registry, registry_lock,
                  tombstones, removals, persistence, reclassed, reader, started,
                  requested, bounded, ladder_failed, views, used, released, closing,
                  dying, deadline, admissions_closed>>
  BY DEF DrainAnnounce, tasks, table, class, process, use
<1>1. TypeOK'
  BY <1>i, <1>u DEF TypeOK, DrainAnnounce
<1>2. Childless'
  BY <1>i, <1>u DEF Childless, DrainAnnounce
<1>3. Ordered'
  BY <1>i, <1>u DEF Ordered, DrainAnnounce
<1>4. Listed'
  BY DEF Listed, DrainAnnounce
<1>5. Tracked'
  BY <1>i, <1>u DEF Tracked, DrainAnnounce, Concluded
<1>6. ShutdownIsBounded'
  BY <1>i, <1>u DEF ShutdownIsBounded, DrainAnnounce
<1>7. /\ Created' /\ LockHeld' /\ Deposited' /\ Retained' /\ LeavesOnce'
      /\ ReleaseIsSealed'
  BY <1>i, <1>u
     DEF Created, LockHeld, Deposited, Retained, LeavesOnce, ReleaseIsSealed, Concluded
<1> QED
  BY <1>1, <1>2, <1>3, <1>4, <1>5, <1>6, <1>7 DEF IInv

LEMMA DrainPublishIInv ==
    ASSUME IInv, DrainPublish PROVE IInv'
<1>i. /\ TypeOK /\ Created /\ Childless /\ LockHeld /\ Ordered /\ Deposited /\ Listed
      /\ Tracked /\ Retained /\ LeavesOnce /\ ReleaseIsSealed /\ ShutdownIsBounded
  BY DEF IInv
<1>u. UNCHANGED <<creates, owner_lock, owner_closed, owned, registry, registry_lock,
                  tombstones, removals, persistence, reclassed, reader, started,
                  requested, bounded, ladder_failed, views, used, released, closing,
                  dying, announced, admissions_closed>>
  BY DEF DrainPublish, tasks, table, class, process, use
<1>1. TypeOK'
  BY <1>i, <1>u DEF TypeOK, DrainPublish
<1>2. Childless'
  BY <1>i, <1>u DEF Childless, DrainPublish
<1>3. Ordered'
  BY <1>i, <1>u DEF Ordered, DrainPublish
<1>4. Listed'
  BY DEF Listed, DrainPublish
<1>5. Tracked'
  BY <1>i, <1>u DEF Tracked, DrainPublish, Concluded
<1>6. /\ Created' /\ LockHeld' /\ Deposited' /\ Retained' /\ LeavesOnce'
      /\ ReleaseIsSealed' /\ ShutdownIsBounded'
  BY <1>i, <1>u
     DEF Created, LockHeld, Deposited, Retained, LeavesOnce, ReleaseIsSealed,
         ShutdownIsBounded, Concluded
<1> QED
  BY <1>1, <1>2, <1>3, <1>4, <1>5, <1>6 DEF IInv

LEMMA DrainCloseAdmissionsIInv ==
    ASSUME IInv, DrainCloseAdmissions PROVE IInv'
<1>i. /\ TypeOK /\ Created /\ Childless /\ LockHeld /\ Ordered /\ Deposited /\ Listed
      /\ Tracked /\ Retained /\ LeavesOnce /\ ReleaseIsSealed /\ ShutdownIsBounded
  BY DEF IInv
<1>u. UNCHANGED <<creates, owner_lock, owner_closed, owned, registry, registry_lock,
                  tombstones, removals, persistence, reclassed, reader, started,
                  requested, bounded, ladder_failed, views, used, released, closing,
                  dying, announced, deadline>>
  BY DEF DrainCloseAdmissions, tasks, table, class, process, use
<1>1. TypeOK'
  BY <1>i, <1>u DEF TypeOK, DrainCloseAdmissions
<1>2. Childless'
  BY <1>i, <1>u DEF Childless, DrainCloseAdmissions
<1>3. Ordered'
  BY <1>i DEF Ordered, DrainCloseAdmissions
<1>4. Listed'
  BY DEF Listed, DrainCloseAdmissions
<1>5. Tracked'
  BY <1>i, <1>u DEF Tracked, DrainCloseAdmissions, Concluded
<1>6. /\ Created' /\ LockHeld' /\ Deposited' /\ Retained' /\ LeavesOnce'
      /\ ReleaseIsSealed' /\ ShutdownIsBounded'
  BY <1>i, <1>u
     DEF Created, LockHeld, Deposited, Retained, LeavesOnce, ReleaseIsSealed,
         ShutdownIsBounded, Concluded
<1> QED
  BY <1>1, <1>2, <1>3, <1>4, <1>5, <1>6 DEF IInv

LEMMA DrainBarrierIInv ==
    ASSUME IInv, DrainBarrier PROVE IInv'
<1>i. /\ TypeOK /\ Created /\ Childless /\ LockHeld /\ Ordered /\ Deposited /\ Listed
      /\ Tracked /\ Retained /\ LeavesOnce /\ ReleaseIsSealed /\ ShutdownIsBounded
  BY DEF IInv
<1>u. UNCHANGED <<creates, owner_lock, owner_closed, owned, registry, registry_lock,
                  tombstones, removals, persistence, reclassed, reader, started,
                  requested, bounded, ladder_failed, views, used, released, closing,
                  dying, announced, deadline, admissions_closed>>
  BY DEF DrainBarrier, tasks, table, class, process, use
<1>1. TypeOK'
  BY <1>i, <1>u DEF TypeOK, DrainBarrier
<1>2. Childless'
  BY <1>i, <1>u DEF Childless, DrainBarrier
<1>3. Ordered'
  BY <1>i DEF Ordered, DrainBarrier
<1>4. Listed'
  BY DEF Listed, DrainBarrier
<1>5. Tracked'
  BY <1>i, <1>u DEF Tracked, DrainBarrier, Concluded
<1>6. /\ Created' /\ LockHeld' /\ Deposited' /\ Retained' /\ LeavesOnce'
      /\ ReleaseIsSealed' /\ ShutdownIsBounded'
  BY <1>i, <1>u
     DEF Created, LockHeld, Deposited, Retained, LeavesOnce, ReleaseIsSealed,
         ShutdownIsBounded, Concluded
<1> QED
  BY <1>1, <1>2, <1>3, <1>4, <1>5, <1>6 DEF IInv

LEMMA DrainCountIInv ==
    ASSUME IInv, DrainCount PROVE IInv'
<1>i. /\ TypeOK /\ Created /\ Childless /\ LockHeld /\ Ordered /\ Deposited /\ Listed
      /\ Tracked /\ Retained /\ LeavesOnce /\ ReleaseIsSealed /\ ShutdownIsBounded
  BY DEF IInv
<1>u. UNCHANGED <<creates, owner_lock, owner_closed, owned, registry, registry_lock,
                  tombstones, removals, persistence, reclassed, reader, started,
                  requested, bounded, ladder_failed, views, used, released, closing,
                  dying, announced, deadline, admissions_closed>>
  BY DEF DrainCount, tasks, table, class, process, use
<1>1. TypeOK'
  BY <1>i, <1>u DEF TypeOK, DrainCount
<1>2. Childless'
  BY <1>i, <1>u DEF Childless, DrainCount
<1>3. Ordered'
  BY <1>i DEF Ordered, DrainCount
<1>4. Listed'
  BY DEF Listed, DrainCount
<1>5. Tracked'
  BY <1>i, <1>u DEF Tracked, DrainCount, Concluded
<1>6. /\ Created' /\ LockHeld' /\ Deposited' /\ Retained' /\ LeavesOnce'
      /\ ReleaseIsSealed' /\ ShutdownIsBounded'
  BY <1>i, <1>u
     DEF Created, LockHeld, Deposited, Retained, LeavesOnce, ReleaseIsSealed,
         ShutdownIsBounded, Concluded
<1> QED
  BY <1>1, <1>2, <1>3, <1>4, <1>5, <1>6 DEF IInv

LEMMA DrainRegistryIInv ==
    ASSUME IInv, DrainRegistry PROVE IInv'
<1>i. /\ TypeOK /\ Created /\ Childless /\ LockHeld /\ Ordered /\ Deposited /\ Listed
      /\ Tracked /\ Retained /\ LeavesOnce /\ ReleaseIsSealed /\ ShutdownIsBounded
  BY DEF IInv
<1>u. UNCHANGED <<creates, owner_lock, owner_closed, owned, registry, registry_lock,
                  tombstones, removals, persistence, reclassed, reader, started,
                  requested, bounded, ladder_failed, views, used, released, closing,
                  dying, announced, deadline, admissions_closed>>
  BY DEF DrainRegistry, tasks, table, class, process, use
<1>1. TypeOK'
  BY <1>i, <1>u DEF TypeOK, DrainRegistry
<1>2. Childless'
  BY <1>i, <1>u DEF Childless, DrainRegistry
<1>3. Ordered'
  BY <1>i DEF Ordered, DrainRegistry
<1>4. Listed'
  BY DEF Listed, DrainRegistry
<1>5. Tracked'
  BY <1>i, <1>u DEF Tracked, DrainRegistry, Concluded
<1>6. /\ Created' /\ LockHeld' /\ Deposited' /\ Retained' /\ LeavesOnce'
      /\ ReleaseIsSealed' /\ ShutdownIsBounded'
  BY <1>i, <1>u
     DEF Created, LockHeld, Deposited, Retained, LeavesOnce, ReleaseIsSealed,
         ShutdownIsBounded, Concluded
<1> QED
  BY <1>1, <1>2, <1>3, <1>4, <1>5, <1>6 DEF IInv

LEMMA DrainDyingIInv ==
    ASSUME IInv, DrainDying PROVE IInv'
<1>i. /\ TypeOK /\ Created /\ Childless /\ LockHeld /\ Ordered /\ Deposited /\ Listed
      /\ Tracked /\ Retained /\ LeavesOnce /\ ReleaseIsSealed /\ ShutdownIsBounded
  BY DEF IInv
<1>u. UNCHANGED <<creates, owner_lock, owner_closed, owned, registry, registry_lock,
                  tombstones, removals, persistence, reclassed, reader, started,
                  requested, bounded, ladder_failed, views, used, released, closing,
                  announced, deadline, admissions_closed>>
  BY DEF DrainDying, tasks, table, class, process, use
<1>1. TypeOK'
  BY <1>i, <1>u DEF TypeOK, DrainDying
<1>2. Childless'
  BY <1>i, <1>u DEF Childless, DrainDying
<1>3. Ordered'
  BY <1>i DEF Ordered, DrainDying
<1>4. Deposited'
  BY <1>i, <1>u DEF Deposited, DrainDying, Concluded
<1>5. Listed'
  BY DEF Listed, DrainDying
<1>6. Tracked'
  BY <1>i, <1>u DEF Tracked, DrainDying, Concluded
<1>7. /\ Created' /\ LockHeld' /\ Retained' /\ LeavesOnce' /\ ReleaseIsSealed'
      /\ ShutdownIsBounded'
  BY <1>i, <1>u
     DEF Created, LockHeld, Retained, LeavesOnce, ReleaseIsSealed, ShutdownIsBounded
<1> QED
  BY <1>1, <1>2, <1>3, <1>4, <1>5, <1>6, <1>7 DEF IInv

LEMMA DrainTerminateIInv ==
    ASSUME IInv, NEW s \in Sessions, DrainTerminate(s) PROVE IInv'
<1>i. /\ TypeOK /\ Created /\ Childless /\ LockHeld /\ Ordered /\ Deposited /\ Listed
      /\ Tracked /\ Retained /\ LeavesOnce /\ ReleaseIsSealed /\ ShutdownIsBounded
  BY DEF IInv
<1>u. UNCHANGED <<creates, owner_lock, owner_closed, owned, registry, registry_lock,
                  tombstones, removals, persistence, reclassed, reader, views, used,
                  released, closing, dying, announced, deadline, admissions_closed>>
  BY DEF DrainTerminate, tasks, table, class, use
<1>1. TypeOK'
  <2>1. drain' \in [pc : {"off", "announced", "bounded", "closed", "count", "registry",
                         "dying", "terminate", "await", "clean", "expired"},
                   in_flight : BOOLEAN, live : SUBSET Sessions, todo : SUBSET Sessions]
    BY <1>i DEF TypeOK, DrainTerminate
  <2>2. bounded' \subseteq Sessions
    BY <1>i DEF TypeOK, DrainTerminate
  <2>3. /\ started' \subseteq Sessions /\ ladder_failed' \in BOOLEAN
        /\ requested' \in [Sessions -> {None, "user", "application", "shutdown"}]
    BY <1>i, TerminateFacts DEF DrainTerminate
  <2> QED
    BY <1>i, <1>u, <2>1, <2>2, <2>3 DEF TypeOK
<1>2. Childless'
  <2>1. drain'.live = drain.live
    BY DEF DrainTerminate
  <2>2. s \in drain.live /\ reader[s] # "none"
    BY <1>i DEF DrainTerminate, Listed, Childless
  <2>3. started' \subseteq started \cup {s}
    BY DEF DrainTerminate, Terminate, TerminateFails
  <2> QED
    BY <1>i, <1>u, <2>1, <2>2, <2>3 DEF Childless
<1>3. Ordered'
  BY <1>i DEF Ordered, DrainTerminate
<1>4. Listed'
  BY <1>i DEF Listed, DrainTerminate
<1>5. Tracked'
  <2>1. /\ drain'.live = drain.live /\ drain'.pc \in {"terminate", "await"}
        /\ drain.pc = "terminate" /\ s \in drain.live
    BY <1>i DEF DrainTerminate, Listed
  <2>2. \/ started' = started /\ \A r \in started : requested'[r] = requested[r]
        \/ /\ started' = started \cup {s} /\ requested'[s] = "shutdown"
           /\ \A r \in started : requested'[r] = requested[r]
    BY <1>i DEF DrainTerminate, Terminate, TerminateFails, TypeOK
  <2> QED
    BY <1>i, <1>u, <2>1, <2>2 DEF Tracked, Concluded
<1>6. ShutdownIsBounded'
  BY <1>i
     DEF TypeOK, ShutdownIsBounded, Ordered, DrainTerminate, Terminate, TerminateFails
<1>7. /\ Created' /\ LockHeld' /\ Deposited' /\ Retained' /\ LeavesOnce'
      /\ ReleaseIsSealed'
  BY <1>i, <1>u
     DEF Created, LockHeld, Deposited, Retained, LeavesOnce, ReleaseIsSealed, Concluded
<1> QED
  BY <1>1, <1>2, <1>3, <1>4, <1>5, <1>6, <1>7 DEF IInv

LEMMA DrainAwaitIInv ==
    ASSUME IInv, NEW s \in Sessions, DrainAwait(s) PROVE IInv'
<1>i. /\ TypeOK /\ Created /\ Childless /\ LockHeld /\ Ordered /\ Deposited /\ Listed
      /\ Tracked /\ Retained /\ LeavesOnce /\ ReleaseIsSealed /\ ShutdownIsBounded
  BY DEF IInv
<1>u. UNCHANGED <<creates, owner_lock, owner_closed, owned, registry, registry_lock,
                  tombstones, removals, persistence, reclassed, reader, started,
                  requested, bounded, ladder_failed, views, used, released, closing,
                  dying, announced, deadline, admissions_closed>>
  BY DEF DrainAwait, tasks, table, class, process, use
<1>1. TypeOK'
  BY <1>i, <1>u DEF TypeOK, DrainAwait
<1>2. Childless'
  BY <1>i, <1>u DEF Childless, DrainAwait
<1>3. Ordered'
  BY <1>i DEF Ordered, DrainAwait
<1>4. Listed'
  BY DEF Listed, DrainAwait
<1>5. Tracked'
  BY <1>i, <1>u DEF Tracked, DrainAwait, Concluded
<1>6. /\ Created' /\ LockHeld' /\ Deposited' /\ Retained' /\ LeavesOnce'
      /\ ReleaseIsSealed' /\ ShutdownIsBounded'
  BY <1>i, <1>u
     DEF Created, LockHeld, Deposited, Retained, LeavesOnce, ReleaseIsSealed,
         ShutdownIsBounded, Concluded
<1> QED
  BY <1>1, <1>2, <1>3, <1>4, <1>5, <1>6 DEF IInv

LEMMA DrainExpireIInv ==
    ASSUME IInv, DrainExpire PROVE IInv'
<1>i. /\ TypeOK /\ Created /\ Childless /\ LockHeld /\ Ordered /\ Deposited /\ Listed
      /\ Tracked /\ Retained /\ LeavesOnce /\ ReleaseIsSealed /\ ShutdownIsBounded
  BY DEF IInv
<1>u. UNCHANGED <<creates, owner_lock, owner_closed, owned, registry, registry_lock,
                  tombstones, removals, persistence, reclassed, reader, started,
                  requested, bounded, ladder_failed, views, used, released, closing,
                  dying, announced, deadline, admissions_closed>>
  BY DEF DrainExpire, tasks, table, class, process, use
<1>1. TypeOK'
  BY <1>i, <1>u DEF TypeOK, DrainExpire
<1>2. Childless'
  BY <1>i, <1>u DEF Childless, DrainExpire
<1>3. Ordered'
  BY <1>i DEF Ordered, DrainExpire
<1>4. Listed'
  BY DEF Listed, DrainExpire
<1>5. Tracked'
  BY <1>i, <1>u DEF Tracked, DrainExpire, Concluded
<1>6. /\ Created' /\ LockHeld' /\ Deposited' /\ Retained' /\ LeavesOnce'
      /\ ReleaseIsSealed' /\ ShutdownIsBounded'
  BY <1>i, <1>u
     DEF Created, LockHeld, Deposited, Retained, LeavesOnce, ReleaseIsSealed,
         ShutdownIsBounded, Concluded
<1> QED
  BY <1>1, <1>2, <1>3, <1>4, <1>5, <1>6 DEF IInv

-----------------------------------------------------------------------------
(* What the drain learns as it goes, while no create is unpainted. *)

LEMMA VisibleStep ==
    ASSUME IInv, DInv, Unpainted = {}, [Next]_vars PROVE Visible'
<1>i. TypeOK /\ Created /\ Childless /\ LockHeld /\ Deposited /\ Visible
  BY DEF IInv, DInv
<1>1. ASSUME NEW s \in Sessions, CreateEnter(s) PROVE Visible'
  BY <1>i, <1>1 DEF Visible, CreateEnter, table, process
<1>2. ASSUME NEW s \in Sessions, CreateAdmit(s) PROVE Visible'
  BY <1>i, <1>2 DEF Created, Visible, CreateAdmit, table, process, Before
<1>3. ASSUME NEW s \in Sessions, CreateSpawn(s) PROVE Visible'
  BY <1>i, <1>3 DEF TypeOK, Created, Visible, CreateSpawn, table, Before
<1>4. ASSUME NEW s \in Sessions, CreateLock(s) PROVE Visible'
  BY <1>i, <1>4 DEF TypeOK, Visible, CreateLock, table, process
<1>5. ASSUME NEW s \in Sessions, CreateInsert(s) PROVE Visible'
  BY <1>i, <1>5 DEF Visible, CreateInsert, process
<1>6. ASSUME NEW s \in Sessions, CreateRetain(s) PROVE Visible'
  BY <1>i, <1>6 DEF Visible, CreateRetain, Remove, HasExited, process
<1>7. ASSUME NEW s \in Sessions, CreateDeposit(s) PROVE Visible'
  BY <1>i, <1>7 DEF Visible, CreateDeposit, Deposit, table, process, Concluded
<1>8. ASSUME NEW s \in Sessions, CreateRefused(s) PROVE Visible'
  BY <1>i, <1>8 DEF Deposited, Visible, CreateRefused, table, Concluded
<1>9. ASSUME NEW s \in Sessions, ReaderExit(s) PROVE Visible'
  BY <1>i, <1>9 DEF Visible, ReaderExit, tasks, table
<1>10. ASSUME NEW s \in Sessions, OnExit(s) PROVE Visible'
  BY <1>i, <1>10 DEF Visible, OnExit, Remove, tasks
<1>11. ASSUME NEW s \in Sessions, ReaderConclude(s) PROVE Visible'
  BY <1>i, <1>11 DEF Visible, ReaderConclude, tasks, table
<1>12. ASSUME NEW k \in Closers, NEW s \in Sessions, CloseDeposit(k, s) PROVE Visible'
  BY <1>i, <1>12 DEF Visible, CloseDeposit, Deposit, tasks, table, process, Concluded
<1>13. ASSUME NEW k \in Closers, NEW s \in Sessions, CloseRemove(k, s) PROVE Visible'
  BY <1>i, <1>13 DEF Deposited, Visible, CloseRemove, Remove, tasks, process, Concluded
<1>14. ASSUME NEW s \in Sessions, ReleaseRemove(s) PROVE Visible'
  BY <1>i, <1>14 DEF Visible, ReleaseRemove, Remove, Deposit, tasks, process, Concluded
<1>15. ASSUME DrainDying PROVE Visible'
  BY <1>i, <1>15 DEF Visible, DrainDying, tasks, table, process, Concluded
<1>16. ASSUME UNCHANGED <<creates, reader, registry, dying>> PROVE Visible'
  BY <1>i, <1>16 DEF Visible
<1>o. /\ \A s \in Sessions :
            Attach(s) \/ Detach(s) \/ Input(s) \/ SetPersistence(s) \/ TerminateFound(s)
            \/ DrainTerminate(s) \/ DrainAwait(s) =>
               UNCHANGED <<creates, reader, registry, dying>>
      /\ CloseOwner \/ DrainAnnounce \/ DrainPublish \/ DrainCloseAdmissions
         \/ DrainBarrier \/ DrainCount \/ DrainRegistry \/ DrainExpire =>
            UNCHANGED <<creates, reader, registry, dying>>
      /\ \A k \in Closers, s \in Sessions : CloseLadder(k, s) =>
            UNCHANGED <<creates, reader, registry, dying>>
      /\ \A s \in Sessions, condition \in {"unused", "exited"} :
            ReleaseSeal(s, condition) =>
               UNCHANGED <<creates, reader, registry, dying>>
  BY DEF Attach, Detach, Input, SetPersistence, TerminateFound, CloseOwner, CloseLadder,
         ReleaseSeal, DrainAnnounce, DrainPublish, DrainCloseAdmissions, DrainBarrier,
         DrainCount, DrainRegistry, DrainTerminate, DrainAwait, DrainExpire, process,
         table, tasks
<1>s. UNCHANGED vars => UNCHANGED <<creates, reader, registry, dying>>
  BY DEF vars, tasks, table, process
<1>t. Targets \subseteq Sessions
  BY SessionsOK
<1>a. ASSUME NEW s \in Sessions, CreateEnter(s) \/ Create(s) PROVE Visible'
  BY <1>a, <1>1, <1>2, <1>3, <1>4, <1>5, <1>6, <1>7, <1>8 DEF Create
<1>b. ASSUME NEW s \in Sessions, ReaderExit(s) \/ Reader(s) PROVE Visible'
  BY <1>b, <1>9, <1>10, <1>11 DEF Reader
<1>c. ASSUME NEW s \in Sessions, Client(s) \/ ReleaseRemove(s) PROVE Visible'
  BY <1>c, <1>o, <1>16, <1>14 DEF Client
<1>d. ASSUME NEW k \in Closers, NEW s \in Sessions, Close(k, s) PROVE Visible'
  BY <1>d, <1>12, <1>o, <1>16, <1>13 DEF Close
<1>e. ASSUME CloseOwner \/ DrainAnnounce \/ Drain \/ DrainExpire PROVE Visible'
  BY <1>e, <1>o, <1>16, <1>15 DEF Drain
<1> QED
  BY <1>a, <1>b, <1>c, <1>d, <1>e, <1>s, <1>16, <1>t DEF Next

LEMMA LearntStep ==
    ASSUME IInv, DInv, Unpainted = {}, [Next]_vars PROVE Learnt'
<1>i. TypeOK /\ Created /\ Ordered /\ LockHeld /\ Learnt
  BY DEF IInv, DInv
<1>1. ASSUME NEW s \in Sessions, CreateEnter(s) PROVE Learnt'
  BY <1>i, <1>1 DEF Learnt, CreateEnter, table, process, service, Concluded
<1>2. ASSUME NEW s \in Sessions, CreateAdmit(s) PROVE Learnt'
  BY <1>i, <1>2
     DEF Ordered, Learnt, CreateAdmit, table, process, service, Concluded, Passed
<1>3. ASSUME NEW s \in Sessions, CreateSpawn(s) PROVE Learnt'
  BY <1>i, <1>3
     DEF TypeOK, Created, Learnt, CreateSpawn, table, service, Concluded, Before
<1>4. ASSUME NEW s \in Sessions, CreateLock(s) PROVE Learnt'
  BY <1>i, <1>4 DEF TypeOK, Ordered, Learnt, CreateLock, service, Passed
<1>5. ASSUME NEW s \in Sessions, CreateInsert(s) PROVE Learnt'
  BY <1>i, <1>5 DEF Learnt, CreateInsert, service, Passed
<1>6. ASSUME NEW s \in Sessions, CreateRetain(s) PROVE Learnt'
  BY <1>i, <1>6 DEF Learnt, CreateRetain, Remove, process, service, Concluded
<1>7. ASSUME NEW s \in Sessions, CreateDeposit(s) PROVE Learnt'
  BY <1>i, <1>7 DEF Learnt, CreateDeposit, table, process, service, Concluded
<1>8. ASSUME NEW s \in Sessions, CreateRefused(s) PROVE Learnt'
  BY <1>i, <1>8 DEF Learnt, CreateRefused, table, service, Concluded
<1>9. ASSUME NEW s \in Sessions, ReaderExit(s) PROVE Learnt'
  BY <1>i, <1>9 DEF Learnt, ReaderExit, tasks, table, service, Concluded
<1>10. ASSUME NEW s \in Sessions, OnExit(s) PROVE Learnt'
  BY <1>i, <1>10 DEF Learnt, OnExit, Remove, tasks, service, Concluded
<1>11. ASSUME NEW s \in Sessions, ReaderConclude(s) PROVE Learnt'
  BY <1>i, <1>11 DEF Learnt, ReaderConclude, tasks, table, service, Concluded
<1>12. ASSUME NEW k \in Closers, NEW s \in Sessions, CloseRemove(k, s) PROVE Learnt'
  BY <1>i, <1>12 DEF Learnt, CloseRemove, Remove, tasks, process, service, Concluded
<1>13. ASSUME NEW s \in Sessions, ReleaseRemove(s) PROVE Learnt'
  BY <1>i, <1>13 DEF Learnt, ReleaseRemove, Remove, tasks, process, service, Concluded
<1>14. ASSUME DrainAnnounce PROVE Learnt'
  BY <1>14 DEF Learnt, DrainAnnounce, Passed
<1>15. ASSUME DrainPublish PROVE Learnt'
  BY <1>15 DEF Learnt, DrainPublish, Passed
<1>16. ASSUME DrainCloseAdmissions PROVE Learnt'
  BY <1>16 DEF Learnt, DrainCloseAdmissions, Passed
<1>17. ASSUME DrainBarrier PROVE Learnt'
  BY <1>i, <1>17, SessionsOK DEF Created, Learnt, DrainBarrier, tasks
<1>18. ASSUME DrainCount PROVE Learnt'
  BY <1>i, <1>18 DEF TypeOK, Learnt, DrainCount, InFlight, tasks, Passed
<1>19. ASSUME DrainRegistry PROVE Learnt'
  BY <1>i, <1>19 DEF Learnt, DrainRegistry, tasks, table, process, Concluded, Passed
<1>20. ASSUME DrainDying PROVE Learnt'
  BY <1>i, <1>20 DEF Learnt, DrainDying, tasks, Passed
<1>21. ASSUME NEW s \in Sessions, DrainTerminate(s) PROVE Learnt'
  BY <1>i, <1>21 DEF Learnt, DrainTerminate, tasks, Passed
<1>22. ASSUME NEW s \in Sessions, DrainAwait(s) PROVE Learnt'
  BY <1>i, <1>22 DEF Learnt, DrainAwait, tasks, Passed
<1>23. ASSUME DrainExpire PROVE Learnt'
  BY <1>23 DEF Learnt, DrainExpire, Passed
<1>24. ASSUME UNCHANGED <<drain, creates, registry, reader>> PROVE Learnt'
  BY <1>i, <1>24 DEF Learnt, Concluded
<1>o. /\ \A s \in Sessions :
            Attach(s) \/ Detach(s) \/ Input(s) \/ SetPersistence(s) \/ TerminateFound(s) =>
               UNCHANGED <<drain, creates, registry, reader>>
      /\ CloseOwner => UNCHANGED <<drain, creates, registry, reader>>
      /\ \A k \in Closers, s \in Sessions : CloseDeposit(k, s) \/ CloseLadder(k, s) =>
            UNCHANGED <<drain, creates, registry, reader>>
      /\ \A s \in Sessions, condition \in {"unused", "exited"} :
            ReleaseSeal(s, condition) =>
               UNCHANGED <<drain, creates, registry, reader>>
  BY DEF Attach, Detach, Input, SetPersistence, TerminateFound, CloseOwner,
         CloseDeposit, CloseLadder, ReleaseSeal, process, service, table, tasks
<1>s. UNCHANGED vars => UNCHANGED <<drain, creates, registry, reader>>
  BY DEF vars, tasks, table, process, service
<1>t. Targets \subseteq Sessions
  BY SessionsOK
<1>a. ASSUME NEW s \in Sessions, CreateEnter(s) \/ Create(s) PROVE Learnt'
  BY <1>a, <1>1, <1>2, <1>3, <1>4, <1>5, <1>6, <1>7, <1>8 DEF Create
<1>b. ASSUME NEW s \in Sessions, ReaderExit(s) \/ Reader(s) PROVE Learnt'
  BY <1>b, <1>9, <1>10, <1>11 DEF Reader
<1>c. ASSUME NEW s \in Sessions, Client(s) \/ ReleaseRemove(s) PROVE Learnt'
  BY <1>c, <1>o, <1>24, <1>13 DEF Client
<1>d. ASSUME NEW k \in Closers, NEW s \in Sessions, Close(k, s) PROVE Learnt'
  BY <1>d, <1>o, <1>24, <1>12 DEF Close
<1>e. ASSUME CloseOwner \/ DrainAnnounce \/ Drain \/ DrainExpire PROVE Learnt'
  BY <1>e, <1>o, <1>24, <1>14, <1>15, <1>16, <1>17, <1>18, <1>19, <1>20, <1>21, <1>22,
     <1>23
     DEF Drain
<1> QED
  BY <1>a, <1>b, <1>c, <1>d, <1>e, <1>s, <1>24, <1>t DEF Next

LEMMA DrainMissesNothingStep ==
    ASSUME IInv, DInv, Unpainted = {}, [Next]_vars PROVE DrainMissesNothing'
<1>i. /\ TypeOK /\ Created /\ Childless /\ Tracked /\ LockHeld /\ Ordered /\ Visible
      /\ Learnt /\ DrainMissesNothing
  BY DEF IInv, DInv
<1>1. ASSUME NEW s \in Sessions, CreateEnter(s) PROVE DrainMissesNothing'
  BY <1>i, <1>1 DEF DrainMissesNothing, CreateEnter, process, service
<1>2. ASSUME NEW s \in Sessions, CreateAdmit(s) PROVE DrainMissesNothing'
  BY <1>i, <1>2 DEF Ordered, DrainMissesNothing, CreateAdmit, process, service
<1>3. ASSUME NEW s \in Sessions, CreateSpawn(s) PROVE DrainMissesNothing'
  BY <1>i, <1>3 DEF DrainMissesNothing, CreateSpawn, service
<1>4. ASSUME NEW s \in Sessions, CreateLock(s) PROVE DrainMissesNothing'
  BY <1>i, <1>4 DEF DrainMissesNothing, CreateLock, service
<1>5. ASSUME NEW s \in Sessions, CreateInsert(s) PROVE DrainMissesNothing'
  BY <1>i, <1>5 DEF DrainMissesNothing, CreateInsert, service
<1>6. ASSUME NEW s \in Sessions, CreateRetain(s) PROVE DrainMissesNothing'
  BY <1>i, <1>6 DEF DrainMissesNothing, CreateRetain, service
<1>7. ASSUME NEW s \in Sessions, CreateDeposit(s) PROVE DrainMissesNothing'
  BY <1>i, <1>7 DEF DrainMissesNothing, CreateDeposit, service
<1>8. ASSUME NEW s \in Sessions, CreateRefused(s) PROVE DrainMissesNothing'
  BY <1>i, <1>8 DEF DrainMissesNothing, CreateRefused, service
<1>9. ASSUME NEW s \in Sessions, ReaderExit(s) PROVE DrainMissesNothing'
  BY <1>i, <1>9 DEF DrainMissesNothing, ReaderExit, service
<1>10. ASSUME NEW s \in Sessions, OnExit(s) PROVE DrainMissesNothing'
  BY <1>i, <1>10 DEF DrainMissesNothing, OnExit, tasks, service
<1>11. ASSUME NEW s \in Sessions, ReaderConclude(s) PROVE DrainMissesNothing'
  BY <1>i, <1>11 DEF DrainMissesNothing, ReaderConclude, tasks, service
<1>12. ASSUME NEW k \in Closers, NEW s \in Sessions, CloseLadder(k, s)
       PROVE  DrainMissesNothing'
  BY <1>i, <1>12
     DEF TypeOK, Childless, DrainMissesNothing, CloseLadder, Terminate, TerminateFails,
         HasExited, tasks, service
<1>13. ASSUME NEW s \in Sessions, NEW condition \in {"unused", "exited"}, ReleaseSeal(s,
              condition)
       PROVE  DrainMissesNothing'
  BY <1>i, <1>13
     DEF TypeOK, Childless, DrainMissesNothing, ReleaseSeal, Terminate, TerminateFails,
         HasExited, tasks, service
<1>14. ASSUME DrainAnnounce PROVE DrainMissesNothing'
  BY <1>14 DEF DrainMissesNothing, DrainAnnounce
<1>15. ASSUME DrainPublish PROVE DrainMissesNothing'
  BY <1>15 DEF DrainMissesNothing, DrainPublish
<1>16. ASSUME DrainCloseAdmissions PROVE DrainMissesNothing'
  BY <1>16 DEF DrainMissesNothing, DrainCloseAdmissions
<1>17. ASSUME DrainBarrier PROVE DrainMissesNothing'
  BY <1>17 DEF DrainMissesNothing, DrainBarrier
<1>18. ASSUME DrainCount PROVE DrainMissesNothing'
  BY <1>18 DEF DrainMissesNothing, DrainCount
<1>19. ASSUME DrainRegistry PROVE DrainMissesNothing'
  BY <1>19 DEF DrainMissesNothing, DrainRegistry
<1>20. ASSUME DrainDying PROVE DrainMissesNothing'
  BY <1>i, <1>20, SessionsOK
     DEF Created, Tracked, LockHeld, Visible, Learnt, DrainMissesNothing, DrainDying,
         tasks, process, Concluded, Before, Passed
<1>21. ASSUME NEW s \in Sessions, DrainTerminate(s) PROVE DrainMissesNothing'
  BY <1>21 DEF DrainMissesNothing, DrainTerminate
<1>22. ASSUME NEW s \in Sessions, DrainAwait(s) PROVE DrainMissesNothing'
  BY <1>22 DEF DrainMissesNothing, DrainAwait
<1>23. ASSUME DrainExpire PROVE DrainMissesNothing'
  BY <1>23 DEF DrainMissesNothing, DrainExpire
<1>24. ASSUME UNCHANGED <<drain, creates, reader, started>> PROVE DrainMissesNothing'
  BY <1>i, <1>24 DEF DrainMissesNothing
<1>o. /\ \A s \in Sessions :
            Attach(s) \/ Detach(s) \/ Input(s) \/ SetPersistence(s) \/ TerminateFound(s)
            \/ ReleaseRemove(s) =>
               UNCHANGED <<drain, creates, reader, started>>
      /\ CloseOwner => UNCHANGED <<drain, creates, reader, started>>
      /\ \A k \in Closers, s \in Sessions : CloseDeposit(k, s) \/ CloseRemove(k, s) =>
            UNCHANGED <<drain, creates, reader, started>>
  BY DEF Attach, Detach, Input, SetPersistence, TerminateFound, CloseOwner,
         CloseDeposit, CloseRemove, ReleaseRemove, process, service, tasks
<1>s. UNCHANGED vars => UNCHANGED <<drain, creates, reader, started>>
  BY DEF vars, tasks, process, service
<1>t. Targets \subseteq Sessions
  BY SessionsOK
<1>a. ASSUME NEW s \in Sessions, CreateEnter(s) \/ Create(s) PROVE DrainMissesNothing'
  BY <1>a, <1>1, <1>2, <1>3, <1>4, <1>5, <1>6, <1>7, <1>8 DEF Create
<1>b. ASSUME NEW s \in Sessions, ReaderExit(s) \/ Reader(s) PROVE DrainMissesNothing'
  BY <1>b, <1>9, <1>10, <1>11 DEF Reader
<1>c. ASSUME NEW s \in Sessions, Client(s) \/ ReleaseRemove(s) PROVE DrainMissesNothing'
  BY <1>c, <1>o, <1>24, <1>13 DEF Client
<1>d. ASSUME NEW k \in Closers, NEW s \in Sessions, Close(k, s)
      PROVE  DrainMissesNothing'
  BY <1>d, <1>o, <1>24, <1>12 DEF Close
<1>e. ASSUME CloseOwner \/ DrainAnnounce \/ Drain \/ DrainExpire
      PROVE  DrainMissesNothing'
  BY <1>e, <1>o, <1>24, <1>14, <1>15, <1>16, <1>17, <1>18, <1>19, <1>20, <1>21, <1>22,
     <1>23
     DEF Drain
<1> QED
  BY <1>a, <1>b, <1>c, <1>d, <1>e, <1>s, <1>24, <1>t DEF Next

-----------------------------------------------------------------------------
(* The specification. *)

LEMMA InitIInv == Init => IInv
<1> SUFFICES ASSUME Init PROVE IInv
  OBVIOUS
<1>1. /\ creates \in [Sessions -> {"idle", "done"}]
      /\ reader = [s \in Sessions |-> "none"]
      /\ closing = [k \in Closers |-> [s \in Sessions |-> "none"]]
      /\ drain = [pc |-> "off", in_flight |-> FALSE, live |-> {}, todo |-> {}]
  BY DEF Init
<1>2. TypeOK
  <2>1. /\ creates \in [Sessions -> {"idle", "entered", "spawning", "spawned", "inserting",
                         "inserted", "refused_owner", "refused_shutdown", "doomed_owner",
                         "doomed_shutdown", "done"}]
        /\ closing \in
              [Closers -> [Sessions -> {"none", "found", "deposited", "terminated"}]]
    BY <1>1
  <2>2. drain \in [pc : {"off", "announced", "bounded", "closed", "count", "registry",
                        "dying", "terminate", "await", "clean", "expired"},
                  in_flight : BOOLEAN, live : SUBSET Sessions, todo : SUBSET Sessions]
    BY <1>1
  <2>3. /\ owner_lock = None /\ owner_closed = FALSE /\ owned = Owned
        /\ registry = {} /\ registry_lock = None
        /\ tombstones \in [Sessions -> {None, "closed", "exited"}]
        /\ removals \in [Sessions -> 0..2]
        /\ persistence \in [Sessions -> {"exit", "keep"}] /\ reclassed = {}
        /\ reader \in [Sessions -> {"none", "running", "exited", "decided", "concluded"}]
    BY DEF Init
  <2>4. /\ started = {} /\ bounded = {} /\ ladder_failed = FALSE
        /\ requested \in [Sessions -> {None, "user", "application", "shutdown"}]
        /\ views = {} /\ used = {} /\ dying = {}
        /\ released \in [Sessions -> {None, "unused", "exited"}]
        /\ announced = FALSE /\ deadline = FALSE /\ admissions_closed = FALSE
    BY DEF Init
  <2> QED
    BY <2>1, <2>2, <2>3, <2>4 DEF TypeOK
<1>3. Created /\ Childless /\ Deposited
  BY <1>1 DEF Init, Created, Before, Childless, Deposited
<1>4. LockHeld /\ Ordered /\ Listed /\ Tracked /\ Retained
  BY <1>1 DEF Init, LockHeld, Ordered, Listed, Tracked, Retained
<1>5. LeavesOnce /\ ReleaseIsSealed /\ ShutdownIsBounded
  BY DEF Init, LeavesOnce, ReleaseIsSealed, ShutdownIsBounded
<1> QED
  BY <1>2, <1>3, <1>4, <1>5 DEF IInv

LEMMA InitDInv == Init => DInv
<1> SUFFICES ASSUME Init PROVE DInv
  OBVIOUS
<1>1. /\ creates \in [Sessions -> {"idle", "done"}]
      /\ reader = [s \in Sessions |-> "none"]
      /\ drain.pc = "off"
  BY DEF Init
<1> QED
  BY <1>1 DEF DInv, Visible, Learnt, DrainMissesNothing

LEMMA StepIInv == ASSUME IInv, [Next]_vars PROVE IInv'
<1>1. ASSUME NEW s \in Sessions, CreateEnter(s) \/ Create(s) PROVE IInv'
  BY <1>1, CreateEnterIInv, CreateAdmitIInv, CreateSpawnIInv, CreateLockIInv,
     CreateInsertIInv, CreateRetainIInv, CreateDepositIInv, CreateRefusedIInv
     DEF Create
<1>2. ASSUME NEW s \in Sessions, ReaderExit(s) \/ Reader(s) PROVE IInv'
  BY <1>2, ReaderExitIInv, OnExitIInv, ReaderConcludeIInv DEF Reader
<1>3. ASSUME NEW s \in Sessions, Client(s) \/ ReleaseRemove(s) PROVE IInv'
  BY <1>3, AttachIInv, DetachIInv, InputIInv, SetPersistenceIInv, TerminateFoundIInv,
     ReleaseSealIInv, ReleaseRemoveIInv
     DEF Client
<1>4. ASSUME NEW k \in Closers, NEW s \in Sessions, Close(k, s) PROVE IInv'
  BY <1>4, CloseDepositIInv, CloseLadderIInv, CloseRemoveIInv DEF Close
<1>5. ASSUME DrainAnnounce \/ Drain \/ DrainExpire PROVE IInv'
  BY <1>5, DrainAnnounceIInv, DrainPublishIInv, DrainCloseAdmissionsIInv,
     DrainBarrierIInv, DrainCountIInv, DrainRegistryIInv, DrainDyingIInv,
     DrainTerminateIInv, DrainAwaitIInv, DrainExpireIInv
     DEF Drain
<1>6. ASSUME UNCHANGED vars PROVE IInv'
  <2>1. UNCHANGED <<creates, owner_lock, owner_closed, owned, registry, registry_lock,
                    tombstones, removals, persistence, reclassed, reader, started,
                    requested, bounded, ladder_failed, views, used, released, closing,
                    dying, announced, deadline, admissions_closed, drain>>
    BY <1>6 DEF vars, tasks, table, class, process, use, service
  <2>2. TypeOK' /\ Created' /\ Childless' /\ LockHeld' /\ Ordered' /\ Deposited'
    BY <2>1
       DEF IInv, TypeOK, Created, Childless, LockHeld, Ordered, Deposited, Concluded
  <2>3. /\ Listed' /\ Tracked' /\ Retained' /\ LeavesOnce' /\ ReleaseIsSealed'
        /\ ShutdownIsBounded'
    BY <2>1
       DEF IInv, Listed, Tracked, Retained, LeavesOnce, ReleaseIsSealed,
           ShutdownIsBounded, Concluded
  <2> QED
    BY <2>2, <2>3 DEF IInv
<1>7. Targets \subseteq Sessions
  BY SessionsOK
<1> QED
  BY <1>1, <1>2, <1>3, <1>4, <1>5, <1>6, <1>7, CloseOwnerIInv DEF Next

\* The invariant holds in every reachable state, whatever creates, exits, closes,
\* releases and a shutdown interleave: admission, the registry, the dying set and
\* the drain always fit together.
THEOREM Inductive == Spec => []IInv
<1>1. Init => IInv
  BY InitIInv
<1>2. IInv /\ [Next]_vars => IInv'
  BY StepIInv
<1> QED
  BY <1>1, <1>2, PTL DEF Spec

\* Every record of the service and of its sessions keeps its type.
THEOREM TypeCorrect == Spec => []TypeOK
<1>1. IInv => TypeOK
  BY DEF IInv
<1> QED
  BY <1>1, Inductive, PTL

\* A session that a client, the closing of its owner or a refused create told to
\* end stays in the registry or in the dying set until it has concluded, so that
\* a shutdown still finds it (DyingSessions).
THEOREM AlwaysTracked == Spec => []TerminatingIsTracked
<1>1. IInv => TerminatingIsTracked
  BY SessionsOK DEF IInv, TypeOK, LockHeld, Tracked, TerminatingIsTracked
<1> QED
  BY <1>1, Inductive, PTL

\* A session that has ended does not stay in the registry unless its class keeps
\* exited sessions: either on_exit takes it off or the create that put it in does.
THEOREM NeverLingers == Spec => []NothingLingers
<1>1. IInv => NothingLingers
  BY DEF IInv, Retained, NothingLingers, Concluded
<1> QED
  BY <1>1, Inductive, PTL

\* A session is taken off the registry at most once, and its tombstone says so,
\* whichever of on_exit, its create, a close and a release comes to remove it.
THEOREM AlwaysLeavesOnce == Spec => []LeavesOnce
<1>1. IInv => LeavesOnce
  BY DEF IInv
<1> QED
  BY <1>1, Inductive, PTL

\* A session that release_if has sealed is never viewed again, nor is one it
\* sealed as unused ever used: no client gets between its checks and its seal.
THEOREM StaysSealed == Spec => []ReleaseIsSealed
<1>1. IInv => ReleaseIsSealed
  BY DEF IInv
<1> QED
  BY <1>1, Inductive, PTL

\* What a shutdown tells to end, itself or by a create it refuses, it tells after
\* the hosts' announcement and under its own deadline.
THEOREM AlwaysBounded == Spec => []ShutdownIsBounded
<1>1. IInv => ShutdownIsBounded
  BY DEF IInv
<1> QED
  BY <1>1, Inductive, PTL

\* A session of a class that keeps its record leaves the registry only in the
\* hands of a close that has terminated it or of a release that holds the lock.
LEMMA StepKept ==
    ASSUME Next
    PROVE  \A s \in registry \ registry' : persistence[s] = "keep" =>
              registry_lock = s \/ \E k \in Closers : closing[k][s] = "terminated"
<1> SUFFICES ASSUME NEW s \in registry, s \notin registry', persistence[s] = "keep"
             PROVE  registry_lock = s \/ \E k \in Closers : closing[k][s] = "terminated"
  OBVIOUS
<1>1. ASSUME NEW r \in Sessions, CreateRetain(r) PROVE FALSE
  BY <1>1 DEF CreateRetain, Remove
<1>2. ASSUME NEW r \in Sessions, OnExit(r) PROVE FALSE
  BY <1>2 DEF OnExit, Remove
<1>3. ASSUME NEW k \in Closers, NEW r \in Sessions, CloseRemove(k, r)
      PROVE  closing[k][s] = "terminated"
  BY <1>3 DEF CloseRemove, Remove
<1>4. ASSUME NEW r \in Targets, ReleaseRemove(r) PROVE registry_lock = s
  BY <1>4 DEF ReleaseRemove, Remove
<1>5. ASSUME NEW r \in Sessions, CreateInsert(r) PROVE FALSE
  BY <1>5 DEF CreateInsert
<1>6. ASSUME NEW r \in Sessions,
             \/ CreateEnter(r) \/ CreateAdmit(r) \/ CreateSpawn(r) \/ CreateLock(r)
             \/ CreateDeposit(r) \/ CreateRefused(r)
      PROVE  FALSE
  BY <1>6
     DEF CreateEnter, CreateAdmit, CreateSpawn, CreateLock, CreateDeposit,
         CreateRefused, table
<1>7. ASSUME NEW r \in Sessions, ReaderExit(r) \/ ReaderConclude(r) PROVE FALSE
  BY <1>7 DEF ReaderExit, ReaderConclude, table
<1>8. ASSUME NEW r \in Targets, Client(r) PROVE FALSE
  BY <1>8
     DEF Client, Attach, Detach, Input, SetPersistence, TerminateFound, ReleaseSeal,
         table
<1>9. ASSUME NEW k \in Closers, NEW r \in Sessions,
             CloseDeposit(k, r) \/ CloseLadder(k, r)
      PROVE  FALSE
  BY <1>9 DEF CloseDeposit, CloseLadder, table
<1>10. ASSUME CloseOwner PROVE FALSE
  BY <1>10 DEF CloseOwner, table
<1>11. ASSUME DrainAnnounce \/ Drain \/ DrainExpire PROVE FALSE
  BY <1>11
     DEF Drain, DrainAnnounce, DrainPublish, DrainCloseAdmissions, DrainBarrier,
         DrainCount, DrainRegistry, DrainDying, DrainTerminate, DrainAwait, DrainExpire,
         table
<1> QED
  BY <1>1, <1>2, <1>3, <1>4, <1>5, <1>6, <1>7, <1>8, <1>9, <1>10, <1>11
     DEF Next, Create, Reader, Close

\* An exited session that is to be kept stays until it is closed or released: no
\* exit callback and no create takes it away.
THEOREM KeptAlways == Spec => KeptUntilClosed
<1>1. [Next]_vars => [\A s \in registry \ registry' : persistence[s] = "keep" =>
          registry_lock = s \/ \E k \in Closers : closing[k][s] = "terminated"]_vars
  BY StepKept
<1> QED
  BY <1>1, PTL DEF Spec, KeptUntilClosed

\* A drain that reports success has ended every child, also those whose create was
\* under way when admissions closed, as long as no create starts a child and then
\* fails to give it an appearance (with such a create the property is false).
THEOREM ShutdownMissesNothing == Unpainted = {} => (Spec => []DrainMissesNothing)
<1> SUFFICES ASSUME Unpainted = {} PROVE Spec => []DrainMissesNothing
  OBVIOUS
<1>1. Init => IInv /\ DInv
  BY InitIInv, InitDInv
<1>2. (IInv /\ DInv) /\ [Next]_vars => (IInv /\ DInv)'
  BY StepIInv, VisibleStep, LearntStep, DrainMissesNothingStep DEF DInv
<1>3. IInv /\ DInv => DrainMissesNothing
  BY DEF DInv
<1> QED
  BY <1>1, <1>2, <1>3, PTL DEF Spec

\* So a create's count is released after its session can be found, unless it
\* fails with the child already running (CreateInFlight; the run teardown_leak
\* has such a create).
THEOREM ReleasedAlwaysVisible == Unpainted = {} => (Spec => []ReleasedOnceVisible)
<1> SUFFICES ASSUME Unpainted = {} PROVE Spec => []ReleasedOnceVisible
  OBVIOUS
<1>1. Init => IInv /\ DInv
  BY InitIInv, InitDInv
<1>2. (IInv /\ DInv) /\ [Next]_vars => (IInv /\ DInv)'
  BY StepIInv, VisibleStep, LearntStep, DrainMissesNothingStep DEF DInv
<1>3. IInv /\ DInv => ReleasedOnceVisible
  BY DEF DInv, Visible, ReleasedOnceVisible
<1> QED
  BY <1>1, <1>2, <1>3, PTL DEF Spec
=============================================================================
