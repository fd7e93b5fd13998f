-------------------------- MODULE SessionTeardown --------------------------
(***************************************************************************)
(* How a daemon's sessions end: by themselves, by a client's terminate, by *)
(* the closing of their owner, by a conditional release, or by the drain   *)
(* of a shutdown that races creates still under way.                       *)
(*                                                                         *)
(*   ghosttea/src/service.rs   create_local_session with its on_exit,      *)
(*                             terminate_tracked and the dying set, the    *)
(*                             commands, drain and live_sessions           *)
(*   ghosttea/src/session.rs   the reader thread's conclusion, terminate,  *)
(*                             release_if, the tombstones' removal         *)
(*                                                                         *)
(* A step is what one thread does between two acquisitions of a lock that  *)
(* another thread contends for.  The registry's write lock and the owner   *)
(* lock are held over several steps where the code holds them over several *)
(* statements.  A session's own `lifecycle` lock is held within one step.  *)
(*                                                                         *)
(* All owned sessions have one owner.  TerminateWithApp and KeepUntilExit  *)
(* are one retention class here: only KeepUntilExplicitClose is ever       *)
(* compared with.  A session is an interactive shell.  The grace periods   *)
(* of the termination ladder are not here: a ladder ends its session.      *)
(***************************************************************************)
EXTENDS Naturals, FiniteSets

CONSTANTS
    Sessions,
    Populations,  \* the sets of sessions that creates may make in one run
    Targets,      \* those the clients' commands name
    Owned,        \* those made for the owner that may close
    Unpainted,    \* those whose child starts but whose appearance cannot be set
    None

ASSUME SessionsOK ==
    /\ IsFiniteSet(Sessions)
    /\ {Targets, Owned, Unpainted} \subseteq SUBSET Sessions
    /\ Populations \subseteq SUBSET Sessions
    /\ None \notin Sessions
    /\ None \notin {"closed", "exited", "unused", "user", "application", "shutdown"}

VARIABLES
    \* The create of each session, and the service's owner lock
    creates, owner_lock, owner_closed, owned,
    \* The registry, its write lock when held over steps, and its tombstones
    registry, registry_lock, tombstones, removals,
    \* Retention class; those whose class was set after on_exit read it
    persistence, reclassed,
    \* The session: its reader thread, the ladder, who asked, its deadline
    reader, started, requested, bounded,
    ladder_failed,   \* a ladder's thread could not be spawned
    \* Use of the session by clients
    views, used, released,
    \* terminate-tracked closes under way, and the dying set
    closing, dying,
    \* Shutdown
    announced, deadline, admissions_closed, drain

\* What a close command, or the closing of an owner, is doing to a session.
Closers == {"terminate", "owner"}

tasks == <<creates, owner_lock, owner_closed, owned>>
table == <<registry, registry_lock, tombstones, removals>>
class == <<persistence, reclassed>>
process == <<reader, started, requested, bounded, ladder_failed>>
use == <<views, used, released>>
service == <<announced, deadline, admissions_closed, drain>>
vars == <<tasks, table, class, process, use, closing, dying, service>>

InFlight == {s \in Sessions : creates[s] \notin {"idle", "done"}}
HasExited(s) == reader[s] \in {"exited", "decided", "concluded"}
Concluded == {s \in Sessions : reader[s] = "concluded"}

\* Clients can name a session, and keep a handle to it, once it is registered.
Known(s) == s \in registry \/ tombstones[s] # None

TypeOK ==
    /\ creates \in [Sessions -> {"idle", "entered", "spawning",
                    "spawned", "inserting", "inserted", "refused_owner",
                    "refused_shutdown", "doomed_owner", "doomed_shutdown", "done"}]
    /\ owner_lock \in Sessions \cup {None}
    /\ owner_closed \in BOOLEAN /\ owned \subseteq Owned
    /\ registry \subseteq Sessions /\ registry_lock \in Sessions \cup {None}
    /\ tombstones \in [Sessions -> {None, "closed", "exited"}]
    /\ removals \in [Sessions -> 0..2]
    /\ persistence \in [Sessions -> {"exit", "keep"}] /\ reclassed \subseteq Sessions
    /\ reader \in [Sessions -> {"none", "running", "exited", "decided",
                                "concluded"}]
    /\ started \subseteq Sessions /\ bounded \subseteq Sessions
    /\ requested \in [Sessions -> {None, "user", "application", "shutdown"}]
    /\ ladder_failed \in BOOLEAN
    /\ views \subseteq Sessions /\ used \subseteq Sessions
    /\ released \in [Sessions -> {None, "unused", "exited"}]
    /\ closing \in [Closers -> [Sessions -> {"none", "found", "deposited", "terminated"}]]
    /\ dying \subseteq Sessions
    /\ {announced, deadline, admissions_closed} \subseteq BOOLEAN
    /\ drain \in [pc : {"off", "announced", "bounded", "closed", "count", "registry",
                        "dying", "terminate", "await", "clean", "expired"},
                  in_flight : BOOLEAN, live : SUBSET Sessions, todo : SUBSET Sessions]

Init ==
    /\ \E made \in Populations :
          creates = [s \in Sessions |-> IF s \in made THEN "idle" ELSE "done"]
    /\ owner_lock = None /\ owner_closed = FALSE /\ owned = Owned
    /\ registry = {} /\ registry_lock = None
    /\ tombstones = [s \in Sessions |-> None]
    /\ removals = [s \in Sessions |-> 0]
    /\ persistence = [s \in Sessions |-> "exit"] /\ reclassed = {}
    /\ reader = [s \in Sessions |-> "none"]
    /\ started = {} /\ bounded = {} /\ ladder_failed = FALSE
    /\ requested = [s \in Sessions |-> None]
    /\ views = {} /\ used = {}
    /\ released = [s \in Sessions |-> None]
    /\ closing = [k \in Closers |-> [s \in Sessions |-> "none"]]
    /\ dying = {}
    /\ announced = FALSE /\ deadline = FALSE /\ admissions_closed = FALSE
    /\ drain = [pc |-> "off", in_flight |-> FALSE, live |-> {}, todo |-> {}]

-----------------------------------------------------------------------------
(* What the paths share. *)

\* Fault: the cause is not kept with the removal.
RemoveFaulty(s) ==
    /\ registry' = registry \ {s}
    /\ removals' = [removals EXCEPT ![s] = @ + 1]
    /\ UNCHANGED tombstones

\* remove_with_cause_locked and the Removed event: the one way out of the
\* registry, a no-op for a session that has left it.
Remove(s) ==
    IF s \in registry
    THEN /\ registry' = registry \ {s}
         /\ removals' = [removals EXCEPT ![s] = @ + 1]
         /\ tombstones' = [tombstones EXCEPT ![s] =
                IF HasExited(s) THEN "exited" ELSE "closed"]
    ELSE UNCHANGED <<registry, removals, tombstones>>

\* Session::terminate: the first request starts the ladder and names itself.
Terminate(s, source) ==
    /\ IF HasExited(s) \/ s \in started
       THEN UNCHANGED <<started, requested>>
       ELSE /\ started' = started \cup {s}
            /\ requested' = [requested EXCEPT ![s] = source]
    /\ UNCHANGED ladder_failed

\* terminate's error path: the ladder's thread could not be spawned, and the
\* next request may try again.
TerminateFails(s, source) ==
    /\ ~HasExited(s) /\ s \notin started
    /\ requested' = [requested EXCEPT ![s] = source]
    /\ ladder_failed' = TRUE
    /\ UNCHANGED started

\* Fault: nothing is deposited.
DepositFaulty(s) == UNCHANGED dying

\* terminate_tracked's first half: prune what has concluded, then insert.
Deposit(s) == dying' = (dying \ Concluded) \cup {s}

-----------------------------------------------------------------------------
(* create_local_session *)

CreateEnter(s) ==
    /\ creates[s] = "idle"
    /\ \E p \in {"exit", "keep"} : persistence' = [persistence EXCEPT ![s] = p]
    /\ creates' = [creates EXCEPT ![s] = "entered"]
    /\ UNCHANGED <<owner_lock, owner_closed, owned, table, reclassed, process, use,
                   closing, dying, service>>

\* The count is raised before the flag is read.  Then a first look at the owner.
CreateAdmit(s) ==
    /\ creates[s] = "entered"
    /\ s \in owned => owner_lock = None
    /\ creates' = [creates EXCEPT ![s] =
           IF admissions_closed \/ (s \in owned /\ owner_closed) THEN "done" ELSE "spawning"]
    /\ UNCHANGED <<owner_lock, owner_closed, owned, table, class, process, use,
                   closing, dying, service>>

CreateSpawn(s) ==
    /\ creates[s] = "spawning"
    /\ \/ /\ creates' = [creates EXCEPT ![s] = "spawned"]
          /\ reader' = [reader EXCEPT ![s] = "running"]
       \/ /\ creates' = [creates EXCEPT ![s] = "done"]      \* no child
          /\ UNCHANGED reader
       \/ /\ s \in Unpainted           \* a child that nobody knows
          /\ creates' = [creates EXCEPT ![s] = "done"]
          /\ reader' = [reader EXCEPT ![s] = "running"]
    /\ UNCHANGED <<owner_lock, owner_closed, owned, table, class, started, requested,
                   bounded, ladder_failed, use, closing, dying, service>>

\* The second look at the owner and at admissions, under the owner lock, which
\* an accepted create holds across its insert.
CreateLock(s) ==
    /\ creates[s] = "spawned"
    /\ owner_lock = None
    /\ IF s \in owned /\ owner_closed
       THEN creates' = [creates EXCEPT ![s] = "refused_owner"] /\ UNCHANGED owner_lock
       ELSE IF admissions_closed
       THEN creates' = [creates EXCEPT ![s] = "refused_shutdown"] /\ UNCHANGED owner_lock
       ELSE creates' = [creates EXCEPT ![s] = "inserting"] /\ owner_lock' = s
    /\ UNCHANGED <<owner_closed, owned, table, class, process, use, closing, dying,
                   service>>

CreateInsert(s) ==
    /\ creates[s] = "inserting"
    /\ registry_lock = None
    /\ registry' = registry \cup {s}
    /\ owner_lock' = None
    /\ creates' = [creates EXCEPT ![s] = "inserted"]
    /\ UNCHANGED <<owner_closed, owned, registry_lock, tombstones, removals, class,
                   process, use, closing, dying, service>>

\* Fault: a child that died during its spawn stays.
CreateRetainFaulty(s) ==
    /\ creates[s] = "inserted"
    /\ registry_lock = None
    /\ creates' = [creates EXCEPT ![s] = "done"]
    /\ UNCHANGED <<owner_lock, owner_closed, owned, table, class, process, use,
                   closing, dying, service>>

\* The child may have died, and on_exit run, before the insert.
CreateRetain(s) ==
    /\ creates[s] = "inserted"
    /\ registry_lock = None
    /\ IF ~HasExited(s) \/ persistence[s] = "keep"
       THEN UNCHANGED <<registry, removals, tombstones>>
       ELSE Remove(s)
    /\ creates' = [creates EXCEPT ![s] = "done"]
    /\ UNCHANGED <<owner_lock, owner_closed, owned, registry_lock, class, process, use,
                   closing, dying, service>>

\* A refused create: its session is tracked, then told to end.
CreateDeposit(s) ==
    /\ creates[s] \in {"refused_owner", "refused_shutdown"}
    /\ Deposit(s)
    /\ creates' = [creates EXCEPT ![s] =
                      IF @ = "refused_owner" THEN "doomed_owner" ELSE "doomed_shutdown"]
    /\ UNCHANGED <<owner_lock, owner_closed, owned, table, class, process, use,
                   closing, service>>

CreateRefused(s) ==
    /\ creates[s] \in {"doomed_owner", "doomed_shutdown"}
    /\ bounded' = IF creates[s] = "doomed_shutdown" /\ deadline
                  THEN bounded \cup {s} ELSE bounded
    /\ LET source == IF creates[s] = "doomed_owner" THEN "user" ELSE "shutdown"
       IN  Terminate(s, source) \/ TerminateFails(s, source)
    /\ creates' = [creates EXCEPT ![s] = "done"]
    /\ UNCHANGED <<owner_lock, owner_closed, owned, table, class, reader, use,
                   closing, dying, service>>

Create(s) ==
    \/ CreateAdmit(s) \/ CreateSpawn(s) \/ CreateLock(s)
    \/ CreateInsert(s) \/ CreateRetain(s) \/ CreateDeposit(s) \/ CreateRefused(s)

-----------------------------------------------------------------------------
(* The reader thread: exit, on_exit after the child is reaped, conclusion. *)

ReaderExit(s) ==
    /\ reader[s] = "running"
    /\ reader' = [reader EXCEPT ![s] = "exited"]
    /\ UNCHANGED <<tasks, table, class, started, requested, bounded, ladder_failed, use,
                   closing, dying, service>>

\* Fault: the class is not looked at.
OnExitFaulty(s) ==
    /\ reader[s] = "exited"
    /\ registry_lock = None
    /\ Remove(s)
    /\ reader' = [reader EXCEPT ![s] = "decided"]
    /\ UNCHANGED <<tasks, registry_lock, class, started, requested, bounded,
                   ladder_failed, use, closing, dying, service>>

\* on_exit reads the class under the lock it removes under.
OnExit(s) ==
    /\ reader[s] = "exited"
    /\ registry_lock = None
    /\ IF s \in registry /\ persistence[s] = "keep"
       THEN UNCHANGED <<registry, removals, tombstones>>
       ELSE Remove(s)
    /\ reader' = [reader EXCEPT ![s] = "decided"]
    /\ UNCHANGED <<tasks, registry_lock, class, started, requested, bounded,
                   ladder_failed, use, closing, dying, service>>

ReaderConclude(s) ==
    /\ reader[s] = "decided"
    /\ reader' = [reader EXCEPT ![s] = "concluded"]
    /\ UNCHANGED <<tasks, table, class, started, requested, bounded, ladder_failed, use,
                   closing, dying, service>>

-----------------------------------------------------------------------------
(* Clients: views, input, retention, terminate, close-owner, release. *)

\* Fault: the seal is not looked at.
AttachFaulty(s) ==
    /\ Known(s) /\ s \notin views
    /\ views' = views \cup {s}
    /\ UNCHANGED <<tasks, table, class, process, used, released, closing, dying, service>>

\* attach_view*, take_over_view: refused after the release.  The handle may have
\* been looked up before the session left the registry.
Attach(s) ==
    /\ Known(s) /\ s \notin views
    /\ released[s] = None
    /\ views' = views \cup {s}
    /\ UNCHANGED <<tasks, table, class, process, used, released, closing, dying, service>>

\* The last view detaches: no lock but the authority's.
Detach(s) ==
    /\ s \in views
    /\ views' = views \ {s}
    /\ UNCHANGED <<tasks, table, class, process, used, released, closing, dying, service>>

\* authorize_and_enqueue, automation_input: accepted input that consumes the session.
Input(s) ==
    /\ Known(s) /\ s \notin used
    /\ released[s] = None
    /\ used' = used \cup {s}
    /\ UNCHANGED <<tasks, table, class, process, views, released, closing, dying, service>>

SetPersistence(s) ==
    /\ registry_lock = None /\ s \in registry
    /\ persistence' = [persistence EXCEPT ![s] = IF @ = "keep" THEN "exit" ELSE "keep"]
    /\ reclassed' = IF reader[s] \in {"decided", "concluded"}
                  THEN reclassed \cup {s} ELSE reclassed
    /\ UNCHANGED <<tasks, table, process, use, closing, dying, service>>

\* The terminate command finds the session and detaches the caller's views.
TerminateFound(s) ==
    /\ registry_lock = None /\ s \in registry
    /\ closing["terminate"][s] = "none"
    /\ closing' = [closing EXCEPT !["terminate"][s] = "found"]
    /\ \/ UNCHANGED views
       \/ s \in views /\ views' = views \ {s}
    /\ UNCHANGED <<tasks, table, class, process, used, released, dying, service>>

\* CloseOwner's transaction: some sessions move to another owner, the others
\* are closed one after the other, after the lock is dropped.
CloseOwner ==
    /\ owner_lock = None /\ registry_lock = None /\ ~owner_closed
    /\ owner_closed' = TRUE
    /\ \E moved \in SUBSET (registry \cap owned) :
          /\ owned' = owned \ moved
          /\ closing' = [closing EXCEPT !["owner"] =
                            [s \in Sessions |-> IF s \in (registry \cap owned) \ moved
                                                THEN "found" ELSE "none"]]
    /\ UNCHANGED <<creates, owner_lock, table, class, process, use, dying, service>>

CloseDeposit(k, s) ==
    /\ closing[k][s] = "found"
    /\ Deposit(s)
    /\ closing' = [closing EXCEPT ![k][s] = "deposited"]
    /\ UNCHANGED <<tasks, table, class, process, use, service>>

\* A failed ladder ends a terminate command; the closing of an owner goes on.
CloseLadder(k, s) ==
    /\ closing[k][s] = "deposited"
    /\ \/ /\ Terminate(s, "user")
          /\ closing' = [closing EXCEPT ![k][s] = "terminated"]
       \/ /\ TerminateFails(s, "user")
          /\ closing' = [closing EXCEPT ![k][s] =
                            IF k = "owner" THEN "terminated" ELSE "none"]
    /\ UNCHANGED <<tasks, table, class, reader, bounded, use, dying, service>>

CloseRemove(k, s) ==
    /\ closing[k][s] = "terminated"
    /\ registry_lock = None
    /\ Remove(s)
    /\ closing' = [closing EXCEPT ![k][s] = "none"]
    /\ UNCHANGED <<tasks, registry_lock, class, process, use, dying, service>>

Close(k, s) == CloseDeposit(k, s) \/ CloseLadder(k, s) \/ CloseRemove(k, s)

\* release_if's conditions.  The activity a running shell reports is open.
Releasable(s, condition) ==
    /\ s \notin views
    /\ IF condition = "exited" THEN HasExited(s) ELSE s \notin used

\* ReleaseSession takes the registry's write lock, and release_if seals.
ReleaseSeal(s, condition) ==
    /\ registry_lock = None /\ s \in registry
    /\ Releasable(s, condition)
    /\ \/ /\ Terminate(s, "application")
          /\ released' = [released EXCEPT ![s] = condition]
          /\ registry_lock' = s
       \/ TerminateFails(s, "application") /\ UNCHANGED <<released, registry_lock>>
    /\ UNCHANGED <<tasks, registry, tombstones, removals, class, reader, bounded, views,
                   used, closing, dying, service>>

\* Still under the write lock: track, then remove.  The ladder has started.
ReleaseRemove(s) ==
    /\ registry_lock = s
    /\ Deposit(s)
    /\ Remove(s)
    /\ registry_lock' = None
    /\ UNCHANGED <<tasks, class, process, use, closing, service>>

-----------------------------------------------------------------------------
(* drain: announce, publish the deadline, close admissions, pass the owner   *)
(* lock, then look at what is live until nothing is.                         *)

DrainAnnounce ==
    /\ drain.pc = "off"
    /\ announced' = TRUE
    /\ drain' = [drain EXCEPT !.pc = "announced"]
    /\ UNCHANGED <<tasks, table, class, process, use, closing, dying, deadline,
                   admissions_closed>>

\* Fault: admissions close before the deadline is there to read.
DrainPublishFaulty ==
    /\ drain.pc = "announced"
    /\ admissions_closed' = TRUE
    /\ drain' = [drain EXCEPT !.pc = "bounded"]
    /\ UNCHANGED <<tasks, table, class, process, use, closing, dying, announced, deadline>>

DrainPublish ==
    /\ drain.pc = "announced"
    /\ deadline' = TRUE
    /\ drain' = [drain EXCEPT !.pc = "bounded"]
    /\ UNCHANGED <<tasks, table, class, process, use, closing, dying, announced,
                   admissions_closed>>

DrainCloseAdmissions ==
    /\ drain.pc = "bounded"
    /\ admissions_closed' = TRUE
    /\ drain' = [drain EXCEPT !.pc = "closed"]
    /\ UNCHANGED <<tasks, table, class, process, use, closing, dying, announced, deadline>>

DrainBarrier ==
    /\ drain.pc = "closed"
    /\ owner_lock = None
    /\ drain' = [drain EXCEPT !.pc = "count"]
    /\ UNCHANGED <<tasks, table, class, process, use, closing, dying, announced, deadline,
                   admissions_closed>>

\* The count is read before the snapshot.
DrainCount ==
    /\ drain.pc = "count"
    /\ drain' = [drain EXCEPT !.pc = "registry", !.in_flight = InFlight # {}]
    /\ UNCHANGED <<tasks, table, class, process, use, closing, dying, announced, deadline,
                   admissions_closed>>

\* live_sessions: the registry, then, with its lock released, the dying set.
DrainRegistry ==
    /\ drain.pc = "registry"
    /\ registry_lock = None
    /\ drain' = [drain EXCEPT !.pc = "dying", !.live = registry \ Concluded]
    /\ UNCHANGED <<tasks, table, class, process, use, closing, dying, announced, deadline,
                   admissions_closed>>

\* Fault: the sessions already dying outside the registry are not seen.
DrainDyingFaulty ==
    /\ drain.pc = "dying"
    /\ drain' = IF drain.live # {}
                THEN [drain EXCEPT !.pc = "terminate", !.todo = drain.live]
                ELSE [drain EXCEPT !.pc = IF drain.in_flight THEN "count" ELSE "clean"]
    /\ UNCHANGED <<tasks, table, class, process, use, closing, dying, announced, deadline,
                   admissions_closed>>

\* Fault: what has concluded stays in the set.
DrainDyingFaultyKept ==
    /\ drain.pc = "dying"
    /\ LET live == drain.live \cup dying
       IN  drain' = IF live # {}
                    THEN [drain EXCEPT !.pc = "terminate", !.live = live, !.todo = live]
                    ELSE [drain EXCEPT !.pc = IF drain.in_flight THEN "count" ELSE "clean"]
    /\ UNCHANGED <<tasks, table, class, process, use, closing, dying, announced, deadline,
                   admissions_closed>>

DrainDying ==
    /\ drain.pc = "dying"
    /\ dying' = dying \ Concluded
    /\ LET live == drain.live \cup dying'
       IN  drain' = IF live # {}
                    THEN [drain EXCEPT !.pc = "terminate", !.live = live, !.todo = live]
                    ELSE [drain EXCEPT !.pc = IF drain.in_flight THEN "count" ELSE "clean"]
    /\ UNCHANGED <<tasks, table, class, process, use, closing, announced, deadline,
                   admissions_closed>>

\* terminate_within for each; an error is logged and the session awaited anyway.
DrainTerminate(s) ==
    /\ drain.pc = "terminate" /\ s \in drain.todo
    /\ bounded' = bounded \cup {s}
    /\ Terminate(s, "shutdown") \/ TerminateFails(s, "shutdown")
    /\ drain' = [drain EXCEPT !.todo = @ \ {s},
                              !.pc = IF drain.todo = {s} THEN "await" ELSE @]
    /\ UNCHANGED <<tasks, table, class, reader, use, closing, dying, announced, deadline,
                   admissions_closed>>

\* When all have concluded, it looks again: a create may have been refused since.
DrainAwait(s) ==
    /\ drain.pc = "await" /\ s \in drain.live /\ s \in Concluded
    /\ drain' = [drain EXCEPT !.live = @ \ {s},
                              !.pc = IF drain.live = {s} THEN "count" ELSE @]
    /\ UNCHANGED <<tasks, table, class, process, use, closing, dying, announced, deadline,
                   admissions_closed>>

\* The budget is spent: the report names what is still live.
DrainExpire ==
    /\ drain.pc \in {"count", "await"}
    /\ drain' = [drain EXCEPT !.pc = "expired"]
    /\ UNCHANGED <<tasks, table, class, process, use, closing, dying, announced, deadline,
                   admissions_closed>>

Drain ==
    \/ DrainPublish \/ DrainCloseAdmissions \/ DrainBarrier \/ DrainCount
    \/ DrainRegistry \/ DrainDying
    \/ \E s \in Sessions : DrainTerminate(s) \/ DrainAwait(s)

-----------------------------------------------------------------------------

Reader(s) == OnExit(s) \/ ReaderConclude(s)

Client(s) ==
    \/ Attach(s) \/ Detach(s) \/ Input(s) \/ SetPersistence(s) \/ TerminateFound(s)
    \/ \E condition \in {"unused", "exited"} : ReleaseSeal(s, condition)

Next ==
    \/ \E s \in Sessions :
          CreateEnter(s) \/ Create(s) \/ ReaderExit(s) \/ Reader(s)
    \/ \E s \in Targets : Client(s) \/ ReleaseRemove(s)
    \/ \E k \in Closers, s \in Sessions : Close(k, s)
    \/ CloseOwner
    \/ DrainAnnounce \/ Drain \/ DrainExpire

\* Threads and tasks that have begun go on, whichever of them is scheduled, and
\* a ladder that has started ends its session: its last rung forces the reader
\* to stop.  Nobody must create, attach, close or shut down, and no child must
\* exit by itself.
Running ==
    \/ \E s \in Sessions :
          \/ Create(s) \/ (s \in started /\ ReaderExit(s)) \/ Reader(s)
          \/ \E k \in Closers : Close(k, s)
    \/ \E s \in Targets : ReleaseRemove(s)

Fairness == WF_vars(Running) /\ WF_vars(Drain)

Spec == Init /\ [][Next]_vars /\ Fairness

-----------------------------------------------------------------------------
(* Safety *)

\* A drain that ends within its budget leaves no create that can still succeed
\* and no child whose terminal is open.  What has not been reaped yet is a
\* session nobody told to end (drain and live_sessions, service.rs:2077-2233).
DrainMissesNothing ==
    drain.pc = "clean" =>
        \A s \in Sessions :
            /\ creates[s] \in {"idle", "entered", "done"}
            /\ reader[s] # "running"
            /\ s \in started => reader[s] = "concluded"

\* A session a client, its owner's closing or a refused create told to end is
\* in the registry or in the dying set until it has concluded (DyingSessions).
TerminatingIsTracked ==
    \A s \in started \ Concluded :
        requested[s] # "shutdown" => s \in registry \cup dying

\* The create's own check and on_exit race; between them no concluded session
\* stays registered unless its class keeps it, or was only set afterwards.
NothingLingers ==
    \A s \in registry \cap Concluded :
        creates[s] = "done" /\ persistence[s] = "exit" => s \in reclassed

\* Whatever paths race to remove a session, it leaves the registry once, with
\* one Removed event and a tombstone of its own (remove_with_cause_locked).
LeavesOnce ==
    \A s \in Sessions :
        /\ removals[s] <= 1
        /\ removals[s] = 1 <=> tombstones[s] # None
        /\ s \in registry => tombstones[s] = None

\* A released session is never viewed again, and one released as unused is
\* never used: release_if's checks and its seal are one step to every client.
ReleaseIsSealed ==
    \A s \in Sessions :
        /\ released[s] # None => s \notin views
        /\ released[s] = "unused" => s \notin used

\* A ladder the shutdown starts, the drain's own or a refused create's, comes
\* after the host's announcement and is bounded by the drain's deadline.
ShutdownIsBounded ==
    \A s \in started : requested[s] = "shutdown" => announced /\ s \in bounded

\* A session kept until it is closed leaves the registry by a close or a
\* release only: set-persistence and on_exit decide under one lock.
KeptUntilClosed ==
    [][\A s \in registry \ registry' :
         persistence[s] = "keep" =>
             registry_lock = s \/ \E k \in Closers : closing[k][s] = "terminated"]_vars

-----------------------------------------------------------------------------
(* Liveness *)

\* A shutdown reports: no create, close or release the drain races keeps it
\* from finding nothing left, unless a ladder could not be started.
DrainConcludes ==
    (drain.pc # "off") ~> (drain.pc \in {"clean", "expired"} \/ ladder_failed)

-----------------------------------------------------------------------------
(* What the code says of itself, and does not keep *)

\* A create's count is released "always after the session it produced has been
\* made visible in the registry or the dying set" (CreateInFlight,
\* service.rs:1230-1235).  A create that fails once its child runs forgets it.
ReleasedOnceVisible ==
    \A s \in Sessions :
        creates[s] = "done" /\ reader[s] = "running" => s \in registry \cup dying
=============================================================================
