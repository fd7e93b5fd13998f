---------------------------- MODULE RemoteSession ----------------------------
(***************************************************************************)
(* The viewer's side of one remote session: its lifecycle, the engine that *)
(* brings it back after a loss, the panes (views) it is shown in, and the  *)
(* one state stream that feeds its replica.                                *)
(*                                                                         *)
(*   ghosttea-truffle/src/lib.rs   SessionLifecycle, reconnect_engine,     *)
(*                                 attach_view and its state reader,       *)
(*                                 resume_once, establish_feed,            *)
(*                                 reestablish_feed, attach_secondaries,   *)
(*                                 detach_view, fail_connection            *)
(*                                                                         *)
(* A step is what one task does between two awaits.  The `attempts` mutex  *)
(* is held by at most one job, `holder`; the jobs waiting for it are in    *)
(* `queue`.  The host speaks the reconnect minor: a view that is not the   *)
(* feed declines its state stream, and wire identities do not rotate.      *)
(* Views are numbers: the feed election takes the smallest.                *)
(***************************************************************************)
EXTENDS Integers, Sequences, FiniteSets, FiniteSetsExt

CONSTANTS
    Views,           \* local view ids
    Opened,          \* those the session is opened in
    MaxConnections,  \* dials that succeed
    MaxGeneration,   \* state generations told apart at a time
    MaxFaults,       \* losses, refusals, timeouts, the end of the session
    MaxOps,          \* commands of the clients
    None

ASSUME ViewsOK == /\ Views \subseteq Nat \ {0} /\ IsFiniteSet(Views) /\ None \notin Views
                  /\ Opened \subseteq Views

ASSUME BoundsOK == /\ MaxConnections \in Nat \ {0} /\ MaxGeneration \in Nat \ {0}
                   /\ MaxFaults \in Nat /\ MaxOps \in Nat

VARIABLES
    \* LifecycleState: the state, its generation, the bound connection, the
    \* (generation, incarnation) already torn down
    state, generation, incarnation, disconnected,
    \* LifecycleState.views and feed_view_id
    records, feed,
    \* MeshRuntime.views, and the state readers ever spawned
    entries, readers,
    \* Connections dialed, those still up, the cached one, their heartbeats
    dialed, up, cached, beats,
    \* The attempts mutex
    holder, queue,
    \* The reconnect engine, and whether lifecycle.engine holds a handle
    engine, handle,
    \* detach_view under way; the host; budgets spent
    detaching, gone, faults, ops

lifecycle == <<state, generation, incarnation, disconnected>>
panes == <<records, feed>>
mesh == <<entries, readers>>
network == <<dialed, up, cached, beats>>
work == <<holder, queue>>
engines == <<engine, handle>>
world == <<gone, faults, ops>>
vars == <<lifecycle, panes, mesh, network, work, engines, detaching, world>>

Recorded == {v \in Views : records[v] # "none"}
Pended == [v \in Views |-> IF records[v] = "none" THEN "none" ELSE "pending"]

\* What occupies or waits for the attempts mutex.
Job(kind, by, view, todo, activation) ==
    [kind |-> kind, by |-> by, view |-> view, todo |-> todo, generation |-> activation]
Jobs == queue \cup (IF holder = None THEN {} ELSE {holder.job})

\* The verdicts of attach_view_attempt, with the failure of a recovery whose
\* snapshot never came.
Verdicts == {"failed", "ended", "superseded", "invalid", "rejected", "abandoned"}

JobType ==
    [kind : {"attach", "resume", "promote", "secondaries"},
     by : {"client", "refresh", "manual", "detach", "runtime", "engine"},
     view : Views \cup {None}, todo : SUBSET Views, generation : 0..MaxGeneration]

HolderType ==
    [job : JobType, view : Views \cup {None}, feed : BOOLEAN,
     pc : Verdicts \cup {"retire", "dial", "list", "connect", "asked", "stream", "snapshot"},
     connection : 0..MaxConnections, generation : 0..MaxGeneration,
     again : BOOLEAN, resuming : BOOLEAN, reader : Nat]

ASSUME NoneHolds == None \notin HolderType

EntryType ==
    [generation : 1..MaxGeneration, incarnation : 1..MaxConnections, reader : 0..Len(readers)]

ASSUME NoneShown == None \notin [generation : Nat, incarnation : Nat, reader : Nat]

ReaderType ==
    [generation : 0..MaxGeneration, incarnation : 0..MaxConnections, cancelled : BOOLEAN,
     synchronized : BOOLEAN, pc : {"reading", "left", "failed", "verdict", "arming", "gone"}]

BeatType ==
    [pc : {"none", "beating", "verdict", "arming", "stopped"},
     doomed : SUBSET (1..MaxGeneration)]

TypeOK ==
    /\ state \in {"opening", "synchronizing", "live", "reconnecting", "suspended", "ended"}
    /\ generation \in 1..MaxGeneration
    /\ incarnation \in 0..MaxConnections
    /\ disconnected \in {None} \cup ((1..MaxGeneration) \X (1..MaxConnections))
    /\ records \in [Views -> {"none", "pending", "attached", "failed"}]
    /\ feed \in Views \cup {None}
    /\ entries \in [Views -> {None} \cup EntryType]
    /\ readers \in Seq(ReaderType)
    /\ dialed \in 0..MaxConnections /\ up \subseteq 1..dialed /\ cached \in 0..dialed
    /\ beats \in [1..MaxConnections -> BeatType]
    /\ holder \in {None} \cup HolderType /\ queue \subseteq JobType
    /\ engine \in {"none", "decide", "waiting", "parked", "working", "returned"}
    /\ handle \in BOOLEAN /\ gone \in BOOLEAN /\ detaching \subseteq Views
    /\ faults \in 0..MaxFaults /\ ops \in 0..MaxOps

Init ==
    /\ state = "opening" /\ generation = 1 /\ incarnation = 0 /\ disconnected = None
    /\ records = [v \in Views |-> "none"] /\ feed = None
    /\ entries = [v \in Views |-> None] /\ readers = <<>>
    /\ dialed \in {0, 1} /\ up = 1..dialed /\ cached = dialed
    /\ beats = [c \in 1..MaxConnections |->
                  [pc |-> IF c = dialed THEN "beating" ELSE "none", doomed |-> {}]]
    /\ holder = None
    /\ queue = {[kind |-> "attach", by |-> "client", view |-> v, todo |-> {},
                 generation |-> 0] : v \in Opened}
    /\ engine = "none" /\ handle = FALSE
    /\ detaching = {} /\ gone = FALSE /\ faults = 0 /\ ops = 0

-----------------------------------------------------------------------------
(* SessionLifecycle. *)

\* admit_state: both identifiers must be current.
Admitted(r) ==
    /\ readers[r].generation = generation
    /\ readers[r].incarnation = incarnation

\* Generations that something still holds.  They are only ever compared for
\* equality, so one that nothing holds may stand for the next.
InUse == {generation}
    \cup {entries[v].generation : v \in {w \in Views : entries[w] # None}}
    \cup {readers[r].generation : r \in DOMAIN readers}
    \cup (IF disconnected = None THEN {} ELSE {disconnected[1]})
    \cup UNION {beats[c].doomed : c \in 1..MaxConnections}
    \cup {j.generation : j \in Jobs}
    \cup (IF holder = None THEN {} ELSE {holder.generation})

\* advance_generation: every reader and attempt so far is of the past.
Advance ==
    LET free == (1..MaxGeneration) \ InUse IN free # {} /\ generation' = Min(free)

\* Fault: the incarnation is not compared.
DisconnectsFaulty(g, c) ==
    /\ generation = g
    /\ disconnected # <<g, c>>
    /\ state \notin {"ended", "suspended"}

\* commit_disconnect's comparisons.
Disconnects(g, c) ==
    /\ generation = g /\ incarnation = c
    /\ disconnected # <<g, c>>
    /\ state \notin {"ended", "suspended"}

\* commit_disconnect when they all hold.
Disconnect(g, c) ==
    /\ disconnected' = <<g, c>>
    /\ records' = Pended
    /\ state' = "reconnecting"

\* elect_feed over the records `recs`: the smallest view not refused.
Elected(recs) ==
    LET eligible == {v \in Views : recs[v] \notin {"none", "failed"}} IN
    IF eligible = {} THEN None ELSE Min(eligible)

\* The engine's task aborted: its job leaves the mutex and its queue.
Dropped(h) == IF h # None /\ h.job.by = "engine" THEN None ELSE h
Unqueued(q) == {j \in q : j.by # "engine"}

\* Fault: an engine that has returned is taken for one that runs.
ArmFaulty(h, q) ==
    IF state = "ended" \/ handle
    THEN holder' = h /\ queue' = q /\ UNCHANGED engines
    ELSE /\ engine' = "decide" /\ handle' = TRUE
         /\ holder' = Dropped(h) /\ queue' = Unqueued(q)

\* arm_reconnect with the mutex as `h` and `q` leave it.
Arm(h, q) ==
    IF state = "ended"
    THEN holder' = h /\ queue' = q /\ UNCHANGED engines
    ELSE /\ engine' = "decide" /\ handle' = TRUE
         /\ holder' = Dropped(h) /\ queue' = Unqueued(q)

\* cancel_engine, the same way.
Cancel(h, q) ==
    /\ engine' = "none" /\ handle' = FALSE
    /\ holder' = Dropped(h) /\ queue' = Unqueued(q)

\* commit_ended: the engine is cancelled, the views fall to pending, once.
End(h, q) ==
    /\ Cancel(h, q)
    /\ state' = "ended"
    /\ records' = IF state = "ended" THEN records ELSE Pended

-----------------------------------------------------------------------------
(* The runtime's tables. *)

\* The readers once the entries of `vs` are retired: theirs are cancelled.
Cancelled(vs) ==
    [r \in DOMAIN readers |->
        IF \E v \in vs : entries[v] # None /\ entries[v].reader = r
        THEN [readers[r] EXCEPT !.cancelled = TRUE] ELSE readers[r]]

\* retire_view, retire_session_views.
Retire(vs) ==
    /\ readers' = Cancelled(vs)
    /\ entries' = [v \in Views |-> IF v \in vs THEN None ELSE entries[v]]

\* invalidate_connection, note_connection_failure: uncached and closed.
Invalidate(c) ==
    /\ cached' = IF cached = c THEN 0 ELSE cached
    /\ up' = up \ {c}
    /\ UNCHANGED <<dialed, beats>>

\* remote_connection: the cached connection, or one dialed now.
Connect(c) ==
    \/ c = cached /\ cached # 0 /\ UNCHANGED network
    \/ /\ cached = 0 /\ c = dialed + 1 /\ c <= MaxConnections
       /\ dialed' = c /\ cached' = c /\ up' = up \cup {c}
       /\ beats' = [beats EXCEPT ![c].pc = "beating"]

\* A loss, a refusal or a timeout that nothing here causes.
Fault == faults < MaxFaults /\ faults' = faults + 1 /\ UNCHANGED <<gone, ops>>
Op == ops < MaxOps /\ ops' = ops + 1 /\ UNCHANGED <<gone, faults>>

At(pc) == holder # None /\ holder.pc = pc
Goes(pc) == holder' = [holder EXCEPT !.pc = pc] /\ UNCHANGED <<queue, engines>>
Mark(v, to) == records' = [records EXCEPT ![v] = to]

\* A job that has just taken the mutex.
Held(j, pc) ==
    [job |-> j, pc |-> pc, view |-> j.view, feed |-> FALSE, connection |-> 0,
     generation |-> 0, again |-> FALSE, resuming |-> FALSE, reader |-> 0]

\* A job is over and `next` waits on: the engine looks at the state again.
Released(j, next) ==
    /\ holder' = None /\ queue' = next
    /\ engine' = IF j.by # "engine" THEN engine
                 ELSE IF state' = "live" THEN "returned" ELSE "decide"
    /\ UNCHANGED handle

-----------------------------------------------------------------------------
(* What the clients ask for. *)

Attach(v) ==
    /\ Op
    /\ ~\E j \in Jobs : j.kind = "attach" /\ j.view = v
    /\ v \notin detaching
    /\ queue' = queue \cup {Job("attach", "client", v, {}, 0)}
    /\ UNCHANGED <<lifecycle, panes, mesh, network, holder, engines, detaching>>

\* Fault: the promotion's generation begins before the mutex is taken.
RefreshFaulty ==
    /\ Op
    /\ state = "live"
    /\ Advance
    /\ queue' = queue \cup {Job("promote", "refresh", None, {}, 0)}
    /\ UNCHANGED <<state, incarnation, disconnected, panes, mesh, network, holder,
                   engines, detaching>>

\* refresh_remote of a live session, up to its wait for the mutex.
Refresh ==
    /\ Op
    /\ state = "live"
    /\ queue' = queue \cup {Job("promote", "refresh", None, {}, 0)}
    /\ UNCHANGED <<lifecycle, panes, mesh, network, holder, engines, detaching>>

\* reconnect_session up to its wait for the mutex: one at a time.
Reconnect ==
    LET job == Job("resume", "manual", None, {}, 0) IN
    /\ Op
    /\ job \notin Jobs
    /\ state # "ended"
    /\ state' = "reconnecting"
    /\ IF handle
       THEN /\ engine' = IF engine = "parked" THEN "decide" ELSE engine
            /\ queue' = queue \cup {job}
            /\ UNCHANGED <<holder, handle>>
       ELSE Arm(holder, queue \cup {job})
    /\ UNCHANGED <<generation, incarnation, disconnected, panes, mesh, network, detaching>>

\* retry_view: a view of a live session, not its feed.
Retry(v) ==
    /\ Op
    /\ state = "live" /\ feed # v /\ records[v] \in {"pending", "failed"}
    /\ queue' = queue \cup {Job("secondaries", "client", None, {v}, generation)}
    /\ UNCHANGED <<lifecycle, panes, mesh, network, holder, engines, detaching>>

\* detach_view's bookkeeping: the pane is forgotten, nothing is dialed for a
\* session without panes, and a feed that went is succeeded.
Forget(v) ==
    /\ Mark(v, "none")
    /\ feed' = IF feed = v THEN None ELSE feed
    /\ IF Recorded \subseteq {v} THEN Cancel(holder, queue)
       ELSE /\ queue' = IF feed = v /\ state # "ended"
                        THEN queue \cup {Job("promote", "detach", v, {}, 0)} ELSE queue
            /\ UNCHANGED <<holder, engines>>

\* detach_view: the entry goes first; a view that had one says farewell to the
\* host before the bookkeeping.
Detach(v) ==
    /\ Op
    /\ v \in Recorded \ detaching
    /\ ~\E j \in Jobs : j.kind = "attach" /\ j.view = v
    /\ Retire({v})
    /\ IF entries[v] = None THEN Forget(v) /\ UNCHANGED detaching
       ELSE detaching' = detaching \cup {v} /\ UNCHANGED <<panes, work, engines>>
    /\ UNCHANGED <<lifecycle, network>>

DetachForget(v) ==
    /\ v \in detaching
    /\ detaching' = detaching \ {v}
    /\ Forget(v)
    /\ UNCHANGED <<lifecycle, mesh, network, world>>

-----------------------------------------------------------------------------
(* Jobs take the mutex. *)

\* attach_view up to its first await; a session that has ended refuses.
AttachBegin(j) ==
    /\ holder = None /\ j \in queue /\ j.kind = "attach"
    /\ queue' = queue \ {j}
    /\ holder' = IF state = "ended" THEN None
                 ELSE [Held(j, "retire") EXCEPT !.resuming = state # "live"]
    /\ UNCHANGED <<lifecycle, panes, mesh, network, engines, detaching, world>>

\* A view of a session that is not live starts a generation; the first view
\* takes the feed.
AttachRetire ==
    LET v == holder.view
        anew == holder.resuming /\ state # "opening"
        recorded == [records EXCEPT ![v] = IF @ = "none" THEN "pending" ELSE @]
        chosen == IF feed # None THEN feed ELSE Elected(recorded) IN
    /\ At("retire")
    /\ Retire({v})
    /\ IF anew THEN Advance /\ state' = "reconnecting"
       ELSE UNCHANGED <<generation, state>>
    /\ records' = recorded
    /\ feed' = chosen
    /\ holder' = [holder EXCEPT !.pc = "connect", !.feed = chosen \in {v, None}]
    /\ UNCHANGED <<incarnation, disconnected, network, queue, engines, detaching, world>>

\* session_is_established.
Established ==
    /\ state = "live" /\ feed # None
    /\ entries[feed] # None
    /\ entries[feed].reader # 0 /\ entries[feed].generation = generation

\* resume_attempt, and resume_once up to its dial.
ResumeBegin(j) ==
    /\ holder = None /\ j \in queue /\ j.kind = "resume"
    /\ IF Established
       THEN /\ UNCHANGED state /\ Released(j, queue \ {j})
            /\ UNCHANGED <<generation, incarnation, disconnected, mesh>>
       ELSE /\ Advance
            /\ Retire(Views)
            /\ holder' = Held(j, "dial") /\ queue' = queue \ {j}
            /\ UNCHANGED <<state, incarnation, disconnected, engines>>
    /\ UNCHANGED <<panes, network, detaching, world>>

\* establish_feed's election over `recs`: the elected view is attached as the
\* feed, and with none the session is suspended.
Establish(h, recs, from, waiting) ==
    /\ feed' = Elected(recs)
    /\ IF Elected(recs) = None
       THEN /\ state' = IF from = "ended" THEN "ended" ELSE "suspended"
            /\ Released(h.job, waiting)
       ELSE /\ state' = from
            /\ holder' = [h EXCEPT !.pc = "connect", !.feed = TRUE, !.view = Elected(recs)]
            /\ queue' = waiting /\ UNCHANGED engines

\* reestablish_feed: says so, retires everything, and re-attaches the feed.
PromoteBegin(j) ==
    /\ holder = None /\ j \in queue /\ j.kind = "promote"
    /\ Advance
    /\ records' = Pended
    /\ Retire(Views)
    /\ Establish(Held(j, "connect"), Pended,
                 IF state = "ended" THEN "ended" ELSE "synchronizing", queue \ {j})
    /\ UNCHANGED <<incarnation, disconnected, network, detaching, world>>

\* attach_secondaries' loop with `todo` left: it stops when the activation it
\* belongs to is over.
Secondaries(j, todo, waiting) ==
    IF todo = {} \/ generation # j.generation \/ state # "live"
    THEN Released(j, waiting)
    ELSE /\ holder' = [Held([j EXCEPT !.todo = todo \ {Min(todo)}], "connect")
                         EXCEPT !.view = Min(todo)]
         /\ queue' = waiting /\ UNCHANGED engines

SecondariesBegin(j) ==
    /\ holder = None /\ j \in queue /\ j.kind = "secondaries"
    /\ Secondaries(j, j.todo, queue \ {j})
    /\ UNCHANGED <<lifecycle, panes, mesh, network, detaching, world>>

-----------------------------------------------------------------------------
(* resume_once: dial, list, elect. *)

ResumeDial(c) ==
    /\ At("dial")
    /\ Connect(c)
    /\ incarnation' = c
    /\ holder' = [holder EXCEPT !.pc = "list", !.connection = c]
    /\ UNCHANGED <<state, generation, disconnected, panes, mesh, queue, engines,
                   detaching, world>>

\* No connection is to be had, for a resume or for an attempt.
DialFails ==
    /\ At("dial") \/ At("connect")
    /\ cached = 0
    /\ Fault
    /\ Goes(IF holder.pc = "dial" THEN "abandoned" ELSE "failed")
    /\ UNCHANGED <<lifecycle, panes, mesh, network, detaching>>

\* The host lists the session.
ResumeListed ==
    /\ At("list") /\ holder.connection \in up /\ ~gone
    /\ Establish(holder, records, state, queue)
    /\ UNCHANGED <<generation, incarnation, disconnected, records, mesh, network,
                   detaching, world>>

\* It does not, or does not answer.
ResumeUnlisted ==
    /\ At("list")
    /\ \/ /\ holder.connection \in up /\ gone
          /\ Goes("ended") /\ UNCHANGED <<network, world>>
       \/ /\ IF holder.connection \in up THEN Fault ELSE UNCHANGED world
          /\ Invalidate(holder.connection) /\ Goes("abandoned")
    /\ UNCHANGED <<lifecycle, panes, mesh, detaching>>

-----------------------------------------------------------------------------
(* attach_view_attempt. *)

\* A connection, begin_view_attempt, and AttachView on the wire.
Ask(c) ==
    /\ At("connect")
    /\ Connect(c)
    /\ Mark(holder.view, "pending")
    /\ holder' = [holder EXCEPT !.pc = "asked", !.connection = c,
                                !.generation = generation]
    /\ UNCHANGED <<lifecycle, feed, mesh, queue, engines, detaching, world>>

\* The host refuses, or the answer does not come.
Refused ==
    LET c == holder.connection IN
    /\ At("asked")
    /\ \/ c \notin up /\ Goes("failed") /\ UNCHANGED <<network, world>>
       \/ c \in up /\ gone /\ Goes("ended") /\ Invalidate(c) /\ UNCHANGED world
       \/ /\ c \in up /\ Fault
          /\ \/ Goes("failed") /\ UNCHANGED network
             \/ Goes("superseded") /\ UNCHANGED network
             \/ Goes("invalid") /\ UNCHANGED network
             \/ Goes("rejected") /\ Invalidate(c)
             \/ ~holder.feed /\ Goes("rejected") /\ UNCHANGED network
    /\ UNCHANGED <<lifecycle, panes, mesh, detaching>>

\* Fault: the entry carries the generation its job was queued in.
PublishFaulty(reader) ==
    entries' = [entries EXCEPT ![holder.view] =
                   [generation |-> holder.job.generation,
                    incarnation |-> holder.connection, reader |-> reader]]

\* The entry is published unless its generation is over.  What it displaces
\* is cancelled.
Publish(reader) ==
    entries' = [entries EXCEPT ![holder.view] =
                   [generation |-> holder.generation,
                    incarnation |-> holder.connection, reader |-> reader]]

\* ViewAttached: the connection is bound.  The feed waits for its stream, a
\* view without one is published and attached.
Answered ==
    /\ At("asked") /\ holder.connection \in up /\ ~gone
    /\ incarnation' = holder.connection
    /\ IF holder.feed
       THEN Goes("stream") /\ UNCHANGED <<records, mesh>>
       ELSE IF generation # holder.generation
       THEN Goes("failed") /\ UNCHANGED <<records, mesh>>
       ELSE /\ Publish(0) /\ readers' = Cancelled({holder.view})
            /\ Mark(holder.view, "attached")
            /\ IF holder.job.kind = "attach"
               THEN UNCHANGED <<queue, engines>> /\ holder' = None
               ELSE Secondaries(holder.job, holder.job.todo, queue)
    /\ UNCHANGED <<state, generation, disconnected, feed, network, detaching, world>>

\* The state stream opens: published, its reader spawned, the view attached.
\* A re-attach of a live session's feed waits for no snapshot.
Streams ==
    LET awaits == holder.job.kind # "attach" \/ holder.resuming IN
    /\ At("stream") /\ holder.connection \in up
    /\ IF generation # holder.generation
       THEN Goes("failed") /\ UNCHANGED <<state, records, mesh>>
       ELSE /\ Publish(Len(readers) + 1)
            /\ readers' = Append(Cancelled({holder.view}),
                    [generation |-> generation,
                     incarnation |-> holder.connection, cancelled |-> FALSE,
                     synchronized |-> FALSE, pc |-> "reading"])
            /\ Mark(holder.view, "attached")
            /\ state' = IF state = "ended" THEN state
                        ELSE IF awaits THEN "synchronizing" ELSE "live"
            /\ holder' = IF awaits
                         THEN [holder EXCEPT !.pc = "snapshot", !.reader = Len(readers) + 1]
                         ELSE None
            /\ UNCHANGED <<queue, engines>>
    /\ UNCHANGED <<generation, incarnation, disconnected, feed, network, detaching, world>>

StreamFails ==
    /\ At("stream")
    /\ IF holder.connection \in up THEN Fault ELSE UNCHANGED world
    /\ Goes("failed")
    /\ UNCHANGED <<lifecycle, panes, mesh, network, detaching>>

\* await_first_snapshot, commit_live; a recovery then sends for the others.
Synchronized ==
    LET others == Recorded \ {holder.view}
        next == IF holder.job.kind = "attach" \/ others = {} THEN queue
                ELSE queue \cup {Job("secondaries", "runtime", None, others, generation)} IN
    /\ At("snapshot") /\ readers[holder.reader].synchronized
    /\ state' = IF state = "ended" THEN state ELSE "live"
    /\ Released(holder.job, next)
    /\ UNCHANGED <<generation, incarnation, disconnected, panes, mesh, network,
                   detaching, world>>

\* It never comes: abandon_attempt.
Unsynchronized ==
    /\ At("snapshot") /\ ~readers[holder.reader].synchronized
    /\ IF readers[holder.reader].pc = "gone" THEN UNCHANGED world ELSE Fault
    /\ Advance
    /\ Retire(Views)
    /\ records' = Pended
    /\ state' = IF state = "ended" THEN state ELSE "suspended"
    /\ IF holder.job.kind = "attach" THEN Released(holder.job, queue)
       ELSE Goes("abandoned")
    /\ UNCHANGED <<incarnation, disconnected, feed, network, detaching>>

-----------------------------------------------------------------------------
(* What each kind of job makes of a verdict. *)

\* A terminal verdict ends the session, whoever drew it.
VerdictEnds ==
    /\ At("ended")
    /\ End(IF holder.job.by = "engine" THEN holder ELSE None, queue)
    /\ UNCHANGED <<generation, incarnation, disconnected, feed, mesh, network,
                   detaching, world>>

\* The view is marked failed where the verdict is about a view.
Marked == IF At("abandoned") THEN records
          ELSE [records EXCEPT ![holder.view] = "failed"]

\* A refused identity leaves the feed to the next view, in place.
Reelects ==
    /\ holder # None /\ holder.job.kind \in {"resume", "promote"}
    /\ At("invalid")
    /\ records' = Marked
    /\ Establish(holder, Marked, state, queue)
    /\ UNCHANGED <<generation, incarnation, disconnected, mesh, network, detaching, world>>

\* An attempt the host has seen superseded concludes nothing.
Superseded ==
    /\ holder # None /\ holder.job.kind # "secondaries"
    /\ At("superseded")
    /\ UNCHANGED state
    /\ Released(holder.job, queue)
    /\ UNCHANGED <<generation, incarnation, disconnected, panes, mesh, network,
                   detaching, world>>

\* A failed resume: the connection goes with a failed feed.
ResumeFails ==
    /\ holder # None /\ holder.job.kind = "resume"
    /\ holder.pc \in {"failed", "rejected", "abandoned"}
    /\ records' = Marked
    /\ IF At("failed") THEN Invalidate(cached) ELSE UNCHANGED network
    /\ UNCHANGED state
    /\ Released(holder.job, queue)
    /\ UNCHANGED <<generation, incarnation, disconnected, feed, mesh, detaching, world>>

\* A failed promotion is handed to the engine.  After an ambiguous failure
\* detach_view suspends the session besides.
PromoteFails ==
    /\ holder # None /\ holder.job.kind = "promote"
    /\ holder.pc \in {"failed", "rejected", "abandoned"}
    /\ records' = Marked
    /\ IF At("failed") THEN Invalidate(cached) ELSE UNCHANGED network
    /\ state' = IF holder.job.by = "detach" /\ ~At("rejected")
                THEN "suspended" ELSE "reconnecting"
    /\ engine' = "decide" /\ handle' = TRUE
    /\ holder' = None /\ queue' = Unqueued(queue)
    /\ UNCHANGED <<generation, incarnation, disconnected, feed, mesh, detaching, world>>

\* An ambiguous first failure is tried once more on a fresh connection.
AttachRetries ==
    /\ holder # None /\ holder.job.kind = "attach"
    /\ At("failed") /\ ~holder.again
    /\ Invalidate(cached)
    /\ holder' = [holder EXCEPT !.pc = "connect", !.again = TRUE]
    /\ UNCHANGED <<lifecycle, panes, mesh, queue, engines, detaching, world>>

AttachFails ==
    /\ holder # None /\ holder.job.kind = "attach"
    /\ holder.pc \in {"failed", "invalid", "rejected"}
    /\ At("failed") => holder.again
    /\ records' = Marked
    /\ state' = IF state = "reconnecting" THEN "suspended" ELSE state
    /\ Released(holder.job, queue)
    /\ UNCHANGED <<generation, incarnation, disconnected, feed, mesh, network,
                   detaching, world>>

\* One secondary failing leaves the rest of the session as it is.
SecondaryFails ==
    /\ holder # None /\ holder.job.kind = "secondaries"
    /\ holder.pc \in {"failed", "invalid", "rejected", "superseded"}
    /\ records' = IF At("superseded") THEN records ELSE Marked
    /\ Secondaries(holder.job, holder.job.todo, queue)
    /\ UNCHANGED <<lifecycle, feed, mesh, network, detaching, world>>

-----------------------------------------------------------------------------
(* reconnect_engine. *)

EngineLooks ==
    /\ engine = "decide"
    /\ \/ /\ state \in {"ended", "live"}
          /\ engine' = "returned" /\ UNCHANGED state
       \/ /\ state \notin {"ended", "live"}   \* absent for suspend_after
          /\ engine' = "parked" /\ state' = "suspended"
       \/ /\ state \notin {"ended", "live"}   \* commit_scheduled_retry
          /\ engine' = "waiting" /\ state' = "reconnecting"
    /\ UNCHANGED <<generation, incarnation, disconnected, panes, mesh, network, work,
                   handle, detaching, world>>

\* The delay is over, or cut short: dial, unless discovery says it is useless.
EngineDials ==
    /\ engine = "waiting"
    /\ \/ engine' = "decide" /\ Fault /\ UNCHANGED queue
       \/ /\ engine' = "working" /\ UNCHANGED world
          /\ queue' = queue \cup {Job("resume", "engine", None, {}, 0)}
    /\ UNCHANGED <<lifecycle, panes, mesh, network, holder, handle, detaching>>

\* The device advertises itself again.
EngineWakes ==
    /\ engine = "parked" /\ engine' = "decide"
    /\ UNCHANGED <<lifecycle, panes, mesh, network, work, handle, detaching, world>>

-----------------------------------------------------------------------------
(* The feed's reader, and the heartbeat of a connection. *)

Reading(r) == r \in DOMAIN readers /\ readers[r].pc = "reading"
Leaves(r, pc) == readers' = [readers EXCEPT ![r] =
    IF pc # "gone" THEN [@ EXCEPT !.pc = pc]
    ELSE [generation |-> 0, incarnation |-> 0, cancelled |-> TRUE,
          synchronized |-> @.synchronized, pc |-> pc]]

\* Its first snapshot, from the current generation and connection.
ReaderPublishes(r) ==
    /\ Reading(r) /\ readers[r].incarnation \in up
    /\ Admitted(r) /\ ~readers[r].synchronized
    /\ readers' = [readers EXCEPT ![r].synchronized = TRUE]
    /\ UNCHANGED <<lifecycle, panes, entries, network, work, engines, detaching, world>>

\* SessionEnded, which says nothing about the connection.
ReaderEnds(r) ==
    /\ Reading(r) /\ readers[r].incarnation \in up /\ gone /\ Admitted(r)
    /\ Leaves(r, "left")
    /\ End(holder, queue)
    /\ UNCHANGED <<generation, incarnation, disconnected, feed, entries, network,
                   detaching, world>>

\* Cancelled, or the stream is lost.  A loss that races a cancellation reads
\* as the cancellation.
ReaderStops(r) ==
    /\ Reading(r)
    /\ \/ readers[r].cancelled /\ Leaves(r, "left")
       \/ ~readers[r].cancelled /\ readers[r].incarnation \notin up /\ Leaves(r, "failed")
    /\ UNCHANGED <<lifecycle, panes, entries, network, work, engines, detaching, world>>

\* What the stream carried could not be applied to the replica.
ReaderErrs(r) ==
    /\ Reading(r) /\ ~readers[r].cancelled
    /\ readers[r].incarnation \in up /\ Admitted(r)
    /\ Fault
    /\ Leaves(r, "failed")
    /\ UNCHANGED <<lifecycle, panes, entries, network, work, engines, detaching>>

\* It removes its own entry, and after a failure closes the connection.
ReaderRetires(r) ==
    /\ r \in DOMAIN readers /\ readers[r].pc \in {"left", "failed"}
    /\ entries' = [v \in Views |->
          IF entries[v] # None /\ entries[v].reader = r THEN None ELSE entries[v]]
    /\ IF readers[r].pc = "left" THEN Leaves(r, "gone") /\ UNCHANGED network
       ELSE Leaves(r, "verdict") /\ Invalidate(readers[r].incarnation)
    /\ UNCHANGED <<lifecycle, panes, work, engines, detaching, world>>

ReaderVerdict(r) ==
    LET g == readers[r].generation  c == readers[r].incarnation IN
    /\ r \in DOMAIN readers /\ readers[r].pc = "verdict"
    /\ IF Disconnects(g, c) THEN Disconnect(g, c) /\ Leaves(r, "arming")
       ELSE Leaves(r, "gone") /\ UNCHANGED <<disconnected, records, state>>
    /\ UNCHANGED <<generation, incarnation, feed, entries, network, work, engines,
                   detaching, world>>

ReaderArms(r) ==
    /\ r \in DOMAIN readers /\ readers[r].pc = "arming"
    /\ Leaves(r, "gone")
    /\ Arm(holder, queue)
    /\ UNCHANGED <<lifecycle, panes, entries, network, detaching, world>>

\* fail_connection: uncached, and every view riding it retired.
HeartbeatFails(c) ==
    LET doomed == {v \in Views : entries[v] # None /\ entries[v].incarnation = c} IN
    /\ beats[c].pc = "beating" /\ c \notin up
    /\ cached' = IF cached = c THEN 0 ELSE cached
    /\ Retire(doomed)
    /\ beats' = [beats EXCEPT ![c] =
          [pc |-> "verdict", doomed |-> {entries[v].generation : v \in doomed}]]
    /\ UNCHANGED <<lifecycle, panes, dialed, up, work, engines, detaching, world>>

\* A connection closed on this side is no longer watched.
HeartbeatStops(c) ==
    /\ beats[c].pc = "beating" /\ c \notin up /\ cached # c
    /\ beats' = [beats EXCEPT ![c].pc = "stopped"]
    /\ UNCHANGED <<lifecycle, panes, mesh, dialed, up, cached, work, engines,
                   detaching, world>>

HeartbeatVerdict(c) ==
    LET true == {g \in beats[c].doomed : Disconnects(g, c)} IN
    /\ beats[c].pc = "verdict"
    /\ IF true = {} THEN UNCHANGED <<disconnected, records, state>>
       ELSE \E g \in true : Disconnect(g, c)
    /\ beats' = [beats EXCEPT ![c] =
          [pc |-> IF true = {} THEN "stopped" ELSE "arming", doomed |-> {}]]
    /\ UNCHANGED <<generation, incarnation, feed, mesh, dialed, up, cached, work,
                   engines, detaching, world>>

HeartbeatArms(c) ==
    /\ beats[c].pc = "arming"
    /\ beats' = [beats EXCEPT ![c].pc = "stopped"]
    /\ Arm(holder, queue)
    /\ UNCHANGED <<lifecycle, panes, mesh, dialed, up, cached, detaching, world>>

\* commit_host_shutdown: only the bound connection speaks for the session.
HostShutdown(c) ==
    /\ beats[c].pc = "beating" /\ c \in up /\ gone
    /\ beats' = [beats EXCEPT ![c].pc = "stopped"]
    /\ IF incarnation = c THEN End(holder, queue)
       ELSE UNCHANGED <<state, records, work, engines>>
    /\ UNCHANGED <<generation, incarnation, disconnected, feed, mesh, dialed, up,
                   cached, detaching, world>>

-----------------------------------------------------------------------------
(* The network and the host. *)

Loss(c) ==
    /\ c \in up /\ Fault
    /\ up' = up \ {c}
    /\ UNCHANGED <<lifecycle, panes, mesh, dialed, cached, beats, work, engines, detaching>>

HostEnds ==
    /\ ~gone /\ gone' = TRUE
    /\ faults < MaxFaults /\ faults' = faults + 1
    /\ UNCHANGED <<lifecycle, panes, mesh, network, work, engines, detaching, ops>>

Connections == 1..MaxConnections

Commands ==
    \/ \E v \in Views : Attach(v) \/ Retry(v) \/ Detach(v)
    \/ Refresh \/ Reconnect

Acquires == \E j \in queue : AttachBegin(j) \/ ResumeBegin(j) \/ PromoteBegin(j)
                             \/ SecondariesBegin(j)

\* The job that holds the mutex.
Proceeds ==
    \/ AttachRetire
    \/ \E c \in Connections : ResumeDial(c) \/ Ask(c)
    \/ ResumeListed \/ ResumeUnlisted \/ Refused \/ Answered \/ Streams \/ StreamFails
    \/ Synchronized \/ Unsynchronized
    \/ VerdictEnds \/ Reelects \/ Superseded \/ ResumeFails \/ PromoteFails
    \/ AttachRetries \/ AttachFails \/ SecondaryFails

Engine == EngineLooks \/ EngineDials
Reader(r) == ReaderEnds(r) \/ ReaderStops(r) \/ ReaderRetires(r) \/ ReaderVerdict(r)
             \/ ReaderArms(r)
Heartbeat(c) == HeartbeatFails(c) \/ HeartbeatStops(c) \/ HeartbeatVerdict(c)
                \/ HeartbeatArms(c) \/ HostShutdown(c)

Next ==
    \/ Commands \/ Acquires \/ Proceeds \/ DialFails
    \/ \E v \in Views : DetachForget(v)
    \/ Engine \/ EngineWakes
    \/ \E r \in DOMAIN readers : ReaderPublishes(r) \/ ReaderErrs(r) \/ Reader(r)
    \/ \E c \in Connections : Heartbeat(c) \/ Loss(c)
    \/ HostEnds

\* Tasks that can run do; the mutex serves its waiters; a stream that is up
\* delivers its snapshot.  Each reader takes only a few steps, so it is enough
\* that some reader goes on while any can.  Nothing is promised of
\* commands, faults, the end of the host, or a device's return.
Fairness ==
    /\ WF_vars(Acquires) /\ WF_vars(Proceeds) /\ WF_vars(Engine)
    /\ \A v \in Views : WF_vars(DetachForget(v))
    /\ WF_vars(\E r \in DOMAIN readers : ReaderPublishes(r) \/ Reader(r))
    /\ \A c \in Connections : WF_vars(Heartbeat(c))

Spec == Init /\ [][Next]_vars
FairSpec == Spec /\ Fairness

-----------------------------------------------------------------------------

\* At most one state stream is allowed to publish into the replica: panes
\* that fed it together would interleave independent patch sequences.
SingleFeed ==
    \A r, q \in DOMAIN readers :
        (/\ readers[r].pc = "reading" /\ ~readers[r].cancelled /\ Admitted(r)
         /\ readers[q].pc = "reading" /\ ~readers[q].cancelled /\ Admitted(q)) => r = q

\* A session that has ended stays ended: "Ended { reason } - terminal" (the states
\* and invariants of draft/remote-reconnect.md, 174).  commit_reconnecting is the
\* one commit that does not look, and its callers looked before they waited.
EndedIsTerminal ==
    [][state = "ended" => state' = "ended"]_vars

\* A session is only ever torn down by the death of the connection it is bound
\* to, never by a late verdict about one that has been replaced.
OnlyItsConnection ==
    [][disconnected' # disconnected =>
          disconnected'[2] = incarnation /\ incarnation \notin up]_vars

\* No attempt on the wire belongs to a generation that is over: the mutex
\* alone keeps promotions, resumes and attaches out of each other's way, and
\* the fence at publication never has to.
AttemptsAreCurrent ==
    holder # None /\ holder.pc \in {"asked", "stream"} => holder.generation = generation

\* A session that lost its connection is brought back, comes to rest or ends,
\* whatever else is asked of it meanwhile.
LostIsRecovered ==
    disconnected = <<generation, incarnation>> /\ state = "reconnecting"
        ~> state \in {"live", "suspended", "ended"} \/ Recorded = {}
=============================================================================
