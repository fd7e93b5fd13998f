---------------------------- MODULE AttachFence ----------------------------
(***************************************************************************)
(* How the host decides which attach attempts it may forget.               *)
(*                                                                         *)
(* One viewer attaches the views of one shared session over several mesh   *)
(* connections at once.  An attempt may be delayed on its connection for   *)
(* as long as the connection lives, so the authority's watermark must be   *)
(* held until every connection that could still deliver an older attempt   *)
(* is gone.  This module composes ViewAuthority with what decides that:    *)
(*                                                                         *)
(*   the viewer      begin_view_attempt, attach_view_attempt, forget_view  *)
(*   ConnectionLedger  accept, identify, terminated_through, highest_for,  *)
(*                   and finish when the last holder of a scope is done    *)
(*   the handler     handle_application_stream, step by step between its   *)
(*                   awaits and lock acquisitions                          *)
(*                                                                         *)
(* All of it is ghosttea-truffle/src/lib.rs.  One action is one critical   *)
(* section or one await-to-await stretch.                                  *)
(***************************************************************************)
EXTENDS Integers, FiniteSets

CONSTANTS
    Views,          \* stable wire view ids, one lineage each
    Me, Other,      \* this viewer's client id, and another client's
    None,
    MaxWatermarks,  \* MAX_ATTACH_WATERMARKS_PER_CLIENT
    MaxConns,       \* bound: connections accepted
    MaxAttempts,    \* bound: attempts minted
    MaxForgets      \* bound: detach_view calls by the viewer

ASSUME BoundsOK ==
    /\ {MaxWatermarks, MaxConns, MaxAttempts, MaxForgets} \subseteq Nat
    /\ Me # Other /\ {Me, Other} \cap {"absent", "unknown"} = {}

VARIABLES
    \* ViewAuthority
    views, controller, next_control_epoch, next_attachment_epoch,
    control_revision, attach_watermarks, size, layout_epoch, streams, applied,
    \* ConnectionLedger
    next_connection_id,   \* NEXT_CONNECTION_ID: ids handed out so far
    stamping,             \* ids an accept loop has fetched but not yet inserted
    live,                 \* conn id -> "absent", "unknown" or the owner
    highest_accepted,
    transport,            \* conn id -> "none", "up" or "closed"
    \* The viewer
    generation,           \* view -> ViewRecord.generation
    minted, forgets,      \* attempts and detaches so far
    \* Attempts, each with the handler that serves it
    attempts,
    \* History
    winner                \* view -> the last attempt taken over, 0 if none

Conns == 1..MaxConns
Attempts == 1..MaxAttempts

Auth == INSTANCE ViewAuthority WITH
    Clients <- {Me, Other}, Sizes <- {"size"}, Generations <- Attempts,
    ConnIds <- 0..MaxConns, CommandSeqs <- {}, MaxEpoch <- MaxAttempts, MaxClaims <- 0

ASSUME NoneIsNoRecord ==
    None \notin Auth!AttachedView \cup Auth!AttachWatermark \cup Auth!ControllerState

authority == <<views, controller, next_control_epoch, next_attachment_epoch,
               control_revision, attach_watermarks, size, layout_epoch, streams, applied>>
ledger == <<next_connection_id, stamping, live, highest_accepted, transport>>
viewer == <<generation, minted, forgets>>
vars == <<authority, ledger, viewer, attempts, winner>>

\* Stages of an attempt: the viewer's two, then the handler's, in code order.
Stages == {"none", "minted", "sent", "opened", "asking", "collected", "fenced", "attached",
           "answered", "registered", "serving", "detached", "leaving", "gone"}

\* Stages at which the attempt's handler runs, holding the connection's scope.
Holding == {"opened", "asking", "collected", "fenced", "attached", "answered",
            "registered", "serving", "detached", "leaving"}

Attempt ==
    [stage : Stages, view : Views, conn : Conns, generation : Attempts,
     waiting : BOOLEAN,                     \* the viewer awaits the answer
     bound : 0..MaxConns,                   \* terminated_through or fence, as read
     epoch : 0..MaxAttempts]                \* attachment_epoch, once taken over

Unminted == [stage |-> "none", view |-> None, conn |-> 0, generation |-> 0,
             waiting |-> FALSE, bound |-> 0, epoch |-> 0]

TypeOK ==
    /\ Auth!TypeOK
    /\ next_connection_id \in 0..MaxConns
    /\ stamping \subseteq Conns
    /\ live \in [Conns -> {"absent", "unknown", Me, Other}]
    /\ highest_accepted \in 0..MaxConns
    /\ transport \in [Conns -> {"none", "up", "closed"}]
    /\ generation \in [Views -> 0..MaxAttempts]
    /\ minted \in 0..MaxAttempts
    /\ forgets \in 0..MaxForgets
    /\ attempts \in [Attempts -> Attempt \cup {Unminted}]
    /\ winner \in [Views -> 0..MaxAttempts]

Init ==
    /\ Auth!Init
    /\ next_connection_id = 0
    /\ stamping = {}
    /\ live = [n \in Conns |-> "absent"]
    /\ highest_accepted = 0
    /\ transport = [n \in Conns |-> "none"]
    /\ generation = [v \in Views |-> 0]
    /\ minted = 0
    /\ forgets = 0
    /\ attempts = [a \in Attempts |-> Unminted]
    /\ winner = [v \in Views |-> 0]

-----------------------------------------------------------------------------
(***************************************************************************)
(* The connection ledger.                                                  *)
(***************************************************************************)

\* could_belong_to, for a live connection
CouldBelongTo(n, client) == live[n] \in {"unknown", client}

Holders(client) == {n \in Conns : CouldBelongTo(n, client)}

MinOf(S) == CHOOSE n \in S : \A m \in S : n <= m
MaxOf(S) == CHOOSE n \in S : \A m \in S : n >= m

\* terminated_through
TerminatedThrough(client) ==
    IF Holders(client) = {} THEN highest_accepted ELSE MinOf(Holders(client)) - 1

\* Fault: the lowest connection is taken for the highest.
HighestForFaulty(client) ==
    IF Holders(client) = {} THEN highest_accepted ELSE MinOf(Holders(client))

\* highest_for
HighestFor(client) ==
    IF Holders(client) = {} THEN highest_accepted ELSE MaxOf(Holders(client))

\* ConnectionLedger::accept fetches the id without the ledger's lock ...  The
\* QUIC and the compact accept loop share the ledger, so two may be here.
FetchId ==
    /\ next_connection_id < MaxConns
    /\ Cardinality(stamping) < 2
    /\ next_connection_id' = next_connection_id + 1
    /\ stamping' = stamping \cup {next_connection_id'}
    /\ UNCHANGED <<authority, live, highest_accepted, transport, viewer, attempts, winner>>

\* Fault: the id after the accepted one is recorded.
AcceptFaulty(n) ==
    /\ n \in stamping
    /\ stamping' = stamping \ {n}
    /\ live' = [live EXCEPT ![n] = "unknown"]
    /\ highest_accepted' = IF highest_accepted > n THEN highest_accepted ELSE n + 1
    /\ transport' = [transport EXCEPT ![n] = "up"]
    /\ UNCHANGED <<authority, next_connection_id, viewer, attempts, winner>>

\* ... and inserts it under the lock.
Accept(n) ==
    /\ n \in stamping
    /\ stamping' = stamping \ {n}
    /\ live' = [live EXCEPT ![n] = "unknown"]
    /\ highest_accepted' = IF highest_accepted > n THEN highest_accepted ELSE n
    /\ transport' = [transport EXCEPT ![n] = "up"]
    /\ UNCHANGED <<authority, next_connection_id, viewer, attempts, winner>>

\* serve_connection resolves the hello; the viewer can use the connection from
\* here on.
Identify(n, client) ==
    /\ transport[n] = "up"
    /\ live[n] = "unknown"
    /\ live' = [live EXCEPT ![n] = client]
    /\ UNCHANGED <<authority, next_connection_id, stamping, highest_accepted, transport,
                   viewer, attempts, winner>>

\* serve_connection and its accept task end: a peer that hung up, a failed
\* handshake, an idle timeout.  Handlers already spawned go on.
Close(n) ==
    /\ transport[n] = "up"
    /\ transport' = [transport EXCEPT ![n] = "closed"]
    /\ UNCHANGED <<authority, next_connection_id, stamping, live, highest_accepted,
                   viewer, attempts, winner>>

Holds(a, n) == attempts[a].stage \in Holding /\ attempts[a].conn = n

\* Faults: the id leaves with the transport while handlers still run, and one
\* that never identified itself stays for ever.
FinishFaultyEarly(n) ==
    /\ transport[n] = "closed"
    /\ live[n] # "absent"
    /\ live' = [live EXCEPT ![n] = "absent"]
    /\ UNCHANGED <<authority, next_connection_id, stamping, highest_accepted, transport,
                   viewer, attempts, winner>>

FinishFaultyUnknown(n) ==
    /\ transport[n] = "closed"
    /\ live[n] \in {Me, Other}
    /\ \A a \in Attempts : ~Holds(a, n)
    /\ live' = [live EXCEPT ![n] = "absent"]
    /\ UNCHANGED <<authority, next_connection_id, stamping, highest_accepted, transport,
                   viewer, attempts, winner>>

\* The last clone of the scope drops.
Finish(n) ==
    /\ transport[n] = "closed"
    /\ live[n] # "absent"
    /\ \A a \in Attempts : ~Holds(a, n)
    /\ live' = [live EXCEPT ![n] = "absent"]
    /\ UNCHANGED <<authority, next_connection_id, stamping, highest_accepted, transport,
                   viewer, attempts, winner>>

-----------------------------------------------------------------------------
(***************************************************************************)
(* The viewer.                                                             *)
(***************************************************************************)

\* Fault: a retry carries the generation of the attempt it replaces.
MintFaulty(v, n) ==
    /\ minted < MaxAttempts
    /\ transport[n] = "up"
    /\ live[n] = Me
    /\ ~\E b \in Attempts : attempts[b].waiting /\ attempts[b].conn = n
    /\ minted' = minted + 1
    /\ generation' = [generation EXCEPT ![v] = 1]
    /\ attempts' = [attempts EXCEPT ![minted'] =
           [stage |-> "minted", view |-> v, conn |-> n, generation |-> 1,
            waiting |-> TRUE, bound |-> 0, epoch |-> 0]]
    /\ UNCHANGED <<authority, ledger, forgets, winner>>

\* attach_view_attempt, holding the connection's `incoming` lock: the
\* generation is rotated for the connection the attempt is already bound to.
Mint(v, n) ==
    /\ minted < MaxAttempts
    /\ transport[n] = "up"
    /\ live[n] = Me
    /\ ~\E b \in Attempts : attempts[b].waiting /\ attempts[b].conn = n
    /\ minted' = minted + 1
    /\ generation' = [generation EXCEPT ![v] = @ + 1]
    /\ attempts' = [attempts EXCEPT ![minted'] =
           [stage |-> "minted", view |-> v, conn |-> n, generation |-> generation'[v],
            waiting |-> TRUE, bound |-> 0, epoch |-> 0]]
    /\ UNCHANGED <<authority, ledger, forgets, winner>>

To(a, stage) == attempts' = [attempts EXCEPT ![a].stage = stage]

\* AttachView is written; from here the network may delay it.
Write(a) ==
    /\ attempts[a].stage = "minted"
    /\ attempts[a].waiting
    /\ To(a, "sent")
    /\ UNCHANGED <<authority, ledger, viewer, winner>>

\* The handshake times out, or the connection fails under the attempt.  What
\* was not written never will be; what was may still arrive.
GiveUp(a) ==
    /\ attempts[a].waiting
    /\ attempts' = [attempts EXCEPT
           ![a].waiting = FALSE,
           ![a].stage = IF @ = "minted" THEN "gone" ELSE @]
    /\ UNCHANGED <<authority, ledger, viewer, winner>>

\* detach_view drops the view's record: forget_view.
ForgetView(v) ==
    /\ forgets < MaxForgets
    /\ generation[v] > 0
    /\ forgets' = forgets + 1
    /\ generation' = [generation EXCEPT ![v] = 0]
    /\ UNCHANGED <<authority, ledger, minted, attempts, winner>>

-----------------------------------------------------------------------------
(***************************************************************************)
(* handle_application_stream.                                              *)
(***************************************************************************)

At(a, stage) == attempts[a].stage = stage

\* The attachment this handler made is still the view's.
Current(a) ==
    LET v == attempts[a].view
    IN  Auth!Owns(v, Me) /\ Auth!EpochOf(v) = attempts[a].epoch

\* The accept task takes the stream and spawns the handler with its own clone
\* of the scope.
Open(a) ==
    /\ At(a, "sent")
    /\ transport[attempts[a].conn] = "up"
    /\ To(a, "opened")
    /\ UNCHANGED <<authority, ledger, viewer, winner>>

\* The attach is read, from a connection that may have closed meanwhile, and
\* the handler asks the ledger what has terminated ...
AskTerminated(a) ==
    /\ At(a, "opened")
    /\ attempts' = [attempts EXCEPT ![a].stage = "asking",
                                    ![a].bound = TerminatedThrough(Me)]
    /\ UNCHANGED <<authority, ledger, viewer, winner>>

\* ... collects, under the session's lock, by what it was told ...
Collect(a) ==
    /\ At(a, "asking")
    /\ Auth!CollectWatermarks(Me, attempts[a].bound)
    /\ To(a, "collected")
    /\ UNCHANGED <<ledger, viewer, winner>>

\* ... and asks for the fence.
AskFence(a) ==
    /\ At(a, "collected")
    /\ attempts' = [attempts EXCEPT ![a].stage = "fenced",
                                    ![a].bound = HighestFor(Me)]
    /\ UNCHANGED <<authority, ledger, viewer, winner>>

TakeOver(a) ==
    LET v == attempts[a].view
    IN  /\ At(a, "fenced")
        /\ Auth!TakeOver(v, Me, "ReadWrite", attempts[a].generation,
                         attempts[a].bound, TRUE)
        /\ attempts' = [attempts EXCEPT ![a].stage = "attached",
                                        ![a].epoch = next_attachment_epoch']
        /\ winner' = [winner EXCEPT ![v] = a]
        /\ UNCHANGED <<ledger, viewer>>

\* A refusal is answered with AttachRejected, and the handler returns.  (No
\* other client attaches these views, so none is refused as invalid.)
Reject(a) ==
    LET v == attempts[a].view
    IN  /\ At(a, "fenced")
        /\ Auth!StaleResume(v, Me, attempts[a].generation) \/ Auth!ViewLimit(v, Me)
        /\ attempts' = [attempts EXCEPT ![a].stage = "gone", ![a].waiting = FALSE]
        /\ UNCHANGED <<authority, ledger, viewer, winner>>

\* The session is refreshed and ViewAttached written.
Answer(a) ==
    /\ At(a, "attached")
    /\ attempts' = [attempts EXCEPT ![a].stage = "answered", ![a].waiting = FALSE]
    /\ UNCHANGED <<authority, ledger, viewer, winner>>

\* A secondary declines state and goes straight to its control loop.
Decline(a) ==
    /\ At(a, "answered")
    /\ To(a, "serving")
    /\ UNCHANGED <<authority, ledger, viewer, winner>>

Register(a) ==
    /\ At(a, "answered")
    /\ Auth!RegisterStateStream(attempts[a].view, attempts[a].epoch)
    /\ To(a, "registered")
    /\ UNCHANGED <<ledger, viewer, winner>>

\* spawn_state_stream opens the stream, or finds itself cancelled; either way
\* the control loop starts.
SpawnStream(a) ==
    /\ At(a, "registered")
    /\ To(a, "serving")
    /\ UNCHANGED <<authority, ledger, viewer, winner>>

\* Every `?` between spawn and the control loop: an unreadable attach, a failed
\* refresh or write, a registration found stale, a stream that will not open.
\* None of them detaches.
Fail(a) ==
    /\ \/ attempts[a].stage \in {"opened", "attached", "registered"}
       \/ At(a, "answered") /\ ~Current(a)
    /\ To(a, "gone")
    /\ UNCHANGED <<authority, ledger, viewer, winner>>

\* Fault: the view is detached whichever incarnation holds it.
LeaveFaulty(a) ==
    /\ At(a, "serving")
    /\ \/ Auth!Detach(attempts[a].view, Me)
       \/ ~Auth!Owns(attempts[a].view, Me) /\ UNCHANGED authority
    /\ To(a, "detached")
    /\ UNCHANGED <<ledger, viewer, winner>>

\* The control loop ends, by Detach, end of stream or error, and the handler
\* detaches the incarnation it was born with, if it is still the current one.
Leave(a) ==
    /\ At(a, "serving")
    /\ \/ Auth!DetachViewIfEpoch(attempts[a].view, Me, attempts[a].epoch)
       \/ ~Current(a) /\ UNCHANGED authority
    /\ To(a, "detached")
    /\ UNCHANGED <<ledger, viewer, winner>>

\* It asks the ledger once more, its own scope still held, ...
AskOnExit(a) ==
    /\ At(a, "detached")
    /\ attempts' = [attempts EXCEPT ![a].stage = "leaving",
                                    ![a].bound = TerminatedThrough(Me)]
    /\ UNCHANGED <<authority, ledger, viewer, winner>>

\* ... collects, and returns.
CollectOnExit(a) ==
    /\ At(a, "leaving")
    /\ Auth!CollectWatermarks(Me, attempts[a].bound)
    /\ To(a, "gone")
    /\ UNCHANGED <<ledger, viewer, winner>>

-----------------------------------------------------------------------------
Handler(a) ==
    \/ Open(a) \/ AskTerminated(a) \/ Collect(a) \/ AskFence(a) \/ TakeOver(a)
    \/ Reject(a) \/ Answer(a) \/ Decline(a) \/ Register(a) \/ SpawnStream(a)
    \/ Fail(a) \/ Leave(a) \/ AskOnExit(a) \/ CollectOnExit(a)

Next ==
    \/ FetchId
    \/ \E n \in Conns : \/ Accept(n) \/ Close(n) \/ Finish(n)
                        \/ \E client \in {Me, Other} : Identify(n, client)
                        \/ \E v \in Views : Mint(v, n)
    \/ \E v \in Views : ForgetView(v)
    \/ \E a \in Attempts : Write(a) \/ GiveUp(a) \/ Handler(a)

Spec == Init /\ [][Next]_vars

\* A handler that runs goes on, and one in its control loop ends once the
\* transport under it is closed; so does the drop of a connection's scope.
\* Nothing is assumed of the network: a sent attempt need never be opened.
Fairness ==
    /\ \A a \in Attempts :
           /\ WF_vars(Handler(a) /\ attempts[a].stage \in Holding \ {"serving"})
           /\ WF_vars(Leave(a) /\ transport[attempts[a].conn] = "closed")
    /\ \A n \in Conns : WF_vars(Finish(n))

FairSpec == Spec /\ Fairness

-----------------------------------------------------------------------------
(***************************************************************************)
(* Properties of the fence, while a lineage keeps its record.              *)
(***************************************************************************)

\* An attempt that may still reach take_over: written or not, its connection
\* can deliver it, or its handler is already running.
CanArrive(a) ==
    \/ attempts[a].stage \in {"minted", "sent"} /\ transport[attempts[a].conn] = "up"
    \/ attempts[a].stage \in {"opened", "asking", "collected", "fenced"}

\* An older attempt never replaces a newer one, however long it was delayed
\* and whatever was collected meanwhile.  Attempts are numbered as minted.
NoStaleTakeover ==
    [][\A v \in Views : winner'[v] # winner[v] => winner'[v] > winner[v]]_vars

\* As long as an attempt older than the last one taken over can still arrive,
\* the watermark that will refuse it is held, and its fence covers the
\* connection the attempt is on: what the ids stamped at acceptance, the
\* unidentified connections counted for every client, and the scopes held by
\* running handlers are all for.
WatermarkOutlivesDelayed ==
    \A a \in Attempts :
        LET v == attempts[a].view
        IN  CanArrive(a) /\ a < winner[v] =>
                /\ attach_watermarks[Me][v] # None
                /\ attach_watermarks[Me][v].generation >= attempts[a].generation
                /\ attach_watermarks[Me][v].fence_conn_id >= attempts[a].conn

\* The viewer's latest attempt is never refused as stale.
LatestIsNeverStale ==
    \A a \in Attempts :
        (a = minted /\ At(a, "fenced")) =>
            ~Auth!StaleResume(attempts[a].view, Me, attempts[a].generation)

\* A handler that outlives its attachment, or cleans up late, never evicts the
\* attachment that replaced it: a view is detached only by the handler of the
\* attempt that last took it over.
CleanupSparesSuccessor ==
    [][\A v \in Views : Auth!Attached(v) /\ ~Auth!Attached(v)' =>
           At(winner[v], "serving") /\ ~At(winner[v], "serving")']_vars

\* A closed connection leaves the ledger, so the fences below it retire, even
\* if it never said whose it was.
ConnectionsRetire ==
    \A n \in Conns : transport[n] = "closed" ~> live[n] = "absent"

-----------------------------------------------------------------------------
(***************************************************************************)
(* What the code's comments and design say, and the code does not do.      *)
(***************************************************************************)

AllGone(client) == Holders(client) = {} /\ stamping = {}

\* "Ask again on the way out rather than leaving the collection to the
\* client's next attach, which may never come": once a client's connections
\* have all terminated and its views are detached, no watermark is left.
CollectedOnTheWayOut ==
    AllGone(Me) /\ (\A v \in Views : ~Auth!Attached(v)) => Auth!Outstanding(Me) = {}

\* "the host detaches the view when it observes that connection's death": no
\* view stays attached when every connection of its client is dead.
DeathDetaches == AllGone(Me) => \A v \in Views : ~Auth!Attached(v)

\* "the host never sees a reused identity": two attempts on the wire never
\* carry the same generation of the same view.
IdentityNeverReused ==
    \A a, b \in Attempts :
        /\ a # b
        /\ {attempts[a].stage, attempts[b].stage} \subseteq Holding \cup {"sent"}
        /\ attempts[a].view = attempts[b].view
        => attempts[a].generation # attempts[b].generation
=============================================================================
