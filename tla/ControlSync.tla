---------------------------- MODULE ControlSync ----------------------------
(***************************************************************************)
(* How a change of controller reaches a remote viewer, and how the viewer  *)
(* takes an empty seat back.                                               *)
(*                                                                         *)
(*   the host's session     ghosttea/src/session.rs: every call that moves *)
(*                          the control revision announces the snapshot it *)
(*                          took, after it dropped the authority's lock    *)
(*   the feed's state stream, and the handlers of the viewer's panes       *)
(*                          ghosttea-truffle/src/lib.rs                    *)
(*   the viewer's daemon    the reader, publish_control_state and          *)
(*                          claim_control_at of the same file; the event   *)
(*                          bus of ghosttea/src/service.rs                 *)
(*   the client             ghosttea-react/src/runtime.ts: #applyController*)
(*                          and #maybeReclaim                              *)
(*                                                                         *)
(* The authority itself is taken in its abstract form, Incarnations, which *)
(* ViewAuthorityProofs shows it to implement: an attachment is a number,   *)
(* the controller is the seat, the control revision is the turn.           *)
(*                                                                         *)
(* The connection and the feed stay up: what a reconnect replaces is not   *)
(* here.  All panes are writable and ask for resize control.  Epochs of    *)
(* control, sizes and the legacy frames are left out; a claim's control    *)
(* epoch is only read to settle the daemon's own answer, which stays open. *)
(***************************************************************************)
EXTENDS Integers, Sequences, SequencesExt

CONSTANTS
    Mine,          \* this client's panes
    Foreign,       \* views of other clients
    None,
    BacklogSize,   \* capacity of the session's control_state_tx (16)
    Regimes,       \* bound: which of the daemon's rings, "relay" and "bus", may
                   \* overrun, and up to which change of controller
    MaxBorn,       \* bound: attachments
    MaxTurn,       \* bound: changes of controller
    MaxPending,    \* bound: announcements, or client commands, under way at once
    MaxWire        \* bound: state messages in flight when another is written

ASSUME BoundsOK ==
    /\ BacklogSize \in Nat \ {0}
    /\ Regimes \subseteq [crowded : SUBSET {"relay", "bus"}, turns : 0..MaxTurn]
    /\ {MaxBorn, MaxPending, MaxWire} \subseteq Nat /\ MaxTurn \in Nat \ {0}
    /\ Mine \cap Foreign = {} /\ IsFiniteSet(Mine)
    /\ None \notin Mine \cup Foreign

VARIABLES
    regime,         \* one of Regimes
    \* The host's authority, abstractly, and whose each attachment is
    live, born, seat, turn, owner,
    \* The host's session
    announcing,     \* snapshots taken by calls that have not sent them yet
    stage,          \* the feed's state stream: closed, subscribed or open
    backlog,        \* what its receiver has not received yet
    lagged,         \* the receiver was overrun
    wire,           \* state messages on their way to the viewer
    \* The viewer's daemon
    record,         \* control_states[session], None before the first
    bus, lost,      \* announcements the service relays to the client, as events
                    \* of its bus; whether the client was told of a gap
    commands,       \* the client's commands, served one after the other
    serving,        \* the claim_control_at under way
    outbox,         \* pane -> messages on its session control stream
    \* The client
    cache,          \* #controlBySession: view and revision, 0 if unknown
    epoch,          \* pane -> attachmentEpoch, 0 if none
    mounted,        \* panes with a mounted canvas
    claimed,        \* pane -> claimedEpoch and claimedRevision
    \* History
    held            \* turn -> the view that had control

Views == Mine \cup Foreign
Turns == 1..MaxTurn

Host == INSTANCE Incarnations

session == <<regime, live, born, seat, turn, owner, held>>
stream == <<stage, backlog, lagged>>
daemon == <<record, bus, lost, serving>>
client == <<cache, epoch, mounted, claimed, commands>>
vars == <<session, announcing, stream, wire, daemon, outbox, client>>

\* A ControlSnapshot, and the ControlState frame and event made of it.
State == [view : Views \cup {None}, revision : Turns]

ASSUME NoneIsNoState == None \notin State \cup Nat

Message == [kind : {"claim"}, epoch : 1..MaxBorn, expected : Turns \cup {None}]
    \cup [kind : {"detach"}, epoch : 1..MaxBorn]

Command == [pane : Mine, message : Message]

\* No claim is under way.
Idle == [phase |-> "idle", pane |-> None, known |-> None]

TypeOK ==
    /\ regime \in Regimes
    /\ live \subseteq 1..MaxBorn /\ born \in 0..MaxBorn
    /\ seat \in 0..MaxBorn /\ turn \in Turns
    /\ owner \in [1..MaxBorn -> Views \cup {None}]
    /\ {announcing, backlog, wire, bus} \subseteq Seq(State)
    /\ stage \in {"closed", "subscribed", "open"}
    /\ Len(backlog) <= BacklogSize
    /\ lagged \in BOOLEAN /\ lost \in BOOLEAN
    /\ record \in State \cup {None}
    /\ serving \in {Idle} \cup [phase : {"waiting", "refused", "read"},
                               pane : Mine, known : State \cup {None}]
    /\ commands \in Seq(Command)
    /\ outbox \in [Mine -> Seq(Message)]
    /\ cache \in State \cup {[view |-> None, revision |-> 0]}
    /\ epoch \in [Mine -> 0..MaxBorn]
    /\ mounted \subseteq Mine
    /\ claimed \in [Mine -> [epoch : 0..MaxBorn, revision : 0..MaxTurn]]

Init ==
    /\ regime \in Regimes
    /\ live = {} /\ born = 0 /\ seat = 0 /\ turn = 1
    /\ owner = [i \in 1..MaxBorn |-> None]
    /\ held = [r \in Turns |-> None]
    /\ announcing = <<>>
    /\ stage = "closed" /\ backlog = <<>> /\ lagged = FALSE
    /\ wire = <<>>
    /\ record = None /\ bus = <<>> /\ lost = FALSE
    /\ commands = <<>> /\ serving = Idle
    /\ outbox = [p \in Mine |-> <<>>]
    /\ cache = [view |-> None, revision |-> 0]
    /\ epoch = [p \in Mine |-> 0]
    /\ mounted = {}
    /\ claimed = [p \in Mine |-> [epoch |-> 0, revision |-> 0]]

-----------------------------------------------------------------------------
(***************************************************************************)
(* The host's session.                                                     *)
(***************************************************************************)

\* control_snapshot
Snapshot == [view |-> IF seat = 0 THEN None ELSE owner[seat], revision |-> turn]

\* A call that moved the revision still has its snapshot to send.
Announces ==
    /\ announcing' = IF turn' # turn THEN Append(announcing, Snapshot') ELSE announcing
    /\ held' = [held EXCEPT ![turn'] = Snapshot'.view]

Room == turn < regime.turns /\ Len(announcing) < MaxPending

\* The live attachment of a view, if it has one.
Of(v) == {i \in live : owner[i] = v}

\* take_over_view, and attach_view for a view that is not attached.
AttachHost(v) ==
    /\ Room
    /\ born < MaxBorn
    /\ Host!Begin(Of(v))
    /\ owner' = [owner EXCEPT ![born'] = v]
    /\ UNCHANGED regime
    /\ Announces
    /\ UNCHANGED <<stream, wire, daemon, outbox>>

AttachForeign(f) == AttachHost(f) /\ UNCHANGED client

\* A pane mounts and attaches, or a resume attaches it again.
AttachMine(p) ==
    /\ AttachHost(p)
    /\ mounted' = mounted \cup {p}
    /\ UNCHANGED <<cache, epoch, claimed, commands>>

\* claim_control: another client's claim, last write wins.
ClaimForeign(i) ==
    /\ Room
    /\ i \in live /\ owner[i] \in Foreign
    /\ Host!Take(i)
    /\ UNCHANGED <<regime, owner>>
    /\ Announces
    /\ UNCHANGED <<stream, wire, daemon, outbox, client>>

DetachForeign(i) ==
    /\ Room
    /\ i \in live /\ owner[i] \in Foreign
    /\ Host!End(i)
    /\ UNCHANGED <<regime, owner>>
    /\ Announces
    /\ UNCHANGED <<stream, wire, daemon, outbox, client>>

Pop(p) == outbox' = [outbox EXCEPT ![p] = Tail(@)]

Head1(p, kind) == outbox[p] # <<>> /\ Head(outbox[p]).kind = kind

\* A fault: the revision the claimant observed is not compared.
GrantFaulty(p) ==
    LET m == Head(outbox[p])
    IN  /\ Head1(p, "claim")
        /\ Room
        /\ m.epoch \in live
        /\ Host!Take(m.epoch)
        /\ UNCHANGED <<regime, owner>>
        /\ Announces
        /\ Pop(p)
        /\ UNCHANGED <<stream, wire, daemon, client>>

\* session_control_loop, FocusAndResize: claim_control_checked grants,
Grant(p) ==
    LET m == Head(outbox[p])
    IN  /\ Head1(p, "claim")
        /\ Room
        /\ m.epoch \in live
        /\ m.expected # None => m.expected = turn
        /\ Host!Take(m.epoch)
        /\ UNCHANGED <<regime, owner>>
        /\ Announces
        /\ Pop(p)
        /\ UNCHANGED <<stream, wire, daemon, client>>

\* or refuses the swap and the handler announces what beat it,
Refuse(p) ==
    LET m == Head(outbox[p])
    IN  /\ Head1(p, "claim")
        /\ Len(announcing) < MaxPending
        /\ m.epoch \in live
        /\ m.expected # None /\ m.expected # turn
        /\ announcing' = Append(announcing, Snapshot)
        /\ Pop(p)
        /\ UNCHANGED <<session, stream, wire, daemon, client>>

\* or fails on an attachment that is gone, and the handler with it.
FailClaim(p) ==
    /\ Head1(p, "claim")
    /\ Head(outbox[p]).epoch \notin live
    /\ Pop(p)
    /\ UNCHANGED <<session, announcing, stream, wire, daemon, client>>

\* Detach, and detach_view_if_epoch at the end of the handler.
HandleDetach(p) ==
    LET e == Head(outbox[p]).epoch
    IN  /\ Head1(p, "detach")
        /\ \/ e \in live /\ Room /\ Host!End(e) /\ UNCHANGED <<regime, owner>> /\ Announces
           \/ e \notin live /\ UNCHANGED <<session, announcing>>
        /\ Pop(p)
        /\ UNCHANGED <<stream, wire, daemon, client>>

Without(s, k) == SubSeq(s, 1, k - 1) \o SubSeq(s, k + 1, Len(s))

\* A fault: a ring that grows.
OverrunFaulty(ring, s, size) == Append(ring, s)

\* tokio's broadcast: a full ring overwrites its oldest entry, and the
\* receiver learns that it lagged.
Overrun(ring, s, size) ==
    IF Len(ring) = size THEN Append(Tail(ring), s) ELSE Append(ring, s)

\* announce_control_state, outside the lock and so in any order.
Announce(k) ==
    /\ k \in DOMAIN announcing
    /\ announcing' = Without(announcing, k)
    /\ IF stage = "closed"
       THEN UNCHANGED <<backlog, lagged>>
       ELSE /\ backlog' = Overrun(backlog, announcing[k], BacklogSize)
            /\ lagged' = (lagged \/ Len(backlog) = BacklogSize)
    /\ UNCHANGED <<session, stage, wire, daemon, outbox, client>>

\* spawn_state_stream subscribes first ...
Subscribe ==
    /\ stage = "closed"
    /\ \E p \in Mine : Of(p) # {}
    /\ stage' = "subscribed"
    /\ UNCHANGED <<session, announcing, backlog, lagged, wire, daemon, outbox, client>>

\* ... and writes the opening frame afterwards.
OpeningFrame ==
    /\ stage = "subscribed"
    /\ stage' = "open"
    /\ wire' = Append(wire, Snapshot)
    /\ UNCHANGED <<session, announcing, backlog, lagged, daemon, outbox, client>>

Forward ==
    /\ stage = "open" /\ ~lagged
    /\ backlog # <<>>
    /\ Len(wire) < MaxWire
    /\ wire' = Append(wire, Head(backlog))
    /\ backlog' = Tail(backlog)
    /\ UNCHANGED <<session, announcing, stage, lagged, daemon, outbox, client>>

\* A fault: a receiver that lagged carries on with what is left.
RepairFaulty ==
    /\ stage = "open" /\ lagged
    /\ lagged' = FALSE
    /\ UNCHANGED <<session, announcing, stage, backlog, wire, daemon, outbox, client>>

\* A receiver that lagged re-announces the current state to everyone.
Repair ==
    /\ stage = "open" /\ lagged
    /\ Len(announcing) < MaxPending
    /\ lagged' = FALSE
    /\ announcing' = Append(announcing, Snapshot)
    /\ UNCHANGED <<session, stage, backlog, wire, daemon, outbox, client>>

-----------------------------------------------------------------------------
(***************************************************************************)
(* The viewer's daemon.                                                    *)
(***************************************************************************)

\* publish_control_state: recorded first, then announced.
Publish(s) ==
    /\ record' = s
    /\ bus' = Append(bus, s)

\* The connection loop takes up a command when it is done with the last.  A
\* claim may first wait for the opening frame, for a bounded time; it keeps
\* what the record says when it asks.
Serve ==
    LET c == Head(commands)
    IN  /\ commands # <<>>
        /\ serving = Idle
        /\ commands' = Tail(commands)
        /\ outbox' = [outbox EXCEPT ![c.pane] = Append(@, c.message)]
        /\ serving' = IF c.message.kind = "claim"
                      THEN [phase |-> "waiting", pane |-> c.pane, known |-> record]
                      ELSE Idle
        /\ UNCHANGED <<session, announcing, stream, wire, record, bus, lost,
                       cache, epoch, mounted, claimed>>

\* An announcement settles a claim in its favour if it names the pane, at a
\* control epoch newer than the one the daemon knew when it asked.
Won(s) ==
    /\ s.view = serving.pane
    /\ serving.known = None \/ serving.known.view = None
         \/ s.revision > serving.known.revision

\* The reader of the feed's stream; the first announcement settles the claim.
Read ==
    /\ wire # <<>>
    /\ wire' = Tail(wire)
    /\ Publish(Head(wire))
    /\ serving' = IF serving.phase # "waiting" THEN serving
                  ELSE IF Won(Head(wire)) THEN Idle
                  ELSE [serving EXCEPT !.phase = "refused", !.known = None]
    /\ UNCHANGED <<session, announcing, stream, lost, outbox, client>>

\* claim_control_at gives up on an announcement that does not come.
TimeOut ==
    /\ serving.phase = "waiting"
    /\ serving' = Idle
    /\ UNCHANGED <<session, announcing, stream, wire, record, bus, lost,
                   outbox, client>>

\* Refused, it reads the last state ...
ReadRecord ==
    /\ serving.phase = "refused"
    /\ serving' = [serving EXCEPT !.phase = "read", !.known = record]
    /\ UNCHANGED <<session, announcing, stream, wire, record, bus, lost,
                   outbox, client>>

\* ... and publishes it again, so that the claimant hears of it in any case.
Republish ==
    /\ serving.phase = "read"
    /\ Publish(serving.known)
    /\ serving' = Idle
    /\ UNCHANGED <<session, announcing, stream, wire, lost, outbox, client>>

\* The service relays every announcement onto its event bus.  All sessions'
\* announcements share the ring the relay reads, and all events of the daemon
\* the bus; either may be overrun, oldest entry first.  The relay, which may be
\* anywhere in what is under way, skips its own lag in silence ...
OverrunRelay(k) ==
    /\ "relay" \in regime.crowded
    /\ k \in DOMAIN bus
    /\ bus' = Without(bus, k)
    /\ UNCHANGED <<session, announcing, stream, wire, record, lost, serving, outbox, client>>

\* ... and the client's connection reports its own with events-lost.
OverrunBus ==
    /\ "bus" \in regime.crowded
    /\ bus # <<>>
    /\ bus' = Tail(bus)
    /\ lost' = TRUE
    /\ UNCHANGED <<session, announcing, stream, wire, record, serving, outbox, client>>

-----------------------------------------------------------------------------
(***************************************************************************)
(* The client.                                                             *)
(***************************************************************************)

\* A fault: one claim per attachment, whatever is cleared later.
WantsFaulty(p, e, c) ==
    /\ e # 0
    /\ c.view \in {None, p}
    /\ claimed[p].epoch # e

\* #maybeReclaim's guards, for a pane attached at e and the cached state c.
Wants(p, e, c) ==
    /\ e # 0
    /\ c.view \in {None, p}
    /\ claimed[p].epoch = e => c.view = None /\ claimed[p].revision < c.revision

Claim(p, e, c) ==
    [pane |-> p,
     message |-> [kind |-> "claim", epoch |-> e,
                  expected |-> IF c.revision = 0 THEN None ELSE c.revision]]

Detach(p) == [pane |-> p, message |-> [kind |-> "detach", epoch |-> epoch[p]]]

\* #maybeReclaim, for each pane of a set in some order, after the client's own
\* change of the cache to c and of its commands to sent.
Reclaim(panes, c, before, sent) ==
    LET claimants == {p \in panes : Wants(p, epoch'[p], c)}
    IN  /\ claimed' = [p \in Mine |->
               IF p \in claimants THEN [epoch |-> epoch'[p], revision |-> c.revision]
               ELSE before[p]]
        /\ \E order \in SetToSeqs(claimants) :
               commands' = sent \o
                   [k \in DOMAIN order |-> Claim(order[k], epoch'[order[k]], c)]

\* A fault: an older payload is kept at the newest revision.
ApplyFaulty(s) ==
    /\ UNCHANGED <<epoch, mounted>>
    /\ cache' = IF s.revision < cache.revision
                THEN [view |-> s.view, revision |-> cache.revision] ELSE s
    /\ Reclaim(mounted, cache', claimed, commands)

\* #applyController drops an older state whole.
Apply(s) ==
    /\ UNCHANGED <<epoch, mounted>>
    /\ IF s.revision < cache.revision
       THEN UNCHANGED <<cache, claimed, commands>>
       ELSE cache' = s /\ Reclaim(mounted, s, claimed, commands)

\* The connection loop forwards events while no command occupies it.
Deliver ==
    /\ bus # <<>> /\ serving = Idle
    /\ bus' = Tail(bus)
    /\ Apply(Head(bus))
    /\ UNCHANGED <<session, announcing, stream, wire, record, lost, serving, outbox>>

\* events-lost: the client reconciles from the daemon's record, while what is
\* left of the bus is delivered.
Reconcile ==
    /\ lost /\ serving = Idle
    /\ lost' = FALSE
    /\ Apply(record)
    /\ UNCHANGED <<session, announcing, stream, wire, record, bus, serving, outbox>>

\* The answer of an attach, or the view state of a resume, names the epoch.
Learn(p) ==
    /\ p \in mounted
    /\ \E i \in 1..born :
           /\ owner[i] = p /\ i > epoch[p]
           /\ \A j \in 1..born : owner[j] = p => j <= i
           /\ epoch' = [epoch EXCEPT ![p] = i]
    /\ Reclaim({p}, cache, claimed, commands)
    /\ UNCHANGED <<session, announcing, stream, wire, daemon, outbox, cache, mounted>>

\* #detachView: the one clear the client can predict.
Unmount(p) ==
    LET held_here == cache.view = p
    IN  /\ p \in mounted /\ epoch[p] # 0
        /\ Len(commands) < MaxPending
        /\ mounted' = mounted \ {p}
        /\ epoch' = [epoch EXCEPT ![p] = 0]
        /\ cache' = IF held_here THEN [cache EXCEPT !.view = None] ELSE cache
        /\ Reclaim(IF held_here THEN mounted' ELSE {}, cache',
                   [claimed EXCEPT ![p] = [epoch |-> 0, revision |-> 0]],
                   Append(commands, Detach(p)))
        /\ UNCHANGED <<session, announcing, stream, wire, daemon, outbox>>

-----------------------------------------------------------------------------
Pane(p) ==
    \/ AttachMine(p) \/ Grant(p) \/ Refuse(p) \/ FailClaim(p) \/ HandleDetach(p)
    \/ Learn(p) \/ Unmount(p)

Next ==
    \/ \E p \in Mine : Pane(p)
    \/ \E f \in Foreign : AttachForeign(f)
    \/ \E i \in live : ClaimForeign(i) \/ DetachForeign(i)
    \/ \E k \in DOMAIN announcing : Announce(k)
    \/ Subscribe \/ OpeningFrame \/ Forward \/ Repair
    \/ Serve \/ Read \/ TimeOut \/ ReadRecord \/ Republish
    \/ (\E k \in DOMAIN bus : OverrunRelay(k)) \/ OverrunBus
    \/ Deliver \/ Reconcile

Spec == Init /\ [][Next]_vars

-----------------------------------------------------------------------------
(***************************************************************************)
(* Properties.                                                             *)
(***************************************************************************)

InTransit == announcing \o backlog \o wire \o bus

\* Announcements overtake one another, lag and repeat, but none of them, and
\* nothing kept from them, pairs a controller with a revision at which it did
\* not hold: "a state that never existed".  The client's record may only name
\* an empty seat where one of its own panes gave it up.
NothingManufactured ==
    /\ \A k \in DOMAIN InTransit : InTransit[k].view = held[InTransit[k].revision]
    /\ record # None => record.view = held[record.revision]
    /\ cache.revision > 0 =>
           \/ cache.view = held[cache.revision]
           \/ cache.view = None /\ held[cache.revision] \in Mine

\* The client has unmounted the pane, and its detach has yet to arrive.
Leaving(p) ==
    \/ \E k \in DOMAIN outbox[p] : outbox[p][k].kind = "detach"
    \/ \E k \in DOMAIN commands :
           commands[k].pane = p /\ commands[k].message.kind = "detach"

\* A claim that swaps against an observed revision never takes the seat from
\* a view the client did not see in it: it was empty, it is the pane's own
\* previous attachment, or that of a pane this client has unmounted.
SwapNeverSteals ==
    [][\A p \in Mine :
         (/\ turn' # turn /\ seat' # 0 /\ owner'[seat'] = p
          /\ Head(outbox[p]).expected # None /\ seat # 0)
         => \/ owner[seat] = p
            \/ owner[seat] \in Mine /\ Leaving(owner[seat])]_vars

\* Nothing is on its way to the client any more.
Settled ==
    /\ stage = "open" /\ ~lagged /\ ~lost
    /\ announcing \o backlog \o wire \o bus = <<>>
    /\ commands = <<>> /\ serving = Idle
    /\ \A p \in Mine : outbox[p] = <<>>

\* No ring of the daemon was overrun; the session's own may have been.
Lossless == regime.crowded = {}

\* Once everything announced has arrived, in whatever order and however the
\* session's stream lagged, the client knows the last change of controller.
ClientConverges == Settled /\ Lossless => cache.revision = turn

\* An empty seat that a mounted pane wants is taken: the funnel's "one claim
\* per attachment epoch, plus one more each time the controller is cleared"
\* and the announcement a refused swap causes leave no claim to die silently.
SeatIsReclaimed ==
    Settled /\ Lossless /\ seat = 0 => \A p \in mounted : epoch[p] \notin live

\* publish_control_state: "Record the latest controller state": the record is
\* the last change.
RecordIsCurrent == Settled => record.revision = turn

\* takeResizeControl "on the port-pair transport ... is claimResizeControl,
\* which never displaces another view".
NeverDisplaces ==
    [][\A p \in Mine :
         turn' # turn /\ seat' # 0 /\ owner'[seat'] = p /\ seat # 0
         => owner[seat] \in Mine]_vars
=============================================================================
