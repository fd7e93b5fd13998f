----------------------------- MODULE StateStream -----------------------------
(***************************************************************************)
(* The feed of one remote session, end to end: what the host's terminal    *)
(* shows, the snapshots it announces, the stream that turns them into      *)
(* snapshots and patches, and the replica the viewer applies them to.      *)
(*                                                                         *)
(*   ghosttea-core/src/model.rs     the terminal's revisions               *)
(*   ghosttea/src/session.rs        their announcement, a broadcast ring   *)
(*   ghosttea-truffle/src/lib.rs    spawn_state_stream and logical_patch,  *)
(*                                  the viewer's state reader              *)
(*   ghosttea-core/src/replica.rs   LogicalReplicaModel                    *)
(*   ghosttea/src/service.rs        RefreshSession                         *)
(*                                                                         *)
(* RemoteSession has the lifecycle around it.  Here a feed is opened anew  *)
(* after a failure or a refresh, under a new generation, or re-attached    *)
(* while the session is live, under the same.                              *)
(*                                                                         *)
(* A terminal's state is a shape, which only a snapshot carries, and its   *)
(* rows.  A snapshot or a patch is named by the revisions it is between:   *)
(* it carries what the host's state was at them.                           *)
(***************************************************************************)
EXTENDS Integers, Sequences

CONSTANTS
    Rows,          \* row indices; cursor, mouse tracking and scrollbar are rows
    Glyphs,        \* what a row may hold
    Shapes,        \* records of the epochs and of what no patch carries
    Capacity,      \* of the host's ring of snapshots
    MaxRevision,   \* renders of the host
    MaxStreams,    \* feeds opened, one after the other
    MaxInFlight,   \* messages a stream holds before its writer waits
    MaxFaults,     \* failed renders and lost connections
    MaxOps,        \* refreshes, re-attaches and configuration changes
    None

ASSUME StreamsOK ==
    /\ Capacity \in Nat \ {0} /\ MaxInFlight \in Nat \ {0}
    /\ MaxRevision \in Nat /\ MaxStreams \in Nat \ {0}
    /\ MaxFaults \in Nat /\ MaxOps \in Nat
    /\ \A s \in Shapes : DOMAIN s = {"epochs", "labels"}

VARIABLES
    history,      \* the host's state at each revision
    rendering,    \* whether the last one is yet to be announced
    announced,    \* the revisions ever sent to the ring
    host,         \* each stream's task at the host
    wire,         \* each stream's messages
    viewer,       \* each stream's reader
    current,      \* the stream opened last
    generation,   \* lifecycle.generation
    live,         \* lifecycle.state is Live
    refreshing,   \* RefreshSession has found the session not live
    replica,      \* LogicalReplicaModel: latest and patch_sequence
    foreign,      \* what else has touched the replica since the feed's snapshot
    faults, ops

streams == <<host, wire, viewer, current, generation>>
terminal == <<history, rendering, announced>>
shown == <<replica, foreign>>
vars == <<terminal, streams, live, refreshing, shown, faults, ops>>

Contents == [shape : Shapes, rows : [Rows -> Glyphs]]
Ids == 1..MaxStreams
Latest == Len(history)

Messages == [kind : {"snapshot", "patch"}, base : 0..MaxRevision,
             revision : 1..MaxRevision, sequence : Nat]
Streams == [pc : {"idle", "opening", "subscribed", "open", "stopped"},
            cancelled : BOOLEAN, position : Nat, previous : 0..MaxRevision,
            sequence : Nat]
Readers == [pc : {"reading", "left", "failed"}, cancelled : BOOLEAN,
            generation : Nat, synchronized : BOOLEAN]
Replicas == [revision : 0..MaxRevision, sequence : Nat, content : Contents \cup {None}]

TypeOK ==
    /\ history \in Seq(Contents) /\ Len(history) <= MaxRevision
    /\ rendering \in BOOLEAN
    /\ announced \in Seq(1..MaxRevision)
    /\ host \in [Ids -> Streams]
    /\ wire \in [Ids -> Seq(Messages)]
    /\ viewer \in [Ids -> Readers]
    /\ current \in Ids /\ generation \in Nat
    /\ live \in BOOLEAN /\ refreshing \in BOOLEAN
    /\ replica \in Replicas
    /\ replica.revision # 0 => replica.content \in Contents
    /\ foreign \subseteq {"late", "refresh"}
    /\ faults \in 0..MaxFaults /\ ops \in 0..MaxOps

Task(pc) == [pc |-> pc, cancelled |-> FALSE, position |-> 0, previous |-> 0,
             sequence |-> 0]
Reader(g) == [pc |-> "reading", cancelled |-> FALSE, generation |-> g,
              synchronized |-> FALSE]

Init ==
    /\ history = <<>> /\ rendering = FALSE /\ announced = <<>>
    /\ host = [i \in Ids |-> Task(IF i = 1 THEN "opening" ELSE "idle")]
    /\ wire = [i \in Ids |-> <<>>]
    /\ viewer = [i \in Ids |-> Reader(1)]
    /\ current = 1 /\ generation = 1
    /\ live = FALSE /\ refreshing = FALSE
    /\ replica = [revision |-> 0, sequence |-> 0, content |-> None] /\ foreign = {}
    /\ faults = 0 /\ ops = 0

Fault == faults < MaxFaults /\ faults' = faults + 1
Op == ops < MaxOps /\ ops' = ops + 1

-----------------------------------------------------------------------------
(* The terminal.  model_operation orders a render and its announcement before *)
(* the next render; a stream may read the state in between.                   *)

\* effects_for_snapshot: the revision rises and the state is readable.
Render(c) ==
    /\ ~rendering /\ Latest < MaxRevision
    /\ history' = Append(history, c)
    /\ rendering' = TRUE
    /\ UNCHANGED <<announced, streams, live, refreshing, shown, faults, ops>>

\* execute_update sends it to the ring, unless its frame failed to encode.
Announce ==
    /\ rendering /\ rendering' = FALSE
    /\ \/ announced' = Append(announced, Latest) /\ UNCHANGED faults
       \/ Fault /\ UNCHANGED announced
    /\ UNCHANGED <<history, streams, live, refreshing, shown, ops>>

-----------------------------------------------------------------------------
(* A stream at the host. *)

Snapshot(r) == [kind |-> "snapshot", base |-> 0, revision |-> r, sequence |-> 0]
Patch(p, r, n) == [kind |-> "patch", base |-> p, revision |-> r, sequence |-> n]

Send(i, m) == Len(wire[i]) < MaxInFlight /\ wire' = [wire EXCEPT ![i] = Append(@, m)]

\* The stream starts with the snapshots sent from now on.
Subscribe(i) ==
    /\ host[i].pc = "opening" /\ ~host[i].cancelled
    /\ host' = [host EXCEPT ![i].pc = "subscribed", ![i].position = Len(announced)]
    /\ UNCHANGED <<terminal, wire, viewer, current, generation, live, refreshing,
                   shown, faults, ops>>

\* It reads the current state, if there is one, and sends it first.
Open(i) ==
    /\ host[i].pc = "subscribed" /\ ~host[i].cancelled
    /\ host' = [host EXCEPT ![i].pc = "open", ![i].previous = Latest]
    /\ IF Latest = 0 THEN UNCHANGED wire ELSE Send(i, Snapshot(Latest))
    /\ UNCHANGED <<terminal, viewer, current, generation, live, refreshing, shown,
                   faults, ops>>

\* Fault: the next diff is still taken from what was sent before.
ReconfigureFaulty(i) ==
    /\ Op
    /\ host[i].pc = "open"
    /\ IF Latest = 0 THEN UNCHANGED <<host, wire>>
       ELSE /\ host' = [host EXCEPT ![i].sequence = 0]
            /\ Send(i, Snapshot(Latest))
    /\ UNCHANGED <<terminal, viewer, current, generation, live, refreshing, shown, faults>>

\* A change of the presentation re-reads the state, ahead of a cancellation.
Reconfigure(i) ==
    /\ Op
    /\ host[i].pc = "open"
    /\ IF Latest = 0 THEN UNCHANGED <<host, wire>>
       ELSE /\ host' = [host EXCEPT ![i].previous = Latest, ![i].sequence = 0]
            /\ Send(i, Snapshot(Latest))
    /\ UNCHANGED <<terminal, viewer, current, generation, live, refreshing, shown, faults>>

\* Fault: rows are compared whatever else changed.
PatchableFaulty(p, r) == p # 0 /\ r > p

\* logical_patch: what it takes for a patch to say all that changed.
Patchable(p, r) == p # 0 /\ r > p /\ history[p].shape = history[r].shape

\* The next snapshot of the ring, as a patch or in full.
Forward(i) ==
    LET r == announced[host[i].position + 1]
        p == host[i].previous
        n == IF Patchable(p, r) THEN host[i].sequence + 1 ELSE 0 IN
    /\ host[i].pc = "open" /\ ~host[i].cancelled
    /\ host[i].position < Len(announced)
    /\ host[i].position >= Len(announced) - Capacity
    /\ host' = [host EXCEPT ![i].position = @ + 1, ![i].previous = r, ![i].sequence = n]
    /\ Send(i, IF Patchable(p, r) THEN Patch(p, r, n) ELSE Snapshot(r))
    /\ UNCHANGED <<terminal, viewer, current, generation, live, refreshing, shown,
                   faults, ops>>

\* Fault: a receiver that lagged waits for the next announcement.
LaggedFaulty(i) ==
    /\ host[i].pc = "open" /\ ~host[i].cancelled
    /\ host[i].position < Len(announced) - Capacity
    /\ host' = [host EXCEPT ![i].position = Len(announced)]
    /\ UNCHANGED <<terminal, wire, viewer, current, generation, live, refreshing,
                   shown, faults, ops>>

\* A receiver that lagged goes on with the oldest the ring retains.
Lagged(i) ==
    /\ host[i].pc = "open" /\ ~host[i].cancelled
    /\ host[i].position < Len(announced) - Capacity
    /\ host' = [host EXCEPT ![i].position = Len(announced) - Capacity]
    /\ UNCHANGED <<terminal, wire, viewer, current, generation, live, refreshing,
                   shown, faults, ops>>

StreamStops(i) ==
    /\ host[i].cancelled /\ host[i].pc \notin {"idle", "stopped"}
    /\ host' = [host EXCEPT ![i].pc = "stopped"]
    /\ UNCHANGED <<terminal, wire, viewer, current, generation, live, refreshing,
                   shown, faults, ops>>

-----------------------------------------------------------------------------
(* A stream's reader at the viewer, and the replica. *)

\* admit_state, of a reader whose connection stands.
Admitted(i) == viewer[i].generation = generation

Message(i) == Head(wire[i])
Taken(i) == wire' = [wire EXCEPT ![i] = Tail(@)]
Feeds(i) == i = current /\ ~viewer[i].cancelled

\* What a reader does to the replica that is not the feed's doing.
Late(i) == IF Feeds(i) THEN {} ELSE {"late"}

\* publish: it replaces what was shown.  The first synchronizes the session.
Publish(i) ==
    /\ Message(i).kind = "snapshot"
    /\ replica' = [revision |-> Message(i).revision, sequence |-> 0,
                   content |-> history[Message(i).revision]]
    /\ viewer' = [viewer EXCEPT ![i].synchronized = TRUE]
    /\ foreign' = IF Feeds(i) THEN {} ELSE foreign \cup {"late"}

\* publish_patch's comparisons.
Applies(m) ==
    /\ m.sequence = replica.sequence + 1
    /\ replica.revision # 0
    /\ history[m.revision].shape.epochs = replica.content.shape.epochs
    /\ m.revision > replica.revision

\* Fault: the patch's rows are taken for the whole screen.
PatchedFaulty(m) ==
    [shape |-> replica.content.shape,
     rows |-> [row \in {r \in Rows :
                  history[m.base].rows[r] # history[m.revision].rows[r]} |->
                    history[m.revision].rows[row]]]

\* The rows that differ between the patch's two states are replaced.
Patched(m) ==
    [shape |-> replica.content.shape,
     rows |-> [row \in Rows |->
        IF history[m.base].rows[row] = history[m.revision].rows[row]
        THEN replica.content.rows[row] ELSE history[m.revision].rows[row]]]

PublishPatch(i) ==
    /\ Message(i).kind = "patch" /\ Applies(Message(i))
    /\ replica' = [revision |-> Message(i).revision, sequence |-> Message(i).sequence,
                   content |-> Patched(Message(i))]
    /\ foreign' = foreign \cup Late(i)
    /\ UNCHANGED viewer

\* A patch that does not apply ends the reader, as does a failed render, which
\* leaves the replica as it was.
Refuse(i) ==
    /\ \/ Message(i).kind = "patch" /\ ~Applies(Message(i)) /\ UNCHANGED faults
       \/ (Message(i).kind = "patch" => Applies(Message(i))) /\ Fault
    /\ viewer' = [viewer EXCEPT ![i].pc = "failed"]
    /\ UNCHANGED shown

\* The reader takes the next message; one that is cancelled may first have one
\* or more to go.  Messages of an earlier generation are dropped.
Deliver(i) ==
    /\ viewer[i].pc = "reading" /\ wire[i] # <<>>
    /\ Taken(i)
    /\ \/ Admitted(i) /\ (Publish(i) \/ PublishPatch(i)) /\ UNCHANGED faults
       \/ Admitted(i) /\ Refuse(i)
       \/ ~Admitted(i) /\ UNCHANGED <<shown, viewer, faults>>
    /\ UNCHANGED <<terminal, host, current, generation, live, refreshing, ops>>

ReaderStops(i) ==
    /\ viewer[i].pc = "reading" /\ viewer[i].cancelled
    /\ viewer' = [viewer EXCEPT ![i].pc = "left"]
    /\ UNCHANGED <<terminal, host, wire, current, generation, live, refreshing, shown,
                   faults, ops>>

Loss(i) ==
    /\ Fault
    /\ viewer[i].pc = "reading" /\ Feeds(i) /\ host[i].pc # "idle"
    /\ viewer' = [viewer EXCEPT ![i].pc = "failed"]
    /\ UNCHANGED <<terminal, host, wire, current, generation, live, refreshing, shown, ops>>

-----------------------------------------------------------------------------
(* The session around the feed. *)

\* A new stream under generation g; what was before it is cancelled, at the
\* viewer and, by the takeover, at the host.
Feed(g) ==
    /\ current < MaxStreams
    /\ current' = current + 1 /\ generation' = g
    /\ host' = [i \in Ids |->
          IF i = current + 1 THEN Task("opening")
          ELSE [host[i] EXCEPT !.cancelled = TRUE]]
    /\ viewer' = [i \in Ids |->
          IF i <= current THEN [viewer[i] EXCEPT !.cancelled = TRUE] ELSE Reader(g)]
    /\ UNCHANGED wire

\* The first snapshot has been seen to arrive.
CommitLive ==
    /\ ~live /\ viewer[current].synchronized
    /\ live' = TRUE
    /\ UNCHANGED <<terminal, streams, refreshing, shown, faults, ops>>

\* A reader's failure takes the connection, and the session resumes.
Resume ==
    /\ \E i \in 1..current : viewer[i].pc = "failed" /\ Admitted(i)
    /\ Feed(generation + 1)
    /\ live' = FALSE
    /\ UNCHANGED <<terminal, refreshing, shown, faults, ops>>

\* refresh_remote: a live session's feed is re-attached in a new generation.
RefreshRemote ==
    /\ Op /\ live
    /\ Feed(generation + 1)
    /\ live' = FALSE
    /\ UNCHANGED <<terminal, refreshing, shown, faults>>

\* attach_view of a live session's feed: no new generation.
Reattach ==
    /\ Op /\ live
    /\ Feed(generation)
    /\ UNCHANGED <<terminal, live, refreshing, shown, faults>>

\* RefreshSession finds the session not live ...
RefreshLooks ==
    /\ Op /\ ~live /\ ~refreshing
    /\ refreshing' = TRUE
    /\ UNCHANGED <<terminal, streams, live, shown, faults>>

\* ... and publishes what is retained again, whatever has come up meanwhile.
RefreshLocal ==
    /\ refreshing /\ refreshing' = FALSE
    /\ IF replica.revision = 0 THEN UNCHANGED shown
       ELSE /\ replica' = [replica EXCEPT !.sequence = 0]
            /\ foreign' = IF replica.sequence = 0 THEN foreign
                          ELSE foreign \cup {"refresh"}
    /\ UNCHANGED <<terminal, streams, live, faults, ops>>

Next ==
    \/ \E c \in Contents : Render(c)
    \/ Announce
    \/ \E i \in Ids :
          \/ Subscribe(i) \/ Open(i) \/ Reconfigure(i) \/ Forward(i) \/ Lagged(i)
          \/ StreamStops(i) \/ Deliver(i) \/ ReaderStops(i) \/ Loss(i)
    \/ CommitLive \/ Resume \/ RefreshRemote \/ Reattach
    \/ RefreshLooks \/ RefreshLocal

Spec == Init /\ [][Next]_vars

-----------------------------------------------------------------------------

\* The replica shows a state the host was in, whole: every patch was applied to
\* the very state it was taken from.  Only the reader of a feed that has been
\* replaced in the same generation may break this.
ReplicaIsHostState ==
    replica.revision # 0 /\ "late" \notin foreign
        => replica.content = history[replica.revision]

\* A feed that has sent all it was told, and been read, has left the replica at
\* what was announced last, or later: nothing lost to a full ring stays lost.
CaughtUp ==
    (/\ host[current].pc = "open" /\ host[current].position = Len(announced)
     /\ viewer[current].pc = "reading" /\ wire[current] = <<>>
     /\ foreign = {} /\ announced # <<>>)
        => replica.revision >= announced[Len(announced)]

\* The next patch applies: the session is never torn down by its own feed, only
\* by a refresh or a late reader that came between.
FeedApplies ==
    (/\ viewer[current].pc = "reading" /\ wire[current] # <<>>
     /\ Message(current).kind = "patch" /\ foreign = {})
        => Applies(Message(current))
=============================================================================
