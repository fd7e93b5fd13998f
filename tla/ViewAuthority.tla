--------------------------- MODULE ViewAuthority ---------------------------
(***************************************************************************)
(* `ViewAuthority` (ghosttea-core/src/authority.rs): which views are       *)
(* attached to one terminal session, which of them controls its size, and  *)
(* which input and resize commands are new.                                *)
(*                                                                         *)
(* Every method runs under the session's authority mutex, so one action is *)
(* one call.  A call that only returns an error or an old answer changes   *)
(* nothing and is the absence of a step.  Counters saturate at 2^64 in the *)
(* code; here they stop at the named bounds.                               *)
(***************************************************************************)
EXTENDS Integers, FiniteSets

CONSTANTS
    Views,            \* wire view ids that pass the length check
    Clients,          \* authenticated client ids
    Sizes,            \* terminal sizes, a (cols, rows) pair each
    None,             \* Rust's Option::None
    MaxWatermarks,    \* MAX_ATTACH_WATERMARKS_PER_CLIENT (256 in the code)
    Generations,      \* attach generations a viewer may send
    ConnIds,          \* connection ids the host may fence by
    CommandSeqs,      \* input and resize sequence numbers
    MaxEpoch,         \* bound: attachments minted
    MaxClaims         \* bound: control claims granted

Access == {"ReadOnly", "ReadWrite"}

AttachedView ==
    [client_id : Clients, access : Access, attachment_epoch : 1..MaxEpoch,
     last_input_sequence : CommandSeqs \cup {0},
     last_resize_sequence : CommandSeqs \cup {0},
     state_stream : BOOLEAN]

ControllerState ==
    [view_id : Views, client_id : Clients,
     control_epoch : 1..MaxClaims, attachment_epoch : 1..MaxEpoch]

AttachWatermark == [generation : Generations, fence_conn_id : ConnIds]

ASSUME ConstantsOK ==
    /\ MaxWatermarks \in Nat
    /\ MaxEpoch \in Nat
    /\ MaxClaims \in Nat
    /\ Generations \subseteq Nat \ {0}
    /\ ConnIds \subseteq Nat
    /\ CommandSeqs \subseteq Nat \ {0}
    /\ Sizes # {}

ASSUME NoneIsNoRecord ==
    /\ None \notin AttachedView
    /\ None \notin ControllerState
    /\ None \notin AttachWatermark

VARIABLES
    views,                  \* view id -> AttachedView or None
    controller,             \* ControllerState or None
    next_control_epoch,
    next_attachment_epoch,
    control_revision,
    attach_watermarks,      \* client id -> view id -> AttachWatermark or None
    size,                   \* the canonical (cols, rows)
    layout_epoch,
    \* History, read by the properties and by no action's guard:
    streams,                \* epoch -> its registered cancel handle: none,
                            \* open (never fired) or fired
    applied                 \* epoch -> the last input and resize let through

seats == <<controller, next_control_epoch, control_revision>>
layout == <<size, layout_epoch>>
vars == <<views, seats, next_attachment_epoch, attach_watermarks, layout,
          streams, applied>>

TypeOK ==
    /\ views \in [Views -> AttachedView \cup {None}]
    /\ controller \in ControllerState \cup {None}
    /\ next_control_epoch \in 0..MaxClaims
    /\ next_attachment_epoch \in 0..MaxEpoch
    /\ control_revision \in Nat \ {0}
    /\ attach_watermarks \in [Clients -> [Views -> AttachWatermark \cup {None}]]
    /\ size \in Sizes
    /\ layout_epoch \in Nat \ {0}
    /\ streams \in [1..MaxEpoch -> {"none", "open", "fired"}]
    /\ applied \in [1..MaxEpoch -> [input : CommandSeqs \cup {0},
                                    resize : CommandSeqs \cup {0}]]

Init ==
    /\ views = [v \in Views |-> None]
    /\ controller = None
    /\ next_control_epoch = 0
    /\ next_attachment_epoch = 0
    /\ control_revision = 1
    /\ attach_watermarks = [c \in Clients |-> [v \in Views |-> None]]
    /\ size \in Sizes
    /\ layout_epoch = 1
    /\ streams = [e \in 1..MaxEpoch |-> "none"]
    /\ applied = [e \in 1..MaxEpoch |-> [input |-> 0, resize |-> 0]]

-----------------------------------------------------------------------------
(***************************************************************************)
(* Shared steps of the methods.                                            *)
(***************************************************************************)

Attached(v) == views[v] # None

\* require_view / require_view_mut
Owns(v, c) == Attached(v) /\ views[v].client_id = c

\* Fault: the epoch is read before the counter is advanced.
NewViewFaulty(c, access, epoch) ==
    [client_id |-> c, access |-> access, attachment_epoch |-> epoch - 1,
     last_input_sequence |-> 0, last_resize_sequence |-> 0,
     state_stream |-> FALSE]

\* The attachment a mint installs: sequences at zero, no state stream.
NewView(c, access, epoch) ==
    [client_id |-> c, access |-> access, attachment_epoch |-> epoch,
     last_input_sequence |-> 0, last_resize_sequence |-> 0,
     state_stream |-> FALSE]

\* Fault: the handle is dropped without being fired.
CancelStateStreamFaulty(v) == UNCHANGED streams

\* cancel_state_stream: fires the handle of v's attachment, if it has one.
CancelStateStream(v) ==
    streams' = IF Attached(v) /\ views[v].state_stream
               THEN [streams EXCEPT ![views[v].attachment_epoch] = "fired"]
               ELSE streams

Controls(v) == controller # None /\ controller.view_id = v

\* Faults: control outlives the view, any view's end clears it, and it is
\* cleared without advancing the revision.
ClearControllerFaultyKept(v) == UNCHANGED seats

ClearControllerFaultyAny(v) ==
    /\ controller' = None
    /\ control_revision' = control_revision + (IF controller # None THEN 1 ELSE 0)
    /\ UNCHANGED next_control_epoch

ClearControllerFaultyRevision(v) ==
    /\ controller' = IF Controls(v) THEN None ELSE controller
    /\ UNCHANGED <<control_revision, next_control_epoch>>

\* clear_controller_for_view
ClearControllerForView(v) ==
    /\ controller' = IF Controls(v) THEN None ELSE controller
    /\ control_revision' = control_revision + (IF Controls(v) THEN 1 ELSE 0)
    /\ UNCHANGED next_control_epoch

\* Fault: the layout epoch is left as it was.
SetSizeFaulty(s) == size' = s /\ UNCHANGED layout_epoch

\* The resize half of commit_claim and commit_resize.
SetSize(s) ==
    /\ size' = s
    /\ layout_epoch' = layout_epoch + (IF s # size THEN 1 ELSE 0)

Outstanding(c) == {v \in Views : attach_watermarks[c][v] # None}

-----------------------------------------------------------------------------
(***************************************************************************)
(* Attaching and detaching.                                                *)
(***************************************************************************)

\* Fault: the epoch counter is not advanced.
AttachFaulty(v, c, access) ==
    /\ ~Attached(v)
    /\ next_attachment_epoch < MaxEpoch
    /\ views' = [views EXCEPT ![v] = NewView(c, access, next_attachment_epoch + 1)]
    /\ UNCHANGED <<seats, next_attachment_epoch, attach_watermarks, layout, streams, applied>>

\* attach: the unordered path.  A view the same client already holds answers
\* with its current epoch, which is no step.
Attach(v, c, access) ==
    /\ ~Attached(v)
    /\ next_attachment_epoch < MaxEpoch
    /\ next_attachment_epoch' = next_attachment_epoch + 1
    /\ views' = [views EXCEPT ![v] = NewView(c, access, next_attachment_epoch')]
    /\ UNCHANGED <<seats, attach_watermarks, layout, streams, applied>>

\* take_over refuses an attempt that is not newer than the watermark,
StaleResume(v, c, generation) ==
    /\ attach_watermarks[c][v] # None
    /\ generation <= attach_watermarks[c][v].generation

\* Fault: the cap is one too many.
ViewLimitFaulty(v, c) ==
    /\ attach_watermarks[c][v] = None
    /\ Cardinality(Outstanding(c)) > MaxWatermarks

\* one that would be this client's watermark too many,
ViewLimit(v, c) ==
    /\ attach_watermarks[c][v] = None
    /\ Cardinality(Outstanding(c)) >= MaxWatermarks

\* and one for a view another client holds.
ViewInvalid(v, c) == Attached(v) /\ views[v].client_id # c

\* Fault: the fence follows the latest attempt.
RaisedWatermarkFaulty(v, c, generation, fence) ==
    [generation |-> generation, fence_conn_id |-> fence]

\* The fence never moves back, whatever order the attempts arrive in.
RaisedWatermark(v, c, generation, fence) ==
    LET old == attach_watermarks[c][v]
    IN  [generation |-> generation,
         fence_conn_id |-> IF old # None /\ old.fence_conn_id > fence
                           THEN old.fence_conn_id ELSE fence]

\* take_over.  Resume evidence naming another session epoch is refused before
\* anything else; `epoch_matches` is that comparison.
TakeOver(v, c, access, generation, fence, epoch_matches) ==
    /\ epoch_matches
    /\ ~StaleResume(v, c, generation)
    /\ ~ViewLimit(v, c)
    /\ ~ViewInvalid(v, c)
    /\ next_attachment_epoch < MaxEpoch
    /\ attach_watermarks' =
           [attach_watermarks EXCEPT ![c][v] = RaisedWatermark(v, c, generation, fence)]
    /\ CancelStateStream(v)
    /\ next_attachment_epoch' = next_attachment_epoch + 1
    /\ views' = [views EXCEPT ![v] = NewView(c, access, next_attachment_epoch')]
    /\ ClearControllerForView(v)
    /\ UNCHANGED <<layout, applied>>

\* gc_attach_watermarks: free the client's watermarks whose view it no longer
\* has attached and whose fence has retired.
CollectWatermarks(c, terminated_through) ==
    /\ attach_watermarks' =
           [attach_watermarks EXCEPT ![c] =
               [v \in Views |->
                   IF \/ @[v] = None
                      \/ Owns(v, c)
                      \/ @[v].fence_conn_id > terminated_through
                   THEN @[v] ELSE None]]
    /\ UNCHANGED <<views, seats, next_attachment_epoch, layout, streams, applied>>

\* register_state_stream: bails out on an epoch that is not the current one.
RegisterStateStream(v, epoch) ==
    /\ Attached(v)
    /\ views[v].attachment_epoch = epoch
    /\ views' = [views EXCEPT ![v].state_stream = TRUE]
    /\ streams' = [streams EXCEPT ![epoch] = "open"]
    /\ UNCHANGED <<seats, next_attachment_epoch, attach_watermarks, layout, applied>>

\* What detach and detach_view_if_epoch do once they have found their view.
Remove(v) ==
    /\ CancelStateStream(v)
    /\ views' = [views EXCEPT ![v] = None]
    /\ ClearControllerForView(v)
    /\ UNCHANGED <<next_attachment_epoch, attach_watermarks, layout, applied>>

\* detach
Detach(v, c) == Owns(v, c) /\ Remove(v)

\* detach_view_if_epoch
DetachViewIfEpoch(v, c, epoch) ==
    /\ Owns(v, c)
    /\ views[v].attachment_epoch = epoch
    /\ Remove(v)

-----------------------------------------------------------------------------
(***************************************************************************)
(* Control, resize and input.                                              *)
(***************************************************************************)

CommitClaim(v, c, s) ==
    /\ next_control_epoch < MaxClaims
    /\ next_control_epoch' = next_control_epoch + 1
    /\ controller' = [view_id |-> v, client_id |-> c,
                      control_epoch |-> next_control_epoch',
                      attachment_epoch |-> views[v].attachment_epoch]
    /\ control_revision' = control_revision + 1
    /\ SetSize(s)
    /\ UNCHANGED <<views, next_attachment_epoch, attach_watermarks, streams, applied>>

\* claim_control: last write wins.
ClaimControl(v, c, s) ==
    /\ Owns(v, c)
    /\ views[v].access = "ReadWrite"
    /\ CommitClaim(v, c, s)

\* claim_control_checked.  `expected` is None or the revision to swap against;
\* a swap that loses is answered with a snapshot and is no step.
ClaimControlChecked(v, c, epoch, s, expected) ==
    /\ Owns(v, c)
    /\ views[v].access = "ReadWrite"
    /\ views[v].attachment_epoch = epoch
    /\ expected # None => expected = control_revision
    /\ CommitClaim(v, c, s)

\* authorize_resize: prepare_resize, then commit_resize, under one lock.
AuthorizeResize(v, c, control_epoch, sequence, s) ==
    /\ Controls(v)
    /\ controller.client_id = c
    /\ controller.control_epoch = control_epoch
    /\ Owns(v, c)
    /\ sequence > views[v].last_resize_sequence
    /\ views' = [views EXCEPT ![v].last_resize_sequence = sequence]
    /\ applied' = [applied EXCEPT ![views[v].attachment_epoch].resize = sequence]
    /\ SetSize(s)
    /\ UNCHANGED <<seats, next_attachment_epoch, attach_watermarks, streams>>

\* authorize_resize_checked
AuthorizeResizeChecked(v, c, epoch, control_epoch, sequence, s) ==
    /\ Owns(v, c)
    /\ views[v].attachment_epoch = epoch
    /\ AuthorizeResize(v, c, control_epoch, sequence, s)

\* Fault: the epoch is not compared with the current one.
AuthorizeInputFaulty(v, c, epoch, sequence) ==
    /\ Owns(v, c)
    /\ views[v].access = "ReadWrite"
    /\ sequence > views[v].last_input_sequence
    /\ views' = [views EXCEPT ![v].last_input_sequence = sequence]
    /\ applied' = [applied EXCEPT ![epoch].input = sequence]
    /\ UNCHANGED <<seats, next_attachment_epoch, attach_watermarks, layout, streams>>

\* authorize_input
AuthorizeInput(v, c, epoch, sequence) ==
    /\ Owns(v, c)
    /\ views[v].access = "ReadWrite"
    /\ views[v].attachment_epoch = epoch
    /\ sequence > views[v].last_input_sequence
    /\ views' = [views EXCEPT ![v].last_input_sequence = sequence]
    /\ applied' = [applied EXCEPT ![epoch].input = sequence]
    /\ UNCHANGED <<seats, next_attachment_epoch, attach_watermarks, layout, streams>>

Epochs == 1..MaxEpoch

\* One call of the authority, about view v and on behalf of client c.
Call(v, c) ==
    \/ \E access \in Access : Attach(v, c, access)
    \/ \E access \in Access, g \in Generations, f \in ConnIds, m \in BOOLEAN :
           TakeOver(v, c, access, g, f, m)
    \/ \E t \in ConnIds : CollectWatermarks(c, t)
    \/ \E e \in Epochs : RegisterStateStream(v, e)
    \/ Detach(v, c)
    \/ \E e \in Epochs : DetachViewIfEpoch(v, c, e)
    \/ \E s \in Sizes : ClaimControl(v, c, s)
    \/ \E e \in Epochs, s \in Sizes, r \in (1..control_revision) \cup {None} :
           ClaimControlChecked(v, c, e, s, r)
    \/ \E k \in 1..MaxClaims, q \in CommandSeqs, s \in Sizes :
           AuthorizeResize(v, c, k, q, s)
    \/ \E e \in Epochs, k \in 1..MaxClaims, q \in CommandSeqs, s \in Sizes :
           AuthorizeResizeChecked(v, c, e, k, q, s)
    \/ \E e \in Epochs, q \in CommandSeqs : AuthorizeInput(v, c, e, q)

Next == \E v \in Views, c \in Clients : Call(v, c)

Spec == Init /\ [][Next]_vars

-----------------------------------------------------------------------------
(***************************************************************************)
(* Properties.                                                             *)
(***************************************************************************)

\* The epoch v is attached at.
EpochOf(v) == views[v].attachment_epoch

\* The controller is always a living, writable attachment of the client that
\* claimed it: no detach, takeover or late cleanup may leave control with an
\* incarnation that is gone ("a view that was taken over cannot keep
\* controlling the terminal through its successor's attachment").
ControllerIsCurrent ==
    controller # None =>
        /\ Owns(controller.view_id, controller.client_id)
        /\ views[controller.view_id].access = "ReadWrite"
        /\ EpochOf(controller.view_id) = controller.attachment_epoch

\* No two attachments share an epoch, whatever views and clients they belong
\* to, and none has an epoch that is still to be minted.
EpochsDistinct ==
    \A v \in Views : Attached(v) =>
        /\ EpochOf(v) <= next_attachment_epoch
        /\ \A w \in Views \ {v} : Attached(w) => EpochOf(w) # EpochOf(v)

\* A registered state stream that nobody has cancelled belongs to an
\* attachment that is still current: however attach, register, takeover and
\* the two detaches interleave, no stale stream survives.
StreamsEndWithIncarnation ==
    \A e \in Epochs : streams[e] = "open" =>
        \E v \in Views : Attached(v) /\ EpochOf(v) = e

\* Admission control: no client outgrows its cap, and a cap spent by one
\* client leaves the others theirs.
WatermarksBounded ==
    \A c \in Clients : Cardinality(Outstanding(c)) <= MaxWatermarks

\* The control revision names the controller: it moves exactly when the
\* controller does, and only forward, so a compare-and-swap that still finds
\* its revision has missed neither a claim nor a clear.
RevisionNamesController ==
    [][/\ control_revision' >= control_revision
       /\ controller' # controller <=> control_revision' # control_revision]_vars

\* The terminal changes size only on behalf of the view that controls it once
\* the call returns, and every new size has a newer layout epoch.
SizeFollowsController ==
    [][size' # size =>
         /\ controller' # None
         /\ layout_epoch' > layout_epoch]_vars

\* Within one incarnation commands only move forward: an input or resize
\* that is let through is newer than every one before it, also across a
\* takeover and back, and an ended incarnation lets nothing more through.
CommandsOnlyAdvance ==
    [][\A e \in Epochs :
         /\ applied'[e].input >= applied[e].input
         /\ applied'[e].resize >= applied[e].resize
         /\ applied'[e] # applied[e] =>
                \E v \in Views : Attached(v) /\ EpochOf(v) = e]_vars

\* While a watermark is held its generation and fence never regress, and a
\* view whose client holds one changes incarnation only under a newer
\* generation: a delayed attach cannot replace its successor.
GenerationsOnlyRise ==
    [][\A c \in Clients, v \in Views :
         LET old == attach_watermarks[c][v]
             new == attach_watermarks'[c][v]
         IN  old # None =>
             /\ new # None => /\ new.generation >= old.generation
                              /\ new.fence_conn_id >= old.fence_conn_id
             /\ Owns(v, c) /\ Owns(v, c)' /\ EpochOf(v)' # EpochOf(v) =>
                    new # None /\ new.generation > old.generation]_vars

\* The abstract specification: attachments as incarnations, and the seat.
Abstract == INSTANCE Incarnations WITH
    live <- {EpochOf(v) : v \in {w \in Views : Attached(w)}},
    born <- next_attachment_epoch,
    seat <- IF controller = None THEN 0 ELSE controller.attachment_epoch,
    turn <- control_revision

\* Every history of the authority is a history of Incarnations: an attachment
\* epoch is born once and never returns, and the seat empties in the step
\* that ends its holder.
ImplementsIncarnations == Abstract!Spec
=============================================================================
