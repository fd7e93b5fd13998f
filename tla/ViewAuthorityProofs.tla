------------------------ MODULE ViewAuthorityProofs ------------------------
(***************************************************************************)
(* Proofs about ViewAuthority, for any sets of views, clients, sizes and   *)
(* generations and any bounds.                                             *)
(***************************************************************************)
EXTENDS ViewAuthority, FiniteSetTheorems, TLAPS

\* A view's attachment knows its handle: it is marked registered exactly when
\* the handle of its epoch is open, so cancelling through the view misses none.
StreamsKnown ==
    \A v \in Views : Attached(v) =>
        (views[v].state_stream <=> streams[EpochOf(v)] = "open")

\* The inductive invariant.  That the controller is current rests on nothing
\* else but types; the streams need that epochs are distinct and known.
IInv ==
    /\ TypeOK
    /\ ControllerIsCurrent
    /\ EpochsDistinct
    /\ StreamsKnown
    /\ StreamsEndWithIncarnation

-----------------------------------------------------------------------------
\* A fresh attachment is a well-typed view, attached under the new epoch.
LEMMA NewViewType ==
    ASSUME NEW c \in Clients, NEW access \in Access, NEW e \in 1..MaxEpoch
    PROVE  /\ NewView(c, access, e) \in AttachedView
           /\ NewView(c, access, e).client_id = c
           /\ NewView(c, access, e).attachment_epoch = e
           /\ NewView(c, access, e).state_stream = FALSE
           /\ NewView(c, access, e) # None
<1>1. NewView(c, access, e) \in AttachedView
  BY DEF NewView, AttachedView
<1> QED
  BY <1>1, NoneIsNoRecord DEF NewView

\* The initial state has no attachment, no controller and no stream.
LEMMA InitIInv == Init => IInv
<1> SUFFICES ASSUME Init PROVE IInv
  OBVIOUS
<1>1. TypeOK
  BY ConstantsOK DEF Init, TypeOK
<1>2. ControllerIsCurrent
  BY DEF Init, ControllerIsCurrent
<1>3. /\ EpochsDistinct
      /\ StreamsKnown
  BY DEF Init, EpochsDistinct, StreamsKnown, Attached
<1>4. StreamsEndWithIncarnation
  BY DEF Init, StreamsEndWithIncarnation, Epochs
<1> QED
  BY <1>1, <1>2, <1>3, <1>4 DEF IInv

-----------------------------------------------------------------------------
(***************************************************************************)
(* One lemma per kind of step.                                             *)
(***************************************************************************)

\* Clearing the controller of one view leaves a well-typed seat, and no seat
\* on that view.
LEMMA ClearControllerLemma ==
    ASSUME TypeOK, NEW v \in Views, ClearControllerForView(v)
    PROVE  /\ controller' \in ControllerState \cup {None}
           /\ control_revision' \in Nat \ {0}
           /\ next_control_epoch' \in 0..MaxClaims
           /\ controller' # None => /\ controller' = controller
                                    /\ controller'.view_id # v
<1> USE DEF TypeOK, ClearControllerForView, Controls
<1>1. CASE Controls(v)
  BY <1>1
<1>2. CASE ~Controls(v)
  BY <1>2
<1> QED
  BY <1>1, <1>2

\* Cancelling v's stream leaves a typed record in which v's epoch is not open
\* and no other epoch has changed.
LEMMA CancelLemma ==
    ASSUME TypeOK, StreamsKnown, NEW v \in Views, CancelStateStream(v)
    PROVE  /\ streams' \in [Epochs -> {"none", "open", "fired"}]
           /\ \A e \in Epochs : streams'[e] = "open" => streams[e] = "open"
           /\ Attached(v) => streams'[EpochOf(v)] # "open"
           /\ \A e \in Epochs : (Attached(v) => e # EpochOf(v)) => streams'[e] = streams[e]
<1> USE DEF TypeOK, Epochs
<1>1. Attached(v) => EpochOf(v) \in Epochs
  BY DEF Attached, EpochOf, AttachedView
<1>2. CASE Attached(v) /\ views[v].state_stream
  BY <1>1, <1>2 DEF CancelStateStream, EpochOf
<1>3. CASE ~(Attached(v) /\ views[v].state_stream)
  BY <1>1, <1>3 DEF CancelStateStream, StreamsKnown, EpochOf
<1> QED
  BY <1>2, <1>3

\* What attach and take_over have in common: an epoch is minted, and what v's
\* earlier incarnation had is cancelled and cleared.
LEMMA MintKeeps ==
    ASSUME IInv, NEW v \in Views, NEW c \in Clients, NEW access \in Access,
           next_attachment_epoch < MaxEpoch,
           next_attachment_epoch' = next_attachment_epoch + 1,
           views' = [views EXCEPT ![v] = NewView(c, access, next_attachment_epoch')],
           CancelStateStream(v),
           ClearControllerForView(v),
           attach_watermarks' \in [Clients -> [Views -> AttachWatermark \cup {None}]],
           UNCHANGED <<layout, applied>>
    PROVE  IInv'
<1> DEFINE n == next_attachment_epoch'
<1> USE DEF IInv
<1>1. /\ n = next_attachment_epoch + 1
      /\ n \in 1..MaxEpoch
      /\ n \in 0..MaxEpoch
  BY ConstantsOK DEF TypeOK
<1> HIDE DEF n
<1>2. /\ NewView(c, access, n) \in AttachedView
      /\ NewView(c, access, n) # None
      /\ NewView(c, access, n).attachment_epoch = n
      /\ NewView(c, access, n).state_stream = FALSE
  BY <1>1, NewViewType, ZenonT(30)
<1>3. /\ views' \in [Views -> AttachedView \cup {None}]
      /\ \A w \in Views : w # v => views'[w] = views[w]
  BY <1>2 DEF TypeOK, n
<1>4. /\ views'[v] # None
      /\ views'[v].attachment_epoch = n
      /\ views'[v].state_stream = FALSE
  <2>1. views'[v] = NewView(c, access, n)
    BY DEF TypeOK, n
  <2> QED
    BY <1>2, <2>1
<1>5. TypeOK'
  BY <1>1, <1>3, ClearControllerLemma, CancelLemma DEF TypeOK, layout, n, Epochs
<1>6. ControllerIsCurrent'
  <2> SUFFICES ASSUME controller' # None
               PROVE  /\ Owns(controller.view_id, controller.client_id)'
                      /\ views'[controller'.view_id].access = "ReadWrite"
                      /\ views'[controller'.view_id].attachment_epoch = controller'.attachment_epoch
    BY DEF ControllerIsCurrent, EpochOf
  <2>1. /\ controller' = controller
        /\ controller.view_id # v
        /\ controller.view_id \in Views
    BY ClearControllerLemma DEF TypeOK, ControllerState
  <2> QED
    BY <1>3, <2>1 DEF ControllerIsCurrent, Owns, Attached, EpochOf
<1>7. \A w \in Views : w # v /\ Attached(w) =>
          /\ EpochOf(w) \in 1..MaxEpoch
          /\ EpochOf(w) < n
  BY <1>1 DEF EpochsDistinct, EpochOf, Attached, TypeOK, AttachedView
<1>8. EpochsDistinct'
  <2> SUFFICES ASSUME NEW w \in Views, Attached(w)'
               PROVE  /\ EpochOf(w)' <= n
                      /\ \A x \in Views \ {w} : Attached(x)' => EpochOf(x)' # EpochOf(w)'
    BY DEF EpochsDistinct, n
  <2>1. CASE w = v
    BY <1>1, <1>3, <1>4, <1>7, <2>1 DEF EpochOf, Attached
  <2>2. CASE w # v
    BY <1>1, <1>3, <1>4, <1>7, <2>2 DEF EpochsDistinct, EpochOf, Attached
  <2> QED
    BY <2>1, <2>2
<1>9. streams[n] # "open" /\ streams'[n] # "open"
  <2>1. streams[n] # "open"
    BY <1>1 DEF StreamsEndWithIncarnation, Epochs, EpochsDistinct, EpochOf, TypeOK, AttachedView, Attached
  <2> QED
    BY <1>1, <2>1, CancelLemma DEF Epochs
<1>10. StreamsKnown'
  <2> SUFFICES ASSUME NEW w \in Views, views'[w] # None
               PROVE  views'[w].state_stream <=> streams'[views'[w].attachment_epoch] = "open"
    BY DEF StreamsKnown, EpochOf, Attached
  <2>1. CASE w = v
    BY <1>4, <1>9, <2>1
  <2>2. CASE w # v
    <3>1. /\ views'[w] = views[w]
          /\ EpochOf(w) \in Epochs
          /\ Attached(v) => EpochOf(w) # EpochOf(v)
      BY <1>3, <1>7, <2>2 DEF EpochsDistinct, Attached, Epochs
    <3>2. streams'[EpochOf(w)] = streams[EpochOf(w)]
      BY <3>1, CancelLemma
    <3> QED
      BY <3>1, <3>2 DEF StreamsKnown, Attached, EpochOf
  <2> QED
    BY <2>1, <2>2
<1>11. StreamsEndWithIncarnation'
  <2> SUFFICES ASSUME NEW e \in Epochs, streams'[e] = "open"
               PROVE  \E w \in Views : views'[w] # None /\ views'[w].attachment_epoch = e
    BY DEF StreamsEndWithIncarnation, Attached, EpochOf, Epochs
  <2>1. streams[e] = "open" /\ (Attached(v) => EpochOf(v) # e)
    BY CancelLemma
  <2>2. PICK w \in Views : Attached(w) /\ EpochOf(w) = e
    BY <2>1 DEF StreamsEndWithIncarnation
  <2> QED
    BY <1>3, <2>1, <2>2 DEF Attached, EpochOf
<1> QED
  BY <1>5, <1>6, <1>8, <1>10, <1>11

\* attach: v was not attached, so there is nothing to cancel or clear.
LEMMA AttachKeeps ==
    ASSUME IInv, NEW v \in Views, NEW c \in Clients, NEW access \in Access,
           Attach(v, c, access)
    PROVE  IInv'
<1>1. CancelStateStream(v)
  BY DEF Attach, CancelStateStream
<1>2. ClearControllerForView(v)
  BY DEF Attach, ClearControllerForView, Controls, IInv, ControllerIsCurrent, Owns, seats, TypeOK
<1>3. /\ next_attachment_epoch < MaxEpoch
      /\ next_attachment_epoch' = next_attachment_epoch + 1
      /\ views' = [views EXCEPT ![v] = NewView(c, access, next_attachment_epoch')]
      /\ UNCHANGED <<layout, applied>>
      /\ attach_watermarks' \in [Clients -> [Views -> AttachWatermark \cup {None}]]
  BY DEF Attach, IInv, TypeOK
<1> QED
  BY <1>1, <1>2, <1>3, MintKeeps

\* take_over: a mint that also raises the client's watermark for the view.
LEMMA TakeOverKeeps ==
    ASSUME IInv, NEW v \in Views, NEW c \in Clients, NEW access \in Access,
           NEW g \in Generations, NEW f \in ConnIds, NEW m \in BOOLEAN,
           TakeOver(v, c, access, g, f, m)
    PROVE  IInv'
<1>1. RaisedWatermark(v, c, g, f) \in AttachWatermark
  BY DEF RaisedWatermark, AttachWatermark, IInv, TypeOK
<1>2. attach_watermarks' \in [Clients -> [Views -> AttachWatermark \cup {None}]]
  BY <1>1 DEF TakeOver, IInv, TypeOK
<1>3. /\ next_attachment_epoch < MaxEpoch
      /\ next_attachment_epoch' = next_attachment_epoch + 1
      /\ views' = [views EXCEPT ![v] = NewView(c, access, next_attachment_epoch')]
      /\ CancelStateStream(v)
      /\ ClearControllerForView(v)
      /\ UNCHANGED <<layout, applied>>
  BY DEF TakeOver
<1> QED
  BY <1>2, <1>3, MintKeeps

\* Steps that touch neither attachments, nor the controller, nor streams.
LEMMA CollectKeeps ==
    ASSUME IInv, NEW c \in Clients, NEW t \in ConnIds, CollectWatermarks(c, t)
    PROVE  IInv'
<1>1. /\ UNCHANGED <<views, seats, next_attachment_epoch, layout, streams, applied>>
      /\ UNCHANGED <<controller, next_control_epoch, control_revision, size, layout_epoch>>
  BY DEF CollectWatermarks, seats, layout
<1>2. attach_watermarks' \in [Clients -> [Views -> AttachWatermark \cup {None}]]
  BY DEF CollectWatermarks, IInv, TypeOK
<1>3. TypeOK'
  BY <1>1, <1>2 DEF IInv, TypeOK
<1>4. ControllerIsCurrent' /\ EpochsDistinct' /\ StreamsKnown' /\ StreamsEndWithIncarnation'
  BY <1>1 DEF IInv, ControllerIsCurrent, EpochsDistinct, StreamsKnown,
              StreamsEndWithIncarnation, Owns, Attached, EpochOf, Epochs
<1> QED
  BY <1>3, <1>4 DEF IInv

\* register_state_stream: only the current epoch's handle opens.
LEMMA RegisterKeeps ==
    ASSUME IInv, NEW v \in Views, NEW e \in Epochs, RegisterStateStream(v, e)
    PROVE  IInv'
<1> USE DEF IInv
<1>1. /\ views' = [views EXCEPT ![v].state_stream = TRUE]
      /\ streams' = [streams EXCEPT ![e] = "open"]
      /\ views[v] # None
      /\ EpochOf(v) = e
      /\ UNCHANGED <<controller, next_control_epoch, control_revision, size,
                     layout_epoch, next_attachment_epoch, attach_watermarks, applied>>
  BY DEF RegisterStateStream, Attached, EpochOf, seats, layout
<1>2. /\ views'[v] \in AttachedView
      /\ views'[v] = [views[v] EXCEPT !.state_stream = TRUE]
      /\ \A w \in Views : w # v => views'[w] = views[w]
  BY <1>1 DEF TypeOK, AttachedView
<1>3. TypeOK'
  <2>1. views' \in [Views -> AttachedView \cup {None}]
    BY <1>1, <1>2 DEF TypeOK
  <2>2. streams' \in [1..MaxEpoch -> {"none", "open", "fired"}]
    BY <1>1 DEF TypeOK
  <2> QED
    BY <1>1, <2>1, <2>2 DEF TypeOK
<1>4. /\ \A w \in Views : /\ Attached(w)' <=> Attached(w)
                          /\ Attached(w) => /\ EpochOf(w)' = EpochOf(w)
                                            /\ views'[w].client_id = views[w].client_id
                                            /\ views'[w].access = views[w].access
  <2>1. views'[v] # None
    BY <1>2, NoneIsNoRecord
  <2>2. /\ views'[v].attachment_epoch = views[v].attachment_epoch
        /\ views'[v].client_id = views[v].client_id
        /\ views'[v].access = views[v].access
    BY <1>1, <1>2 DEF TypeOK, AttachedView
  <2> QED
    BY <1>1, <1>2, <2>1, <2>2 DEF Attached, EpochOf
<1>5. ControllerIsCurrent'
  <2> SUFFICES ASSUME controller # None
               PROVE  /\ views'[controller.view_id] # None
                      /\ views'[controller.view_id].client_id = controller.client_id
                      /\ views'[controller.view_id].access = "ReadWrite"
                      /\ views'[controller.view_id].attachment_epoch = controller.attachment_epoch
    BY <1>1 DEF ControllerIsCurrent, EpochOf, Owns, Attached
  <2>1. controller.view_id \in Views
    BY DEF TypeOK, ControllerState
  <2> QED
    BY <1>4, <2>1 DEF ControllerIsCurrent, Owns, Attached, EpochOf
<1>6. EpochsDistinct'
  BY <1>1, <1>4 DEF EpochsDistinct
<1>7. StreamsKnown'
  <2> SUFFICES ASSUME NEW w \in Views, Attached(w)
               PROVE  views'[w].state_stream <=> streams'[EpochOf(w)] = "open"
    BY <1>4 DEF StreamsKnown
  <2>1. CASE w = v
    BY <1>1, <1>2, <2>1 DEF TypeOK, AttachedView, Epochs
  <2>2. CASE w # v
    BY <1>1, <1>2, <2>2 DEF TypeOK, StreamsKnown, EpochsDistinct, Attached
  <2> QED
    BY <2>1, <2>2
<1>8. StreamsEndWithIncarnation'
  BY <1>1, <1>4 DEF StreamsEndWithIncarnation, Epochs, Attached, TypeOK
<1> QED
  BY <1>3, <1>5, <1>6, <1>7, <1>8

\* A step that changes no attachment's identity, no controller and no stream
\* keeps everything but, perhaps, types.
LEMMA IdentityKeeps ==
    ASSUME IInv, TypeOK',
           UNCHANGED <<next_attachment_epoch, streams>>,
           \/ UNCHANGED controller
           \/ ControllerIsCurrent',
           \A w \in Views :
               /\ views'[w] # None <=> views[w] # None
               /\ views[w] # None =>
                      /\ views'[w].attachment_epoch = views[w].attachment_epoch
                      /\ views'[w].client_id = views[w].client_id
                      /\ views'[w].access = views[w].access
                      /\ views'[w].state_stream = views[w].state_stream
    PROVE  IInv'
<1> USE DEF Attached, EpochOf
<1>1. ControllerIsCurrent'
  BY DEF IInv, TypeOK, ControllerState, ControllerIsCurrent, Owns
<1>2. EpochsDistinct' /\ StreamsKnown' /\ StreamsEndWithIncarnation'
  BY DEF IInv, EpochsDistinct, StreamsKnown, StreamsEndWithIncarnation, Epochs
<1> QED
  BY <1>1, <1>2 DEF IInv

\* detach and detach_view_if_epoch, once their view is found.
LEMMA RemoveKeeps ==
    ASSUME IInv, NEW v \in Views, Attached(v), Remove(v)
    PROVE  IInv'
<1> USE DEF IInv
<1>1. /\ views' = [views EXCEPT ![v] = None]
      /\ CancelStateStream(v)
      /\ ClearControllerForView(v)
      /\ UNCHANGED <<next_attachment_epoch, attach_watermarks, size, layout_epoch, applied>>
  BY DEF Remove, layout
<1>2. /\ views'[v] = None
      /\ \A w \in Views : w # v => views'[w] = views[w]
      /\ views' \in [Views -> AttachedView \cup {None}]
  BY <1>1 DEF TypeOK
<1>3. TypeOK'
  BY <1>1, <1>2, ClearControllerLemma, CancelLemma DEF TypeOK, Epochs
<1>4. ControllerIsCurrent'
  <2> SUFFICES ASSUME controller' # None
               PROVE  /\ views'[controller'.view_id] # None
                      /\ views'[controller'.view_id].client_id = controller'.client_id
                      /\ views'[controller'.view_id].access = "ReadWrite"
                      /\ views'[controller'.view_id].attachment_epoch = controller'.attachment_epoch
    BY DEF ControllerIsCurrent, Owns, Attached, EpochOf
  <2>1. /\ controller' = controller
        /\ controller.view_id # v
        /\ controller.view_id \in Views
    BY <1>1, ClearControllerLemma DEF TypeOK, ControllerState
  <2> QED
    BY <1>2, <2>1 DEF ControllerIsCurrent, Owns, Attached, EpochOf
<1>5. EpochsDistinct'
  BY <1>1, <1>2 DEF EpochsDistinct, EpochOf, Attached
<1>6. StreamsKnown'
  <2> SUFFICES ASSUME NEW w \in Views, w # v, views[w] # None
               PROVE  views[w].state_stream <=> streams'[views[w].attachment_epoch] = "open"
    BY <1>2 DEF StreamsKnown, EpochOf, Attached
  <2>1. /\ EpochOf(w) \in Epochs
        /\ EpochOf(w) # EpochOf(v)
    BY DEF TypeOK, AttachedView, EpochsDistinct, EpochOf, Attached, Epochs
  <2>2. streams'[EpochOf(w)] = streams[EpochOf(w)]
    BY <1>1, <2>1, CancelLemma
  <2> QED
    BY <2>2 DEF StreamsKnown, EpochOf, Attached
<1>7. StreamsEndWithIncarnation'
  <2> SUFFICES ASSUME NEW e \in Epochs, streams'[e] = "open"
               PROVE  \E w \in Views : views'[w] # None /\ views'[w].attachment_epoch = e
    BY DEF StreamsEndWithIncarnation, Attached, EpochOf, Epochs
  <2>1. streams[e] = "open" /\ EpochOf(v) # e
    BY <1>1, CancelLemma
  <2>2. PICK w \in Views : Attached(w) /\ EpochOf(w) = e
    BY <2>1 DEF StreamsEndWithIncarnation
  <2> QED
    BY <1>2, <2>1, <2>2 DEF Attached, EpochOf
<1> QED
  BY <1>3, <1>4, <1>5, <1>6, <1>7

\* SetSize keeps the size typed and never lowers the layout epoch.
LEMMA SetSizeLemma ==
    ASSUME TypeOK, NEW s \in Sizes, SetSize(s)
    PROVE  /\ size' \in Sizes
           /\ layout_epoch' \in Nat \ {0}
           /\ size' # size => layout_epoch' > layout_epoch
BY DEF SetSize, TypeOK

\* A granted claim installs a controller, and a well-typed one.
LEMMA ClaimedIsSome ==
    ASSUME IInv, NEW v \in Views, NEW c \in Clients, NEW s \in Sizes,
           Owns(v, c), CommitClaim(v, c, s)
    PROVE  /\ controller' \in ControllerState
           /\ controller' # None
<1>1. /\ next_control_epoch' \in 1..MaxClaims
      /\ views[v].attachment_epoch \in 1..MaxEpoch
  BY ConstantsOK DEF CommitClaim, IInv, TypeOK, Owns, Attached, AttachedView
<1>2. controller' \in ControllerState
  BY <1>1 DEF CommitClaim, ControllerState
<1> QED
  BY <1>2, NoneIsNoRecord

\* commit_claim, whose callers have found v writable and owned by c.
LEMMA CommitClaimKeeps ==
    ASSUME IInv, NEW v \in Views, NEW c \in Clients, NEW s \in Sizes,
           Owns(v, c), views[v].access = "ReadWrite", CommitClaim(v, c, s)
    PROVE  IInv'
<1> DEFINE k == next_control_epoch + 1
<1> USE DEF IInv
<1>1. /\ next_control_epoch' = k
      /\ controller' = [view_id |-> v, client_id |-> c, control_epoch |-> k,
                        attachment_epoch |-> views[v].attachment_epoch]
      /\ control_revision' = control_revision + 1
      /\ UNCHANGED <<views, next_attachment_epoch, attach_watermarks, streams, applied>>
      /\ SetSize(s)
  BY DEF CommitClaim
<1>2. k \in 1..MaxClaims /\ k \in 0..MaxClaims
  BY ConstantsOK DEF CommitClaim, TypeOK
<1> HIDE DEF k
<1>3. controller' \in ControllerState
  BY ClaimedIsSome
<1>4. TypeOK'
  BY <1>1, <1>2, <1>3, SetSizeLemma DEF TypeOK
<1>5. ControllerIsCurrent'
  BY <1>1 DEF ControllerIsCurrent, Owns, Attached, EpochOf
<1> QED
  BY <1>1, <1>4, <1>5, IdentityKeeps

\* authorize_resize.  Recording the sequence leaves the attachment who it was.
LEMMA ResizeKeeps ==
    ASSUME IInv, NEW v \in Views, NEW c \in Clients, NEW k \in 1..MaxClaims,
           NEW q \in CommandSeqs, NEW s \in Sizes, AuthorizeResize(v, c, k, q, s)
    PROVE  IInv'
<1>1. /\ Attached(v)
      /\ views' = [views EXCEPT ![v].last_resize_sequence = q]
      /\ applied' = [applied EXCEPT ![views[v].attachment_epoch].resize = q]
      /\ SetSize(s)
      /\ UNCHANGED <<controller, next_control_epoch, control_revision,
                     next_attachment_epoch, attach_watermarks, streams>>
  BY DEF AuthorizeResize, Owns, seats
<1>2. /\ views'[v] \in AttachedView
      /\ views'[v] = [views[v] EXCEPT !.last_resize_sequence = q]
      /\ \A w \in Views : w # v => views'[w] = views[w]
      /\ views' \in [Views -> AttachedView \cup {None}]
  BY <1>1 DEF IInv, TypeOK, AttachedView, Attached
<1>3. applied' \in [1..MaxEpoch -> [input : CommandSeqs \cup {0}, resize : CommandSeqs \cup {0}]]
  BY <1>1 DEF IInv, TypeOK
<1>4. TypeOK'
  BY <1>1, <1>2, <1>3, SetSizeLemma DEF IInv, TypeOK
<1>5. /\ views'[v] # None
      /\ views'[v].attachment_epoch = views[v].attachment_epoch
      /\ views'[v].client_id = views[v].client_id
      /\ views'[v].access = views[v].access
      /\ views'[v].state_stream = views[v].state_stream
  BY <1>1, <1>2, NoneIsNoRecord DEF IInv, TypeOK, Attached, AttachedView
<1> QED
  BY <1>1, <1>2, <1>4, <1>5, IdentityKeeps DEF Attached

\* authorize_input.
LEMMA InputKeeps ==
    ASSUME IInv, NEW v \in Views, NEW c \in Clients, NEW e \in Epochs,
           NEW q \in CommandSeqs, AuthorizeInput(v, c, e, q)
    PROVE  IInv'
<1>1. /\ Attached(v)
      /\ views' = [views EXCEPT ![v].last_input_sequence = q]
      /\ applied' = [applied EXCEPT ![e].input = q]
      /\ UNCHANGED <<controller, next_control_epoch, control_revision, size, layout_epoch,
                     next_attachment_epoch, attach_watermarks, streams>>
  BY DEF AuthorizeInput, Owns, seats, layout
<1>2. /\ views'[v] \in AttachedView
      /\ views'[v] = [views[v] EXCEPT !.last_input_sequence = q]
      /\ \A w \in Views : w # v => views'[w] = views[w]
      /\ views' \in [Views -> AttachedView \cup {None}]
  <2>1. /\ views \in [Views -> AttachedView \cup {None}]
        /\ views[v] \in AttachedView
    BY <1>1 DEF IInv, TypeOK, Attached
  <2>2. [views[v] EXCEPT !.last_input_sequence = q] \in AttachedView
    BY <2>1 DEF AttachedView
  <2>3. /\ views'[v] = [views[v] EXCEPT !.last_input_sequence = q]
        /\ \A w \in Views : w # v => views'[w] = views[w]
    BY <1>1, <2>1
  <2> QED
    BY <1>1, <2>1, <2>2, <2>3
<1>3. applied' \in [1..MaxEpoch -> [input : CommandSeqs \cup {0}, resize : CommandSeqs \cup {0}]]
  BY <1>1 DEF IInv, TypeOK
<1>4. TypeOK'
  BY <1>1, <1>2, <1>3 DEF IInv, TypeOK
<1>5. /\ views'[v] # None
      /\ views'[v].attachment_epoch = views[v].attachment_epoch
      /\ views'[v].client_id = views[v].client_id
      /\ views'[v].access = views[v].access
      /\ views'[v].state_stream = views[v].state_stream
  BY <1>1, <1>2, NoneIsNoRecord DEF IInv, TypeOK, Attached, AttachedView
<1> QED
  BY <1>1, <1>2, <1>4, <1>5, IdentityKeeps DEF Attached

\* A step that leaves the state as it is.
LEMMA StutterKeeps == IInv /\ UNCHANGED vars => IInv'
BY DEF IInv, vars, seats, layout, TypeOK, ControllerIsCurrent, EpochsDistinct,
       StreamsKnown, StreamsEndWithIncarnation, Owns, Attached, EpochOf, Epochs

\* Every step of the authority keeps the inductive invariant.
LEMMA NextKeeps == IInv /\ [Next]_vars => IInv'
<1> SUFFICES ASSUME IInv, Next PROVE IInv'
  BY StutterKeeps
<1>p. PICK v \in Views, c \in Clients : Call(v, c)
  BY DEF Next
<1>1. CASE \E access \in Access : Attach(v, c, access)
  BY <1>1, AttachKeeps
<1>2. CASE \E access \in Access, g \in Generations, f \in ConnIds, m \in BOOLEAN :
               TakeOver(v, c, access, g, f, m)
  BY <1>2, TakeOverKeeps
<1>3. CASE \E t \in ConnIds : CollectWatermarks(c, t)
  BY <1>3, CollectKeeps
<1>4. CASE \E e \in Epochs : RegisterStateStream(v, e)
  BY <1>4, RegisterKeeps
<1>5. CASE Detach(v, c) \/ \E e \in Epochs : DetachViewIfEpoch(v, c, e)
  BY <1>5, RemoveKeeps DEF Detach, DetachViewIfEpoch, Owns
<1>6. CASE \E s \in Sizes : ClaimControl(v, c, s)
  BY <1>6, CommitClaimKeeps DEF ClaimControl
<1>7. CASE \E e \in Epochs, s \in Sizes, r \in (1..control_revision) \cup {None} :
               ClaimControlChecked(v, c, e, s, r)
  BY <1>7, CommitClaimKeeps DEF ClaimControlChecked
<1>8. CASE \/ \E k \in 1..MaxClaims, q \in CommandSeqs, s \in Sizes :
                 AuthorizeResize(v, c, k, q, s)
           \/ \E e \in Epochs, k \in 1..MaxClaims, q \in CommandSeqs, s \in Sizes :
                 AuthorizeResizeChecked(v, c, e, k, q, s)
  BY <1>8, ResizeKeeps DEF AuthorizeResizeChecked
<1>9. CASE \E e \in Epochs, q \in CommandSeqs : AuthorizeInput(v, c, e, q)
  BY <1>9, InputKeeps
<1> QED
  BY <1>p, <1>1, <1>2, <1>3, <1>4, <1>5, <1>6, <1>7, <1>8, <1>9 DEF Call

-----------------------------------------------------------------------------
(***************************************************************************)
(* The invariants.                                                         *)
(***************************************************************************)

\* The inductive invariant holds in every reachable state.
THEOREM Inductive == Spec => []IInv
BY InitIInv, NextKeeps, PTL DEF Spec

\* Every reachable state of the authority is well typed.
THEOREM TypeCorrect == Spec => []TypeOK
<1>1. IInv => TypeOK
  BY DEF IInv
<1> QED
  BY <1>1, Inductive, PTL

\* Control never outlives the attachment that claimed it, for any number of
\* views and clients and any order of attaches, takeovers, claims and detaches.
THEOREM ControllerAlwaysCurrent == Spec => []ControllerIsCurrent
<1>1. IInv => ControllerIsCurrent
  BY DEF IInv
<1> QED
  BY <1>1, Inductive, PTL

\* Attachment epochs are never shared.
THEOREM EpochsAlwaysDistinct == Spec => []EpochsDistinct
<1>1. IInv => EpochsDistinct
  BY DEF IInv
<1> QED
  BY <1>1, Inductive, PTL

\* A state stream registered with the authority is cancelled in the step that
\* ends its attachment.
THEOREM StreamsAlwaysEnd == Spec => []StreamsEndWithIncarnation
<1>1. IInv => StreamsEndWithIncarnation
  BY DEF IInv
<1> QED
  BY <1>1, Inductive, PTL

-----------------------------------------------------------------------------
(***************************************************************************)
(* The refinement of Incarnations.                                         *)
(***************************************************************************)

\* The refinement mapping, named: who lives, and who sits.
Living == {EpochOf(v) : v \in {w \in Views : Attached(w)}}
Seat == IF controller = None THEN 0 ELSE controller.attachment_epoch

\* The seat is v's epoch exactly when v is the controller.
LEMMA SeatLemma ==
    ASSUME IInv, NEW v \in Views
    PROVE  /\ Controls(v) => Attached(v) /\ Seat = EpochOf(v)
           /\ ~Controls(v) /\ Attached(v) => Seat # EpochOf(v)
<1>1. Controls(v) => Attached(v) /\ Seat = EpochOf(v)
  BY DEF IInv, ControllerIsCurrent, Controls, Seat, Owns
<1>2. ASSUME ~Controls(v), Attached(v) PROVE Seat # EpochOf(v)
  <2>1. EpochOf(v) \in 1..MaxEpoch
    BY <1>2 DEF IInv, TypeOK, Attached, EpochOf, AttachedView
  <2>2. CASE controller = None
    BY <2>1, <2>2 DEF Seat
  <2>3. CASE controller # None
    <3>1. controller.view_id \in Views /\ controller.view_id # v
      BY <1>2, <2>3 DEF IInv, TypeOK, ControllerState, Controls
    <3> QED
      BY <1>2, <2>3, <3>1 DEF IInv, ControllerIsCurrent, EpochsDistinct, Owns, Seat
  <2> QED
    BY <2>2, <2>3
<1> QED
  BY <1>1, <1>2

\* Clearing v's controller vacates the seat of whatever v had.
LEMMA VacateLemma ==
    ASSUME IInv, NEW v \in Views, ClearControllerForView(v)
    PROVE  LET ending == IF Attached(v) THEN {EpochOf(v)} ELSE {}
           IN  IF Seat \in ending
               THEN Seat' = 0 /\ control_revision' = control_revision + 1
               ELSE Seat' = Seat /\ control_revision' = control_revision
<1>1. CASE Controls(v)
  <2>1. controller' = None /\ control_revision' = control_revision + 1
    BY <1>1 DEF ClearControllerForView
  <2> QED
    BY <1>1, <2>1, SeatLemma DEF Seat
<1>2. CASE ~Controls(v)
  <2>1. controller' = controller /\ control_revision' = control_revision
    BY <1>2 DEF ClearControllerForView, IInv, TypeOK
  <2> QED
    BY <1>2, <2>1, SeatLemma DEF Seat
<1> QED
  BY <1>1, <1>2

\* A mint is a birth that replaces what v had.
LEMMA MintBegins ==
    ASSUME IInv, NEW v \in Views, NEW c \in Clients, NEW access \in Access,
           next_attachment_epoch < MaxEpoch,
           next_attachment_epoch' = next_attachment_epoch + 1,
           views' = [views EXCEPT ![v] = NewView(c, access, next_attachment_epoch')],
           ClearControllerForView(v)
    PROVE  Abstract!Next
<1> DEFINE n == next_attachment_epoch + 1
           ending == IF Attached(v) THEN {EpochOf(v)} ELSE {}
<1>1. n \in 1..MaxEpoch
  BY ConstantsOK DEF IInv, TypeOK
<1>2. /\ views'[v] = NewView(c, access, n)
      /\ \A w \in Views : w # v => views'[w] = views[w]
  BY DEF IInv, TypeOK
<1> HIDE DEF n
<1>3. views'[v] # None /\ views'[v].attachment_epoch = n
  <2>1. NewView(c, access, n) # None /\ NewView(c, access, n).attachment_epoch = n
    BY <1>1, NewViewType
  <2> QED
    BY <1>2, <2>1
<1>4. Living' = (Living \ ending) \cup {n}
  <2>1. \A w \in Views : Attached(w)' <=> w = v \/ Attached(w)
    BY <1>2, <1>3 DEF Attached
  <2>2. \A w \in Views : w # v => EpochOf(w)' = EpochOf(w)
    BY <1>2 DEF EpochOf
  <2>3. \A w \in Views : w # v /\ Attached(w) => EpochOf(w) \notin ending
    BY DEF IInv, EpochsDistinct
  <2>4. EpochOf(v)' = n
    BY <1>3 DEF EpochOf
  <2> HIDE DEF n, ending
  <2>5. \A x \in Living' : x \in (Living \ ending) \cup {n}
    BY <2>1, <2>2, <2>3, <2>4 DEF Living
  <2>6. \A x \in (Living \ ending) \cup {n} : x \in Living'
    <3>1. n \in Living'
      BY <2>1, <2>4 DEF Living
    <3>2. ASSUME NEW x \in Living, x \notin ending PROVE x \in Living'
      BY <2>1, <2>2, <3>2 DEF Living, ending
    <3> QED
      BY <3>1, <3>2
  <2> QED
    BY <2>5, <2>6
<1>5. IF Seat \in ending
      THEN Seat' = 0 /\ control_revision' = control_revision + 1
      ELSE Seat' = Seat /\ control_revision' = control_revision
  BY VacateLemma
<1>6. Abstract!Begin(ending)
  BY <1>4, <1>5 DEF Abstract!Begin, Abstract!Vacate, Living, Seat, n
<1>7. CASE Attached(v)
  BY <1>6, <1>7 DEF Abstract!Next
<1>8. CASE ~Attached(v)
  BY <1>6, <1>8 DEF Abstract!Next
<1> QED
  BY <1>7, <1>8

\* A removal is an end.
LEMMA RemoveEnds ==
    ASSUME IInv, NEW v \in Views, Attached(v), Remove(v)
    PROVE  Abstract!Next
<1>1. /\ views'[v] = None
      /\ \A w \in Views : w # v => views'[w] = views[w]
      /\ next_attachment_epoch' = next_attachment_epoch
      /\ ClearControllerForView(v)
  BY DEF Remove, IInv, TypeOK
<1>2. Living' = Living \ {EpochOf(v)}
  <2>1. \A w \in Views : Attached(w)' <=> w # v /\ Attached(w)
    BY <1>1 DEF Attached
  <2>2. \A w \in Views : w # v => EpochOf(w)' = EpochOf(w)
    BY <1>1 DEF EpochOf
  <2>3. \A w \in Views : w # v /\ Attached(w) => EpochOf(w) # EpochOf(v)
    BY DEF IInv, EpochsDistinct
  <2>4. \A x \in Living' : x \in Living \ {EpochOf(v)}
    BY <2>1, <2>2, <2>3 DEF Living
  <2>5. \A x \in Living \ {EpochOf(v)} : x \in Living'
    BY <2>1, <2>2 DEF Living
  <2> QED
    BY <2>4, <2>5
<1>3. IF Seat = EpochOf(v)
      THEN Seat' = 0 /\ control_revision' = control_revision + 1
      ELSE Seat' = Seat /\ control_revision' = control_revision
  BY <1>1, VacateLemma
<1>4. Abstract!End(EpochOf(v))
  BY <1>1, <1>2, <1>3 DEF Abstract!End, Abstract!Vacate, Living, Seat
<1> QED
  BY <1>4 DEF Abstract!Next, Living

\* A granted claim takes the seat for v's incarnation.
LEMMA ClaimTakes ==
    ASSUME IInv, NEW v \in Views, NEW c \in Clients, NEW s \in Sizes,
           Owns(v, c), CommitClaim(v, c, s)
    PROVE  Abstract!Next
<1>1. /\ controller' = [view_id |-> v, client_id |-> c, control_epoch |-> next_control_epoch',
                        attachment_epoch |-> EpochOf(v)]
      /\ control_revision' = control_revision + 1
      /\ UNCHANGED <<views, next_attachment_epoch>>
  BY DEF CommitClaim, EpochOf
<1>2. controller' # None
  BY ClaimedIsSome
<1>3. Seat' = EpochOf(v) /\ Living' = Living
  BY <1>1, <1>2 DEF Seat, Living, EpochOf, Attached
<1>4. Abstract!Take(EpochOf(v))
  BY <1>1, <1>3 DEF Abstract!Take, Living, Seat
<1> QED
  BY <1>4 DEF Abstract!Next, Living, Owns

\* Whatever keeps the identity of the attachments and the seat stutters.
LEMMA IdentityStutters ==
    ASSUME UNCHANGED <<next_attachment_epoch, controller, control_revision>>,
           \A w \in Views :
               /\ views'[w] # None <=> views[w] # None
               /\ views[w] # None =>
                      views'[w].attachment_epoch = views[w].attachment_epoch
    PROVE  UNCHANGED Abstract!abstract
<1>1. Living' = Living
  BY DEF Living, EpochOf, Attached
<1> QED
  BY <1>1 DEF Abstract!abstract, Living

\* Registering a stream, resizing and typing keep every attachment's identity.
LEMMA FieldUpdates ==
    ASSUME IInv, NEW v \in Views, Attached(v),
           \/ views' = [views EXCEPT ![v].state_stream = TRUE]
           \/ \E q \in CommandSeqs :
                 \/ views' = [views EXCEPT ![v].last_resize_sequence = q]
                 \/ views' = [views EXCEPT ![v].last_input_sequence = q]
    PROVE  \A w \in Views :
               /\ views'[w] # None <=> views[w] # None
               /\ views[w] # None =>
                      views'[w].attachment_epoch = views[w].attachment_epoch
<1>1. views[v] \in AttachedView
  BY DEF IInv, TypeOK, Attached
<1>2. /\ views'[v] \in AttachedView
      /\ views'[v].attachment_epoch = views[v].attachment_epoch
      /\ \A w \in Views : w # v => views'[w] = views[w]
  <2>1. CASE views' = [views EXCEPT ![v].state_stream = TRUE]
    BY <1>1, <2>1 DEF IInv, TypeOK, AttachedView
  <2>2. CASE \E q \in CommandSeqs : views' = [views EXCEPT ![v].last_resize_sequence = q]
    BY <1>1, <2>2 DEF IInv, TypeOK, AttachedView
  <2>3. CASE \E q \in CommandSeqs : views' = [views EXCEPT ![v].last_input_sequence = q]
    BY <1>1, <2>3 DEF IInv, TypeOK, AttachedView
  <2> QED
    BY <2>1, <2>2, <2>3
<1>3. views'[v] # None
  BY <1>2, NoneIsNoRecord
<1> QED
  BY <1>2, <1>3 DEF Attached

\* Every step of the authority is a step of Incarnations or none.
LEMMA StepRefines == IInv /\ [Next]_vars => [Abstract!Next]_(Abstract!abstract)
<1> SUFFICES ASSUME IInv, [Next]_vars
             PROVE  Abstract!Next \/ UNCHANGED Abstract!abstract
  OBVIOUS
<1>0. CASE UNCHANGED vars
  BY <1>0, IdentityStutters DEF vars, seats
<1>n. CASE Next
  <2>p. PICK v \in Views, c \in Clients : Call(v, c)
    BY <1>n DEF Next
  <2>1. CASE \E access \in Access : Attach(v, c, access)
    <3>1. ClearControllerForView(v)
      BY <2>1 DEF Attach, ClearControllerForView, Controls, IInv, ControllerIsCurrent, Owns, seats, TypeOK
    <3> QED
      BY <2>1, <3>1, MintBegins DEF Attach
  <2>2. CASE \E access \in Access, g \in Generations, f \in ConnIds, m \in BOOLEAN :
                 TakeOver(v, c, access, g, f, m)
    BY <2>2, MintBegins DEF TakeOver
  <2>3. CASE \E t \in ConnIds : CollectWatermarks(c, t)
    BY <2>3, IdentityStutters DEF CollectWatermarks, seats
  <2>4. CASE \E e \in Epochs : RegisterStateStream(v, e)
    <3>1. /\ Attached(v)
          /\ views' = [views EXCEPT ![v].state_stream = TRUE]
          /\ UNCHANGED <<next_attachment_epoch, controller, control_revision>>
      BY <2>4 DEF RegisterStateStream, seats
    <3> QED
      BY <3>1, FieldUpdates, IdentityStutters
  <2>5. CASE Detach(v, c) \/ \E e \in Epochs : DetachViewIfEpoch(v, c, e)
    BY <2>5, RemoveEnds DEF Detach, DetachViewIfEpoch, Owns
  <2>6. CASE \/ \E s \in Sizes : ClaimControl(v, c, s)
             \/ \E e \in Epochs, s \in Sizes, r \in (1..control_revision) \cup {None} :
                   ClaimControlChecked(v, c, e, s, r)
    BY <2>6, ClaimTakes DEF ClaimControl, ClaimControlChecked
  <2>7. CASE \/ \E k \in 1..MaxClaims, q \in CommandSeqs, s \in Sizes :
                   AuthorizeResize(v, c, k, q, s)
             \/ \E e \in Epochs, k \in 1..MaxClaims, q \in CommandSeqs, s \in Sizes :
                   AuthorizeResizeChecked(v, c, e, k, q, s)
    <3>1. /\ Attached(v)
          /\ \E q \in CommandSeqs : views' = [views EXCEPT ![v].last_resize_sequence = q]
          /\ UNCHANGED <<next_attachment_epoch, controller, control_revision>>
      BY <2>7 DEF AuthorizeResizeChecked, AuthorizeResize, Owns, seats
    <3> QED
      BY <3>1, FieldUpdates, IdentityStutters
  <2>8. CASE \E e \in Epochs, q \in CommandSeqs : AuthorizeInput(v, c, e, q)
    <3>1. /\ Attached(v)
          /\ \E q \in CommandSeqs : views' = [views EXCEPT ![v].last_input_sequence = q]
          /\ UNCHANGED <<next_attachment_epoch, controller, control_revision>>
      BY <2>8 DEF AuthorizeInput, Owns, seats
    <3> QED
      BY <3>1, FieldUpdates, IdentityStutters
  <2> QED
    BY <2>p, <2>1, <2>2, <2>3, <2>4, <2>5, <2>6, <2>7, <2>8 DEF Call
<1> QED
  BY <1>0, <1>n

\* The authority implements Incarnations.
THEOREM Refinement == Spec => ImplementsIncarnations
<1>1. Init => Abstract!Init
  <2> SUFFICES ASSUME Init PROVE Abstract!Init
    OBVIOUS
  <2>1. Living = {} /\ Seat = 0
    BY DEF Init, Living, Seat, Attached
  <2> QED
    BY <2>1 DEF Init, Abstract!Init, Living, Seat
<1> QED
  BY <1>1, Inductive, StepRefines, PTL DEF Spec, Abstract!Spec, ImplementsIncarnations

-----------------------------------------------------------------------------
(***************************************************************************)
(* What a step may never do.                                               *)
(***************************************************************************)

\* Every step leaves the seat alone, clears it for one view, or grants a claim.
LEMMA SeatSteps ==
    ASSUME Next
    PROVE  \E v \in Views, c \in Clients :
               \/ UNCHANGED <<controller, next_control_epoch, control_revision>>
               \/ ClearControllerForView(v)
               \/ \E s \in Sizes : Owns(v, c) /\ CommitClaim(v, c, s)
<1>p. PICK v \in Views, c \in Clients : Call(v, c)
  BY DEF Next
<1>1. CASE \/ \E access \in Access : Attach(v, c, access)
           \/ \E t \in ConnIds : CollectWatermarks(c, t)
           \/ \E e \in Epochs : RegisterStateStream(v, e)
           \/ \E e \in Epochs, q \in CommandSeqs : AuthorizeInput(v, c, e, q)
  BY <1>1 DEF Attach, CollectWatermarks, RegisterStateStream, AuthorizeInput, seats
<1>2. CASE \/ \E access \in Access, g \in Generations, f \in ConnIds, m \in BOOLEAN :
                 TakeOver(v, c, access, g, f, m)
           \/ Detach(v, c)
           \/ \E e \in Epochs : DetachViewIfEpoch(v, c, e)
  BY <1>2 DEF TakeOver, Detach, DetachViewIfEpoch, Remove
<1>3. CASE \/ \E s \in Sizes : ClaimControl(v, c, s)
           \/ \E e \in Epochs, s \in Sizes, r \in (1..control_revision) \cup {None} :
                 ClaimControlChecked(v, c, e, s, r)
  BY <1>3 DEF ClaimControl, ClaimControlChecked
<1>4. CASE \/ \E k \in 1..MaxClaims, q \in CommandSeqs, s \in Sizes :
                 AuthorizeResize(v, c, k, q, s)
           \/ \E e \in Epochs, k \in 1..MaxClaims, q \in CommandSeqs, s \in Sizes :
                 AuthorizeResizeChecked(v, c, e, k, q, s)
  BY <1>4 DEF AuthorizeResizeChecked, AuthorizeResize, seats
<1> QED
  BY <1>p, <1>1, <1>2, <1>3, <1>4 DEF Call

\* The controller's epoch has been minted, so the next claim's is another.
ClaimCounted == controller # None => controller.control_epoch <= next_control_epoch

LEMMA ClaimAlwaysCounted == Spec => []ClaimCounted
<1>1. Init => ClaimCounted
  BY DEF Init, ClaimCounted
<1>2. IInv /\ ClaimCounted /\ [Next]_vars => ClaimCounted'
  <2> SUFFICES ASSUME IInv, ClaimCounted, Next PROVE ClaimCounted'
    BY DEF vars, seats, ClaimCounted
  <2>1. PICK v \in Views, c \in Clients :
               \/ UNCHANGED <<controller, next_control_epoch, control_revision>>
               \/ ClearControllerForView(v)
               \/ \E s \in Sizes : Owns(v, c) /\ CommitClaim(v, c, s)
    BY SeatSteps
  <2>2. CASE UNCHANGED <<controller, next_control_epoch, control_revision>>
    BY <2>2 DEF ClaimCounted
  <2>3. CASE ClearControllerForView(v)
    BY <2>3 DEF ClearControllerForView, ClaimCounted
  <2>4. CASE \E s \in Sizes : Owns(v, c) /\ CommitClaim(v, c, s)
    BY <2>4 DEF CommitClaim, ClaimCounted, IInv, TypeOK
  <2> QED
    BY <2>1, <2>2, <2>3, <2>4
<1> QED
  BY <1>1, <1>2, Inductive, PTL DEF Spec

\* The revision moves exactly when the controller does, and only forward.
THEOREM RevisionAlwaysNames == Spec => RevisionNamesController
<1>1. ASSUME IInv, ClaimCounted, [Next]_vars
      PROVE  [/\ control_revision' >= control_revision
              /\ controller' # controller <=> control_revision' # control_revision]_vars
  <2> SUFFICES ASSUME Next
               PROVE  /\ control_revision' >= control_revision
                      /\ controller' # controller <=> control_revision' # control_revision
    BY <1>1
  <2>0. control_revision \in Nat
    BY <1>1 DEF IInv, TypeOK
  <2>1. PICK v \in Views, c \in Clients :
               \/ UNCHANGED <<controller, next_control_epoch, control_revision>>
               \/ ClearControllerForView(v)
               \/ \E s \in Sizes : Owns(v, c) /\ CommitClaim(v, c, s)
    BY SeatSteps
  <2>2. CASE UNCHANGED <<controller, next_control_epoch, control_revision>>
    BY <2>0, <2>2
  <2>3. CASE ClearControllerForView(v)
    BY <2>0, <2>3 DEF ClearControllerForView, Controls
  <2>4. CASE \E s \in Sizes : Owns(v, c) /\ CommitClaim(v, c, s)
    <3>1. /\ control_revision' = control_revision + 1
          /\ controller'.control_epoch = next_control_epoch + 1
      BY <2>4 DEF CommitClaim
    <3>2. controller' # controller
      <4>1. CASE controller # None
        BY <1>1, <3>1, <4>1 DEF ClaimCounted, IInv, TypeOK, ControllerState
      <4>2. CASE controller = None
        BY <1>1, <2>4, <4>2, ClaimedIsSome
      <4> QED
        BY <4>1, <4>2
    <3> QED
      BY <2>0, <3>1, <3>2
  <2> QED
    BY <2>1, <2>2, <2>3, <2>4
<1> QED
  BY <1>1, Inductive, ClaimAlwaysCounted, PTL DEF Spec, RevisionNamesController

\* The terminal is resized only for its controller, under a newer layout epoch.
THEOREM SizeAlwaysFollows == Spec => SizeFollowsController
<1>1. ASSUME IInv, [Next]_vars
      PROVE  [size' # size => controller' # None /\ layout_epoch' > layout_epoch]_vars
  <2> SUFFICES ASSUME Next, size' # size
               PROVE  controller' # None /\ layout_epoch' > layout_epoch
    BY <1>1
  <2>p. PICK v \in Views, c \in Clients : Call(v, c)
    BY DEF Next
  <2>1. CASE \/ \E s \in Sizes : ClaimControl(v, c, s)
             \/ \E e \in Epochs, s \in Sizes, r \in (1..control_revision) \cup {None} :
                   ClaimControlChecked(v, c, e, s, r)
    <3>1. PICK s \in Sizes : Owns(v, c) /\ CommitClaim(v, c, s)
      BY <2>1 DEF ClaimControl, ClaimControlChecked
    <3>2. SetSize(s)
      BY <3>1 DEF CommitClaim
    <3> QED
      BY <1>1, <3>1, <3>2, ClaimedIsSome, SetSizeLemma DEF IInv
  <2>2. CASE \/ \E k \in 1..MaxClaims, q \in CommandSeqs, s \in Sizes :
                   AuthorizeResize(v, c, k, q, s)
             \/ \E e \in Epochs, k \in 1..MaxClaims, q \in CommandSeqs, s \in Sizes :
                   AuthorizeResizeChecked(v, c, e, k, q, s)
    <3>1. PICK s \in Sizes : SetSize(s) /\ Controls(v) /\ controller' = controller
      BY <2>2 DEF AuthorizeResizeChecked, AuthorizeResize, seats
    <3> QED
      BY <1>1, <3>1, SetSizeLemma DEF IInv, Controls
  <2>3. CASE \/ \E access \in Access : Attach(v, c, access)
             \/ \E t \in ConnIds : CollectWatermarks(c, t)
             \/ \E e \in Epochs : RegisterStateStream(v, e)
             \/ \E e \in Epochs, q \in CommandSeqs : AuthorizeInput(v, c, e, q)
    BY <2>3 DEF Attach, CollectWatermarks, RegisterStateStream, AuthorizeInput, layout
  <2>4. CASE \/ \E access \in Access, g \in Generations, f \in ConnIds, m \in BOOLEAN :
                   TakeOver(v, c, access, g, f, m)
             \/ Detach(v, c)
             \/ \E e \in Epochs : DetachViewIfEpoch(v, c, e)
    BY <2>4 DEF TakeOver, Detach, DetachViewIfEpoch, Remove, layout
  <2> QED
    BY <2>p, <2>1, <2>2, <2>3, <2>4 DEF Call
<1> QED
  BY <1>1, Inductive, PTL DEF Spec, SizeFollowsController

\* A takeover raises the generation and never lowers the fence.
LEMMA RaisedLemma ==
    ASSUME TypeOK, NEW v \in Views, NEW c \in Clients, NEW g \in Generations,
           NEW f \in ConnIds, ~StaleResume(v, c, g)
    PROVE  LET old == attach_watermarks[c][v]
               new == RaisedWatermark(v, c, g, f)
           IN  /\ new \in AttachWatermark
               /\ old # None => /\ new.generation > old.generation
                                /\ new.fence_conn_id >= old.fence_conn_id
<1> DEFINE old == attach_watermarks[c][v]
           new == RaisedWatermark(v, c, g, f)
<1>1. old \in AttachWatermark \cup {None}
  BY DEF TypeOK
<1>2. old # None => /\ old.generation \in Nat
                    /\ old.fence_conn_id \in ConnIds
                    /\ old.fence_conn_id \in Nat
  BY <1>1, ConstantsOK DEF AttachWatermark
<1>3. g \in Nat /\ f \in Nat
  BY ConstantsOK
<1>4. new = [generation |-> g, fence_conn_id |-> IF old # None /\ old.fence_conn_id > f
                                                 THEN old.fence_conn_id ELSE f]
  BY DEF RaisedWatermark
<1>5. new \in AttachWatermark
  BY <1>2, <1>4 DEF AttachWatermark
<1>6. old # None => ~(g <= old.generation)
  BY DEF StaleResume
<1> HIDE DEF old, new
<1>7. old # None => new.generation > old.generation /\ new.fence_conn_id >= old.fence_conn_id
  BY <1>2, <1>3, <1>4, <1>6
<1> QED
  BY <1>5, <1>7 DEF old, new

\* Which watermarks a step may change: one a takeover raises, or those that a
\* collection frees.
LEMMA WatermarkSteps ==
    ASSUME IInv, Next, NEW c \in Clients, NEW v \in Views
    PROVE  LET old == attach_watermarks[c][v]
               new == attach_watermarks'[c][v]
           IN  \/ new = old
               \/ new = None
               \/ \E g \in Generations, f \in ConnIds, access \in Access, m \in BOOLEAN :
                     /\ TakeOver(v, c, access, g, f, m)
                     /\ new = RaisedWatermark(v, c, g, f)
<1>p. PICK w \in Views, d \in Clients : Call(w, d)
  BY DEF Next
<1>1. CASE \E access \in Access, g \in Generations, f \in ConnIds, m \in BOOLEAN :
               TakeOver(w, d, access, g, f, m)
  <2>1. PICK access \in Access, g \in Generations, f \in ConnIds, m \in BOOLEAN :
            TakeOver(w, d, access, g, f, m)
    BY <1>1
  <2>2. attach_watermarks' =
            [attach_watermarks EXCEPT ![d][w] = RaisedWatermark(w, d, g, f)]
    BY <2>1 DEF TakeOver
  <2>3. CASE w = v /\ d = c
    <3>1. attach_watermarks'[c][v] = RaisedWatermark(v, c, g, f)
      BY <2>2, <2>3 DEF IInv, TypeOK
    <3> QED
      BY <2>1, <2>3, <3>1
  <2>4. CASE ~(w = v /\ d = c)
    BY <2>2, <2>4 DEF IInv, TypeOK
  <2> QED
    BY <2>3, <2>4
<1>2. CASE \E t \in ConnIds : CollectWatermarks(d, t)
  BY <1>2 DEF CollectWatermarks, IInv, TypeOK
<1>3. CASE attach_watermarks' = attach_watermarks
  BY <1>3
<1>4. \/ \E access \in Access, g \in Generations, f \in ConnIds, m \in BOOLEAN :
             TakeOver(w, d, access, g, f, m)
      \/ \E t \in ConnIds : CollectWatermarks(d, t)
      \/ attach_watermarks' = attach_watermarks
  BY <1>p DEF Call, Attach, RegisterStateStream, Detach, DetachViewIfEpoch, Remove,
              ClaimControl, ClaimControlChecked, CommitClaim, AuthorizeResize,
              AuthorizeResizeChecked, AuthorizeInput
<1> QED
  BY <1>1, <1>2, <1>3, <1>4

\* Under one client a view passes from one incarnation to the next in a single
\* step only by a takeover: attach needs the view free, and detach frees it.
LEMMA IncarnationSteps ==
    ASSUME IInv, Next, NEW c \in Clients, NEW v \in Views,
           Owns(v, c), Owns(v, c)', EpochOf(v)' # EpochOf(v)
    PROVE  \E g \in Generations, f \in ConnIds, access \in Access, m \in BOOLEAN :
               TakeOver(v, c, access, g, f, m)
<1>p. PICK w \in Views, d \in Clients : Call(w, d)
  BY DEF Next
<1>0. views'[v] # views[v] /\ views[v] # None /\ views'[v] # None
  BY DEF Owns, Attached, EpochOf
<1>1. CASE \E access \in Access, g \in Generations, f \in ConnIds, m \in BOOLEAN :
               TakeOver(w, d, access, g, f, m)
  <2>1. PICK access \in Access, g \in Generations, f \in ConnIds, m \in BOOLEAN :
            TakeOver(w, d, access, g, f, m)
    BY <1>1
  <2>2. w = v
    BY <1>0, <2>1 DEF TakeOver, IInv, TypeOK
  <2>3. d = c
    BY <2>1, <2>2 DEF TakeOver, ViewInvalid, Owns, Attached
  <2> QED
    BY <2>1, <2>2, <2>3
<1>2. CASE \E access \in Access : Attach(w, d, access)
  BY <1>0, <1>2 DEF Attach, Attached, IInv, TypeOK
<1>3. CASE Detach(w, d) \/ \E e \in Epochs : DetachViewIfEpoch(w, d, e)
  BY <1>0, <1>3 DEF Detach, DetachViewIfEpoch, Remove, IInv, TypeOK
<1>4. CASE /\ Attached(w)
           /\ \/ views' = [views EXCEPT ![w].state_stream = TRUE]
              \/ \E q \in CommandSeqs :
                    \/ views' = [views EXCEPT ![w].last_resize_sequence = q]
                    \/ views' = [views EXCEPT ![w].last_input_sequence = q]
  <2>1. views'[v].attachment_epoch = views[v].attachment_epoch
    BY <1>0, <1>4, FieldUpdates
  <2> QED
    BY <2>1 DEF EpochOf
<1>5. CASE views' = views
  BY <1>0, <1>5
<1> QED
  <2>1. CASE \/ \E e \in Epochs : RegisterStateStream(w, e)
             \/ \E k \in 1..MaxClaims, q \in CommandSeqs, s \in Sizes :
                   AuthorizeResize(w, d, k, q, s)
             \/ \E e \in Epochs, k \in 1..MaxClaims, q \in CommandSeqs, s \in Sizes :
                   AuthorizeResizeChecked(w, d, e, k, q, s)
             \/ \E e \in Epochs, q \in CommandSeqs : AuthorizeInput(w, d, e, q)
    BY <1>4, <2>1 DEF RegisterStateStream, AuthorizeResize, AuthorizeResizeChecked,
                      AuthorizeInput, Owns
  <2>2. CASE \/ \E t \in ConnIds : CollectWatermarks(d, t)
             \/ \E s \in Sizes : ClaimControl(w, d, s)
             \/ \E e \in Epochs, s \in Sizes, r \in (1..control_revision) \cup {None} :
                   ClaimControlChecked(w, d, e, s, r)
    BY <1>5, <2>2 DEF CollectWatermarks, ClaimControl, ClaimControlChecked, CommitClaim
  <2> QED
    BY <1>p, <1>1, <1>2, <1>3, <2>1, <2>2 DEF Call

\* Attach attempts of one client for one view are admitted in the order of
\* their generations for as long as its watermark is held.
THEOREM GenerationsAlwaysRise == Spec => GenerationsOnlyRise
<1> DEFINE Rises(c, v) ==
               LET old == attach_watermarks[c][v]
                   new == attach_watermarks'[c][v]
               IN  old # None =>
                   /\ new # None => /\ new.generation >= old.generation
                                    /\ new.fence_conn_id >= old.fence_conn_id
                   /\ Owns(v, c) /\ Owns(v, c)' /\ EpochOf(v)' # EpochOf(v) =>
                          new # None /\ new.generation > old.generation
<1>1. ASSUME IInv, [Next]_vars
      PROVE  [\A c \in Clients, v \in Views : Rises(c, v)]_vars
  <2> SUFFICES ASSUME Next, NEW c \in Clients, NEW v \in Views, attach_watermarks[c][v] # None
               PROVE  Rises(c, v)
    BY <1>1
  <2> DEFINE old == attach_watermarks[c][v]
             new == attach_watermarks'[c][v]
  <2>1. old.generation \in Nat /\ old.fence_conn_id \in Nat
    <3>1. old \in AttachWatermark
      BY <1>1 DEF IInv, TypeOK
    <3> HIDE DEF old
    <3> QED
      BY <3>1, ConstantsOK DEF AttachWatermark
  <2>2. ASSUME NEW g \in Generations, NEW f \in ConnIds, NEW access \in Access,
               NEW m \in BOOLEAN, TakeOver(v, c, access, g, f, m)
        PROVE  new # None /\ new.generation > old.generation /\ new.fence_conn_id >= old.fence_conn_id
    <3>1. new = RaisedWatermark(v, c, g, f)
      BY <1>1, <2>2 DEF TakeOver, IInv, TypeOK
    <3> HIDE DEF new
    <3>2. /\ new \in AttachWatermark
          /\ new.generation > old.generation /\ new.fence_conn_id >= old.fence_conn_id
      BY <1>1, <2>2, <3>1, RaisedLemma DEF TakeOver, IInv
    <3> QED
      BY <3>2, NoneIsNoRecord
  <2>3. new # None => new.generation >= old.generation /\ new.fence_conn_id >= old.fence_conn_id
    <3>1. \/ new = old
          \/ new = None
          \/ \E g \in Generations, f \in ConnIds, access \in Access, m \in BOOLEAN :
                TakeOver(v, c, access, g, f, m)
      BY <1>1, WatermarkSteps
    <3>2. CASE new = old
      BY <2>1, <3>2
    <3>3. CASE \E g \in Generations, f \in ConnIds, access \in Access, m \in BOOLEAN :
                   TakeOver(v, c, access, g, f, m)
      <4>1. new \in AttachWatermark \cup {None}
        BY <1>1, NextKeeps DEF IInv, TypeOK
      <4> HIDE DEF new
      <4>2. new # None => new.generation \in Nat /\ new.fence_conn_id \in Nat
        BY <4>1, ConstantsOK DEF AttachWatermark
      <4> QED
        BY <2>1, <2>2, <3>3, <4>2
    <3> QED
      BY <3>1, <3>2, <3>3
  <2>4. Owns(v, c) /\ Owns(v, c)' /\ EpochOf(v)' # EpochOf(v) =>
            new # None /\ new.generation > old.generation
    BY <1>1, <2>2, IncarnationSteps
  <2> QED
    BY <2>3, <2>4
<1> QED
  BY <1>1, Inductive, PTL DEF Spec, GenerationsOnlyRise

\* A client's watermarks are finitely many and within its cap.
LEMMA WatermarksFinite ==
    Spec => [](WatermarksBounded /\ \A c \in Clients : IsFiniteSet(Outstanding(c)))
<1> DEFINE FInv == WatermarksBounded /\ \A c \in Clients : IsFiniteSet(Outstanding(c))
<1>1. Init => FInv
  <2> SUFFICES ASSUME Init, NEW c \in Clients
               PROVE  IsFiniteSet(Outstanding(c)) /\ Cardinality(Outstanding(c)) <= MaxWatermarks
    BY DEF WatermarksBounded
  <2>1. Outstanding(c) = {}
    BY DEF Init, Outstanding
  <2> QED
    BY <2>1, FS_EmptySet, ConstantsOK
<1>2. ASSUME IInv, FInv, [Next]_vars PROVE FInv'
  <2>1. CASE UNCHANGED vars
    BY <1>2, <2>1 DEF vars, WatermarksBounded, Outstanding
  <2>2. CASE Next
    <3> SUFFICES ASSUME NEW c \in Clients
                 PROVE  /\ IsFiniteSet(Outstanding(c)')
                        /\ Cardinality(Outstanding(c)') <= MaxWatermarks
      BY DEF WatermarksBounded, Outstanding
    <3>1. /\ IsFiniteSet(Outstanding(c))
          /\ Cardinality(Outstanding(c)) <= MaxWatermarks
          /\ Cardinality(Outstanding(c)) \in Nat
          /\ MaxWatermarks \in Nat
      BY <1>2, FS_CardinalityType, ConstantsOK DEF WatermarksBounded
    <3>2. CASE Outstanding(c)' \subseteq Outstanding(c)
      BY <3>1, <3>2, FS_Subset, FS_CardinalityType
    <3>3. CASE \E v \in Views : /\ v \in Outstanding(c)'
                                /\ v \notin Outstanding(c)
      <4>1. PICK v \in Views : v \in Outstanding(c)' /\ v \notin Outstanding(c)
        BY <3>3
      <4>2. PICK g \in Generations, f \in ConnIds, access \in Access, m \in BOOLEAN :
                TakeOver(v, c, access, g, f, m)
        BY <1>2, <2>2, <4>1, WatermarkSteps DEF Outstanding
      <4>3. ~(Cardinality(Outstanding(c)) >= MaxWatermarks)
        BY <4>1, <4>2 DEF TakeOver, ViewLimit, Outstanding
      <4>4. Outstanding(c)' \subseteq Outstanding(c) \cup {v}
        BY <1>2, <4>2 DEF TakeOver, Outstanding, IInv, TypeOK
      <4>5. /\ IsFiniteSet(Outstanding(c) \cup {v})
            /\ Cardinality(Outstanding(c) \cup {v}) = Cardinality(Outstanding(c)) + 1
        BY <3>1, <4>1, FS_AddElement
      <4> QED
        BY <3>1, <4>3, <4>4, <4>5, FS_Subset, FS_CardinalityType
    <3> QED
      BY <3>2, <3>3 DEF Outstanding
  <2> QED
    BY <1>2, <2>1, <2>2
<1> QED
  BY <1>1, <1>2, Inductive, PTL DEF Spec

\* No client outgrows its cap of outstanding watermarks.
THEOREM WatermarksAlwaysBounded == Spec => []WatermarksBounded
BY WatermarksFinite, PTL

-----------------------------------------------------------------------------
(***************************************************************************)
(* Commands.                                                               *)
(***************************************************************************)

\* An attachment knows the last commands let through under its epoch, and
\* nothing has been let through under an epoch still to come.
CommandsKnown ==
    /\ \A v \in Views : Attached(v) =>
           applied[EpochOf(v)] = [input |-> views[v].last_input_sequence,
                                  resize |-> views[v].last_resize_sequence]
    /\ \A e \in Epochs : e > next_attachment_epoch => applied[e] = [input |-> 0, resize |-> 0]

\* A mint starts its epoch with nothing let through.
LEMMA MintKnows ==
    ASSUME IInv, CommandsKnown, NEW v \in Views, NEW c \in Clients, NEW access \in Access,
           next_attachment_epoch < MaxEpoch,
           next_attachment_epoch' = next_attachment_epoch + 1,
           views' = [views EXCEPT ![v] = NewView(c, access, next_attachment_epoch')],
           UNCHANGED applied
    PROVE  CommandsKnown'
<1> DEFINE n == next_attachment_epoch + 1
<1>1. n \in Epochs /\ n > next_attachment_epoch /\ next_attachment_epoch \in Nat
  BY ConstantsOK DEF IInv, TypeOK, Epochs
<1>2. /\ views'[v] = NewView(c, access, n)
      /\ \A w \in Views : w # v => views'[w] = views[w]
  BY DEF IInv, TypeOK
<1>3. applied[n] = [input |-> 0, resize |-> 0]
  BY <1>1 DEF CommandsKnown
<1>4. \A w \in Views : views'[w] # None =>
          applied[views'[w].attachment_epoch] = [input |-> views'[w].last_input_sequence,
                                                 resize |-> views'[w].last_resize_sequence]
  <2> HIDE DEF n
  <2> SUFFICES ASSUME NEW w \in Views, views'[w] # None
               PROVE  applied[views'[w].attachment_epoch] =
                          [input |-> views'[w].last_input_sequence,
                           resize |-> views'[w].last_resize_sequence]
    OBVIOUS
  <2>1. CASE w = v
    BY <1>2, <1>3, <2>1 DEF NewView
  <2>2. CASE w # v
    BY <1>2, <2>2 DEF CommandsKnown, Attached, EpochOf
  <2> QED
    BY <2>1, <2>2
<1>5. \A e \in Epochs : e > n => applied[e] = [input |-> 0, resize |-> 0]
  BY <1>1 DEF CommandsKnown, Epochs
<1> QED
  BY <1>4, <1>5 DEF CommandsKnown, Attached, EpochOf, Epochs

\* A command is recorded where its attachment will look for it, and advances.
LEMMA CommandKnows ==
    ASSUME IInv, CommandsKnown, NEW v \in Views, NEW q \in CommandSeqs, Attached(v),
           UNCHANGED next_attachment_epoch,
           \/ /\ q > views[v].last_resize_sequence
              /\ views' = [views EXCEPT ![v].last_resize_sequence = q]
              /\ applied' = [applied EXCEPT ![EpochOf(v)].resize = q]
           \/ /\ q > views[v].last_input_sequence
              /\ views' = [views EXCEPT ![v].last_input_sequence = q]
              /\ applied' = [applied EXCEPT ![EpochOf(v)].input = q]
    PROVE  /\ CommandsKnown'
           /\ \A e \in Epochs :
                  /\ applied'[e].input >= applied[e].input
                  /\ applied'[e].resize >= applied[e].resize
                  /\ applied'[e] # applied[e] => EpochOf(v) = e
<1> DEFINE ev == EpochOf(v)
<1>1. /\ views[v] \in AttachedView
      /\ ev \in Epochs
      /\ applied[ev] = [input |-> views[v].last_input_sequence,
                        resize |-> views[v].last_resize_sequence]
      /\ ev <= next_attachment_epoch
  BY DEF IInv, TypeOK, Attached, EpochOf, AttachedView, CommandsKnown, Epochs, EpochsDistinct
<1>2. /\ applied \in [Epochs -> [input : CommandSeqs \cup {0}, resize : CommandSeqs \cup {0}]]
      /\ CommandSeqs \subseteq Nat
      /\ views[v].last_input_sequence \in Nat
      /\ views[v].last_resize_sequence \in Nat
  BY <1>1, ConstantsOK DEF IInv, TypeOK, Epochs, AttachedView
<1>3. /\ views'[v].attachment_epoch = ev
      /\ \A w \in Views : w # v => views'[w] = views[w]
      /\ \A e \in Epochs : e # ev => applied'[e] = applied[e]
  <2>1. views'[v].attachment_epoch = ev
    BY FieldUpdates DEF Attached, EpochOf
  <2>2. \A w \in Views : w # v => views'[w] = views[w]
    BY DEF IInv, TypeOK
  <2>3. \A e \in Epochs : e # ev => applied'[e] = applied[e]
    BY <1>2
  <2> QED
    BY <2>1, <2>2, <2>3
<1>4. /\ applied'[ev] = [input |-> views'[v].last_input_sequence,
                         resize |-> views'[v].last_resize_sequence]
      /\ views'[v].last_input_sequence >= views[v].last_input_sequence
      /\ views'[v].last_resize_sequence >= views[v].last_resize_sequence
  <2>1. CASE /\ q > views[v].last_resize_sequence
             /\ views' = [views EXCEPT ![v].last_resize_sequence = q]
             /\ applied' = [applied EXCEPT ![EpochOf(v)].resize = q]
    <3>1. /\ views'[v].last_resize_sequence = q
          /\ views'[v].last_input_sequence = views[v].last_input_sequence
      BY <1>1, <2>1 DEF IInv, TypeOK, AttachedView
    <3>2. applied'[ev] = [applied[ev] EXCEPT !.resize = q]
      BY <1>1, <1>2, <2>1
    <3> QED
      BY <1>1, <1>2, <2>1, <3>1, <3>2
  <2>2. CASE /\ q > views[v].last_input_sequence
             /\ views' = [views EXCEPT ![v].last_input_sequence = q]
             /\ applied' = [applied EXCEPT ![EpochOf(v)].input = q]
    <3>1. /\ views'[v].last_input_sequence = q
          /\ views'[v].last_resize_sequence = views[v].last_resize_sequence
      BY <1>1, <2>2 DEF IInv, TypeOK, AttachedView
    <3>2. applied'[ev] = [applied[ev] EXCEPT !.input = q]
      BY <1>1, <1>2, <2>2
    <3> QED
      BY <1>1, <1>2, <2>2, <3>1, <3>2
  <2> QED
    BY <2>1, <2>2
<1> HIDE DEF ev
<1>5. CommandsKnown'
  <2>1. \A w \in Views : views'[w] # None =>
            applied'[views'[w].attachment_epoch] = [input |-> views'[w].last_input_sequence,
                                                    resize |-> views'[w].last_resize_sequence]
    <3> SUFFICES ASSUME NEW w \in Views, w # v, views[w] # None
                 PROVE  applied'[views[w].attachment_epoch] =
                            [input |-> views[w].last_input_sequence,
                             resize |-> views[w].last_resize_sequence]
      BY <1>3, <1>4
    <3>1. EpochOf(w) \in Epochs /\ EpochOf(w) # ev
      BY DEF IInv, TypeOK, AttachedView, EpochsDistinct, Attached, EpochOf, Epochs, ev
    <3> QED
      BY <1>3, <3>1 DEF CommandsKnown, Attached, EpochOf
  <2>2. \A e \in Epochs : e > next_attachment_epoch => applied'[e] = [input |-> 0, resize |-> 0]
    <3>1. \A e \in Epochs : e > next_attachment_epoch => e # ev
      BY <1>1 DEF IInv, TypeOK, Epochs
    <3> QED
      BY <1>3, <3>1 DEF CommandsKnown
  <2> QED
    BY <2>1, <2>2 DEF CommandsKnown, Attached, EpochOf, Epochs
<1>6. \A e \in Epochs :
          /\ applied'[e].input >= applied[e].input
          /\ applied'[e].resize >= applied[e].resize
          /\ applied'[e] # applied[e] => e = ev
  BY <1>1, <1>2, <1>3, <1>4
<1> QED
  BY <1>5, <1>6 DEF ev

\* Every step keeps what attachments know of their commands, and lets through
\* only newer ones, under an epoch that is attached.
LEMMA CommandStep ==
    ASSUME IInv, CommandsKnown, Next
    PROVE  /\ CommandsKnown'
           /\ \A e \in Epochs :
                  /\ applied'[e].input >= applied[e].input
                  /\ applied'[e].resize >= applied[e].resize
                  /\ applied'[e] # applied[e] => \E v \in Views : Attached(v) /\ EpochOf(v) = e
<1>p. PICK v \in Views, c \in Clients : Call(v, c)
  BY DEF Next
<1>0. \A e \in Epochs : applied[e].input \in Nat /\ applied[e].resize \in Nat
  <2>1. applied \in [Epochs -> [input : CommandSeqs \cup {0}, resize : CommandSeqs \cup {0}]]
    BY DEF IInv, TypeOK, Epochs
  <2>2. CommandSeqs \cup {0} \subseteq Nat
    BY ConstantsOK
  <2> QED
    BY <2>1, <2>2
<1>1. ASSUME UNCHANGED applied
      PROVE  \A e \in Epochs :
                  /\ applied'[e].input >= applied[e].input
                  /\ applied'[e].resize >= applied[e].resize
                  /\ applied'[e] = applied[e]
  BY <1>0, <1>1
<1>2. CASE \E access \in Access : Attach(v, c, access)
  BY <1>1, <1>2, MintKnows DEF Attach
<1>3. CASE \E access \in Access, g \in Generations, f \in ConnIds, m \in BOOLEAN :
               TakeOver(v, c, access, g, f, m)
  BY <1>1, <1>3, MintKnows DEF TakeOver
<1>4. CASE Detach(v, c) \/ \E e \in Epochs : DetachViewIfEpoch(v, c, e)
  <2>1. /\ views' = [views EXCEPT ![v] = None]
        /\ UNCHANGED <<applied, next_attachment_epoch>>
    BY <1>4 DEF Detach, DetachViewIfEpoch, Remove
  <2>2. CommandsKnown'
    BY <2>1 DEF CommandsKnown, Attached, EpochOf, IInv, TypeOK
  <2> QED
    BY <1>1, <2>1, <2>2
<1>5. CASE \E e \in Epochs : RegisterStateStream(v, e)
  <2>1. /\ Attached(v)
        /\ views' = [views EXCEPT ![v].state_stream = TRUE]
        /\ UNCHANGED <<applied, next_attachment_epoch>>
    BY <1>5 DEF RegisterStateStream
  <2>2. /\ \A w \in Views : w # v => views'[w] = views[w]
        /\ views'[v].attachment_epoch = views[v].attachment_epoch
        /\ views'[v].last_input_sequence = views[v].last_input_sequence
        /\ views'[v].last_resize_sequence = views[v].last_resize_sequence
    BY <2>1 DEF IInv, TypeOK, Attached, AttachedView
  <2>3. CommandsKnown'
    BY <2>1, <2>2 DEF CommandsKnown, Attached, EpochOf
  <2> QED
    BY <1>1, <2>1, <2>3
<1>6. CASE \/ \E k \in 1..MaxClaims, q \in CommandSeqs, s \in Sizes :
                 AuthorizeResize(v, c, k, q, s)
           \/ \E e \in Epochs, k \in 1..MaxClaims, q \in CommandSeqs, s \in Sizes :
                 AuthorizeResizeChecked(v, c, e, k, q, s)
           \/ \E e \in Epochs, q \in CommandSeqs : AuthorizeInput(v, c, e, q)
  <2>1. PICK q \in CommandSeqs :
           /\ Attached(v)
           /\ UNCHANGED next_attachment_epoch
           /\ \/ /\ q > views[v].last_resize_sequence
                 /\ views' = [views EXCEPT ![v].last_resize_sequence = q]
                 /\ applied' = [applied EXCEPT ![EpochOf(v)].resize = q]
              \/ /\ q > views[v].last_input_sequence
                 /\ views' = [views EXCEPT ![v].last_input_sequence = q]
                 /\ applied' = [applied EXCEPT ![EpochOf(v)].input = q]
    BY <1>6 DEF AuthorizeResizeChecked, AuthorizeResize, AuthorizeInput, Owns, EpochOf
  <2> QED
    BY <2>1, CommandKnows
<1>7. CASE \/ \E t \in ConnIds : CollectWatermarks(c, t)
           \/ \E s \in Sizes : ClaimControl(v, c, s)
           \/ \E e \in Epochs, s \in Sizes, r \in (1..control_revision) \cup {None} :
                 ClaimControlChecked(v, c, e, s, r)
  <2>1. UNCHANGED <<views, applied, next_attachment_epoch>>
    BY <1>7 DEF CollectWatermarks, ClaimControl, ClaimControlChecked, CommitClaim
  <2> QED
    BY <1>1, <2>1 DEF CommandsKnown, Attached, EpochOf
<1> QED
  BY <1>p, <1>2, <1>3, <1>4, <1>5, <1>6, <1>7 DEF Call

\* No input and no resize is let through twice, or behind a newer one, or for
\* an attachment that has ended.
THEOREM CommandsAlwaysAdvance == Spec => CommandsOnlyAdvance
<1>1. Init => CommandsKnown
  BY DEF Init, CommandsKnown, Attached, Epochs
<1>2. IInv /\ CommandsKnown /\ [Next]_vars => CommandsKnown'
  <2>1. CommandsKnown /\ UNCHANGED vars => CommandsKnown'
    BY DEF vars, CommandsKnown, Attached, EpochOf
  <2> QED
    BY <2>1, CommandStep
<1>3. IInv /\ CommandsKnown /\ [Next]_vars =>
          [\A e \in Epochs :
             /\ applied'[e].input >= applied[e].input
             /\ applied'[e].resize >= applied[e].resize
             /\ applied'[e] # applied[e] =>
                    \E v \in Views : Attached(v) /\ EpochOf(v) = e]_vars
  BY CommandStep
<1> QED
  BY <1>1, <1>2, <1>3, Inductive, PTL DEF Spec, CommandsOnlyAdvance
=============================================================================
